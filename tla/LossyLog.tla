------------------------------ MODULE LossyLog ------------------------------
(***************************************************************************)
(* What the telemetry outputs promise: each output is a log that may leave *)
(* messages out but never reorders, repeats or invents one.  Messages are  *)
(* numbered in the order in which they were published, one order for all   *)
(* outputs.  No queues, no threads and no failures: those belong to the    *)
(* implementation.                                                         *)
(***************************************************************************)
EXTENDS Naturals, Sequences

CONSTANT Outputs

VARIABLES published,   \* number of messages published so far
          log          \* log[o]: the messages that output o has delivered

logVars == <<published, log>>

Increasing(s) == \A i, j \in DOMAIN s : i < j => s[i] < s[j]

Extends(s, t) == Len(s) <= Len(t) /\ \A i \in DOMAIN s : t[i] = s[i]

LossyInit ==
    /\ published = 0
    /\ log = [o \in Outputs |-> <<>>]

Publish ==
    /\ published' = published + 1
    /\ UNCHANGED log

\* An output may deliver several messages at once.
Deliver(o) ==
    /\ Extends(log[o], log'[o])
    /\ Increasing(log'[o])
    /\ \A i \in DOMAIN log'[o] : log'[o][i] <= published
    /\ \A other \in Outputs \ {o} : log'[other] = log[other]
    /\ UNCHANGED published

LossyNext == Publish \/ \E o \in Outputs : Deliver(o)

LossySpec == LossyInit /\ [][LossyNext]_logVars
=============================================================================
