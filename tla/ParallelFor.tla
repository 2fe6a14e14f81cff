----------------------------- MODULE ParallelFor -----------------------------
(***************************************************************************)
(* What TrackingWorkerPool promises its caller: run(n) works every item    *)
(* 0 .. n-1 exactly once, in any order and any overlap, and returns when   *)
(* the last of them is finished.  Threads, slots and wakeups are left out. *)
(***************************************************************************)
EXTENDS Naturals

CONSTANT MaxItems   \* the largest item count of a run

VARIABLES running,    \* is a run in progress?
          remaining,  \* items of the run nobody started yet
          active      \* items being worked

forVars == <<running, remaining, active>>

ForInit ==
    /\ running = FALSE
    /\ remaining = {}
    /\ active = {}

Start(n) ==
    /\ ~running
    /\ running' = TRUE
    /\ remaining' = 0 .. n - 1
    /\ UNCHANGED active

BeginItem(i) ==
    /\ i \in remaining
    /\ remaining' = remaining \ {i}
    /\ active' = active \cup {i}
    /\ UNCHANGED running

EndItem(i) ==
    /\ i \in active
    /\ active' = active \ {i}
    /\ UNCHANGED <<running, remaining>>

Return ==
    /\ running
    /\ remaining = {} /\ active = {}
    /\ running' = FALSE
    /\ UNCHANGED <<remaining, active>>

ForNext ==
    \/ \E n \in 1 .. MaxItems : Start(n)
    \/ \E i \in 0 .. MaxItems - 1 : BeginItem(i) \/ EndItem(i)
    \/ Return

ForSpec == ForInit /\ [][ForNext]_forVars
=============================================================================
