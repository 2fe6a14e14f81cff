----------------------------- MODULE SinksProofs -----------------------------
(***************************************************************************)
(* Proofs about module Sinks, for any set of publishing threads, any queue *)
(* capacity, any number of messages and any number of restarts.            *)
(*                                                                         *)
(* The telemetry outputs implement LossyLog.  The argument follows a       *)
(* message: it is above everything its output was offered before (the      *)
(* publishing lock), and from there on it only moves, in order, from the   *)
(* queue to the stream buffer and the log, or is lost.                     *)
(***************************************************************************)
EXTENDS Sinks, SequenceTheorems, TLAPS

Rising(s) == \A i, j \in DOMAIN s : i < j => s[i] < s[j]

\* Everything in s is below everything in t.
Before(s, t) == \A x \in Elements(s), y \in Elements(t) : x < y

\* What waits in the stream of an output; only the log file has a buffer.
Buffered(o) == IF o = "file" THEN buffer ELSE <<>>

-----------------------------------------------------------------------------
(* Sequences of numbers and their elements *)

LEMMA ElementsOfEmpty == Elements(<<>>) = {}
  BY DEF Elements

LEMMA ElementsOfAppend ==
    ASSUME NEW S, NEW s \in Seq(S), NEW e \in S
    PROVE  Elements(Append(s, e)) = Elements(s) \cup {e}
  <1>1. DOMAIN Append(s, e) = DOMAIN s \cup {Len(s) + 1}
    BY AppendProperties, LenProperties
  <1>2. \A i \in DOMAIN s : Append(s, e)[i] = s[i]
    BY AppendProperties, LenProperties
  <1>3. Append(s, e)[Len(s) + 1] = e
    BY AppendProperties
  <1> QED
    BY <1>1, <1>2, <1>3 DEF Elements

LEMMA ElementsOfConcat ==
    ASSUME NEW S, NEW s \in Seq(S), NEW t \in Seq(S)
    PROVE  Elements(s \o t) = Elements(s) \cup Elements(t)
  <1>1. /\ Len(s) \in Nat /\ DOMAIN s = 1 .. Len(s)
        /\ Len(t) \in Nat /\ DOMAIN t = 1 .. Len(t)
        /\ DOMAIN (s \o t) = 1 .. Len(s) + Len(t)
    BY ConcatProperties, LenProperties
  <1>2. \A i \in DOMAIN (s \o t) :
           (s \o t)[i] = IF i <= Len(s) THEN s[i] ELSE t[i - Len(s)]
    BY <1>1, ConcatProperties
  <1>3. Elements(s \o t) \subseteq Elements(s) \cup Elements(t)
    BY <1>1, <1>2 DEF Elements
  <1>4. ASSUME NEW x \in Elements(s) PROVE x \in Elements(s \o t)
    <2>1. PICK i \in DOMAIN s : x = s[i]
      BY <1>4 DEF Elements
    <2> QED
      BY <2>1, <1>1, <1>2 DEF Elements
  <1>5. ASSUME NEW x \in Elements(t) PROVE x \in Elements(s \o t)
    <2>1. PICK i \in DOMAIN t : x = t[i]
      BY <1>5 DEF Elements
    <2>2. /\ i + Len(s) \in DOMAIN (s \o t) /\ ~(i + Len(s) <= Len(s))
          /\ i + Len(s) - Len(s) = i
      BY <2>1, <1>1
    <2> QED
      BY <2>1, <2>2, <1>2 DEF Elements
  <1> QED
    BY <1>3, <1>4, <1>5

LEMMA ElementsOfQueue ==
    ASSUME NEW S, NEW s \in Seq(S), s # <<>>
    PROVE  /\ Elements(s) = {Head(s)} \cup Elements(Tail(s))
           /\ Head(s) \in S /\ Tail(s) \in Seq(S)
  <1>1. /\ Head(s) \in S /\ Tail(s) \in Seq(S) /\ Len(s) \in Nat \ {0}
        /\ DOMAIN s = 1 .. Len(s) /\ DOMAIN Tail(s) = 1 .. Len(s) - 1
        /\ \A i \in 1 .. Len(s) - 1 : Tail(s)[i] = s[i + 1]
        /\ Head(s) = s[1]
    BY HeadTailProperties, EmptySeq, LenProperties
  <1>2. ASSUME NEW x \in Elements(s) PROVE x \in {Head(s)} \cup Elements(Tail(s))
    <2>1. PICK i \in DOMAIN s : x = s[i]
      BY <1>2 DEF Elements
    <2>2. CASE i = 1
      BY <1>1, <2>1, <2>2
    <2>3. CASE i # 1
      <3>1. i - 1 \in DOMAIN Tail(s) /\ Tail(s)[i - 1] = s[i]
        BY <1>1, <2>1, <2>3
      <3> QED
        BY <2>1, <3>1 DEF Elements
    <2> QED
      BY <2>2, <2>3
  <1>3. ASSUME NEW x \in {Head(s)} \cup Elements(Tail(s)) PROVE x \in Elements(s)
    BY <1>1, <1>3 DEF Elements
  <1> QED
    BY <1>1, <1>2, <1>3

LEMMA SplitIndex ==
    ASSUME NEW m \in Nat, NEW n \in Nat
    PROVE  \A i \in 1 .. m + n : i \in 1 .. m \/ \E k \in 1 .. n : i = m + k
  <1> SUFFICES ASSUME NEW i \in 1 .. m + n, i \notin 1 .. m
               PROVE  \E k \in 1 .. n : i = m + k
    OBVIOUS
  <1>1. i - m \in 1 .. n /\ i = m + (i - m)
    OBVIOUS
  <1> QED
    BY <1>1

LEMMA ConcatIs ==
    ASSUME NEW S, NEW s \in Seq(S), NEW t \in Seq(S)
    PROVE  /\ s \o t \in Seq(S) /\ Len(s \o t) = Len(s) + Len(t)
           /\ DOMAIN (s \o t) = 1 .. Len(s) + Len(t)
           /\ \A i \in 1 .. Len(s) : (s \o t)[i] = s[i]
           /\ \A i \in 1 .. Len(t) : (s \o t)[Len(s) + i] = t[i]
  <1>1. Len(s) \in Nat /\ Len(t) \in Nat
    BY LenProperties
  <1>2. /\ s \o t \in Seq(S) /\ Len(s \o t) = Len(s) + Len(t)
        /\ \A i \in 1 .. Len(s) + Len(t) :
              (s \o t)[i] = IF i <= Len(s) THEN s[i] ELSE t[i - Len(s)]
    BY ConcatProperties
  <1>3. DOMAIN (s \o t) = 1 .. Len(s) + Len(t)
    BY <1>2, LenProperties
  <1>4. \A i \in 1 .. Len(s) : (s \o t)[i] = s[i]
    BY <1>1, <1>2
  <1>5. ASSUME NEW i \in 1 .. Len(t) PROVE (s \o t)[Len(s) + i] = t[i]
    <2>1. /\ Len(s) + i \in 1 .. Len(s) + Len(t) /\ ~(Len(s) + i <= Len(s))
          /\ Len(s) + i - Len(s) = i
      BY <1>1
    <2> QED
      BY <1>2, <2>1
  <1> QED
    BY <1>2, <1>3, <1>4, <1>5

LEMMA ConcatRight ==
    ASSUME NEW S, NEW s \in Seq(S), NEW t \in Seq(S), NEW i \in 1 .. Len(t)
    PROVE  (s \o t)[Len(s) + i] = t[i]
  BY ConcatIs

LEMMA TableIsSeq ==
    ASSUME NEW n \in Nat, NEW S, NEW f, f = [i \in 1 .. n |-> f[i]],
           \A i \in 1 .. n : f[i] \in S
    PROVE  f \in Seq(S) /\ Len(f) = n
  OBVIOUS

LEMMA ConcatUnique ==
    ASSUME NEW S, NEW s \in Seq(S), NEW t \in Seq(S), NEW u \in Seq(S),
           Len(u) = Len(s) + Len(t),
           \A i \in 1 .. Len(s) : u[i] = s[i],
           \A i \in 1 .. Len(t) : u[Len(s) + i] = t[i]
    PROVE  u = s \o t
  <1>1. Len(s) \in Nat /\ Len(t) \in Nat
    BY LenProperties
  <1>2. \A i \in 1 .. Len(s) + Len(t) : u[i] = (s \o t)[i]
    BY <1>1, SplitIndex, ConcatIs
  <1> QED
    BY <1>2, ConcatIs, SeqEqual

\* A sequence cut in two.
LEMMA ElementsOfCut ==
    ASSUME NEW S, NEW s \in Seq(S), NEW n \in 0 .. Len(s)
    PROVE  /\ SubSeq(s, 1, n) \in Seq(S) /\ SubSeq(s, n + 1, Len(s)) \in Seq(S)
           /\ Elements(s) = Elements(SubSeq(s, 1, n)) \cup Elements(SubSeq(s, n + 1, Len(s)))
  <1>1. Len(s) \in Nat /\ DOMAIN s = 1 .. Len(s) /\ \A i \in 1 .. Len(s) : s[i] \in S
    BY LenProperties
  <1>2. /\ SubSeq(s, 1, n) \in Seq(S) /\ SubSeq(s, n + 1, Len(s)) \in Seq(S)
    BY <1>1, SubSeqProperties
  <1>3. s = SubSeq(s, 1, n) \o SubSeq(s, n + 1, Len(s))
    <2>1. /\ 1 \in 1 .. Len(s) + 1 /\ n \in 1 - 1 .. Len(s) /\ Len(s) \in n .. Len(s)
      BY <1>1
    <2>2. SubSeq(s, 1, Len(s)) = SubSeq(s, 1, n) \o SubSeq(s, n + 1, Len(s))
      BY <2>1, ConcatAdjacentSubSeq
    <2> QED
      BY <2>2, SubSeqFull
  <1> QED
    BY <1>2, <1>3, ElementsOfConcat

LEMMA RisingAppend ==
    ASSUME NEW s \in Seq(Nat), NEW e \in Nat, Rising(s), \A x \in Elements(s) : x < e
    PROVE  Rising(Append(s, e))
  <1>1. /\ Len(s) \in Nat /\ DOMAIN s = 1 .. Len(s)
        /\ DOMAIN Append(s, e) = 1 .. Len(s) + 1
        /\ \A i \in 1 .. Len(s) : Append(s, e)[i] = s[i]
        /\ Append(s, e)[Len(s) + 1] = e
    BY AppendProperties, LenProperties
  <1>2. \A i \in DOMAIN s : s[i] < e
    BY DEF Elements
  <1> QED
    BY <1>1, <1>2 DEF Rising

LEMMA RisingConcat ==
    ASSUME NEW s \in Seq(Nat), NEW t \in Seq(Nat), Rising(s), Rising(t), Before(s, t)
    PROVE  Rising(s \o t)
  <1>1. /\ Len(s) \in Nat /\ DOMAIN s = 1 .. Len(s)
        /\ Len(t) \in Nat /\ DOMAIN t = 1 .. Len(t)
        /\ DOMAIN (s \o t) = 1 .. Len(s) + Len(t)
    BY ConcatProperties, LenProperties
  <1>2. \A i \in DOMAIN (s \o t) :
           (s \o t)[i] = IF i <= Len(s) THEN s[i] ELSE t[i - Len(s)]
    BY <1>1, ConcatProperties
  <1>3. \A i \in DOMAIN s, j \in DOMAIN t : s[i] < t[j]
    BY DEF Before, Elements
  <1>4. SUFFICES ASSUME NEW i \in DOMAIN (s \o t), NEW j \in DOMAIN (s \o t), i < j
                 PROVE  (s \o t)[i] < (s \o t)[j]
    BY DEF Rising
  <1>5. CASE j <= Len(s)
    BY <1>1, <1>2, <1>4, <1>5 DEF Rising
  <1>6. CASE ~(i <= Len(s))
    <2>1. /\ i - Len(s) \in DOMAIN t /\ j - Len(s) \in DOMAIN t
          /\ i - Len(s) < j - Len(s) /\ ~(j <= Len(s))
      BY <1>1, <1>4, <1>6
    <2> QED
      BY <2>1, <1>2, <1>6 DEF Rising
  <1>7. CASE i <= Len(s) /\ ~(j <= Len(s))
    <2>1. i \in DOMAIN s /\ j - Len(s) \in DOMAIN t
      BY <1>1, <1>4, <1>7
    <2> QED
      BY <2>1, <1>2, <1>3, <1>7
  <1> QED
    BY <1>1, <1>4, <1>5, <1>6, <1>7

LEMMA RisingTail ==
    ASSUME NEW s \in Seq(Nat), s # <<>>, Rising(s)
    PROVE  Rising(Tail(s)) /\ \A x \in Elements(Tail(s)) : Head(s) < x
  <1>1. /\ Len(s) \in Nat \ {0} /\ DOMAIN s = 1 .. Len(s)
        /\ DOMAIN Tail(s) = 1 .. Len(s) - 1
        /\ \A i \in 1 .. Len(s) - 1 : Tail(s)[i] = s[i + 1]
        /\ Head(s) = s[1]
    BY HeadTailProperties, EmptySeq, LenProperties
  <1>2. Rising(Tail(s))
    BY <1>1, SMTT(30) DEF Rising
  <1>3. ASSUME NEW x \in Elements(Tail(s)) PROVE Head(s) < x
    <2>1. PICK i \in 1 .. Len(s) - 1 : x = s[i + 1]
      BY <1>1, <1>3 DEF Elements
    <2>2. 1 \in DOMAIN s /\ i + 1 \in DOMAIN s /\ 1 < i + 1
      BY <1>1, <2>1
    <2> QED
      BY <1>1, <2>1, <2>2 DEF Rising
  <1> QED
    BY <1>2, <1>3

LEMMA RisingPrefix ==
    ASSUME NEW s \in Seq(Nat), NEW n \in 0 .. Len(s), Rising(s)
    PROVE  Rising(SubSeq(s, 1, n))
  <1>1. /\ Len(s) \in Nat /\ DOMAIN s = 1 .. Len(s) /\ n \in Nat
        /\ \A i \in 1 .. n : s[i] \in Nat
    BY LenProperties
  <1>2. /\ DOMAIN SubSeq(s, 1, n) = 1 .. n
        /\ \A i \in 1 .. n : SubSeq(s, 1, n)[i] = s[i]
    BY <1>1, SubSeqProperties, LenProperties
  <1> QED
    BY <1>1, <1>2 DEF Rising

-----------------------------------------------------------------------------
(* What becomes of the messages of one output: l its log, b its buffer, q   *)
(* its queue, off the messages offered to it, los the ones it lost.         *)

Ordered(l, b, q) ==
    /\ Rising(l) /\ Rising(b) /\ Rising(q)
    /\ Before(l, b) /\ Before(l, q) /\ Before(b, q)

FlowOK(l, b, q, off, los) ==
    /\ l \in Seq(Nat) /\ b \in Seq(Nat) /\ q \in Seq(Nat) /\ off \subseteq Nat
    /\ Ordered(l, b, q)
    /\ off = Elements(l) \cup Elements(b) \cup Elements(q) \cup los

\* tryPush of a number above all earlier ones
LEMMA FlowPush ==
    ASSUME NEW l, NEW b, NEW q, NEW off, NEW los, FlowOK(l, b, q, off, los),
           NEW m \in Nat, \A x \in off : x < m
    PROVE  /\ FlowOK(l, b, Append(q, m), off \cup {m}, los)
           /\ FlowOK(l, b, q, off \cup {m}, los \cup {m})
  <1> USE DEF FlowOK, Ordered
  <1>1. /\ Append(q, m) \in Seq(Nat) /\ Elements(Append(q, m)) = Elements(q) \cup {m}
    BY ElementsOfAppend, AppendProperties
  <1>2. Rising(Append(q, m))
    BY RisingAppend
  <1>3. Before(l, Append(q, m)) /\ Before(b, Append(q, m))
    BY <1>1 DEF Before
  <1> QED
    BY <1>1, <1>2, <1>3

LEMMA FlowDiscard ==
    ASSUME NEW l, NEW b, NEW q, NEW off, NEW los, FlowOK(l, b, q, off, los), q # <<>>
    PROVE  FlowOK(l, b, Tail(q), off, los \cup {Head(q)})
  <1> USE DEF FlowOK, Ordered
  <1>1. Elements(q) = {Head(q)} \cup Elements(Tail(q)) /\ Tail(q) \in Seq(Nat)
    BY ElementsOfQueue
  <1>2. Rising(Tail(q))
    BY RisingTail
  <1>3. Before(l, Tail(q)) /\ Before(b, Tail(q))
    BY <1>1 DEF Before
  <1> QED
    BY <1>1, <1>2, <1>3

\* from the queue to the stream buffer
LEMMA FlowBuffer ==
    ASSUME NEW l, NEW b, NEW q, NEW off, NEW los, FlowOK(l, b, q, off, los), q # <<>>
    PROVE  FlowOK(l, Append(b, Head(q)), Tail(q), off, los)
  <1> USE DEF FlowOK, Ordered
  <1>1. /\ Elements(q) = {Head(q)} \cup Elements(Tail(q))
        /\ Tail(q) \in Seq(Nat) /\ Head(q) \in Nat
    BY ElementsOfQueue
  <1>2. Rising(Tail(q)) /\ \A x \in Elements(Tail(q)) : Head(q) < x
    BY RisingTail
  <1>3. /\ Append(b, Head(q)) \in Seq(Nat)
        /\ Elements(Append(b, Head(q))) = Elements(b) \cup {Head(q)}
    BY <1>1, ElementsOfAppend, AppendProperties
  <1>4. \A x \in Elements(b) : x < Head(q)
    BY <1>1 DEF Before
  <1>5. Rising(Append(b, Head(q)))
    BY <1>1, <1>4, RisingAppend
  <1>6. /\ Before(l, Append(b, Head(q))) /\ Before(l, Tail(q))
        /\ Before(Append(b, Head(q)), Tail(q))
    BY <1>1, <1>2, <1>3 DEF Before
  <1> QED
    BY <1>1, <1>2, <1>3, <1>5, <1>6

\* The buffer is written out; all but its first n messages are lost.
LEMMA FlowWriteOut ==
    ASSUME NEW l, NEW b, NEW q, NEW off, NEW los, FlowOK(l, b, q, off, los),
           NEW n \in 0 .. Len(b)
    PROVE  FlowOK(l \o SubSeq(b, 1, n), <<>>, q, off,
                  los \cup Elements(SubSeq(b, n + 1, Len(b))))
  <1> USE DEF FlowOK, Ordered
  <1> DEFINE h == SubSeq(b, 1, n)
             r == SubSeq(b, n + 1, Len(b))
  <1>1. h \in Seq(Nat) /\ Elements(b) = Elements(h) \cup Elements(r)
    BY ElementsOfCut
  <1>2. Rising(h)
    BY RisingPrefix
  <1>3. Before(l, h) /\ Before(h, q)
    BY <1>1 DEF Before
  <1> HIDE DEF h, r
  <1>4. /\ l \o h \in Seq(Nat) /\ Elements(l \o h) = Elements(l) \cup Elements(h)
    BY <1>1, ElementsOfConcat, ConcatProperties
  <1>5. Rising(l \o h)
    BY <1>1, <1>2, <1>3, RisingConcat
  <1>6. Before(l \o h, q)
    BY <1>3, <1>4 DEF Before
  <1>7. /\ Rising(<<>>) /\ <<>> \in Seq(Nat) /\ Elements(<<>>) = {}
        /\ Before(l \o h, <<>>) /\ Before(<<>>, q)
    BY ElementsOfEmpty DEF Rising, Before
  <1>8. FlowOK(l \o h, <<>>, q, off, los \cup Elements(r))
    BY <1>1, <1>4, <1>5, <1>6, <1>7
  <1> QED
    BY <1>8 DEF h, r

\* straight from the queue to the log
LEMMA FlowDeliver ==
    ASSUME NEW l, NEW q, NEW off, NEW los, FlowOK(l, <<>>, q, off, los), q # <<>>
    PROVE  FlowOK(Append(l, Head(q)), <<>>, Tail(q), off, los)
  <1> USE DEF FlowOK, Ordered
  <1>1. /\ Elements(q) = {Head(q)} \cup Elements(Tail(q))
        /\ Tail(q) \in Seq(Nat) /\ Head(q) \in Nat
    BY ElementsOfQueue
  <1>2. Rising(Tail(q)) /\ \A x \in Elements(Tail(q)) : Head(q) < x
    BY RisingTail
  <1>3. /\ Append(l, Head(q)) \in Seq(Nat)
        /\ Elements(Append(l, Head(q))) = Elements(l) \cup {Head(q)}
    BY <1>1, ElementsOfAppend, AppendProperties
  <1>4. \A x \in Elements(l) : x < Head(q)
    BY <1>1 DEF Before
  <1>5. Rising(Append(l, Head(q)))
    BY <1>1, <1>4, RisingAppend
  <1>6. /\ Before(Append(l, Head(q)), Tail(q))
        /\ Before(Append(l, Head(q)), <<>>) /\ Before(<<>>, Tail(q))
    BY <1>1, <1>2, <1>3, ElementsOfEmpty DEF Before
  <1> QED
    BY <1>1, <1>2, <1>3, <1>5, <1>6

-----------------------------------------------------------------------------
(* The inductive invariant *)

WholeRecord == [run : Nat, msg : Nat]
TornRecord == [run : Nat, after : Nat]
Frame == [frame : {"identifier", "data"}, msg : Nat]

SinkTypes ==
    /\ published \in Nat
    /\ pubPc \in [Publishers -> 0 .. 2]
    /\ message \in [Publishers -> Nat]
    /\ m_queue \in [Outputs -> Seq(Nat)]
    /\ finished \subseteq Outputs /\ running \subseteq Outputs
    /\ teardown \in Seq(Outputs)
    /\ run \in Nat
    /\ buffer \in Seq(Nat)
    /\ disk \in Seq(WholeRecord)
    /\ tears \subseteq TornRecord
    /\ m_file \in BOOLEAN /\ m_publisher \in BOOLEAN
    /\ frames \in Seq(Frame) /\ wire \in Seq(Seq(Frame))
    /\ written \in Seq(Nat)
    /\ offered \in [Outputs -> SUBSET Nat] /\ lost \in [Outputs -> SUBSET Nat]

\* A message is offered, and then it is in the log, in the buffer, in the queue
\* or lost; what is further on its way has the smaller number.
Flow(o) == FlowOK(Log[o], Buffered(o), m_queue[o], offered[o], lost[o])
Flows == \A o \in Outputs : Flow(o)

Numbered == \A o \in Outputs : offered[o] \subseteq 1 .. published

\* The lock is held by whoever is publishing, and the message it holds is above
\* what was offered to the sinks it has yet to visit.
Turn ==
    \A p \in Publishers : pubPc[p] > 0 =>
        /\ m_publishMutex = p
        /\ message[p] \in 1 .. published
        /\ \A k \in pubPc[p] .. 2 : \A x \in offered[Members[k]] : x < message[p]

\* The destructors have run for what is no longer in teardown: its thread is
\* joined, and a thread that returned left its queue empty and closed.
Shutdown ==
    /\ teardown \in {<<"exporter", "file", "zmq">>, <<"file", "zmq">>, <<"zmq">>, <<>>}
    /\ \A o \in Outputs \ Elements(teardown) : o \in finished \ running
    /\ \A o \in Outputs \ running : o \in finished /\ m_queue[o] = <<>>
    /\ \A p \in Publishers : pubPc[p] > 0 => finished = {}
    /\ "file" \notin Elements(teardown) => ~m_file
    /\ ~m_file => buffer = <<>>

\* After a tear the file stays closed for the rest of the run.
TornOnce ==
    /\ \A t \in tears : t.run <= run /\ t.after <= Len(disk) /\ (t.run = run => ~m_file)
    /\ \A i \in DOMAIN disk : disk[i].run <= run
    /\ LogStopsAtTear

FramesAreOrphans ==
    /\ \A i \in DOMAIN frames : frames[i].frame = "identifier" /\ frames[i].msg \in lost["zmq"]
    /\ DataFollowsIdentifier

SinkInv ==
    /\ SinkTypes
    /\ Flows
    /\ Numbered
    /\ Turn
    /\ Shutdown
    /\ TornOnce
    /\ FramesAreOrphans

-----------------------------------------------------------------------------
(* The logs, and which of them a step changes *)

FileLog == [i \in DOMAIN disk |-> disk[i].msg]
WireLog == [i \in DOMAIN wire |-> wire[i][Len(wire[i])].msg]

LEMMA LogIs ==
    /\ Log["file"] = FileLog /\ Log["zmq"] = WireLog /\ Log["exporter"] = written
    /\ Log'["file"] = FileLog' /\ Log'["zmq"] = WireLog' /\ Log'["exporter"] = written'
  BY DEF Log, Outputs, FileLog, WireLog

LEMMA FileLogGrows ==
    ASSUME SinkTypes, NEW s \in Seq(Nat), disk' = disk \o Records(s)
    PROVE  /\ FileLog' = FileLog \o s
           /\ disk' \in Seq(WholeRecord)
           /\ Len(disk') = Len(disk) + Len(s)
           /\ \A i \in DOMAIN disk : disk'[i] = disk[i]
           /\ \A i \in DOMAIN disk' : i > Len(disk) => disk'[i].run = run
  <1> DEFINE R == WholeRecord
             t == Records(s)
  <1>1. /\ Len(s) \in Nat /\ DOMAIN s = 1 .. Len(s) /\ \A i \in 1 .. Len(s) : s[i] \in Nat
        /\ disk \in Seq(R) /\ Len(disk) \in Nat /\ DOMAIN disk = 1 .. Len(disk)
        /\ \A i \in 1 .. Len(disk) : disk[i].msg \in Nat
    <2>1. disk \in Seq(R)
      BY DEF SinkTypes
    <2>2. \A x \in R : x.msg \in Nat
      BY DEF WholeRecord
    <2> HIDE DEF R
    <2>3. /\ Len(disk) \in Nat /\ DOMAIN disk = 1 .. Len(disk)
          /\ \A i \in 1 .. Len(disk) : disk[i] \in R
      BY <2>1, LenProperties
    <2>4. /\ Len(s) \in Nat /\ DOMAIN s = 1 .. Len(s) /\ \A i \in 1 .. Len(s) : s[i] \in Nat
      BY LenProperties
    <2> QED
      BY <2>1, <2>2, <2>3, <2>4
  <1>2. /\ t \in Seq(R) /\ Len(t) = Len(s)
        /\ \A i \in 1 .. Len(s) : t[i].msg = s[i] /\ t[i].run = run
    BY <1>1 DEF Records, Record, SinkTypes, WholeRecord
  <1> HIDE DEF R, t
  <1>3. /\ disk' \in Seq(R) /\ Len(disk') = Len(disk) + Len(s)
        /\ DOMAIN disk' = 1 .. Len(disk) + Len(s)
        /\ \A i \in 1 .. Len(disk) : disk'[i] = disk[i]
        /\ \A i \in 1 .. Len(s) : disk'[Len(disk) + i] = t[i]
    <2>1. disk' = disk \o t
      BY DEF t
    <2>2. /\ disk \o t \in Seq(R) /\ Len(disk \o t) = Len(disk) + Len(t)
          /\ DOMAIN (disk \o t) = 1 .. Len(disk) + Len(t)
          /\ \A i \in 1 .. Len(disk) : (disk \o t)[i] = disk[i]
      BY <1>1, <1>2, ConcatIs, ZenonT(60)
    <2>3. ASSUME NEW i \in 1 .. Len(t) PROVE (disk \o t)[Len(disk) + i] = t[i]
      BY <1>1, <1>2, ConcatRight
    <2> QED
      BY <1>2, <2>1, <2>2, <2>3, Zenon
  <1>4. \A i \in 1 .. Len(disk) + Len(s) :
           i \in 1 .. Len(disk) \/ \E k \in 1 .. Len(s) : i = Len(disk) + k
    BY <1>1, SplitIndex
  <1>5. /\ FileLog = [i \in 1 .. Len(disk) |-> disk[i].msg]
        /\ FileLog' = [i \in 1 .. Len(disk) + Len(s) |-> disk'[i].msg]
    BY <1>1, <1>3 DEF FileLog
  <1>6. FileLog \in Seq(Nat) /\ Len(FileLog) = Len(disk)
    BY <1>1, <1>5
  <1>7. \A i \in 1 .. Len(s) : Len(disk) + i \in 1 .. Len(disk) + Len(s)
    BY <1>1
  <1>8. \A i \in 1 .. Len(s) : FileLog'[Len(disk) + i] = s[i]
    BY <1>2, <1>3, <1>5, <1>7
  <1>9. \A i \in 1 .. Len(disk) : i \in 1 .. Len(disk) + Len(s) /\ FileLog'[i] = FileLog[i]
    <2>1. \A i \in 1 .. Len(disk) : i \in 1 .. Len(disk) + Len(s)
      BY <1>1
    <2> QED
      BY <1>3, <1>5, <2>1
  <1>10. \A i \in 1 .. Len(disk) + Len(s) : FileLog'[i] \in Nat
    <2>1. \A i \in 1 .. Len(disk) : FileLog[i] \in Nat
      BY <1>1, <1>5
    <2> QED
      BY <1>1, <1>4, <1>8, <1>9, <2>1
  <1>11. FileLog' \in Seq(Nat) /\ Len(FileLog') = Len(disk) + Len(s)
    <2>1. Len(disk) + Len(s) \in Nat
      BY <1>1
    <2>2. FileLog' = [i \in 1 .. Len(disk) + Len(s) |-> FileLog'[i]]
      BY <1>5
    <2> QED
      BY <1>10, <2>1, <2>2, TableIsSeq
  <1>12. FileLog' = FileLog \o s
    <2>1. \A i \in 1 .. Len(FileLog) : FileLog'[i] = FileLog[i]
      BY <1>6, <1>9
    <2>2. \A i \in 1 .. Len(s) : FileLog'[Len(FileLog) + i] = s[i]
      BY <1>6, <1>8
    <2>3. Len(FileLog') = Len(FileLog) + Len(s)
      BY <1>6, <1>11
    <2> QED
      BY <1>6, <1>11, <2>1, <2>2, <2>3, ConcatUnique, Zenon
  <1>13. \A i \in DOMAIN disk' : i > Len(disk) => disk'[i].run = run
    <2> SUFFICES ASSUME NEW i \in 1 .. Len(disk) + Len(s), i > Len(disk)
                 PROVE  disk'[i].run = run
      BY <1>3
    <2>1. PICK k \in 1 .. Len(s) : i = Len(disk) + k
      BY <1>1, <1>4
    <2>2. disk'[i] = t[k]
      BY <1>3, <2>1
    <2> QED
      BY <1>2, <2>2
  <1> QED
    BY <1>1, <1>3, <1>12, <1>13 DEF R

\* What a multipart message ends with.
LEMMA MessageEnds ==
    ASSUME NEW f \in Seq(Frame), NEW m \in Nat
    PROVE  LET parts == f \o <<Identifier(m), Data(m)>> IN
           /\ parts \in Seq(Frame) /\ Len(parts) = Len(f) + 2 /\ Len(f) \in Nat
           /\ parts[Len(f) + 2] = Data(m) /\ parts[Len(f) + 1] = Identifier(m)
           /\ \A i \in 1 .. Len(f) : parts[i] = f[i]
  <1> DEFINE e == <<Identifier(m), Data(m)>>
  <1>1. e \in Seq(Frame) /\ Len(e) = 2 /\ e[1] = Identifier(m) /\ e[2] = Data(m)
    BY DEF Frame, Identifier, Data
  <1> HIDE DEF e
  <1>2. /\ f \o e \in Seq(Frame) /\ Len(f \o e) = Len(f) + 2 /\ Len(f) \in Nat
        /\ \A i \in 1 .. Len(f) : (f \o e)[i] = f[i]
    <2>1. Len(f) \in Nat
      BY LenProperties
    <2>2. /\ f \o e \in Seq(Frame) /\ Len(f \o e) = Len(f) + Len(e)
          /\ \A i \in 1 .. Len(f) : (f \o e)[i] = f[i]
      BY <1>1, ConcatIs, ZenonT(60)
    <2> QED
      BY <1>1, <2>1, <2>2
  <1>3. (f \o e)[Len(f) + 2] = e[2] /\ (f \o e)[Len(f) + 1] = e[1]
    <2>1. ASSUME NEW i \in 1 .. Len(e) PROVE (f \o e)[Len(f) + i] = e[i]
      BY <1>1, ConcatRight, SMTT(30)
    <2>2. 1 \in 1 .. Len(e) /\ 2 \in 1 .. Len(e)
      BY <1>1
    <2> QED
      BY <2>1, <2>2, Zenon
  <1> QED
    BY <1>1, <1>2, <1>3 DEF e

LEMMA WireLogGrows ==
    ASSUME SinkTypes, NEW parts \in Seq(Frame), Len(parts) > 0, wire' = Append(wire, parts),
           WireLog \in Seq(Nat)
    PROVE  WireLog' = Append(WireLog, parts[Len(parts)].msg)
  <1>1. /\ wire' \in Seq(Seq(Frame)) /\ Len(wire) \in Nat /\ Len(wire') = Len(wire) + 1
        /\ DOMAIN wire = 1 .. Len(wire) /\ DOMAIN wire' = 1 .. Len(wire) + 1
        /\ \A i \in 1 .. Len(wire) : wire'[i] = wire[i]
        /\ wire'[Len(wire) + 1] = parts
    BY AppendProperties, LenProperties DEF SinkTypes
  <1>2. Len(parts) \in 1 .. Len(parts) /\ parts[Len(parts)] \in Frame
    BY LenProperties
  <1>3. parts[Len(parts)].msg \in Nat
    BY <1>2 DEF Frame
  <1>4. Len(WireLog) = Len(wire) /\ \A i \in 1 .. Len(wire) : WireLog[i] = wire[i][Len(wire[i])].msg
    BY <1>1 DEF WireLog
  <1>5. /\ Append(WireLog, parts[Len(parts)].msg) \in Seq(Nat)
        /\ Len(Append(WireLog, parts[Len(parts)].msg)) = Len(wire) + 1
        /\ \A i \in 1 .. Len(wire) : Append(WireLog, parts[Len(parts)].msg)[i] = WireLog[i]
        /\ Append(WireLog, parts[Len(parts)].msg)[Len(wire) + 1] = parts[Len(parts)].msg
    BY <1>3, <1>4, AppendProperties
  <1>6. WireLog' = [i \in 1 .. Len(wire) + 1 |-> wire'[i][Len(wire'[i])].msg]
    BY <1>1 DEF WireLog
  <1>7. \A i \in 1 .. Len(wire) : WireLog'[i] = WireLog[i]
    <2>1. \A i \in 1 .. Len(wire) : i \in 1 .. Len(wire) + 1
      BY <1>1
    <2> QED
      BY <1>1, <1>4, <1>6, <2>1
  <1>8. WireLog'[Len(wire) + 1] = parts[Len(parts)].msg
    BY <1>1, <1>6
  <1>9. \A i \in 1 .. Len(wire) : WireLog[i] \in Nat
    BY <1>4, LenProperties
  <1>10. \A i \in 1 .. Len(wire) + 1 : WireLog'[i] \in Nat
    <2>1. \A i \in 1 .. Len(wire) + 1 : i \in 1 .. Len(wire) \/ i = Len(wire) + 1
      BY <1>1, SMTT(30)
    <2> QED
      BY <1>3, <1>7, <1>8, <1>9, <2>1
  <1>11. WireLog' \in Seq(Nat) /\ Len(WireLog') = Len(wire) + 1
    BY <1>1, <1>6, <1>10
  <1>12. \A i \in 1 .. Len(wire) + 1 :
            WireLog'[i] = Append(WireLog, parts[Len(parts)].msg)[i]
    BY <1>1, <1>5, <1>7, <1>8
  <1> QED
    BY <1>5, <1>11, <1>12, SeqEqual

-----------------------------------------------------------------------------
(* Types *)

LEMMA OutputNames ==
    /\ "file" \in Outputs /\ "zmq" \in Outputs /\ "exporter" \in Outputs
    /\ Len(Members) = 2 /\ Members[1] = "file" /\ Members[2] = "zmq"
    /\ \A k \in 1 .. 2 : Members[k] \in Outputs /\ Members[k] # "exporter"
    /\ Members[1] # Members[2]
  BY DEF Outputs, Members

LEMMA PopsTypes ==
    ASSUME SinkTypes, NEW o \in Outputs, Pops(o)
    PROVE  /\ m_queue' \in [Outputs -> Seq(Nat)]
           /\ o \in running /\ m_queue[o] # <<>> /\ Head(m_queue[o]) \in Nat
           /\ m_queue'[o] = Tail(m_queue[o])
           /\ \A x \in Outputs \ {o} : m_queue'[x] = m_queue[x]
  <1>1. m_queue[o] \in Seq(Nat) /\ m_queue[o] # <<>>
    BY DEF SinkTypes, Pops
  <1>2. Head(m_queue[o]) \in Nat /\ Tail(m_queue[o]) \in Seq(Nat)
    BY <1>1, HeadTailProperties
  <1> QED
    BY <1>1, <1>2 DEF SinkTypes, Pops

LEMMA LosesTypes ==
    ASSUME SinkTypes, NEW o \in Outputs, NEW ms \in SUBSET Nat, Loses(o, ms)
    PROVE  /\ lost' \in [Outputs -> SUBSET Nat]
           /\ lost'[o] = lost[o] \cup ms
           /\ \A x \in Outputs \ {o} : lost'[x] = lost[x]
  BY DEF SinkTypes, Loses

LEMMA TryPushTypes ==
    ASSUME SinkTypes, NEW o \in Outputs, NEW m \in Nat, TryPush(o, m)
    PROVE  /\ m_queue' \in [Outputs -> Seq(Nat)]
           /\ offered' \in [Outputs -> SUBSET Nat] /\ lost' \in [Outputs -> SUBSET Nat]
           /\ \A x \in Outputs \ {o} : UNCHANGED <<m_queue[x], offered[x], lost[x]>>
           /\ offered'[o] = offered[o] \cup {m}
           /\ \/ m_queue'[o] = Append(m_queue[o], m) /\ lost'[o] = lost[o]
                 /\ o \notin finished
              \/ m_queue'[o] = m_queue[o] /\ lost'[o] = lost[o] \cup {m}
  <1>1. m_queue[o] \in Seq(Nat) /\ Append(m_queue[o], m) \in Seq(Nat)
    BY AppendProperties DEF SinkTypes
  <1>2. offered' \in [Outputs -> SUBSET Nat] /\ offered'[o] = offered[o] \cup {m}
        /\ \A x \in Outputs \ {o} : offered'[x] = offered[x]
    BY DEF SinkTypes, TryPush
  <1>3. CASE o \notin finished /\ m_queue' = [m_queue EXCEPT ![o] = Append(@, m)] /\ UNCHANGED lost
    BY <1>1, <1>2, <1>3 DEF SinkTypes
  <1>4. CASE lost' = [lost EXCEPT ![o] = @ \cup {m}] /\ UNCHANGED m_queue
    BY <1>1, <1>2, <1>4 DEF SinkTypes
  <1> QED
    BY <1>3, <1>4 DEF TryPush

LEMMA FlushFailsTypes ==
    ASSUME SinkTypes, NEW pending \in Seq(Nat), FlushFails(pending)
    PROVE  \E n \in 0 .. Len(pending) :
              /\ n < Len(pending)
              /\ disk' = disk \o Records(SubSeq(pending, 1, n))
              /\ SubSeq(pending, 1, n) \in Seq(Nat)
              /\ Len(disk') = Len(disk) + n
              /\ tears' \in {tears, tears \cup {Tear(Len(disk) + n)}}
              /\ tears' \subseteq TornRecord
              /\ buffer' = <<>>
              /\ disk' \in Seq(WholeRecord)
              /\ lost' \in [Outputs -> SUBSET Nat]
              /\ lost'["file"] = lost["file"] \cup
                                    Elements(SubSeq(pending, n + 1, Len(pending)))
              /\ \A x \in Outputs \ {"file"} : lost'[x] = lost[x]
  <1>1. PICK n \in 0 .. Len(pending) - 1 :
           /\ disk' = disk \o Records(SubSeq(pending, 1, n))
           /\ tears' \in {tears, tears \cup {Tear(Len(disk) + n)}}
           /\ buffer' = <<>>
           /\ Loses("file", Elements(SubSeq(pending, n + 1, Len(pending))))
    BY DEF FlushFails
  <1>2. Len(pending) \in Nat /\ n \in 0 .. Len(pending) /\ n < Len(pending) /\ n \in Nat
    BY <1>1, LenProperties
  <1>3. /\ SubSeq(pending, 1, n) \in Seq(Nat)
        /\ SubSeq(pending, n + 1, Len(pending)) \in Seq(Nat)
    BY <1>2, ElementsOfCut
  <1>4. Len(SubSeq(pending, 1, n)) = n
    BY <1>2
  <1>5. Len(disk') = Len(disk) + n /\ disk' \in Seq(WholeRecord)
    BY <1>1, <1>3, <1>4, FileLogGrows
  <1>6. Elements(SubSeq(pending, n + 1, Len(pending))) \in SUBSET Nat
    <2>1. \A t \in Seq(Nat) : Elements(t) \in SUBSET Nat
      BY LenProperties DEF Elements
    <2> QED
      BY <1>3, <2>1
  <1>7. /\ lost' \in [Outputs -> SUBSET Nat]
        /\ lost'["file"] = lost["file"] \cup Elements(SubSeq(pending, n + 1, Len(pending)))
        /\ \A x \in Outputs \ {"file"} : lost'[x] = lost[x]
    BY <1>1, <1>6, LosesTypes, OutputNames
  <1>8. tears' \subseteq TornRecord
    <2>1. Len(disk) \in Nat
      BY LenProperties DEF SinkTypes
    <2> QED
      BY <1>1, <1>2, <2>1 DEF SinkTypes, Tear, TornRecord
  <1> QED
    BY <1>1, <1>2, <1>3, <1>5, <1>7, <1>8

LEMMA PendingTypes ==
    ASSUME SinkTypes, Pops("file")
    PROVE  Append(buffer, Head(m_queue["file"])) \in Seq(Nat)
  BY PopsTypes, OutputNames, AppendProperties DEF SinkTypes

LEMMA TypesInit == Init => SinkTypes
  <1>1. /\ <<>> \in Seq(Nat) /\ <<>> \in Seq(WholeRecord) /\ <<>> \in Seq(Frame)
        /\ <<>> \in Seq(Seq(Frame)) /\ <<"exporter", "file", "zmq">> \in Seq(Outputs)
    BY DEF Outputs
  <1> QED
    BY <1>1 DEF Init, SinkTypes

LEMMA TypesStep == SinkTypes /\ [Next]_sinkVars => SinkTypes'
  <1> SUFFICES ASSUME SinkTypes, [Next]_sinkVars PROVE SinkTypes'
    OBVIOUS
  <1> USE OutputNames
  <1> USE DEF pubVars, fileVars, zmqVars, ownerVars
  <1>0. /\ <<>> \in Seq(Nat) /\ <<>> \in Seq(Frame)
        /\ buffer \in Seq(Nat) /\ frames \in Seq(Frame) /\ disk \in Seq(WholeRecord)
    BY DEF SinkTypes
  <1>1. ASSUME NEW p \in Publishers, PublishStruct(p) PROVE SinkTypes'
    BY <1>1, SMTT(30) DEF PublishStruct, MayPublish, SinkTypes
  <1>2. ASSUME NEW p \in Publishers, PushTelemetry(p) PROVE SinkTypes'
    <2>1. TryPush("exporter", published + 1) /\ published + 1 \in Nat
      BY <1>2 DEF PushTelemetry, SinkTypes
    <2>2. /\ m_queue' \in [Outputs -> Seq(Nat)]
          /\ offered' \in [Outputs -> SUBSET Nat] /\ lost' \in [Outputs -> SUBSET Nat]
      BY <2>1, TryPushTypes
    <2> QED
      BY <1>2, <2>2, SMTT(30) DEF PushTelemetry, SinkTypes
  <1>3. ASSUME NEW p \in Publishers, Forward(p) PROVE SinkTypes'
    <2>1. pubPc[p] \in 1 .. 2 /\ TryPush(Members[pubPc[p]], message[p]) /\ message[p] \in Nat
      BY <1>3 DEF Forward, SinkTypes
    <2>2. /\ m_queue' \in [Outputs -> Seq(Nat)]
          /\ offered' \in [Outputs -> SUBSET Nat] /\ lost' \in [Outputs -> SUBSET Nat]
      BY <2>1, TryPushTypes
    <2>3. pubPc' \in [Publishers -> 0 .. 2]
      <3>1. \/ pubPc[p] < 2 /\ pubPc' = [pubPc EXCEPT ![p] = @ + 1]
            \/ pubPc' = [pubPc EXCEPT ![p] = 0]
        BY <1>3 DEF Forward
      <3>2. pubPc \in [Publishers -> 0 .. 2]
        BY DEF SinkTypes
      <3> QED
        BY <2>1, <3>1, <3>2
    <2> QED
      BY <1>3, <2>2, <2>3 DEF Forward, SinkTypes
  <1>4. CASE FileWrites
    <2> DEFINE pending == Append(buffer, Head(m_queue["file"]))
    <2>1. m_queue' \in [Outputs -> Seq(Nat)] /\ pending \in Seq(Nat)
      BY <1>4, PopsTypes, PendingTypes DEF FileWrites
    <2>2. \/ buffer' = pending /\ UNCHANGED disk
          \/ buffer' = <<>> /\ disk' = disk \o Records(pending)
      BY <1>4 DEF FileWrites
    <2>3. buffer' \in Seq(Nat) /\ disk' \in Seq(WholeRecord)
      <3> HIDE DEF pending
      <3> QED
        BY <1>0, <2>1, <2>2, FileLogGrows
    <2> QED
      BY <1>4, <2>1, <2>3 DEF FileWrites, SinkTypes
  <1>5. CASE FileWriteFails
    <2> DEFINE pending == Append(buffer, Head(m_queue["file"]))
    <2>1. m_queue' \in [Outputs -> Seq(Nat)] /\ pending \in Seq(Nat) /\ FlushFails(pending)
      BY <1>5, PopsTypes, PendingTypes DEF FileWriteFails
    <2>2. /\ buffer' \in Seq(Nat) /\ disk' \in Seq(WholeRecord)
          /\ tears' \subseteq TornRecord /\ lost' \in [Outputs -> SUBSET Nat]
      <3> HIDE DEF pending
      <3> QED
        BY <1>0, <2>1, FlushFailsTypes
    <2> QED
      BY <1>5, <2>1, <2>2 DEF FileWriteFails, SinkTypes
  <1>6. CASE FileDiscards
    <2>1. /\ m_queue' \in [Outputs -> Seq(Nat)] /\ lost' \in [Outputs -> SUBSET Nat]
      BY <1>6, PopsTypes, LosesTypes DEF FileDiscards
    <2> QED
      BY <1>6, <2>1 DEF FileDiscards, SinkTypes
  <1>7. CASE ZmqSends
    <2> DEFINE m == Head(m_queue["zmq"])
               parts == frames \o <<Identifier(m), Data(m)>>
    <2>1. m_queue' \in [Outputs -> Seq(Nat)] /\ m \in Nat
      BY <1>7, PopsTypes DEF ZmqSends
    <2>2. parts \in Seq(Frame)
      BY <2>1, MessageEnds DEF SinkTypes
    <2>3. wire' \in Seq(Seq(Frame)) /\ frames' \in Seq(Frame)
      <3>1. wire' = Append(wire, parts) /\ frames' = <<>>
        BY <1>7 DEF ZmqSends
      <3> HIDE DEF parts
      <3> QED
        BY <2>2, <3>1, AppendProperties DEF SinkTypes
    <2> QED
      BY <1>7, <2>1, <2>3 DEF ZmqSends, SinkTypes
  <1>8. CASE ZmqSendFails
    <2> DEFINE m == Head(m_queue["zmq"])
    <2>1. m_queue' \in [Outputs -> Seq(Nat)] /\ m \in Nat
      BY <1>8, PopsTypes DEF ZmqSendFails
    <2>2. lost' \in [Outputs -> SUBSET Nat]
      BY <1>8, <2>1, LosesTypes DEF ZmqSendFails
    <2>3. frames' \in Seq(Frame)
      <3>1. Identifier(m) \in Frame
        BY <2>1 DEF Identifier, Frame
      <3>2. frames' \in {frames, Append(frames, Identifier(m))}
        BY <1>8 DEF ZmqSendFails
      <3>3. Append(frames, Identifier(m)) \in Seq(Frame)
        <4> DEFINE id == Identifier(m)
        <4> HIDE DEF id
        <4>1. id \in Frame
          BY <3>1 DEF id
        <4>2. Append(frames, id) \in Seq(Frame)
          BY <1>0, <4>1, AppendProperties
        <4> QED
          BY <4>2 DEF id
      <3> QED
        BY <1>0, <3>2, <3>3
    <2> QED
      BY <1>8, <2>1, <2>2, <2>3 DEF ZmqSendFails, SinkTypes
  <1>9. CASE ZmqDiscards
    <2>1. /\ m_queue' \in [Outputs -> Seq(Nat)] /\ lost' \in [Outputs -> SUBSET Nat]
      BY <1>9, PopsTypes, LosesTypes DEF ZmqDiscards
    <2> QED
      BY <1>9, <2>1 DEF ZmqDiscards, SinkTypes
  <1>10. CASE ExporterWrites
    <2>1. /\ m_queue' \in [Outputs -> Seq(Nat)] /\ Head(m_queue["exporter"]) \in Nat
      BY <1>10, PopsTypes DEF ExporterWrites
    <2>2. written' \in Seq(Nat)
      BY <1>10, <2>1, AppendProperties DEF ExporterWrites, SinkTypes
    <2> QED
      BY <1>10, <2>1, <2>2 DEF ExporterWrites, SinkTypes
  <1>11. CASE ExporterDrops
    <2>1. /\ m_queue' \in [Outputs -> Seq(Nat)] /\ lost' \in [Outputs -> SUBSET Nat]
      BY <1>11, PopsTypes, LosesTypes DEF ExporterDrops
    <2> QED
      BY <1>11, <2>1 DEF ExporterDrops, SinkTypes
  <1>12. ASSUME NEW o \in Outputs, ThreadReturns(o) PROVE SinkTypes'
    BY <1>12 DEF ThreadReturns, SinkTypes
  <1>13. CASE Finish
    BY <1>13, HeadTailProperties, SMTT(30) DEF Finish, SinkTypes
  <1>14. CASE JoinAndClose
    <2>1. /\ buffer' \in Seq(Nat) /\ disk' \in Seq(WholeRecord) /\ m_file' \in BOOLEAN
          /\ tears' \subseteq TornRecord /\ lost' \in [Outputs -> SUBSET Nat]
      <3>1. CASE UNCHANGED <<fileVars, lost>>
        BY <3>1 DEF SinkTypes
      <3>2. CASE FlushFails(buffer) /\ m_file' = FALSE
        BY <1>0, <3>2, FlushFailsTypes
      <3>3. CASE /\ disk' = disk \o Records(buffer) /\ buffer' = <<>>
                 /\ UNCHANGED <<tears, lost>> /\ m_file' = FALSE
        <4>1. disk' \in Seq(WholeRecord)
          BY <1>0, <3>3, FileLogGrows
        <4> QED
          BY <3>3, <4>1, <1>0 DEF SinkTypes
      <3> QED
        BY <1>14, <3>1, <3>2, <3>3 DEF JoinAndClose
    <2>2. teardown' \in Seq(Outputs)
      BY <1>14, HeadTailProperties DEF JoinAndClose, SinkTypes
    <2>3. UNCHANGED <<pubVars, m_queue, running, finished, run, zmqVars, written, offered>>
      BY <1>14 DEF JoinAndClose
    <2> QED
      BY <2>1, <2>2, <2>3 DEF SinkTypes
  <1>15. CASE Restart
    BY <1>15 DEF Restart, SinkTypes
  <1>16. CASE UNCHANGED sinkVars
    BY <1>16 DEF sinkVars, SinkTypes
  <1> QED
    BY <1>1, <1>2, <1>3, <1>4, <1>5, <1>6, <1>7, <1>8, <1>9, <1>10, <1>11, <1>12, <1>13, <1>14, <1>15, <1>16
    DEF Next, Publishing, FileStep, ZmqStep, ExporterStep, Destructors, Stopped

-----------------------------------------------------------------------------
(* Every message is accounted for, in order *)

Kept(o) == UNCHANGED <<Log[o], Buffered(o), m_queue[o], offered[o], lost[o]>>

LogsKept == UNCHANGED <<disk, wire, written>>

LEMMA LogsStay ==
    ASSUME LogsKept, NEW o \in Outputs
    PROVE  Log'[o] = Log[o]
  BY LogIs DEF LogsKept, FileLog, WireLog, Outputs

LEMMA FlowStays ==
    ASSUME NEW o \in Outputs, Flow(o), Kept(o)
    PROVE  Flow(o)'
  BY DEF Flow, Kept, FlowOK

LEMMA FlowsInit == Init => Flows /\ Numbered
  <1> SUFFICES ASSUME Init, NEW o \in Outputs
               PROVE  Flow(o) /\ offered[o] \subseteq 1 .. published
    BY DEF Flows, Numbered
  <1>1. /\ m_queue[o] = <<>> /\ Buffered(o) = <<>> /\ offered[o] = {} /\ lost[o] = {}
    BY DEF Init, Buffered, Outputs
  <1>2. FileLog = <<>> /\ WireLog = <<>> /\ written = <<>>
    BY DEF Init, FileLog, WireLog
  <1>3. Log[o] = <<>>
    BY <1>2, LogIs DEF Outputs
  <1>4. <<>> \in Seq(Nat) /\ Rising(<<>>) /\ Before(<<>>, <<>>) /\ Elements(<<>>) = {}
    BY ElementsOfEmpty DEF Rising, Before
  <1> QED
    BY <1>1, <1>3, <1>4 DEF Flow, FlowOK, Ordered

\* The receiving end of tryPush.
LEMMA FlowsPush ==
    ASSUME SinkTypes, Flows, NEW o \in Outputs, NEW m \in Nat, TryPush(o, m),
           \A x \in offered[o] : x < m, LogsKept, UNCHANGED buffer
    PROVE  Flows'
  <1>1. \A x \in Outputs : Log'[x] = Log[x] /\ Buffered(x)' = Buffered(x)
    BY LogsStay DEF Buffered
  <1>2. ASSUME NEW x \in Outputs \ {o} PROVE Flow(x)'
    BY <1>1, TryPushTypes, FlowStays DEF Flows, Kept
  <1>3. Flow(o)'
    <2>1. FlowOK(Log[o], Buffered(o), m_queue[o], offered[o], lost[o])
      BY DEF Flows, Flow
    <2>2. /\ FlowOK(Log[o], Buffered(o), Append(m_queue[o], m), offered[o] \cup {m}, lost[o])
          /\ FlowOK(Log[o], Buffered(o), m_queue[o], offered[o] \cup {m}, lost[o] \cup {m})
      BY <2>1, FlowPush
    <2>3. FlowOK(Log'[o], Buffered(o)', m_queue'[o], offered'[o], lost'[o])
      BY <1>1, <2>2, TryPushTypes
    <2> QED
      BY <2>3 DEF Flow, FlowOK
  <1> QED
    BY <1>2, <1>3 DEF Flows

\* A thread gives up the message it has popped.
LEMMA FlowsDiscard ==
    ASSUME SinkTypes, Flows, NEW o \in Outputs, Pops(o), Loses(o, {Head(m_queue[o])}),
           LogsKept, UNCHANGED <<buffer, offered>>
    PROVE  Flows'
  <1>1. \A x \in Outputs : Log'[x] = Log[x] /\ Buffered(x)' = Buffered(x)
    BY LogsStay DEF Buffered
  <1>2. /\ \A x \in Outputs \ {o} : m_queue'[x] = m_queue[x] /\ lost'[x] = lost[x]
        /\ m_queue'[o] = Tail(m_queue[o]) /\ lost'[o] = lost[o] \cup {Head(m_queue[o])}
        /\ m_queue[o] # <<>>
    <2>1. {Head(m_queue[o])} \in SUBSET Nat
      BY PopsTypes
    <2> QED
      BY <2>1, PopsTypes, LosesTypes
  <1>3. ASSUME NEW x \in Outputs \ {o} PROVE Flow(x)'
    BY <1>1, <1>2, FlowStays DEF Flows, Kept
  <1>4. Flow(o)'
    <2>1. FlowOK(Log[o], Buffered(o), m_queue[o], offered[o], lost[o])
      BY DEF Flows, Flow
    <2>2. FlowOK(Log[o], Buffered(o), Tail(m_queue[o]), offered[o],
                 lost[o] \cup {Head(m_queue[o])})
      BY <1>2, <2>1, FlowDiscard
    <2>3. FlowOK(Log'[o], Buffered(o)', m_queue'[o], offered'[o], lost'[o])
      BY <1>1, <1>2, <2>2
    <2> QED
      BY <2>3 DEF Flow, FlowOK
  <1> QED
    BY <1>3, <1>4 DEF Flows

\* What a step on the log file leaves alone.
LEMMA FileStepKeeps ==
    ASSUME SinkTypes, Flows, NEW x \in Outputs \ {"file"}, UNCHANGED <<wire, written>>,
           m_queue'[x] = m_queue[x], offered'[x] = offered[x], lost'[x] = lost[x]
    PROVE  Flow(x)' /\ Log'[x] = Log[x]
  <1>1. Log'[x] = Log[x] /\ Buffered(x)' = Buffered(x)
    BY LogIs DEF Buffered, Outputs, WireLog
  <1> QED
    BY <1>1, FlowStays DEF Flows, Kept

LEMMA FileFlow ==
    Flow("file") <=> FlowOK(FileLog, buffer, m_queue["file"], offered["file"], lost["file"])
  BY LogIs DEF Flow, Buffered

LEMMA FlowsFileWrites ==
    ASSUME SinkTypes, Flows, FileWrites
    PROVE  Flows'
  <1> DEFINE q == m_queue["file"]
             pending == Append(buffer, Head(q))
  <1>1. /\ m_queue'["file"] = Tail(q) /\ q # <<>> /\ pending \in Seq(Nat)
        /\ \A x \in Outputs \ {"file"} : m_queue'[x] = m_queue[x]
        /\ UNCHANGED <<wire, written, offered, lost>>
    BY PopsTypes, PendingTypes, OutputNames DEF FileWrites, zmqVars
  <1>2. FlowOK(FileLog, pending, Tail(q), offered["file"], lost["file"])
    BY <1>1, FileFlow, FlowBuffer, OutputNames DEF Flows
  <1>3. \/ buffer' = pending /\ UNCHANGED disk
        \/ buffer' = <<>> /\ disk' = disk \o Records(pending)
    BY DEF FileWrites
  <1> HIDE DEF q, pending
  <1>4. FlowOK(FileLog', buffer', m_queue'["file"], offered'["file"], lost'["file"])
    <2>1. CASE buffer' = pending /\ UNCHANGED disk
      BY <1>1, <1>2, <2>1 DEF FileLog
    <2>2. CASE buffer' = <<>> /\ disk' = disk \o Records(pending)
      <3>1. FileLog' = FileLog \o pending
        BY <1>1, <2>2, FileLogGrows
      <3>2. /\ Len(pending) \in 0 .. Len(pending) /\ SubSeq(pending, 1, Len(pending)) = pending
            /\ SubSeq(pending, Len(pending) + 1, Len(pending)) = <<>>
        BY <1>1, LenProperties, SubSeqFull, SubSeqEmpty
      <3>3. FlowOK(FileLog \o pending, <<>>, Tail(q), offered["file"],
                   lost["file"] \cup Elements(<<>>))
        BY <1>2, <3>2, FlowWriteOut
      <3> QED
        BY <1>1, <2>2, <3>1, <3>3, ElementsOfEmpty
    <2> QED
      BY <1>3, <2>1, <2>2
  <1>5. Flow("file")'
    BY <1>4, LogIs DEF Flow, Buffered, FlowOK
  <1> QED
    BY <1>1, <1>5, FileStepKeeps DEF Flows

\* Some of what is pending reaches the file, the rest is lost.
LEMMA FlowsFlushFails ==
    ASSUME SinkTypes, NEW pending \in Seq(Nat), FlushFails(pending),
           FlowOK(FileLog, pending, m_queue'["file"], offered["file"], lost["file"]),
           UNCHANGED offered
    PROVE  Flow("file")'
  <1>1. PICK n \in 0 .. Len(pending) :
           /\ disk' = disk \o Records(SubSeq(pending, 1, n))
           /\ SubSeq(pending, 1, n) \in Seq(Nat)
           /\ buffer' = <<>>
           /\ lost'["file"] = lost["file"] \cup
                                 Elements(SubSeq(pending, n + 1, Len(pending)))
    BY FlushFailsTypes
  <1>2. FileLog' = FileLog \o SubSeq(pending, 1, n)
    BY <1>1, FileLogGrows
  <1>3. FlowOK(FileLog \o SubSeq(pending, 1, n), <<>>, m_queue'["file"], offered["file"],
               lost["file"] \cup Elements(SubSeq(pending, n + 1, Len(pending))))
    BY <1>1, FlowWriteOut
  <1>4. FlowOK(FileLog', buffer', m_queue'["file"], offered'["file"], lost'["file"])
    BY <1>1, <1>2, <1>3
  <1> QED
    BY <1>4, LogIs DEF Flow, Buffered, FlowOK

LEMMA FlowsZmqSends ==
    ASSUME SinkTypes, Flows, ZmqSends
    PROVE  Flows'
  <1> DEFINE q == m_queue["zmq"]
             parts == frames \o <<Identifier(Head(q)), Data(Head(q))>>
  <1>1. /\ m_queue'["zmq"] = Tail(q) /\ q # <<>> /\ Head(q) \in Nat
        /\ \A x \in Outputs \ {"zmq"} : m_queue'[x] = m_queue[x]
        /\ UNCHANGED <<disk, buffer, written, offered, lost>>
        /\ wire' = Append(wire, parts)
    BY PopsTypes, OutputNames DEF ZmqSends, fileVars
  <1>2. parts \in Seq(Frame) /\ Len(parts) > 0 /\ parts[Len(parts)].msg = Head(q)
    <2>1. frames \in Seq(Frame)
      BY DEF SinkTypes
    <2>2. /\ parts \in Seq(Frame) /\ Len(parts) = Len(frames) + 2 /\ Len(frames) \in Nat
          /\ parts[Len(frames) + 2] = Data(Head(q))
      BY <1>1, <2>1, MessageEnds
    <2> QED
      BY <2>2 DEF Data
  <1>3. FlowOK(WireLog, <<>>, q, offered["zmq"], lost["zmq"])
    BY LogIs, OutputNames DEF Flows, Flow, Buffered
  <1> HIDE DEF q, parts
  <1>4. WireLog' = Append(WireLog, Head(q))
    BY <1>1, <1>2, <1>3, WireLogGrows DEF FlowOK
  <1>5. FlowOK(WireLog', <<>>, m_queue'["zmq"], offered'["zmq"], lost'["zmq"])
    BY <1>1, <1>3, <1>4, FlowDeliver
  <1>6. Flow("zmq")'
    BY <1>5, LogIs DEF Flow, Buffered, FlowOK
  <1>7. ASSUME NEW x \in Outputs \ {"zmq"} PROVE Flow(x)'
    <2>1. Log'[x] = Log[x] /\ Buffered(x)' = Buffered(x)
      BY <1>1, LogIs DEF Buffered, Outputs, FileLog
    <2> QED
      BY <1>1, <2>1, FlowStays DEF Flows, Kept
  <1> QED
    BY <1>6, <1>7 DEF Flows

LEMMA FlowsExporterWrites ==
    ASSUME SinkTypes, Flows, ExporterWrites
    PROVE  Flows'
  <1> DEFINE q == m_queue["exporter"]
  <1>1. /\ m_queue'["exporter"] = Tail(q) /\ q # <<>> /\ Head(q) \in Nat
        /\ \A x \in Outputs \ {"exporter"} : m_queue'[x] = m_queue[x]
        /\ UNCHANGED <<disk, buffer, wire, offered, lost>>
        /\ written' = Append(written, Head(q))
    BY PopsTypes, OutputNames DEF ExporterWrites, fileVars, zmqVars
  <1>2. FlowOK(written, <<>>, q, offered["exporter"], lost["exporter"])
    BY LogIs, OutputNames DEF Flows, Flow, Buffered
  <1> HIDE DEF q
  <1>3. FlowOK(written', <<>>, m_queue'["exporter"], offered'["exporter"], lost'["exporter"])
    BY <1>1, <1>2, FlowDeliver
  <1>4. Flow("exporter")'
    BY <1>3, LogIs DEF Flow, Buffered, FlowOK
  <1>5. ASSUME NEW x \in Outputs \ {"exporter"} PROVE Flow(x)'
    <2>1. Log'[x] = Log[x] /\ Buffered(x)' = Buffered(x)
      BY <1>1, LogIs DEF Buffered, Outputs, FileLog, WireLog
    <2> QED
      BY <1>1, <2>1, FlowStays DEF Flows, Kept
  <1> QED
    BY <1>4, <1>5 DEF Flows

LEMMA FlowsStep ==
    ASSUME SinkTypes, Flows, Numbered, Turn, [Next]_sinkVars
    PROVE  Flows'
  <1> USE OutputNames
  <1> USE DEF pubVars, fileVars, zmqVars, ownerVars
  <1>0. ASSUME LogsKept, UNCHANGED <<buffer, m_queue, offered, lost>> PROVE Flows'
    BY <1>0, LogsStay, FlowStays DEF Flows, Kept, Buffered
  <1>1. ASSUME NEW p \in Publishers, PublishStruct(p) PROVE Flows'
    BY <1>0, <1>1 DEF PublishStruct, LogsKept
  <1>2. ASSUME NEW p \in Publishers, PushTelemetry(p) PROVE Flows'
    <2>1. /\ TryPush("exporter", published + 1) /\ published \in Nat
          /\ LogsKept /\ UNCHANGED buffer
      BY <1>2 DEF PushTelemetry, LogsKept, SinkTypes
    <2>2. offered["exporter"] \subseteq 1 .. published
      BY DEF Numbered
    <2>3. published + 1 \in Nat /\ \A x \in offered["exporter"] : x < published + 1
      BY <2>1, <2>2
    <2> QED
      BY <2>1, <2>3, FlowsPush
  <1>3. ASSUME NEW p \in Publishers, Forward(p) PROVE Flows'
    <2>1. /\ pubPc[p] \in 1 .. 2 /\ TryPush(Members[pubPc[p]], message[p])
          /\ message[p] \in Nat /\ LogsKept /\ UNCHANGED buffer
      BY <1>3 DEF Forward, SinkTypes, LogsKept
    <2>2. Members[pubPc[p]] \in Outputs
      BY <2>1
    <2>3. \A x \in offered[Members[pubPc[p]]] : x < message[p]
      BY <2>1 DEF Turn
    <2> QED
      BY <2>1, <2>2, <2>3, FlowsPush
  <1>4. CASE FileWrites
    BY <1>4, FlowsFileWrites
  <1>5. CASE FileWriteFails
    <2> DEFINE pending == Append(buffer, Head(m_queue["file"]))
    <2>1. /\ m_queue'["file"] = Tail(m_queue["file"]) /\ m_queue["file"] # <<>>
          /\ pending \in Seq(Nat) /\ FlushFails(pending)
          /\ \A x \in Outputs \ {"file"} : m_queue'[x] = m_queue[x]
          /\ UNCHANGED <<wire, written, offered>>
      BY <1>5, PopsTypes, PendingTypes DEF FileWriteFails
    <2>2. FlowOK(FileLog, pending, m_queue'["file"], offered["file"], lost["file"])
      BY <2>1, FileFlow, FlowBuffer DEF Flows
    <2> HIDE DEF pending
    <2>3. Flow("file")'
      BY <2>1, <2>2, FlowsFlushFails
    <2>4. \A x \in Outputs \ {"file"} : lost'[x] = lost[x]
      BY <2>1, FlushFailsTypes
    <2> QED
      BY <2>1, <2>3, <2>4, FileStepKeeps DEF Flows
  <1>6. CASE FileDiscards
    BY <1>6, FlowsDiscard DEF FileDiscards, LogsKept
  <1>7. CASE ZmqSends
    BY <1>7, FlowsZmqSends
  <1>8. CASE ZmqSendFails
    BY <1>8, FlowsDiscard DEF ZmqSendFails, LogsKept
  <1>9. CASE ZmqDiscards
    BY <1>9, FlowsDiscard DEF ZmqDiscards, LogsKept
  <1>10. CASE ExporterWrites
    BY <1>10, FlowsExporterWrites
  <1>11. CASE ExporterDrops
    BY <1>11, FlowsDiscard DEF ExporterDrops, LogsKept
  <1>12. ASSUME NEW o \in Outputs, ThreadReturns(o) PROVE Flows'
    BY <1>0, <1>12 DEF ThreadReturns, LogsKept
  <1>13. CASE Finish
    BY <1>0, <1>13 DEF Finish, LogsKept
  <1>14. CASE JoinAndClose
    <2>0. UNCHANGED <<m_queue, wire, written, offered>>
      BY <1>14 DEF JoinAndClose
    <2>1. CASE UNCHANGED <<fileVars, lost>>
      BY <1>0, <2>0, <2>1 DEF LogsKept
    <2>2. CASE FlushFails(buffer)
      <3>1. /\ buffer \in Seq(Nat)
            /\ FlowOK(FileLog, buffer, m_queue'["file"], offered["file"], lost["file"])
        BY <2>0, FileFlow DEF Flows, FlowOK
      <3>2. Flow("file")'
        BY <2>0, <2>2, <3>1, FlowsFlushFails
      <3>3. \A x \in Outputs \ {"file"} : lost'[x] = lost[x]
        BY <2>2, <3>1, FlushFailsTypes
      <3> QED
        BY <2>0, <3>2, <3>3, FileStepKeeps DEF Flows
    <2>3. CASE disk' = disk \o Records(buffer) /\ buffer' = <<>> /\ UNCHANGED lost
      <3>1. /\ buffer \in Seq(Nat)
            /\ FlowOK(FileLog, buffer, m_queue["file"], offered["file"], lost["file"])
        BY FileFlow DEF Flows, FlowOK
      <3>2. /\ Len(buffer) \in 0 .. Len(buffer) /\ SubSeq(buffer, 1, Len(buffer)) = buffer
            /\ SubSeq(buffer, Len(buffer) + 1, Len(buffer)) = <<>>
        BY <3>1, LenProperties, SubSeqFull, SubSeqEmpty
      <3>3. FlowOK(FileLog \o buffer, <<>>, m_queue["file"], offered["file"],
                   lost["file"] \cup Elements(<<>>))
        BY <3>1, <3>2, FlowWriteOut
      <3>4. FileLog' = FileLog \o buffer
        BY <2>3, <3>1, FileLogGrows
      <3>5. FlowOK(FileLog', buffer', m_queue'["file"], offered'["file"], lost'["file"])
        BY <2>0, <2>3, <3>3, <3>4, ElementsOfEmpty
      <3>6. Flow("file")'
        BY <3>5, LogIs DEF Flow, Buffered, FlowOK
      <3> QED
        BY <2>0, <2>3, <3>6, FileStepKeeps DEF Flows
    <2> QED
      BY <1>14, <2>1, <2>2, <2>3 DEF JoinAndClose
  <1>15. CASE Restart
    BY <1>0, <1>15 DEF Restart, LogsKept
  <1>16. CASE UNCHANGED sinkVars
    BY <1>0, <1>16 DEF sinkVars, LogsKept
  <1> QED
    BY <1>1, <1>2, <1>3, <1>4, <1>5, <1>6, <1>7, <1>8, <1>9, <1>10, <1>11, <1>12, <1>13, <1>14, <1>15, <1>16
    DEF Next, Publishing, FileStep, ZmqStep, ExporterStep, Destructors, Stopped

-----------------------------------------------------------------------------
(* The publishing lock keeps the numbers in order *)

LEMMA TurnStep ==
    ASSUME SinkTypes, Numbered, Turn, [Next]_sinkVars
    PROVE  Numbered' /\ Turn'
  <1> USE OutputNames, SinksAssumption
  <1>0. ASSUME UNCHANGED <<pubVars, offered>> PROVE Numbered' /\ Turn'
    BY <1>0 DEF Numbered, Turn, pubVars
  <1>1. ASSUME NEW p \in Publishers, PublishStruct(p) PROVE Numbered' /\ Turn'
    <2>1. /\ m_publishMutex = Nobody /\ published' = published + 1 /\ UNCHANGED offered
          /\ m_publishMutex' = p /\ published \in Nat
          /\ message' = [message EXCEPT ![p] = published + 1]
          /\ pubPc' = [pubPc EXCEPT ![p] = 1]
      BY <1>1 DEF PublishStruct, SinkTypes
    <2>2. \A r \in Publishers : r # p => ~(pubPc[r] > 0)
      BY <2>1 DEF Turn
    <2>3. Numbered'
      BY <2>1 DEF Numbered
    <2>4. \A r \in Publishers : r # p => ~(pubPc'[r] > 0)
      BY <2>1, <2>2 DEF SinkTypes
    <2>5. message'[p] = published + 1 /\ pubPc'[p] = 1
      BY <2>1 DEF SinkTypes
    <2>6. ASSUME NEW k \in pubPc'[p] .. 2, NEW x \in offered'[Members[k]]
          PROVE  x < message'[p]
      <3>1. k \in 1 .. 2 /\ Members[k] \in Outputs
        BY <2>5
      <3>2. x \in 1 .. published
        BY <2>1, <3>1 DEF Numbered
      <3> QED
        BY <2>1, <2>5, <3>2
    <2>7. Turn'
      BY <2>1, <2>4, <2>5, <2>6 DEF Turn
    <2> QED
      BY <2>3, <2>7
  <1>2. ASSUME NEW p \in Publishers, PushTelemetry(p) PROVE Numbered' /\ Turn'
    <2>1. /\ TryPush("exporter", published + 1) /\ published' = published + 1
          /\ published \in Nat /\ UNCHANGED <<m_publishMutex, pubPc, message>>
      BY <1>2 DEF PushTelemetry, SinkTypes
    <2>2. /\ \A o \in Outputs \ {"exporter"} : offered'[o] = offered[o]
          /\ offered'["exporter"] = offered["exporter"] \cup {published + 1}
      BY <2>1, TryPushTypes
    <2>3. Numbered'
      BY <2>1, <2>2 DEF Numbered
    <2>4. \A r \in Publishers : pubPc[r] > 0 =>
             \A k \in pubPc[r] .. 2 : offered'[Members[k]] = offered[Members[k]]
      <3> SUFFICES ASSUME NEW r \in Publishers, pubPc[r] > 0, NEW k \in pubPc[r] .. 2
                   PROVE  offered'[Members[k]] = offered[Members[k]]
        OBVIOUS
      <3>1. k \in 1 .. 2
        <4>1. pubPc[r] \in 0 .. 2
          BY DEF SinkTypes
        <4> QED
          BY <4>1
      <3> QED
        BY <2>2, <3>1
    <2>5. ASSUME NEW r \in Publishers, pubPc'[r] > 0
          PROVE  /\ m_publishMutex' = r /\ message'[r] \in 1 .. published'
                 /\ \A k \in pubPc'[r] .. 2 : \A x \in offered'[Members[k]] : x < message'[r]
      BY <2>1, <2>4, <2>5 DEF Turn
    <2> QED
      BY <2>3, <2>5 DEF Turn
  <1>3. ASSUME NEW p \in Publishers, Forward(p) PROVE Numbered' /\ Turn'
    <2> DEFINE o == Members[pubPc[p]]
    <2>1. /\ pubPc[p] \in 1 .. 2 /\ pubPc[p] > 0 /\ TryPush(o, message[p]) /\ o \in Outputs
          /\ message[p] \in Nat /\ UNCHANGED <<published, message>>
      BY <1>3 DEF Forward, SinkTypes
    <2>2. /\ \A x \in Outputs \ {o} : offered'[x] = offered[x]
          /\ offered'[o] = offered[o] \cup {message[p]}
      BY <2>1, TryPushTypes
    <2>3. message[p] \in 1 .. published /\ m_publishMutex = p
      BY <2>1 DEF Turn
    <2>4. Numbered'
      BY <2>1, <2>2, <2>3 DEF Numbered
    <2>5. \A r \in Publishers : r # p => ~(pubPc[r] > 0) /\ pubPc'[r] = pubPc[r]
      BY <1>3, <2>3 DEF Turn, Forward, SinkTypes
    <2>6. CASE pubPc[p] = 1
      <3>1. pubPc'[p] = 2 /\ m_publishMutex' = p
        BY <1>3, <2>3, <2>6 DEF Forward, SinkTypes
      <3>2. offered'[Members[2]] = offered[Members[2]]
        BY <2>2, <2>6
      <3>3. \A x \in offered[Members[2]] : x < message[p]
        BY <2>1, <2>6 DEF Turn
      <3>4. \A k \in pubPc'[p] .. 2 : \A x \in offered'[Members[k]] : x < message'[p]
        <4>1. \A k \in pubPc'[p] .. 2 : k = 2
          BY <3>1
        <4> QED
          BY <2>1, <3>2, <3>3, <4>1
      <3> QED
        BY <2>1, <2>3, <2>4, <2>5, <3>1, <3>4 DEF Turn
    <2>7. CASE pubPc[p] = 2
      <3>1. pubPc'[p] = 0
        BY <1>3, <2>7 DEF Forward, SinkTypes
      <3> QED
        BY <2>4, <2>5, <3>1 DEF Turn
    <2> QED
      BY <2>1, <2>6, <2>7
  <1>4. CASE FileStep
    BY <1>0, <1>4 DEF FileStep, FileWrites, FileWriteFails, FileDiscards
  <1>5. CASE ZmqStep
    BY <1>0, <1>5 DEF ZmqStep, ZmqSends, ZmqSendFails, ZmqDiscards
  <1>6. CASE ExporterStep
    BY <1>0, <1>6 DEF ExporterStep, ExporterWrites, ExporterDrops
  <1>7. ASSUME NEW o \in Outputs, ThreadReturns(o) PROVE Numbered' /\ Turn'
    BY <1>0, <1>7 DEF ThreadReturns
  <1>8. CASE Destructors \/ Restart
    BY <1>0, <1>8 DEF Destructors, Finish, JoinAndClose, Restart
  <1>9. CASE UNCHANGED sinkVars
    BY <1>0, <1>9 DEF sinkVars
  <1> QED
    BY <1>1, <1>2, <1>3, <1>4, <1>5, <1>6, <1>7, <1>8, <1>9 DEF Next, Publishing, Stopped

-----------------------------------------------------------------------------
(* The destructors *)

\* The four stages of the destruction, and what is left of each.
LEMMA Stages ==
    /\ Elements(<<"exporter", "file", "zmq">>) = Outputs /\ Elements(<<>>) = {}
    /\ Elements(<<"file", "zmq">>) = {"file", "zmq"} /\ Elements(<<"zmq">>) = {"zmq"}
    /\ Head(<<"exporter", "file", "zmq">>) = "exporter"
    /\ Head(<<"file", "zmq">>) = "file" /\ Head(<<"zmq">>) = "zmq"
    /\ Tail(<<"exporter", "file", "zmq">>) = <<"file", "zmq">>
    /\ Tail(<<"file", "zmq">>) = <<"zmq">> /\ Tail(<<"zmq">>) = <<>>
  <1>1. Elements(<<"exporter", "file", "zmq">>) = Outputs
    BY DEF Elements, Outputs
  <1>2. Elements(<<"file", "zmq">>) = {"file", "zmq"} /\ Elements(<<"zmq">>) = {"zmq"}
    BY DEF Elements
  <1> QED
    BY <1>1, <1>2, ElementsOfEmpty

LEMMA ShutdownInit == Init => Shutdown /\ Turn
  <1> SUFFICES ASSUME Init PROVE Shutdown /\ Turn
    OBVIOUS
  <1>1. \A p \in Publishers : ~(pubPc[p] > 0)
    <2>1. \A p \in Publishers : pubPc[p] = 0
      BY DEF Init
    <2> SUFFICES ASSUME NEW p \in Publishers PROVE ~(pubPc[p] > 0)
      OBVIOUS
    <2>2. pubPc[p] \in Nat /\ pubPc[p] = 0
      BY <2>1
    <2> QED
      BY <2>2
  <1> QED
    BY <1>1, Stages DEF Init, Shutdown, Turn, Outputs

LEMMA ShutdownStep ==
    ASSUME SinkTypes, Shutdown, [Next]_sinkVars
    PROVE  Shutdown'
  <1> USE OutputNames
  <1> USE DEF pubVars, fileVars, zmqVars, ownerVars
  <1>1. ASSUME NEW p \in Publishers, PublishStruct(p) PROVE Shutdown'
    <2>1. finished = {} /\ UNCHANGED <<m_queue, running, finished, teardown, buffer, m_file>>
      BY <1>1 DEF PublishStruct, MayPublish
    <2> QED
      BY <2>1 DEF Shutdown
  <1>2. ASSUME NEW o \in Outputs, NEW m \in Nat, TryPush(o, m), finished = {},
               UNCHANGED <<running, finished, teardown, buffer, m_file>>
        PROVE  Shutdown'
    <2>1. running = Outputs
      BY <1>2 DEF Shutdown, SinkTypes
    <2> QED
      BY <1>2, <2>1 DEF Shutdown
  <1>3. ASSUME NEW p \in Publishers, PushTelemetry(p) PROVE Shutdown'
    BY <1>2, <1>3 DEF PushTelemetry, MayPublish, SinkTypes
  <1>4. ASSUME NEW p \in Publishers, Forward(p) PROVE Shutdown'
    <2>1. pubPc[p] \in 1 .. 2 /\ pubPc[p] > 0 /\ message[p] \in Nat
      BY <1>4 DEF Forward, SinkTypes
    <2>2. finished = {}
      BY <2>1 DEF Shutdown
    <2> QED
      BY <1>2, <1>4, <2>1, <2>2 DEF Forward
  <1>5. ASSUME NEW o \in Outputs, Pops(o),
               UNCHANGED <<running, finished, teardown, pubPc>>,
               m_file' => m_file, ~m_file' => buffer' = <<>>
        PROVE  Shutdown'
    <2>1. \A x \in Outputs \ running : m_queue'[x] = m_queue[x]
      BY <1>5, PopsTypes
    <2> QED
      BY <1>5, <2>1 DEF Shutdown
  <1>6. CASE FileWrites
    BY <1>5, <1>6 DEF FileWrites
  <1>7. CASE FileWriteFails
    BY <1>5, <1>7 DEF FileWriteFails, FlushFails
  <1>8. CASE FileDiscards
    BY <1>5, <1>8 DEF FileDiscards, Shutdown
  <1>9. CASE ZmqStep
    BY <1>5, <1>9 DEF ZmqStep, ZmqSends, ZmqSendFails, ZmqDiscards, Shutdown
  <1>10. CASE ExporterStep
    BY <1>5, <1>10 DEF ExporterStep, ExporterWrites, ExporterDrops, Shutdown
  <1>11. ASSUME NEW o \in Outputs, ThreadReturns(o) PROVE Shutdown'
    BY <1>11 DEF ThreadReturns, Shutdown
  <1>12. CASE Finish
    <2>1. \A p \in Publishers : ~(pubPc'[p] > 0)
      BY <1>12 DEF Finish
    <2> QED
      BY <1>12, <2>1 DEF Finish, Shutdown
  <1>13. CASE JoinAndClose
    <2>1. /\ UNCHANGED <<pubPc, m_queue, running, finished>>
          /\ Head(teardown) \in finished \ running /\ teardown' = Tail(teardown)
          /\ teardown # <<>>
      BY <1>13 DEF JoinAndClose
    <2>2. /\ teardown' \in {<<"exporter", "file", "zmq">>, <<"file", "zmq">>, <<"zmq">>, <<>>}
          /\ Elements(teardown') = Elements(teardown) \ {Head(teardown)}
      BY <2>1, Stages DEF Shutdown, Outputs
    <2>3. m_file' => m_file /\ Head(teardown) # "file"
      BY <1>13 DEF JoinAndClose
    <2>4. ~m_file' => buffer' = <<>>
      BY <1>13 DEF JoinAndClose, FlushFails, Shutdown
    <2> QED
      BY <2>1, <2>2, <2>3, <2>4 DEF Shutdown
  <1>14. CASE Restart
    <2>1. buffer' = <<>> /\ m_queue' = m_queue /\ running' = Outputs
      BY <1>14, Stages DEF Restart, Shutdown
    <2>2. \A p \in Publishers : ~(pubPc'[p] > 0)
      <3>1. finished # {}
        BY <1>14, Stages DEF Restart, Shutdown
      <3> QED
        BY <1>14, <3>1 DEF Restart, Shutdown
    <2> QED
      BY <1>14, <2>1, <2>2, Stages DEF Restart, Shutdown
  <1>15. CASE UNCHANGED sinkVars
    BY <1>15 DEF sinkVars, Shutdown
  <1> QED
    BY <1>1, <1>3, <1>4, <1>6, <1>7, <1>8, <1>9, <1>10, <1>11, <1>12, <1>13, <1>14, <1>15
    DEF Next, Publishing, FileStep, Destructors, Stopped

-----------------------------------------------------------------------------
(* The log file and the framing of the socket *)

\* A write, whole or torn, to a file that is open.
LEMMA TornWrite ==
    ASSUME SinkTypes, TornOnce, m_file, NEW s \in Seq(Nat), disk' = disk \o Records(s),
           tears' \in {tears, tears \cup {Tear(Len(disk) + Len(s))}},
           tears' = tears \/ ~m_file', UNCHANGED run
    PROVE  TornOnce'
  <1>1. /\ Len(disk) \in Nat /\ Len(s) \in Nat /\ Len(disk') = Len(disk) + Len(s)
        /\ DOMAIN disk = 1 .. Len(disk) /\ DOMAIN disk' = 1 .. Len(disk')
        /\ \A i \in DOMAIN disk : disk'[i] = disk[i]
        /\ \A i \in DOMAIN disk' : i > Len(disk) => disk'[i].run = run
    <2>1. disk \in Seq(WholeRecord) /\ disk' \in Seq(WholeRecord)
      BY FileLogGrows DEF SinkTypes
    <2>2. /\ Len(disk) \in Nat /\ Len(s) \in Nat
          /\ DOMAIN disk = 1 .. Len(disk) /\ DOMAIN disk' = 1 .. Len(disk')
      BY <2>1, LenProperties
    <2> QED
      BY <2>2, FileLogGrows
  <1>2. run \in Nat
    BY DEF SinkTypes
  <1>3. \A t \in tears : t.run \in Nat /\ t.run < run /\ t.after \in Nat /\ t.after <= Len(disk)
    BY <1>2 DEF TornOnce, SinkTypes, TornRecord
  <1>4. \A i \in DOMAIN disk' : i \in DOMAIN disk \/ i > Len(disk)
    BY <1>1
  <1>5. \A i \in DOMAIN disk' : disk'[i].run <= run
    BY <1>1, <1>2, <1>4 DEF TornOnce
  <1>6. ASSUME NEW t \in tears, NEW i \in DOMAIN disk', i > t.after
        PROVE  disk'[i].run > t.run
    <2>1. CASE i \in DOMAIN disk
      BY <1>1, <1>6, <2>1 DEF TornOnce, LogStopsAtTear
    <2>2. CASE i > Len(disk)
      BY <1>1, <1>2, <1>3, <2>2
    <2> QED
      BY <1>4, <2>1, <2>2
  <1> DEFINE new == Tear(Len(disk) + Len(s))
  <1>7. new.run = run /\ new.after = Len(disk')
    BY <1>1 DEF Tear
  <1>8. \A t, u \in tears : u.run = t.run => u = t
    BY DEF TornOnce, LogStopsAtTear
  <1> HIDE DEF new
  <1>9. \A t \in tears' : t \in tears \/ (t = new /\ ~m_file')
    BY DEF new
  <1>10. ASSUME NEW t \in tears'
         PROVE  /\ t.run <= run' /\ t.after <= Len(disk') /\ (t.run = run' => ~m_file')
                /\ \A i \in DOMAIN disk' : i > t.after => disk'[i].run > t.run
                /\ \A u \in tears' : u.run = t.run => u = t
    <2>1. CASE t \in tears
      <3>1. \A u \in tears' : u.run = t.run => u = t
        BY <1>2, <1>3, <1>7, <1>8, <1>9, <2>1
      <3> QED
        BY <1>1, <1>2, <1>3, <1>6, <2>1, <3>1
    <2>2. CASE t = new /\ ~m_file'
      <3>1. \A u \in tears' : u.run = t.run => u = t
        BY <1>2, <1>3, <1>7, <1>9, <2>2
      <3>2. \A i \in DOMAIN disk' : ~(i > t.after)
        BY <1>1, <1>7, <2>2
      <3>3. t.run <= run' /\ t.after <= Len(disk')
        BY <1>1, <1>2, <1>7, <2>2
      <3> QED
        BY <2>2, <3>1, <3>2, <3>3
    <2> QED
      BY <1>9, <2>1, <2>2
  <1> QED
    BY <1>5, <1>10 DEF TornOnce, LogStopsAtTear

LEMMA TornFlushFails ==
    ASSUME SinkTypes, TornOnce, m_file, NEW pending \in Seq(Nat), FlushFails(pending),
           ~m_file', UNCHANGED run
    PROVE  TornOnce'
  <1>1. PICK n \in 0 .. Len(pending) :
           /\ disk' = disk \o Records(SubSeq(pending, 1, n))
           /\ SubSeq(pending, 1, n) \in Seq(Nat)
           /\ Len(disk') = Len(disk) + n
           /\ tears' \in {tears, tears \cup {Tear(Len(disk) + n)}}
    BY FlushFailsTypes
  <1>2. Len(SubSeq(pending, 1, n)) = n
    <2>1. Len(pending) \in Nat
      BY LenProperties
    <2> QED
      BY <1>1, <2>1
  <1> QED
    BY <1>1, <1>2, TornWrite

LEMMA TornStep ==
    ASSUME SinkTypes, TornOnce, [Next]_sinkVars
    PROVE  TornOnce'
  <1> USE DEF pubVars, fileVars, zmqVars, ownerVars
  <1>0. ASSUME UNCHANGED <<disk, tears, run, m_file>> PROVE TornOnce'
    BY <1>0 DEF TornOnce, LogStopsAtTear
  <1>1. ASSUME NEW p \in Publishers, Publishing(p) \/ Forward(p) PROVE TornOnce'
    BY <1>0, <1>1 DEF Publishing, PublishStruct, PushTelemetry, Forward
  <1>2. CASE FileWrites
    <2> DEFINE pending == Append(buffer, Head(m_queue["file"]))
    <2>1. pending \in Seq(Nat) /\ m_file /\ UNCHANGED <<run, tears, m_file>>
      BY <1>2, PendingTypes DEF FileWrites
    <2>2. UNCHANGED disk \/ disk' = disk \o Records(pending)
      BY <1>2 DEF FileWrites
    <2> HIDE DEF pending
    <2> QED
      BY <1>0, <2>1, <2>2, TornWrite
  <1>3. CASE FileWriteFails
    <2>1. /\ Append(buffer, Head(m_queue["file"])) \in Seq(Nat) /\ m_file /\ ~m_file'
          /\ FlushFails(Append(buffer, Head(m_queue["file"]))) /\ UNCHANGED run
      BY <1>3, PendingTypes DEF FileWriteFails
    <2> QED
      BY <2>1, TornFlushFails
  <1>4. CASE FileDiscards
    BY <1>0, <1>4 DEF FileDiscards
  <1>5. CASE ZmqStep \/ ExporterStep
    BY <1>0, <1>5
    DEF ZmqStep, ZmqSends, ZmqSendFails, ZmqDiscards, ExporterStep, ExporterWrites, ExporterDrops
  <1>6. ASSUME NEW o \in Outputs, ThreadReturns(o) PROVE TornOnce'
    BY <1>0, <1>6 DEF ThreadReturns
  <1>7. CASE Finish
    BY <1>0, <1>7 DEF Finish
  <1>8. CASE JoinAndClose
    <2>0. UNCHANGED run /\ buffer \in Seq(Nat)
      BY <1>8 DEF JoinAndClose, SinkTypes
    <2>1. CASE UNCHANGED fileVars
      BY <1>0, <2>0, <2>1
    <2>2. CASE m_file /\ FlushFails(buffer) /\ ~m_file'
      BY <2>0, <2>2, TornFlushFails
    <2>3. CASE m_file /\ disk' = disk \o Records(buffer) /\ UNCHANGED tears
      BY <2>0, <2>3, TornWrite
    <2> QED
      BY <1>8, <2>1, <2>2, <2>3 DEF JoinAndClose
  <1>9. CASE Restart
    <2>1. run \in Nat /\ run' = run + 1 /\ UNCHANGED <<disk, tears>>
      BY <1>9 DEF Restart, SinkTypes
    <2>2. \A t \in tears : t.run \in Nat
      BY DEF SinkTypes, TornRecord
    <2>3. \A i \in DOMAIN disk : disk[i].run \in Nat
      <3>1. disk \in Seq(WholeRecord)
        BY DEF SinkTypes
      <3>2. \A i \in DOMAIN disk : disk[i] \in WholeRecord
        BY <3>1, LenProperties
      <3> QED
        BY <3>2 DEF WholeRecord
    <2>4. /\ \A t \in tears : t.run <= run' /\ t.run # run'
          /\ \A i \in DOMAIN disk : disk[i].run <= run'
      BY <2>1, <2>2, <2>3 DEF TornOnce
    <2> QED
      BY <2>1, <2>4 DEF TornOnce, LogStopsAtTear
  <1>10. CASE UNCHANGED sinkVars
    BY <1>0, <1>10 DEF sinkVars
  <1> QED
    BY <1>1, <1>2, <1>3, <1>4, <1>5, <1>6, <1>7, <1>8, <1>9, <1>10
    DEF Next, FileStep, Destructors, Stopped

LEMMA FramesStep ==
    ASSUME SinkTypes, FramesAreOrphans, [Next]_sinkVars
    PROVE  FramesAreOrphans'
  <1> USE OutputNames
  <1> USE DEF pubVars, fileVars, zmqVars, ownerVars
  <1>0. ASSUME frames' = frames \/ frames' = <<>>, UNCHANGED wire, lost["zmq"] \subseteq lost'["zmq"]
        PROVE  FramesAreOrphans'
    BY <1>0 DEF FramesAreOrphans, DataFollowsIdentifier
  <1>1. ASSUME NEW p \in Publishers, Publishing(p) \/ Forward(p) PROVE FramesAreOrphans'
    <2>1. ASSUME NEW o \in Outputs, NEW m \in Nat, TryPush(o, m)
          PROVE  lost["zmq"] \subseteq lost'["zmq"]
      BY <2>1, TryPushTypes
    <2>2. CASE PublishStruct(p)
      BY <1>0, <2>2 DEF PublishStruct
    <2>3. CASE PushTelemetry(p)
      <3>1. TryPush("exporter", published + 1) /\ published + 1 \in Nat
        BY <2>3 DEF PushTelemetry, SinkTypes
      <3> QED
        BY <1>0, <2>1, <2>3, <3>1 DEF PushTelemetry
    <2>4. CASE Forward(p)
      <3>1. /\ pubPc[p] \in 1 .. 2 /\ message[p] \in Nat
            /\ TryPush(Members[pubPc[p]], message[p])
        BY <2>4 DEF Forward, SinkTypes
      <3> QED
        BY <1>0, <2>1, <2>4, <3>1 DEF Forward
    <2> QED
      BY <1>1, <2>2, <2>3, <2>4 DEF Publishing
  <1>2. CASE FileWrites \/ FileDiscards
    BY <1>0, <1>2 DEF FileWrites, FileDiscards, Loses, SinkTypes
  <1>3. ASSUME NEW pending \in Seq(Nat), FlushFails(pending), UNCHANGED <<frames, wire>>
        PROVE  FramesAreOrphans'
    BY <1>0, <1>3, FlushFailsTypes
  <1>4. CASE FileWriteFails
    BY <1>3, <1>4, PendingTypes DEF FileWriteFails
  <1>5. CASE ZmqSends
    <2> DEFINE m == Head(m_queue["zmq"])
               parts == frames \o <<Identifier(m), Data(m)>>
    <2>1. /\ m \in Nat /\ frames \in Seq(Frame) /\ wire \in Seq(Seq(Frame))
          /\ wire' = Append(wire, parts) /\ frames' = <<>> /\ UNCHANGED lost
      BY <1>5, PopsTypes DEF ZmqSends, SinkTypes
    <2>2. /\ parts \in Seq(Frame) /\ Len(parts) = Len(frames) + 2 /\ Len(frames) \in Nat
          /\ parts[Len(frames) + 2] = Data(m) /\ parts[Len(frames) + 1] = Identifier(m)
          /\ \A i \in 1 .. Len(frames) : parts[i] = frames[i]
      BY <2>1, MessageEnds
    <2>3. DOMAIN frames = 1 .. Len(frames) /\ Data(m).msg = m
      BY <2>1, LenProperties DEF Data
    <2> HIDE DEF parts, m
    <2>4. /\ Len(parts) >= 2
          /\ parts[Len(parts) - 1] = Identifier(parts[Len(parts)].msg)
      <3>1. Len(parts) - 1 = Len(frames) + 1
        BY <2>2
      <3> QED
        BY <2>2, <2>3, <3>1
    <2>5. \A i \in 1 .. Len(parts) - 2 :
             parts[i].frame = "identifier" /\ parts[i].msg \in lost["zmq"]
      <3>1. Len(parts) - 2 = Len(frames)
        BY <2>2
      <3> QED
        BY <2>2, <2>3, <3>1 DEF FramesAreOrphans
    <2>6. /\ DOMAIN wire = 1 .. Len(wire) /\ DOMAIN wire' = 1 .. Len(wire) + 1
          /\ Len(wire) \in Nat
          /\ \A k \in 1 .. Len(wire) : wire'[k] = wire[k]
          /\ wire'[Len(wire) + 1] = parts
      BY <2>1, <2>2, AppendProperties, LenProperties
    <2>7. \A k \in DOMAIN wire' : k \in DOMAIN wire \/ k = Len(wire) + 1
      BY <2>6
    <2>8. DataFollowsIdentifier'
      <3> SUFFICES ASSUME NEW k \in DOMAIN wire'
                   PROVE  /\ Len(wire'[k]) >= 2
                          /\ wire'[k][Len(wire'[k]) - 1] = Identifier(wire'[k][Len(wire'[k])].msg)
                          /\ \A i \in 1 .. Len(wire'[k]) - 2 :
                                /\ wire'[k][i].frame = "identifier"
                                /\ wire'[k][i].msg \in lost'["zmq"]
        BY DEF DataFollowsIdentifier, Identifier
      <3>1. CASE k \in DOMAIN wire
        BY <2>1, <2>6, <3>1 DEF FramesAreOrphans, DataFollowsIdentifier
      <3>2. CASE k = Len(wire) + 1
        BY <2>1, <2>4, <2>5, <2>6, <3>2
      <3> QED
        BY <2>7, <3>1, <3>2
    <2> QED
      BY <2>1, <2>8 DEF FramesAreOrphans
  <1>6. CASE ZmqSendFails
    <2> DEFINE m == Head(m_queue["zmq"])
    <2>1. m \in Nat /\ frames \in Seq(Frame)
      BY <1>6, PopsTypes DEF ZmqSendFails, SinkTypes
    <2>2. lost'["zmq"] = lost["zmq"] \cup {m} /\ UNCHANGED wire
      BY <1>6, <2>1, LosesTypes DEF ZmqSendFails
    <2>3. CASE frames' = frames
      BY <1>0, <2>2, <2>3
    <2>4. CASE frames' = Append(frames, Identifier(m))
      <3> DEFINE id == Identifier(m)
      <3>1. id \in Frame /\ id.frame = "identifier" /\ id.msg = m
        BY <2>1 DEF Identifier, Frame
      <3> HIDE DEF id
      <3>2. frames' = Append(frames, id)
        BY <2>4 DEF id
      <3>3. /\ DOMAIN frames = 1 .. Len(frames) /\ Len(frames) \in Nat
            /\ DOMAIN frames' = 1 .. Len(frames) + 1
            /\ \A i \in 1 .. Len(frames) : frames'[i] = frames[i]
            /\ frames'[Len(frames) + 1] = id
        BY <2>1, <3>1, <3>2, AppendProperties, LenProperties
      <3>4. \A i \in DOMAIN frames' : i \in DOMAIN frames \/ i = Len(frames) + 1
        BY <3>3
      <3>5. \A i \in DOMAIN frames' :
               frames'[i].frame = "identifier" /\ frames'[i].msg \in lost'["zmq"]
        BY <2>2, <3>1, <3>3, <3>4 DEF FramesAreOrphans
      <3>6. DataFollowsIdentifier'
        BY <2>2 DEF FramesAreOrphans, DataFollowsIdentifier
      <3> QED
        BY <3>5, <3>6 DEF FramesAreOrphans
    <2> QED
      BY <1>6, <2>3, <2>4 DEF ZmqSendFails
  <1>7. CASE ZmqDiscards \/ ExporterStep
    BY <1>0, <1>7 DEF ZmqDiscards, ExporterStep, ExporterWrites, ExporterDrops, Loses, SinkTypes
  <1>8. ASSUME NEW o \in Outputs, ThreadReturns(o) PROVE FramesAreOrphans'
    BY <1>0, <1>8 DEF ThreadReturns
  <1>9. CASE Finish \/ Restart
    BY <1>0, <1>9 DEF Finish, Restart
  <1>10. CASE JoinAndClose
    <2>1. buffer \in Seq(Nat) /\ UNCHANGED <<frames, wire>>
      BY <1>10 DEF JoinAndClose, SinkTypes
    <2>2. FlushFails(buffer) \/ UNCHANGED lost
      BY <1>10 DEF JoinAndClose
    <2> QED
      BY <1>0, <1>3, <2>1, <2>2
  <1>11. CASE UNCHANGED sinkVars
    BY <1>0, <1>11 DEF sinkVars
  <1> QED
    BY <1>1, <1>2, <1>4, <1>5, <1>6, <1>7, <1>8, <1>9, <1>10, <1>11
    DEF Next, FileStep, ZmqStep, Destructors, Stopped

-----------------------------------------------------------------------------
LEMMA SinksInit == Init => SinkInv
  <1>1. Init => TornOnce /\ FramesAreOrphans
    BY DEF Init, TornOnce, LogStopsAtTear, FramesAreOrphans, DataFollowsIdentifier
  <1> QED
    BY <1>1, TypesInit, FlowsInit, ShutdownInit DEF SinkInv

LEMMA SinksStep == SinkInv /\ [Next]_sinkVars => SinkInv'
  BY TypesStep, FlowsStep, TurnStep, ShutdownStep, TornStep, FramesStep DEF SinkInv

\* The inductive invariant of the telemetry outputs.
THEOREM SinksInvariant == Spec => []SinkInv
  BY SinksInit, SinksStep, PTL DEF Spec

\* A destructor that has returned leaves no message behind, neither in the
\* queue nor in the stream buffer: what is not in the log was lost to a full
\* queue or to an I/O error.
THEOREM DestructorsDrain == Spec => []DestroyedMeansDrained
  <1>1. SinkInv => DestroyedMeansDrained
    <2> SUFFICES ASSUME SinkInv, NEW o \in Outputs, \A i \in DOMAIN teardown : teardown[i] # o
                 PROVE  offered[o] = Elements(Log[o]) \cup lost[o]
      BY DEF DestroyedMeansDrained
    <2>1. o \notin Elements(teardown)
      BY DEF Elements
    <2>2. m_queue[o] = <<>>
      BY <2>1 DEF SinkInv, Shutdown
    <2>3. Buffered(o) = <<>>
      BY <2>1 DEF SinkInv, Shutdown, Buffered
    <2>4. FlowOK(Log[o], <<>>, <<>>, offered[o], lost[o])
      BY <2>2, <2>3 DEF SinkInv, Flows, Flow
    <2> QED
      BY <2>4, ElementsOfEmpty DEF FlowOK
  <1> QED
    BY <1>1, SinksInvariant, PTL

\* Within a run nothing is written to the log file behind a torn record,
\* whatever fails and however often the receiver is restarted on the same file.
THEOREM NothingFollowsATear == Spec => []LogStopsAtTear
  <1>1. SinkInv => LogStopsAtTear
    BY DEF SinkInv, TornOnce
  <1> QED
    BY <1>1, SinksInvariant, PTL

\* A subscriber that looks at the last two frames of a multipart message finds
\* an identifier and the data it announces, however many sends have failed.
THEOREM FramesMatch == Spec => []DataFollowsIdentifier
  <1>1. SinkInv => DataFollowsIdentifier
    BY DEF SinkInv, FramesAreOrphans
  <1> QED
    BY <1>1, SinksInvariant, PTL

-----------------------------------------------------------------------------
(* The outputs implement LossyLog *)

LEMMA LogsAreNumbered ==
    ASSUME SinkInv, NEW o \in Outputs
    PROVE  /\ Log[o] \in Seq(Nat) /\ Lossy!Increasing(Log[o])
           /\ \A i \in DOMAIN Log[o] : Log[o][i] <= published
  <1>1. FlowOK(Log[o], Buffered(o), m_queue[o], offered[o], lost[o]) /\ published \in Nat
    BY DEF SinkInv, Flows, Flow, SinkTypes
  <1>2. Elements(Log[o]) \subseteq 1 .. published
    BY <1>1 DEF FlowOK, SinkInv, Numbered
  <1>3. \A i \in DOMAIN Log[o] : Log[o][i] \in 1 .. published
    BY <1>2 DEF Elements
  <1> QED
    BY <1>1, <1>3 DEF FlowOK, Ordered, Rising, Lossy!Increasing

\* A step that lengthens one log and leaves the others alone.
LEMMA Delivery ==
    ASSUME SinkInv, SinkInv', NEW o \in Outputs, UNCHANGED published,
           NEW s \in Seq(Nat), Log'[o] = Log[o] \o s,
           \A x \in Outputs \ {o} : Log'[x] = Log[x]
    PROVE  Lossy!Deliver(o)
  <1>1. /\ Log[o] \in Seq(Nat) /\ Log'[o] \in Seq(Nat) /\ Lossy!Increasing(Log'[o])
        /\ \A i \in DOMAIN Log'[o] : Log'[o][i] <= published
    <2>1. Log[o] \in Seq(Nat)
      BY LogsAreNumbered
    <2>2. FlowOK(Log'[o], Buffered(o)', m_queue'[o], offered'[o], lost'[o]) /\ published' \in Nat
      BY DEF SinkInv, Flows, Flow, SinkTypes, FlowOK
    <2>3. Elements(Log'[o]) \subseteq 1 .. published'
      BY <2>2 DEF FlowOK, SinkInv, Numbered
    <2>4. \A i \in DOMAIN Log'[o] : Log'[o][i] \in 1 .. published'
      BY <2>3 DEF Elements
    <2>5. Log'[o] \in Seq(Nat) /\ Rising(Log'[o])
      BY <2>2 DEF FlowOK, Ordered
    <2>6. Lossy!Increasing(Log'[o])
      BY <2>5 DEF Rising, Lossy!Increasing
    <2>7. \A i \in DOMAIN Log'[o] : Log'[o][i] <= published
      BY <2>2, <2>4
    <2> QED
      BY <2>1, <2>5, <2>6, <2>7
  <1>2. Lossy!Extends(Log[o], Log'[o])
    <2>1. /\ Len(Log[o]) \in Nat /\ Len(s) \in Nat /\ DOMAIN Log[o] = 1 .. Len(Log[o])
      BY <1>1, LenProperties
    <2>2. /\ Len(Log'[o]) = Len(Log[o]) + Len(s)
          /\ \A i \in 1 .. Len(Log[o]) : Log'[o][i] = Log[o][i]
      BY <1>1, ConcatIs
    <2> QED
      BY <2>1, <2>2 DEF Lossy!Extends
  <1> QED
    BY <1>1, <1>2 DEF Lossy!Deliver

LEMMA LogIsFunction ==
    /\ Log = [o \in Outputs |-> Log[o]] /\ Log' = [o \in Outputs |-> Log'[o]]
  BY DEF Log

LEMMA LogsSame ==
    ASSUME LogsKept
    PROVE  Log' = Log
  BY LogsStay, LogIsFunction

LEMMA FileDelivery ==
    ASSUME SinkInv, SinkInv', NEW s \in Seq(Nat), disk' = disk \o Records(s),
           UNCHANGED <<wire, written, published>>
    PROVE  Lossy!Deliver("file")
  <1>1. Log'["file"] = Log["file"] \o s
    BY FileLogGrows, LogIs DEF SinkInv
  <1>2. \A x \in Outputs \ {"file"} : Log'[x] = Log[x]
    BY LogIs DEF Outputs, WireLog
  <1> QED
    BY <1>1, <1>2, Delivery, OutputNames

LEMMA LossyStep ==
    ASSUME SinkInv, SinkInv', [Next]_sinkVars
    PROVE  [Lossy!LossyNext]_(Lossy!logVars)
  <1> USE OutputNames
  <1> USE DEF pubVars, fileVars, zmqVars, ownerVars
  <1>0. ASSUME LogsKept, UNCHANGED published PROVE [Lossy!LossyNext]_(Lossy!logVars)
    BY <1>0, LogsSame DEF Lossy!logVars
  <1>d. ASSUME NEW o \in Outputs, Lossy!Deliver(o) PROVE [Lossy!LossyNext]_(Lossy!logVars)
    BY <1>d DEF Lossy!LossyNext
  <1>1. ASSUME NEW p \in Publishers, Publishing(p) PROVE [Lossy!LossyNext]_(Lossy!logVars)
    <2>1. LogsKept /\ published' = published + 1
      BY <1>1 DEF Publishing, PublishStruct, PushTelemetry, LogsKept
    <2> QED
      BY <2>1, LogsSame DEF Lossy!LossyNext, Lossy!Publish
  <1>2. ASSUME NEW p \in Publishers, Forward(p) PROVE [Lossy!LossyNext]_(Lossy!logVars)
    BY <1>0, <1>2 DEF Forward, LogsKept
  <1>3. CASE FileWrites
    <2> DEFINE pending == Append(buffer, Head(m_queue["file"]))
    <2>1. pending \in Seq(Nat) /\ UNCHANGED <<wire, written, published>>
      BY <1>3, PendingTypes DEF FileWrites, SinkInv
    <2>2. UNCHANGED disk \/ disk' = disk \o Records(pending)
      BY <1>3 DEF FileWrites
    <2> HIDE DEF pending
    <2> QED
      BY <1>0, <1>d, <2>1, <2>2, FileDelivery DEF LogsKept
  <1>4. ASSUME NEW pending \in Seq(Nat), FlushFails(pending), UNCHANGED <<wire, written, published>>
        PROVE  [Lossy!LossyNext]_(Lossy!logVars)
    <2>1. PICK n \in 0 .. Len(pending) :
             /\ disk' = disk \o Records(SubSeq(pending, 1, n))
             /\ SubSeq(pending, 1, n) \in Seq(Nat)
      BY <1>4, FlushFailsTypes DEF SinkInv
    <2> QED
      BY <1>4, <1>d, <2>1, FileDelivery
  <1>5. CASE FileWriteFails
    <2>1. /\ Append(buffer, Head(m_queue["file"])) \in Seq(Nat)
          /\ FlushFails(Append(buffer, Head(m_queue["file"])))
          /\ UNCHANGED <<wire, written, published>>
      BY <1>5, PendingTypes DEF FileWriteFails, SinkInv
    <2> QED
      BY <1>4, <2>1
  <1>6. CASE ZmqSends
    <2> DEFINE q == m_queue["zmq"]
               parts == frames \o <<Identifier(Head(q)), Data(Head(q))>>
    <2>1. /\ Head(q) \in Nat /\ UNCHANGED <<disk, written, published>>
          /\ wire' = Append(wire, parts)
      BY <1>6, PopsTypes DEF ZmqSends, SinkInv
    <2>2. parts \in Seq(Frame) /\ Len(parts) > 0 /\ parts[Len(parts)].msg = Head(q)
      <3>1. frames \in Seq(Frame)
        BY DEF SinkInv, SinkTypes
      <3>2. /\ parts \in Seq(Frame) /\ Len(parts) = Len(frames) + 2 /\ Len(frames) \in Nat
            /\ parts[Len(frames) + 2] = Data(Head(q))
        BY <2>1, <3>1, MessageEnds
      <3> QED
        BY <3>2 DEF Data
    <2> HIDE DEF q, parts
    <2>3. WireLog \in Seq(Nat)
      BY LogsAreNumbered, LogIs
    <2>4. WireLog' = Append(WireLog, Head(q))
      BY <2>1, <2>2, <2>3, WireLogGrows DEF SinkInv
    <2>5. Log'["zmq"] = Log["zmq"] \o <<Head(q)>> /\ <<Head(q)>> \in Seq(Nat)
      BY <2>1, <2>3, <2>4, LogIs, AppendIsConcat
    <2>6. \A x \in Outputs \ {"zmq"} : Log'[x] = Log[x]
      BY <2>1, LogIs DEF Outputs, FileLog
    <2> QED
      BY <1>d, <2>1, <2>5, <2>6, Delivery
  <1>7. CASE ExporterWrites
    <2> DEFINE q == m_queue["exporter"]
    <2>1. /\ Head(q) \in Nat /\ UNCHANGED <<disk, wire, published>>
          /\ written' = Append(written, Head(q)) /\ written \in Seq(Nat)
      BY <1>7, PopsTypes DEF ExporterWrites, SinkInv, SinkTypes
    <2> HIDE DEF q
    <2>2. Log'["exporter"] = Log["exporter"] \o <<Head(q)>> /\ <<Head(q)>> \in Seq(Nat)
      BY <2>1, LogIs, AppendIsConcat
    <2>3. \A x \in Outputs \ {"exporter"} : Log'[x] = Log[x]
      BY <2>1, LogIs DEF Outputs, FileLog, WireLog
    <2> QED
      BY <1>d, <2>1, <2>2, <2>3, Delivery
  <1>8. CASE FileDiscards \/ ZmqSendFails \/ ZmqDiscards \/ ExporterDrops
    BY <1>0, <1>8 DEF FileDiscards, ZmqSendFails, ZmqDiscards, ExporterDrops, LogsKept
  <1>9. ASSUME NEW o \in Outputs, ThreadReturns(o) PROVE [Lossy!LossyNext]_(Lossy!logVars)
    BY <1>0, <1>9 DEF ThreadReturns, LogsKept
  <1>10. CASE Finish \/ Restart
    BY <1>0, <1>10 DEF Finish, Restart, LogsKept
  <1>11. CASE JoinAndClose
    <2>1. buffer \in Seq(Nat) /\ UNCHANGED <<wire, written, published>>
      BY <1>11 DEF JoinAndClose, SinkInv, SinkTypes
    <2>2. UNCHANGED disk \/ disk' = disk \o Records(buffer) \/ FlushFails(buffer)
      BY <1>11 DEF JoinAndClose
    <2> QED
      BY <1>0, <1>4, <1>d, <2>1, <2>2, FileDelivery DEF LogsKept
  <1>12. CASE UNCHANGED sinkVars
    BY <1>0, <1>12 DEF sinkVars, LogsKept
  <1> QED
    BY <1>1, <1>2, <1>3, <1>5, <1>6, <1>7, <1>8, <1>9, <1>10, <1>11, <1>12
    DEF Next, FileStep, ZmqStep, ExporterStep, Destructors, Stopped

\* The telemetry outputs, with their lock, queues, threads, failing I/O and
\* restarts, implement the abstract log: messages may be missing, but none is
\* repeated, invented or out of the one order in which they were published.
THEOREM RefinesLossyLog == Spec => LossySpec
  <1>1. Init => Lossy!LossyInit
    <2> SUFFICES ASSUME Init PROVE Lossy!LossyInit
      OBVIOUS
    <2>1. FileLog = <<>> /\ WireLog = <<>> /\ written = <<>> /\ published = 0
      BY DEF Init, FileLog, WireLog
    <2>2. \A o \in Outputs : Log[o] = <<>>
      BY <2>1, LogIs DEF Outputs
    <2> QED
      BY <2>1, <2>2, LogIsFunction DEF Lossy!LossyInit
  <1>2. SinkInv /\ SinkInv' /\ [Next]_sinkVars => [Lossy!LossyNext]_(Lossy!logVars)
    BY LossyStep
  <1> QED
    BY <1>1, <1>2, SinksInvariant, PTL DEF Spec, LossySpec, Lossy!LossySpec
=============================================================================
