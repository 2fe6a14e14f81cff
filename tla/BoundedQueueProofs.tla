------------------------- MODULE BoundedQueueProofs -------------------------
(***************************************************************************)
(* Proofs about BoundedQueue for every set of threads, every item set and  *)
(* every capacity.                                                         *)
(***************************************************************************)
EXTENDS BoundedQueue, FiniteSetTheorems, SequenceTheorems, TLAPS

\* The ring index arithmetic: the two operands never reach twice the capacity,
\* so one subtraction replaces the remainder.
LEMMA RingIndex ==
    ASSUME NEW i \in Nat, i < 2 * Capacity
    PROVE  i % Capacity = IF i < Capacity THEN i ELSE i - Capacity
  BY QueueAssumption

\* A set of threads picked by their program counter is finite.
LEMMA InFinite ==
    ASSUME NEW states
    PROVE  IsFiniteSet(In(states)) /\ Cardinality(In(states)) \in Nat
  <1>1. In(states) \in SUBSET Threads
    BY DEF In
  <1> QED
    BY <1>1, QueueAssumption, FS_Subset, FS_CardinalityType

-----------------------------------------------------------------------------
\* Every reachable state is well typed: the indices of enqueueLocked and
\* dequeueLocked stay inside the ring and m_count never exceeds m_maxCapacity.
THEOREM TypeCorrect == Spec => []TypeOK
  <1>1. Init => TypeOK
    <2> SUFFICES ASSUME Init PROVE TypeOK
      OBVIOUS
    <2>1. m_head \in Slots /\ m_count \in 0 .. Capacity
      BY QueueAssumption DEF Init, Slots
    <2>2. /\ m_storage \in [Slots -> Items \cup {Default}]
          /\ pc \in [Threads -> PcStates]
          /\ item \in [Threads -> Items \cup {Default}]
          /\ ended \in [Threads -> {"none", "push", "pop"}]
      BY DEF Init, PcStates
    <2> QED
      BY <2>1, <2>2 DEF Init, TypeOK
  <1>2. TypeOK /\ [Next]_queueVars => TypeOK'
    <2> SUFFICES ASSUME TypeOK, [Next]_queueVars PROVE TypeOK'
      OBVIOUS
    <2> USE DEF TypeOK, PcStates
    <2>1. CASE UNCHANGED queueVars
      BY <2>1 DEF queueVars
    <2>2. ASSUME NEW t \in Threads, NEW op \in {"push", "pop"}, Calls(t, op)
          PROVE  TypeOK'
      BY <2>2 DEF Calls
    <2>3. ASSUME NEW t \in Threads, PushBlocks(t) PROVE TypeOK'
      BY <2>3 DEF PushBlocks
    <2>4. ASSUME NEW t \in Threads, PushRejected(t) PROVE TypeOK'
      BY <2>4 DEF PushRejected, ReturnsFalse
    <2>5. ASSUME NEW x \in Items, EnqueueLocked(x), m_count < Capacity
          PROVE  /\ m_storage' \in [Slots -> Items \cup {Default}]
                 /\ m_count' \in 0 .. Capacity
      BY <2>5, QueueAssumption DEF EnqueueLocked, Slots
    <2>6. ASSUME NEW t \in Threads, DequeueLocked(t), m_count > 0
          PROVE  /\ m_storage' \in [Slots -> Items \cup {Default}]
                 /\ m_head' \in Slots
                 /\ m_count' \in 0 .. Capacity
                 /\ item' \in [Threads -> Items \cup {Default}]
      <3>1. (m_head + 1) % Capacity \in Slots
        BY QueueAssumption DEF Slots
      <3> QED
        BY <2>6, <3>1, QueueAssumption DEF DequeueLocked, Slots
    <2>7. ASSUME NEW t \in Threads, NEW x \in Items,
                 PushAccepted(t, x) \/ TryPush(t, x)
          PROVE  TypeOK'
      <3>1. EnqueueLocked(x) /\ m_count < Capacity
        BY <2>7, QueueAssumption DEF PushAccepted, TryPush
      <3> QED
        BY <2>7, <3>1, <2>5 DEF PushAccepted, TryPush
    <2>8. ASSUME NEW t \in Threads, PopAccepted(t) \/ TryPop(t) PROVE TypeOK'
      <3>1. DequeueLocked(t) /\ m_count > 0
        BY <2>8 DEF PopAccepted, TryPop
      <3> QED
        BY <2>8, <3>1, <2>6 DEF PopAccepted, TryPop
    <2>9. ASSUME NEW t \in Threads, NotifyPop(t) \/ NotifyPush(t) PROVE TypeOK'
      BY <2>9 DEF NotifyPop, NotifyPush
    <2>10. ASSUME NEW t \in Threads, PopBlocks(t) PROVE TypeOK'
      BY <2>10 DEF PopBlocks
    <2>11. ASSUME NEW t \in Threads, PopRejected(t) PROVE TypeOK'
      BY <2>11 DEF PopRejected, ReturnsFalse
    <2>12. ASSUME NEW t \in Threads, Finish(t) PROVE TypeOK'
      BY <2>12 DEF Finish, Woken
    <2>13. ASSUME NEW t \in Threads, SpuriousWakeup(t) PROVE TypeOK'
      BY <2>13 DEF SpuriousWakeup, Woken
    <2> QED
      BY <2>1, <2>2, <2>3, <2>4, <2>7, <2>8, <2>9, <2>10, <2>11, <2>12, <2>13
      DEF Next, Step, Call
  <1> QED
    BY <1>1, <1>2, PTL DEF Spec
-----------------------------------------------------------------------------
\* Two positions of the queue are two slots of the ring.
LEMMA RingInjective ==
    ASSUME m_head \in Slots, NEW i \in Slots, NEW j \in Slots,
           (m_head + i) % Capacity = (m_head + j) % Capacity
    PROVE  i = j
  BY RingIndex, QueueAssumption DEF Slots

\* Advancing the head by one renumbers the positions behind it.
LEMMA RingAdvance ==
    ASSUME m_head \in Slots, NEW i \in Slots
    PROVE  (((m_head + 1) % Capacity) + i) % Capacity
             = IF i + 1 < Capacity THEN (m_head + (i + 1)) % Capacity ELSE m_head
  <1>1. (m_head + 1) % Capacity = IF m_head + 1 < Capacity THEN m_head + 1 ELSE 0
    BY RingIndex, QueueAssumption DEF Slots
  <1>2. (m_head + 1) % Capacity \in Slots
    BY <1>1, QueueAssumption DEF Slots
  <1>3. (((m_head + 1) % Capacity) + i) % Capacity
           = IF ((m_head + 1) % Capacity) + i < Capacity
             THEN ((m_head + 1) % Capacity) + i
             ELSE ((m_head + 1) % Capacity) + i - Capacity
    BY <1>2, RingIndex, QueueAssumption DEF Slots
  <1>4. CASE i + 1 < Capacity
    <2>1. (m_head + (i + 1)) % Capacity
             = IF m_head + (i + 1) < Capacity THEN m_head + (i + 1)
               ELSE m_head + (i + 1) - Capacity
      BY <1>4, RingIndex, QueueAssumption DEF Slots
    <2> QED
      BY <1>1, <1>3, <1>4, <2>1, QueueAssumption DEF Slots
  <1>5. CASE i + 1 = Capacity
    BY <1>1, <1>3, <1>5, QueueAssumption DEF Slots
  <1> QED
    BY <1>4, <1>5, QueueAssumption DEF Slots

\* A slot is read by dequeueLocked only while it holds an undelivered item and
\* written by enqueueLocked only while it is free: RingOccupied is inductive.
THEOREM RingCorrect == Spec => []RingOccupied
  <1>1. Init => RingOccupied
    <2> SUFFICES ASSUME Init, NEW i \in Slots
                 PROVE  m_storage[(m_head + i) % Capacity] # Default <=> i < m_count
      BY DEF RingOccupied
    <2>1. m_head + i = i /\ i < Capacity /\ i \in Nat
      BY QueueAssumption DEF Init, Slots
    <2>2. (m_head + i) % Capacity = i
      BY <2>1, RingIndex, QueueAssumption
    <2> QED
      BY <2>1, <2>2, QueueAssumption DEF Init, Slots
  <1>2. TypeOK /\ RingOccupied /\ [Next]_queueVars => RingOccupied'
    <2> SUFFICES ASSUME TypeOK, RingOccupied, [Next]_queueVars
                 PROVE  RingOccupied'
      OBVIOUS
    <2>1. ASSUME UNCHANGED <<m_storage, m_head, m_count>>
          PROVE  RingOccupied'
      BY <2>1 DEF RingOccupied
    <2>2. ASSUME NEW x \in Items, EnqueueLocked(x), m_count < Capacity,
                 UNCHANGED m_head
          PROVE  RingOccupied'
      <3> SUFFICES ASSUME NEW i \in Slots
                   PROVE  m_storage'[(m_head + i) % Capacity] # Default
                            <=> i < m_count + 1
        BY <2>2 DEF RingOccupied, EnqueueLocked
      <3>1. (m_head + i) % Capacity \in Slots /\ m_count \in Slots
        BY <2>2, QueueAssumption DEF TypeOK, Slots
      <3>2. CASE i = m_count
        BY <2>2, <3>1, <3>2, QueueAssumption DEF EnqueueLocked, TypeOK, Slots
      <3>3. CASE i # m_count
        <4>1. (m_head + i) % Capacity # (m_head + m_count) % Capacity
          BY <3>1, <3>3, RingInjective DEF TypeOK
        <4>2. m_storage'[(m_head + i) % Capacity] = m_storage[(m_head + i) % Capacity]
          BY <2>2, <3>1, <4>1 DEF EnqueueLocked, TypeOK
        <4> QED
          BY <3>3, <4>2, QueueAssumption DEF RingOccupied, TypeOK, Slots
      <3> QED
        BY <3>2, <3>3
    <2>3. ASSUME NEW t \in Threads, DequeueLocked(t), m_count > 0
          PROVE  RingOccupied'
      <3> SUFFICES ASSUME NEW i \in Slots
                   PROVE  m_storage'[(((m_head + 1) % Capacity) + i) % Capacity] # Default
                            <=> i < m_count - 1
        BY <2>3 DEF RingOccupied, DequeueLocked
      <3>1. (m_head + 0) % Capacity = m_head /\ m_head \in Slots /\ 0 \in Slots
        BY RingIndex, QueueAssumption DEF TypeOK, Slots
      <3>2. CASE i + 1 < Capacity
        <4> DEFINE k == (m_head + (i + 1)) % Capacity
        <4>1. i + 1 \in Slots /\ i + 1 # 0 /\ k \in Slots
          BY <3>2, QueueAssumption DEF Slots, TypeOK
        <4>2. k # m_head
          BY <3>1, <4>1, RingInjective
        <4>3. m_storage'[k] = m_storage[k]
          BY <2>3, <4>1, <4>2 DEF DequeueLocked, TypeOK
        <4>4. m_storage[k] # Default <=> i + 1 < m_count
          BY <4>1 DEF RingOccupied
        <4>5. (((m_head + 1) % Capacity) + i) % Capacity = k
          BY <3>1, <3>2, RingAdvance
        <4> QED
          BY <4>3, <4>4, <4>5, QueueAssumption, SMTT(30) DEF TypeOK, Slots
      <3>3. CASE ~(i + 1 < Capacity)
        <4>1. (((m_head + 1) % Capacity) + i) % Capacity = m_head
          BY <3>1, <3>3, RingAdvance
        <4>2. m_storage'[m_head] = Default
          BY <2>3, <3>1 DEF DequeueLocked, TypeOK
        <4> QED
          BY <3>3, <4>1, <4>2, QueueAssumption, SMTT(30) DEF TypeOK, Slots
      <3> QED
        BY <3>2, <3>3
    <2>4. ASSUME NEW t \in Threads, NEW x \in Items,
                 PushAccepted(t, x) \/ TryPush(t, x)
          PROVE  RingOccupied'
      BY <2>4, <2>2, QueueAssumption DEF PushAccepted, TryPush, TypeOK
    <2>5. ASSUME NEW t \in Threads, PopAccepted(t) \/ TryPop(t)
          PROVE  RingOccupied'
      BY <2>5, <2>3 DEF PopAccepted, TryPop
    <2> QED
      BY <2>1, <2>4, <2>5
      DEF Next, Step, Call, Calls, PushBlocks, PushRejected, PopBlocks,
          PopRejected, NotifyPop, NotifyPush, Finish, SpuriousWakeup, queueVars
  <1> QED
    BY <1>1, <1>2, TypeCorrect, PTL DEF Spec
-----------------------------------------------------------------------------
\* A thread that leaves one group of program counters and the threads that
\* enter it change the group's size accordingly.
LEMMA InChange ==
    ASSUME NEW states
    PROVE  /\ In(states) \subseteq In(states)' =>
                 Cardinality(In(states)) <= Cardinality(In(states)')
           /\ \A t : In(states)' = In(states) \cup {t} /\ t \notin In(states)
                 => Cardinality(In(states)') = Cardinality(In(states)) + 1
           /\ \A t : In(states)' = In(states) \ {t} /\ t \in In(states)
                 => Cardinality(In(states)') = Cardinality(In(states)) - 1
           /\ \A t, w : /\ In(states)' = (In(states) \ {t}) \cup {w}
                        /\ t \in In(states) /\ w \notin In(states)
                 => Cardinality(In(states)') = Cardinality(In(states))
           /\ Cardinality(In(states)) \in Nat
           /\ Cardinality(In(states)') \in Nat
  <1>1. IsFiniteSet(In(states)) /\ Cardinality(In(states)) \in Nat
    BY InFinite
  <1>2. IsFiniteSet(In(states)') /\ Cardinality(In(states)') \in Nat
    <2>1. In(states)' \in SUBSET Threads
      BY DEF In
    <2> QED
      BY <2>1, QueueAssumption, FS_Subset, FS_CardinalityType
  <1>3. In(states) \subseteq In(states)' =>
            Cardinality(In(states)) <= Cardinality(In(states)')
    BY <1>2, FS_Subset
  <1>4. ASSUME NEW t, t \notin In(states)
        PROVE  Cardinality(In(states) \cup {t}) = Cardinality(In(states)) + 1
    BY <1>1, <1>4, FS_AddElement
  <1>5. ASSUME NEW t, t \in In(states)
        PROVE  /\ IsFiniteSet(In(states) \ {t})
               /\ Cardinality(In(states) \ {t}) = Cardinality(In(states)) - 1
    BY <1>1, <1>5, FS_RemoveElement
  <1>6. ASSUME NEW t, NEW w, t \in In(states), w \notin In(states)
        PROVE  Cardinality((In(states) \ {t}) \cup {w}) = Cardinality(In(states))
    <2> DEFINE rest == In(states) \ {t}
    <2>1. /\ IsFiniteSet(rest)
          /\ Cardinality(rest) = Cardinality(In(states)) - 1
          /\ w \notin rest
      BY <1>5, <1>6
    <2> HIDE DEF rest
    <2>2. Cardinality(rest \cup {w}) = Cardinality(rest) + 1
      BY <2>1, FS_AddElement
    <2>3. Cardinality(rest \cup {w}) = Cardinality(In(states))
      BY <1>1, <2>1, <2>2
    <2> QED
      BY <2>3 DEF rest
  <1> QED
    BY <1>1, <1>2, <1>3, <1>4, <1>5, <1>6

\* notify_one after the unlock never strands a sleeping pop or push, and
\* finish() leaves nobody asleep.
THEOREM WakeupsCorrect == Spec => []NoLostWakeup
  <1>1. Init => NoLostWakeup
    BY DEF Init, NoLostWakeup, NoLostPopWakeup, NoLostPushWakeup,
           NobodySleepsAfterFinish, In
  <1>2. TypeOK /\ NoLostWakeup /\ [Next]_queueVars => NoLostWakeup'
    <2> SUFFICES ASSUME TypeOK, NoLostWakeup, [Next]_queueVars PROVE NoLostWakeup'
      OBVIOUS
    <2> DEFINE PopW == {"notifyPop", "pop"}
               PushW == {"notifyPush", "push"}
    <2>0. /\ Cardinality(In(PopW)) \in Nat /\ Cardinality(In(PopW)') \in Nat
          /\ Cardinality(In(PushW)) \in Nat /\ Cardinality(In(PushW)') \in Nat
      BY InChange
    <2>1. CASE UNCHANGED queueVars
      BY <2>1 DEF queueVars, NoLostWakeup, NoLostPopWakeup, NoLostPushWakeup,
                  NobodySleepsAfterFinish, In
    <2>2. ASSUME NEW t \in Threads, NEW op \in {"push", "pop"}, Calls(t, op)
          PROVE  NoLostWakeup'
      <3>1. /\ In(PopW) \subseteq In(PopW)' /\ In(PushW) \subseteq In(PushW)'
            /\ In({"popWait"})' = In({"popWait"})
            /\ In({"pushWait"})' = In({"pushWait"})
            /\ In({"pushWait", "popWait"})' = In({"pushWait", "popWait"})
        BY <2>2 DEF Calls, In, TypeOK
      <3> QED
        BY <2>0, <2>2, <3>1, InChange, QueueAssumption
        DEF Calls, NoLostWakeup, NoLostPopWakeup, NoLostPushWakeup,
            NobodySleepsAfterFinish, TypeOK
    <2>3. ASSUME NEW t \in Threads, PushBlocks(t) PROVE NoLostWakeup'
      <3>1. /\ In(PopW)' = In(PopW)
            /\ In({"popWait"})' = In({"popWait"})
        BY <2>3 DEF PushBlocks, In, TypeOK
      <3>2. m_count = Capacity /\ m_count' = Capacity /\ ~m_finished'
        BY <2>3, QueueAssumption DEF PushBlocks, TypeOK
      <3> QED
        BY <2>0, <2>3, <3>1, <3>2, QueueAssumption
        DEF PushBlocks, NoLostWakeup, NoLostPopWakeup, NoLostPushWakeup,
            NobodySleepsAfterFinish, TypeOK
    <2>4. ASSUME NEW t \in Threads, PopBlocks(t) PROVE NoLostWakeup'
      <3>1. /\ In(PushW)' = In(PushW)
            /\ In({"pushWait"})' = In({"pushWait"})
        BY <2>4 DEF PopBlocks, In, TypeOK
      <3>2. m_count' = 0 /\ m_count = 0 /\ ~m_finished'
        BY <2>4, QueueAssumption DEF PopBlocks, TypeOK
      <3> QED
        BY <2>0, <2>4, <3>1, <3>2, QueueAssumption
        DEF PopBlocks, NoLostWakeup, NoLostPopWakeup, NoLostPushWakeup,
            NobodySleepsAfterFinish, TypeOK
    <2>5. ASSUME NEW t \in Threads, PushRejected(t) \/ PopRejected(t)
          PROVE  NoLostWakeup'
      <3>1. m_finished /\ In({"pushWait", "popWait"}) = {}
        BY <2>5 DEF PushRejected, PopRejected, NoLostWakeup, NobodySleepsAfterFinish
      <3>2. \A u \in Threads : pc'[u] \notin {"pushWait", "popWait"}
        BY <2>5, <3>1
        DEF PushRejected, PopRejected, ReturnsFalse, In, TypeOK
      <3> QED
        BY <3>2 DEF NoLostWakeup, NoLostPopWakeup, NoLostPushWakeup,
                    NobodySleepsAfterFinish, In
    <2>6. ASSUME NEW t \in Threads, NEW x \in Items,
                 PushAccepted(t, x) \/ TryPush(t, x)
          PROVE  NoLostWakeup'
      <3>1. /\ In(PopW)' = In(PopW) \cup {t} /\ t \notin In(PopW)
            /\ In({"popWait"})' = In({"popWait"})
            /\ In({"pushWait"})' = In({"pushWait"})
            /\ m_count' = m_count + 1 /\ ~m_finished'
        BY <2>6 DEF PushAccepted, TryPush, EnqueueLocked, In, TypeOK
      <3>2. Cardinality(In(PopW)') = Cardinality(In(PopW)) + 1
        BY <3>1, InChange
      <3>3. Cardinality(In(PushW)') >= Cardinality(In(PushW)) - 1
        <4>1. CASE t \in In(PushW)
          <5>1. In(PushW)' = In(PushW) \ {t}
            BY <2>6, <4>1 DEF PushAccepted, TryPush, In, TypeOK
          <5> QED
            BY <2>0, <4>1, <5>1, InChange
        <4>2. CASE t \notin In(PushW)
          <5>1. In(PushW) \subseteq In(PushW)'
            BY <2>6, <4>2 DEF PushAccepted, TryPush, In, TypeOK
          <5> QED
            BY <2>0, <5>1, InChange
        <4> QED
          BY <4>1, <4>2
      <3> QED
        BY <2>0, <3>1, <3>2, <3>3, QueueAssumption
        DEF NoLostWakeup, NoLostPopWakeup, NoLostPushWakeup,
            NobodySleepsAfterFinish, TypeOK
    <2>7. ASSUME NEW t \in Threads, PopAccepted(t) \/ TryPop(t)
          PROVE  NoLostWakeup'
      <3>1. /\ In(PushW)' = In(PushW) \cup {t} /\ t \notin In(PushW)
            /\ In({"popWait"})' = In({"popWait"})
            /\ In({"pushWait"})' = In({"pushWait"})
            /\ In({"pushWait", "popWait"})' = In({"pushWait", "popWait"})
            /\ m_count' = m_count - 1 /\ m_finished' = m_finished
        BY <2>7 DEF PopAccepted, TryPop, DequeueLocked, In, TypeOK
      <3>2. Cardinality(In(PushW)') = Cardinality(In(PushW)) + 1
        BY <3>1, InChange
      <3>3. Cardinality(In(PopW)') >= Cardinality(In(PopW)) - 1
        <4>1. CASE t \in In(PopW)
          <5>1. In(PopW)' = In(PopW) \ {t}
            BY <2>7, <4>1 DEF PopAccepted, TryPop, In, TypeOK
          <5> QED
            BY <2>0, <4>1, <5>1, InChange
        <4>2. CASE t \notin In(PopW)
          <5>1. In(PopW) \subseteq In(PopW)'
            BY <2>7, <4>2 DEF PopAccepted, TryPop, In, TypeOK
          <5> QED
            BY <2>0, <5>1, InChange
        <4> QED
          BY <4>1, <4>2
      <3> QED
        BY <2>0, <3>1, <3>2, <3>3, QueueAssumption
        DEF NoLostWakeup, NoLostPopWakeup, NoLostPushWakeup,
            NobodySleepsAfterFinish, TypeOK
    <2>8. ASSUME NEW t \in Threads, NotifyPop(t) PROVE NoLostWakeup'
      <3>1. /\ In(PushW)' = In(PushW)
            /\ In({"pushWait"})' = In({"pushWait"})
            /\ In({"pushWait", "popWait"})' \subseteq In({"pushWait", "popWait"})
            /\ m_count' = m_count /\ m_finished' = m_finished
        BY <2>8 DEF NotifyPop, In, TypeOK
      <3>2. \/ In({"popWait"})' = {}
            \/ /\ Cardinality(In(PopW)') = Cardinality(In(PopW))
               /\ In({"popWait"})' \subseteq In({"popWait"})
        <4>1. CASE {w \in Threads : pc[w] = "popWait"} = {}
          BY <2>8, <4>1 DEF NotifyPop, In, TypeOK
        <4>2. CASE {w \in Threads : pc[w] = "popWait"} # {}
          <5>1. PICK w \in Threads :
                    /\ pc[w] = "popWait"
                    /\ pc' = [pc EXCEPT ![t] = "idle", ![w] = "pop"]
            BY <2>8, <4>2 DEF NotifyPop
          <5>2. /\ In(PopW)' = (In(PopW) \ {t}) \cup {w}
                /\ t \in In(PopW) /\ w \notin In(PopW)
                /\ In({"popWait"})' \subseteq In({"popWait"})
            BY <2>8, <5>1 DEF NotifyPop, In, TypeOK
          <5> QED
            BY <5>2, InChange
        <4> QED
          BY <4>1, <4>2
      <3> QED
        BY <2>0, <3>1, <3>2, QueueAssumption
        DEF NoLostWakeup, NoLostPopWakeup, NoLostPushWakeup,
            NobodySleepsAfterFinish, TypeOK
    <2>9. ASSUME NEW t \in Threads, NotifyPush(t) PROVE NoLostWakeup'
      <3>1. /\ In(PopW)' = In(PopW)
            /\ In({"popWait"})' = In({"popWait"})
            /\ In({"pushWait", "popWait"})' \subseteq In({"pushWait", "popWait"})
            /\ m_count' = m_count /\ m_finished' = m_finished
        BY <2>9 DEF NotifyPush, In, TypeOK
      <3>2. \/ In({"pushWait"})' = {}
            \/ /\ Cardinality(In(PushW)') = Cardinality(In(PushW))
               /\ In({"pushWait"})' \subseteq In({"pushWait"})
        <4>1. CASE {w \in Threads : pc[w] = "pushWait"} = {}
          BY <2>9, <4>1 DEF NotifyPush, In, TypeOK
        <4>2. CASE {w \in Threads : pc[w] = "pushWait"} # {}
          <5>1. PICK w \in Threads :
                    /\ pc[w] = "pushWait"
                    /\ pc' = [pc EXCEPT ![t] = "idle", ![w] = "push"]
            BY <2>9, <4>2 DEF NotifyPush
          <5>2. /\ In(PushW)' = (In(PushW) \ {t}) \cup {w}
                /\ t \in In(PushW) /\ w \notin In(PushW)
                /\ In({"pushWait"})' \subseteq In({"pushWait"})
            BY <2>9, <5>1 DEF NotifyPush, In, TypeOK
          <5> QED
            BY <5>2, InChange
        <4> QED
          BY <4>1, <4>2
      <3> QED
        BY <2>0, <3>1, <3>2, QueueAssumption
        DEF NoLostWakeup, NoLostPopWakeup, NoLostPushWakeup,
            NobodySleepsAfterFinish, TypeOK
    <2>10. ASSUME NEW t \in Threads, Finish(t) PROVE NoLostWakeup'
      <3>1. \A u \in Threads : pc'[u] \notin {"pushWait", "popWait"}
        BY <2>10 DEF Finish, Woken, TypeOK
      <3> QED
        BY <3>1 DEF NoLostWakeup, NoLostPopWakeup, NoLostPushWakeup,
                    NobodySleepsAfterFinish, In
    <2>11. ASSUME NEW t \in Threads, SpuriousWakeup(t) PROVE NoLostWakeup'
      <3>1. /\ In(PopW) \subseteq In(PopW)' /\ In(PushW) \subseteq In(PushW)'
            /\ In({"popWait"})' \subseteq In({"popWait"})
            /\ In({"pushWait"})' \subseteq In({"pushWait"})
            /\ In({"pushWait", "popWait"})' \subseteq In({"pushWait", "popWait"})
            /\ m_count' = m_count /\ m_finished' = m_finished
        BY <2>11 DEF SpuriousWakeup, Woken, In, TypeOK
      <3> QED
        BY <2>0, <3>1, InChange, QueueAssumption
        DEF NoLostWakeup, NoLostPopWakeup, NoLostPushWakeup,
            NobodySleepsAfterFinish, TypeOK
    <2> QED
      BY <2>1, <2>2, <2>3, <2>4, <2>5, <2>6, <2>7, <2>8, <2>9, <2>10, <2>11
      DEF Next, Step, Call
  <1> QED
    BY <1>1, <1>2, TypeCorrect, PTL DEF Spec
-----------------------------------------------------------------------------
\* A pop that returned false saw the closed queue drained, and it stays so.
THEOREM EndCorrect == Spec => []EndIsFinal
  <1>1. Init => EndIsFinal
    BY DEF Init, EndIsFinal
  <1>2. TypeOK /\ EndIsFinal /\ [Next]_queueVars => EndIsFinal'
    <2> SUFFICES ASSUME TypeOK, EndIsFinal, [Next]_queueVars PROVE EndIsFinal'
      OBVIOUS
    <2> USE DEF EndIsFinal
    <2>1. ASSUME NEW t \in Threads, PushRejected(t) \/ PopRejected(t)
          PROVE  EndIsFinal'
      BY <2>1 DEF PushRejected, PopRejected, ReturnsFalse, TypeOK
    <2>2. ASSUME NEW t \in Threads, NEW x \in Items,
                 PushAccepted(t, x) \/ TryPush(t, x)
          PROVE  EndIsFinal'
      BY <2>2 DEF PushAccepted, TryPush
    <2>3. ASSUME NEW t \in Threads, PopAccepted(t) \/ TryPop(t)
          PROVE  EndIsFinal'
      <3>1. m_count # 0 /\ UNCHANGED <<ended, m_finished>>
        BY <2>3 DEF PopAccepted, TryPop, TypeOK
      <3> QED
        BY <3>1
    <2> QED
      BY <2>1, <2>2, <2>3
      DEF Next, Step, Call, Calls, PushBlocks, PopBlocks, NotifyPop,
          NotifyPush, Finish, SpuriousWakeup, queueVars
  <1> QED
    BY <1>1, <1>2, TypeCorrect, PTL DEF Spec

-----------------------------------------------------------------------------
\* Append and Tail as the functions they are.
LEMMA AppendAsFunction ==
    ASSUME NEW S, NEW s \in Seq(S), NEW x \in S
    PROVE  Append(s, x) = [i \in 1 .. Len(s) + 1 |-> IF i <= Len(s) THEN s[i] ELSE x]
  <1>1. /\ Append(s, x) \in Seq(S)
        /\ Len(Append(s, x)) = Len(s) + 1
        /\ \A i \in 1 .. Len(s) : Append(s, x)[i] = s[i]
        /\ Append(s, x)[Len(s) + 1] = x
    BY AppendProperties
  <1>2. Len(s) \in Nat
    BY LenProperties
  <1>3. Append(s, x) \in [1 .. Len(s) + 1 -> S]
    BY <1>1, LenProperties
  <1>4. \A i \in 1 .. Len(s) + 1 : Append(s, x)[i] = IF i <= Len(s) THEN s[i] ELSE x
    BY <1>1, <1>2
  <1> QED
    BY <1>3, <1>4, Zenon

LEMMA TailAsFunction ==
    ASSUME NEW S, NEW s \in Seq(S), s # <<>>
    PROVE  Tail(s) = [i \in 1 .. Len(s) - 1 |-> s[i + 1]]
  <1>1. /\ Tail(s) \in Seq(S)
        /\ Len(Tail(s)) = Len(s) - 1
        /\ \A i \in 1 .. Len(Tail(s)) : Tail(s)[i] = s[i + 1]
    BY HeadTailProperties
  <1>2. Tail(s) \in [1 .. Len(s) - 1 -> S]
    BY <1>1, LenProperties
  <1> QED
    BY <1>1, <1>2, Zenon

\* The ring read from its head: the abstract queue of the refinement mapping.
QueueView ==
    [i \in 1 .. m_count |-> m_storage[(m_head + i - 1) % Capacity]]

\* enqueueLocked appends to the queue.
LEMMA EnqueueAppends ==
    ASSUME TypeOK, NEW x \in Items, EnqueueLocked(x), m_count < Capacity,
           UNCHANGED m_head
    PROVE  /\ Len(QueueView) = m_count
           /\ QueueView' = Append(QueueView, x)
  <1>1. /\ QueueView \in Seq(Items \cup {Default})
        /\ Len(QueueView) = m_count
    <2>1. \A i \in 1 .. m_count : (m_head + i - 1) % Capacity \in Slots
      BY QueueAssumption DEF TypeOK, Slots
    <2> QED
      BY <2>1, QueueAssumption DEF QueueView, TypeOK, Slots
  <1>2. m_count \in Slots /\ m_count' = m_count + 1
    BY QueueAssumption DEF TypeOK, Slots, EnqueueLocked
  <1>3. ASSUME NEW i \in 1 .. m_count
        PROVE  m_storage'[(m_head + i - 1) % Capacity]
                 = m_storage[(m_head + i - 1) % Capacity]
    <2>1. i - 1 \in Slots /\ i - 1 # m_count /\ m_head + i - 1 = m_head + (i - 1)
      BY <1>2, QueueAssumption DEF TypeOK, Slots
    <2>2. (m_head + (i - 1)) % Capacity # (m_head + m_count) % Capacity
      BY <1>2, <2>1, RingInjective DEF TypeOK
    <2>3. (m_head + (i - 1)) % Capacity \in Slots
      BY <2>1, QueueAssumption DEF TypeOK, Slots
    <2> QED
      BY <2>1, <2>2, <2>3 DEF EnqueueLocked, TypeOK
  <1>4. m_storage'[(m_head + (m_count + 1) - 1) % Capacity] = x
    <2>1. m_head + (m_count + 1) - 1 = m_head + m_count
      BY QueueAssumption DEF TypeOK, Slots
    <2>2. (m_head + m_count) % Capacity \in Slots
      BY QueueAssumption DEF TypeOK, Slots
    <2> QED
      BY <2>1, <2>2 DEF EnqueueLocked, TypeOK
  <1>5. QueueView' = [i \in 1 .. m_count + 1 |->
                          IF i <= m_count THEN QueueView[i] ELSE x]
    <2>1. QueueView' = [i \in 1 .. m_count + 1 |-> m_storage'[(m_head + i - 1) % Capacity]]
      BY <1>2 DEF QueueView
    <2>2. \A i \in 1 .. m_count : QueueView[i] = m_storage[(m_head + i - 1) % Capacity]
      BY DEF QueueView
    <2>3. \A i \in 1 .. m_count + 1 :
              m_storage'[(m_head + i - 1) % Capacity]
                = IF i <= m_count THEN QueueView[i] ELSE x
      <3> TAKE i \in 1 .. m_count + 1
      <3>1. CASE i <= m_count
        <4>1. i \in 1 .. m_count
          BY <3>1 DEF TypeOK
        <4> QED
          BY <1>3, <2>2, <3>1, <4>1
      <3>2. CASE ~(i <= m_count)
        <4>1. i = m_count + 1
          BY <3>2 DEF TypeOK
        <4> QED
          BY <1>4, <3>2, <4>1
      <3> QED
        BY <3>1, <3>2
    <2> QED
      BY <2>1, <2>3, Zenon
  <1>6. Append(QueueView, x) = [i \in 1 .. m_count + 1 |->
                                   IF i <= m_count THEN QueueView[i] ELSE x]
    <2>1. x \in Items \cup {Default}
      OBVIOUS
    <2> QED
      BY <1>1, <2>1, AppendAsFunction
  <1> QED
    BY <1>1, <1>5, <1>6, Zenon

\* dequeueLocked hands out the oldest item and removes it.
LEMMA DequeueTakesHead ==
    ASSUME TypeOK, NEW t \in Threads, DequeueLocked(t), m_count > 0
    PROVE  /\ QueueView # <<>>
           /\ item' = [item EXCEPT ![t] = Head(QueueView)]
           /\ QueueView' = Tail(QueueView)
  <1>1. /\ QueueView \in Seq(Items \cup {Default})
        /\ Len(QueueView) = m_count
    <2>1. \A i \in 1 .. m_count : (m_head + i - 1) % Capacity \in Slots
      BY QueueAssumption DEF TypeOK, Slots
    <2> QED
      BY <2>1, QueueAssumption DEF QueueView, TypeOK, Slots
  <1>2. m_head \in Slots /\ (m_head + 1 - 1) % Capacity = m_head
    <2>1. m_head + 1 - 1 = m_head /\ m_head \in Nat /\ m_head < Capacity
      BY QueueAssumption DEF TypeOK, Slots
    <2> QED
      BY <2>1, RingIndex, QueueAssumption DEF TypeOK
  <1>3. QueueView # <<>> /\ Head(QueueView) = m_storage[m_head]
    BY <1>1, <1>2, QueueAssumption DEF QueueView, TypeOK
  <1>4. ASSUME NEW i \in 1 .. m_count - 1
        PROVE  m_storage'[(m_head' + i - 1) % Capacity]
                 = m_storage[(m_head + (i + 1) - 1) % Capacity]
    <2>1. /\ i - 1 \in Slots /\ (i - 1) + 1 < Capacity /\ i \in Slots /\ i # 0
          /\ 0 \in Slots /\ (i - 1) + 1 = i
          /\ m_head + (i + 1) - 1 = m_head + i
      BY <1>4, QueueAssumption DEF TypeOK, Slots
    <2>2. (m_head' + (i - 1)) % Capacity = (m_head + i) % Capacity
      BY <1>2, <2>1, RingAdvance DEF DequeueLocked
    <2>3. m_head' + i - 1 = m_head' + (i - 1)
      <3>1. m_head' \in Nat
        BY QueueAssumption DEF DequeueLocked, TypeOK, Slots
      <3> QED
        BY <3>1, <1>4, QueueAssumption DEF TypeOK
    <2>4. (m_head + 0) % Capacity = m_head
      BY <1>2, RingIndex, QueueAssumption DEF Slots
    <2>5. (m_head + i) % Capacity # m_head
      BY <1>2, <2>1, <2>4, RingInjective
    <2>6. (m_head + i) % Capacity \in Slots
      BY <2>1, QueueAssumption DEF TypeOK, Slots
    <2>7. m_storage'[(m_head + i) % Capacity] = m_storage[(m_head + i) % Capacity]
      BY <2>5, <2>6 DEF DequeueLocked, TypeOK
    <2> QED
      BY <2>1, <2>2, <2>3, <2>7
  <1>5. m_count' = m_count - 1
    BY DEF DequeueLocked
  <1>6. QueueView' = [i \in 1 .. m_count - 1 |-> QueueView[i + 1]]
    <2>1. QueueView' = [i \in 1 .. m_count - 1 |-> m_storage'[(m_head' + i - 1) % Capacity]]
      BY <1>5 DEF QueueView
    <2>2. \A i \in 1 .. m_count - 1 :
              QueueView[i + 1] = m_storage[(m_head + (i + 1) - 1) % Capacity]
      BY QueueAssumption DEF QueueView, TypeOK
    <2> QED
      BY <1>4, <2>1, <2>2
  <1> QED
    <2>1. QueueView' = Tail(QueueView)
      <3>1. Tail(QueueView) = [i \in 1 .. m_count - 1 |-> QueueView[i + 1]]
        BY <1>1, <1>3, TailAsFunction
      <3> QED
        BY <1>6, <3>1, Zenon
    <2> QED
      BY <1>3, <2>1 DEF DequeueLocked

\* The ring with its mutex, condition variables and three wait points is a
\* closable FIFO queue: every step of it is a step of FifoQueue or stutters.
THEOREM RefinesFifo == Spec => FifoSpec
  <1>1. Init => Fifo!FifoInit
    <2> SUFFICES ASSUME Init PROVE Fifo!FifoInit
      OBVIOUS
    <2>1. [i \in 1 .. m_count |-> m_storage[(m_head + i - 1) % Capacity]] = <<>>
      BY DEF Init
    <2> QED
      BY <2>1 DEF Init, Fifo!FifoInit
  <1>2. TypeOK /\ [Next]_queueVars => [Fifo!FifoNext]_(Fifo!fifoVars)
    <2> SUFFICES ASSUME TypeOK, [Next]_queueVars
                 PROVE  [Fifo!FifoNext]_(Fifo!fifoVars)
      OBVIOUS
    <2>1. ASSUME UNCHANGED <<m_storage, m_head, m_count, m_finished, item>>
          PROVE  UNCHANGED Fifo!fifoVars
      BY <2>1 DEF Fifo!fifoVars
    <2>2. ASSUME NEW t \in Threads, NEW x \in Items,
                 PushAccepted(t, x) \/ TryPush(t, x)
          PROVE  Fifo!Enqueue(x)
      <3>1. /\ EnqueueLocked(x) /\ m_count < Capacity /\ UNCHANGED m_head
            /\ ~m_finished /\ UNCHANGED <<m_finished, item>>
        BY <2>2, QueueAssumption DEF PushAccepted, TryPush, TypeOK
      <3>2. Len(QueueView) = m_count /\ QueueView' = Append(QueueView, x)
        BY <3>1, EnqueueAppends
      <3> QED
        BY <3>1, <3>2 DEF Fifo!Enqueue, QueueView
    <2>3. ASSUME NEW t \in Threads, PopAccepted(t) \/ TryPop(t)
          PROVE  Fifo!Dequeue(t)
      <3>1. DequeueLocked(t) /\ m_count > 0 /\ UNCHANGED m_finished
        BY <2>3 DEF PopAccepted, TryPop
      <3>2. /\ QueueView # <<>>
            /\ item' = [item EXCEPT ![t] = Head(QueueView)]
            /\ QueueView' = Tail(QueueView)
        BY <3>1, DequeueTakesHead
      <3> QED
        BY <3>1, <3>2 DEF Fifo!Dequeue, QueueView
    <2>4. ASSUME NEW t \in Threads, Finish(t) PROVE Fifo!Close
      BY <2>4 DEF Finish, Fifo!Close
    <2> QED
      BY <2>1, <2>2, <2>3, <2>4
      DEF Next, Step, Call, Calls, PushBlocks, PushRejected, ReturnsFalse,
          PopBlocks, PopRejected, NotifyPop, NotifyPush, SpuriousWakeup,
          queueVars, Fifo!FifoNext
  <1> QED
    BY <1>1, <1>2, TypeCorrect, PTL DEF Spec, FifoSpec, Fifo!FifoSpec
=============================================================================
