---------------------- MODULE TrackingWorkerPoolProofs ----------------------
(***************************************************************************)
(* Proofs about TrackingWorkerPool for every number of workers, items and  *)
(* runs: the barrier invariant and the refinement of ParallelFor.          *)
(***************************************************************************)
EXTENDS TrackingWorkerPool, FiniteSetTheorems, TLAPS

\* Where the cursor stands once the caller has left drainCursor.
CursorExhausted ==
    /\ pc[Caller] \notin {"notifyStart", "drain", "test", "work"} =>
           m_cursor >= m_itemCount
    /\ pc[Caller] \in {"notifyStart", "join", "doneWait"} => ~inline

\* The inductive invariant: the barrier rests on all of these together.
PoolInv ==
    /\ TypeOK
    /\ PendingIsExact
    /\ NoHelperOutsideRun
    /\ HelpersAreCurrent
    /\ SlotsWillBeClaimed
    /\ ItemsDisjoint
    /\ CursorExhausted

LEMMA WorkersFinite ==
    /\ Cardinality(Workers) \in Nat
    /\ \A S \in SUBSET Workers : IsFiniteSet(S) /\ Cardinality(S) \in Nat
                                 /\ Cardinality(S) <= Cardinality(Workers)
  BY PoolAssumption, FS_Subset, FS_CardinalityType

\* A run never asks for more helpers than the pool has.
LEMMA HelpersBound ==
    ASSUME NEW n \in 1 .. MaxItems
    PROVE  Helpers(n) \in 0 .. Cardinality(Workers)
  BY WorkersFinite, PoolAssumption DEF Helpers

LEMMA InitPoolInv == Init => PoolInv
  <1> SUFFICES ASSUME Init PROVE PoolInv
    OBVIOUS
  <1>1. Helping = {} /\ Cardinality(Helping) = 0
    BY PoolAssumption, FS_EmptySet DEF Init, Helping, Threads
  <1>2. TypeOK
    <2>1. /\ lastSeen \in [Workers -> 0 .. m_generation]
          /\ item \in [Threads -> Nat]
      BY DEF Init
    <2>2. /\ pc \in [Threads -> CallerPc \cup WorkerPc]
          /\ pc[Caller] \in CallerPc
          /\ \A w \in Workers : pc[w] \in WorkerPc
      BY PoolAssumption DEF Init, Threads, CallerPc, WorkerPc
    <2>3. /\ m_cursor \in Nat
          /\ m_itemCount \in 0 .. MaxItems
          /\ m_generation \in 0 .. MaxRuns
          /\ m_pendingWorkers \in Nat
          /\ m_helperTarget \in 0 .. Cardinality(Workers)
          /\ m_claimedWorkers \in 0 .. m_helperTarget
      BY WorkersFinite, PoolAssumption DEF Init
    <2>4. m_shutdown \in BOOLEAN /\ inline \in BOOLEAN
      BY DEF Init
    <2> QED
      BY <2>1, <2>2, <2>3, <2>4 DEF TypeOK
  <1>3. {w \in Workers : lastSeen[w] # m_generation} = {}
    BY DEF Init
  <1>4. PendingIsExact /\ NoHelperOutsideRun /\ HelpersAreCurrent
    BY <1>1 DEF Init, PendingIsExact, NoHelperOutsideRun, HelpersAreCurrent
  <1>5. SlotsWillBeClaimed
    BY <1>3, FS_EmptySet, PoolAssumption DEF Init, SlotsWillBeClaimed, Threads
  <1>6. ItemsDisjoint /\ CursorExhausted
    BY PoolAssumption DEF Init, ItemsDisjoint, CursorExhausted, Threads
  <1> QED
    BY <1>2, <1>4, <1>5, <1>6 DEF PoolInv

-----------------------------------------------------------------------------
(* One lemma per group of actions; PoolInv is the induction hypothesis. *)

\* run() publishes a run: the previous one left no helper behind.
LEMMA RunKeepsInv ==
    ASSUME PoolInv, NEW n \in 1 .. MaxItems, RunInline(n) \/ RunWithHelpers(n)
    PROVE  PoolInv'
  <1> USE PoolAssumption
  <1>1. /\ pc[Caller] = "idle" /\ Helping = {} /\ m_claimedWorkers = m_helperTarget
        /\ \A w \in Workers : pc[w] \notin {"drain", "test", "work", "report"}
    BY DEF PoolInv, NoHelperOutsideRun, Running, RunInline, RunWithHelpers, Helping
  <1>2. /\ \A w \in Workers : pc'[w] = pc[w]
        /\ pc' \in [Threads -> CallerPc \cup WorkerPc]
        /\ pc'[Caller] \in {"drain", "notifyStart"}
        /\ Helping' = {}
        /\ lastSeen' = lastSeen /\ item' = item /\ m_shutdown' = m_shutdown
    BY <1>1 DEF PoolInv, TypeOK, RunInline, RunWithHelpers, Goto, Threads,
                Helping, CallerPc
  <1>3. ItemsDisjoint' /\ HelpersAreCurrent'
    BY <1>1, <1>2 DEF ItemsDisjoint, HelpersAreCurrent, Threads
  <1>4. CASE RunInline(n)
    <2>1. TypeOK'
      <3>1. pc'[Caller] \in CallerPc /\ \A w \in Workers : pc'[w] \in WorkerPc
        BY <1>2 DEF PoolInv, TypeOK, CallerPc
      <3> QED
        BY <1>2, <1>4, <3>1 DEF PoolInv, TypeOK, RunInline
    <2>2. PendingIsExact' /\ NoHelperOutsideRun' /\ SlotsWillBeClaimed'
      BY <1>1, <1>2, <1>4
      DEF PoolInv, RunInline, PendingIsExact, NoHelperOutsideRun,
          SlotsWillBeClaimed
    <2>3. CursorExhausted'
      BY <1>2, <1>4 DEF CursorExhausted, RunInline, Goto, PoolInv, TypeOK, Threads
    <2> QED
      BY <1>3, <2>1, <2>2, <2>3 DEF PoolInv
  <1>5. CASE RunWithHelpers(n)
    <2>1. Helpers(n) \in 0 .. Cardinality(Workers) /\ Cardinality(Workers) \in Nat
      BY HelpersBound, WorkersFinite
    <2>2. pc'[Caller] = "notifyStart"
      BY <1>5 DEF RunWithHelpers, Goto, PoolInv, TypeOK, Threads
    <2>3. TypeOK'
      <3>1. pc'[Caller] \in CallerPc /\ \A w \in Workers : pc'[w] \in WorkerPc
        BY <1>2 DEF PoolInv, TypeOK, CallerPc
      <3>2. lastSeen' \in [Workers -> 0 .. m_generation']
        BY <1>5 DEF PoolInv, TypeOK, RunWithHelpers
      <3>3. /\ m_cursor' \in Nat /\ m_itemCount' \in 0 .. MaxItems
            /\ m_generation' \in 0 .. MaxRuns /\ m_pendingWorkers' \in Nat
            /\ m_helperTarget' \in 0 .. Cardinality(Workers)
            /\ m_claimedWorkers' \in 0 .. m_helperTarget'
        BY <1>5, <2>1 DEF PoolInv, TypeOK, RunWithHelpers
      <3>4. inline' \in BOOLEAN /\ m_shutdown' \in BOOLEAN /\ item' \in [Threads -> Nat]
        BY <1>5 DEF PoolInv, TypeOK, RunWithHelpers
      <3> QED
        BY <1>2, <3>1, <3>2, <3>3, <3>4 DEF TypeOK
    <2>4. PendingIsExact'
      BY <1>2, <1>5, <2>1, FS_EmptySet DEF RunWithHelpers, PendingIsExact
    <2>5. NoHelperOutsideRun' /\ CursorExhausted'
      BY <1>5, <2>2 DEF NoHelperOutsideRun, CursorExhausted, Running, RunWithHelpers
    <2>6. SlotsWillBeClaimed'
      <3>1. {w \in Workers : lastSeen'[w] # m_generation'} = Workers
        BY <1>5 DEF RunWithHelpers, PoolInv, TypeOK
      <3>2. m_helperTarget' - m_claimedWorkers' <= Cardinality(Workers)
        BY <1>5, <2>1 DEF RunWithHelpers
      <3> QED
        BY <2>2, <3>1, <3>2 DEF SlotsWillBeClaimed
    <2> QED
      BY <1>3, <2>3, <2>4, <2>5, <2>6 DEF PoolInv
  <1> QED
    BY <1>4, <1>5

\* Steps of the caller and of the destructor that only move program counters
\* and never let a helper in or out.
LEMMA CallerKeepsInv ==
    ASSUME PoolInv,
           NotifyStart \/ AwaitHelpers \/ Shutdown \/ NotifyShutdown \/ JoinThreads
    PROVE  PoolInv'
  <1> USE PoolAssumption
  <1>1. /\ pc' \in [Threads -> CallerPc \cup WorkerPc]
        /\ pc'[Caller] \in CallerPc
        /\ pc[Caller] \notin {"drain", "test", "work"}
        /\ \A w \in Workers : pc'[w] = pc[w] \/ (pc[w] = "sleep" /\ pc'[w] = "check")
    BY DEF PoolInv, TypeOK, NotifyStart, AwaitHelpers, Shutdown, NotifyShutdown,
           JoinThreads, WakeAllThen, Goto, Threads, CallerPc, WorkerPc
  <1>2. /\ Helping' = Helping
        /\ m_cursor' = m_cursor /\ m_itemCount' = m_itemCount
        /\ m_generation' = m_generation /\ m_pendingWorkers' = m_pendingWorkers
        /\ m_helperTarget' = m_helperTarget /\ m_claimedWorkers' = m_claimedWorkers
        /\ lastSeen' = lastSeen /\ item' = item /\ inline' = inline
    BY <1>1 DEF NotifyStart, AwaitHelpers, Shutdown, NotifyShutdown, JoinThreads,
                poolData, Helping
  <1>3. TypeOK'
    <2>1. \A w \in Workers : pc'[w] \in WorkerPc
      BY <1>1 DEF PoolInv, TypeOK, WorkerPc
    <2>2. m_shutdown' \in BOOLEAN
      BY DEF PoolInv, TypeOK, NotifyStart, AwaitHelpers, Shutdown, NotifyShutdown,
             JoinThreads, poolData
    <2> QED
      BY <1>1, <1>2, <2>1, <2>2 DEF PoolInv, TypeOK
  <1>4. PendingIsExact'
    BY <1>2 DEF PoolInv, PendingIsExact
  <1>5. HelpersAreCurrent'
    BY <1>2 DEF PoolInv, HelpersAreCurrent
  <1>6. ItemsDisjoint'
    <2>1. \A t \in Threads : pc'[t] \in {"test", "work"} => pc[t] \in {"test", "work"}
      BY <1>1 DEF NotifyStart, AwaitHelpers, Shutdown, NotifyShutdown,
                  JoinThreads, WakeAllThen, Goto, PoolInv, TypeOK, Threads
    <2> QED
      BY <1>2, <2>1 DEF PoolInv, ItemsDisjoint
  <1>7. NoHelperOutsideRun'
    <2>1. CASE NotifyStart
      BY <1>2, <2>1 DEF PoolInv, NoHelperOutsideRun, CursorExhausted, Running,
                        NotifyStart, WakeAllThen, Threads
    <2>2. CASE AwaitHelpers
      <3>1. CASE m_pendingWorkers = 0
        <4>1. Cardinality(Helping) \in Nat /\ IsFiniteSet(Helping)
          BY WorkersFinite DEF Helping
        <4>2. Cardinality(Helping) = 0 /\ m_claimedWorkers = m_helperTarget
          BY <3>1, <4>1, WorkersFinite DEF PoolInv, PendingIsExact, TypeOK
        <4>3. Helping = {}
          BY <4>1, <4>2, FS_EmptySet
        <4> QED
          BY <1>2, <4>2, <4>3 DEF NoHelperOutsideRun
      <3>2. CASE m_pendingWorkers # 0
        BY <1>2, <2>2, <3>2 DEF PoolInv, NoHelperOutsideRun, CursorExhausted,
                                Running, AwaitHelpers, Goto, TypeOK, Threads
      <3> QED
        BY <3>1, <3>2
    <2>3. CASE Shutdown \/ NotifyShutdown \/ JoinThreads
      <3>1. ~Running
        BY <2>3 DEF Shutdown, NotifyShutdown, JoinThreads, Running
      <3> QED
        BY <1>2, <3>1 DEF PoolInv, NoHelperOutsideRun
    <2> QED
      BY <2>1, <2>2, <2>3
  <1>8. SlotsWillBeClaimed'
    <2>1. CASE NotifyStart \/ NotifyShutdown
      <3>1. \A w \in Workers : pc'[w] # "sleep"
        BY <2>1 DEF NotifyStart, NotifyShutdown, WakeAllThen, PoolInv, TypeOK, Threads
      <3> QED
        BY <1>2, <3>1 DEF PoolInv, SlotsWillBeClaimed
    <2>2. CASE AwaitHelpers \/ Shutdown \/ JoinThreads
      <3>1. pc[Caller] # "notifyStart"
        BY <2>2 DEF AwaitHelpers, Shutdown, JoinThreads
      <3>2. \A w \in Workers : pc'[w] = "sleep" => pc[w] = "sleep"
        BY <1>1
      <3> QED
        BY <1>2, <3>1, <3>2 DEF PoolInv, SlotsWillBeClaimed
    <2> QED
      BY <2>1, <2>2
  <1>9. CursorExhausted'
    <2>1. CASE NotifyStart
      BY <1>2, <2>1 DEF NotifyStart, WakeAllThen, Threads, CursorExhausted
    <2>2. CASE ~NotifyStart
      <3>1. /\ pc[Caller] \notin {"notifyStart", "drain", "test", "work"}
            /\ pc'[Caller] \in {"join", "doneWait", "notifyStart"}
                  => pc[Caller] \in {"join", "doneWait"}
        BY <1>1, <2>2 DEF AwaitHelpers, Shutdown, NotifyShutdown, JoinThreads,
              WakeAllThen, Goto, PoolInv, TypeOK, Threads
      <3> QED
        BY <1>2, <3>1 DEF PoolInv, CursorExhausted
    <2> QED
      BY <2>1, <2>2
  <1> QED
    BY <1>3, <1>4, <1>5, <1>6, <1>7, <1>8, <1>9 DEF PoolInv

\* drainCursor: the index a thread fetches lies past every index handed out.
LEMMA DrainKeepsInv ==
    ASSUME PoolInv, NEW t \in Threads, DrainStep(t)
    PROVE  PoolInv'
  <1> USE PoolAssumption
  <1>1. /\ m_itemCount' = m_itemCount
        /\ m_generation' = m_generation /\ m_pendingWorkers' = m_pendingWorkers
        /\ m_helperTarget' = m_helperTarget /\ m_claimedWorkers' = m_claimedWorkers
        /\ m_shutdown' = m_shutdown /\ lastSeen' = lastSeen /\ inline' = inline
    BY DEF DrainStep, FetchAdd, TestItem, WorkItem, poolData
  <1>2. /\ pc' = [pc EXCEPT ![t] = pc'[t]]
        /\ pc[t] \in {"drain", "test", "work"}
        /\ t # Caller => pc'[t] \in {"drain", "test", "work", "report"}
        /\ t = Caller => pc'[t] \in {"drain", "test", "work", "idle", "join"}
    BY DEF DrainStep, FetchAdd, TestItem, WorkItem, Goto, Drained, PoolInv, TypeOK
  <1>3. /\ m_cursor' \in Nat /\ m_cursor' >= m_cursor
        /\ item' \in [Threads -> Nat]
        /\ \A u \in Threads : u # t => item'[u] = item[u] /\ pc'[u] = pc[u]
    BY DEF DrainStep, FetchAdd, TestItem, WorkItem, Goto, poolData, PoolInv, TypeOK
  <1>4. TypeOK'
    <2>1. /\ pc' \in [Threads -> CallerPc \cup WorkerPc]
          /\ pc'[Caller] \in CallerPc
          /\ \A w \in Workers : pc'[w] \in WorkerPc
      BY <1>2, <1>3 DEF PoolInv, TypeOK, Threads, CallerPc, WorkerPc
    <2> QED
      BY <1>1, <1>3, <2>1 DEF PoolInv, TypeOK
  <1>5. Helping' = Helping
    BY <1>2, <1>3 DEF Helping, Threads
  <1>6. PendingIsExact' /\ HelpersAreCurrent'
    BY <1>1, <1>5 DEF PoolInv, PendingIsExact, HelpersAreCurrent
  <1>7. NoHelperOutsideRun'
    <2>1. CASE t = Caller
      <3>1. Running
        BY <1>2, <2>1 DEF Running
      <3>2. CASE inline
        BY <1>1, <1>5, <3>2 DEF PoolInv, NoHelperOutsideRun
      <3>3. CASE ~inline
        <4>1. pc'[Caller] # "idle"
          BY <2>1, <3>3 DEF DrainStep, FetchAdd, TestItem, WorkItem, Goto,
                            Drained, PoolInv, TypeOK, Threads
        <4> QED
          BY <1>1, <1>2, <2>1, <3>3, <4>1 DEF NoHelperOutsideRun, Running
      <3> QED
        BY <3>2, <3>3
    <2>2. CASE t # Caller
      <3>1. Running' = Running
        BY <1>3, <2>2 DEF Running, Threads
      <3> QED
        BY <1>1, <1>5, <3>1 DEF PoolInv, NoHelperOutsideRun
    <2> QED
      BY <2>1, <2>2
  <1>8. SlotsWillBeClaimed'
    <2>1. \A w \in Workers : pc'[w] = "sleep" => pc[w] = "sleep"
      BY <1>2, <1>3 DEF Threads
    <2>2. pc[Caller] = "notifyStart" => pc'[Caller] = "notifyStart"
      BY <1>2, <1>3 DEF Threads
    <2> QED
      BY <1>1, <2>1, <2>2 DEF PoolInv, SlotsWillBeClaimed
  <1>9. ItemsDisjoint'
    <2>1. CASE FetchAdd(t)
      <3>1. /\ item'[t] = m_cursor /\ m_cursor' = m_cursor + 1 /\ m_cursor \in Nat
            /\ \A u \in Threads : u # t => item'[u] = item[u] /\ pc'[u] = pc[u]
        BY <1>3, <2>1 DEF FetchAdd, PoolInv, TypeOK
      <3>2. \A u \in Threads : u # t /\ pc[u] \in {"test", "work"} =>
                  item[u] < m_cursor /\ item[u] \in Nat
        BY DEF PoolInv, ItemsDisjoint, TypeOK
      <3> QED
        BY <3>1, <3>2 DEF ItemsDisjoint, PoolInv
    <2>2. CASE TestItem(t) \/ WorkItem(t)
      <3>1. /\ item' = item /\ m_cursor' = m_cursor
            /\ \A u \in Threads : pc'[u] \in {"test", "work"} => pc[u] \in {"test", "work"}
        BY <1>2, <1>3, <2>2 DEF TestItem, WorkItem, poolData, Goto, Drained
      <3> QED
        BY <3>1 DEF ItemsDisjoint, PoolInv
    <2> QED
      BY <2>1, <2>2 DEF DrainStep
  <1>10. CursorExhausted'
    <2>1. CASE t # Caller
      <3>1. pc'[Caller] = pc[Caller]
        BY <1>3, <2>1 DEF Threads
      <3> QED
        BY <1>1, <1>3, <3>1 DEF PoolInv, CursorExhausted, TypeOK
    <2>2. CASE t = Caller /\ pc'[Caller] \in {"idle", "join"}
      <3>1. /\ item[t] >= m_itemCount /\ m_cursor' = m_cursor /\ pc[t] = "test"
            /\ pc'[Caller] = "join" => ~inline
        BY <2>2 DEF DrainStep, FetchAdd, TestItem, WorkItem, Goto, Drained,
                    poolData, PoolInv, TypeOK
      <3>2. item[t] < m_cursor
        BY <3>1 DEF PoolInv, ItemsDisjoint
      <3> QED
        BY <1>1, <2>2, <3>1, <3>2 DEF CursorExhausted, PoolInv, TypeOK
    <2>3. CASE t = Caller /\ pc'[Caller] \in {"drain", "test", "work"}
      BY <2>3 DEF CursorExhausted
    <2> QED
      BY <1>2, <2>1, <2>2, <2>3
  <1> QED
    BY <1>4, <1>6, <1>7, <1>8, <1>9, <1>10 DEF PoolInv

\* A worker asleep, awake without a slot, or leaving: it holds no slot before
\* or after the step.
LEMMA IdleWorkerKeepsInv ==
    ASSUME PoolInv,
           \/ \E w \in Workers : WorkerSleeps(w) \/ WorkerExits(w) \/ NotifyDone(w)
           \/ \E t \in Threads : SpuriousWakeup(t)
    PROVE  PoolInv'
  <1> USE PoolAssumption
  <1>1. /\ m_cursor' = m_cursor /\ m_itemCount' = m_itemCount
        /\ m_generation' = m_generation /\ m_pendingWorkers' = m_pendingWorkers
        /\ m_helperTarget' = m_helperTarget /\ m_claimedWorkers' = m_claimedWorkers
        /\ m_shutdown' = m_shutdown /\ lastSeen' = lastSeen /\ item' = item
        /\ inline' = inline
    BY DEF WorkerSleeps, WorkerExits, NotifyDone, SpuriousWakeup, poolData
  <1>2. /\ pc' \in [Threads -> CallerPc \cup WorkerPc]
        /\ \/ pc'[Caller] = pc[Caller]
           \/ pc[Caller] = "doneWait" /\ pc'[Caller] = "join"
        /\ \A w \in Workers :
              \/ pc'[w] = pc[w]
              \/ /\ pc[w] \in {"check", "notifyDone", "sleep"}
                 /\ pc'[w] \in {"check", "sleep", "exited"}
                 /\ pc'[w] = "sleep" => m_generation = lastSeen[w]
    BY DEF WorkerSleeps, WorkerExits, NotifyDone, SpuriousWakeup, Goto, PoolInv,
           TypeOK, Threads, CallerPc, WorkerPc
  <1>3. TypeOK'
    <2>1. pc'[Caller] \in CallerPc /\ \A w \in Workers : pc'[w] \in WorkerPc
      BY <1>2 DEF PoolInv, TypeOK, CallerPc, WorkerPc
    <2> QED
      BY <1>1, <1>2, <2>1 DEF PoolInv, TypeOK
  <1>4. Helping' = Helping /\ Running' = Running
    BY <1>2 DEF Helping, Running
  <1>5. PendingIsExact' /\ HelpersAreCurrent' /\ NoHelperOutsideRun'
    BY <1>1, <1>4 DEF PoolInv, PendingIsExact, HelpersAreCurrent, NoHelperOutsideRun
  <1>6. SlotsWillBeClaimed'
    BY <1>1, <1>2 DEF PoolInv, SlotsWillBeClaimed
  <1>7. ItemsDisjoint'
    <2>1. \A u \in Threads : pc'[u] \in {"test", "work"} => pc[u] \in {"test", "work"}
      BY <1>2 DEF Threads
    <2> QED
      BY <1>1, <2>1 DEF PoolInv, ItemsDisjoint
  <1>8. CursorExhausted'
    BY <1>1, <1>2 DEF PoolInv, CursorExhausted
  <1> QED
    BY <1>3, <1>5, <1>6, <1>7, <1>8 DEF PoolInv

\* A worker sees a new generation: it takes one of the open slots or none.
LEMMA ClaimKeepsInv ==
    ASSUME PoolInv, NEW w \in Workers, WorkerClaims(w)
    PROVE  PoolInv'
  <1> USE PoolAssumption
  <1> DEFINE Late == {v \in Workers : lastSeen[v] # m_generation}
  <1>1. /\ m_cursor' = m_cursor /\ m_itemCount' = m_itemCount
        /\ m_generation' = m_generation /\ m_pendingWorkers' = m_pendingWorkers
        /\ m_helperTarget' = m_helperTarget
        /\ m_shutdown' = m_shutdown /\ item' = item /\ inline' = inline
        /\ lastSeen' = [lastSeen EXCEPT ![w] = m_generation]
        /\ pc[w] = "check" /\ w \in Late /\ pc'[Caller] = pc[Caller]
        /\ \A v \in Workers : v # w => pc'[v] = pc[v]
        /\ pc'[w] \in {"check", "drain"}
        /\ pc' \in [Threads -> CallerPc \cup WorkerPc]
    BY DEF WorkerClaims, Goto, PoolInv, TypeOK, Threads, WorkerPc
  <1>2. /\ IsFiniteSet(Late) /\ Cardinality(Late) \in Nat
        /\ IsFiniteSet(Helping) /\ Cardinality(Helping) \in Nat
        /\ Cardinality(Late') = Cardinality(Late) - 1
    <2>1. Late' = Late \ {w}
      BY <1>1 DEF PoolInv, TypeOK
    <2>2. IsFiniteSet(Late) /\ IsFiniteSet(Helping)
      BY WorkersFinite DEF Helping
    <2> QED
      BY <1>1, <2>1, <2>2, FS_RemoveElement, FS_CardinalityType
  <1>3. CursorExhausted' /\ ItemsDisjoint'
    BY <1>1 DEF PoolInv, CursorExhausted, ItemsDisjoint, Threads
  <1>4. /\ pc'[Caller] \in CallerPc /\ \A v \in Workers : pc'[v] \in WorkerPc
        /\ lastSeen' \in [Workers -> 0 .. m_generation']
    BY <1>1 DEF PoolInv, TypeOK, WorkerPc
  <1>5. CASE m_claimedWorkers >= m_helperTarget
    <2>1. m_claimedWorkers' = m_claimedWorkers /\ pc' = pc
      BY <1>5 DEF WorkerClaims, PoolInv, TypeOK
    <2>2. Helping' = Helping /\ Running' = Running /\ w \notin Helping
      BY <1>1, <2>1 DEF Helping, Running
    <2>3. TypeOK'
      BY <1>1, <1>4, <2>1 DEF PoolInv, TypeOK
    <2>4. PendingIsExact' /\ NoHelperOutsideRun'
      BY <1>1, <2>1, <2>2 DEF PoolInv, PendingIsExact, NoHelperOutsideRun
    <2>5. HelpersAreCurrent'
      BY <1>1, <2>2 DEF PoolInv, HelpersAreCurrent, Helping, TypeOK
    <2>6. SlotsWillBeClaimed'
      <3>1. m_helperTarget' - m_claimedWorkers' <= Cardinality(Late')
        <4>1. Late' \in SUBSET Workers
          OBVIOUS
        <4>2. Cardinality(Late') \in Nat
          BY <4>1, WorkersFinite
        <4> QED
          BY <1>1, <1>5, <2>1, <4>2, WorkersFinite DEF PoolInv, TypeOK
      <3>2. \A v \in Workers : pc'[v] = "sleep" => v # w /\ pc[v] = "sleep" /\ lastSeen'[v] = lastSeen[v]
        BY <1>1, <2>1 DEF PoolInv, TypeOK
      <3> QED
        BY <1>1, <3>1, <3>2 DEF PoolInv, SlotsWillBeClaimed
    <2> QED
      BY <1>3, <2>3, <2>4, <2>5, <2>6 DEF PoolInv
  <1>6. CASE m_claimedWorkers < m_helperTarget
    <2>1. /\ m_claimedWorkers' = m_claimedWorkers + 1
          /\ pc' = [pc EXCEPT ![w] = "drain"]
      BY <1>6 DEF WorkerClaims, PoolInv, TypeOK, Goto
    <2>2. Helping' = Helping \cup {w} /\ w \notin Helping /\ Running' = Running
      BY <1>1, <2>1 DEF Helping, Running, PoolInv, TypeOK, Threads
    <2>3. Cardinality(Helping') = Cardinality(Helping) + 1
      BY <1>2, <2>2, FS_AddElement
    <2>4. TypeOK'
      <3>1. m_claimedWorkers' \in 0 .. m_helperTarget'
        BY <1>1, <1>6, <2>1, WorkersFinite DEF PoolInv, TypeOK
      <3> QED
        BY <1>1, <1>4, <3>1 DEF PoolInv, TypeOK
    <2>5. PendingIsExact'
      BY <1>1, <1>2, <1>6, <2>1, <2>3, WorkersFinite DEF PoolInv, PendingIsExact, TypeOK
    <2>6. NoHelperOutsideRun'
      <3>1. Running /\ ~inline
        BY <1>6, WorkersFinite DEF PoolInv, NoHelperOutsideRun, TypeOK
      <3> QED
        BY <1>1, <2>2, <3>1 DEF NoHelperOutsideRun
    <2>7. HelpersAreCurrent'
      BY <1>1, <2>2 DEF PoolInv, HelpersAreCurrent, Helping, TypeOK
    <2>8. SlotsWillBeClaimed'
      <3>1. m_helperTarget' - m_claimedWorkers' <= Cardinality(Late')
        BY <1>1, <1>2, <1>6, <2>1, WorkersFinite DEF PoolInv, SlotsWillBeClaimed, TypeOK
      <3>2. \A v \in Workers : pc'[v] = "sleep" => v # w /\ pc[v] = "sleep" /\ lastSeen'[v] = lastSeen[v]
        BY <1>1, <2>1 DEF PoolInv, TypeOK
      <3> QED
        BY <1>1, <3>1, <3>2 DEF PoolInv, SlotsWillBeClaimed
    <2> QED
      BY <1>3, <2>4, <2>5, <2>6, <2>7, <2>8 DEF PoolInv
  <1> QED
    BY <1>5, <1>6, WorkersFinite DEF PoolInv, TypeOK

\* A helper gives its slot back.
LEMMA ReportKeepsInv ==
    ASSUME PoolInv, NEW w \in Workers, WorkerReports(w)
    PROVE  PoolInv'
  <1> USE PoolAssumption
  <1>1. /\ m_cursor' = m_cursor /\ m_itemCount' = m_itemCount
        /\ m_generation' = m_generation
        /\ m_pendingWorkers' = m_pendingWorkers - 1
        /\ m_helperTarget' = m_helperTarget /\ m_claimedWorkers' = m_claimedWorkers
        /\ m_shutdown' = m_shutdown /\ lastSeen' = lastSeen /\ item' = item
        /\ inline' = inline /\ pc[w] = "report" /\ pc'[Caller] = pc[Caller]
        /\ \A v \in Workers : v # w => pc'[v] = pc[v]
        /\ pc'[w] \in {"check", "notifyDone"}
        /\ pc' \in [Threads -> CallerPc \cup WorkerPc]
    BY DEF WorkerReports, Goto, PoolInv, TypeOK, Threads, WorkerPc
  <1>2. Helping' = Helping \ {w} /\ w \in Helping /\ Running' = Running
    BY <1>1 DEF Helping, Running
  <1>3. /\ IsFiniteSet(Helping) /\ Cardinality(Helping) \in Nat
        /\ Cardinality(Helping') = Cardinality(Helping) - 1
        /\ Cardinality(Helping') \in Nat
    <2>1. IsFiniteSet(Helping) /\ Helping' \in SUBSET Workers
      BY <1>2, WorkersFinite DEF Helping
    <2> QED
      BY <1>2, <2>1, WorkersFinite, FS_RemoveElement, FS_CardinalityType
  <1>4. PendingIsExact' /\ m_pendingWorkers' \in Nat
    BY <1>1, <1>3, WorkersFinite DEF PoolInv, PendingIsExact, TypeOK
  <1>5. TypeOK'
    <2>1. pc'[Caller] \in CallerPc /\ \A v \in Workers : pc'[v] \in WorkerPc
      BY <1>1 DEF PoolInv, TypeOK, WorkerPc
    <2> QED
      BY <1>1, <1>4, <2>1 DEF PoolInv, TypeOK
  <1>6. NoHelperOutsideRun' /\ HelpersAreCurrent'
    BY <1>1, <1>2 DEF PoolInv, NoHelperOutsideRun, HelpersAreCurrent
  <1>7. SlotsWillBeClaimed' /\ CursorExhausted'
    <2>1. \A v \in Workers : pc'[v] = "sleep" => pc[v] = "sleep"
      BY <1>1
    <2> QED
      BY <1>1, <2>1 DEF PoolInv, SlotsWillBeClaimed, CursorExhausted
  <1>8. ItemsDisjoint'
    <2>1. \A u \in Threads : pc'[u] \in {"test", "work"} => pc[u] \in {"test", "work"}
      BY <1>1 DEF Threads
    <2> QED
      BY <1>1, <2>1 DEF PoolInv, ItemsDisjoint
  <1> QED
    BY <1>4, <1>5, <1>6, <1>7, <1>8 DEF PoolInv

\* The barrier invariant holds in every reachable state.
THEOREM PoolCorrect == Spec => []PoolInv
  <1>1. PoolInv /\ [Next]_poolVars => PoolInv'
    <2> SUFFICES ASSUME PoolInv, [Next]_poolVars PROVE PoolInv'
      OBVIOUS
    <2>1. CASE UNCHANGED poolVars
      BY <2>1 DEF poolVars, PoolInv, TypeOK, PendingIsExact, NoHelperOutsideRun,
                  HelpersAreCurrent, SlotsWillBeClaimed, ItemsDisjoint,
                  CursorExhausted, Helping, Running
    <2>2. CASE Call
      BY <2>2, RunKeepsInv, CallerKeepsInv DEF Call
    <2>3. CASE CallerStep
      BY <2>3, CallerKeepsInv, DrainKeepsInv DEF CallerStep, Threads
    <2>4. ASSUME NEW w \in Workers, WorkerStep(w) PROVE PoolInv'
      BY <2>4, IdleWorkerKeepsInv, ClaimKeepsInv, DrainKeepsInv, ReportKeepsInv
      DEF WorkerStep, Threads
    <2>5. ASSUME NEW t \in Threads, SpuriousWakeup(t) PROVE PoolInv'
      BY <2>5, IdleWorkerKeepsInv
    <2> QED
      BY <2>1, <2>2, <2>3, <2>4, <2>5 DEF Next, Destroyed
  <1> QED
    BY <1>1, InitPoolInv, PTL DEF Spec

\* While no run is in progress, or one runs on the caller alone, the pool
\* threads touch nothing: what trackSatellites and its caller rely on.
THEOREM BarrierHolds == Spec => []NoHelperOutsideRun
  BY PoolCorrect, PTL DEF PoolInv

-----------------------------------------------------------------------------
(* The refinement mapping of the instance For, named. *)
Remaining == {i \in 0 .. MaxItems - 1 : m_cursor <= i /\ i < m_itemCount}

Holds(t, i) == pc[t] \in {"test", "work"} /\ item[t] = i

Active == {i \in 0 .. MaxItems - 1 :
              /\ i < m_itemCount
              /\ \E t \in Threads : Holds(t, i)}

\* Steps that neither take nor finish an item, nor enter or leave run().
LEMMA QuietStep ==
    ASSUME UNCHANGED <<m_cursor, m_itemCount, item>>,
           Running' = Running,
           \A t \in Threads : pc'[t] \in {"test", "work"} <=> pc[t] \in {"test", "work"}
    PROVE  UNCHANGED For!forVars
  <1>1. Remaining' = Remaining
    BY DEF Remaining
  <1>2. Active' = Active
    BY DEF Active, Holds
  <1> QED
    BY <1>1, <1>2 DEF For!forVars, Remaining, Active, Holds

\* Outside a run nothing is left to do and nobody holds an item.
LEMMA NothingLeft ==
    ASSUME PoolInv, Helping = {},
           pc[Caller] \notin {"notifyStart", "drain", "test", "work"}
    PROVE  Remaining = {} /\ Active = {}
  <1>1. m_cursor >= m_itemCount
    BY DEF PoolInv, CursorExhausted
  <1>2. Remaining = {}
    BY <1>1, PoolAssumption DEF Remaining, PoolInv, TypeOK
  <1>3. \A t \in Threads : pc[t] \notin {"test", "work"}
    BY DEF Helping, Threads
  <1> QED
    BY <1>2, <1>3 DEF Active, Holds

\* Starting a run hands out items 0 .. n-1.
LEMMA RunStarts ==
    ASSUME PoolInv, NEW n \in 1 .. MaxItems, RunInline(n) \/ RunWithHelpers(n)
    PROVE  For!Start(n)
  <1> USE PoolAssumption
  <1>1. /\ pc[Caller] = "idle" /\ m_cursor' = 0 /\ m_itemCount' = n
        /\ pc' \in [Threads -> CallerPc \cup WorkerPc]
        /\ pc'[Caller] \in {"drain", "notifyStart"}
        /\ \A w \in Workers : pc'[w] = pc[w]
    BY DEF RunInline, RunWithHelpers, Goto, PoolInv, TypeOK, Threads, CallerPc
  <1>2. ~Running /\ Running' /\ Helping = {}
    BY <1>1 DEF Running, PoolInv, NoHelperOutsideRun
  <1>3. Remaining' = 0 .. n - 1
    BY <1>1 DEF Remaining
  <1>4. Active = {} /\ Active' = {}
    <2>1. \A t \in Threads : pc[t] \notin {"test", "work"} /\ pc'[t] \notin {"test", "work"}
      BY <1>1, <1>2 DEF Helping, Threads
    <2> QED
      BY <2>1 DEF Active, Holds
  <1> QED
    BY <1>2, <1>3, <1>4 DEF For!Start, Remaining, Active, Holds

\* drainCursor: fetch_add begins an item (or finds none), the end of m_work
\* ends it, and the caller of an inline run returns when nothing is left.
LEMMA DrainSteps ==
    ASSUME PoolInv, PoolInv', NEW t \in Threads, DrainStep(t)
    PROVE  [For!ForNext]_(For!forVars)
  <1> USE PoolAssumption
  <1>0. \A u \in Threads : u # t => pc'[u] = pc[u] /\ item'[u] = item[u]
    BY DEF DrainStep, FetchAdd, TestItem, WorkItem, Goto, poolData, PoolInv, TypeOK
  <1>1. CASE FetchAdd(t)
    <2>1. /\ pc[t] = "drain" /\ pc'[t] = "test" /\ item'[t] = m_cursor
          /\ m_cursor' = m_cursor + 1 /\ m_itemCount' = m_itemCount
          /\ m_cursor \in Nat /\ m_itemCount \in 0 .. MaxItems
      BY <1>1 DEF FetchAdd, Goto, PoolInv, TypeOK
    <2>2. Running' = Running
      BY <1>0, <2>1 DEF Running, Threads
    <2>3. \A u \in Threads : \A i : Holds(u, i)' <=> Holds(u, i) \/ (u = t /\ i = m_cursor)
      BY <1>0, <2>1 DEF Holds
    <2>4. CASE m_cursor < m_itemCount
      <3>1. PICK i \in 0 .. MaxItems - 1 : i = m_cursor
        BY <2>1, <2>4
      <3>2. i \in Remaining /\ Remaining' = Remaining \ {i}
        BY <2>1, <2>4, <3>1 DEF Remaining
      <3>3. Active' = Active \cup {i}
        BY <2>1, <2>3, <2>4, <3>1 DEF Active
      <3>4. For!BeginItem(i)
        BY <2>2, <3>2, <3>3 DEF For!BeginItem, Remaining, Active, Holds
      <3> QED
        BY <3>4 DEF For!ForNext
    <2>5. CASE ~(m_cursor < m_itemCount)
      <3>1. Remaining' = Remaining
        BY <2>1, <2>5 DEF Remaining
      <3>2. Active' = Active
        BY <2>1, <2>3, <2>5 DEF Active
      <3> QED
        BY <2>2, <3>1, <3>2 DEF For!forVars, Remaining, Active, Holds
    <2> QED
      BY <2>4, <2>5
  <1>2. CASE WorkItem(t)
    <2>1. /\ pc[t] = "work" /\ pc'[t] = "drain" /\ item' = item
          /\ m_cursor' = m_cursor /\ m_itemCount' = m_itemCount
      BY <1>2 DEF WorkItem, Goto, poolData, PoolInv, TypeOK
    <2>2. Running' = Running /\ Remaining' = Remaining
      BY <1>0, <2>1 DEF Running, Threads, Remaining
    <2>3. \A u \in Threads : u # t /\ pc[u] \in {"test", "work"} => item[u] # item[t]
      BY <2>1 DEF PoolInv, ItemsDisjoint
    <2>4. \A u \in Threads : \A i : Holds(u, i)' <=> Holds(u, i) /\ i # item[t]
      BY <1>0, <2>1, <2>3 DEF Holds
    <2>5. Active' = Active \ {item[t]}
      BY <2>1, <2>4 DEF Active
    <2>6. CASE item[t] \in Active
      <3>1. PICK i \in 0 .. MaxItems - 1 : i = item[t]
        BY <2>6 DEF Active
      <3>2. For!EndItem(i)
        BY <2>2, <2>5, <2>6, <3>1 DEF For!EndItem, Remaining, Active, Holds
      <3> QED
        BY <3>2 DEF For!ForNext
    <2>7. CASE item[t] \notin Active
      BY <2>2, <2>5, <2>7 DEF For!forVars, Remaining, Active, Holds
    <2> QED
      BY <2>6, <2>7
  <1>3. CASE TestItem(t)
    <2>1. /\ pc[t] = "test" /\ item' = item
          /\ m_cursor' = m_cursor /\ m_itemCount' = m_itemCount
          /\ pc'[t] = IF item[t] >= m_itemCount THEN Drained(t) ELSE "work"
          /\ item[t] \in Nat /\ m_itemCount \in 0 .. MaxItems
      BY <1>3 DEF TestItem, Goto, poolData, PoolInv, TypeOK
    <2>2. Remaining' = Remaining
      BY <2>1 DEF Remaining
    <2>3. Active' = Active
      <3>1. \A u \in Threads : \A i \in 0 .. m_itemCount - 1 : Holds(u, i)' <=> Holds(u, i)
        BY <1>0, <2>1 DEF Holds, Drained
      <3> QED
        BY <2>1, <3>1 DEF Active
    <2>4. CASE Running' = Running
      BY <2>2, <2>3, <2>4 DEF For!forVars, Remaining, Active, Holds
    <2>5. CASE Running' # Running
      <3>1. t = Caller /\ pc'[Caller] = "idle" /\ inline /\ Running /\ ~Running'
        BY <1>0, <2>1, <2>5 DEF Running, Drained, Threads
      <3>2. Helping = {} /\ Helping' = Helping
        BY <1>0, <3>1 DEF PoolInv, NoHelperOutsideRun, Helping, Threads
      <3>3. m_cursor >= m_itemCount
        BY <2>1, <3>1 DEF PoolInv, CursorExhausted
      <3>4. Remaining = {}
        BY <2>1, <3>3 DEF Remaining, PoolInv, TypeOK
      <3>5. Active = {}
        <4>1. \A u \in Threads : pc'[u] \notin {"test", "work"}
          BY <1>0, <3>1, <3>2 DEF Helping, Threads
        <4>2. Active' = {}
          BY <4>1 DEF Active, Holds
        <4> QED
          BY <2>3, <4>2
      <3>6. For!Return
        BY <2>2, <2>3, <3>1, <3>4, <3>5 DEF For!Return, Remaining, Active, Holds
      <3> QED
        BY <3>6 DEF For!ForNext
    <2> QED
      BY <2>4, <2>5
  <1> QED
    BY <1>1, <1>2, <1>3 DEF DrainStep

\* The other end of run(): the wait for the helpers.
LEMMA AwaitReturns ==
    ASSUME PoolInv, PoolInv', AwaitHelpers
    PROVE  [For!ForNext]_(For!forVars)
  <1> USE PoolAssumption
  <1>1. /\ UNCHANGED <<m_cursor, m_itemCount, item>>
        /\ pc[Caller] = "join" /\ pc'[Caller] \in {"idle", "doneWait"}
        /\ \A w \in Workers : pc'[w] = pc[w]
    BY DEF AwaitHelpers, Goto, poolData, PoolInv, TypeOK, Threads
  <1>2. \A t \in Threads : pc'[t] \in {"test", "work"} <=> pc[t] \in {"test", "work"}
    BY <1>1 DEF Threads
  <1>3. CASE pc'[Caller] = "doneWait"
    <2>1. Running' = Running
      BY <1>1, <1>3 DEF Running
    <2> QED
      BY <1>1, <1>2, <2>1, QuietStep
  <1>4. CASE pc'[Caller] = "idle"
    <2>1. Running /\ ~Running' /\ Helping' = Helping
      BY <1>1, <1>4 DEF Running, Helping
    <2>2. Helping = {}
      BY <2>1 DEF PoolInv, NoHelperOutsideRun
    <2>3. Remaining = {} /\ Active = {}
      BY <1>1, <2>2, NothingLeft
    <2>4. Remaining' = Remaining /\ Active' = Active
      BY <1>1, <1>2 DEF Remaining, Active, Holds
    <2>5. For!Return
      BY <2>1, <2>3, <2>4 DEF For!Return, Remaining, Active, Holds
    <2> QED
      BY <2>5 DEF For!ForNext
  <1> QED
    BY <1>1, <1>3, <1>4

\* The pool implements the parallel for: each item of a run is handed out once,
\* and run() returns only when every one of them is finished.
THEOREM RefinesParallelFor == Spec => ForSpec
  <1> USE PoolAssumption
  <1>1. Init => For!ForInit
    <2> SUFFICES ASSUME Init PROVE For!ForInit
      OBVIOUS
    <2>1. ~Running /\ Remaining = {}
      BY DEF Init, Running, Remaining, Threads
    <2>2. Active = {}
      BY DEF Init, Active, Holds, Threads
    <2> QED
      BY <2>1, <2>2 DEF For!ForInit, Remaining, Active, Holds
  <1>2. PoolInv /\ PoolInv' /\ [Next]_poolVars => [For!ForNext]_(For!forVars)
    <2> SUFFICES ASSUME PoolInv, PoolInv', [Next]_poolVars
                 PROVE  [For!ForNext]_(For!forVars)
      OBVIOUS
    <2>1. CASE UNCHANGED poolVars
      <3>1. UNCHANGED <<m_cursor, m_itemCount, item>> /\ pc' = pc
        BY <2>1 DEF poolVars
      <3> QED
        BY <3>1, QuietStep DEF Running
    <2>2. ASSUME NEW n \in 1 .. MaxItems, RunInline(n) \/ RunWithHelpers(n)
          PROVE  For!ForNext
      BY <2>2, RunStarts DEF For!ForNext
    <2>3. CASE Shutdown \/ NotifyShutdown \/ JoinThreads \/ NotifyStart
      <3>1. /\ UNCHANGED <<m_cursor, m_itemCount, item>>
            /\ Running' = Running
            /\ \A t \in Threads : pc'[t] \in {"test", "work"} <=> pc[t] \in {"test", "work"}
        BY <2>3 DEF Shutdown, NotifyShutdown, JoinThreads, NotifyStart, WakeAllThen,
                    Goto, poolData, Running, PoolInv, TypeOK, Threads
      <3> QED
        BY <3>1, QuietStep
    <2>4. ASSUME NEW w \in Workers,
                 \/ WorkerSleeps(w) \/ WorkerExits(w) \/ WorkerClaims(w)
                 \/ WorkerReports(w) \/ NotifyDone(w)
          PROVE  UNCHANGED For!forVars
      <3>1. UNCHANGED <<m_cursor, m_itemCount, item>>
        BY <2>4 DEF WorkerSleeps, WorkerExits, WorkerClaims, WorkerReports,
                    NotifyDone, poolData
      <3>2. /\ Running' = Running
            /\ \A t \in Threads : pc'[t] \in {"test", "work"} <=> pc[t] \in {"test", "work"}
        BY <2>4 DEF WorkerSleeps, WorkerExits, WorkerClaims, WorkerReports,
                    NotifyDone, Goto, Running, PoolInv, TypeOK, Threads
      <3> QED
        BY <3>1, <3>2, QuietStep
    <2>5. ASSUME NEW t \in Threads, SpuriousWakeup(t)
          PROVE  UNCHANGED For!forVars
      <3>1. /\ UNCHANGED <<m_cursor, m_itemCount, item>>
            /\ Running' = Running
            /\ \A u \in Threads : pc'[u] \in {"test", "work"} <=> pc[u] \in {"test", "work"}
        BY <2>5 DEF SpuriousWakeup, Goto, poolData, Running, PoolInv, TypeOK,
                    Threads, CallerPc, WorkerPc
      <3> QED
        BY <3>1, QuietStep
    <2>6. ASSUME NEW t \in Threads, DrainStep(t)
          PROVE  [For!ForNext]_(For!forVars)
      BY <2>6, DrainSteps
    <2>7. Caller \in Threads /\ \A w \in Workers : w \in Threads
      BY DEF Threads
    <2> QED
      BY <2>1, <2>2, <2>3, <2>4, <2>5, <2>6, <2>7, AwaitReturns
      DEF Next, Call, CallerStep, WorkerStep, Destroyed
  <1> QED
    BY <1>1, <1>2, PoolCorrect, PTL DEF Spec, ForSpec, For!ForSpec
=============================================================================
