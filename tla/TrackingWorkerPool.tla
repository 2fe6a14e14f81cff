------------------------- MODULE TrackingWorkerPool -------------------------
(***************************************************************************)
(* Tracking/GPSOpenClTrackingWorkerPool: the persistent thread pool that   *)
(* runs trackBlock for every active channel of a block and gives the       *)
(* consumer thread a barrier.                                              *)
(*                                                                         *)
(* Critical sections under m_mutex are single steps.  The atomic           *)
(* fetch_add, the comparison with m_itemCount (read without the mutex),    *)
(* the work itself, and every notify are separate steps, so that each can  *)
(* interleave with the other threads.  Condition variables may wake        *)
(* spuriously.  Durations are left out.                                    *)
(***************************************************************************)
EXTENDS Naturals, FiniteSets

CONSTANTS Workers,    \* m_workers: empty when m_numWorkers <= 1
          Caller,     \* the thread that owns the pool and calls run()
          MaxItems,   \* largest item count of a run (GPS_CA_SV_COUNT)
          MaxRuns     \* bound: number of runs that involve the helpers

ASSUME PoolAssumption ==
    /\ IsFiniteSet(Workers)
    /\ Cardinality(Workers) # 1
    /\ Caller \notin Workers
    /\ MaxItems \in Nat
    /\ MaxRuns \in Nat

VARIABLES m_cursor,          \* next item to claim
          m_itemCount,       \* item count of the current run
          m_generation,      \* bumped once per run with helpers
          m_pendingWorkers,  \* helpers still busy this run
          m_helperTarget,    \* participation slots this run
          m_claimedWorkers,  \* slots already claimed
          m_shutdown,        \* set by the destructor
          lastSeen,          \* lastSeenGeneration of each worker
          item,              \* the index each thread fetched last
          inline,            \* is the current run executed by the caller alone?
          pc

poolData == <<m_cursor, m_itemCount, m_generation, m_pendingWorkers,
              m_helperTarget, m_claimedWorkers, m_shutdown, lastSeen, item,
              inline>>

poolVars == <<m_cursor, m_itemCount, m_generation, m_pendingWorkers,
              m_helperTarget, m_claimedWorkers, m_shutdown, lastSeen, item,
              inline, pc>>

Threads == Workers \cup {Caller}

Init ==
    /\ m_cursor = 0
    /\ m_itemCount = 0
    /\ m_generation = 0
    /\ m_pendingWorkers = 0
    /\ m_helperTarget = 0
    /\ m_claimedWorkers = 0
    /\ m_shutdown = FALSE
    /\ lastSeen = [w \in Workers |-> 0]
    /\ item = [t \in Threads |-> 0]
    /\ inline = FALSE
    /\ pc = [t \in Threads |-> IF t = Caller THEN "idle" ELSE "check"]

Goto(t, label) == pc' = [pc EXCEPT ![t] = label]

-----------------------------------------------------------------------------
(* run() *)

\* const int helpers: how many helpers a run of n items may use
Helpers(n) ==
    IF Workers = {} THEN 0
    ELSE IF n - 1 < Cardinality(Workers) THEN n - 1 ELSE Cardinality(Workers)

\* One item, or no pool threads: the caller drains alone and takes no lock.
RunInline(n) ==
    /\ pc[Caller] = "idle"
    /\ Helpers(n) = 0
    /\ m_itemCount' = n
    /\ m_cursor' = 0
    /\ inline' = TRUE
    /\ Goto(Caller, "drain")
    /\ UNCHANGED <<m_generation, m_pendingWorkers, m_helperTarget,
                   m_claimedWorkers, m_shutdown, lastSeen, item>>

\* Mutant: the cursor of the previous run is not reset
MutCursorNotReset(n) ==
    /\ pc[Caller] = "idle"
    /\ Helpers(n) > 0
    /\ m_generation < MaxRuns
    /\ m_itemCount' = n
    /\ m_pendingWorkers' = Helpers(n)
    /\ m_helperTarget' = Helpers(n)
    /\ m_claimedWorkers' = 0
    /\ m_generation' = m_generation + 1
    /\ inline' = FALSE
    /\ Goto(Caller, "notifyStart")
    /\ UNCHANGED <<m_cursor, m_shutdown, lastSeen, item>>

\* The run is published under the mutex ...
RunWithHelpers(n) ==
    /\ pc[Caller] = "idle"
    /\ Helpers(n) > 0
    /\ m_generation < MaxRuns
    /\ m_itemCount' = n
    /\ m_cursor' = 0
    /\ m_pendingWorkers' = Helpers(n)
    /\ m_helperTarget' = Helpers(n)
    /\ m_claimedWorkers' = 0
    /\ m_generation' = m_generation + 1
    /\ inline' = FALSE
    /\ Goto(Caller, "notifyStart")
    /\ UNCHANGED <<m_shutdown, lastSeen, item>>

\* m_startCv.notify_all()
WakeAllThen(label) ==
    pc' = [t \in Threads |-> IF t = Caller THEN label
                             ELSE IF pc[t] = "sleep" THEN "check" ELSE pc[t]]

\* ... and announced after the mutex is released.
NotifyStart ==
    /\ pc[Caller] = "notifyStart"
    /\ WakeAllThen("drain")
    /\ UNCHANGED poolData

\* Mutant: run() returns when the cursor is exhausted
MutNoBarrier ==
    /\ pc[Caller] = "join"
    /\ Goto(Caller, "idle")
    /\ UNCHANGED poolData

\* m_doneCv.wait: the predicate, evaluated under the mutex
AwaitHelpers ==
    /\ pc[Caller] = "join"
    /\ Goto(Caller, IF m_pendingWorkers = 0 THEN "idle" ELSE "doneWait")
    /\ UNCHANGED poolData

-----------------------------------------------------------------------------
(* drainCursor(), run by the caller and by every helper with a slot *)

FetchAdd(t) ==
    /\ pc[t] = "drain"
    /\ item' = [item EXCEPT ![t] = m_cursor]
    /\ m_cursor' = m_cursor + 1
    /\ Goto(t, "test")
    /\ UNCHANGED <<m_itemCount, m_generation, m_pendingWorkers,
                   m_helperTarget, m_claimedWorkers, m_shutdown, lastSeen,
                   inline>>

Drained(t) ==
    IF t # Caller THEN "report" ELSE IF inline THEN "idle" ELSE "join"

TestItem(t) ==
    /\ pc[t] = "test"
    /\ Goto(t, IF item[t] >= m_itemCount THEN Drained(t) ELSE "work")
    /\ UNCHANGED poolData

\* m_work(item) returns
WorkItem(t) ==
    /\ pc[t] = "work"
    /\ Goto(t, "drain")
    /\ UNCHANGED poolData

-----------------------------------------------------------------------------
(* workerLoop() *)

\* Mutant: the wait predicate forgets m_shutdown
MutSleepsThroughShutdown(w) ==
    /\ pc[w] = "check"
    /\ m_generation = lastSeen[w]
    /\ Goto(w, "sleep")
    /\ UNCHANGED poolData

\* m_startCv.wait: neither a shutdown nor a new generation
WorkerSleeps(w) ==
    /\ pc[w] = "check"
    /\ ~m_shutdown /\ m_generation = lastSeen[w]
    /\ Goto(w, "sleep")
    /\ UNCHANGED poolData

WorkerExits(w) ==
    /\ pc[w] = "check"
    /\ m_shutdown
    /\ Goto(w, "exited")
    /\ UNCHANGED poolData

\* A new generation: claim a slot, or go back to sleep when all are taken.
WorkerClaims(w) ==
    /\ pc[w] = "check"
    /\ ~m_shutdown /\ m_generation # lastSeen[w]
    /\ lastSeen' = [lastSeen EXCEPT ![w] = m_generation]
    /\ \/ /\ m_claimedWorkers >= m_helperTarget
          /\ UNCHANGED <<m_claimedWorkers, pc>>
       \/ /\ m_claimedWorkers < m_helperTarget
          /\ m_claimedWorkers' = m_claimedWorkers + 1
          /\ Goto(w, "drain")
    /\ UNCHANGED <<m_cursor, m_itemCount, m_generation, m_pendingWorkers,
                   m_helperTarget, m_shutdown, item, inline>>

\* Mutant: the last helper forgets to notify the caller
MutReportsSilently(w) ==
    /\ pc[w] = "report"
    /\ m_pendingWorkers' = m_pendingWorkers - 1
    /\ Goto(w, "check")
    /\ UNCHANGED <<m_cursor, m_itemCount, m_generation, m_helperTarget,
                   m_claimedWorkers, m_shutdown, lastSeen, item, inline>>

WorkerReports(w) ==
    /\ pc[w] = "report"
    /\ m_pendingWorkers' = m_pendingWorkers - 1
    /\ Goto(w, IF m_pendingWorkers = 1 THEN "notifyDone" ELSE "check")
    /\ UNCHANGED <<m_cursor, m_itemCount, m_generation, m_helperTarget,
                   m_claimedWorkers, m_shutdown, lastSeen, item, inline>>

\* m_doneCv.notify_one(), after the mutex was released
NotifyDone(w) ==
    /\ pc[w] = "notifyDone"
    /\ pc' = [pc EXCEPT ![w] = "check",
                        ![Caller] = IF @ = "doneWait" THEN "join" ELSE @]
    /\ UNCHANGED poolData

SpuriousWakeup(t) ==
    /\ pc[t] \in {"sleep", "doneWait"}
    /\ Goto(t, IF t = Caller THEN "join" ELSE "check")
    /\ UNCHANGED poolData

-----------------------------------------------------------------------------
(* ~TrackingWorkerPool() *)

Shutdown ==
    /\ pc[Caller] = "idle"
    /\ m_shutdown' = (Workers # {})
    /\ Goto(Caller, IF Workers = {} THEN "destroyed" ELSE "notifyShutdown")
    /\ UNCHANGED <<m_cursor, m_itemCount, m_generation, m_pendingWorkers,
                   m_helperTarget, m_claimedWorkers, lastSeen, item, inline>>

NotifyShutdown ==
    /\ pc[Caller] = "notifyShutdown"
    /\ WakeAllThen("joinThreads")
    /\ UNCHANGED poolData

JoinThreads ==
    /\ pc[Caller] = "joinThreads"
    /\ \A w \in Workers : pc[w] = "exited"
    /\ Goto(Caller, "destroyed")
    /\ UNCHANGED poolData

-----------------------------------------------------------------------------
DrainStep(t) == FetchAdd(t) \/ TestItem(t) \/ WorkItem(t)

CallerStep ==
    \/ NotifyStart \/ AwaitHelpers \/ DrainStep(Caller)
    \/ NotifyShutdown \/ JoinThreads

WorkerStep(w) ==
    \/ WorkerSleeps(w) \/ WorkerExits(w) \/ WorkerClaims(w)
    \/ DrainStep(w) \/ WorkerReports(w) \/ NotifyDone(w)

Call ==
    \/ \E n \in 1 .. MaxItems : RunInline(n) \/ RunWithHelpers(n)
    \/ Shutdown

\* The pool is gone: nothing more happens.
Destroyed == pc[Caller] = "destroyed" /\ UNCHANGED poolVars

Next ==
    \/ Call
    \/ CallerStep
    \/ \E w \in Workers : WorkerStep(w)
    \/ \E t \in Threads : SpuriousWakeup(t)
    \/ Destroyed

Spec == Init /\ [][Next]_poolVars

\* Every thread that can run is eventually scheduled; m_work returns; nobody
\* has to call run() again and no wakeup is spurious by obligation.
FairSpec ==
    /\ Spec
    /\ WF_poolVars(CallerStep)
    /\ \A w \in Workers : WF_poolVars(WorkerStep(w))

-----------------------------------------------------------------------------
CallerPc == {"idle", "notifyStart", "drain", "test", "work", "join",
             "doneWait", "notifyShutdown", "joinThreads", "destroyed"}
WorkerPc == {"check", "sleep", "drain", "test", "work", "report",
             "notifyDone", "exited"}

TypeOK ==
    /\ m_cursor \in Nat
    /\ m_itemCount \in 0 .. MaxItems
    /\ m_generation \in 0 .. MaxRuns
    /\ m_pendingWorkers \in Nat
    /\ m_helperTarget \in 0 .. Cardinality(Workers)
    /\ m_claimedWorkers \in 0 .. m_helperTarget
    /\ m_shutdown \in BOOLEAN
    /\ lastSeen \in [Workers -> 0 .. m_generation]
    /\ item \in [Threads -> Nat]
    /\ inline \in BOOLEAN
    /\ pc \in [Threads -> CallerPc \cup WorkerPc]
    /\ pc[Caller] \in CallerPc
    /\ \A w \in Workers : pc[w] \in WorkerPc

\* Helpers that hold a slot of the current run.
Helping == {w \in Workers : pc[w] \in {"drain", "test", "work", "report"}}

Running ==
    pc[Caller] \in {"notifyStart", "drain", "test", "work", "join", "doneWait"}

\* m_pendingWorkers counts exactly the slots not yet claimed and the helpers
\* that have not reported, so it is zero only when the barrier is complete.
PendingIsExact ==
    m_pendingWorkers
      = (m_helperTarget - m_claimedWorkers) + Cardinality(Helping)

\* Outside a run, and in a run the caller executes alone, no helper is inside
\* drainCursor: run() may touch m_itemCount, m_cursor and the durations
\* without the mutex, and the channels belong to the consumer thread again.
NoHelperOutsideRun ==
    ~Running \/ inline => Helping = {} /\ m_claimedWorkers = m_helperTarget

\* No two threads hold the same item index, and a held index lies behind the
\* cursor: the shared fetch_add hands each channel to one thread.
ItemsDisjoint ==
    \A t, u \in Threads :
        pc[t] \in {"test", "work"} =>
            /\ item[t] < m_cursor
            /\ t # u /\ pc[u] \in {"test", "work"} => item[t] # item[u]

\* Once the run is announced no worker sleeps through it, and enough workers
\* have still to look at it to claim every open slot (why notify_all is used).
SlotsWillBeClaimed ==
    /\ m_helperTarget - m_claimedWorkers
          <= Cardinality({w \in Workers : lastSeen[w] # m_generation})
    /\ \A w \in Workers :
          pc[w] = "sleep" /\ lastSeen[w] # m_generation => pc[Caller] = "notifyStart"

\* A worker that holds a slot saw the current generation, so no helper of an
\* earlier run is ever still draining when a new one starts.
HelpersAreCurrent ==
    \A w \in Helping : lastSeen[w] = m_generation

For == INSTANCE ParallelFor WITH
           running   <- Running,
           remaining <- {i \in 0 .. MaxItems - 1 : m_cursor <= i /\ i < m_itemCount},
           active    <- {i \in 0 .. MaxItems - 1 :
                            /\ i < m_itemCount
                            /\ \E t \in Threads : pc[t] \in {"test", "work"} /\ item[t] = i}

\* The pool is a parallel for: every item of a run is worked exactly once and
\* run() returns only after the last one.
ForSpec == For!ForSpec

\* run() always returns.
RunReturns == Running ~> pc[Caller] = "idle"

\* The destructor always joins every worker.
ShutdownJoins == pc[Caller] = "notifyShutdown" ~> pc[Caller] = "destroyed"
=============================================================================
