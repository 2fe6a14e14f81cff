---------------------------- MODULE BoundedQueue ----------------------------
(***************************************************************************)
(* Common/GPSOpenClBoundedQueue.hpp: the blocking ring that connects every *)
(* pair of threads of the receiver (block pipeline, acquisition hand-off,  *)
(* sinks, telemetry writer).                                               *)
(*                                                                         *)
(* A critical section under m_mutex is one step.  The notify_one calls of  *)
(* push, tryPush, pop and tryPop come AFTER the mutex is released and are  *)
(* steps of their own, so any other thread can run in between; finish()    *)
(* notifies while it holds the mutex.  A blocked thread may also wake up   *)
(* for no reason, as std::condition_variable allows.                       *)
(***************************************************************************)
EXTENDS Naturals, Sequences, FiniteSets

CONSTANTS Threads,   \* the threads that share the queue
          Items,     \* what they push
          Default,   \* T{}: a default-constructed or moved-from slot
          Capacity   \* m_maxCapacity, after 0 was replaced by 1

ASSUME QueueAssumption ==
    /\ IsFiniteSet(Threads)
    /\ Capacity \in Nat \ {0}
    /\ Default \notin Items

VARIABLES m_storage,   \* the ring
          m_head,      \* index of the oldest element
          m_count,     \* number of queued elements
          m_finished,  \* set by finish()
          pc,          \* where each thread is inside its queue operation
          item,        \* item[t]: the output parameter of t's last pop
          ended        \* ended[t]: which blocking operation of t returned false

queueVars == <<m_storage, m_head, m_count, m_finished, pc, item, ended>>

Slots == 0 .. Capacity - 1

PcStates ==
    {"idle", "push", "pushWait", "notifyPop", "pop", "popWait", "notifyPush"}

Init ==
    /\ m_storage = [i \in Slots |-> Default]
    /\ m_head = 0
    /\ m_count = 0
    /\ m_finished = FALSE
    /\ pc = [t \in Threads |-> "idle"]
    /\ item = [t \in Threads |-> Default]
    /\ ended = [t \in Threads |-> "none"]

-----------------------------------------------------------------------------
\* enqueueLocked
EnqueueLocked(x) ==
    /\ m_storage' = [m_storage EXCEPT ![(m_head + m_count) % Capacity] = x]
    /\ m_count' = m_count + 1

\* Mutant: the newest item is handed out first
MutDequeueNewest(t) ==
    LET last == (m_head + m_count - 1) % Capacity IN
    /\ item' = [item EXCEPT ![t] = m_storage[last]]
    /\ m_storage' = [m_storage EXCEPT ![last] = Default]
    /\ m_count' = m_count - 1
    /\ UNCHANGED m_head

\* dequeueLocked: the slot is moved from, the head advances around the ring
DequeueLocked(t) ==
    /\ item' = [item EXCEPT ![t] = m_storage[m_head]]
    /\ m_storage' = [m_storage EXCEPT ![m_head] = Default]
    /\ m_head' = (m_head + 1) % Capacity
    /\ m_count' = m_count - 1

\* No caller comes back once a blocking operation told it the queue is closed.
Calls(t, op) ==
    /\ pc[t] = "idle"
    /\ ended[t] = "none"
    /\ pc' = [pc EXCEPT ![t] = op]
    /\ UNCHANGED <<m_storage, m_head, m_count, m_finished, item, ended>>

ReturnsFalse(t) ==
    /\ pc' = [pc EXCEPT ![t] = "idle"]
    /\ ended' = [ended EXCEPT ![t] = pc[t]]

\* Mutant: the wait predicate forgets m_finished
MutPushIgnoresFinish(t) ==
    /\ pc[t] = "push"
    /\ ~(m_count < Capacity)
    /\ pc' = [pc EXCEPT ![t] = "pushWait"]
    /\ UNCHANGED <<m_storage, m_head, m_count, m_finished, item, ended>>

\* push: the predicate of m_cvPush.wait, evaluated under the mutex
PushBlocks(t) ==
    /\ pc[t] = "push"
    /\ ~(m_count < Capacity \/ m_finished)
    /\ pc' = [pc EXCEPT ![t] = "pushWait"]
    /\ UNCHANGED <<m_storage, m_head, m_count, m_finished, item, ended>>

PushRejected(t) ==
    /\ pc[t] = "push"
    /\ m_finished
    /\ ReturnsFalse(t)
    /\ UNCHANGED <<m_storage, m_head, m_count, m_finished, item>>

\* Mutant: push forgets to notify m_cvPop
MutPushSilent(t, x) ==
    /\ pc[t] = "push"
    /\ m_count < Capacity /\ ~m_finished
    /\ EnqueueLocked(x)
    /\ pc' = [pc EXCEPT ![t] = "idle"]
    /\ UNCHANGED <<m_head, m_finished, item, ended>>

PushAccepted(t, x) ==
    /\ pc[t] = "push"
    /\ m_count < Capacity /\ ~m_finished
    /\ EnqueueLocked(x)
    /\ pc' = [pc EXCEPT ![t] = "notifyPop"]
    /\ UNCHANGED <<m_head, m_finished, item, ended>>

\* tryPush: drops the item, and returns false, when full or finished
TryPush(t, x) ==
    /\ pc[t] = "idle"
    /\ ended[t] = "none"
    /\ ~(m_finished \/ m_count >= Capacity)
    /\ EnqueueLocked(x)
    /\ pc' = [pc EXCEPT ![t] = "notifyPop"]
    /\ UNCHANGED <<m_head, m_finished, item, ended>>

\* Mutant: tryPush notifies the pushers instead
MutNotifyWrongSide(t) ==
    /\ pc[t] = "notifyPop"
    /\ LET waiting == {w \in Threads : pc[w] = "pushWait"} IN
       \/ /\ waiting = {}
          /\ pc' = [pc EXCEPT ![t] = "idle"]
       \/ \E w \in waiting : pc' = [pc EXCEPT ![t] = "idle", ![w] = "push"]
    /\ UNCHANGED <<m_storage, m_head, m_count, m_finished, item, ended>>

\* m_cvPop.notify_one(), after the mutex was released
NotifyPop(t) ==
    /\ pc[t] = "notifyPop"
    /\ LET waiting == {w \in Threads : pc[w] = "popWait"} IN
       \/ /\ waiting = {}
          /\ pc' = [pc EXCEPT ![t] = "idle"]
       \/ \E w \in waiting : pc' = [pc EXCEPT ![t] = "idle", ![w] = "pop"]
    /\ UNCHANGED <<m_storage, m_head, m_count, m_finished, item, ended>>

\* pop: the predicate of m_cvPop.wait, evaluated under the mutex
PopBlocks(t) ==
    /\ pc[t] = "pop"
    /\ ~(m_count > 0 \/ m_finished)
    /\ pc' = [pc EXCEPT ![t] = "popWait"]
    /\ UNCHANGED <<m_storage, m_head, m_count, m_finished, item, ended>>

\* Mutant: a closed queue is not drained
MutPopAbandons(t) ==
    /\ pc[t] = "pop"
    /\ m_finished
    /\ ReturnsFalse(t)
    /\ UNCHANGED <<m_storage, m_head, m_count, m_finished, item>>

PopRejected(t) ==
    /\ pc[t] = "pop"
    /\ m_count = 0 /\ m_finished
    /\ ReturnsFalse(t)
    /\ UNCHANGED <<m_storage, m_head, m_count, m_finished, item>>

PopAccepted(t) ==
    /\ pc[t] = "pop"
    /\ m_count > 0
    /\ DequeueLocked(t)
    /\ pc' = [pc EXCEPT ![t] = "notifyPush"]
    /\ UNCHANGED <<m_finished, ended>>

\* tryPop: returns false at once when empty
TryPop(t) ==
    /\ pc[t] = "idle"
    /\ ended[t] = "none"
    /\ m_count > 0
    /\ DequeueLocked(t)
    /\ pc' = [pc EXCEPT ![t] = "notifyPush"]
    /\ UNCHANGED <<m_finished, ended>>

\* m_cvPush.notify_one(), after the mutex was released
NotifyPush(t) ==
    /\ pc[t] = "notifyPush"
    /\ LET waiting == {w \in Threads : pc[w] = "pushWait"} IN
       \/ /\ waiting = {}
          /\ pc' = [pc EXCEPT ![t] = "idle"]
       \/ \E w \in waiting : pc' = [pc EXCEPT ![t] = "idle", ![w] = "push"]
    /\ UNCHANGED <<m_storage, m_head, m_count, m_finished, item, ended>>

\* A thread taken off its condition variable re-evaluates the predicate.
Woken(p) ==
    [t \in Threads |-> IF p[t] = "pushWait" THEN "push"
                       ELSE IF p[t] = "popWait" THEN "pop" ELSE p[t]]

\* finish: sets the flag and wakes everyone under the mutex
Finish(t) ==
    /\ pc[t] = "idle"
    /\ m_finished' = TRUE
    /\ pc' = Woken(pc)
    /\ UNCHANGED <<m_storage, m_head, m_count, item, ended>>

SpuriousWakeup(t) ==
    /\ pc[t] \in {"pushWait", "popWait"}
    /\ pc' = [pc EXCEPT ![t] = Woken(pc)[t]]
    /\ UNCHANGED <<m_storage, m_head, m_count, m_finished, item, ended>>

-----------------------------------------------------------------------------
\* What a thread inside an operation does next (a tryPush or tryPop that finds
\* nothing to do returns false and changes nothing: a stuttering step).
Step(t) ==
    \/ PushBlocks(t) \/ PushRejected(t)
    \/ \E x \in Items : PushAccepted(t, x)
    \/ PopBlocks(t) \/ PopRejected(t) \/ PopAccepted(t)
    \/ NotifyPop(t) \/ NotifyPush(t)

Call(t) ==
    \/ Calls(t, "push") \/ Calls(t, "pop")
    \/ \E x \in Items : TryPush(t, x)
    \/ TryPop(t)
    \/ Finish(t)

Next == \E t \in Threads : Step(t) \/ Call(t) \/ SpuriousWakeup(t)

Spec == Init /\ [][Next]_queueVars

\* A thread inside an operation keeps running unless it is blocked; nothing
\* obliges it to make a new call or to wake up spuriously.
FairSpec == Spec /\ \A t \in Threads : WF_queueVars(Step(t))

-----------------------------------------------------------------------------
TypeOK ==
    /\ m_storage \in [Slots -> Items \cup {Default}]
    /\ m_head \in Slots
    /\ m_count \in 0 .. Capacity
    /\ m_finished \in BOOLEAN
    /\ pc \in [Threads -> PcStates]
    /\ item \in [Threads -> Items \cup {Default}]
    /\ ended \in [Threads -> {"none", "push", "pop"}]

In(states) == {t \in Threads : pc[t] \in states}

\* The ring holds an item exactly in the m_count slots that follow m_head: no
\* pop hands out a slot another pop already moved from, no push overwrites an
\* item that was not yet delivered (enqueueLocked, dequeueLocked).
RingOccupied ==
    \A i \in Slots :
        m_storage[(m_head + i) % Capacity] # Default <=> i < m_count

\* While a thread sleeps in pop, each queued item has a wakeup under way: a
\* pusher between its unlock and its notify_one, or a popper already awake.
NoLostPopWakeup ==
    In({"popWait"}) # {} => m_count <= Cardinality(In({"notifyPop", "pop"}))

\* The same for a thread that sleeps in push and the free slots of the ring.
NoLostPushWakeup ==
    In({"pushWait"}) # {} =>
        Capacity - m_count <= Cardinality(In({"notifyPush", "push"}))

\* finish() leaves nobody asleep, and nobody falls asleep after it: the flag is
\* part of both wait predicates and is set under the same mutex.
NobodySleepsAfterFinish ==
    m_finished => In({"pushWait", "popWait"}) = {}

\* So notify_one outside the mutex strands nobody who could go on.
NoLostWakeup ==
    /\ NoLostPopWakeup
    /\ NoLostPushWakeup
    /\ NobodySleepsAfterFinish

\* A blocking operation returns false only when the queue is closed; a pop
\* moreover only once everything queued was delivered, and nothing follows.
EndIsFinal ==
    \A t \in Threads :
        /\ ended[t] # "none" => m_finished
        /\ ended[t] = "pop" => m_count = 0

Fifo == INSTANCE FifoQueue WITH
            queue <- [i \in 1 .. m_count |-> m_storage[(m_head + i - 1) % Capacity]],
            finished <- m_finished

\* The ring behaves as a closable FIFO queue of at most Capacity items.
FifoSpec == Fifo!FifoSpec

\* Whoever sleeps in pop while something is queued is woken, or the queue is
\* emptied by others; and the same for push and a free slot.
SleepersServed ==
    \A t \in Threads :
        /\ pc[t] = "popWait" /\ m_count > 0 ~> pc[t] # "popWait" \/ m_count = 0
        /\ pc[t] = "pushWait" /\ m_count < Capacity
              ~> pc[t] # "pushWait" \/ m_count = Capacity

\* After finish() every operation in progress returns.
FinishReleases ==
    \A t \in Threads : m_finished ~> pc[t] = "idle"
=============================================================================
