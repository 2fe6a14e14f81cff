----------------------------- MODULE FifoQueue -----------------------------
(***************************************************************************)
(* What BoundedQueue promises its callers: a first-in first-out queue of   *)
(* at most Capacity items that can be closed once.  Closing stops further  *)
(* items; what is already queued is still delivered.  No mutex, no         *)
(* condition variable, no ring: those belong to the implementation.        *)
(***************************************************************************)
EXTENDS Naturals, Sequences

CONSTANTS Threads,   \* the threads that share the queue
          Items,     \* what travels through it
          Default,   \* a default-constructed item, before anything is received
          Capacity   \* maximum number of queued items

VARIABLES queue,     \* the queued items, oldest first
          finished,  \* TRUE once finish() was called
          item       \* item[t]: what thread t received last

fifoVars == <<queue, finished, item>>

FifoInit ==
    /\ queue = <<>>
    /\ finished = FALSE
    /\ item = [t \in Threads |-> Default]

Enqueue(x) ==
    /\ ~finished
    /\ Len(queue) < Capacity
    /\ queue' = Append(queue, x)
    /\ UNCHANGED <<finished, item>>

Dequeue(t) ==
    /\ queue # <<>>
    /\ item' = [item EXCEPT ![t] = Head(queue)]
    /\ queue' = Tail(queue)
    /\ UNCHANGED finished

Close ==
    /\ finished' = TRUE
    /\ UNCHANGED <<queue, item>>

FifoNext ==
    \/ \E x \in Items : Enqueue(x)
    \/ \E t \in Threads : Dequeue(t)
    \/ Close

FifoSpec == FifoInit /\ [][FifoNext]_fifoVars
=============================================================================
