------------------------------ MODULE Pipeline ------------------------------
(***************************************************************************)
(* Application/Main.cpp: the producer thread reads blocks from the source, *)
(* the main thread processes them.  blockQueue carries the blocks,         *)
(* recycleQueue carries their sample buffers back, so that a running       *)
(* receiver allocates no memory.                                           *)
(*                                                                         *)
(* The queues are the FIFO queues that BoundedQueue was shown to           *)
(* implement.  A block is its index, the position of its samples in the    *)
(* stream (module Sources) and the buffer that holds them.                 *)
(***************************************************************************)
EXTENDS Sources, Sequences

CONSTANTS BlockCapacity,    \* blockQueue(16)
          RecycleCapacity,  \* recycleQueue(16)
          MaxBlocks         \* bound: blocks the source delivers

ASSUME PipelineAssumption ==
    /\ BlockCapacity \in Nat \ {0}
    /\ RecycleCapacity \in Nat \ {0}
    /\ MaxBlocks \in Nat
    /\ \A bytes \in FileSizes : bytes <= 2 * SamplesPerBlock * MaxBlocks

VARIABLES blockIdx,      \* index of the block the producer reads next
          start,         \* first sample of the block the producer has read
          blockQueue,    \* the queued blocks [index, start]
          finished,      \* blockQueue.finish() was called
          recycled,      \* number of buffers in recycleQueue
          allocated,     \* history: buffers allocated and not yet freed
          producerPc,
          holdsBuffer,   \* does the producer's block own a recycled buffer?
          mainPc,
          block,         \* the block the main thread popped last
          processed,     \* history: number of calls of processBlock that returned
          failed         \* history: the main loop was left by an exception

pipelineVars == <<sourceVars, blockIdx, start, blockQueue, finished, recycled, allocated,
                  producerPc, holdsBuffer, mainPc, block, processed, failed>>
producerVars == <<sourceVars, blockIdx, start, producerPc, holdsBuffer>>
mainVars == <<mainPc, block, processed, failed>>

NoBlock == [index |-> 0, start |-> 0]

Init ==
    /\ SourceInit
    /\ blockIdx = 0 /\ start = 0
    /\ blockQueue = <<>>
    /\ finished = FALSE
    /\ recycled = 0
    /\ allocated = 0
    /\ producerPc = "recycle"
    /\ holdsBuffer = FALSE
    /\ mainPc = "pop"
    /\ block = NoBlock
    /\ processed = 0
    /\ failed = FALSE

-----------------------------------------------------------------------------
(* Producer thread *)

\* Mutant: used buffers are never taken back
MutNeverReuses ==
    /\ producerPc = "recycle"
    /\ producerPc' = "read"
    /\ UNCHANGED <<sourceVars, blockIdx, start, holdsBuffer, blockQueue, finished, recycled,
                   allocated, mainVars>>

\* recycleQueue.tryPop: a used buffer when there is one, else an empty vector
TryPopRecycled ==
    /\ producerPc = "recycle"
    /\ holdsBuffer' = (recycled > 0)
    /\ recycled' = IF recycled > 0 THEN recycled - 1 ELSE recycled
    /\ producerPc' = "read"
    /\ UNCHANGED <<sourceVars, blockIdx, start, blockQueue, finished, allocated, mainVars>>

\* A turn of the loop inside readBlock
ReadOn ==
    /\ producerPc = "read"
    /\ ReadLoopStep
    /\ blockIdx < MaxBlocks \/ consumed' = consumed
    /\ UNCHANGED <<blockIdx, start, producerPc, holdsBuffer, blockQueue, finished,
                   recycled, allocated, mainVars>>

\* readBlock fills the vector, which allocates when it came without a buffer.
ReadBlock ==
    /\ producerPc = "read"
    /\ Delivers
    /\ start' = BlockStart
    /\ allocated' = IF holdsBuffer THEN allocated ELSE allocated + 1
    /\ holdsBuffer' = TRUE
    /\ producerPc' = "push"
    /\ UNCHANGED <<blockIdx, blockQueue, finished, recycled, mainVars>>

\* The producer leaves its loop; what its block owns is freed.
LeaveLoop ==
    /\ allocated' = IF holdsBuffer THEN allocated - 1 ELSE allocated
    /\ holdsBuffer' = FALSE
    /\ producerPc' = "finish"

\* Mutant: a block that could not be read is skipped
MutSkipsShortRead ==
    /\ producerPc = "read"
    /\ GivesUp
    /\ producerPc' = "recycle"
    /\ holdsBuffer' = FALSE
    /\ allocated' = IF holdsBuffer THEN allocated - 1 ELSE allocated
    /\ UNCHANGED <<blockIdx, start, blockQueue, finished, recycled, mainVars>>

\* readBlock returns false: the producer does not try again.
SourceEnds ==
    /\ producerPc = "read"
    /\ GivesUp
    /\ LeaveLoop
    /\ UNCHANGED <<blockIdx, start, blockQueue, finished, recycled, mainVars>>

\* readBlock throws, for want of memory.
SourceThrows ==
    /\ producerPc = "read"
    /\ LeaveLoop
    /\ UNCHANGED <<sourceVars, blockIdx, start, blockQueue, finished, recycled, mainVars>>

PushBlock ==
    /\ producerPc = "push"
    /\ ~finished
    /\ Len(blockQueue) < BlockCapacity
    /\ blockQueue' = Append(blockQueue, [index |-> blockIdx, start |-> start])
    /\ blockIdx' = blockIdx + 1
    /\ holdsBuffer' = FALSE
    /\ producerPc' = "recycle"
    /\ UNCHANGED <<sourceVars, start, finished, recycled, allocated, mainVars>>

\* push returns false: the main thread closed the queue.
PushRejected ==
    /\ producerPc = "push"
    /\ finished
    /\ LeaveLoop
    /\ UNCHANGED <<sourceVars, blockIdx, start, blockQueue, finished, recycled, mainVars>>

ProducerFinishes ==
    /\ producerPc = "finish"
    /\ finished' = TRUE
    /\ producerPc' = "exited"
    /\ UNCHANGED <<sourceVars, blockIdx, start, holdsBuffer, blockQueue, recycled, allocated, mainVars>>

-----------------------------------------------------------------------------
(* Main thread *)

PopBlock ==
    /\ mainPc = "pop"
    /\ blockQueue # <<>>
    /\ block' = Head(blockQueue)
    /\ blockQueue' = Tail(blockQueue)
    /\ mainPc' = "process"
    /\ UNCHANGED <<finished, recycled, allocated, producerVars, processed, failed>>

ProcessBlock ==
    /\ mainPc = "process"
    /\ processed' = processed + 1
    /\ mainPc' = "recycle"
    /\ UNCHANGED <<blockQueue, finished, recycled, allocated, producerVars,
                   block, failed>>

\* recycleQueue.tryPush takes the buffer by value: one that does not fit is
\* freed.
Recycle ==
    /\ mainPc = "recycle"
    /\ \/ /\ recycled < RecycleCapacity
          /\ recycled' = recycled + 1
          /\ UNCHANGED allocated
       \/ /\ recycled = RecycleCapacity
          /\ allocated' = allocated - 1
          /\ UNCHANGED recycled
    /\ mainPc' = "pop"
    /\ UNCHANGED <<blockQueue, finished, producerVars, block, processed, failed>>

\* Mutant: the handler leaves the queue open
MutThrowsWithoutFinish ==
    /\ mainPc = "process"
    /\ failed' = TRUE
    /\ mainPc' = "join"
    /\ UNCHANGED <<blockQueue, finished, recycled, allocated, producerVars,
                   block, processed>>

\* processBlock throws: the handler closes the queue to stop the producer.
ProcessBlockThrows ==
    /\ mainPc = "process"
    /\ finished' = TRUE
    /\ failed' = TRUE
    /\ mainPc' = "join"
    /\ UNCHANGED <<blockQueue, recycled, allocated, producerVars, block, processed>>

PopRejected ==
    /\ mainPc = "pop"
    /\ blockQueue = <<>> /\ finished
    /\ mainPc' = "join"
    /\ UNCHANGED <<blockQueue, finished, recycled, allocated, producerVars,
                   block, processed, failed>>

JoinProducer ==
    /\ mainPc = "join"
    /\ producerPc = "exited"
    /\ mainPc' = "exited"
    /\ UNCHANGED <<blockQueue, finished, recycled, allocated, producerVars,
                   block, processed, failed>>

-----------------------------------------------------------------------------
ProducerStep ==
    \/ TryPopRecycled \/ ReadOn \/ ReadBlock \/ SourceEnds \/ SourceThrows
    \/ PushBlock \/ PushRejected \/ ProducerFinishes

MainStep ==
    \/ PopBlock \/ ProcessBlock \/ Recycle
    \/ ProcessBlockThrows \/ PopRejected \/ JoinProducer

Terminated == mainPc = "exited" /\ UNCHANGED pipelineVars

Next == ProducerStep \/ MainStep \/ Terminated

Spec == Init /\ [][Next]_pipelineVars

\* Both threads are scheduled; every call in the loop of readBlock returns.
FairSpec == Spec /\ WF_pipelineVars(ProducerStep) /\ WF_pipelineVars(MainStep)

-----------------------------------------------------------------------------
\* Block n reaches processBlock as the n-th, without gaps, and holds samples
\* n * SamplesPerBlock and following of the stream: no read, short, late or
\* failed, shifts a later block, and readBlock's own block index agrees with the
\* producer's.  Unless processBlock threw, the main thread leaves its loop only
\* after all blocks that were read.
BlocksAreTheStream ==
    LET InPlace(b) ==
            /\ b.start = b.index * SamplesPerBlock
            /\ kind # "fifo" => b.start + SamplesPerBlock <= m_totalSamples
    IN  /\ \A i \in DOMAIN blockQueue :
              /\ InPlace(blockQueue[i])
              /\ blockQueue[i].index = blockIdx - Len(blockQueue) + i - 1
        /\ mainPc = "process" => InPlace(block) /\ block.index = processed
        /\ mainPc # "process" /\ ~failed => processed + Len(blockQueue) = blockIdx
        /\ mainPc \in {"join", "exited"} /\ ~failed => processed = blockIdx
        /\ producerPc = "push" => m_currentBlockIndex = blockIdx + 1

\* Every buffer is accounted for, and recycling bounds their number: what the
\* block queue can hold plus one in the hands of each thread.
BuffersAreBounded ==
    /\ allocated = recycled + Len(blockQueue)
                     + (IF holdsBuffer THEN 1 ELSE 0)
                     + (IF mainPc \in {"process", "recycle"} \/ failed THEN 1 ELSE 0)
    /\ allocated <= BlockCapacity + 2

\* The program ends: neither thread waits for the other forever, not even when
\* processBlock throws while the producer is blocked on a full queue.
PipelineTerminates == <>(mainPc = "exited")
=============================================================================
