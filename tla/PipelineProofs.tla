--------------------------- MODULE PipelineProofs ---------------------------
(***************************************************************************)
(* Proofs about module Pipeline, for any size of a block, any capture,     *)
(* any capacity of the two queues.                                         *)
(*                                                                         *)
(* That a block holds the samples of its own place in the stream rests on  *)
(* how many bytes readBlock has consumed while the producer is in its      *)
(* loop; that the buffers are bounded rests on when the producer allocates *)
(* one: it found recycleQueue empty, which need not be so any more.        *)
(***************************************************************************)
EXTENDS Pipeline, SequenceTheorems, TLAPS

Block == [index : Nat, start : Nat]

SourceTypes ==
    /\ kind \in {"bin", "text", "fifo"}
    /\ size \in Nat
    /\ m_currentBlockIndex \in Nat
    /\ consumed \in Nat
    /\ totalRead \in 0 .. bytesNeeded

PipelineTypes ==
    /\ SourceTypes
    /\ blockIdx \in Nat
    /\ start \in Nat
    /\ blockQueue \in Seq(Block)
    /\ Len(blockQueue) <= BlockCapacity
    /\ finished \in BOOLEAN
    /\ recycled \in 0 .. RecycleCapacity
    /\ producerPc \in {"recycle", "read", "push", "finish", "exited"}
    /\ holdsBuffer \in BOOLEAN
    /\ mainPc \in {"pop", "process", "recycle", "join", "exited"}
    /\ block \in Block
    /\ processed \in Nat
    /\ failed \in BOOLEAN

InLoop == producerPc \in {"recycle", "read", "push"}

\* Where readBlock stands when it has delivered n blocks: its block index counts
\* them, and a capture or a FIFO has given their bytes and those of the call in
\* progress.
AtBlock(n) ==
    /\ m_currentBlockIndex = n
    /\ kind = "bin" => consumed = n * bytesNeeded
    /\ kind = "fifo" => consumed = n * bytesNeeded + totalRead

BlocksRead == IF producerPc = "push" THEN blockIdx + 1 ELSE blockIdx

SourceInStep == InLoop => AtBlock(BlocksRead)

Placed(b) ==
    /\ b.start = b.index * SamplesPerBlock
    /\ kind # "fifo" => b.start + SamplesPerBlock <= m_totalSamples

\* A queue q whose last block is block n - 1
QueueInPlace(q, n) ==
    \A i \in 1 .. Len(q) : Placed(q[i]) /\ q[i].index = n - Len(q) + i - 1

\* The block that was read, the queued ones and the one in process, in one row.
BlocksInPlace ==
    /\ producerPc = "push" => Placed([index |-> blockIdx, start |-> start])
    /\ QueueInPlace(blockQueue, blockIdx)
    /\ mainPc = "process" => Placed(block) /\ block.index = processed

InHand == IF mainPc = "process" THEN 1 ELSE 0

NothingSkipped ==
    /\ ~failed => processed + InHand + Len(blockQueue) = blockIdx
    /\ failed => mainPc \in {"join", "exited"}
    /\ mainPc \in {"join", "exited"} /\ ~failed => finished /\ blockQueue = <<>>

StreamInv == SourceInStep /\ BlocksInPlace /\ NothingSkipped

\* A producer without a buffer has seen recycleQueue empty: all buffers are
\* with the block queue and the main thread, and no other is allocated meanwhile.
BufferInv ==
    /\ BuffersAreBounded
    /\ allocated \in Nat
    /\ holdsBuffer => producerPc \in {"read", "push"}
    /\ producerPc = "push" => holdsBuffer
    /\ producerPc = "read" /\ ~holdsBuffer => allocated <= BlockCapacity + 1

PipelineInv == PipelineTypes /\ StreamInv /\ BufferInv

-----------------------------------------------------------------------------
(* Bytes and samples *)

\* One block more, in samples and in bytes; the first sample of a block from
\* the bytes before it.
LEMMA BlockArithmetic ==
    ASSUME NEW n \in Nat
    PROVE  /\ bytesNeeded \in Nat \ {0}
           /\ n * SamplesPerBlock \in Nat
           /\ n * bytesNeeded \in Nat
           /\ (n + 1) * SamplesPerBlock = n * SamplesPerBlock + SamplesPerBlock
           /\ (n + 1) * bytesNeeded = n * bytesNeeded + bytesNeeded
           /\ (n * bytesNeeded) \div 2 = n * SamplesPerBlock
           /\ 0 * bytesNeeded = 0
  <1>1. SamplesPerBlock \in Nat \ {0}
    BY SourceAssumption
  <1>2. PICK s \in Nat \ {0} : s = SamplesPerBlock
    BY <1>1
  <1>3. PICK p \in Nat : p = n * s
    OBVIOUS
  <1>4. n * (2 * s) = 2 * p /\ (n + 1) * s = p + s /\ (n + 1) * (2 * s) = 2 * p + 2 * s
    BY <1>3
  <1>5. (2 * p) \div 2 = p
    OBVIOUS
  <1> QED
    BY <1>2, <1>3, <1>4, <1>5 DEF bytesNeeded

-----------------------------------------------------------------------------
(* The source *)

\* A turn of the loop inside readBlock keeps its place.
LEMMA ReadLoopKeepsPlace ==
    ASSUME SourceTypes, NEW n \in Nat, AtBlock(n), ReadLoopStep
    PROVE  SourceTypes' /\ AtBlock(n)' /\ kind' = kind /\ size' = size
  <1>1. bytesNeeded \in Nat /\ n * bytesNeeded \in Nat
    BY BlockArithmetic
  <1>2. PICK p \in Nat : p = n * bytesNeeded
    BY <1>1
  <1>3. /\ totalRead \in 0 .. bytesNeeded /\ consumed \in Nat
        /\ kind = "fifo" => consumed = p + totalRead
    BY <1>2 DEF SourceTypes, AtBlock
  <1>4. CASE OpenFifo
    BY <1>4, <1>1 DEF OpenFifo, SourceTypes, AtBlock, bytesNeeded
  <1>5. CASE IdleWait
    BY <1>5, <1>1 DEF IdleWait, SourceTypes, AtBlock, bytesNeeded
  <1>6. CASE ReadSome
    <2>1. PICK res \in 1 .. bytesNeeded - totalRead :
             totalRead' = totalRead + res /\ consumed' = consumed + res
      BY <1>6 DEF ReadSome
    <2>2. kind = "fifo" /\ UNCHANGED <<kind, size, m_currentBlockIndex>>
      BY <1>6 DEF ReadSome, InReadLoop
    <2>3. /\ totalRead' \in 0 .. bytesNeeded /\ consumed' \in Nat
          /\ consumed' = p + totalRead'
      BY <2>1, <2>2, <1>1, <1>3
    <2> QED
      BY <2>2, <2>3, <1>2 DEF SourceTypes, AtBlock, bytesNeeded
  <1> QED
    BY <1>4, <1>5, <1>6 DEF ReadLoopStep

\* A delivered block holds the samples of its own place, and the source stands
\* at the next one.
LEMMA DeliveredInPlace ==
    ASSUME SourceTypes, NEW n \in Nat, AtBlock(n), Delivers
    PROVE  /\ SourceTypes' /\ AtBlock(n + 1)'
           /\ kind' = kind /\ size' = size
           /\ Placed([index |-> n, start |-> BlockStart])
           /\ BlockStart \in Nat
  <1>1. /\ bytesNeeded \in Nat /\ SamplesPerBlock \in Nat
        /\ n * bytesNeeded \in Nat /\ n * SamplesPerBlock \in Nat
        /\ (n + 1) * bytesNeeded = n * bytesNeeded + bytesNeeded
        /\ (n + 1) * SamplesPerBlock = n * SamplesPerBlock + SamplesPerBlock
        /\ (n * bytesNeeded) \div 2 = n * SamplesPerBlock
    BY BlockArithmetic, SourceAssumption
  <1>2. PICK p \in Nat : p = n * bytesNeeded
    BY <1>1
  <1>3. PICK q \in Nat : q = n * SamplesPerBlock
    BY <1>1
  <1>4. PICK b \in Nat : b = bytesNeeded
    BY <1>1
  <1>5. CASE FileDelivers
    <2>1. kind # "fifo" /\ m_currentBlockIndex = n /\ UNCHANGED <<kind, size, totalRead>>
      BY <1>5 DEF FileDelivers, AtBlock
    <2>2. q + SamplesPerBlock <= m_totalSamples
      BY <1>5, <1>1, <1>3, <2>1 DEF FileDelivers, HasWholeBlock
    <2>3. BlockStart = q
      <3>1. CASE kind = "bin"
        BY <3>1, <1>1, <1>3 DEF AtBlock, BlockStart, FileBlockStart
      <3>2. CASE kind # "bin"
        BY <3>2, <2>1, <1>3 DEF BlockStart, FileBlockStart
      <3> QED
        BY <3>1, <3>2
    <2>4. /\ consumed' \in Nat
          /\ kind = "bin" => consumed' = p + b
      BY <1>5, <1>2, <1>4 DEF FileDelivers, SourceTypes, AtBlock
    <2>5. SourceTypes' /\ AtBlock(n + 1)'
      BY <1>5, <2>1, <2>4, <1>1, <1>2, <1>4 DEF FileDelivers, SourceTypes, AtBlock, bytesNeeded
    <2> QED
      BY <2>1, <2>2, <2>3, <2>5, <1>3 DEF Placed
  <1>6. CASE FifoDelivers
    <2>1. /\ kind = "fifo" /\ m_currentBlockIndex = n /\ UNCHANGED <<kind, size, consumed>>
          /\ consumed = p + b /\ totalRead' = 0
      BY <1>6, <1>2, <1>4 DEF FifoDelivers, AtBlock
    <2>2. consumed - b = p
      BY <2>1
    <2>3. BlockStart = q
      BY <2>1, <2>2, <1>1, <1>2, <1>3, <1>4 DEF BlockStart, FifoBlockStart
    <2>4. SourceTypes' /\ AtBlock(n + 1)'
      BY <1>6, <2>1, <1>1, <1>2, <1>4 DEF FifoDelivers, SourceTypes, AtBlock, bytesNeeded
    <2> QED
      BY <2>1, <2>3, <2>4, <1>3 DEF Placed
  <1> QED
    BY <1>5, <1>6 DEF Delivers

\* A call that fails keeps the kind and the size of the source.
LEMMA FailedReadTypes ==
    ASSUME SourceTypes, GivesUp
    PROVE  SourceTypes' /\ kind' = kind /\ size' = size
  <1>1. bytesNeeded \in Nat \ {0}
    BY BlockArithmetic
  <1>2. CASE FileGivesUp
    <2>1. consumed' \in Nat /\ UNCHANGED <<kind, size, m_currentBlockIndex, totalRead>>
      BY <1>2, <1>1 DEF FileGivesUp, SourceTypes, sourceVars
    <2> QED
      BY <2>1 DEF SourceTypes, bytesNeeded
  <1>3. CASE FifoGivesUp
    BY <1>3, <1>1 DEF FifoGivesUp, SourceTypes, bytesNeeded
  <1> QED
    BY <1>2, <1>3 DEF GivesUp

-----------------------------------------------------------------------------
(* Types *)

LEMMA PipelineTypesInit == Init => PipelineTypes
  <1>1. 0 \in 0 .. bytesNeeded /\ 0 \in 0 .. RecycleCapacity /\ 0 <= BlockCapacity
    BY BlockArithmetic, PipelineAssumption
  <1>2. Init => SourceTypes
    BY <1>1, SourceAssumption DEF Init, SourceInit, SourceTypes
  <1>3. <<>> \in Seq(Block) /\ Len(<<>>) = 0 /\ NoBlock \in Block
    BY DEF Block, NoBlock
  <1>4. Init => /\ blockQueue \in Seq(Block) /\ Len(blockQueue) <= BlockCapacity
                /\ block \in Block
    BY <1>1, <1>3 DEF Init
  <1>5. Init => /\ recycled \in 0 .. RecycleCapacity
                /\ blockIdx \in Nat /\ start \in Nat /\ processed \in Nat
    BY <1>1 DEF Init
  <1>6. Init => /\ finished \in BOOLEAN /\ holdsBuffer \in BOOLEAN /\ failed \in BOOLEAN
                /\ producerPc = "recycle" /\ mainPc = "pop"
    BY DEF Init
  <1> QED
    BY <1>2, <1>4, <1>5, <1>6 DEF PipelineTypes

LEMMA PipelineTypesStep ==
    PipelineTypes /\ StreamInv /\ [Next]_pipelineVars => PipelineTypes'
  <1> SUFFICES ASSUME PipelineTypes, StreamInv, [Next]_pipelineVars
               PROVE  PipelineTypes'
    OBVIOUS
  <1> USE PipelineAssumption DEF PipelineTypes
  <1>0. ASSUME UNCHANGED sourceVars PROVE SourceTypes'
    BY <1>0 DEF sourceVars, SourceTypes, bytesNeeded
  <1>1. CASE TryPopRecycled
    <2>1. recycled' \in 0 .. RecycleCapacity
      BY <1>1 DEF TryPopRecycled
    <2> QED
      BY <1>0, <1>1, <2>1 DEF TryPopRecycled, mainVars
  <1>2. CASE ReadOn
    <2>1. AtBlock(blockIdx)
      BY <1>2 DEF ReadOn, StreamInv, SourceInStep, InLoop, BlocksRead
    <2>2. SourceTypes'
      BY <1>2, <2>1, ReadLoopKeepsPlace DEF ReadOn
    <2> QED
      BY <1>2, <2>2 DEF ReadOn, mainVars
  <1>3. CASE ReadBlock
    <2>1. AtBlock(blockIdx)
      BY <1>3 DEF ReadBlock, StreamInv, SourceInStep, InLoop, BlocksRead
    <2>2. SourceTypes' /\ BlockStart \in Nat
      BY <1>3, <2>1, DeliveredInPlace DEF ReadBlock
    <2> QED
      BY <1>3, <2>2 DEF ReadBlock, mainVars
  <1>4. CASE SourceEnds
    <2>1. SourceTypes'
      BY <1>4, FailedReadTypes DEF SourceEnds
    <2> QED
      BY <1>4, <2>1 DEF SourceEnds, LeaveLoop, mainVars
  <1>5. CASE SourceThrows
    BY <1>0, <1>5 DEF SourceThrows, LeaveLoop, mainVars
  <1>6. CASE PushBlock
    <2>1. /\ blockQueue' = Append(blockQueue, [index |-> blockIdx, start |-> start])
          /\ [index |-> blockIdx, start |-> start] \in Block
          /\ Len(blockQueue) < BlockCapacity
      BY <1>6 DEF PushBlock, Block
    <2>2. blockQueue' \in Seq(Block) /\ Len(blockQueue') <= BlockCapacity
      BY <2>1, AppendProperties
    <2>3. blockIdx' \in Nat /\ producerPc' = "recycle" /\ holdsBuffer' = FALSE
      BY <1>6 DEF PushBlock
    <2>4. UNCHANGED <<sourceVars, start, finished, recycled, mainPc, block, processed, failed>>
      BY <1>6 DEF PushBlock, mainVars
    <2> QED
      BY <1>0, <2>2, <2>3, <2>4
  <1>7. CASE PushRejected
    BY <1>0, <1>7 DEF PushRejected, LeaveLoop, mainVars
  <1>8. CASE ProducerFinishes
    BY <1>0, <1>8 DEF ProducerFinishes, mainVars
  <1>9. CASE PopBlock
    <2>1. /\ blockQueue # <<>>
          /\ block' = Head(blockQueue) /\ blockQueue' = Tail(blockQueue)
      BY <1>9 DEF PopBlock
    <2>2. block' \in Block /\ blockQueue' \in Seq(Block) /\ Len(blockQueue') <= BlockCapacity
      BY <2>1, HeadTailProperties
    <2> QED
      BY <1>0, <1>9, <2>2 DEF PopBlock, producerVars
  <1>10. CASE ProcessBlock
    BY <1>0, <1>10 DEF ProcessBlock, producerVars
  <1>11. CASE Recycle
    <2>1. recycled' \in 0 .. RecycleCapacity
      BY <1>11 DEF Recycle
    <2> QED
      BY <1>0, <1>11, <2>1 DEF Recycle, producerVars
  <1>12. CASE ProcessBlockThrows
    BY <1>0, <1>12 DEF ProcessBlockThrows, producerVars
  <1>13. CASE PopRejected
    BY <1>0, <1>13 DEF PopRejected, producerVars
  <1>14. CASE JoinProducer
    BY <1>0, <1>14 DEF JoinProducer, producerVars
  <1>15. CASE UNCHANGED pipelineVars
    BY <1>0, <1>15 DEF pipelineVars
  <1> QED
    BY <1>1, <1>2, <1>3, <1>4, <1>5, <1>6, <1>7, <1>8, <1>9, <1>10, <1>11, <1>12,
       <1>13, <1>14, <1>15
    DEF Next, ProducerStep, MainStep, Terminated

-----------------------------------------------------------------------------
(* Buffers *)

\* What each thread has in its hands
WithProducer == IF holdsBuffer THEN 1 ELSE 0
WithMain == IF mainPc \in {"process", "recycle"} \/ failed THEN 1 ELSE 0

LEMMA BufferInvInit == Init => BufferInv
  <1> SUFFICES ASSUME Init PROVE BufferInv
    OBVIOUS
  <1>1. /\ allocated = 0 /\ recycled = 0 /\ Len(blockQueue) = 0
        /\ ~holdsBuffer /\ ~failed /\ mainPc = "pop" /\ producerPc = "recycle"
    BY DEF Init
  <1> QED
    BY <1>1, PipelineAssumption DEF BufferInv, BuffersAreBounded

LEMMA BufferInvStep ==
    PipelineTypes /\ NothingSkipped /\ BufferInv /\ [Next]_pipelineVars => BufferInv'
  <1> SUFFICES ASSUME PipelineTypes, NothingSkipped, BufferInv, [Next]_pipelineVars
               PROVE  BufferInv'
    OBVIOUS
  <1> USE PipelineAssumption
  <1>0. /\ BlockCapacity \in Nat /\ allocated \in Nat /\ recycled \in Nat
        /\ Len(blockQueue) \in Nat /\ Len(blockQueue) <= BlockCapacity
        /\ allocated = recycled + Len(blockQueue) + WithProducer + WithMain
        /\ allocated <= BlockCapacity + 2
        /\ failed => mainPc \in {"join", "exited"}
        /\ holdsBuffer => producerPc \in {"read", "push"}
        /\ producerPc = "push" => holdsBuffer
        /\ producerPc = "read" /\ ~holdsBuffer => allocated <= BlockCapacity + 1
        /\ blockQueue \in Seq(Block)
    BY DEF PipelineTypes, NothingSkipped, BufferInv, BuffersAreBounded, WithProducer, WithMain
  <1> SUFFICES /\ allocated' \in Nat
               /\ allocated' = recycled' + Len(blockQueue)' + WithProducer' + WithMain'
               /\ allocated' <= BlockCapacity + 2
               /\ holdsBuffer' => producerPc' \in {"read", "push"}
               /\ producerPc' = "push" => holdsBuffer'
               /\ producerPc' = "read" /\ ~holdsBuffer' => allocated' <= BlockCapacity + 1
    BY DEF BufferInv, BuffersAreBounded, WithProducer, WithMain
  <1>1. CASE TryPopRecycled
    <2>1. producerPc = "recycle" /\ producerPc' = "read" /\ ~holdsBuffer
      BY <1>0, <1>1 DEF TryPopRecycled
    <2>2. UNCHANGED <<blockQueue, allocated, WithMain>>
      BY <1>1 DEF TryPopRecycled, mainVars, WithMain
    <2>3. /\ holdsBuffer' <=> recycled > 0
          /\ recycled' = IF recycled > 0 THEN recycled - 1 ELSE recycled
      BY <1>1, Zenon DEF TryPopRecycled
    <2>4. CASE recycled > 0
      BY <1>0, <2>1, <2>2, <2>3, <2>4 DEF WithProducer
    <2>5. CASE recycled = 0
      BY <1>0, <2>1, <2>2, <2>3, <2>5 DEF WithProducer, WithMain
    <2> QED
      BY <1>0, <2>4, <2>5
  <1>2. CASE ReadOn
    BY <1>0, <1>2 DEF ReadOn, mainVars, WithProducer, WithMain
  <1>3. CASE ReadBlock
    BY <1>0, <1>3 DEF ReadBlock, mainVars, WithProducer, WithMain
  <1>4. CASE SourceEnds \/ SourceThrows \/ PushRejected
    BY <1>0, <1>4 DEF SourceEnds, SourceThrows, PushRejected, LeaveLoop, mainVars,
                      WithProducer, WithMain
  <1>5. CASE PushBlock
    <2>1. Len(blockQueue') = Len(blockQueue) + 1
      BY <1>0, <1>5 DEF PushBlock
    <2> QED
      BY <1>0, <1>5, <2>1 DEF PushBlock, mainVars, WithProducer, WithMain
  <1>6. CASE ProducerFinishes
    BY <1>0, <1>6 DEF ProducerFinishes, mainVars, WithProducer, WithMain
  <1>7. CASE PopBlock
    <2>1. Len(blockQueue') = Len(blockQueue) - 1
      BY <1>0, <1>7, HeadTailProperties DEF PopBlock
    <2> QED
      BY <1>0, <1>7, <2>1 DEF PopBlock, producerVars, WithProducer, WithMain
  <1>8. CASE ProcessBlock
    BY <1>0, <1>8 DEF ProcessBlock, producerVars, WithProducer, WithMain
  <1>9. CASE Recycle
    BY <1>0, <1>9 DEF Recycle, producerVars, WithProducer, WithMain
  <1>10. CASE ProcessBlockThrows
    BY <1>0, <1>10 DEF ProcessBlockThrows, producerVars, WithProducer, WithMain
  <1>11. CASE PopRejected
    BY <1>0, <1>11 DEF PopRejected, producerVars, WithProducer, WithMain
  <1>12. CASE JoinProducer
    BY <1>0, <1>12 DEF JoinProducer, producerVars, WithProducer, WithMain
  <1>13. CASE UNCHANGED pipelineVars
    BY <1>0, <1>13 DEF pipelineVars, WithProducer, WithMain
  <1> QED
    BY <1>1, <1>2, <1>3, <1>4, <1>5, <1>6, <1>7, <1>8, <1>9, <1>10, <1>11, <1>12, <1>13
    DEF Next, ProducerStep, MainStep, Terminated

-----------------------------------------------------------------------------
(* The stream *)

LEMMA PushInPlace ==
    ASSUME NEW q \in Seq(Block), NEW b \in Block, QueueInPlace(q, b.index), Placed(b)
    PROVE  QueueInPlace(Append(q, b), b.index + 1)
  <1>1. /\ Len(Append(q, b)) = Len(q) + 1 /\ Len(q) \in Nat
        /\ \A i \in 1 .. Len(q) : Append(q, b)[i] = q[i]
        /\ Append(q, b)[Len(q) + 1] = b
    BY AppendProperties
  <1>2. b.index \in Nat
    BY DEF Block
  <1> SUFFICES ASSUME NEW i \in 1 .. Len(q) + 1
               PROVE  /\ Placed(Append(q, b)[i])
                      /\ Append(q, b)[i].index = (b.index + 1) - (Len(q) + 1) + i - 1
    BY <1>1 DEF QueueInPlace
  <1>3. CASE i \in 1 .. Len(q)
    <2>1. Append(q, b)[i] = q[i] /\ Placed(q[i]) /\ q[i].index = b.index - Len(q) + i - 1
      BY <1>1, <1>3 DEF QueueInPlace
    <2>2. (b.index + 1) - (Len(q) + 1) + i - 1 = b.index - Len(q) + i - 1
      BY <1>1, <1>2, SMTT(30)
    <2> QED
      BY <2>1, <2>2
  <1>4. CASE i = Len(q) + 1
    <2>1. (b.index + 1) - (Len(q) + 1) + i - 1 = b.index
      BY <1>1, <1>2, <1>4
    <2> QED
      BY <1>1, <1>4, <2>1
  <1> QED
    BY <1>1, <1>3, <1>4

LEMMA PopInPlace ==
    ASSUME NEW q \in Seq(Block), q # <<>>, NEW n \in Nat, QueueInPlace(q, n)
    PROVE  /\ QueueInPlace(Tail(q), n)
           /\ Placed(Head(q)) /\ Head(q).index = n - Len(q)
  <1>1. /\ Len(Tail(q)) = Len(q) - 1 /\ Len(q) \in Nat \ {0}
        /\ \A i \in 1 .. Len(Tail(q)) : Tail(q)[i] = q[i + 1]
        /\ Head(q) = q[1]
    BY HeadTailProperties, EmptySeq
  <1>2. Placed(Head(q)) /\ Head(q).index = n - Len(q)
    <2>1. Placed(q[1]) /\ q[1].index = n - Len(q) + 1 - 1
      BY <1>1 DEF QueueInPlace
    <2> QED
      BY <1>1, <2>1
  <1>3. ASSUME NEW i \in 1 .. Len(Tail(q))
        PROVE  Placed(Tail(q)[i]) /\ Tail(q)[i].index = n - Len(Tail(q)) + i - 1
    <2>1. i + 1 \in 1 .. Len(q) /\ Tail(q)[i] = q[i + 1]
      BY <1>1
    <2>2. Placed(q[i + 1]) /\ q[i + 1].index = n - Len(q) + (i + 1) - 1
      BY <2>1 DEF QueueInPlace
    <2>3. n - Len(q) + (i + 1) - 1 = n - Len(Tail(q)) + i - 1
      BY <1>1
    <2> QED
      BY <2>1, <2>2, <2>3
  <1> QED
    BY <1>2, <1>3 DEF QueueInPlace

LEMMA StreamInvInit == Init => StreamInv
  <1> SUFFICES ASSUME Init PROVE StreamInv
    OBVIOUS
  <1>1. /\ blockIdx = 0 /\ blockQueue = <<>> /\ Len(blockQueue) = 0 /\ processed = 0
        /\ producerPc = "recycle" /\ mainPc = "pop" /\ ~failed
        /\ m_currentBlockIndex = 0 /\ consumed = 0 /\ totalRead = 0
    BY DEF Init, SourceInit
  <1>2. 0 * bytesNeeded = 0
    BY BlockArithmetic
  <1> QED
    BY <1>1, <1>2 DEF StreamInv, SourceInStep, AtBlock, BlocksRead, BlocksInPlace,
                      QueueInPlace, NothingSkipped, InHand

\* Steps that leave the source alone leave it, and every block, in place.
LEMMA SourceAtRest ==
    ASSUME UNCHANGED sourceVars
    PROVE  /\ \A n : AtBlock(n) => AtBlock(n)'
           /\ UNCHANGED <<kind, size>>
  BY DEF sourceVars, AtBlock, bytesNeeded

\* The place of a block depends on the kind and the size of the source only.
LEMMA PlacesKept ==
    ASSUME UNCHANGED <<kind, size>>
    PROVE  /\ UNCHANGED <<blockQueue, blockIdx>> /\ QueueInPlace(blockQueue, blockIdx)
                => QueueInPlace(blockQueue, blockIdx)'
           /\ UNCHANGED block /\ Placed(block) => Placed(block)'
  BY DEF QueueInPlace, Placed, m_totalSamples

LEMMA StreamInvStep ==
    PipelineTypes /\ StreamInv /\ [Next]_pipelineVars => StreamInv'
  <1> SUFFICES ASSUME PipelineTypes, StreamInv, [Next]_pipelineVars
               PROVE  StreamInv'
    OBVIOUS
  <1>0. /\ blockIdx \in Nat /\ start \in Nat /\ processed \in Nat
        /\ blockQueue \in Seq(Block) /\ block \in Block /\ SourceTypes
        /\ Len(blockQueue) \in Nat
        /\ InLoop => AtBlock(BlocksRead)
        /\ QueueInPlace(blockQueue, blockIdx)
        /\ producerPc = "push" => Placed([index |-> blockIdx, start |-> start])
        /\ mainPc = "process" => Placed(block) /\ block.index = processed
        /\ NothingSkipped
    BY DEF PipelineTypes, StreamInv, SourceInStep, BlocksInPlace
  \* Producer: the main thread's part of the invariant needs no new argument.
  <1>1. ASSUME UNCHANGED <<kind, size, blockIdx, blockQueue, mainVars>>,
               finished => finished',
               SourceInStep',
               producerPc' = "push" => Placed([index |-> blockIdx, start |-> start])'
        PROVE  StreamInv'
    <2>1. QueueInPlace(blockQueue, blockIdx)'
      BY <1>0, <1>1, PlacesKept
    <2>2. mainPc' = "process" => Placed(block)' /\ block'.index = processed'
      BY <1>0, <1>1, PlacesKept DEF mainVars
    <2>3. NothingSkipped'
      BY <1>0, <1>1 DEF NothingSkipped, InHand, mainVars
    <2> QED
      BY <1>1, <2>1, <2>2, <2>3 DEF StreamInv, BlocksInPlace
  <1>2. CASE TryPopRecycled
    <2>1. SourceInStep'
      BY <1>0, <1>2, SourceAtRest DEF TryPopRecycled, SourceInStep, InLoop, BlocksRead
    <2> QED
      BY <1>1, <1>2, <2>1, SourceAtRest DEF TryPopRecycled
  <1>3. CASE ReadOn
    <2>1. AtBlock(blockIdx)
      BY <1>0, <1>3 DEF ReadOn, InLoop, BlocksRead
    <2>2. AtBlock(blockIdx)' /\ UNCHANGED <<kind, size>>
      BY <1>0, <1>3, <2>1, ReadLoopKeepsPlace DEF ReadOn, AtBlock
    <2>3. SourceInStep'
      BY <1>3, <2>2 DEF ReadOn, SourceInStep, InLoop, BlocksRead
    <2> QED
      BY <1>1, <1>3, <2>2, <2>3 DEF ReadOn
  <1>4. CASE ReadBlock
    <2>1. AtBlock(blockIdx)
      BY <1>0, <1>4 DEF ReadBlock, InLoop, BlocksRead
    <2>2. /\ AtBlock(blockIdx + 1)' /\ UNCHANGED <<kind, size>>
          /\ Placed([index |-> blockIdx, start |-> BlockStart])
      BY <1>0, <1>4, <2>1, DeliveredInPlace DEF ReadBlock, AtBlock
    <2>3. start' = BlockStart /\ blockIdx' = blockIdx /\ producerPc' = "push"
      BY <1>4 DEF ReadBlock
    <2>4. SourceInStep'
      BY <2>2, <2>3 DEF SourceInStep, BlocksRead, AtBlock
    <2>5. Placed([index |-> blockIdx, start |-> start])'
      BY <2>2, <2>3 DEF Placed, m_totalSamples
    <2> QED
      BY <1>1, <1>4, <2>2, <2>4, <2>5 DEF ReadBlock
  <1>5. CASE SourceEnds \/ SourceThrows \/ PushRejected
    <2>1. UNCHANGED <<kind, size>>
      BY <1>0, <1>5, FailedReadTypes, SourceAtRest DEF SourceEnds, SourceThrows, PushRejected
    <2>2. SourceInStep' /\ producerPc' = "finish"
      BY <1>5 DEF SourceEnds, SourceThrows, PushRejected, LeaveLoop, SourceInStep, InLoop
    <2> QED
      BY <1>1, <1>5, <2>1, <2>2 DEF SourceEnds, SourceThrows, PushRejected
  <1>6. CASE PushBlock
    <2> DEFINE b == [index |-> blockIdx, start |-> start]
    <2>1. b \in Block /\ b.index = blockIdx /\ Placed(b)
      BY <1>0, <1>6 DEF PushBlock, Block
    <2>2. /\ blockQueue' = Append(blockQueue, b) /\ blockIdx' = blockIdx + 1
          /\ producerPc = "push" /\ producerPc' = "recycle"
          /\ ~finished /\ finished' = finished
          /\ UNCHANGED <<sourceVars, mainPc, block, processed, failed>>
      BY <1>6 DEF PushBlock, mainVars
    <2> HIDE DEF b
    <2>3. Len(blockQueue') = Len(blockQueue) + 1
      BY <1>0, <2>1, <2>2, AppendProperties
    <2>4. QueueInPlace(blockQueue', blockIdx + 1)
      BY <1>0, <2>1, <2>2, PushInPlace
    <2>5. UNCHANGED <<kind, size>>
      BY <2>2, SourceAtRest
    <2>6. QueueInPlace(blockQueue, blockIdx)'
      BY <2>2, <2>4, <2>5 DEF QueueInPlace, Placed, m_totalSamples
    <2>7. SourceInStep'
      <3>1. AtBlock(blockIdx + 1)
        BY <1>0, <2>2 DEF InLoop, BlocksRead
      <3> QED
        BY <2>2, <3>1, SourceAtRest DEF SourceInStep, BlocksRead
    <2>8. mainPc' = "process" => Placed(block)' /\ block'.index = processed'
      BY <1>0, <2>2, <2>5, PlacesKept
    <2>9. NothingSkipped'
      <3>1. InHand \in Nat /\ InHand' = InHand
        BY <2>2 DEF InHand
      <3>2. /\ ~failed => processed + InHand + Len(blockQueue) = blockIdx
            /\ failed => mainPc \in {"join", "exited"}
            /\ ~(mainPc \in {"join", "exited"} /\ ~failed)
        BY <1>0, <2>2 DEF NothingSkipped
      <3>3. ~failed => processed + InHand + Len(blockQueue') = blockIdx + 1
        BY <1>0, <2>3, <3>1, <3>2
      <3> QED
        BY <2>2, <3>1, <3>2, <3>3 DEF NothingSkipped
    <2> QED
      BY <2>2, <2>6, <2>7, <2>8, <2>9 DEF StreamInv, BlocksInPlace
  <1>7. CASE ProducerFinishes
    <2>1. SourceInStep' /\ producerPc' = "exited"
      BY <1>7 DEF ProducerFinishes, SourceInStep, InLoop
    <2> QED
      BY <1>1, <1>7, <2>1, SourceAtRest DEF ProducerFinishes
  \* Main thread: the producer's part needs no new argument.
  <1>8. ASSUME UNCHANGED producerVars,
               QueueInPlace(blockQueue, blockIdx)',
               mainPc' = "process" => Placed(block)' /\ block'.index = processed',
               NothingSkipped'
        PROVE  StreamInv'
    <2>1. SourceInStep'
      BY <1>0, <1>8, SourceAtRest DEF producerVars, SourceInStep, InLoop, BlocksRead
    <2>2. producerPc' = "push" => Placed([index |-> blockIdx, start |-> start])'
      BY <1>0, <1>8, SourceAtRest DEF producerVars, Placed, m_totalSamples
    <2> QED
      BY <1>8, <2>1, <2>2 DEF StreamInv, BlocksInPlace
  <1>9. CASE PopBlock
    <2>1. /\ mainPc = "pop" /\ mainPc' = "process" /\ blockQueue # <<>>
          /\ block' = Head(blockQueue) /\ blockQueue' = Tail(blockQueue)
          /\ UNCHANGED <<finished, producerVars, blockIdx, processed, failed, kind, size>>
      BY <1>9, SourceAtRest DEF PopBlock, producerVars
    <2>2. /\ QueueInPlace(blockQueue', blockIdx) /\ Len(blockQueue') = Len(blockQueue) - 1
          /\ Placed(block') /\ block'.index = blockIdx - Len(blockQueue)
      BY <1>0, <2>1, PopInPlace, HeadTailProperties
    <2>3. QueueInPlace(blockQueue, blockIdx)'
      BY <2>1, <2>2 DEF QueueInPlace, Placed, m_totalSamples
    <2>4. ~failed /\ processed + Len(blockQueue) = blockIdx
      BY <1>0, <2>1 DEF NothingSkipped, InHand
    <2>5. Placed(block)' /\ block'.index = processed'
      <3>1. Placed(block)'
        BY <2>1, <2>2 DEF Placed, m_totalSamples
      <3>2. block'.index = processed
        BY <1>0, <2>2, <2>4
      <3> QED
        BY <2>1, <3>1, <3>2
    <2>6. NothingSkipped'
      BY <1>0, <2>1, <2>2, <2>4 DEF NothingSkipped, InHand
    <2> QED
      BY <1>8, <2>1, <2>3, <2>5, <2>6
  <1>10. CASE ProcessBlock \/ Recycle \/ ProcessBlockThrows \/ PopRejected \/ JoinProducer
    <2>1. UNCHANGED <<producerVars, blockQueue, blockIdx, kind, size>> /\ mainPc' # "process"
      BY <1>10, SourceAtRest
      DEF ProcessBlock, Recycle, ProcessBlockThrows, PopRejected, JoinProducer, producerVars
    <2>2. QueueInPlace(blockQueue, blockIdx)'
      BY <1>0, <2>1, PlacesKept
    <2>3. NothingSkipped'
      <3>1. CASE ProcessBlock
        BY <1>0, <2>1, <3>1 DEF ProcessBlock, NothingSkipped, InHand
      <3>2. CASE Recycle
        BY <1>0, <2>1, <3>2 DEF Recycle, NothingSkipped, InHand
      <3>3. CASE ProcessBlockThrows
        BY <1>0, <2>1, <3>3 DEF ProcessBlockThrows, NothingSkipped, InHand
      <3>4. CASE PopRejected
        BY <1>0, <2>1, <3>4 DEF PopRejected, NothingSkipped, InHand
      <3>5. CASE JoinProducer
        BY <1>0, <2>1, <3>5 DEF JoinProducer, NothingSkipped, InHand
      <3> QED
        BY <1>10, <3>1, <3>2, <3>3, <3>4, <3>5
    <2> QED
      BY <1>8, <2>1, <2>2, <2>3
  <1>11. CASE UNCHANGED pipelineVars
    <2>1. UNCHANGED <<producerVars, mainVars, blockQueue, blockIdx, finished, kind, size>>
      BY <1>11 DEF pipelineVars, producerVars, mainVars, sourceVars
    <2>2. NothingSkipped'
      BY <1>0, <2>1 DEF NothingSkipped, InHand, mainVars
    <2> QED
      BY <1>0, <1>8, <2>1, <2>2, PlacesKept DEF mainVars
  <1> QED
    BY <1>2, <1>3, <1>4, <1>5, <1>6, <1>7, <1>9, <1>10, <1>11
    DEF Next, ProducerStep, MainStep, Terminated

-----------------------------------------------------------------------------
(* Results *)

\* In every state, the producer and the main thread agree on the place of every
\* block in the stream and on the number of buffers (Main.cpp and the two
\* sources), and all variables have their types.
THEOREM PipelineInvariant == Spec => []PipelineInv
  <1>1. Init => PipelineInv
    BY PipelineTypesInit, StreamInvInit, BufferInvInit DEF PipelineInv
  <1>2. PipelineInv /\ [Next]_pipelineVars => PipelineInv'
    BY PipelineTypesStep, StreamInvStep, BufferInvStep DEF PipelineInv, StreamInv
  <1> QED
    BY <1>1, <1>2, PTL DEF Spec

\* Block n reaches processBlock as the n-th and holds samples n * SamplesPerBlock
\* and following, whatever the source and however its reads fail; a run whose
\* processBlock did not throw ends only when every block that was read has been
\* processed.
THEOREM BlocksKeepTheirPlace == Spec => []BlocksAreTheStream
  <1>1. ASSUME PipelineInv PROVE BlocksAreTheStream
    <2>1. blockQueue \in Seq(Block) /\ DOMAIN blockQueue = 1 .. Len(blockQueue)
      BY <1>1 DEF PipelineInv, PipelineTypes
    <2>2. processed \in Nat /\ blockIdx \in Nat
      BY <1>1 DEF PipelineInv, PipelineTypes
    <2>3. \A i \in DOMAIN blockQueue :
             /\ Placed(blockQueue[i])
             /\ blockQueue[i].index = blockIdx - Len(blockQueue) + i - 1
      BY <1>1, <2>1 DEF PipelineInv, StreamInv, BlocksInPlace, QueueInPlace
    <2>4. mainPc = "process" => Placed(block) /\ block.index = processed
      BY <1>1 DEF PipelineInv, StreamInv, BlocksInPlace
    <2>5. mainPc # "process" /\ ~failed => processed + Len(blockQueue) = blockIdx
      BY <1>1, <2>1, <2>2 DEF PipelineInv, StreamInv, NothingSkipped, InHand
    <2>6. mainPc \in {"join", "exited"} /\ ~failed => processed = blockIdx
      BY <1>1, <2>2, <2>5 DEF PipelineInv, StreamInv, NothingSkipped
    <2>7. producerPc = "push" => m_currentBlockIndex = blockIdx + 1
      BY <1>1 DEF PipelineInv, StreamInv, SourceInStep, InLoop, BlocksRead, AtBlock
    <2> QED
      BY <2>3, <2>4, <2>5, <2>6, <2>7 DEF BlocksAreTheStream, Placed
  <1> QED
    BY <1>1, PipelineInvariant, PTL

\* A running receiver never owns more sample buffers than blockQueue can hold
\* plus one for each thread, however the threads interleave between tryPop,
\* readBlock and tryPush.
THEOREM BuffersStayBounded == Spec => []BuffersAreBounded
  <1>1. PipelineInv => BuffersAreBounded
    BY DEF PipelineInv, BufferInv
  <1> QED
    BY <1>1, PipelineInvariant, PTL
=============================================================================
