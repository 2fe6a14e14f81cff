------------------------------ MODULE Sources -------------------------------
(***************************************************************************)
(* Input/GPSOpenClFileSource and GPSOpenClGpsSdrSimSource: how readBlock   *)
(* cuts a stream of samples into blocks.  A binary capture is read block   *)
(* by block, a text file is loaded at once, a FIFO is read without         *)
(* blocking, as many bytes as there are, with a limited number of waits.   *)
(*                                                                         *)
(* A sample is two bytes of the stream (or two numbers of the text); what  *)
(* they are does not matter, only which of them a block consists of.  The  *)
(* operators are the effects of one call, or of one turn of its loop;      *)
(* module Pipeline makes the calls.                                        *)
(***************************************************************************)
EXTENDS Naturals

CONSTANTS SamplesPerBlock,
          FileSizes,        \* bytes of a capture, numbers that parse in a text
          MaxIdleWaits      \* waits for the FIFO in one call (50)

ASSUME SourceAssumption ==
    /\ SamplesPerBlock \in Nat \ {0}
    /\ FileSizes \subseteq Nat
    /\ MaxIdleWaits \in Nat \ {0}

VARIABLES kind,                \* "bin", "text" or "fifo"
          size,                \* of the file
          m_currentBlockIndex, \* m_blockIndex in GpsSdrSimSource
          consumed,            \* bytes taken from the capture or the FIFO
          isOpen,              \* m_dataFd >= 0
          totalRead,           \* of the call in progress
          idleWaits

sourceVars == <<kind, size, m_currentBlockIndex, consumed, isOpen, totalRead, idleWaits>>

bytesNeeded == 2 * SamplesPerBlock
m_totalSamples == size \div 2

\* initialize succeeded: a file has at least one sample, while a FIFO need not
\* even be open.
SourceInit ==
    /\ kind \in {"bin", "text", "fifo"}
    /\ size \in FileSizes
    /\ kind # "fifo" => m_totalSamples > 0
    /\ m_currentBlockIndex = 0
    /\ consumed = 0
    /\ isOpen \in IF kind = "fifo" THEN BOOLEAN ELSE {TRUE}
    /\ totalRead = 0
    /\ idleWaits = 0

-----------------------------------------------------------------------------
(* Files *)

HasWholeBlock == (m_currentBlockIndex + 1) * SamplesPerBlock <= m_totalSamples

\* The first sample of the block that is read: a capture goes on where it is,
\* a text is addressed by the block index.
FileBlockStart ==
    IF kind = "bin" THEN consumed \div 2 ELSE m_currentBlockIndex * SamplesPerBlock

FileDelivers ==
    /\ kind # "fifo" /\ HasWholeBlock
    /\ consumed' = IF kind = "bin" THEN consumed + bytesNeeded ELSE consumed
    /\ m_currentBlockIndex' = m_currentBlockIndex + 1
    /\ UNCHANGED <<kind, size, isOpen, totalRead, idleWaits>>

\* The end of the file, or a capture that became shorter than it was.
FileGivesUp ==
    \/ kind # "fifo" /\ ~HasWholeBlock /\ UNCHANGED sourceVars
    \/ /\ kind = "bin" /\ HasWholeBlock
       /\ consumed' \in consumed .. consumed + bytesNeeded - 1
       /\ UNCHANGED <<kind, size, m_currentBlockIndex, isOpen, totalRead, idleWaits>>

-----------------------------------------------------------------------------
(* FIFO *)

OpenFifo ==
    /\ kind = "fifo" /\ ~isOpen
    /\ isOpen' = TRUE
    /\ UNCHANGED <<kind, size, m_currentBlockIndex, consumed, totalRead, idleWaits>>

InReadLoop == kind = "fifo" /\ isOpen /\ totalRead < bytesNeeded /\ idleWaits < MaxIdleWaits

\* read returns some of the bytes that are missing.
ReadSome ==
    /\ InReadLoop
    /\ \E res \in 1 .. bytesNeeded - totalRead :
          totalRead' = totalRead + res /\ consumed' = consumed + res
    /\ UNCHANGED <<kind, size, m_currentBlockIndex, isOpen, idleWaits>>

\* Nobody writes, or there is nothing to read yet.
IdleWait ==
    /\ InReadLoop
    /\ idleWaits' = idleWaits + 1
    /\ UNCHANGED <<kind, size, m_currentBlockIndex, consumed, isOpen, totalRead>>

FifoBlockStart == (consumed - bytesNeeded) \div 2

FifoDelivers ==
    /\ kind = "fifo" /\ totalRead = bytesNeeded
    /\ m_currentBlockIndex' = m_currentBlockIndex + 1
    /\ totalRead' = 0 /\ idleWaits' = 0
    /\ UNCHANGED <<kind, size, consumed, isOpen>>

\* open fails, read fails, or the waits are used up: what was read is dropped.
FifoGivesUp ==
    /\ kind = "fifo" /\ totalRead < bytesNeeded
    /\ totalRead' = 0 /\ idleWaits' = 0
    /\ UNCHANGED <<kind, size, m_currentBlockIndex, consumed, isOpen>>

-----------------------------------------------------------------------------
(* readBlock *)

ReadLoopStep == OpenFifo \/ ReadSome \/ IdleWait
Delivers == FileDelivers \/ FifoDelivers
GivesUp == FileGivesUp \/ FifoGivesUp
BlockStart == IF kind = "fifo" THEN FifoBlockStart ELSE FileBlockStart

=============================================================================
