--------------------------- MODULE SpectrumEngine ---------------------------
(***************************************************************************)
(* Gpu/GPSOpenClSpectrumEngine: what the compute engine remembers between  *)
(* calls.  It keeps the last first operand on the device, recognised by    *)
(* its host address, and the spectra of a search in numbered slots, on the *)
(* device or, after an error, on the host.                                 *)
(*                                                                         *)
(* The operators below are the effects of its calls on that memory; module *)
(* Acquisition makes the calls.  Vectors are opaque: a host vector is its  *)
(* address and its data, a spectrum says which data and which replica it   *)
(* was computed from.  All vectors of a receiver have one length, so a     *)
(* buffer that exists is large enough; only the slot pool grows.  Any      *)
(* OpenCL call may fail.                                                   *)
(***************************************************************************)
EXTENDS Naturals, FiniteSets

CONSTANTS MinimumSlots,   \* granularity of the slot pool (32)
          MaxSlots,       \* bound: slots a search may use
          NoAddress       \* nullptr

ASSUME EngineAssumption == MinimumSlots \in Nat \ {0} /\ MaxSlots \in Nat \ {0}

VARIABLES device,                  \* how many kernels there are: see Devices
          lengthIsPowerOfTwo,      \* of the code period in samples
          batchFits,               \* a whole FFT fits the local memory
          m_batchPathUnavailable,
          residentInput,           \* contents of m_cmBufferA
          m_cachedInput1Ptr,
          strideIsSet,             \* m_slotPoolStrideFloats is the length in use
          slotPool,                \* slots that m_slotPoolBuffer holds, 0: none
          poolContent,             \* contents of the slots in the pool
          m_slotStates,
          m_slotHost,
          clError                  \* history: a call failed during this search

residentVars == <<residentInput, m_cachedInput1Ptr>>
slotVars == <<strideIsSet, slotPool, poolContent, m_slotStates, m_slotHost>>
configVars == <<device, lengthIsPowerOfTwo, batchFits>>
engineVars == <<device, lengthIsPowerOfTwo, batchFits, m_batchPathUnavailable,
                residentInput, m_cachedInput1Ptr, strideIsSet, slotPool,
                poolContent, m_slotStates, m_slotHost, clError>>

SlotIds == 0 .. MaxSlots - 1
Unallocated == "unallocated"
Garbage == "garbage"

SpectrumOf(data, replica) == [data |-> data, replica |-> replica]
NoSpectrum == SpectrumOf(Garbage, 0)

\* Kernels are created in order and creation stops at the first failure: none of
\* use (or no device at all), no Absolute, no ComplexMultiplierBatch, all six.
Devices == {"none", "noAbsolute", "noBatch", "full"}

\* The constructor
EngineInit ==
    /\ device \in Devices
    /\ lengthIsPowerOfTwo \in BOOLEAN
    /\ batchFits \in BOOLEAN
    /\ m_batchPathUnavailable = FALSE
    /\ residentInput = Unallocated
    /\ m_cachedInput1Ptr = NoAddress
    /\ strideIsSet = FALSE
    /\ slotPool = 0
    /\ poolContent = [s \in SlotIds |-> NoSpectrum]
    /\ m_slotStates = [s \in SlotIds |-> "SlotInvalid"]
    /\ m_slotHost = [s \in SlotIds |-> NoSpectrum]
    /\ clError = FALSE

-----------------------------------------------------------------------------
(* The resident first operand *)

\* Mutant: the cache survives into the next search
MutKeepsResidentInput == UNCHANGED m_cachedInput1Ptr

InvalidateResidentInput == m_cachedInput1Ptr' = NoAddress

IsResident(x) == residentInput # Unallocated /\ m_cachedInput1Ptr = x.address

\* ensureResidentInput1 returns the buffer, after an upload if need be.
EnsureResidentInput1(x) ==
    /\ residentInput' = IF IsResident(x) THEN residentInput ELSE x.data
    /\ m_cachedInput1Ptr' = x.address

\* It returns nullptr: no memory, or the upload failed.
ResidentInput1Fails(x) ==
    \/ residentInput = Unallocated /\ UNCHANGED residentVars
    \/ /\ ~IsResident(x)
       /\ residentInput' = Garbage
       /\ m_cachedInput1Ptr' = NoAddress

\* complexMultiplier on the way to the host: its device half overwrites the
\* resident operand and forgets it, unless a buffer is missing.
MultiplierTouchesInput(x) ==
    \/ device = "none" /\ UNCHANGED residentVars
    \/ /\ device # "none"
       /\ residentInput' \in {x.data, Garbage}
       /\ m_cachedInput1Ptr' = NoAddress
    \/ /\ device # "none"
       /\ \/ UNCHANGED residentInput
          \/ residentInput = Unallocated /\ residentInput' = Garbage
       /\ UNCHANGED m_cachedInput1Ptr

-----------------------------------------------------------------------------
(* The slots *)

\* Mutant: as many slots as are used, so that every slot grows the pool
MutNoGranularity(s) == s + 1

NeededSlots(s) == ((s \div MinimumSlots) + 1) * MinimumSlots

AllInvalid == [s \in SlotIds |-> "SlotInvalid"]

\* ensureSlotPool: the first use and every growth invalidate all slots, on the
\* device and on the host.  Result: [pool, content, states].
PoolBefore(states) ==
    [pool |-> slotPool, content |-> poolContent,
     states |-> IF strideIsSet THEN states ELSE AllInvalid]

GrownPool(s, before) ==
    IF before.pool >= NeededSlots(s) THEN before
    ELSE [pool |-> NeededSlots(s), content |-> [i \in SlotIds |-> NoSpectrum],
          states |-> AllInvalid]

\* The old pool is gone and the new one could not be had: the states stay.
LostPool(before) ==
    [before EXCEPT !.pool = 0, !.content = [i \in SlotIds |-> NoSpectrum]]

SetSlots(after) ==
    /\ strideIsSet' = TRUE
    /\ slotPool' = after.pool
    /\ poolContent' = after.content
    /\ m_slotStates' = after.states

\* complexMultiplyThenFftToSlot starts by invalidating its slot.
Freed(s) == [m_slotStates EXCEPT ![s] = "SlotInvalid"]

FillSlotOnDevice(x, s) ==
    /\ device # "none" /\ lengthIsPowerOfTwo
    /\ EnsureResidentInput1(x)
    /\ LET pool == GrownPool(s, PoolBefore(Freed(s)))
       IN  SetSlots([pool EXCEPT
                       !.content[s] = SpectrumOf(residentInput', s),
                       !.states[s] = "SlotDevice"])
    /\ UNCHANGED <<configVars, m_batchPathUnavailable, m_slotHost, clError>>

\* The device part fails: before the pool is touched, in ensureSlotPool, or in
\* the copy that follows it.
FillSlotOnDeviceFails(x, s) ==
    /\ device # "none"
    /\ clError' = (clError \/ lengthIsPowerOfTwo)
    /\ \/ /\ ResidentInput1Fails(x) \/ EnsureResidentInput1(x)
          /\ m_slotStates' = Freed(s)
          /\ UNCHANGED <<strideIsSet, slotPool, poolContent>>
       \/ /\ lengthIsPowerOfTwo
          /\ slotPool < NeededSlots(s)
          /\ EnsureResidentInput1(x)
          /\ SetSlots(LostPool(PoolBefore(Freed(s))))
       \/ /\ lengthIsPowerOfTwo
          /\ EnsureResidentInput1(x)
          /\ SetSlots(GrownPool(s, PoolBefore(Freed(s))))
    /\ UNCHANGED <<configVars, m_batchPathUnavailable, m_slotHost>>

\* The host part: a length that is no power of two has no transform at all.
FillSlotOnHost(x, s) ==
    /\ lengthIsPowerOfTwo
    /\ MultiplierTouchesInput(x)
    /\ m_slotHost' = [m_slotHost EXCEPT ![s] = SpectrumOf(x.data, s)]
    /\ m_slotStates' = [m_slotStates EXCEPT ![s] = "SlotHost"]
    /\ UNCHANGED <<configVars, m_batchPathUnavailable, strideIsSet, slotPool,
                   poolContent, clError>>

FillSlotFails(x, s) ==
    /\ ~lengthIsPowerOfTwo
    /\ MultiplierTouchesInput(x)
    /\ m_slotHost' = [m_slotHost EXCEPT ![s] = NoSpectrum]
    /\ m_slotStates' = Freed(s)
    /\ UNCHANGED <<configVars, m_batchPathUnavailable, strideIsSet, slotPool,
                   poolContent, clError>>

-----------------------------------------------------------------------------
(* Using a slot; a correlation is the spectrum and the operand it came from *)

PoolSlot(s) == IF slotPool = 0 THEN NoSpectrum ELSE poolContent[s]

UseSlotOnDevice(x, s) ==
    /\ m_slotStates[s] = "SlotDevice"
    /\ device \in {"noBatch", "full"}
    /\ EnsureResidentInput1(x)
    /\ UNCHANGED <<configVars, m_batchPathUnavailable, slotVars, clError>>

\* complexMultiplyResidentThenFftThenAbsolute gives up.
UseSlotFails(x, s) ==
    /\ \/ m_slotStates[s] = "SlotInvalid" /\ UNCHANGED <<residentVars, clError>>
       \/ /\ m_slotStates[s] = "SlotDevice"
          /\ ResidentInput1Fails(x) \/ EnsureResidentInput1(x)
          /\ clError' = TRUE
    /\ UNCHANGED <<configVars, m_batchPathUnavailable, slotVars>>

\* On the host the transform falls back until it succeeds.
UseSlotOnHost(s) ==
    /\ m_slotStates[s] = "SlotHost"
    /\ UNCHANGED engineVars

\* absolute does not look at the result of its upload: when only that fails it
\* returns the magnitudes of what the device buffer held before.
StaleMagnitude == SpectrumOf("stale", 0)

AbsoluteUploadFails(s) ==
    /\ m_slotStates[s] = "SlotHost"
    /\ device \in {"noBatch", "full"}
    /\ clError' = TRUE
    /\ UNCHANGED <<configVars, m_batchPathUnavailable, residentVars, slotVars>>

\* complexMultiplyResidentThenFftThenAbsoluteBatch: all slots on the device
BatchPossible(used) ==
    /\ device = "full" /\ ~m_batchPathUnavailable
    /\ \A s \in used : m_slotStates[s] = "SlotDevice"

Batch(x, used) ==
    /\ BatchPossible(used) /\ batchFits
    /\ EnsureResidentInput1(x)
    /\ UNCHANGED <<configVars, m_batchPathUnavailable, slotVars, clError>>

\* It returns nonzero: not possible, never possible (latched), or an error.
BatchFails(x, used) ==
    /\ \/ ~BatchPossible(used) /\ UNCHANGED <<residentVars, m_batchPathUnavailable, clError>>
       \/ /\ BatchPossible(used) /\ ~batchFits
          /\ m_batchPathUnavailable' = TRUE
          /\ UNCHANGED <<residentVars, clError>>
       \/ /\ BatchPossible(used) /\ batchFits
          /\ ResidentInput1Fails(x) \/ EnsureResidentInput1(x)
          /\ clError' = TRUE
          /\ UNCHANGED m_batchPathUnavailable
    /\ UNCHANGED <<configVars, slotVars>>
=============================================================================
