---------------------------- MODULE Acquisition ----------------------------
(***************************************************************************)
(* Acquisition/GPSOpenClAcquisition: the parallel code phase search of one *)
(* satellite, on the compute engine of module SpectrumEngine.              *)
(*                                                                         *)
(* The carrier replicas of the first m_reuseFactor Doppler bins are wiped  *)
(* off and transformed into slots; a bin whose frequency is a whole number *)
(* of FFT bins away from one of these reuses its slot with a shift.  All   *)
(* bins are correlated in one batch or, when that is not possible, one by  *)
(* one.  Searches run one after another on one engine.  The input vector   *)
(* comes from a pool, so its address returns with other contents.          *)
(***************************************************************************)
EXTENDS SpectrumEngine, Integers

CONSTANTS Spans, Steps, Resolutions,  \* Hz: Doppler range, bin spacing, FFT bin
          Satellites, Blocks,         \* sample blocks the receiver may search
          Buffers,                    \* addresses in the input pool
          MaxSearches                 \* bound: searches of one run

ASSUME AcquisitionAssumption ==
    /\ Spans \subseteq Int /\ Steps \subseteq Int
    /\ Resolutions \subseteq Nat \ {0}
    /\ MaxSearches \in Nat
    /\ NoAddress \notin Buffers \union Satellites /\ Buffers \intersect Satellites = {}
    /\ Unallocated \notin Blocks \union Satellites

VARIABLES grid,      \* the configuration [span, step, resolution]
          pc, index, \* where correlate is, and in which slot or bin
          input,     \* the sample vector of this search
          svId,
          bins,      \* results accumulated so far: function of the bin
          metrics,   \* the channel's metrics: "reset" or "inserted"
          searches

searchVars == <<grid, pc, index, input, svId, bins, metrics, searches>>
vars == <<engineVars, searchVars>>

Abs(n) == IF n < 0 THEN -n ELSE n

-----------------------------------------------------------------------------
(* The search grid *)

computeNumberOfFrequencyBins(g) ==
    IF g.span <= 0 \/ g.step <= 0 THEN 1
    ELSE ((g.span + g.step - 1) \div g.step) + 1

\* lround of a quotient of positive numbers
LRound(a, b) == (2 * a + b) \div (2 * b)

\* Mutant: the ratio need not be whole
MutAnyRatio(g) ==
    LET rounded == LRound(g.resolution, g.step)
    IN  IF g.step <= 0 THEN computeNumberOfFrequencyBins(g)
        ELSE IF rounded < 1 \/ rounded > computeNumberOfFrequencyBins(g)
             THEN computeNumberOfFrequencyBins(g) ELSE rounded

\* The ratio must be whole to one part in a thousand.
computeReuseFactor(g) ==
    LET fallback == computeNumberOfFrequencyBins(g)
        rounded == LRound(g.resolution, g.step)
    IN  IF \/ g.step <= 0
           \/ rounded < 1 \/ rounded > fallback
           \/ 1000 * Abs(g.resolution - rounded * g.step) > g.step
        THEN fallback ELSE rounded

m_numberOfFreqencyBins == computeNumberOfFrequencyBins(grid)
m_reuseFactor == computeReuseFactor(grid)

\* m_binSlotShift
Slot(bin) == bin % m_reuseFactor
Shift(bin) == bin \div m_reuseFactor

\* The frequency a bin correlates with: its replica, moved by its shift.
SearchedFrequency(bin) == Slot(bin) * grid.step + Shift(bin) * grid.resolution

Bins == 0 .. m_numberOfFreqencyBins - 1
UsedSlots == {Slot(bin) : bin \in Bins}

\* The code spectrum of a satellite is computed once and never moves:
\* the satellite stands for its address, and for its data.
codeSpectrum == [address |-> svId, data |-> svId]

-----------------------------------------------------------------------------
(* correlate *)

Grids == {g \in [span : Spans, step : Steps, resolution : Resolutions] :
             computeReuseFactor(g) <= MaxSlots}

Init ==
    /\ EngineInit
    /\ grid \in Grids
    /\ pc = "idle" /\ index = 0
    /\ input = [address |-> NoAddress, data |-> Garbage]
    /\ svId \in Satellites
    /\ bins = <<>>
    /\ metrics = "reset"
    /\ searches = 0

Start(address, block, sv) ==
    /\ pc = "idle" /\ searches < MaxSearches
    /\ pc' = "forward" /\ index' = 0
    /\ input' = [address |-> address, data |-> block]
    /\ svId' = sv
    /\ bins' = <<>>
    /\ metrics' = "reset"
    /\ searches' = searches + 1
    /\ clError' = FALSE
    /\ InvalidateResidentInput
    /\ UNCHANGED <<grid, configVars, m_batchPathUnavailable, residentInput, slotVars>>

Return == pc' = "idle" /\ UNCHANGED <<grid, index, input, svId, bins, metrics, searches>>

\* One complexMultiplyThenFftToSlot of the loop over the replicas succeeds.
NextReplica ==
    /\ index' = IF index + 1 < m_reuseFactor THEN index + 1 ELSE 0
    /\ pc' = IF index + 1 < m_reuseFactor THEN "forward" ELSE "batch"
    /\ UNCHANGED <<grid, input, svId, bins, metrics, searches>>

ForwardOnDevice == pc = "forward" /\ FillSlotOnDevice(input, index) /\ NextReplica

ForwardDeviceFails ==
    /\ pc = "forward"
    /\ FillSlotOnDeviceFails(input, index)
    /\ pc' = "forwardHost"
    /\ UNCHANGED <<grid, index, input, svId, bins, metrics, searches>>

OnHost == pc = "forwardHost" \/ (pc = "forward" /\ device = "none")

ForwardOnHost == OnHost /\ FillSlotOnHost(input, index) /\ NextReplica
ForwardFails == OnHost /\ FillSlotFails(input, index) /\ Return

\* What a bin's correlation on the device is computed from
DeviceResult(bin) == [spectrum |-> PoolSlot(Slot(bin)), operand |-> residentInput']
HostResult(bin) == [spectrum |-> m_slotHost[Slot(bin)], operand |-> codeSpectrum.data]

CorrelateBatch ==
    /\ pc = "batch"
    /\ Batch(codeSpectrum, UsedSlots)
    /\ bins' = [bin \in Bins |-> DeviceResult(bin)]
    /\ metrics' = "inserted"
    /\ pc' = "idle"
    /\ UNCHANGED <<grid, index, input, svId, searches>>

CorrelateBatchFails ==
    /\ pc = "batch"
    /\ BatchFails(codeSpectrum, UsedSlots)
    /\ pc' = "inverse"
    /\ UNCHANGED <<grid, index, input, svId, bins, metrics, searches>>

\* accumulateBin, and insertAcquisitionMetrics after the last bin
AccumulateBin(result) ==
    /\ bins' = [bin \in 0 .. index |-> IF bin = index THEN result ELSE bins[bin]]
    /\ index' = index + 1
    /\ IF index + 1 = m_numberOfFreqencyBins
       THEN pc' = "idle" /\ metrics' = "inserted"
       ELSE UNCHANGED <<pc, metrics>>
    /\ UNCHANGED <<grid, input, svId, searches>>

InverseOnDevice ==
    /\ pc = "inverse"
    /\ UseSlotOnDevice(codeSpectrum, Slot(index))
    /\ AccumulateBin(DeviceResult(index))

InverseOnHost ==
    /\ pc = "inverse"
    /\ UseSlotOnHost(Slot(index))
    /\ AccumulateBin(HostResult(index))

InverseStale ==
    /\ pc = "inverse"
    /\ AbsoluteUploadFails(Slot(index))
    /\ AccumulateBin([spectrum |-> StaleMagnitude, operand |-> svId])

InverseFails == pc = "inverse" /\ UseSlotFails(codeSpectrum, Slot(index)) /\ Return

\* The bound on the searches is reached.
Done == pc = "idle" /\ searches = MaxSearches /\ UNCHANGED vars

Next ==
    \/ \E address \in Buffers, block \in Blocks, sv \in Satellites : Start(address, block, sv)
    \/ ForwardOnDevice \/ ForwardDeviceFails \/ ForwardOnHost \/ ForwardFails
    \/ CorrelateBatch \/ CorrelateBatchFails
    \/ InverseOnDevice \/ InverseOnHost \/ InverseStale \/ InverseFails
    \/ Done

Spec == Init /\ [][Next]_vars

-----------------------------------------------------------------------------
(* Properties *)

\* A correlation from the block and the code of this search and the bin's own
\* replica
IsTrue(bin) ==
    bins[bin] = [spectrum |-> SpectrumOf(input.data, Slot(bin)), operand |-> svId]

\* Whatever fails, and wherever it was computed, what correlate accumulates comes
\* from this search, from no earlier one and from no lost buffer, except where
\* absolute missed a failed upload; metrics are inserted for all bins or not at all.
ResultsAreOfThisSearch ==
    /\ \A bin \in DOMAIN bins : IsTrue(bin) \/ bins[bin].spectrum = StaleMagnitude
    /\ metrics = "inserted" => DOMAIN bins = Bins

\* On a machine without OpenCL, or with a complete set of kernels, a search in
\* which no OpenCL call fails ends with metrics: correlate skips nothing then.
HealthySearchCompletes ==
    (/\ pc = "idle" /\ searches > 0
     /\ lengthIsPowerOfTwo /\ device # "noAbsolute" /\ ~clError)
        => metrics = "inserted"

\* The bins reach the end of the configured Doppler range, and a bin correlates
\* with the frequency that is reported for it, the nearest of the grid.
SearchGridIsTrue ==
    grid.step > 0 =>
        /\ (m_numberOfFreqencyBins - 1) * grid.step >= grid.span
        /\ \A bin \in Bins : 2 * Abs(SearchedFrequency(bin) - bin * grid.step) < grid.step
=============================================================================
