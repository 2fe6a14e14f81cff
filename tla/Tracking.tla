------------------------------ MODULE Tracking ------------------------------
(***************************************************************************)
(* Tracking: the replica that the correlator builds for a block, and the   *)
(* carrier and code loops that move it from block to block.                *)
(*                                                                         *)
(* The six sums of a block are abstracted to what they decide: whether the *)
(* prompt sum is zero, whether it reaches 0.3 of the running magnitude,    *)
(* and the error each discriminator reads from them.  Frequencies, phases  *)
(* and gains are integers: code phases in units of 1/Unit chip, carrier    *)
(* phases in units of 1/Circle of a turn, frequencies in phase units per   *)
(* sample.                                                                 *)
(***************************************************************************)
EXTENDS CaCodeGenerator

CONSTANTS CodeLength, Unit,  \* chips per code, phase units per chip
          TotalSamples,      \* m_totalSamples
          Lanes,             \* samples the carrier recurrence handles at once
          Circle,            \* units of one turn of the carrier
          BasisLimit,        \* the clamp of m_carrFreqBasisHz, 15 kHz
          CarrierToCode,     \* GPS_L1_CARRIER_TO_CODE_RATIO
          Proportional, Integral,    \* m_pllTau2 / m_pllTau1, period / m_pllTau1
          PullInBlocks,      \* m_fllPullInBlocks
          Dopplers,          \* the acquisition hands one over, of either sign
          MaxBlocks          \* bound: blocks after one initTrackingState

ASSUME TrackingAssumption ==
    /\ {CodeLength, Unit, TotalSamples, Lanes, Circle, BasisLimit,
         CarrierToCode} \subseteq Nat \ {0}
    /\ Unit % 2 = 0 /\ (CodeLength * Unit) % TotalSamples = 0
    /\ {Proportional, Integral, PullInBlocks, MaxBlocks} \subseteq Nat
    /\ Dopplers \subseteq 0 .. BasisLimit

VARIABLES m_blocksSinceInit,
          m_carrFreqBasis, m_carrFreq, m_fllNco, m_carrNco, m_carrErrorPrev,
          magnitudeKnown,    \* m_promptMagnitudeEma > 0
          m_codePhaseStep, m_remCodePhase, m_remCarrPhase,
          codePhase, carrPhase  \* history: the phases of the two oscillators
                                \* since initTrackingState, never wrapped

carrierVars == <<m_carrFreqBasis, m_carrFreq, m_fllNco, m_carrNco, m_carrErrorPrev>>
phaseVars == <<m_codePhaseStep, m_remCodePhase, m_remCarrPhase, codePhase, carrPhase>>
trackingVars == <<codeVars, m_blocksSinceInit, carrierVars, magnitudeKnown, phaseVars>>

CodeUnits == CodeLength * Unit
NominalStep == CodeUnits \div TotalSamples
Errors == -1 .. 1            \* of a discriminator, in its smallest unit

\* std::fmod: the remainder has the sign of a.
FMod(a, b) == IF a < 0 THEN -((-a) % b) ELSE a % b

\* static_cast<int> of a phase in chips: towards zero.
Truncated(phase) == IF phase < 0 THEN -((-phase) \div Unit) ELSE phase \div Unit

Clamp(x, limit) == IF x > limit THEN limit ELSE IF x < -limit THEN -limit ELSE x

-----------------------------------------------------------------------------
\* The replica of a block.

PhaseAt(i) == i * m_codePhaseStep + m_remCodePhase

RawPrompt(i) ==
    LET cast == Truncated(PhaseAt(i))
    IN  IF cast * Unit > PhaseAt(i) THEN cast - 1 ELSE cast

Frac(i) == PhaseAt(i) - RawPrompt(i) * Unit
PromptIndex(i) == RawPrompt(i) % CodeLength  \* the two loops that wrap it

EarlyIndex(i) ==
    LET early == IF 2 * Frac(i) < Unit THEN PromptIndex(i) - 1 ELSE PromptIndex(i)
    IN  IF early < 0 THEN early + CodeLength ELSE early

LateIndex(i) ==
    LET late == IF 2 * Frac(i) < Unit THEN PromptIndex(i) ELSE PromptIndex(i) + 1
    IN  IF late >= CodeLength THEN late - CodeLength ELSE late

VectorLength == TotalSamples - (TotalSamples % Lanes)

\* Lane l starts at its own angle and turns by the angle of Lanes samples at
\* every round; the samples after the last full round are computed directly.
CarrierAngle(i) ==
    LET lane(l) == m_remCarrPhase + m_carrFreq * l
        blockAngle == m_carrFreq * Lanes
    IN  IF i < VectorLength THEN lane(i % Lanes) + (i \div Lanes) * blockAngle
        ELSE m_remCarrPhase + m_carrFreq * i

\* Mutant: the carrier forgets the tail behind the lanes
MutAdvancePhases ==
    /\ m_remCodePhase' = FMod(m_remCodePhase + TotalSamples * m_codePhaseStep, CodeUnits)
    /\ m_remCarrPhase' = FMod(m_carrFreq * VectorLength + m_remCarrPhase, Circle)
    /\ codePhase' = codePhase + TotalSamples * m_codePhaseStep
    /\ carrPhase' = carrPhase + TotalSamples * m_carrFreq

\* The end of correlator(): both phases move on by a block.
AdvancePhases ==
    /\ m_remCodePhase' = FMod(m_remCodePhase + TotalSamples * m_codePhaseStep, CodeUnits)
    /\ m_remCarrPhase' = FMod(m_carrFreq * TotalSamples + m_remCarrPhase, Circle)
    /\ codePhase' = codePhase + TotalSamples * m_codePhaseStep
    /\ carrPhase' = carrPhase + TotalSamples * m_carrFreq

-----------------------------------------------------------------------------
\* The loops.

\* What the sums of a block decide.
Blocks == [silent : BOOLEAN,     \* the prompt sum is zero
           strong : BOOLEAN,     \* it reaches 0.3 of the running magnitude
           error : Errors,       \* computeFllError, computeCostasPhaseError
           codeNco : Errors]     \* what the code loop's filter makes of them

RealBlocks == {b \in Blocks : b.silent => (~b.strong /\ b.error = 0)}

\* isPromptSignalReliable.  A reliable block updates the running magnitude.
Reliable(b) == ~magnitudeKnown \/ b.strong

UpdateMagnitude(b) == magnitudeKnown' = (magnitudeKnown \/ ~b.silent)

LoopFilter(nco, error, errorPrev) ==
    nco + Proportional * (error - errorPrev) + Integral * error

\* fllDiscriminator.  The first block has no predecessor to compare with.
FllDiscriminator(b) ==
    /\ m_fllNco' = m_fllNco + IF m_blocksSinceInit > 0 THEN b.error ELSE 0
    /\ m_carrFreq' = m_carrFreqBasis + m_fllNco'
    /\ UNCHANGED <<m_carrFreqBasis, m_carrNco, m_carrErrorPrev>>

\* rateAidDiscriminator: the share of the NCO that moves into the basis.
Bleed(nco) == IF nco > 0 THEN (nco + 1) \div 2 ELSE -((1 - nco) \div 2)

\* rateAidDiscriminator and freqDiscriminator on an NCO and its last error.
PllDiscriminators(b, nco, errorPrev) ==
    LET bled == nco - Bleed(nco)
    IN  /\ m_carrFreqBasis' = Clamp(m_carrFreqBasis + Bleed(nco), BasisLimit)
        /\ m_carrNco' = LoopFilter(bled, b.error, errorPrev)
        /\ m_carrErrorPrev' = b.error
        /\ m_carrFreq' = m_carrFreqBasis' + m_carrNco'
        /\ UNCHANGED m_fllNco

HoldPll(nco, errorPrev) ==
    /\ m_carrNco' = nco /\ m_carrErrorPrev' = errorPrev
    /\ m_carrFreq' = m_carrFreqBasis + nco
    /\ UNCHANGED <<m_carrFreqBasis, m_fllNco>>

PullIn(b) ==
    /\ m_blocksSinceInit < PullInBlocks
    /\ \/ Reliable(b) /\ UpdateMagnitude(b) /\ FllDiscriminator(b)
       \/ /\ ~Reliable(b)
          /\ m_carrFreq' = m_carrFreqBasis + m_fllNco
          /\ UNCHANGED <<magnitudeKnown, m_carrFreqBasis, m_fllNco, m_carrNco,
                         m_carrErrorPrev>>

\* Mutant: the handover forgets the FLL's estimate
MutPhaseLock(b) ==
    /\ m_blocksSinceInit >= PullInBlocks
    /\ \/ Reliable(b) /\ UpdateMagnitude(b)
          /\ PllDiscriminators(b, m_carrNco, m_carrErrorPrev)
       \/ ~Reliable(b) /\ HoldPll(m_carrNco, m_carrErrorPrev)
          /\ UNCHANGED magnitudeKnown

\* From the first block after pull-in the Costas loop starts where the FLL
\* stopped, whether that block is reliable or not.
PhaseLock(b) ==
    /\ m_blocksSinceInit >= PullInBlocks
    /\ LET handover == m_blocksSinceInit = PullInBlocks
           nco == IF handover THEN m_fllNco ELSE m_carrNco
           errorPrev == IF handover THEN b.error ELSE m_carrErrorPrev
       IN  \/ Reliable(b) /\ UpdateMagnitude(b) /\ PllDiscriminators(b, nco, errorPrev)
           \/ ~Reliable(b) /\ HoldPll(nco, errorPrev) /\ UNCHANGED magnitudeKnown

\* codeDiscriminator: the code follows the carrier, less the loop's correction.
CodeDiscriminator(b) ==
    m_codePhaseStep' = NominalStep + (m_carrFreq' \div CarrierToCode) - b.codeNco

DoWork(b) ==
    /\ built /\ m_blocksSinceInit < MaxBlocks
    /\ AdvancePhases
    /\ PullIn(b) \/ PhaseLock(b)
    /\ CodeDiscriminator(b)
    /\ m_blocksSinceInit' = m_blocksSinceInit + 1
    /\ UNCHANGED codeVars

\* The members that initTrackingState resets.  The code starts at its nominal
\* rate, whatever the Doppler.
StartsAt(doppler, chips) ==
    /\ m_blocksSinceInit' = 0 /\ magnitudeKnown' = FALSE
    /\ m_carrFreqBasis' = doppler /\ m_carrFreq' = doppler
    /\ m_fllNco' = 0 /\ m_carrNco' = 0 /\ m_carrErrorPrev' = 0
    /\ m_remCarrPhase' = 0 /\ m_remCodePhase' = chips
    /\ m_codePhaseStep' = NominalStep
    /\ codePhase' = chips /\ carrPhase' = 0

\* A channel of which a search found the signal, for the first time or again.
InitTrackingState ==
    /\ built
    /\ \E doppler \in Dopplers, sign \in {-1, 1},
          chips \in {0, NominalStep, CodeUnits - NominalStep} :
          StartsAt(sign * doppler, chips)
    /\ UNCHANGED codeVars

TrackingInit ==
    /\ CodeInit
    /\ m_blocksSinceInit = 0 /\ magnitudeKnown = FALSE
    /\ m_carrFreqBasis = 0 /\ m_carrFreq = 0
    /\ m_fllNco = 0 /\ m_carrNco = 0 /\ m_carrErrorPrev = 0
    /\ m_remCarrPhase = 0 /\ m_remCodePhase = 0
    /\ m_codePhaseStep = NominalStep
    /\ codePhase = 0 /\ carrPhase = 0

BuildTable ==
    /\ ShiftRegisters \/ TableBuilt
    /\ UNCHANGED <<m_blocksSinceInit, carrierVars, magnitudeKnown, phaseVars>>

TrackingNext == BuildTable \/ InitTrackingState \/ \E b \in RealBlocks : DoWork(b)

TrackingSpec == TrackingInit /\ [][TrackingNext]_trackingVars

-----------------------------------------------------------------------------
\* The chip under a phase, and where a wrapped angle really is.
ChipAt(phase) == (phase \div Unit) % CodeLength
SameAngle(a, b) == (a - b) % Circle = 0

\* However many blocks the oscillators ran and however their rates changed, the
\* replica of the next block continues them: prompt, early and late chip of
\* every sample are the chips under the unwrapped phase and half a chip before
\* and after it, across the end of the code, and the carrier that the lanes and
\* the tail compute is the oscillator's, without a jump between two blocks.
ReplicaIsTrue ==
    \A i \in 0 .. TotalSamples - 1 :
        LET phase == codePhase + i * m_codePhaseStep
        IN  /\ PromptIndex(i) = ChipAt(phase)
            /\ EarlyIndex(i) = ChipAt(phase - Unit \div 2)
            /\ LateIndex(i) = ChipAt(phase + Unit \div 2)
            /\ SameAngle(CarrierAngle(i), carrPhase + i * m_carrFreq)

\* The basis is about to leave its range, and the clamp will cut it.
Saturates == \E nco \in {m_fllNco, m_carrNco} :
    LET sum == m_carrFreqBasis + Bleed(nco) IN sum # Clamp(sum, BasisLimit)

\* "Unreliable blocks hold the carrier frequency steady": a block whose prompt
\* sum collapsed moves the carrier by nothing, in pull-in, in the Costas loop
\* and on the very block of the handover.  The handover itself, and the share
\* of the NCO that rate aiding moves into the basis, never show as a step of
\* the frequency: a reliable block moves it by its loop's correction alone.
CarrierHasNoSteps ==
    [][\A b \in RealBlocks : DoWork(b) =>
        LET move == m_carrFreq' - m_carrFreq
        IN  IF ~Reliable(b) THEN move = 0
            ELSE \/ Saturates
                 \/ m_blocksSinceInit < PullInBlocks /\ move \in {0, b.error}
                 \/ m_blocksSinceInit = PullInBlocks /\ move = Integral * b.error
                 \/ /\ m_blocksSinceInit > PullInBlocks
                    /\ move = LoopFilter(0, b.error, m_carrErrorPrev)]_trackingVars
=============================================================================
