--------------------------- MODULE MeasurementProofs -------------------------
(***************************************************************************)
(* Proofs about modules Tracking and Navigation, from the samples to the   *)
(* position, for any length of the code, any number of samples, lanes and  *)
(* blocks, any gains of the loops, any number of satellites and any        *)
(* resolution of time.                                                     *)
(*                                                                         *)
(* Tracking: the phases the correlator carries from block to block are     *)
(* those of two oscillators that never wrap, up to whole codes and whole   *)
(* turns; the carrier frequency is its basis plus the NCO of the loop in   *)
(* charge.                                                                 *)
(*                                                                         *)
(* Navigation: the satellites of a block are listed in order, so that what *)
(* the mask keeps is a renumbering of rows; the gate removes one row of    *)
(* every vector; a cluster of more than half of the arrivals contains the  *)
(* median.                                                                 *)
(*                                                                         *)
(* NavigationDecoder: a sum over one bit is a mix of two neighbouring bits *)
(* weighted by the distance to the edge, so that its sign is the nearer    *)
(* one's; every bit of a word is in an odd number of the six checks and no *)
(* two bits are in the same, so that up to three flips never pass; where a *)
(* start reads the word one bit late, the fifth check is the fourth check  *)
(* of the word and fails; the edge metric, compared term by term, is best  *)
(* at the start nearest to the edge.                                       *)
(***************************************************************************)
EXTENDS Tracking, NavigationDecoder, Navigation, FiniteSetTheorems,
        SequenceTheorems, WellFoundedInduction, TLAPS

TrackingTypes ==
    /\ m_blocksSinceInit \in Nat
    /\ m_carrFreqBasis \in Int /\ m_carrFreq \in Int
    /\ m_fllNco \in Int /\ m_carrNco \in Int /\ m_carrErrorPrev \in Int
    /\ magnitudeKnown \in BOOLEAN
    /\ m_codePhaseStep \in Int /\ m_remCodePhase \in Int /\ m_remCarrPhase \in Int
    /\ codePhase \in Int /\ carrPhase \in Int

\* Two phases differ by whole periods.
Congruent(a, b, period) == \E k \in Int : a = b + k * period

PhaseInv ==
    /\ Congruent(m_remCodePhase, codePhase, CodeUnits)
    /\ Congruent(m_remCarrPhase, carrPhase, Circle)

\* The NCO that the next block starts from: up to the handover the FLL's.
NcoInCharge == IF m_blocksSinceInit <= PullInBlocks THEN m_fllNco ELSE m_carrNco

CarrierInv == m_carrFreq = m_carrFreqBasis + NcoInCharge

TrackingInv == TrackingTypes /\ PhaseInv /\ CarrierInv

-----------------------------------------------------------------------------
(* Arithmetic *)

LEMMA DivisionUnique ==
    ASSUME NEW p \in Int, NEW u \in Nat \ {0}, NEW q \in Int, NEW r \in Int,
           0 <= r, r < u, p = q * u + r
    PROVE  p \div u = q /\ p % u = r
  <1> DEFINE a == p \div u
             b == p % u
  <1>1. a \in Int /\ b \in Int /\ 0 <= b /\ b < u /\ p = a * u + b
    OBVIOUS
  <1> HIDE DEF a, b
  <1>2. (a - q) * u = r - b
    <2>1. (a - q) * u = a * u - q * u
      BY <1>1
    <2> QED
      BY <1>1, <2>1
  <1>3. a - q = 0
    <2>1. CASE a - q >= 1
      <3>1. (a - q) * u >= u
        BY <1>1, <2>1
      <3> QED
        BY <1>1, <1>2, <3>1
    <2>2. CASE a - q <= -1
      <3>1. (a - q) * u <= -u
        BY <1>1, <2>2
      <3> QED
        BY <1>1, <1>2, <3>1
    <2> QED
      BY <1>1, <2>1, <2>2
  <1>4. a = q /\ b = r
    BY <1>1, <1>2, <1>3
  <1> QED
    BY <1>4 DEF a, b

LEMMA Division ==
    ASSUME NEW p \in Int, NEW u \in Nat \ {0}
    PROVE  /\ p \div u \in Int /\ p % u \in Int
           /\ 0 <= p % u /\ p % u < u
           /\ p = (p \div u) * u + (p % u)
  OBVIOUS

\* std::fmod removes whole periods.
LEMMA FModIsCongruent ==
    ASSUME NEW a \in Int, NEW b \in Nat \ {0}
    PROVE  FMod(a, b) \in Int /\ Congruent(FMod(a, b), a, b)
  <1>1. CASE a >= 0
    <2>1. PICK q \in Int, r \in Int : r = a % b /\ a = q * b + r
      BY Division
    <2>2. FMod(a, b) = a + (-q) * b
      BY <1>1, <2>1 DEF FMod
    <2>3. -q \in Int /\ a + (-q) * b \in Int
      OBVIOUS
    <2> QED
      BY <2>2, <2>3, Zenon DEF Congruent
  <1>2. CASE a < 0
    <2>1. -a \in Int
      OBVIOUS
    <2>2. PICK q \in Int, r \in Int : r = (-a) % b /\ -a = q * b + r
      BY <2>1, Division
    <2>3. FMod(a, b) = a + q * b
      BY <1>2, <2>2 DEF FMod
    <2>4. a + q * b \in Int
      OBVIOUS
    <2> QED
      BY <2>3, <2>4, Zenon DEF Congruent
  <1> QED
    BY <1>1, <1>2

LEMMA CongruentMoves ==
    ASSUME NEW a \in Int, NEW b \in Int, NEW c \in Int, NEW d \in Int,
           NEW period \in Nat \ {0},
           Congruent(a, b, period), Congruent(c, a + d, period)
    PROVE  Congruent(c, b + d, period)
  <1>1. PICK k \in Int : a = b + k * period
    BY DEF Congruent
  <1>2. PICK m \in Int : c = (a + d) + m * period
    BY DEF Congruent
  <1>3. c = (b + d) + (k + m) * period
    <2>1. (k + m) * period = k * period + m * period
      OBVIOUS
    <2> QED
      BY <1>1, <1>2, <2>1
  <1>4. k + m \in Int
    OBVIOUS
  <1> QED
    BY <1>3, <1>4 DEF Congruent

\* Neighbours of an index in the code, with the wrap of the correlator.
LEMMA NeighbourIndex ==
    ASSUME NEW x \in Int, NEW L \in Nat \ {0}
    PROVE  /\ (x - 1) % L = IF (x % L) - 1 < 0 THEN (x % L) - 1 + L ELSE (x % L) - 1
           /\ (x + 1) % L = IF (x % L) + 1 >= L THEN ((x % L) + 1) - L ELSE (x % L) + 1
  <1>1. PICK q \in Int, r \in Int : r = x % L /\ 0 <= r /\ r < L /\ x = q * L + r
    BY Division
  <1>2. (x - 1) % L = IF r - 1 < 0 THEN r - 1 + L ELSE r - 1
    <2>1. CASE r - 1 < 0
      <3>1. x - 1 = (q - 1) * L + (r - 1 + L) /\ 0 <= r - 1 + L /\ r - 1 + L < L
        BY <1>1, <2>1
      <3>2. x - 1 \in Int /\ q - 1 \in Int /\ r - 1 + L \in Int
        OBVIOUS
      <3> QED
        BY <2>1, <3>1, <3>2, DivisionUnique
    <2>2. CASE ~(r - 1 < 0)
      <3>1. x - 1 = q * L + (r - 1) /\ 0 <= r - 1 /\ r - 1 < L
        BY <1>1, <2>2
      <3>2. x - 1 \in Int /\ r - 1 \in Int
        OBVIOUS
      <3> QED
        BY <2>2, <3>1, <3>2, DivisionUnique
    <2> QED
      BY <2>1, <2>2
  <1>3. (x + 1) % L = IF r + 1 >= L THEN (r + 1) - L ELSE r + 1
    <2>1. CASE r + 1 >= L
      <3>1. x + 1 = (q + 1) * L + ((r + 1) - L) /\ 0 <= (r + 1) - L /\ (r + 1) - L < L
        BY <1>1, <2>1
      <3>2. x + 1 \in Int /\ q + 1 \in Int /\ (r + 1) - L \in Int
        OBVIOUS
      <3> QED
        BY <2>1, <3>1, <3>2, DivisionUnique
    <2>2. CASE ~(r + 1 >= L)
      <3>1. x + 1 = q * L + (r + 1) /\ 0 <= r + 1 /\ r + 1 < L
        BY <1>1, <2>2
      <3>2. x + 1 \in Int /\ r + 1 \in Int
        OBVIOUS
      <3> QED
        BY <2>2, <3>1, <3>2, DivisionUnique
    <2> QED
      BY <2>1, <2>2
  <1> QED
    BY <1>1, <1>2, <1>3


-----------------------------------------------------------------------------
(* The replica *)

LEMMA TrackingConstants ==
    /\ CodeLength \in Nat \ {0} /\ Unit \in Nat \ {0} /\ TotalSamples \in Nat \ {0}
    /\ Lanes \in Nat \ {0} /\ Circle \in Nat \ {0} /\ CodeUnits \in Nat \ {0}
    /\ BasisLimit \in Nat /\ CarrierToCode \in Nat \ {0}
    /\ NominalStep \in Int
    /\ Proportional \in Nat /\ Integral \in Nat /\ PullInBlocks \in Nat
    /\ \E h \in Nat \ {0} : Unit = 2 * h /\ Unit \div 2 = h
  <1>1. /\ CodeLength \in Nat \ {0} /\ Unit \in Nat \ {0} /\ TotalSamples \in Nat \ {0}
        /\ Lanes \in Nat \ {0} /\ Circle \in Nat \ {0}
        /\ BasisLimit \in Nat /\ CarrierToCode \in Nat \ {0}
        /\ Proportional \in Nat /\ Integral \in Nat /\ PullInBlocks \in Nat
    BY TrackingAssumption
  <1>2. CodeLength * Unit \in Nat \ {0}
    BY <1>1
  <1>3. (CodeLength * Unit) \div TotalSamples \in Int
    BY <1>1, <1>2, Division
  <1>4. Unit % 2 = 0
    BY TrackingAssumption
  <1>5. Unit = 2 * (Unit \div 2) /\ Unit \div 2 \in Nat \ {0}
    BY <1>1, <1>4
  <1> QED
    BY <1>1, <1>2, <1>3, <1>5 DEF CodeUnits, NominalStep

\* The cast truncates towards zero; the correction behind it makes it the floor,
\* so that the fraction is within a chip, also for a negative phase.
LEMMA PromptIsFloor ==
    ASSUME TrackingTypes, NEW i \in Nat
    PROVE  /\ PhaseAt(i) \in Int /\ RawPrompt(i) \in Int /\ Frac(i) \in Int
           /\ 0 <= Frac(i) /\ Frac(i) < Unit
           /\ PhaseAt(i) = RawPrompt(i) * Unit + Frac(i)
  <1>1. PICK p \in Int : p = PhaseAt(i)
    BY DEF PhaseAt, TrackingTypes
  <1>2. PICK u \in Nat \ {0} : u = Unit
    BY TrackingConstants
  <1>3. PICK cast \in Int : /\ cast = Truncated(p)
                            /\ cast * u > p => (cast - 1) * u <= p /\ p < cast * u
                            /\ ~(cast * u > p) => p < cast * u + u
    <2>1. CASE p >= 0
      <3>1. PICK q \in Int, r \in Int : q = p \div u /\ 0 <= r /\ r < u /\ p = q * u + r
        BY Division
      <3>2. Truncated(p) = q
        BY <1>2, <2>1, <3>1 DEF Truncated
      <3>3. ~(q * u > p) /\ p < q * u + u
        BY <3>1
      <3> QED
        BY <3>2, <3>3
    <2>2. CASE p < 0
      <3>1. -p \in Int
        OBVIOUS
      <3>2. PICK q \in Int, r \in Int : q = (-p) \div u /\ 0 <= r /\ r < u /\ -p = q * u + r
        BY <3>1, Division
      <3>3. Truncated(p) = -q /\ -q \in Int
        BY <1>2, <2>2, <3>2 DEF Truncated
      <3>4. (-q) * u = p + r /\ ((-q) - 1) * u = (p + r) - u
        BY <3>2
      <3>5. /\ (-q) * u > p => ((-q) - 1) * u <= p /\ p < (-q) * u
            /\ ~((-q) * u > p) => p < (-q) * u + u
        BY <3>2, <3>4
      <3> QED
        BY <3>3, <3>5, Zenon
    <2> QED
      BY <2>1, <2>2
  <1>4. RawPrompt(i) = IF cast * u > p THEN cast - 1 ELSE cast
    BY <1>1, <1>2, <1>3 DEF RawPrompt
  <1>5. PICK q \in Int : q = RawPrompt(i) /\ q * u <= p /\ p < q * u + u
    <2>1. CASE cast * u > p
      <3>1. cast - 1 \in Int /\ (cast - 1) * u + u = cast * u
        OBVIOUS
      <3> QED
        BY <1>3, <1>4, <2>1, <3>1
    <2>2. CASE ~(cast * u > p)
      BY <1>3, <1>4, <2>2
    <2> QED
      BY <2>1, <2>2
  <1>6. q * u \in Int
    OBVIOUS
  <1>7. Frac(i) = p - q * u
    BY <1>1, <1>2, <1>5 DEF Frac
  <1>8. p - q * u \in Int /\ 0 <= p - q * u /\ p - q * u < u /\ p = q * u + (p - q * u)
    BY <1>5, <1>6
  <1> QED
    BY <1>1, <1>2, <1>5, <1>7, <1>8


\* The chips of a sample are those under the oscillator's own phase.
LEMMA ChipsAreTrue ==
    ASSUME TrackingTypes, PhaseInv, NEW i \in Nat
    PROVE  LET phase == codePhase + i * m_codePhaseStep
           IN  /\ PromptIndex(i) = ChipAt(phase)
               /\ EarlyIndex(i) = ChipAt(phase - Unit \div 2)
               /\ LateIndex(i) = ChipAt(phase + Unit \div 2)
  <1> DEFINE phase == codePhase + i * m_codePhaseStep
  <1>1. PICK u \in Nat \ {0}, L \in Nat \ {0}, h \in Nat \ {0} :
           u = Unit /\ L = CodeLength /\ u = 2 * h /\ h = Unit \div 2
    BY TrackingConstants
  <1>2. PICK q \in Int, f \in Int : /\ q = RawPrompt(i) /\ f = Frac(i) /\ 0 <= f /\ f < u
                                    /\ PhaseAt(i) = q * u + f
    BY <1>1, PromptIsFloor
  <1>3. PICK k \in Int : m_remCodePhase = codePhase + k * (L * u)
    BY <1>1 DEF PhaseInv, Congruent, CodeUnits
  <1>4. PICK c \in Int, s \in Int, m \in Int :
           c = codePhase /\ s = i * m_codePhaseStep /\ m = m_remCodePhase
    BY DEF TrackingTypes
  \* x: the chip, counted from the start of the oscillator
  <1>5. PICK x \in Int : x = q - k * L
    OBVIOUS
  <1>6. phase = x * u + f
    <2>1. s + m = q * u + f
      BY <1>2, <1>4 DEF PhaseAt
    <2>2. m = c + k * (L * u)
      BY <1>3, <1>4
    <2>3. k * (L * u) = (k * L) * u /\ x * u = q * u - (k * L) * u
      BY <1>5
    <2> QED
      BY <1>4, <2>1, <2>2, <2>3
  <1>7. q % L = x % L
    <2>1. PICK y \in Int, r \in Int : r = x % L /\ 0 <= r /\ r < L /\ x = y * L + r
      BY Division, ZenonT(30)
    <2>2. q = (y + k) * L + r /\ y + k \in Int
      <3>1. (y + k) * L = y * L + k * L
        OBVIOUS
      <3> QED
        BY <1>5, <2>1, <3>1
    <2> QED
      BY <2>1, <2>2, DivisionUnique
  <1> HIDE DEF phase
  <1>8. PICK p \in Int, e \in Int : /\ p = phase /\ p = e + f /\ e = x * u
                                    /\ (x - 1) * u = e - u /\ (x + 1) * u = e + u
    <2>1. x * u \in Int /\ (x - 1) * u = x * u - u /\ (x + 1) * u = x * u + u
      OBVIOUS
    <2>2. x * u + f \in Int
      BY <2>1
    <2> QED
      BY <1>6, <2>1, <2>2, Zenon
  <1>9. PICK r \in Int : r = x % L /\ 0 <= r /\ r < L
    BY Division
  <1>10. PromptIndex(i) = r
    BY <1>1, <1>2, <1>7, <1>9 DEF PromptIndex
  <1>11. /\ (x - 1) % L = IF r - 1 < 0 THEN r - 1 + L ELSE r - 1
         /\ (x + 1) % L = IF r + 1 >= L THEN (r + 1) - L ELSE r + 1
    BY <1>9, NeighbourIndex
  <1>12. PromptIndex(i) = ChipAt(phase)
    <2>1. p \div u = x
      BY <1>2, <1>6, <1>8, DivisionUnique
    <2> QED
      BY <1>1, <1>8, <1>9, <1>10, <2>1 DEF ChipAt
  <1>13. EarlyIndex(i) = ChipAt(phase - Unit \div 2)
    <2>1. CASE 2 * f < u
      <3>1. p - h = (x - 1) * u + (f + h) /\ 0 <= f + h /\ f + h < u
        BY <1>1, <1>2, <1>8, <2>1
      <3>2. p - h \in Int /\ x - 1 \in Int /\ f + h \in Int
        OBVIOUS
      <3>3. (p - h) \div u = x - 1
        BY <3>1, <3>2, DivisionUnique
      <3>4. ChipAt(phase - Unit \div 2) = (x - 1) % L
        BY <1>1, <1>8, <3>3 DEF ChipAt
      <3>5. EarlyIndex(i) = IF r - 1 < 0 THEN r - 1 + L ELSE r - 1
        BY <1>1, <1>2, <1>10, <2>1 DEF EarlyIndex
      <3> QED
        BY <1>11, <3>4, <3>5
    <2>2. CASE ~(2 * f < u)
      <3>1. p - h = x * u + (f - h) /\ 0 <= f - h /\ f - h < u
        BY <1>1, <1>2, <1>8, <2>2
      <3>2. p - h \in Int /\ f - h \in Int
        OBVIOUS
      <3>3. (p - h) \div u = x
        BY <3>1, <3>2, DivisionUnique
      <3>4. ChipAt(phase - Unit \div 2) = r
        BY <1>1, <1>8, <1>9, <3>3 DEF ChipAt
      <3>5. EarlyIndex(i) = r
        BY <1>1, <1>2, <1>9, <1>10, <2>2 DEF EarlyIndex
      <3> QED
        BY <3>4, <3>5
    <2> QED
      BY <2>1, <2>2
  <1>14. LateIndex(i) = ChipAt(phase + Unit \div 2)
    <2>1. CASE 2 * f < u
      <3>1. p + h = x * u + (f + h) /\ 0 <= f + h /\ f + h < u
        BY <1>1, <1>2, <1>8, <2>1
      <3>2. p + h \in Int /\ f + h \in Int
        OBVIOUS
      <3>3. (p + h) \div u = x
        BY <3>1, <3>2, DivisionUnique
      <3>4. ChipAt(phase + Unit \div 2) = r
        BY <1>1, <1>8, <1>9, <3>3 DEF ChipAt
      <3>5. LateIndex(i) = r
        BY <1>1, <1>2, <1>9, <1>10, <2>1 DEF LateIndex
      <3> QED
        BY <3>4, <3>5
    <2>2. CASE ~(2 * f < u)
      <3>0. p + h = (e + u) + (f - h) /\ 0 <= f - h /\ f - h < u
        BY <1>1, <1>2, <1>8, <2>2
      <3>1. p + h = (x + 1) * u + (f - h) /\ 0 <= f - h /\ f - h < u
        BY <1>8, <3>0, Zenon
      <3>2. p + h \in Int /\ x + 1 \in Int /\ f - h \in Int
        OBVIOUS
      <3>3. (p + h) \div u = x + 1
        BY <3>1, <3>2, DivisionUnique
      <3>4. ChipAt(phase + Unit \div 2) = (x + 1) % L
        BY <1>1, <1>8, <3>3 DEF ChipAt
      <3>5. LateIndex(i) = IF r + 1 >= L THEN (r + 1) - L ELSE r + 1
        BY <1>1, <1>2, <1>10, <2>2 DEF LateIndex
      <3> QED
        BY <1>11, <3>4, <3>5
    <2> QED
      BY <2>1, <2>2
  <1> QED
    BY <1>12, <1>13, <1>14 DEF phase

\* Lanes and tail compute one angle per sample, the oscillator's.
LEMMA CarrierIsTrue ==
    ASSUME TrackingTypes, PhaseInv, NEW i \in Nat
    PROVE  SameAngle(CarrierAngle(i), carrPhase + i * m_carrFreq)
  <1>1. PICK n \in Nat \ {0}, w \in Int, m \in Int, c \in Int :
           n = Lanes /\ w = m_carrFreq /\ m = m_remCarrPhase /\ c = carrPhase
    BY TrackingConstants DEF TrackingTypes
  <1>2. CarrierAngle(i) = m + w * i
    <2>1. PICK q \in Int, r \in Int : q = i \div n /\ r = i % n /\ i = q * n + r
      BY Division
    <2>2. (m + w * r) + q * (w * n) = m + w * i
      <3>1. w * i = w * (q * n) + w * r /\ w * (q * n) = q * (w * n)
        BY <2>1
      <3> QED
        BY <3>1
    <2> QED
      BY <1>1, <2>1, <2>2 DEF CarrierAngle
  <1>3. PICK k \in Int : m = c + k * Circle
    BY <1>1 DEF PhaseInv, Congruent
  <1>4. PICK t \in Nat \ {0} : t = Circle
    BY TrackingConstants
  <1>5. CarrierAngle(i) - (carrPhase + i * m_carrFreq) = k * t
    <2>1. w * i = i * w /\ w * i \in Int /\ k * t \in Int
      OBVIOUS
    <2>2. (m + w * i) - (c + i * w) = m - c
      BY <2>1
    <2> QED
      BY <1>1, <1>2, <1>3, <1>4, <2>1, <2>2
  <1>6. (k * t) % t = 0
    <2>1. k * t \in Int /\ k * t = k * t + 0
      OBVIOUS
    <2> QED
      BY <2>1, DivisionUnique
  <1> QED
    BY <1>4, <1>5, <1>6 DEF SameAngle


-----------------------------------------------------------------------------
(* The invariant *)

LEMMA BlockTypes ==
    ASSUME NEW b \in RealBlocks
    PROVE  /\ b.error \in Int /\ b.codeNco \in Int
           /\ b.strong \in BOOLEAN /\ b.silent \in BOOLEAN
  BY DEF RealBlocks, Blocks, Errors

LEMMA BleedType ==
    ASSUME NEW nco \in Int
    PROVE  Bleed(nco) \in Int
  <1>1. nco + 1 \in Int /\ 1 - nco \in Int
    OBVIOUS
  <1>2. (nco + 1) \div 2 \in Int /\ (1 - nco) \div 2 \in Int
    BY <1>1
  <1> QED
    BY <1>2 DEF Bleed

LEMMA ClampType ==
    ASSUME NEW x \in Int, NEW limit \in Nat
    PROVE  Clamp(x, limit) \in Int
  BY DEF Clamp

LEMMA LoopFilterType ==
    ASSUME NEW nco \in Int, NEW error \in Int, NEW prev \in Int
    PROVE  /\ LoopFilter(nco, error, prev) \in Int /\ LoopFilter(0, error, prev) \in Int
           /\ LoopFilter(nco, error, prev) = nco + LoopFilter(0, error, prev)
           /\ LoopFilter(0, error, error) = Integral * error
  <1>1. Proportional \in Int /\ Integral \in Int
    BY TrackingConstants
  <1>2. PICK p \in Int, q \in Int : p = Proportional * (error - prev) /\ q = Integral * error
    BY <1>1
  <1>3. Proportional * (error - error) = 0
    BY <1>1
  <1> QED
    BY <1>2, <1>3 DEF LoopFilter

\* Both oscillators move on by what the correlator adds before it wraps.
LEMMA PhasesMove ==
    ASSUME TrackingTypes, PhaseInv, AdvancePhases
    PROVE  /\ PhaseInv'
           /\ m_remCodePhase' \in Int /\ m_remCarrPhase' \in Int
           /\ codePhase' \in Int /\ carrPhase' \in Int
  <1>1. PICK d \in Int, e \in Int : /\ d = TotalSamples * m_codePhaseStep
                                    /\ e = TotalSamples * m_carrFreq
                                    /\ e = m_carrFreq * TotalSamples
    BY TrackingConstants DEF TrackingTypes
  <1>2. CodeUnits \in Nat \ {0} /\ Circle \in Nat \ {0}
    BY TrackingConstants
  <1>3. /\ m_remCodePhase \in Int /\ m_remCarrPhase \in Int
        /\ codePhase \in Int /\ carrPhase \in Int
    BY DEF TrackingTypes
  <1>4. /\ m_remCodePhase' = FMod(m_remCodePhase + d, CodeUnits)
        /\ m_remCarrPhase' = FMod(e + m_remCarrPhase, Circle)
        /\ codePhase' = codePhase + d /\ carrPhase' = carrPhase + e
    BY <1>1 DEF AdvancePhases
  <1>5. /\ m_remCodePhase + d \in Int /\ m_remCarrPhase + e \in Int
        /\ e + m_remCarrPhase = m_remCarrPhase + e
        /\ codePhase + d \in Int /\ carrPhase + e \in Int
    BY <1>3
  <1>6. /\ m_remCodePhase' \in Int /\ Congruent(m_remCodePhase', m_remCodePhase + d, CodeUnits)
        /\ m_remCarrPhase' \in Int /\ Congruent(m_remCarrPhase', m_remCarrPhase + e, Circle)
    BY <1>2, <1>4, <1>5, FModIsCongruent
  <1>7. Congruent(m_remCodePhase', codePhase + d, CodeUnits)
    BY <1>2, <1>3, <1>6, CongruentMoves DEF PhaseInv
  <1>8. Congruent(m_remCarrPhase', carrPhase + e, Circle)
    BY <1>2, <1>3, <1>6, CongruentMoves DEF PhaseInv
  <1>9. CodeUnits' = CodeUnits
    BY DEF CodeUnits
  <1> QED
    BY <1>4, <1>5, <1>6, <1>7, <1>8, <1>9 DEF PhaseInv, Congruent

LEMMA TrackingInvInit == TrackingInit => TrackingInv
  <1> SUFFICES ASSUME TrackingInit PROVE TrackingInv
    OBVIOUS
  <1>1. TrackingTypes
    <2>1. magnitudeKnown = FALSE /\ m_blocksSinceInit = 0
      BY DEF TrackingInit
    <2>2. /\ m_carrFreqBasis \in Int /\ m_carrFreq \in Int
          /\ m_fllNco \in Int /\ m_carrNco \in Int /\ m_carrErrorPrev \in Int
      BY DEF TrackingInit
    <2>3. /\ m_codePhaseStep \in Int /\ m_remCodePhase \in Int /\ m_remCarrPhase \in Int
          /\ codePhase \in Int /\ carrPhase \in Int
      BY TrackingConstants DEF TrackingInit
    <2> QED
      BY <2>1, <2>2, <2>3 DEF TrackingTypes
  <1>2. PhaseInv
    <2>1. /\ m_remCodePhase = codePhase + 0 * CodeUnits
          /\ m_remCarrPhase = carrPhase + 0 * Circle
      BY TrackingConstants DEF TrackingInit
    <2> QED
      BY <2>1 DEF PhaseInv, Congruent
  <1>3. CarrierInv
    BY TrackingConstants DEF TrackingInit, CarrierInv, NcoInCharge
  <1> QED
    BY <1>1, <1>2, <1>3 DEF TrackingInv

\* The frequency after a block is the basis and the NCO in charge of the next.
LEMMA LoopsKeepCarrier ==
    ASSUME TrackingTypes, NEW b \in RealBlocks, PullIn(b) \/ PhaseLock(b),
           m_blocksSinceInit' = m_blocksSinceInit + 1
    PROVE  /\ m_carrFreqBasis' \in Int /\ m_carrFreq' \in Int
           /\ m_fllNco' \in Int /\ m_carrNco' \in Int /\ m_carrErrorPrev' \in Int
           /\ magnitudeKnown' \in BOOLEAN
           /\ CarrierInv'
  <1> USE BlockTypes, TrackingConstants
  <1>0. /\ m_carrFreqBasis \in Int /\ m_fllNco \in Int /\ m_carrNco \in Int
        /\ m_carrErrorPrev \in Int /\ m_blocksSinceInit \in Nat
        /\ magnitudeKnown \in BOOLEAN
    BY DEF TrackingTypes
  <1>1. magnitudeKnown' \in BOOLEAN
    BY <1>0, Zenon DEF PullIn, PhaseLock, UpdateMagnitude
  <1>2. CASE PullIn(b)
    <2>1. m_blocksSinceInit < PullInBlocks
      BY <1>2 DEF PullIn
    <2>2. /\ m_fllNco' \in Int /\ m_carrFreq' = m_carrFreqBasis' + m_fllNco'
          /\ UNCHANGED <<m_carrFreqBasis, m_carrNco, m_carrErrorPrev>>
      BY <1>0, <1>2 DEF PullIn, FllDiscriminator
    <2>3. m_blocksSinceInit' <= PullInBlocks
      BY <1>0, <2>1
    <2> QED
      BY <1>0, <1>1, <2>2, <2>3 DEF CarrierInv, NcoInCharge
  <1>3. CASE PhaseLock(b)
    <2>1. ~(m_blocksSinceInit' <= PullInBlocks)
      BY <1>0, <1>3 DEF PhaseLock
    <2>2. PICK nco \in Int, prev \in Int :
             PllDiscriminators(b, nco, prev) \/ HoldPll(nco, prev)
      BY <1>0, <1>3 DEF PhaseLock
    <2>3. CASE PllDiscriminators(b, nco, prev)
      <3>1. Bleed(nco) \in Int
        BY BleedType
      <3>2. m_carrFreqBasis + Bleed(nco) \in Int /\ nco - Bleed(nco) \in Int
        BY <1>0, <3>1
      <3>3. m_carrFreqBasis' \in Int
        BY <2>3, <3>2, ClampType DEF PllDiscriminators
      <3>4. m_carrNco' \in Int
        BY <2>3, <3>2, LoopFilterType DEF PllDiscriminators
      <3>5. /\ m_carrErrorPrev' = b.error /\ m_fllNco' = m_fllNco
            /\ m_carrFreq' = m_carrFreqBasis' + m_carrNco'
        BY <2>3 DEF PllDiscriminators
      <3> QED
        BY <1>0, <1>1, <2>1, <3>3, <3>4, <3>5 DEF CarrierInv, NcoInCharge
    <2>4. CASE HoldPll(nco, prev)
      BY <1>0, <1>1, <2>1, <2>4 DEF HoldPll, CarrierInv, NcoInCharge
    <2> QED
      BY <2>2, <2>3, <2>4
  <1> QED
    BY <1>2, <1>3

LEMMA TrackingInvStep == TrackingInv /\ [TrackingNext]_trackingVars => TrackingInv'
  <1> SUFFICES ASSUME TrackingInv, [TrackingNext]_trackingVars PROVE TrackingInv'
    OBVIOUS
  <1> USE DEF TrackingInv
  <1>1. ASSUME UNCHANGED <<m_blocksSinceInit, carrierVars, magnitudeKnown, phaseVars>>
        PROVE  TrackingInv'
    BY <1>1 DEF carrierVars, phaseVars, TrackingTypes, PhaseInv, CarrierInv, NcoInCharge,
                CodeUnits, Congruent
  <1>2. CASE BuildTable \/ UNCHANGED trackingVars
    BY <1>1, <1>2 DEF BuildTable, trackingVars
  <1>3. CASE InitTrackingState
    <2>1. PICK doppler \in Dopplers, sign \in {-1, 1},
               chips \in {0, NominalStep, CodeUnits - NominalStep} :
             StartsAt(sign * doppler, chips)
      BY <1>3 DEF InitTrackingState
    <2>2. doppler \in Int /\ chips \in Int
      BY TrackingAssumption, TrackingConstants
    <2>3. sign * doppler \in Int
      BY <2>2
    <2>4. TrackingTypes'
      <3>1. magnitudeKnown' = FALSE /\ m_blocksSinceInit' = 0
        BY <2>1 DEF StartsAt
      <3>2. /\ m_carrFreqBasis' \in Int /\ m_carrFreq' \in Int
            /\ m_fllNco' \in Int /\ m_carrNco' \in Int /\ m_carrErrorPrev' \in Int
        BY <2>1, <2>3 DEF StartsAt
      <3>3. /\ m_codePhaseStep' \in Int /\ m_remCodePhase' \in Int /\ m_remCarrPhase' \in Int
            /\ codePhase' \in Int /\ carrPhase' \in Int
        BY <2>1, <2>2, TrackingConstants DEF StartsAt
      <3> QED
        BY <3>1, <3>2, <3>3 DEF TrackingTypes
    <2>5. /\ m_remCodePhase' = codePhase' /\ m_remCarrPhase' = carrPhase'
          /\ codePhase' \in Int /\ carrPhase' \in Int
      BY <2>1, <2>2 DEF StartsAt
    <2>6. /\ codePhase' = codePhase' + 0 * CodeUnits /\ carrPhase' = carrPhase' + 0 * Circle
      <3>1. 0 * CodeUnits = 0 /\ 0 * Circle = 0
        BY TrackingConstants
      <3> QED
        BY <2>5, <3>1
    <2>7. PhaseInv'
      BY <2>5, <2>6 DEF PhaseInv, Congruent, CodeUnits
    <2>8. CarrierInv'
      BY <2>1, <2>3, TrackingConstants DEF StartsAt, CarrierInv, NcoInCharge
    <2> QED
      BY <2>4, <2>7, <2>8
  <1>4. ASSUME NEW b \in RealBlocks, DoWork(b) PROVE TrackingInv'
    <2>1. /\ AdvancePhases
          /\ PullIn(b) \/ PhaseLock(b)
          /\ m_blocksSinceInit' = m_blocksSinceInit + 1
          /\ CodeDiscriminator(b)
      BY <1>4 DEF DoWork
    <2>2. /\ PhaseInv'
          /\ m_remCodePhase' \in Int /\ m_remCarrPhase' \in Int
          /\ codePhase' \in Int /\ carrPhase' \in Int
      BY <2>1, PhasesMove
    <2>3. /\ m_carrFreqBasis' \in Int /\ m_carrFreq' \in Int
          /\ m_fllNco' \in Int /\ m_carrNco' \in Int /\ m_carrErrorPrev' \in Int
          /\ magnitudeKnown' \in BOOLEAN
          /\ CarrierInv'
      BY <1>4, <2>1, LoopsKeepCarrier
    <2>4. m_codePhaseStep' \in Int
      <3>1. m_carrFreq' \div CarrierToCode \in Int
        BY <2>3, TrackingConstants, Division
      <3>2. b.codeNco \in Int
        BY <1>4, BlockTypes
      <3> QED
        BY <2>1, <3>1, <3>2, TrackingConstants DEF CodeDiscriminator
    <2>5. m_blocksSinceInit' \in Nat
      BY <2>1 DEF TrackingTypes
    <2> QED
      BY <2>2, <2>3, <2>4, <2>5 DEF TrackingTypes
  <1> QED
    BY <1>2, <1>3, <1>4 DEF TrackingNext


-----------------------------------------------------------------------------
(* Results *)

\* In every state the correlator's wrapped phases are the oscillators' up to whole
\* codes and turns, and the carrier frequency is its basis plus the NCO of the
\* loop in charge, across pull-in, handover, fades and reacquisition.
THEOREM TrackingInvariant == TrackingSpec => []TrackingInv
  BY TrackingInvInit, TrackingInvStep, PTL DEF TrackingSpec

\* However many blocks were tracked, prompt, early and late chip and the carrier
\* angle of every sample of the next block are those of oscillators that never
\* wrap: correlator() loses nothing to fmod, to the cast of a negative phase, to
\* the wrap of the code or to the tail behind the lanes.
THEOREM ReplicaStaysTrue == TrackingSpec => []ReplicaIsTrue
  <1>1. TrackingInv => ReplicaIsTrue
    <2> SUFFICES ASSUME TrackingInv PROVE ReplicaIsTrue
      OBVIOUS
    <2> SUFFICES ASSUME NEW i \in 0 .. TotalSamples - 1
                 PROVE  LET phase == codePhase + i * m_codePhaseStep
                        IN  /\ PromptIndex(i) = ChipAt(phase)
                            /\ EarlyIndex(i) = ChipAt(phase - Unit \div 2)
                            /\ LateIndex(i) = ChipAt(phase + Unit \div 2)
                            /\ SameAngle(CarrierAngle(i), carrPhase + i * m_carrFreq)
      BY DEF ReplicaIsTrue
    <2>1. TrackingTypes /\ PhaseInv /\ i \in Nat
      BY TrackingConstants DEF TrackingInv
    <2> QED
      BY <2>1, ChipsAreTrue, CarrierIsTrue
  <1> QED
    BY <1>1, TrackingInvariant, PTL

\* The step of one block
LEMMA CarrierMovesByCorrection ==
    ASSUME TrackingInv, NEW b \in RealBlocks, DoWork(b)
    PROVE  LET move == m_carrFreq' - m_carrFreq
           IN  IF ~Reliable(b) THEN move = 0
               ELSE \/ Saturates
                    \/ m_blocksSinceInit < PullInBlocks /\ move \in {0, b.error}
                    \/ m_blocksSinceInit = PullInBlocks /\ move = Integral * b.error
                    \/ /\ m_blocksSinceInit > PullInBlocks
                       /\ move = LoopFilter(0, b.error, m_carrErrorPrev)
  <1> DEFINE move == m_carrFreq' - m_carrFreq
             nco == NcoInCharge
  <1>0. /\ m_carrFreqBasis \in Int /\ m_fllNco \in Int /\ m_carrNco \in Int
        /\ m_carrErrorPrev \in Int /\ m_blocksSinceInit \in Nat /\ m_carrFreq \in Int
        /\ b.error \in Int /\ PullInBlocks \in Nat
    BY BlockTypes, TrackingConstants DEF TrackingInv, TrackingTypes
  <1>1. nco \in Int /\ m_carrFreq = m_carrFreqBasis + nco
    BY <1>0 DEF TrackingInv, CarrierInv, NcoInCharge
  <1>2. PullIn(b) \/ PhaseLock(b)
    BY DEF DoWork
  <1>3. CASE PullIn(b)
    <2>1. m_blocksSinceInit < PullInBlocks /\ nco = m_fllNco
      BY <1>0, <1>3 DEF PullIn, NcoInCharge
    <2>2. CASE ~Reliable(b)
      <3>1. m_carrFreq' = m_carrFreqBasis + m_fllNco
        BY <1>3, <2>2 DEF PullIn
      <3> QED
        BY <1>0, <1>1, <2>1, <2>2, <3>1
    <2>3. CASE Reliable(b)
      <3>1. \/ m_carrFreq' = m_carrFreqBasis + (m_fllNco + b.error)
            \/ m_carrFreq' = m_carrFreqBasis + (m_fllNco + 0)
        BY <1>3, <2>3 DEF PullIn, FllDiscriminator
      <3>2. move \in {0, b.error}
        BY <1>0, <1>1, <2>1, <3>1
      <3> QED
        BY <2>1, <2>3, <3>2
    <2> QED
      BY <2>2, <2>3
  <1>4. CASE PhaseLock(b)
    <2> DEFINE handover == m_blocksSinceInit = PullInBlocks
               prev == IF handover THEN b.error ELSE m_carrErrorPrev
    <2>1. /\ m_blocksSinceInit >= PullInBlocks
          /\ nco = IF handover THEN m_fllNco ELSE m_carrNco
      BY <1>0, <1>4 DEF PhaseLock, NcoInCharge
    <2>2. \/ Reliable(b) /\ PllDiscriminators(b, nco, prev)
          \/ ~Reliable(b) /\ HoldPll(nco, prev)
      BY <1>4, <2>1 DEF PhaseLock
    <2>3. prev \in Int
      BY <1>0
    <2>4. CASE ~Reliable(b)
      <3>1. m_carrFreq' = m_carrFreqBasis + nco
        BY <2>2, <2>4 DEF HoldPll
      <3> QED
        BY <1>0, <1>1, <2>4, <3>1
    <2>5. CASE Reliable(b) /\ ~Saturates
      <3>1. nco \in {m_fllNco, m_carrNco} /\ Bleed(nco) \in Int
        BY <1>1, <2>1, BleedType
      <3>2. Clamp(m_carrFreqBasis + Bleed(nco), BasisLimit) = m_carrFreqBasis + Bleed(nco)
        BY <2>5, <3>1 DEF Saturates
      <3>3. m_carrFreqBasis' = m_carrFreqBasis + Bleed(nco)
        BY <2>2, <2>5, <3>2 DEF PllDiscriminators
      <3>4. nco - Bleed(nco) \in Int
        BY <1>1, <3>1
      <3>5. m_carrNco' = (nco - Bleed(nco)) + LoopFilter(0, b.error, prev)
        BY <1>0, <2>2, <2>3, <2>5, <3>4, LoopFilterType, ZenonT(60) DEF PllDiscriminators
      <3>6. m_carrFreq' = m_carrFreqBasis' + m_carrNco'
        BY <2>2, <2>5 DEF PllDiscriminators
      <3>7. LoopFilter(0, b.error, prev) \in Int
        BY <1>0, <2>3, LoopFilterType
      <3>8. move = LoopFilter(0, b.error, prev)
        BY <1>0, <1>1, <3>1, <3>3, <3>5, <3>6, <3>7
      <3>9. CASE handover
        <4>1. LoopFilter(0, b.error, prev) = Integral * b.error
          BY <1>0, <3>9, LoopFilterType
        <4> QED
          BY <2>5, <3>8, <3>9, <4>1
      <3>10. CASE ~handover
        <4>1. m_blocksSinceInit > PullInBlocks
          BY <1>0, <2>1, <3>10
        <4> QED
          BY <2>5, <3>8, <3>10, <4>1
      <3> QED
        BY <3>9, <3>10
    <2> QED
      BY <2>4, <2>5
  <1> QED
    BY <1>2, <1>3, <1>4

\* No block moves the carrier frequency but by the correction of its own loop: a
\* faded block holds it, also at the handover, and neither the handover from the
\* FLL to the Costas loop nor rate aiding shows as a step, unless the basis is
\* clamped.
THEOREM CarrierNeverJumps == TrackingSpec => CarrierHasNoSteps
  <1> DEFINE Smooth ==
        \A b \in RealBlocks : DoWork(b) =>
            LET move == m_carrFreq' - m_carrFreq
            IN  IF ~Reliable(b) THEN move = 0
                ELSE \/ Saturates
                     \/ m_blocksSinceInit < PullInBlocks /\ move \in {0, b.error}
                     \/ m_blocksSinceInit = PullInBlocks /\ move = Integral * b.error
                     \/ /\ m_blocksSinceInit > PullInBlocks
                        /\ move = LoopFilter(0, b.error, m_carrErrorPrev)
  <1>1. TrackingInv => Smooth
    BY CarrierMovesByCorrection
  <1> HIDE DEF Smooth
  <1>2. TrackingInv /\ [TrackingNext]_trackingVars => [Smooth]_trackingVars
    BY <1>1
  <1>3. TrackingSpec => [][Smooth]_trackingVars
    BY <1>2, TrackingInvariant, PTL DEF TrackingSpec
  <1> QED
    BY <1>3 DEF CarrierHasNoSteps, Smooth

-----------------------------------------------------------------------------
(* The position solver *)

\* Of the numbers with a property there is a least one.
LEMMA LeastNumber ==
    ASSUME NEW X \in SUBSET Nat, X # {}
    PROVE  \E x \in X : \A y \in X : x <= y
  <1> DEFINE Less == {p \in Nat \X Nat : p[1] < p[2]}
  <1>1. IsWellFoundedOn(Less, Nat)
    BY NatLessThanWellFounded, Zenon DEF OpToRel
  <1>2. PICK x \in X : \A y \in X : <<y, x>> \notin Less
    BY <1>1, WFMin
  <1>3. ASSUME NEW y \in X PROVE x <= y
    <2>1. x \in Nat /\ y \in Nat /\ <<y, x>> \notin Less
      BY <1>2
    <2>2. ~(y < x)
      BY <2>1
    <2> QED
      BY <2>1, <2>2
  <1> QED
    BY <1>3

LEMMA BoundedSetIsFinite ==
    ASSUME NEW N \in Nat, NEW S \in SUBSET (1 .. N)
    PROVE  /\ IsFiniteSet(S) /\ Cardinality(S) \in Nat
           /\ \A y \in S : y \in Nat /\ 1 <= y /\ y <= N
  <1>1. IsFiniteSet(1 .. N)
    BY FS_Interval
  <1>2. IsFiniteSet(S)
    BY <1>1, FS_Subset
  <1>3. Cardinality(S) \in Nat
    BY <1>2, FS_CardinalityType
  <1>4. \A y \in S : y \in 1 .. N
    OBVIOUS
  <1> QED
    BY <1>2, <1>3, <1>4

\* How many members of S are at most n.
Rank(S, n) == Cardinality({y \in S : y <= n})

LEMMA RankStep ==
    ASSUME NEW N \in Nat, NEW S \in SUBSET (1 .. N), NEW n \in 1 .. N
    PROVE  /\ Rank(S, n) \in Nat /\ Rank(S, n - 1) \in Nat
           /\ Rank(S, n) = Rank(S, n - 1) + (IF n \in S THEN 1 ELSE 0)
  <1> DEFINE upTo == {y \in S : y <= n}
             below == {y \in S : y <= n - 1}
  <1>1. \A y \in S : y \in Nat /\ 1 <= y /\ y <= N
    BY BoundedSetIsFinite
  <1>2. /\ IsFiniteSet(upTo) /\ IsFiniteSet(below)
        /\ Cardinality(upTo) \in Nat /\ Cardinality(below) \in Nat
    <2>1. upTo \in SUBSET (1 .. N) /\ below \in SUBSET (1 .. N)
      BY Zenon
    <2> QED
      BY <2>1, BoundedSetIsFinite
  <1>3. CASE n \in S
    <2>1. upTo = below \cup {n} /\ n \notin below
      <3>1. \A y \in S : y <= n <=> (y <= n - 1 \/ y = n)
        BY <1>1
      <3>2. ~(n <= n - 1)
        OBVIOUS
      <3> QED
        BY <1>3, <3>1, <3>2, Zenon
    <2> QED
      BY <1>2, <1>3, <2>1, FS_AddElement DEF Rank
  <1>4. CASE n \notin S
    <2>1. upTo = below
      <3>1. \A y \in S : y <= n <=> y <= n - 1
        BY <1>1, <1>4
      <3> QED
        BY <3>1, Zenon
    <2> QED
      BY <1>2, <1>4, <2>1 DEF Rank
  <1> QED
    BY <1>3, <1>4

\* Every position up to the size of S is taken by a member.
LEMMA RankReached ==
    ASSUME NEW N \in Nat, NEW S \in SUBSET (1 .. N), NEW k \in 1 .. Cardinality(S)
    PROVE  \E x \in S : Rank(S, x) = k
  <1> DEFINE X == {n \in 0 .. N : Rank(S, n) >= k}
  <1>1. IsFiniteSet(S) /\ Cardinality(S) \in Nat
    BY BoundedSetIsFinite
  <1>2. Rank(S, N) = Cardinality(S)
    <2>1. {y \in S : y <= N} = S
      BY BoundedSetIsFinite
    <2> QED
      BY <2>1 DEF Rank
  <1>3. Rank(S, 0) = 0
    <2>1. {y \in S : y <= 0} = {}
      <3>1. \A y \in S : ~(y <= 0)
        BY BoundedSetIsFinite
      <3> QED
        BY <3>1, Zenon
    <2> QED
      BY <2>1, FS_EmptySet DEF Rank
  <1>4. X # {} /\ X \in SUBSET Nat
    BY <1>1, <1>2
  <1>5. PICK n \in X : \A m \in X : n <= m
    <2> HIDE DEF X
    <2> QED
      BY <1>4, LeastNumber
  <1>6. n \in 1 .. N
    BY <1>3, <1>5
  <1>7. n - 1 \in 0 .. N /\ ~(Rank(S, n - 1) >= k)
    BY <1>5, <1>6
  <1>8. Rank(S, n - 1) \in Nat /\ Rank(S, n) = Rank(S, n - 1) + (IF n \in S THEN 1 ELSE 0)
    BY <1>6, RankStep
  <1> QED
    BY <1>5, <1>7, <1>8

LEMMA InOrderIsBijection ==
    ASSUME NEW N \in Nat, NEW S \in SUBSET (1 .. N)
    PROVE  /\ Cardinality(S) \in Nat
           /\ InOrder(S) \in Seq(S) /\ InOrder(S) \in [1 .. Cardinality(S) -> S]
           /\ Len(InOrder(S)) = Cardinality(S)
           /\ InOrder(S) \in Bijection(1 .. Cardinality(S), S)
  <1> DEFINE n == Cardinality(S)
             s == InOrder(S)
  <1>1. IsFiniteSet(S) /\ n \in Nat
    BY BoundedSetIsFinite
  <1>2. ASSUME NEW k \in 1 .. n PROVE s[k] \in S /\ Rank(S, s[k]) = k
    <2>1. \E x \in S : Rank(S, x) = k
      BY RankReached
    <2>2. s[k] = CHOOSE x \in S : Rank(S, x) = k
      BY DEF InOrder, Rank
    <2> QED
      BY <2>1, <2>2
  <1>3. s \in [1 .. n -> S]
    BY <1>2 DEF InOrder
  <1>4. s \in Injection(1 .. n, S)
    <2>1. \A k, l \in 1 .. n : s[k] = s[l] => k = l
      BY <1>2
    <2> QED
      BY <1>3, <2>1 DEF Injection, IsInjective
  <1>5. s \in Surjection(1 .. n, S)
    <2>1. Cardinality(1 .. n) = n
      BY <1>1, FS_Interval
    <2> HIDE DEF s
    <2> QED
      BY <1>1, <1>4, <2>1, FS_Injection
  <1> QED
    BY <1>1, <1>3, <1>4, <1>5 DEF Bijection


-----------------------------------------------------------------------------
(* Rows *)

LEMMA RemovedRow ==
    ASSUME NEW R, NEW s \in Seq(R), NEW w \in 1 .. Len(s)
    PROVE  /\ RemoveAt(s, w) \in Seq(R)
           /\ Len(RemoveAt(s, w)) = Len(s) - 1
           /\ \A i \in 1 .. Len(s) - 1 :
                 RemoveAt(s, w)[i] = IF i < w THEN s[i] ELSE s[i + 1]
  <1> DEFINE head == SubSeq(s, 1, w - 1)
             tail == SubSeq(s, w + 1, Len(s))
  <1>1. /\ head \in Seq(R) /\ Len(head) = w - 1
        /\ \A i \in 1 .. w - 1 : head[i] = s[i]
    BY SubSeqProperties
  <1>2. /\ tail \in Seq(R) /\ Len(tail) = Len(s) - w
        /\ \A i \in 1 .. Len(s) - w : tail[i] = s[w + i]
    BY SubSeqProperties
  <1>3. RemoveAt(s, w) = head \o tail
    BY DEF RemoveAt
  <1> HIDE DEF head, tail
  <1>4. /\ head \o tail \in Seq(R)
        /\ Len(head \o tail) = Len(head) + Len(tail)
        /\ \A i \in 1 .. Len(head) + Len(tail) : (head \o tail)[i] =
              IF i <= Len(head) THEN head[i] ELSE tail[i - Len(head)]
    BY <1>1, <1>2, ConcatProperties
  <1>5. Len(s) \in Nat
    OBVIOUS
  <1>6. ASSUME NEW i \in 1 .. Len(s) - 1
        PROVE  (head \o tail)[i] = IF i < w THEN s[i] ELSE s[i + 1]
    <2>1. CASE i < w
      BY <1>1, <1>2, <1>4, <1>5, <2>1
    <2>2. CASE i >= w
      <3>1. i - (w - 1) \in 1 .. Len(s) - w /\ w + (i - (w - 1)) = i + 1
        BY <1>5, <2>2
      <3>2. (head \o tail)[i] = tail[i - (w - 1)]
        BY <1>1, <1>2, <1>4, <1>5, <2>2
      <3>3. tail[i - (w - 1)] = s[w + (i - (w - 1))]
        BY <1>2, <3>1
      <3>4. s[w + (i - (w - 1))] = s[i + 1] /\ ~(i < w)
        BY <1>5, <2>2, <3>1
      <3> QED
        BY <3>2, <3>3, <3>4, Zenon
    <2>3. i < w \/ i >= w
      BY <1>5
    <2> QED
      BY <2>1, <2>2, <2>3, Zenon
  <1> QED
    BY <1>1, <1>2, <1>3, <1>4, <1>5, <1>6

-----------------------------------------------------------------------------
(* The invariant of module Navigation *)

NavigationTypes ==
    /\ pc \in {"block", "solve", "publish"}
    /\ m_hasValidFix \in BOOLEAN /\ m_referenceEcef \in Places
    /\ channels \in [Satellites -> Observations]
    /\ orbits \in Seq(Satellites)
    /\ \E R : correctedRanges \in Seq(R)
    /\ \E R : usedTransmitTimes \in Seq(R)
    /\ rejected \in Nat

\* The gate only removes a row while more than the minimum remain after it.
GateInv ==
    /\ pc # "block" => Len(orbits) >= MinSatellites
    /\ pc = "block" => rejected = 0
    /\ rejected > 0 => Len(orbits) >= MinSatellites + 1

\* Until the gate removes a row, a row's time is the one the assembler computed
\* for its satellite.
TimesInv ==
    pc = "solve" /\ rejected = 0 =>
        \A i \in DOMAIN usedTransmitTimes : \E j \in DOMAIN Prns(channels) :
            usedTransmitTimes[i] = [of |-> Prns(channels)[j],
                                    value |-> TransmitTimes(channels)[j]]

NavigationInv ==
    NavigationTypes /\ RowsAligned /\ GateInv /\ FixIsSound /\ TimesInv

LEMMA NavigationConstants ==
    /\ SatelliteCount \in Nat /\ MinSatellites \in Nat /\ MinSatellites >= 4
    /\ Ticks \in Nat \ {0} /\ SubframePeriods \in Nat \ {0}
    /\ WeekSubframes \in Nat \ {0} /\ Now \in Nat
  BY NavigationAssumption, AssemblerAssumption

LEMMA NavigationInvInit == Init => NavigationInv
  <1> SUFFICES ASSUME Init PROVE NavigationInv
    OBVIOUS
  <1>1. NavigationTypes
    <2>1. Healthy \in Observations
      BY DEF Observations
    <2>2. TruePlace \in Places
      BY DEF Places
    <2>3. channels \in [Satellites -> Observations]
      BY <2>1 DEF Init
    <2>4. <<>> \in Seq({}) /\ <<>> \in Seq(Satellites)
      OBVIOUS
    <2>5. (\E R : correctedRanges \in Seq(R)) /\ (\E R : usedTransmitTimes \in Seq(R))
      BY <2>4 DEF Init
    <2> QED
      BY <2>2, <2>3, <2>4, <2>5 DEF Init, NavigationTypes
  <1>2. RowsAligned
    BY DEF Init, RowsAligned
  <1> QED
    BY <1>1, <1>2, NavigationConstants
    DEF Init, NavigationInv, GateInv, FixIsSound, TimesInv

LEMMA ReturnKeepsInv ==
    ASSUME NavigationInv, Return, UNCHANGED <<m_referenceEcef, m_hasValidFix>>
    PROVE  NavigationInv'
  <1>1. NavigationTypes'
    <2>1. Healthy \in Observations
      BY DEF Observations
    <2>2. channels' \in [Satellites -> Observations]
      BY <2>1 DEF Return
    <2>3. <<>> \in Seq({}) /\ <<>> \in Seq(Satellites)
      OBVIOUS
    <2>4. (\E R : correctedRanges \in Seq(R))' /\ (\E R : usedTransmitTimes \in Seq(R))'
      BY <2>3 DEF Return
    <2> QED
      BY <2>2, <2>3, <2>4 DEF Return, NavigationTypes, NavigationInv
  <1>2. RowsAligned'
    BY DEF Return, RowsAligned
  <1> QED
    BY <1>1, <1>2, NavigationConstants
    DEF Return, NavigationInv, GateInv, FixIsSound, TimesInv

\* The satellites of an epoch, one position each.
LEMMA PrnsIsBijection ==
    ASSUME NEW ch
    PROVE  LET prns == Prns(ch)
               S == {i \in Satellites : Contributes(ch[i])}
           IN  /\ Cardinality(S) \in Nat /\ Len(prns) = Cardinality(S)
               /\ prns \in Seq(Satellites) /\ prns \in [1 .. Len(prns) -> Satellites]
               /\ prns \in Bijection(1 .. Len(prns), S)
  <1> DEFINE S == {i \in Satellites : Contributes(ch[i])}
  <1>1. SatelliteCount \in Nat /\ S \in SUBSET (1 .. SatelliteCount)
    BY NavigationConstants, Zenon DEF Satellites
  <1>2. Prns(ch) = InOrder(S)
    BY DEF Prns
  <1>3. /\ Cardinality(S) \in Nat
        /\ InOrder(S) \in Seq(S) /\ InOrder(S) \in [1 .. Cardinality(S) -> S]
        /\ Len(InOrder(S)) = Cardinality(S)
        /\ InOrder(S) \in Bijection(1 .. Cardinality(S), S)
    <2> HIDE DEF S
    <2> QED
      BY <1>1, InOrderIsBijection
  <1>4. S \subseteq Satellites
    OBVIOUS
  <1> HIDE DEF S
  <1>5. InOrder(S) \in Seq(Satellites)
    BY <1>3, <1>4
  <1> QED
    BY <1>2, <1>3, <1>4, <1>5 DEF S

LEMMA KeptIsInRange ==
    ASSUME NEW n \in Nat, NEW prns \in [1 .. n -> Satellites]
    PROVE  Len(Kept(prns)) \in Nat /\ Kept(prns) \in [1 .. Len(Kept(prns)) -> 1 .. n]
  <1> DEFINE K == {i \in DOMAIN prns : prns[i] \notin Masked}
  <1>1. K \in SUBSET (1 .. n)
    OBVIOUS
  <1> HIDE DEF K
  <1>2. /\ Cardinality(K) \in Nat /\ InOrder(K) \in [1 .. Cardinality(K) -> K]
        /\ Len(InOrder(K)) = Cardinality(K)
    BY <1>1, InOrderIsBijection
  <1>3. Kept(prns) = InOrder(K)
    BY DEF Kept, K
  <1> QED
    BY <1>1, <1>2, <1>3

LEMMA StartSolveKeepsInv ==
    ASSUME NavigationInv, pc = "block", NEW ch \in [Satellites -> Observations],
           StartSolve(ch)
    PROVE  NavigationInv'
  <1> DEFINE prns == Prns(ch)
             times == TransmitTimes(ch)
             kept == Kept(prns)
             n == Len(prns)
             m == Len(kept)
             rangeRows == Rows(prns, Pseudoranges(times))
             timeRows == Rows(prns, times)
             Values(rows) == {rows[i] : i \in 1 .. n}
  <1>1. n \in Nat /\ prns \in [1 .. n -> Satellites]
    BY PrnsIsBijection
  <1>2. m \in Nat /\ kept \in [1 .. m -> 1 .. n]
    BY <1>1, KeptIsInRange
  <1>3. /\ m >= MinSatellites
        /\ channels' = ch
        /\ orbits' = Compacted(prns, kept)
        /\ correctedRanges' = Compacted(rangeRows, kept)
        /\ usedTransmitTimes' = Compacted(timeRows, kept)
        /\ pc' = "solve"
        /\ UNCHANGED <<m_referenceEcef, m_hasValidFix, rejected>>
    BY DEF StartSolve
  <1>4. rangeRows \in [1 .. n -> Values(rangeRows)] /\ timeRows \in [1 .. n -> Values(timeRows)]
    BY <1>1 DEF Rows
  <1>5. \A i \in 1 .. n :
           /\ rangeRows[i].of = prns[i]
           /\ timeRows[i] = [of |-> prns[i], value |-> times[i]]
    BY <1>1 DEF Rows
  <1> HIDE DEF prns, times, kept, rangeRows, timeRows, Values, n, m
  <1>6. /\ orbits' \in Seq(Satellites) /\ Len(orbits') = m
        /\ \A k \in 1 .. m : orbits'[k] = prns[kept[k]]
    <2>1. /\ Compacted(prns, kept) \in Seq(Satellites) /\ Len(Compacted(prns, kept)) = m
          /\ \A k \in 1 .. m : Compacted(prns, kept)[k] = prns[kept[k]]
      BY <1>1, <1>2, SMT DEF Compacted
    <2> QED
      BY <1>3, <2>1
  <1>7. /\ correctedRanges' \in Seq(Values(rangeRows)) /\ Len(correctedRanges') = m
        /\ \A k \in 1 .. m : correctedRanges'[k] = rangeRows[kept[k]]
    <2>1. /\ Compacted(rangeRows, kept) \in Seq(Values(rangeRows))
          /\ Len(Compacted(rangeRows, kept)) = m
          /\ \A k \in 1 .. m : Compacted(rangeRows, kept)[k] = rangeRows[kept[k]]
      BY <1>1, <1>2, <1>4, SMT DEF Compacted
    <2> QED
      BY <1>3, <2>1
  <1>8. /\ usedTransmitTimes' \in Seq(Values(timeRows)) /\ Len(usedTransmitTimes') = m
        /\ \A k \in 1 .. m : usedTransmitTimes'[k] = timeRows[kept[k]]
    <2>1. /\ Compacted(timeRows, kept) \in Seq(Values(timeRows))
          /\ Len(Compacted(timeRows, kept)) = m
          /\ \A k \in 1 .. m : Compacted(timeRows, kept)[k] = timeRows[kept[k]]
      BY <1>1, <1>2, <1>4, SMT DEF Compacted
    <2> QED
      BY <1>3, <2>1
  <1>9. NavigationTypes'
    <2>1. (\E R : correctedRanges \in Seq(R))' /\ (\E R : usedTransmitTimes \in Seq(R))'
      BY <1>7, <1>8
    <2> QED
      BY <1>3, <1>6, <2>1 DEF NavigationInv, NavigationTypes
  <1>10. RowsAligned'
    <2>1. DOMAIN orbits' = 1 .. m
      BY <1>6
    <2>2. ASSUME NEW k \in 1 .. m
          PROVE  correctedRanges'[k].of = orbits'[k] /\ usedTransmitTimes'[k].of = orbits'[k]
      <3>1. kept[k] \in 1 .. n
        BY <1>2
      <3>2. orbits'[k] = prns[kept[k]] /\ correctedRanges'[k] = rangeRows[kept[k]]
        BY <1>6, <1>7
      <3>3. usedTransmitTimes'[k] = [of |-> prns[kept[k]], value |-> times[kept[k]]]
        BY <1>5, <1>8, <3>1
      <3>4. rangeRows[kept[k]].of = prns[kept[k]]
        BY <1>5, <3>1
      <3> QED
        BY <3>2, <3>3, <3>4
    <2> QED
      BY <1>6, <1>7, <1>8, <2>1, <2>2 DEF RowsAligned
  <1>11. GateInv' /\ FixIsSound'
    <2>1. rejected = 0
      BY DEF NavigationInv, GateInv
    <2> QED
      BY <1>3, <1>6, <2>1 DEF GateInv, FixIsSound
  <1>12. TimesInv'
    <2>1. Prns(channels)' = prns /\ TransmitTimes(channels)' = times
      <3>1. channels' = ch /\ m_hasValidFix' = m_hasValidFix /\ m_referenceEcef' = m_referenceEcef
        BY <1>3
      <3> QED
        BY <3>1 DEF Prns, TransmitTimes, prns, times
    <2>2. DOMAIN prns = 1 .. n /\ DOMAIN usedTransmitTimes' = 1 .. m
      BY <1>1, <1>8
    <2>3. ASSUME NEW k \in 1 .. m
          PROVE  \E j \in 1 .. n :
                    usedTransmitTimes'[k] = [of |-> prns[j], value |-> times[j]]
      <3>1. kept[k] \in 1 .. n
        BY <1>2
      <3> QED
        BY <1>5, <1>8, <3>1
    <2> QED
      BY <2>1, <2>2, <2>3 DEF TimesInv
  <1> QED
    BY <1>9, <1>10, <1>11, <1>12 DEF NavigationInv

LEMMA RejectWorstKeepsInv ==
    ASSUME NavigationInv, NEW worst \in DOMAIN orbits, RejectWorst(worst)
    PROVE  NavigationInv'
  <1> DEFINE n == Len(orbits)
  <1>1. PICK Ranges, Times : correctedRanges \in Seq(Ranges) /\ usedTransmitTimes \in Seq(Times)
    BY DEF NavigationInv, NavigationTypes
  <1>2. /\ orbits \in Seq(Satellites) /\ n \in Nat /\ worst \in 1 .. n
        /\ Len(correctedRanges) = n /\ Len(usedTransmitTimes) = n
        /\ \A i \in 1 .. n : correctedRanges[i].of = orbits[i] /\ usedTransmitTimes[i].of = orbits[i]
    BY DEF NavigationInv, NavigationTypes, RowsAligned
  <1>3. /\ orbits' \in Seq(Satellites) /\ Len(orbits') = n - 1
        /\ \A i \in 1 .. n - 1 : orbits'[i] = IF i < worst THEN orbits[i] ELSE orbits[i + 1]
    BY <1>2, RemovedRow DEF RejectWorst
  <1>4. /\ correctedRanges' \in Seq(Ranges) /\ Len(correctedRanges') = n - 1
        /\ \A i \in 1 .. n - 1 : correctedRanges'[i] =
              IF i < worst THEN correctedRanges[i] ELSE correctedRanges[i + 1]
    <2>1. correctedRanges \in Seq(Ranges) /\ worst \in 1 .. Len(correctedRanges) /\ n = Len(correctedRanges)
      BY <1>1, <1>2
    <2>2. correctedRanges' = RemoveAt(correctedRanges, worst)
      BY DEF RejectWorst
    <2> QED
      BY <2>1, <2>2, RemovedRow
  <1>5. /\ usedTransmitTimes' \in Seq(Times) /\ Len(usedTransmitTimes') = n - 1
        /\ \A i \in 1 .. n - 1 : usedTransmitTimes'[i] =
              IF i < worst THEN usedTransmitTimes[i] ELSE usedTransmitTimes[i + 1]
    <2>1. usedTransmitTimes \in Seq(Times) /\ worst \in 1 .. Len(usedTransmitTimes) /\ n = Len(usedTransmitTimes)
      BY <1>1, <1>2
    <2>2. usedTransmitTimes' = RemoveAt(usedTransmitTimes, worst)
      BY DEF RejectWorst
    <2> QED
      BY <2>1, <2>2, RemovedRow
  <1>6. /\ pc = "solve" /\ n >= MinSatellites + 2 /\ rejected' = rejected + 1
        /\ UNCHANGED <<m_referenceEcef, m_hasValidFix, channels, pc>>
    BY DEF RejectWorst, MayReject
  <1>7. NavigationTypes'
    <2>1. (\E R : correctedRanges \in Seq(R))' /\ (\E R : usedTransmitTimes \in Seq(R))'
      BY <1>4, <1>5
    <2> QED
      BY <1>3, <1>6, <2>1 DEF NavigationInv, NavigationTypes
  <1>8. RowsAligned'
    <2>1. DOMAIN orbits' = 1 .. n - 1
      BY <1>3
    <2>2. ASSUME NEW i \in 1 .. n - 1
          PROVE  correctedRanges'[i].of = orbits'[i] /\ usedTransmitTimes'[i].of = orbits'[i]
      <3>1. i \in 1 .. n /\ i + 1 \in 1 .. n
        BY <1>2
      <3> QED
        BY <1>2, <1>3, <1>4, <1>5, <3>1
    <2> QED
      BY <1>3, <1>4, <1>5, <2>1, <2>2 DEF RowsAligned
  <1>9. rejected \in Nat /\ rejected' > 0
    BY <1>6 DEF NavigationInv, NavigationTypes
  <1> QED
    BY <1>2, <1>3, <1>6, <1>7, <1>8, <1>9, NavigationConstants
    DEF NavigationInv, GateInv, FixIsSound, TimesInv

LEMMA ConvergedKeepsInv ==
    ASSUME NavigationInv, Converged
    PROVE  NavigationInv'
  <1>1. /\ pc = "solve" /\ pc' = "publish" /\ (Len(orbits) = 4 \/ RangesAgree)
        /\ m_hasValidFix' \in BOOLEAN /\ m_referenceEcef' \in Places
        /\ channels' = channels /\ orbits' = orbits /\ correctedRanges' = correctedRanges
        /\ usedTransmitTimes' = usedTransmitTimes /\ rejected' = rejected
    BY DEF Converged, rowVars
  <1>2. NavigationTypes' /\ RowsAligned' /\ TimesInv'
    BY <1>1 DEF NavigationInv, NavigationTypes, RowsAligned, TimesInv
  <1>3. GateInv'
    BY <1>1 DEF NavigationInv, GateInv
  <1>4. FixIsSound'
    <2>1. RangesAgree' = RangesAgree
      BY <1>1 DEF RangesAgree
    <2>2. Len(orbits) = 4 => rejected = 0
      BY NavigationConstants DEF NavigationInv, GateInv, NavigationTypes
    <2> QED
      BY <1>1, <2>1, <2>2 DEF FixIsSound
  <1> QED
    BY <1>2, <1>3, <1>4 DEF NavigationInv

LEMMA NavigationInvStep == NavigationInv /\ [Next]_vars => NavigationInv'
  <1> SUFFICES ASSUME NavigationInv, [Next]_vars PROVE NavigationInv'
    OBVIOUS
  <1>1. CASE UNCHANGED vars
    <2>1. UNCHANGED <<m_referenceEcef, m_hasValidFix, channels, pc, orbits,
                      correctedRanges, usedTransmitTimes, rejected>>
      BY <1>1 DEF vars, rowVars
    <2>2. NavigationTypes' /\ RowsAligned' /\ GateInv'
      BY <2>1 DEF NavigationInv, NavigationTypes, RowsAligned, GateInv
    <2>3. FixIsSound'
      BY <2>1 DEF NavigationInv, FixIsSound, RangesAgree
    <2>4. TimesInv'
      <3>1. /\ Prns(channels)' = Prns(channels)
            /\ TransmitTimes(channels)' = TransmitTimes(channels)
        BY <2>1 DEF Prns, TransmitTimes
      <3> QED
        BY <2>1, <3>1 DEF NavigationInv, TimesInv
    <2> QED
      BY <2>2, <2>3, <2>4 DEF NavigationInv
  <1>2. CASE Singular \/ GiveUp \/ Publish
    BY <1>2, ReturnKeepsInv DEF Singular, GiveUp, Publish
  <1>3. CASE Converged
    BY <1>3, ConvergedKeepsInv
  <1>4. CASE \E worst \in DOMAIN orbits : RejectWorst(worst)
    BY <1>4, RejectWorstKeepsInv
  <1>5. CASE ComputeNavigationSolution
    <2>1. PICK ch \in [Satellites -> Observations] :
             AssembleFails(ch) \/ TooFew(ch) \/ StartSolve(ch)
      BY <1>5 DEF ComputeNavigationSolution
    <2>2. CASE AssembleFails(ch) \/ TooFew(ch)
      BY <1>1, <2>2 DEF AssembleFails, TooFew
    <2>3. CASE StartSolve(ch)
      BY <1>5, <2>3, StartSolveKeepsInv DEF ComputeNavigationSolution
    <2> QED
      BY <2>1, <2>2, <2>3
  <1> QED
    BY <1>1, <1>2, <1>3, <1>4, <1>5 DEF Next, Solve

\* The inductive invariant of the solver holds, for any number of satellites.
THEOREM NavigationInvariant == Spec => []NavigationInv
  BY NavigationInvInit, NavigationInvStep, PTL DEF Spec

\* The mask and the outlier gate erase the same row from every array of the
\* solver: a range and a transmit time are always used with the orbit of their
\* own satellite.
THEOREM RowsStayAligned == Spec => []RowsAligned
  <1>1. NavigationInv => RowsAligned
    BY DEF NavigationInv
  <1> QED
    BY <1>1, NavigationInvariant, PTL

\* "One faulted measurement cannot poison the fix": solvePosition only publishes
\* a fix whose ranges agree, or one of four satellites that nothing was rejected
\* from, whatever the ranges, the mask and the order of the rejections.
THEOREM PublishedFixIsSound == Spec => []FixIsSound
  <1>1. NavigationInv => FixIsSound
    BY DEF NavigationInv
  <1> QED
    BY <1>1, NavigationInvariant, PTL

-----------------------------------------------------------------------------
(* The median of a majority *)

\* A value that more than half of the arrivals share is their median.
LEMMA MajorityIsMedian ==
    ASSUME NEW n \in Nat, NEW a \in [1 .. n -> Int], NEW v \in Int,
           2 * Cardinality({i \in 1 .. n : a[i] = v}) > n
    PROVE  Median(a) = v
  <1> DEFINE C == {i \in 1 .. n : a[i] = v}
             Below(w) == {i \in 1 .. n : a[i] < w}
             UpTo(w) == {i \in 1 .. n : a[i] <= w}
             Middle(w) == /\ Cardinality(Below(w)) <= n \div 2
                          /\ n \div 2 < Cardinality(UpTo(w))
             half == n \div 2
  <1>1. Len(a) = n
    OBVIOUS
  <1>2. Median(a) = CHOOSE w \in {a[i] : i \in 1 .. n} : Middle(w)
    BY <1>1 DEF Median
  <1>3. half \in Nat /\ 2 * half <= n /\ n <= 2 * half + 1
    OBVIOUS
  <1>4. IsFiniteSet(1 .. n) /\ Cardinality(1 .. n) = n
    BY FS_Interval
  <1>5. /\ IsFiniteSet(C) /\ Cardinality(C) \in Nat
        /\ \A w : /\ IsFiniteSet(Below(w)) /\ Cardinality(Below(w)) \in Nat
                  /\ IsFiniteSet(UpTo(w)) /\ Cardinality(UpTo(w)) \in Nat
    <2>1. C \in SUBSET (1 .. n)
      BY Zenon
    <2>2. ASSUME NEW w PROVE Below(w) \in SUBSET (1 .. n) /\ UpTo(w) \in SUBSET (1 .. n)
      BY Zenon
    <2> HIDE DEF C, Below, UpTo
    <2> QED
      BY <2>1, <2>2, BoundedSetIsFinite
  <1> HIDE DEF half
  <1>6. Cardinality(C) >= half + 1
    <2>1. 2 * Cardinality(C) > n
      OBVIOUS
    <2> HIDE DEF C
    <2> QED
      BY <1>3, <1>5, <2>1
  <1>7. Cardinality(Below(v)) <= half
    <2>1. C \cap Below(v) = {}
      <3>1. \A i \in 1 .. n : ~(a[i] = v /\ a[i] < v)
        OBVIOUS
      <3> QED
        BY <3>1, Zenon
    <2>2. C \cup Below(v) \in SUBSET (1 .. n)
      BY Zenon
    <2> HIDE DEF C, Below
    <2>3. Cardinality(C \cup Below(v)) = Cardinality(C) + Cardinality(Below(v))
      <3>1. Cardinality(C \cap Below(v)) = 0
        BY <2>1, FS_EmptySet
      <3>2. IsFiniteSet(C) /\ IsFiniteSet(Below(v))
        BY <1>5
      <3>3. Cardinality(C \cup Below(v)) =
               Cardinality(C) + Cardinality(Below(v)) - Cardinality(C \cap Below(v))
        BY <3>2, FS_Union
      <3>4. Cardinality(C) \in Nat /\ Cardinality(Below(v)) \in Nat
        BY <1>5
      <3> QED
        BY <3>1, <3>3, <3>4
    <2>4. Cardinality(C \cup Below(v)) <= n
      BY <1>4, <2>2, FS_Subset
    <2>5. Cardinality(C) \in Nat /\ Cardinality(Below(v)) \in Nat
      BY <1>5
    <2> QED
      BY <1>3, <1>6, <2>3, <2>4, <2>5
  <1>8. half < Cardinality(UpTo(v))
    <2>1. C \in SUBSET UpTo(v)
      <3>1. \A i \in 1 .. n : a[i] = v => a[i] <= v
        OBVIOUS
      <3> QED
        BY <3>1, Zenon
    <2> HIDE DEF C, UpTo
    <2>2. Cardinality(C) <= Cardinality(UpTo(v))
      BY <1>5, <2>1, FS_Subset
    <2>3. Cardinality(C) \in Nat /\ Cardinality(UpTo(v)) \in Nat
      BY <1>5
    <2> QED
      BY <1>3, <1>6, <2>2, <2>3
  <1>9. v \in {a[i] : i \in 1 .. n}
    <2>1. C # {}
      <3> HIDE DEF C
      <3>1. Cardinality(C) # 0
        BY <1>3, <1>5, <1>6
      <3> QED
        BY <3>1, FS_EmptySet
    <2> QED
      BY <2>1
  <1>10. ASSUME NEW w \in {a[i] : i \in 1 .. n}, Middle(w) PROVE w = v
    <2>1. w \in Int
      OBVIOUS
    <2>2. CASE w < v
      <3>1. UpTo(w) \in SUBSET Below(v)
        <4>1. \A i \in 1 .. n : a[i] <= w => a[i] < v
          BY <2>1, <2>2
        <4> QED
          BY <4>1, Zenon
      <3>2. half < Cardinality(UpTo(w))
        BY <1>10 DEF half
      <3> HIDE DEF UpTo, Below
      <3>3. Cardinality(UpTo(w)) <= Cardinality(Below(v))
        BY <1>5, <3>1, FS_Subset
      <3>4. Cardinality(UpTo(w)) \in Nat /\ Cardinality(Below(v)) \in Nat
        BY <1>5
      <3> QED
        BY <1>3, <1>7, <3>2, <3>3, <3>4
    <2>3. CASE v < w
      <3>1. C \in SUBSET Below(w)
        <4>1. \A i \in 1 .. n : a[i] = v => a[i] < w
          BY <2>1, <2>3
        <4> QED
          BY <4>1, Zenon
      <3>2. Cardinality(Below(w)) <= half
        BY <1>10 DEF half
      <3> HIDE DEF C, Below
      <3>3. Cardinality(C) <= Cardinality(Below(w))
        BY <1>5, <3>1, FS_Subset
      <3>4. Cardinality(C) \in Nat /\ Cardinality(Below(w)) \in Nat
        BY <1>5
      <3> QED
        BY <1>3, <1>6, <3>2, <3>3, <3>4
    <2> QED
      BY <2>1, <2>2, <2>3
  <1>11. Middle(v)
    BY <1>7, <1>8 DEF half
  <1> HIDE DEF Middle
  <1> QED
    BY <1>2, <1>9, <1>10, <1>11

-----------------------------------------------------------------------------
(* The snap *)

\* Of an offset within a quarter of a period of a whole period, one way or the
\* other, the rounded number of periods is one.
LEMMA RoundsToOne ==
    ASSUME NEW d \in Int, NEW w \in {-1, 1}, 4 * Magnitude(d - w * Ticks) < Ticks
    PROVE  Round(d) = w
  <1> DEFINE T == Ticks
             m == Magnitude(d)
  <1>1. T \in Nat \ {0}
    BY NavigationConstants
  <1>2. m \in Nat /\ 3 * T < 4 * m /\ 4 * m < 5 * T /\ (d < 0 <=> w = -1)
    BY <1>1 DEF Magnitude
  <1> HIDE DEF T, m
  <1>3. (2 * m + T) \div (2 * T) = 1
    <2>1. 2 * m + T = 1 * (2 * T) + (2 * m - T)
      BY <1>1, <1>2
    <2>2. /\ 2 * T \in Nat \ {0} /\ 2 * m - T \in Int /\ 2 * m + T \in Int
          /\ 0 <= 2 * m - T /\ 2 * m - T < 2 * T
      BY <1>1, <1>2
    <2> QED
      BY <2>1, <2>2, DivisionUnique
  <1> QED
    BY <1>2, <1>3 DEF Round, T, m

\* The distance of a moved time from v, from either side.
LEMMA DistanceIsOffset ==
    ASSUME NEW raw \in Int, NEW v \in Int, NEW e \in Int
    PROVE  Magnitude((raw + e) - v) = Magnitude((v - raw) - e)
  BY DEF Magnitude

\* What the snap does to one row, if its arrival is its transmit time and v is
\* the median.
Snapped(raw, v) ==
    LET offset == v - raw
        whole == Round(offset)
    IN  IF /\ whole # 0 /\ Magnitude(whole) <= 1
           /\ 4 * Magnitude(offset - whole * Ticks) < Ticks
        THEN raw + whole * Ticks ELSE raw

LEMMA SnapMovesEdges ==
    ASSUME NEW raw \in Int, NEW v \in Int
    PROVE  LET edges == {e \in {-Ticks, Ticks} : 4 * Magnitude((raw + e) - v) < Ticks}
           IN  IF edges = {} THEN Snapped(raw, v) = raw
               ELSE \E e \in edges : Snapped(raw, v) = raw + e
  <1> DEFINE edges == {e \in {-Ticks, Ticks} : 4 * Magnitude((raw + e) - v) < Ticks}
             offset == v - raw
             whole == Round(offset)
             Moves == /\ whole # 0 /\ Magnitude(whole) <= 1
                      /\ 4 * Magnitude(offset - whole * Ticks) < Ticks
  <1> SUFFICES IF edges = {} THEN Snapped(raw, v) = raw
               ELSE \E e \in edges : Snapped(raw, v) = raw + e
    OBVIOUS
  <1>1. Ticks \in Nat \ {0} /\ offset \in Int
    BY NavigationConstants
  <1>2. whole \in Int
    <2>1. Magnitude(offset) \in Int
      BY <1>1 DEF Magnitude
    <2> QED
      BY <1>1, <2>1 DEF Round
  <1>3. Snapped(raw, v) = IF Moves THEN raw + whole * Ticks ELSE raw
    BY DEF Snapped
  <1>4. CASE Moves
    <2>1. whole \in {-1, 1}
      BY <1>2, <1>4 DEF Magnitude
    <2>2. whole * Ticks \in {-Ticks, Ticks}
      BY <1>1, <2>1
    <2>3. 4 * Magnitude((raw + whole * Ticks) - v) < Ticks
      <3>1. whole * Ticks \in Int
        BY <1>1, <2>2
      <3> HIDE DEF whole
      <3> QED
        BY <1>4, <3>1, DistanceIsOffset
    <2> HIDE DEF whole, Moves
    <2>4. whole * Ticks \in edges
      BY <2>2, <2>3
    <2> QED
      BY <1>3, <1>4, <2>4
  <1>5. CASE ~Moves
    <2>1. ASSUME NEW e \in edges PROVE FALSE
      <3>1. PICK w \in {-1, 1} : e = w * Ticks
        BY <1>1
      <3>2. e \in Int /\ 4 * Magnitude((raw + e) - v) < Ticks
        BY <1>1
      <3>3. 4 * Magnitude(offset - w * Ticks) < Ticks
        BY <3>1, <3>2, DistanceIsOffset
      <3>4. whole = w
        <4> HIDE DEF offset
        <4> QED
          BY <1>1, <3>3, RoundsToOne
      <3> HIDE DEF offset, whole
      <3>5. Moves
        BY <3>3, <3>4 DEF Magnitude
      <3> QED
        BY <1>5, <3>5
    <2> HIDE DEF edges, Moves
    <2>2. edges = {}
      BY <2>1
    <2> QED
      BY <1>3, <1>5, <2>2
  <1> QED
    BY <1>4, <1>5

\* The times that the channels of an epoch report are whole numbers of ticks.
LEMMA TransmitTimeType ==
    ASSUME NEW c \in Observations
    PROVE  ComputeTransmitTime(c) \in Int
  <1> DEFINE Whole(r) == /\ r.promptCount \in Int /\ r.startSample \in Int
                         /\ r.tow \in Int /\ r.chips \in Int
  <1>1. ASSUME NEW k \in Int, NEW edge \in Int, NEW phase \in Int
        PROVE  Whole(Decoded(k, edge, phase))
    BY NavigationConstants DEF Decoded
  <1>2. Newest \in Int /\ Newest - 1 \in Int /\ Newest - 2 \in Int
    BY NavigationConstants DEF Newest
  <1>3. Whole([Healthy EXCEPT !.confirmed = FALSE])
    <2>1. Whole(Healthy)
      BY <1>1, <1>2 DEF Healthy
    <2>2. [Healthy EXCEPT !.confirmed = FALSE].promptCount = Healthy.promptCount
      BY DEF Healthy, Decoded
    <2>3. [Healthy EXCEPT !.confirmed = FALSE].startSample = Healthy.startSample
      BY DEF Healthy, Decoded
    <2>4. [Healthy EXCEPT !.confirmed = FALSE].tow = Healthy.tow
      BY DEF Healthy, Decoded
    <2>5. [Healthy EXCEPT !.confirmed = FALSE].chips = Healthy.chips
      BY DEF Healthy, Decoded
    <2> QED
      BY <2>1, <2>2, <2>3, <2>4, <2>5
  <1>4. Whole(c)
    <2>1. /\ Whole(Decoded(Newest, 0, 0)) /\ Whole(Decoded(Newest, 1, 0))
          /\ Whole(Decoded(Newest, 0, 3)) /\ Whole(Decoded(Newest - 1, 0, 0))
          /\ Whole(Decoded(Newest - 2, 0, 0))
      BY <1>1, <1>2
    <2> HIDE DEF Whole
    <2> QED
      BY <1>3, <2>1 DEF Observations, Healthy
  <1> QED
    BY <1>4, NavigationConstants DEF ComputeTransmitTime

\* As many positions as satellites report a time.
LEMMA ClusterHasPositions ==
    ASSUME NEW n \in Nat, NEW S, NEW prns \in Bijection(1 .. n, S),
           NEW P \in SUBSET S, NEW I, I = {i \in 1 .. n : prns[i] \in P}
    PROVE  Cardinality(I) = Cardinality(P)
  <1> DEFINE f == [i \in I |-> prns[i]]
  <1>1. /\ prns \in [1 .. n -> S]
        /\ \A i, j \in 1 .. n : prns[i] = prns[j] => i = j
        /\ \A p \in S : \E i \in 1 .. n : prns[i] = p
    BY DEF Bijection, Injection, IsInjective, Surjection
  <1>2. f \in [I -> P]
    BY <1>1
  <1>3. f \in Bijection(I, P)
    <2>1. \A i, j \in I : f[i] = f[j] => i = j
      BY <1>1
    <2>2. \A p \in P : \E i \in I : f[i] = p
      BY <1>1
    <2> HIDE DEF f
    <2> QED
      BY <1>2, <2>1, <2>2 DEF Bijection, Injection, IsInjective, Surjection
  <1>4. IsFiniteSet(I)
    <2>1. I \in SUBSET (1 .. n)
      BY Zenon
    <2> QED
      BY <2>1, BoundedSetIsFinite
  <1> HIDE DEF f
  <1> QED
    BY <1>3, <1>4, FS_Bijection DEF ExistsBijection

\* With a right reference the arrivals are the transmit times, and each of them
\* is snapped to their median.
LEMMA TransmitTimesAreSnapped ==
    ASSUME m_hasValidFix, m_referenceEcef \in Places, m_referenceEcef.right,
           NEW ch, NEW j \in DOMAIN Prns(ch)
    PROVE  LET raw == [i \in DOMAIN Prns(ch) |-> ComputeTransmitTime(ch[Prns(ch)[i]])]
           IN  TransmitTimes(ch)[j] = Snapped(raw[j], Median(raw))
  <1> DEFINE prns == Prns(ch)
             raw == [i \in DOMAIN prns |-> ComputeTransmitTime(ch[prns[i]])]
             arrivals == [i \in DOMAIN prns |->
                             IF prns[i] \in m_referenceEcef.displaced
                             THEN raw[i] + Ticks ELSE raw[i]]
  <1>1. m_referenceEcef.displaced = {}
    <2>1. m_referenceEcef \in [right : {FALSE}, displaced : DisplacedSets, hidden : HiddenSets]
             => m_referenceEcef.right = FALSE
      OBVIOUS
    <2>2. m_referenceEcef = TruePlace
      BY <2>1, Zenon DEF Places
    <2> QED
      BY <2>2 DEF TruePlace
  <1>2. arrivals = raw
    BY <1>1
  <1>3. TransmitTimes(ch) = SnapTransmitTimesToMedianArrival(raw, arrivals)
    BY DEF TransmitTimes
  <1>4. j \in DOMAIN raw
    OBVIOUS
  <1> SUFFICES TransmitTimes(ch)[j] = Snapped(raw[j], Median(raw))
    OBVIOUS
  <1> HIDE DEF raw, arrivals
  <1> QED
    BY <1>2, <1>3, <1>4 DEF SnapTransmitTimesToMedianArrival, Snapped

\* "Snaps such outliers onto the median cluster": with a right reference and
\* more than half of the satellites in one cluster, exactly the satellites that
\* a whole code period brings to that cluster are moved, whatever the number of
\* satellites and the resolution of time.
THEOREM EdgesAreRepaired == Spec => []SnapRepairsEdges
  <1>1. NavigationInv => SnapRepairsEdges
    <2> DEFINE prns == Prns(channels)
               Raw(p) == ComputeTransmitTime(channels[p])
               Cluster(v) == {p \in Range(prns) : Raw(p) = v}
    <2> SUFFICES ASSUME NavigationInv,
                        pc = "solve", rejected = 0, m_hasValidFix, m_referenceEcef.right,
                        NEW v \in {Raw(p) : p \in Range(prns)},
                        2 * Cardinality(Cluster(v)) > Len(prns),
                        NEW i \in DOMAIN usedTransmitTimes
                 PROVE  LET t == usedTransmitTimes[i]
                            Near(time) == 4 * Magnitude(time - v) < Ticks
                            edges == {e \in {-Ticks, Ticks} : Near(Raw(t.of) + e)}
                        IN  IF edges = {} THEN t.value = Raw(t.of)
                            ELSE \E e \in edges : t.value = Raw(t.of) + e
      BY DEF SnapRepairsEdges
    <2> DEFINE n == Len(prns)
               S == {p \in Satellites : Contributes(channels[p])}
               raw == [k \in DOMAIN prns |-> Raw(prns[k])]
               t == usedTransmitTimes[i]
    <2>1. /\ n \in Nat /\ prns \in [1 .. n -> Satellites]
          /\ prns \in Bijection(1 .. n, S) /\ DOMAIN prns = 1 .. n
      BY PrnsIsBijection
    <2>2. Range(prns) = S
      BY <2>1 DEF Range, Bijection, Surjection
    <2>3. \A p \in Satellites : Raw(p) \in Int
      <3>1. channels \in [Satellites -> Observations]
        BY DEF NavigationInv, NavigationTypes
      <3> QED
        BY <3>1, TransmitTimeType
    <2>4. v \in Int
      BY <2>2, <2>3
    <2>5. raw \in [1 .. n -> Int]
      BY <2>1, <2>3
    <2>6. 2 * Cardinality({k \in 1 .. n : raw[k] = v}) > n
      <3> DEFINE P == Cluster(v)
                 I == {k \in 1 .. n : raw[k] = v}
      <3>1. P \in SUBSET S
        BY <2>2
      <3>2. I = {k \in 1 .. n : prns[k] \in P}
        <4>1. \A k \in 1 .. n : prns[k] \in S
          BY <2>1 DEF Bijection, Surjection
        <4> QED
          BY <2>1, <2>2, <4>1
      <3>3. Cardinality(I) = Cardinality(P)
        <4> HIDE DEF S, prns, n, P, I
        <4> QED
          BY <2>1, <3>1, <3>2, ClusterHasPositions
      <3> QED
        BY <3>3
    <2>7. Median(raw) = v
      <3> HIDE DEF raw, n
      <3> QED
        BY <2>1, <2>4, <2>5, <2>6, MajorityIsMedian
    <2>8. PICK j \in DOMAIN prns :
             t = [of |-> prns[j], value |-> TransmitTimes(channels)[j]]
      BY DEF NavigationInv, TimesInv
    <2>9. TransmitTimes(channels)[j] = Snapped(raw[j], Median(raw))
      BY TransmitTimesAreSnapped DEF NavigationInv, NavigationTypes
    <2>10. /\ raw[j] = Raw(t.of) /\ Raw(t.of) \in Int
           /\ t.value = Snapped(Raw(t.of), v)
      BY <2>1, <2>3, <2>7, <2>8, <2>9
    <2>11. LET edges == {e \in {-Ticks, Ticks} : 4 * Magnitude((Raw(t.of) + e) - v) < Ticks}
           IN  IF edges = {} THEN Snapped(Raw(t.of), v) = Raw(t.of)
               ELSE \E e \in edges : Snapped(Raw(t.of), v) = Raw(t.of) + e
      <3> HIDE DEF Raw, t
      <3> QED
        BY <2>4, <2>10, SnapMovesEdges
    <2> HIDE DEF Raw, t
    <2> QED
      BY <2>10, <2>11 DEF t
  <1> QED
    BY <1>1, NavigationInvariant, PTL

\* The loop of solvePosition has no counter: every step of a solve that goes on
\* leaves it one row fewer, down to no fewer than the minimum, so that it cannot
\* go on for more steps than there are satellites.
THEOREM SolveRunsOutOfRows ==
    Spec => [][pc = "solve" => \/ pc' # "solve"
                               \/ /\ Len(orbits') = Len(orbits) - 1
                                  /\ Len(orbits') >= MinSatellites]_vars
  <1> DEFINE Shorter == pc = "solve" => \/ pc' # "solve"
                                        \/ /\ Len(orbits') = Len(orbits) - 1
                                           /\ Len(orbits') >= MinSatellites
  <1>1. NavigationInv /\ [Next]_vars => [Shorter]_vars
    <2> SUFFICES ASSUME NavigationInv, Next, pc = "solve" PROVE Shorter
      OBVIOUS
    <2>1. CASE Singular \/ GiveUp \/ Publish \/ Converged
      BY <2>1 DEF Singular, GiveUp, Publish, Return, Converged
    <2>2. CASE \E worst \in DOMAIN orbits : RejectWorst(worst)
      <3>1. PICK worst \in DOMAIN orbits : RejectWorst(worst)
        BY <2>2
      <3>2. orbits \in Seq(Satellites) /\ worst \in 1 .. Len(orbits) /\ Len(orbits) \in Nat
        BY DEF NavigationInv, NavigationTypes
      <3>3. Len(RemoveAt(orbits, worst)) = Len(orbits) - 1
        BY <3>2, RemovedRow
      <3> QED
        BY <3>1, <3>2, <3>3, NavigationConstants DEF RejectWorst, MayReject
    <2> QED
      BY <2>1, <2>2 DEF Next, Solve, ComputeNavigationSolution
  <1>2. Spec => [][Shorter]_vars
    BY <1>1, NavigationInvariant, PTL DEF Spec
  <1> QED
    BY <1>2

-----------------------------------------------------------------------------
(* Sums *)

\* The numbers that a property of the first numbers up to n reaches by steps:
\* no number is the first to miss it.
LEMMA StepByStep ==
    ASSUME NEW n \in Nat, NEW X \in SUBSET (0 .. n),
           0 \in X, \A m \in 1 .. n : m - 1 \in X => m \in X
    PROVE  X = 0 .. n
  <1> SUFFICES ASSUME (0 .. n) \ X # {} PROVE FALSE
    BY Zenon
  <1>1. (0 .. n) \ X \in SUBSET Nat
    OBVIOUS
  <1>2. PICK m \in (0 .. n) \ X : \A k \in (0 .. n) \ X : m <= k
    BY <1>1, LeastNumber
  <1>3. m \in 1 .. n /\ m \notin X
    BY <1>2
  <1>4. m - 1 \in 0 .. n /\ ~(m <= m - 1)
    BY <1>3
  <1>5. m - 1 \in X
    BY <1>2, <1>4
  <1> QED
    BY <1>3, <1>5

\* The partial sums of a loop
IsPartialSums(g, f, n) ==
    /\ g \in [0 .. n -> Int] /\ g[0] = 0
    /\ \A i \in 1 .. n : g[i] = g[i - 1] + f[i]

LEMMA PartialSumsExist ==
    ASSUME NEW n \in Nat, NEW f \in [1 .. n -> Int]
    PROVE  \E g : IsPartialSums(g, f, n)
  <1> DEFINE X == {m \in 0 .. n : \E g : IsPartialSums(g, f, m)}
  <1>1. 0 \in X
    <2>1. IsPartialSums([i \in 0 .. 0 |-> 0], f, 0)
      BY DEF IsPartialSums
    <2> QED
      BY <2>1
  <1>2. ASSUME NEW m \in 1 .. n, m - 1 \in X PROVE m \in X
    <2>1. PICK g : IsPartialSums(g, f, m - 1)
      BY <1>2
    <2> DEFINE h == [i \in 0 .. m |-> IF i = m THEN g[m - 1] + f[m] ELSE g[i]]
    <2>2. h \in [0 .. m -> Int] /\ h[0] = 0
      BY <2>1 DEF IsPartialSums
    <2>3. ASSUME NEW i \in 1 .. m PROVE h[i] = h[i - 1] + f[i]
      BY <2>1 DEF IsPartialSums
    <2>4. IsPartialSums(h, f, m)
      BY <2>2, <2>3 DEF IsPartialSums
    <2> QED
      BY <2>4
  <1>3. X \in SUBSET (0 .. n)
    OBVIOUS
  <1> HIDE DEF X
  <1>4. X = 0 .. n
    BY <1>1, <1>2, <1>3, StepByStep
  <1>5. n \in X
    BY <1>4
  <1> QED
    BY <1>5, Zenon DEF X

LEMMA SumIsPartialSum ==
    ASSUME NEW n \in Nat, NEW f \in [1 .. n -> Int]
    PROVE  \E g : IsPartialSums(g, f, n) /\ SumOver(f, n) = g[n]
  <1> DEFINE Body(g) == [i \in 0 .. n |-> IF i = 0 THEN 0 ELSE g[i - 1] + f[i]]
             sum == CHOOSE g : g = Body(g)
  <1>1. PICK g : IsPartialSums(g, f, n)
    BY PartialSumsExist
  <1>2. g = Body(g)
    BY <1>1 DEF IsPartialSums
  <1>3. sum = Body(sum)
    <2> HIDE DEF Body
    <2> QED
      BY <1>2
  <1>4. SumOver(f, n) = sum[n]
    BY DEF SumOver
  <1>5. IsPartialSums(sum, f, n)
    <2> HIDE DEF sum
    <2>1. DOMAIN sum = 0 .. n /\ sum[0] = 0
      BY <1>3
    <2>2. \A i \in 1 .. n : sum[i] = sum[i - 1] + f[i]
      BY <1>3
    <2> DEFINE X == {m \in 0 .. n : sum[m] \in Int}
    <2>3. X = 0 .. n
      <3>1. 0 \in X
        BY <2>1
      <3>2. ASSUME NEW m \in 1 .. n, m - 1 \in X PROVE m \in X
        BY <2>2, <3>2
      <3>3. X \in SUBSET (0 .. n)
        OBVIOUS
      <3> HIDE DEF X
      <3> QED
        BY <3>1, <3>2, <3>3, StepByStep
    <2>4. \A m \in 0 .. n : sum[m] \in Int
      BY <2>3
    <2>5. sum = [m \in 0 .. n |-> sum[m]]
      BY <1>3
    <2> QED
      BY <2>1, <2>2, <2>4, <2>5 DEF IsPartialSums
  <1> QED
    BY <1>4, <1>5

\* d equal terms, one of its own and equal terms again
ThreeParts(n, d, a, m, b) ==
    [k \in 1 .. n |-> IF k <= d THEN a ELSE IF k = d + 1 THEN m ELSE b]

LEMMA SumOfThreeParts ==
    ASSUME NEW n \in Nat, NEW d \in 0 .. n - 1, NEW a \in Int, NEW m \in Int, NEW b \in Int
    PROVE  SumOver(ThreeParts(n, d, a, m, b), n) = d * a + m + (n - d - 1) * b
  <1> DEFINE f == ThreeParts(n, d, a, m, b)
  <1>1. \A k \in 1 .. n : f[k] = IF k <= d THEN a ELSE IF k = d + 1 THEN m ELSE b
    BY DEF ThreeParts
  <1>2. f \in [1 .. n -> Int]
    BY DEF ThreeParts
  <1> HIDE DEF f
  <1>3. PICK g : IsPartialSums(g, f, n) /\ SumOver(f, n) = g[n]
    BY <1>2, SumIsPartialSum
  <1>4. /\ g \in [0 .. n -> Int] /\ g[0] = 0
        /\ \A i \in 1 .. n : g[i] = g[i - 1] + f[i]
    BY <1>3 DEF IsPartialSums
  <1> DEFINE Value(k) == IF k <= d THEN k * a ELSE d * a + m + (k - d - 1) * b
             X == {k \in 0 .. n : g[k] = Value(k)}
  <1>5. 0 \in X
    BY <1>4
  <1>6. ASSUME NEW k \in 1 .. n, k - 1 \in X PROVE k \in X
    <2>1. g[k] = Value(k - 1) + f[k]
      BY <1>4, <1>6
    <2>2. CASE k <= d
      <3>1. (k - 1) * a + a = k * a
        OBVIOUS
      <3> QED
        BY <1>1, <2>1, <2>2, <3>1
    <2>3. CASE k = d + 1
      <3>1. d * a \in Int /\ (k - d - 1) * b = 0
        BY <2>3
      <3> QED
        BY <1>1, <2>1, <2>3, <3>1
    <2>4. CASE k > d + 1
      <3>1. (k - 1 - d - 1) * b + b = (k - d - 1) * b
        OBVIOUS
      <3>2. d * a \in Int /\ (k - 1 - d - 1) * b \in Int
        OBVIOUS
      <3>3. g[k] = d * a + m + (k - 1 - d - 1) * b + b
        BY <1>1, <2>1, <2>4, <3>2
      <3> QED
        BY <2>4, <3>1, <3>2, <3>3
    <2> QED
      BY <2>2, <2>3, <2>4
  <1>7. X \in SUBSET (0 .. n)
    OBVIOUS
  <1>8. X = 0 .. n
    <2> HIDE DEF X
    <2> QED
      BY <1>5, <1>6, <1>7, StepByStep
  <1> QED
    BY <1>3, <1>8 DEF f

LEMMA Regrouped ==
    ASSUME NEW w \in Int, w = 1 \/ w = -1,
           NEW a \in Int, NEW b \in Int, NEW c \in Int, NEW d \in Int
    PROVE  (a + w * b) + (c + w * d) = (a + c) + w * (b + d)
  <1>1. CASE w = 1
    BY <1>1
  <1>2. CASE w = -1
    BY <1>2
  <1> QED
    BY <1>1, <1>2

LEMMA SharesAdd ==
    ASSUME NEW a \in Int, NEW b \in Int, NEW u \in Int, NEW v \in Int,
           NEW x \in Int, NEW y \in Int, x >= a + b, y >= u + v
    PROVE  x + y >= (a + u) + (b + v)
  OBVIOUS

\* The sum of a weighted combination
LEMMA SumIsLinear ==
    ASSUME NEW n \in Nat, NEW f \in [1 .. n -> Int], NEW h \in [1 .. n -> Int],
           NEW e \in [1 .. n -> Int], NEW w \in {-1, 1},
           \A i \in 1 .. n : e[i] = f[i] + w * h[i]
    PROVE  /\ SumOver(f, n) \in Int /\ SumOver(h, n) \in Int
           /\ SumOver(e, n) = SumOver(f, n) + w * SumOver(h, n)
  <1>1. PICK F : IsPartialSums(F, f, n) /\ SumOver(f, n) = F[n]
    BY SumIsPartialSum
  <1>2. PICK H : IsPartialSums(H, h, n) /\ SumOver(h, n) = H[n]
    BY SumIsPartialSum
  <1>3. PICK E : IsPartialSums(E, e, n) /\ SumOver(e, n) = E[n]
    BY SumIsPartialSum
  <1> DEFINE X == {k \in 0 .. n : E[k] = F[k] + w * H[k]}
  <1>4. 0 \in X
    BY <1>1, <1>2, <1>3 DEF IsPartialSums
  <1>5. ASSUME NEW k \in 1 .. n, k - 1 \in X PROVE k \in X
    <2>1. k \in 0 .. n /\ k - 1 \in 0 .. n /\ f[k] \in Int /\ h[k] \in Int
      OBVIOUS
    <2>2. E[k] = E[k - 1] + e[k]
      BY <1>3 DEF IsPartialSums
    <2>3. F[k] = F[k - 1] + f[k] /\ F[k - 1] \in Int
      BY <1>1, <2>1 DEF IsPartialSums
    <2>4. H[k] = H[k - 1] + h[k] /\ H[k - 1] \in Int
      BY <1>2, <2>1 DEF IsPartialSums
    <2>5. E[k - 1] = F[k - 1] + w * H[k - 1] /\ e[k] = f[k] + w * h[k]
      BY <1>5
    <2>6. E[k] = F[k] + w * H[k]
      <3>1. w \in Int /\ (w = 1 \/ w = -1)
        OBVIOUS
      <3>2. (F[k - 1] + w * H[k - 1]) + (f[k] + w * h[k])
              = (F[k - 1] + f[k]) + w * (H[k - 1] + h[k])
        BY <2>1, <2>3, <2>4, <3>1, Regrouped, SMTT(30)
      <3> QED
        BY <2>2, <2>3, <2>4, <2>5, <3>2, Zenon
    <2> QED
      BY <2>1, <2>6
  <1>6. X \in SUBSET (0 .. n)
    OBVIOUS
  <1>7. X = 0 .. n
    <2> HIDE DEF X
    <2> QED
      BY <1>4, <1>5, <1>6, StepByStep
  <1>8. n \in 0 .. n
    OBVIOUS
  <1>9. E[n] = F[n] + w * H[n]
    BY <1>7, <1>8, Zenon
  <1> QED
    BY <1>1, <1>2, <1>3, <1>8, <1>9 DEF IsPartialSums

\* What a term adds to the partial sum at k, once k has reached its place.
LEMMA ShareGrows ==
    ASSUME NEW k \in Int, NEW p \in Int, NEW a \in Int
    PROVE  /\ (IF p <= k - 1 THEN a ELSE 0) \in Int
           /\ (IF k = p THEN a ELSE 0) \in Int
           /\ (IF p <= k THEN a ELSE 0)
                = (IF p <= k - 1 THEN a ELSE 0) + (IF k = p THEN a ELSE 0)
  OBVIOUS

\* A sum is positive if two of its terms are together and no other is negative.
LEMMA SumIsPositive ==
    ASSUME NEW n \in Nat, NEW f \in [1 .. n -> Int], NEW p \in 1 .. n, NEW q \in 1 .. n,
           p # q, f[p] + f[q] > 0, \A i \in 1 .. n : i # p /\ i # q => f[i] >= 0
    PROVE  SumOver(f, n) > 0
  <1>1. PICK g : IsPartialSums(g, f, n) /\ SumOver(f, n) = g[n]
    BY SumIsPartialSum
  <1>2. /\ g \in [0 .. n -> Int] /\ g[0] = 0
        /\ \A i \in 1 .. n : g[i] = g[i - 1] + f[i]
    BY <1>1 DEF IsPartialSums
  <1> DEFINE Share(i, k) == IF i <= k THEN f[i] ELSE 0
             X == {k \in 0 .. n : g[k] >= Share(p, k) + Share(q, k)}
  <1>3. 0 \in X
    BY <1>2
  <1>4. ASSUME NEW k \in 1 .. n, k - 1 \in X PROVE k \in X
    <2>1. g[k] = g[k - 1] + f[k] /\ g[k - 1] \in Int /\ f[k] \in Int /\ f[p] \in Int /\ f[q] \in Int
      <3>1. k - 1 \in 0 .. n
        OBVIOUS
      <3>2. g[k - 1] \in Int
        BY <1>2, <3>1
      <3>3. g[k] = g[k - 1] + f[k]
        BY <1>2
      <3>4. f[k] \in Int /\ f[p] \in Int /\ f[q] \in Int
        OBVIOUS
      <3> QED
        BY <3>2, <3>3, <3>4
    <2>2. g[k - 1] >= Share(p, k - 1) + Share(q, k - 1)
      BY <1>4
    <2> DEFINE u == IF k = p THEN f[p] ELSE 0
               v == IF k = q THEN f[q] ELSE 0
    <2>3. /\ Share(p, k - 1) \in Int /\ Share(q, k - 1) \in Int /\ u \in Int /\ v \in Int
          /\ Share(p, k) = Share(p, k - 1) + u
          /\ Share(q, k) = Share(q, k - 1) + v
      <3>1. k \in Int /\ p \in Int /\ q \in Int
        OBVIOUS
      <3> QED
        BY <2>1, <3>1, ShareGrows, Zenon
    <2>4. f[k] >= u + v
      <3>1. CASE k = p
        BY <2>1, <3>1
      <3>2. CASE k = q
        BY <2>1, <3>2
      <3>3. CASE k # p /\ k # q
        BY <2>1, <3>3
      <3> QED
        BY <3>1, <3>2, <3>3
    <2> HIDE DEF Share, u, v
    <2>5. g[k - 1] + f[k] >= (Share(p, k - 1) + u) + (Share(q, k - 1) + v)
      BY <2>1, <2>2, <2>3, <2>4, SharesAdd, Zenon
    <2>6. g[k] >= Share(p, k) + Share(q, k)
      BY <2>1, <2>3, <2>5, Zenon
    <2> QED
      BY <2>6
  <1>5. X \in SUBSET (0 .. n)
    OBVIOUS
  <1>6. X = 0 .. n
    <2> HIDE DEF X
    <2> QED
      BY <1>3, <1>4, <1>5, StepByStep
  <1>7. n \in 0 .. n /\ p <= n /\ q <= n
    OBVIOUS
  <1>8. g[n] >= Share(p, n) + Share(q, n)
    BY <1>6, <1>7, Zenon
  <1>9. g[n] \in Int /\ f[p] \in Int /\ f[q] \in Int
    BY <1>2, <1>7
  <1> QED
    BY <1>1, <1>7, <1>8, <1>9

-----------------------------------------------------------------------------
(* The prompt values *)

Half == Period \div 2

LEMMA DecoderConstants ==
    /\ Period \in Nat \ {0} /\ Half \in Nat \ {0} /\ Period = 2 * Half
    /\ Fraction \in Nat \ {0} /\ Noise \in Nat
    /\ EdgeSearch \in Nat /\ 2 * EdgeSearch < Period /\ MaxFlips \in Nat
    /\ Payloads \subseteq SUBSET (9 .. 24)
  <1>1. Period \in Nat /\ Period % 2 = 0 /\ EdgeSearch \in Nat /\ 2 * EdgeSearch < Period
    BY DecoderAssumption
  <1>2. Period # 0 /\ Half \in Nat /\ Period = 2 * Half
    BY <1>1 DEF Half
  <1> QED
    BY <1>1, <1>2, DecoderAssumption

SignOf(i) == 2 * stream[i] - 1

\* Block k of a bit that is taken to start d blocks before the edge of bit i
LEMMA PromptValue ==
    ASSUME NEW d \in 0 .. Period - 1, NEW i \in Int, NEW k \in 1 .. Period
    PROVE  Prompt(-d + (i - 1) * Period + k - 1) =
              IF k <= d THEN Fraction * SignOf(i - 1)
              ELSE IF k = d + 1
              THEN fraction * SignOf(i - 1) + (Fraction - fraction) * SignOf(i)
              ELSE Fraction * SignOf(i)
  <1> DEFINE j == -d + (i - 1) * Period + k - 1
  <1>1. Period \in Nat \ {0}
    BY DecoderConstants
  <1>2. (i - 1) * Period \in Int /\ (i - 2) * Period \in Int
        /\ (i - 1) * Period = (i - 2) * Period + Period
    BY <1>1
  <1>3. j \in Int
    BY <1>1, <1>2
  <1>4. CASE k <= d
    <2>1. j = (i - 2) * Period + (Period - d + k - 1)
      BY <1>1, <1>2
    <2>2. 0 < Period - d + k - 1 /\ Period - d + k - 1 < Period /\ Period - d + k - 1 \in Int
      BY <1>1, <1>4
    <2> DEFINE r == Period - d + k - 1
    <2>3. i - 2 \in Int /\ r \in Int /\ 0 <= r /\ r < Period /\ r # 0 /\ j = (i - 2) * Period + r
      BY <2>1, <2>2
    <2> HIDE DEF j, r
    <2>4. j \div Period = i - 2 /\ j % Period = r
      BY <1>1, <1>3, <2>3, DivisionUnique
    <2>5. j % Period # 0 /\ (j \div Period) + 1 = i - 1
      BY <2>3, <2>4
    <2>6. Prompt(j) = Fraction * SignOf(i - 1)
      BY <2>5 DEF Prompt, SignOf
    <2> QED
      BY <1>4, <2>6 DEF j
  <1>5. CASE k > d
    <2> DEFINE r == k - 1 - d
    <2>1. i - 1 \in Int /\ r \in Int /\ 0 <= r /\ r < Period /\ j = (i - 1) * Period + r
          /\ (r = 0 <=> k = d + 1)
      BY <1>1, <1>2, <1>5
    <2> HIDE DEF j, r
    <2>2. j \div Period = i - 1 /\ j % Period = r
      BY <1>1, <1>3, <2>1, DivisionUnique
    <2>3. (j \div Period) + 1 = i /\ (j % Period = 0 <=> k = d + 1)
      BY <2>1, <2>2
    <2>4. Prompt(j) = IF k = d + 1
                      THEN fraction * SignOf(i - 1) + (Fraction - fraction) * SignOf(i)
                      ELSE Fraction * SignOf(i)
      BY <2>3 DEF Prompt, SignOf
    <2> QED
      BY <1>5, <2>4 DEF j
  <1> QED
    BY <1>1, <1>4, <1>5

\* The stream is one of bits.
StreamOfBits ==
    /\ stream \in [-4 .. WordBits + 3 -> {0, 1}]
    /\ fraction \in 0 .. Fraction - 1

LEMMA SignType ==
    ASSUME StreamOfBits, NEW i \in -4 .. WordBits + 3
    PROVE  SignOf(i) \in {-1, 1} /\ (stream[i] = 1 <=> SignOf(i) = 1)
  BY DEF StreamOfBits, SignOf, WordBits

LEMMA BitSumValue ==
    ASSUME StreamOfBits, NEW d \in 0 .. Period - 1, NEW i \in -3 .. WordBits + 3
    PROVE  BitSum(-d, i) = (d * Fraction + fraction) * SignOf(i - 1)
                             + ((Period - d) * Fraction - fraction) * SignOf(i)
  <1> DEFINE a == Fraction * SignOf(i - 1)
             b == Fraction * SignOf(i)
             m == fraction * SignOf(i - 1) + (Fraction - fraction) * SignOf(i)
             f == [k \in 1 .. Period |-> Prompt(-d + (i - 1) * Period + k - 1)]
  <1>1. /\ Period \in Nat \ {0} /\ Fraction \in Nat \ {0}
        /\ fraction \in Int /\ i \in Int /\ d \in Int
    BY DecoderConstants DEF StreamOfBits, WordBits
  <1>2. SignOf(i - 1) \in {-1, 1} /\ SignOf(i) \in {-1, 1}
    <2>1. i \in -4 .. WordBits + 3 /\ i - 1 \in -4 .. WordBits + 3
      BY DEF WordBits
    <2> QED
      BY <2>1, SignType
  <1>3. a \in Int /\ b \in Int /\ m \in Int
    BY <1>1, <1>2
  <1>4. \A k \in 1 .. Period : f[k] = IF k <= d THEN a ELSE IF k = d + 1 THEN m ELSE b
    BY <1>1, PromptValue
  <1>5. f = ThreeParts(Period, d, a, m, b)
    BY <1>4 DEF ThreeParts
  <1>6. SumOver(f, Period) = d * a + m + (Period - d - 1) * b
    <2> HIDE DEF a, b, m, f
    <2>1. Period \in Nat
      BY <1>1
    <2> QED
      BY <1>3, <1>5, <2>1, SumOfThreeParts
  <1>7. BitSum(-d, i) = SumOver(f, Period)
    BY DEF BitSum
  <1>8. d * a + m + (Period - d - 1) * b =
            (d * Fraction + fraction) * SignOf(i - 1)
              + ((Period - d) * Fraction - fraction) * SignOf(i)
    <2>1. PICK x \in {-1, 1}, y \in {-1, 1} : x = SignOf(i - 1) /\ y = SignOf(i)
      BY <1>2
    <2>2. (Period - d - 1) * Fraction = (Period - d) * Fraction - Fraction
      BY <1>1
    <2>3. d * (Fraction * x) = (d * Fraction) * x
          /\ (Period - d - 1) * (Fraction * y) = ((Period - d - 1) * Fraction) * y
      BY <1>1, <2>1
    <2>4. PICK A \in Int, B \in Int : A = d * Fraction /\ B = (Period - d) * Fraction
      BY <1>1
    <2>5. d * a + m + (Period - d - 1) * b =
             A * x + fraction * x + (Fraction - fraction) * y + (B - Fraction) * y
      <3>1. d * a = A * x
        BY <2>1, <2>3, <2>4
      <3>2. (Period - d - 1) * b = (B - Fraction) * y
        BY <2>1, <2>2, <2>3, <2>4
      <3>3. m = fraction * x + (Fraction - fraction) * y
        BY <2>1
      <3>4. A * x \in Int /\ (B - Fraction) * y \in Int
            /\ fraction * x \in Int /\ (Fraction - fraction) * y \in Int
        BY <1>1, <2>1
      <3> HIDE DEF a, b, m
      <3> QED
        BY <3>1, <3>2, <3>3, <3>4
    <2>6. A * x + fraction * x + (Fraction - fraction) * y + (B - Fraction) * y
            = (A + fraction) * x + (B - fraction) * y
      BY <1>1, <2>1
    <2> QED
      BY <2>1, <2>4, <2>5, <2>6
  <1> QED
    BY <1>6, <1>7, <1>8

-----------------------------------------------------------------------------
(* The bits that a start finds *)

\* The bits of the word and the two before it, as they arrive
Received == [i \in -1 .. WordBits |-> stream[i]]

\* The sum of a bit, as a mix of the bit before and the bit
LEMMA BitSumMix ==
    ASSUME StreamOfBits, NEW d \in 0 .. Period - 1, NEW i \in -3 .. WordBits + 3
    PROVE  \E A \in Int, B \in Int :
              /\ A = d * Fraction /\ B = (Period - d) * Fraction /\ A >= 0
              /\ A + B = Period * Fraction /\ B - A = 2 * ((Half - d) * Fraction)
              /\ BitSum(-d, i) = (A + fraction) * SignOf(i - 1) + (B - fraction) * SignOf(i)
              /\ SignOf(i - 1) \in {-1, 1} /\ SignOf(i) \in {-1, 1}
  <1>1. /\ Period \in Nat \ {0} /\ Fraction \in Nat \ {0}
        /\ Half \in Nat /\ Period = 2 * Half
    BY DecoderConstants
  <1>2. PICK A \in Int, B \in Int : A = d * Fraction /\ B = (Period - d) * Fraction
    BY <1>1
  <1>3. A >= 0
    BY <1>1, <1>2
  <1>4. A + B = Period * Fraction
    BY <1>1, <1>2
  <1>5. B - A = 2 * ((Half - d) * Fraction)
    <2>1. (2 * Half - d) * Fraction = 2 * (Half * Fraction) - d * Fraction
      BY <1>1
    <2>2. (Half - d) * Fraction = Half * Fraction - d * Fraction
      BY <1>1
    <2> QED
      BY <1>1, <1>2, <2>1, <2>2
  <1>6. SignOf(i - 1) \in {-1, 1} /\ SignOf(i) \in {-1, 1}
    <2>1. i \in -4 .. WordBits + 3 /\ i - 1 \in -4 .. WordBits + 3
      BY DEF WordBits
    <2> QED
      BY <2>1, SignType
  <1>7. BitSum(-d, i) = (A + fraction) * SignOf(i - 1) + (B - fraction) * SignOf(i)
    BY <1>2, BitSumValue
  <1> QED
    BY <1>2, <1>3, <1>4, <1>5, <1>6, <1>7

\* A start after the edge is one far before the next edge.
LEMMA BitSumOfLateStart ==
    ASSUME NEW e \in Int, NEW i \in Int
    PROVE  BitSum(e, i) = BitSum(-(Period - e), i + 1)
  <1>1. Period \in Nat
    BY DecoderConstants
  <1>2. ((i + 1) - 1) * Period = (i - 1) * Period + Period /\ (i - 1) * Period \in Int
    BY <1>1
  <1>3. ASSUME NEW k \in 1 .. Period
        PROVE  e + (i - 1) * Period + k - 1 = -(Period - e) + ((i + 1) - 1) * Period + k - 1
    BY <1>1, <1>2
  <1>4. [k \in 1 .. Period |-> Prompt(e + (i - 1) * Period + k - 1)]
          = [k \in 1 .. Period |-> Prompt(-(Period - e) + ((i + 1) - 1) * Period + k - 1)]
    BY <1>3
  <1> QED
    BY <1>4, Zenon DEF BitSum

\* A start less than half a bit before the edge finds the bits of the word.
LEMMA EarlyStartFindsBits ==
    ASSUME StreamOfBits, NEW d \in 0 .. Half - 1
    PROVE  Demodulated(-d) = Received
  <1>1. /\ Period \in Nat \ {0} /\ Fraction \in Nat \ {0} /\ Half \in Nat /\ Period = 2 * Half
        /\ fraction \in 0 .. Fraction - 1
    BY DecoderConstants DEF StreamOfBits
  <1>2. ASSUME NEW i \in -1 .. WordBits
        PROVE  (IF BitSum(-d, i) > 0 THEN 1 ELSE 0) = stream[i]
    <2>1. d \in 0 .. Period - 1 /\ i \in -3 .. WordBits + 3 /\ i \in -4 .. WordBits + 3
      BY <1>1 DEF WordBits
    <2>2. PICK A \in Int, B \in Int :
              /\ A >= 0 /\ B - A = 2 * ((Half - d) * Fraction)
              /\ BitSum(-d, i) = (A + fraction) * SignOf(i - 1) + (B - fraction) * SignOf(i)
              /\ SignOf(i - 1) \in {-1, 1} /\ SignOf(i) \in {-1, 1}
      BY <2>1, BitSumMix
    <2>3. (Half - d) * Fraction >= Fraction
      BY <1>1
    <2>4. B - A >= 2 * Fraction
      BY <1>1, <2>2, <2>3
    <2>5. stream[i] \in {0, 1} /\ (stream[i] = 1 <=> SignOf(i) = 1)
      BY <2>1, SignType DEF StreamOfBits
    <2>6. CASE SignOf(i) = 1
      BY <1>1, <2>2, <2>4, <2>5, <2>6
    <2>7. CASE SignOf(i) = -1
      BY <1>1, <2>2, <2>4, <2>5, <2>7
    <2> QED
      BY <2>2, <2>6, <2>7
  <1> QED
    BY <1>2 DEF Demodulated, Received

\* A start up to half a bit after the edge finds the bits of the word, also the
\* one at half a bit if the edge is inside a block.
LEMMA LateStartFindsBits ==
    ASSUME StreamOfBits, NEW e \in 1 .. Half, e < Half \/ fraction > 0
    PROVE  Demodulated(e) = Received
  <1>1. /\ Period \in Nat \ {0} /\ Fraction \in Nat \ {0} /\ Half \in Nat /\ Period = 2 * Half
        /\ fraction \in 0 .. Fraction - 1
    BY DecoderConstants DEF StreamOfBits
  <1>2. ASSUME NEW i \in -1 .. WordBits
        PROVE  (IF BitSum(e, i) > 0 THEN 1 ELSE 0) = stream[i]
    <2>1. Period - e \in 0 .. Period - 1 /\ i + 1 \in -3 .. WordBits + 3 /\ i \in -4 .. WordBits + 3
          /\ (i + 1) - 1 = i
      BY <1>1 DEF WordBits
    <2>2. PICK A \in Int, B \in Int :
              /\ A >= 0 /\ B - A = 2 * ((Half - (Period - e)) * Fraction)
              /\ BitSum(-(Period - e), i + 1)
                    = (A + fraction) * SignOf((i + 1) - 1) + (B - fraction) * SignOf(i + 1)
              /\ SignOf((i + 1) - 1) \in {-1, 1} /\ SignOf(i + 1) \in {-1, 1}
              /\ B = (Period - (Period - e)) * Fraction
      <3> DEFINE d == Period - e
                 j == i + 1
      <3>1. d \in 0 .. Period - 1 /\ j \in -3 .. WordBits + 3
        BY <2>1
      <3> HIDE DEF d, j
      <3>2. \E A \in Int, B \in Int :
              /\ A >= 0 /\ B - A = 2 * ((Half - d) * Fraction)
              /\ BitSum(-d, j) = (A + fraction) * SignOf(j - 1) + (B - fraction) * SignOf(j)
              /\ SignOf(j - 1) \in {-1, 1} /\ SignOf(j) \in {-1, 1}
              /\ B = (Period - d) * Fraction
        BY <3>1, BitSumMix
      <3> QED
        BY <3>2, Zenon DEF d, j
    <2>3. BitSum(e, i) = (A + fraction) * SignOf(i) + (B - fraction) * SignOf(i + 1)
      <3>1. SignOf((i + 1) - 1) = SignOf(i)
        BY <2>1
      <3>2. e \in Int /\ i \in Int
        BY <1>1, <2>1 DEF WordBits
      <3> QED
        BY <2>2, <3>1, <3>2, BitSumOfLateStart, Zenon
    <2>4. B - fraction < A + fraction /\ B - fraction > 0
      <3>1. B = e * Fraction
        <4>1. Period - (Period - e) = e
          BY <1>1
        <4> QED
          BY <2>2, <4>1
      <3>2. e * Fraction >= Fraction
        BY <1>1
      <3>3. B - A = 2 * ((e - Half) * Fraction)
        <4>1. Half - (Period - e) = e - Half
          BY <1>1
        <4> QED
          BY <2>2, <4>1
      <3>4. CASE e < Half
        <4>1. (e - Half) * Fraction <= -Fraction
          BY <1>1, <3>4
        <4> QED
          BY <1>1, <2>2, <3>1, <3>2, <3>3, <4>1
      <3>5. CASE e = Half
        <4>1. (e - Half) * Fraction = 0
          BY <1>1, <3>5
        <4> QED
          BY <1>1, <2>2, <3>1, <3>2, <3>3, <3>5, <4>1
      <3> QED
        BY <1>1, <3>4, <3>5
    <2>5. /\ stream[i] \in {0, 1} /\ (stream[i] = 1 <=> SignOf(i) = 1)
          /\ SignOf(i) \in {-1, 1} /\ SignOf(i + 1) \in {-1, 1}
      BY <2>1, <2>2, SignType DEF StreamOfBits
    <2> DEFINE a == A + fraction
               b == B - fraction
    <2>6. BitSum(e, i) = a * SignOf(i) + b * SignOf(i + 1) /\ b < a /\ b > 0 /\ a \in Int /\ b \in Int
      BY <1>1, <2>3, <2>4
    <2> HIDE DEF a, b
    <2>7. CASE SignOf(i) = 1
      BY <2>5, <2>6, <2>7
    <2>8. CASE SignOf(i) = -1
      BY <2>5, <2>6, <2>8
    <2> QED
      BY <2>5, <2>7, <2>8
  <1> QED
    BY <1>2 DEF Demodulated, Received

\* Half a bit before the edge the bit before has at least as much weight.
LEMMA BitSumOfTie ==
    ASSUME StreamOfBits, NEW i \in -1 .. WordBits + 1
    PROVE  /\ fraction = 0 => (BitSum(-Half, i) > 0 <=> stream[i - 1] = 1 /\ stream[i] = 1)
           /\ fraction > 0 => (BitSum(-Half, i) > 0 <=> stream[i - 1] = 1)
  <1>1. /\ Period \in Nat \ {0} /\ Fraction \in Nat \ {0} /\ Half \in Nat \ {0}
        /\ Period = 2 * Half /\ fraction \in 0 .. Fraction - 1
    BY DecoderConstants DEF StreamOfBits
  <1>2. /\ Half \in 0 .. Period - 1 /\ i \in -3 .. WordBits + 3
        /\ i \in -4 .. WordBits + 3 /\ i - 1 \in -4 .. WordBits + 3
    BY <1>1 DEF WordBits
  <1>3. PICK A \in Int, B \in Int :
              /\ A = Half * Fraction /\ B - A = 2 * ((Half - Half) * Fraction)
              /\ BitSum(-Half, i) = (A + fraction) * SignOf(i - 1) + (B - fraction) * SignOf(i)
    BY <1>2, BitSumMix
  <1>4. A >= Fraction
    BY <1>1, <1>3
  <1>5. B = A
    <2>1. (Half - Half) * Fraction = 0
      BY <1>1
    <2> QED
      BY <1>3, <2>1
  <1>6. /\ SignOf(i) \in {-1, 1} /\ (stream[i] = 1 <=> SignOf(i) = 1)
        /\ SignOf(i - 1) \in {-1, 1} /\ (stream[i - 1] = 1 <=> SignOf(i - 1) = 1)
    BY <1>2, SignType
  <1>7. PICK x \in {-1, 1}, y \in {-1, 1} : x = SignOf(i - 1) /\ y = SignOf(i)
    BY <1>6
  <1>8. BitSum(-Half, i) = (A + fraction) * x + (A - fraction) * y
    BY <1>3, <1>5, <1>7
  <1>9. /\ fraction = 0 => (BitSum(-Half, i) > 0 <=> x = 1 /\ y = 1)
        /\ fraction > 0 => (BitSum(-Half, i) > 0 <=> x = 1)
    BY <1>1, <1>4, <1>8
  <1> QED
    BY <1>6, <1>7, <1>9

\* No preamble is found half a bit away, where a one needs two ones.
LEMMA TieNeverDecodes ==
    ASSUME StreamOfBits, fraction = 0, NEW s \in {-Half, Half}
    PROVE  ~Decodes(Demodulated(s))
  <1> DEFINE bits == Demodulated(s)
  <1>1. /\ Half \in Nat /\ Period = 2 * Half
    BY DecoderConstants
  <1>2. PICK o \in {-1, 0} :
           \A i \in 1 .. 8 : bits[i] = IF stream[i + o] = 1 /\ stream[i + o + 1] = 1 THEN 1 ELSE 0
    <2>1. CASE s = -Half
      <3>1. ASSUME NEW i \in 1 .. 8
            PROVE  bits[i] = IF stream[i + (-1)] = 1 /\ stream[i + (-1) + 1] = 1 THEN 1 ELSE 0
        <4>1. i \in -1 .. WordBits + 1 /\ i \in -1 .. WordBits /\ i + (-1) = i - 1 /\ i + (-1) + 1 = i
          BY DEF WordBits
        <4>2. BitSum(s, i) > 0 <=> stream[i - 1] = 1 /\ stream[i] = 1
          BY <2>1, <4>1, BitSumOfTie
        <4>3. bits[i] = IF BitSum(s, i) > 0 THEN 1 ELSE 0
          BY <4>1 DEF Demodulated
        <4> QED
          BY <4>1, <4>2, <4>3
      <3> QED
        BY <3>1
    <2>2. CASE s = Half
      <3>1. ASSUME NEW i \in 1 .. 8
            PROVE  bits[i] = IF stream[i + 0] = 1 /\ stream[i + 0 + 1] = 1 THEN 1 ELSE 0
        <4>1. i + 1 \in -1 .. WordBits + 1 /\ i \in -1 .. WordBits /\ i \in Int /\ s \in Int
              /\ i + 0 = i /\ i + 0 + 1 = i + 1 /\ (i + 1) - 1 = i
          BY <1>1, <2>2 DEF WordBits
        <4>2. BitSum(s, i) = BitSum(-(Period - s), i + 1)
          BY <4>1, BitSumOfLateStart
        <4>3. -(Period - s) = -Half
          BY <1>1, <2>2
        <4>4. BitSum(-Half, i + 1) > 0 <=> stream[(i + 1) - 1] = 1 /\ stream[i + 1] = 1
          <5> DEFINE j == i + 1
          <5>1. j \in -1 .. WordBits + 1
            BY <4>1
          <5> HIDE DEF j
          <5>2. BitSum(-Half, j) > 0 <=> stream[j - 1] = 1 /\ stream[j] = 1
            BY <5>1, BitSumOfTie
          <5> QED
            BY <5>2 DEF j
        <4>5. bits[i] = IF BitSum(s, i) > 0 THEN 1 ELSE 0
          BY <4>1 DEF Demodulated
        <4>6. BitSum(s, i) > 0 <=> stream[i] = 1 /\ stream[i + 1] = 1
          BY <4>1, <4>2, <4>3, <4>4
        <4> QED
          BY <4>1, <4>5, <4>6
      <3> QED
        BY <3>1
    <2> QED
      BY <2>1, <2>2
  <1> HIDE DEF bits
  <1>3. /\ bits[5] = 1 => stream[5 + o] = 1 /\ stream[6 + o] = 1
        /\ bits[7] = 1 => stream[7 + o] = 1 /\ stream[8 + o] = 1
        /\ bits[6] = IF stream[6 + o] = 1 /\ stream[7 + o] = 1 THEN 1 ELSE 0
        /\ bits[4] = 1 => stream[4 + o] = 1 /\ stream[5 + o] = 1
        /\ bits[6] = 1 => stream[6 + o] = 1 /\ stream[7 + o] = 1
        /\ bits[5] = IF stream[5 + o] = 1 /\ stream[6 + o] = 1 THEN 1 ELSE 0
    BY <1>2
  <1>4. ~IsNormal(bits)
    <2>1. IsNormal(bits) => bits[5] = 1 /\ bits[6] = 0 /\ bits[7] = 1
      BY DEF IsNormal, Preamble
    <2> QED
      BY <1>3, <2>1
  <1>5. ~IsInverted(bits)
    <2>1. IsInverted(bits) => bits[4] = 1 /\ bits[5] = 0 /\ bits[6] = 1
      BY DEF IsInverted, Preamble
    <2> QED
      BY <1>3, <2>1
  <1> QED
    BY <1>4, <1>5 DEF Decodes, bits

-----------------------------------------------------------------------------
(* The parity of a word *)

\* d is X with the bits in G flipped
FlippedOn(d, X, G, T) == \A i \in T : d[i] = IF i \in G THEN 1 - X[i] ELSE X[i]

LEMMA ParityOfFlipped ==
    ASSUME NEW T, IsFiniteSet(T), NEW X \in [T -> {0, 1}], NEW d \in [T -> {0, 1}],
           NEW G \in SUBSET T, FlippedOn(d, X, G, T)
    PROVE  Parity(d) = (Parity(X) + Cardinality(G)) % 2
  <1> DEFINE A == {i \in T : X[i] = 1}
             B == {i \in T : d[i] = 1}
             U == A \ G
             V == G \ A
  <1>1. \A i \in T : i \in B <=> i \in U \/ i \in V
    BY DEF FlippedOn
  <1>2. B = U \cup V /\ A \in SUBSET T /\ B \in SUBSET T /\ U \cap V = {}
    BY <1>1, Zenon
  <1>3. Parity(X) = Cardinality(A) % 2 /\ Parity(d) = Cardinality(B) % 2
    BY DEF Parity
  <1> HIDE DEF A, B
  <1>4. IsFiniteSet(A) /\ IsFiniteSet(G) /\ IsFiniteSet(U) /\ IsFiniteSet(V)
    <2>1. IsFiniteSet(A) /\ IsFiniteSet(G)
      BY <1>2, FS_Subset
    <2> QED
      BY <2>1, FS_Subset
  <1> DEFINE W == A \cap G
  <1>5. /\ Cardinality(W) \in Nat /\ Cardinality(A) \in Nat /\ Cardinality(G) \in Nat
        /\ Cardinality(U) = Cardinality(A) - Cardinality(W)
    BY <1>4, FS_Difference, FS_Intersection, FS_CardinalityType
  <1>6. Cardinality(V) = Cardinality(G) - Cardinality(W)
    <2>1. G \cap A = W
      BY Zenon
    <2> HIDE DEF W
    <2> QED
      BY <1>4, <2>1, FS_Difference
  <1>7. Cardinality(B) = Cardinality(U) + Cardinality(V)
    <2>1. Cardinality(B) = Cardinality(U) + Cardinality(V) - Cardinality(U \cap V)
      BY <1>2, <1>4, FS_Union
    <2>2. Cardinality(U \cap V) = 0
      BY <1>2, FS_EmptySet
    <2>3. Cardinality(U) \in Nat /\ Cardinality(V) \in Nat
      BY <1>4, FS_CardinalityType
    <2> QED
      BY <2>1, <2>2, <2>3
  <1> DEFINE a == Cardinality(A)
             g == Cardinality(G)
             w == Cardinality(W)
  <1>8. Cardinality(B) = a + g - 2 * w /\ a \in Nat /\ g \in Nat /\ w \in Nat
    BY <1>5, <1>6, <1>7
  <1>9. (a + g - 2 * w) % 2 = ((a % 2) + g) % 2
    <2> HIDE DEF a, g, w
    <2> QED
      BY <1>8
  <1> QED
    BY <1>3, <1>8, <1>9

\* A set of numbers up to m, an even number of them or an odd one
Counted(S, odd, m) ==
    IsFiniteSet(S) /\ Cardinality(S) % 2 = odd /\ \A x \in S : x \in Int /\ x <= m

Also(S, a, b) == S \cup {a, b}

LEMMA TwoMore ==
    ASSUME NEW S, NEW odd, NEW m \in Int, NEW a \in Int, NEW b \in Int,
           m < a, a < b, Counted(S, odd, m)
    PROVE  Counted(Also(S, a, b), odd, b)
  <1>1. IsFiniteSet(S) /\ Cardinality(S) % 2 = odd /\ \A x \in S : x \in Int /\ x <= m
    BY DEF Counted
  <1>2. a \notin S /\ b \notin S /\ a # b /\ Cardinality(S) \in Nat
    BY <1>1, FS_CardinalityType
  <1> DEFINE U == S \cup {a}
             V == U \cup {b}
  <1>3. IsFiniteSet(U) /\ Cardinality(U) = Cardinality(S) + 1
    BY <1>1, <1>2, FS_AddElement
  <1>4. b \notin U
    BY <1>2
  <1>5. IsFiniteSet(V) /\ Cardinality(V) % 2 = odd
    <2> HIDE DEF U
    <2>1. IsFiniteSet(V) /\ Cardinality(V) = Cardinality(U) + 1
      BY <1>3, <1>4, FS_AddElement
    <2> QED
      BY <1>1, <1>2, <1>3, <2>1
  <1>6. \A x \in V : x \in Int /\ x <= b
    BY <1>1
  <1>7. Also(S, a, b) = V
    BY Zenon DEF Also
  <1> HIDE DEF V
  <1> QED
    BY <1>5, <1>6, <1>7 DEF Counted

LEMMA SixMore ==
    ASSUME NEW S, NEW odd, NEW m \in Int, Counted(S, odd, m),
           NEW a \in Int, NEW b \in Int, NEW c \in Int,
           NEW d \in Int, NEW e \in Int, NEW f \in Int,
           m < a, a < b, b < c, c < d, d < e, e < f
    PROVE  Counted(Also(Also(Also(S, a, b), c, d), e, f), odd, f)
  <1>1. Counted(Also(S, a, b), odd, b)
    BY TwoMore
  <1>2. Counted(Also(Also(S, a, b), c, d), odd, d)
    BY <1>1, TwoMore
  <1>3. Counted(Also(Also(Also(S, a, b), c, d), e, f), odd, f)
    BY <1>2, TwoMore
  <1> QED
    BY <1>3

One(a) == {a}

LEMMA NoneAndOne ==
    /\ Counted({}, 0, 0)
    /\ \A a \in Int : Counted(One(a), 1, a)
  <1>1. Counted({}, 0, 0)
    BY FS_EmptySet DEF Counted
  <1>2. ASSUME NEW a \in Int PROVE Counted(One(a), 1, a)
    <2>1. IsFiniteSet(One(a)) /\ Cardinality(One(a)) = 1
      BY FS_Singleton DEF One
    <2> QED
      BY <2>1 DEF Counted, One
  <1> QED
    BY <1>1, <1>2

\* The last two rows have an odd number of taps.
LEMMA RowSizes ==
    \A r \in 1 .. 6 : Counted(Taps[r], IF r >= 5 THEN 1 ELSE 0, 24)
  <1>1. Counted(Taps[1], 0, 24)
    <2> DEFINE A == Also({}, 1, 2)
               B == Also(Also(Also(A, 3, 5), 6, 10), 11, 12)
               C == Also(Also(Also(B, 13, 14), 17, 18), 20, 23)
    <2>1. Taps[1] = C
      <3>1. Taps[1] = {1, 2, 3, 5, 6, 10, 11, 12, 13, 14, 17, 18, 20, 23}
        BY DEF Taps
      <3> QED
        BY <3>1, Zenon DEF Also, One
    <2>2. Counted(A, 0, 2)
      BY NoneAndOne, TwoMore
    <2> HIDE DEF A
    <2>3. Counted(B, 0, 12)
      BY <2>2, SixMore
    <2> HIDE DEF B
    <2>4. Counted(C, 0, 23)
      BY <2>3, SixMore
    <2> HIDE DEF C
    <2> QED
      BY <2>1, <2>4 DEF Counted
  <1>2. Counted(Taps[2], 0, 24)
    <2> DEFINE A == Also({}, 2, 3)
               B == Also(Also(Also(A, 4, 6), 7, 11), 12, 13)
               C == Also(Also(Also(B, 14, 15), 18, 19), 21, 24)
    <2>1. Taps[2] = C
      <3>1. Taps[2] = {2, 3, 4, 6, 7, 11, 12, 13, 14, 15, 18, 19, 21, 24}
        BY DEF Taps
      <3> QED
        BY <3>1, Zenon DEF Also, One
    <2>2. Counted(A, 0, 3)
      BY NoneAndOne, TwoMore
    <2> HIDE DEF A
    <2>3. Counted(B, 0, 13)
      BY <2>2, SixMore
    <2> HIDE DEF B
    <2>4. Counted(C, 0, 24)
      BY <2>3, SixMore
    <2> HIDE DEF C
    <2> QED
      BY <2>1, <2>4 DEF Counted
  <1>3. Counted(Taps[3], 0, 24)
    <2> DEFINE A == Also({}, 1, 3)
               B == Also(Also(Also(A, 4, 5), 7, 8), 12, 13)
               C == Also(Also(Also(B, 14, 15), 16, 19), 20, 22)
    <2>1. Taps[3] = C
      <3>1. Taps[3] = {1, 3, 4, 5, 7, 8, 12, 13, 14, 15, 16, 19, 20, 22}
        BY DEF Taps
      <3> QED
        BY <3>1, Zenon DEF Also, One
    <2>2. Counted(A, 0, 3)
      BY NoneAndOne, TwoMore
    <2> HIDE DEF A
    <2>3. Counted(B, 0, 13)
      BY <2>2, SixMore
    <2> HIDE DEF B
    <2>4. Counted(C, 0, 22)
      BY <2>3, SixMore
    <2> HIDE DEF C
    <2> QED
      BY <2>1, <2>4 DEF Counted
  <1>4. Counted(Taps[4], 0, 24)
    <2> DEFINE A == Also({}, 2, 4)
               B == Also(Also(Also(A, 5, 6), 8, 9), 13, 14)
               C == Also(Also(Also(B, 15, 16), 17, 20), 21, 23)
    <2>1. Taps[4] = C
      <3>1. Taps[4] = {2, 4, 5, 6, 8, 9, 13, 14, 15, 16, 17, 20, 21, 23}
        BY DEF Taps
      <3> QED
        BY <3>1, Zenon DEF Also, One
    <2>2. Counted(A, 0, 4)
      BY NoneAndOne, TwoMore
    <2> HIDE DEF A
    <2>3. Counted(B, 0, 14)
      BY <2>2, SixMore
    <2> HIDE DEF B
    <2>4. Counted(C, 0, 23)
      BY <2>3, SixMore
    <2> HIDE DEF C
    <2> QED
      BY <2>1, <2>4 DEF Counted
  <1>5. Counted(Taps[5], 1, 24)
    <2> DEFINE A == Also(One(1), 3, 5)
               B == Also(Also(Also(A, 6, 7), 9, 10), 14, 15)
               C == Also(Also(Also(B, 16, 17), 18, 21), 22, 24)
    <2>1. Taps[5] = C
      <3>1. Taps[5] = {1, 3, 5, 6, 7, 9, 10, 14, 15, 16, 17, 18, 21, 22, 24}
        BY DEF Taps
      <3> QED
        BY <3>1, Zenon DEF Also, One
    <2>2. Counted(A, 1, 5)
      BY NoneAndOne, TwoMore
    <2> HIDE DEF A
    <2>3. Counted(B, 1, 15)
      BY <2>2, SixMore
    <2> HIDE DEF B
    <2>4. Counted(C, 1, 24)
      BY <2>3, SixMore
    <2> HIDE DEF C
    <2> QED
      BY <2>1, <2>4 DEF Counted
  <1>6. Counted(Taps[6], 1, 24)
    <2> DEFINE A == One(3)
               B == Also(Also(Also(A, 5, 6), 8, 9), 10, 11)
               C == Also(Also(Also(B, 13, 15), 19, 22), 23, 24)
    <2>1. Taps[6] = C
      <3>1. Taps[6] = {3, 5, 6, 8, 9, 10, 11, 13, 15, 19, 22, 23, 24}
        BY DEF Taps
      <3> QED
        BY <3>1, Zenon DEF Also, One
    <2>2. Counted(A, 1, 3)
      BY NoneAndOne, TwoMore
    <2> HIDE DEF A
    <2>3. Counted(B, 1, 11)
      BY <2>2, SixMore
    <2> HIDE DEF B
    <2>4. Counted(C, 1, 24)
      BY <2>3, SixMore
    <2> HIDE DEF C
    <2> QED
      BY <2>1, <2>4 DEF Counted
  <1> QED
    BY <1>1, <1>2, <1>3, <1>4, <1>5, <1>6

\* The place of a tap in the row that is n rows on
Moved(i, n) == ((i + n - 1) % 24) + 1

LEMMA RotatedRow ==
    ASSUME NEW n
    PROVE  Rotated(n) = {Moved(1, n), Moved(2, n), Moved(3, n), Moved(5, n), Moved(6, n), Moved(10, n), Moved(11, n),
                         Moved(12, n), Moved(13, n), Moved(14, n), Moved(17, n), Moved(18, n), Moved(20, n), Moved(23, n)}
  <1>1. Rotated(n) = {Moved(i, n) : i \in FirstRow}
    BY DEF Rotated, Moved
  <1> QED
    BY <1>1, Zenon DEF FirstRow

\* checkParity has the rows of IS-GPS-200.
LEMMA RowsAreTheReference ==
    \A r \in 1 .. 6 : ReferenceRow(24 + r) = Taps[r]
  <1>1. Rotated(0) = {1, 2, 3, 5, 6, 10, 11, 12, 13, 14, 17, 18, 20, 23}
    <2>1. Moved(1, 0) = 1 /\ Moved(2, 0) = 2 /\ Moved(3, 0) = 3 /\ Moved(5, 0) = 5 /\
          Moved(6, 0) = 6 /\ Moved(10, 0) = 10 /\ Moved(11, 0) = 11 /\ Moved(12, 0) = 12 /\
          Moved(13, 0) = 13 /\ Moved(14, 0) = 14 /\ Moved(17, 0) = 17 /\ Moved(18, 0) = 18 /\
          Moved(20, 0) = 20 /\ Moved(23, 0) = 23
      BY DEF Moved
    <2> QED
      BY <2>1, RotatedRow, Zenon
  <1>2. Rotated(1) = {2, 3, 4, 6, 7, 11, 12, 13, 14, 15, 18, 19, 21, 24}
    <2>1. Moved(1, 1) = 2 /\ Moved(2, 1) = 3 /\ Moved(3, 1) = 4 /\ Moved(5, 1) = 6 /\
          Moved(6, 1) = 7 /\ Moved(10, 1) = 11 /\ Moved(11, 1) = 12 /\ Moved(12, 1) = 13 /\
          Moved(13, 1) = 14 /\ Moved(14, 1) = 15 /\ Moved(17, 1) = 18 /\ Moved(18, 1) = 19 /\
          Moved(20, 1) = 21 /\ Moved(23, 1) = 24
      BY DEF Moved
    <2> QED
      BY <2>1, RotatedRow, Zenon
  <1>3. Rotated(2) = {3, 4, 5, 7, 8, 12, 13, 14, 15, 16, 19, 20, 22, 1}
    <2>1. Moved(1, 2) = 3 /\ Moved(2, 2) = 4 /\ Moved(3, 2) = 5 /\ Moved(5, 2) = 7 /\
          Moved(6, 2) = 8 /\ Moved(10, 2) = 12 /\ Moved(11, 2) = 13 /\ Moved(12, 2) = 14 /\
          Moved(13, 2) = 15 /\ Moved(14, 2) = 16 /\ Moved(17, 2) = 19 /\ Moved(18, 2) = 20 /\
          Moved(20, 2) = 22 /\ Moved(23, 2) = 1
      BY DEF Moved
    <2> QED
      BY <2>1, RotatedRow, Zenon
  <1>4. Rotated(3) = {4, 5, 6, 8, 9, 13, 14, 15, 16, 17, 20, 21, 23, 2}
    <2>1. Moved(1, 3) = 4 /\ Moved(2, 3) = 5 /\ Moved(3, 3) = 6 /\ Moved(5, 3) = 8 /\
          Moved(6, 3) = 9 /\ Moved(10, 3) = 13 /\ Moved(11, 3) = 14 /\ Moved(12, 3) = 15 /\
          Moved(13, 3) = 16 /\ Moved(14, 3) = 17 /\ Moved(17, 3) = 20 /\ Moved(18, 3) = 21 /\
          Moved(20, 3) = 23 /\ Moved(23, 3) = 2
      BY DEF Moved
    <2> QED
      BY <2>1, RotatedRow, Zenon
  <1>5. Rotated(4) = {5, 6, 7, 9, 10, 14, 15, 16, 17, 18, 21, 22, 24, 3}
    <2>1. Moved(1, 4) = 5 /\ Moved(2, 4) = 6 /\ Moved(3, 4) = 7 /\ Moved(5, 4) = 9 /\
          Moved(6, 4) = 10 /\ Moved(10, 4) = 14 /\ Moved(11, 4) = 15 /\ Moved(12, 4) = 16 /\
          Moved(13, 4) = 17 /\ Moved(14, 4) = 18 /\ Moved(17, 4) = 21 /\ Moved(18, 4) = 22 /\
          Moved(20, 4) = 24 /\ Moved(23, 4) = 3
      BY DEF Moved
    <2> QED
      BY <2>1, RotatedRow, Zenon
  <1>6. ReferenceRow(25) = Taps[1]
    BY <1>1 DEF ReferenceRow, Taps
  <1>7. ReferenceRow(26) = Taps[2]
    BY <1>2 DEF ReferenceRow, Taps
  <1>8. ReferenceRow(27) = Taps[3]
    BY <1>3 DEF ReferenceRow, Taps
  <1>9. ReferenceRow(28) = Taps[4]
    BY <1>4 DEF ReferenceRow, Taps
  <1>10. ReferenceRow(29) = Taps[5]
    BY <1>5 DEF ReferenceRow, Taps
  <1>11. ReferenceRow(30) = Taps[6]
    BY DEF ReferenceRow, Taps
  <1> QED
    BY <1>6, <1>7, <1>8, <1>9, <1>10, <1>11

-----------------------------------------------------------------------------
(* The bits as they arrive *)

StreamInv ==
    /\ payload \in SUBSET (9 .. 24) /\ before \in [1 .. 2 -> {0, 1}] /\ inverted \in BOOLEAN
    /\ StreamOfBits
    /\ flips \in SUBSET (-1 .. WordBits) /\ Cardinality(flips) <= MaxFlips
    /\ \A i \in -4 .. WordBits + 3 :
          stream[i] = IF i \in flips THEN Flip(Transmitted[i]) ELSE Transmitted[i]

\* The parity that the satellite sends in bit 24 + r, D30* being left aside
RowParity(r) == Parity([j \in Taps[r] |-> Data(j)])

LEMMA ParityType ==
    ASSUME NEW T, IsFiniteSet(T), NEW d \in [T -> {0, 1}]
    PROVE  Parity(d) \in {0, 1}
  <1> DEFINE A == {i \in DOMAIN d : d[i] = 1}
  <1>1. A \in SUBSET T
    OBVIOUS
  <1> HIDE DEF A
  <1>2. Cardinality(A) \in Nat
    BY <1>1, FS_Subset, FS_CardinalityType
  <1>3. Cardinality(A) % 2 \in {0, 1}
    BY <1>2
  <1> QED
    BY <1>3 DEF Parity, A

LEMMA RowIsFinite ==
    ASSUME NEW r \in 1 .. 6
    PROVE  IsFiniteSet(Taps[r]) /\ Taps[r] \in SUBSET (1 .. 24)
  <1>1. IsFiniteSet(Taps[r])
    BY RowSizes DEF Counted
  <1>2. Taps[r] \in SUBSET (1 .. 24)
    <2>1. r \in {1, 2, 3, 4, 5, 6}
      OBVIOUS
    <2> QED
      BY <2>1 DEF Taps
  <1> QED
    BY <1>1, <1>2

LEMMA RowParityType ==
    ASSUME NEW r \in 1 .. 6 PROVE RowParity(r) \in {0, 1}
  <1> DEFINE d == [j \in Taps[r] |-> Data(j)]
  <1>1. d \in [Taps[r] -> {0, 1}]
    BY DEF Data
  <1> HIDE DEF d
  <1>2. Parity(d) \in {0, 1}
    BY <1>1, RowIsFinite, ParityType
  <1> QED
    BY <1>2 DEF RowParity, d

\* What is sent
LEMMA SentBits ==
    ASSUME before \in [1 .. 2 -> {0, 1}]
    PROVE  /\ Sent(-1) = before[1] /\ Sent(0) = before[2]
           /\ \A i \in 1 .. 24 : Sent(i) = (Data(i) + before[2]) % 2
           /\ \A r \in 1 .. 6 :
                 Sent(24 + r) = (RowParity(r) + before[IF r \in {1, 3, 6} THEN 1 ELSE 2]) % 2
           /\ \A i \in -4 .. WordBits + 3 : Sent(i) \in {0, 1}
  <1>1. Sent(-1) = before[1] /\ Sent(0) = before[2]
    BY DEF Sent, WordBits
  <1>2. ASSUME NEW i \in 1 .. 24
        PROVE  Sent(i) = (Data(i) + before[2]) % 2 /\ Sent(i) \in {0, 1}
    <2>1. Data(i) \in {0, 1}
      BY DEF Data
    <2> QED
      BY <2>1 DEF Sent
  <1>3. ASSUME NEW r \in 1 .. 6
        PROVE  /\ Sent(24 + r) = (RowParity(r) + before[IF r \in {1, 3, 6} THEN 1 ELSE 2]) % 2
               /\ Sent(24 + r) \in {0, 1}
    <2> DEFINE i == 24 + r
               star == IF r \in {1, 3, 6} THEN 1 ELSE 2
    <2>1. i \notin 1 .. 24 /\ i \in 25 .. WordBits
      BY DEF WordBits
    <2>2. ReferenceRow(i) = Taps[r]
      BY RowsAreTheReference
    <2>3. ReferenceStar(i) = star
      BY DEF ReferenceStar
    <2> HIDE DEF i
    <2>4. Sent(i) = (RowParity(r) + before[star]) % 2
      BY <2>1, <2>2, <2>3 DEF Sent, RowParity
    <2>5. RowParity(r) \in {0, 1} /\ before[star] \in {0, 1}
      BY RowParityType
    <2> HIDE DEF star
    <2>6. Sent(i) \in {0, 1}
      BY <2>4, <2>5
    <2> QED
      BY <2>4, <2>6 DEF i, star
  <1>4. ASSUME NEW i \in -4 .. WordBits + 3 PROVE Sent(i) \in {0, 1}
    <2>1. CASE i \in 1 .. 24
      BY <1>2, <2>1
    <2>2. CASE i \in 25 .. WordBits
      <3>1. i - 24 \in 1 .. 6 /\ 24 + (i - 24) = i
        BY <2>2 DEF WordBits
      <3> DEFINE r == i - 24
      <3>2. r \in 1 .. 6 /\ 24 + r = i
        BY <3>1
      <3> HIDE DEF r
      <3> QED
        BY <1>3, <3>2
    <2>3. CASE i \in {-1, 0}
      BY <1>1, <2>3
    <2>4. CASE i \notin 1 .. 24 /\ i \notin 25 .. WordBits /\ i \notin {-1, 0}
      <3>1. Sent(i) = i % 2
        BY <2>4 DEF Sent
      <3> QED
        BY <3>1 DEF WordBits
    <2> QED
      BY <2>1, <2>2, <2>3, <2>4
  <1> QED
    BY <1>1, <1>2, <1>3, <1>4

InvertedBit == IF inverted THEN 1 ELSE 0
FlippedBit(i) == IF i \in flips THEN 1 ELSE 0

\* What arrives
LEMMA ArrivedBits ==
    ASSUME StreamInv, NEW i \in -4 .. WordBits + 3
    PROVE  stream[i] = (Sent(i) + InvertedBit + FlippedBit(i)) % 2 /\ stream[i] \in {0, 1}
  <1>1. Sent(i) \in {0, 1}
    BY SentBits DEF StreamInv
  <1>2. Transmitted[i] = IF inverted THEN Flip(Sent(i)) ELSE Sent(i)
    BY DEF Transmitted
  <1>3. Transmitted[i] = (Sent(i) + InvertedBit) % 2
    BY <1>1, <1>2 DEF InvertedBit, Flip
  <1>4. stream[i] = IF i \in flips THEN Flip(Transmitted[i]) ELSE Transmitted[i]
    BY DEF StreamInv
  <1>5. InvertedBit \in {0, 1}
    BY DEF InvertedBit
  <1> QED
    BY <1>1, <1>3, <1>4, <1>5 DEF FlippedBit, Flip

\* A bit that is sent with the polarity b, inverted or not by x, perhaps flipped
\* by f, and turned by n, which is the right turn for the polarity c
Turned(p, b, x, f, n) == (((((p + b) % 2) + x + f) % 2) + n) % 2

RightTurn(c, x, n) == (c + x + n) % 2 = 0

LEMMA TurnedBit ==
    ASSUME NEW p \in {0, 1}, NEW b \in {0, 1}, NEW c \in {0, 1}, NEW x \in {0, 1},
           NEW f \in {0, 1}, NEW n \in {0, 1}, RightTurn(c, x, n)
    PROVE  /\ Turned(p, b, x, f, n) = (p + b + c + f) % 2
           /\ b = c => Turned(p, b, x, f, n) = (p + f) % 2
  <1>1. n = (c + x) % 2
    BY DEF RightTurn
  <1>2. CASE p = 0 /\ b = 0
    BY <1>1, <1>2 DEF Turned
  <1>3. CASE p = 0 /\ b = 1
    BY <1>1, <1>3 DEF Turned
  <1>4. CASE p = 1 /\ b = 0
    BY <1>1, <1>4 DEF Turned
  <1>5. CASE p = 1 /\ b = 1
    BY <1>1, <1>5 DEF Turned
  <1> QED
    BY <1>2, <1>3, <1>4, <1>5

LEMMA BitsAreFinite == IsFiniteSet(-1 .. WordBits) /\ Cardinality(1 .. 8) = 8
  <1>1. \A a, b \in Int : IsFiniteSet(a .. b)
    BY FS_Interval
  <1>2. \A b \in Nat : Cardinality(1 .. b) = b
    BY FS_Interval
  <1>3. -1 \in Int /\ WordBits \in Int /\ 8 \in Nat
    BY DEF WordBits
  <1> QED
    BY <1>1, <1>2, <1>3

\* The word that is decoded, in terms of the one that was sent.  A preamble of
\* eight bits cannot hide a wrong polarity behind seven flips.
LEMMA WordFound ==
    ASSUME StreamInv, Cardinality(flips) < 8, IsNormal(Received) \/ IsInverted(Received),
           NEW raw, raw = BitAt(Received), NEW d, d = DataWord(raw)
    PROVE  /\ \A i \in 1 .. 8 : i \notin flips
           /\ raw[0] = FlippedBit(0)
           /\ raw[-1] = (before[1] + before[2] + FlippedBit(-1)) % 2
           /\ \A i \in 1 .. 24 : d[i] = (Data(i) + FlippedBit(i) + FlippedBit(0)) % 2
           /\ \A r \in 1 .. 6 :
                 d[24 + r] = (RowParity(r) + (IF r \in {1, 3, 6} THEN before[1] + before[2] ELSE 0)
                                + FlippedBit(24 + r)) % 2
  <1> DEFINE neg == IF IsInverted(Received) THEN 1 ELSE 0
  <1>0. neg \in {0, 1} /\ InvertedBit \in {0, 1} /\ before[1] \in {0, 1} /\ before[2] \in {0, 1}
    BY DEF StreamInv, InvertedBit
  <1>1. \A i \in -1 .. WordBits : FlippedBit(i) \in {0, 1} /\ Data(i) \in {0, 1}
    BY DEF FlippedBit, Data
  <1>2. \A i \in -1 .. WordBits :
           Received[i] = (Sent(i) + InvertedBit + FlippedBit(i)) % 2 /\ Received[i] \in {0, 1}
    <2>1. ASSUME NEW i \in -1 .. WordBits
          PROVE  Received[i] = (Sent(i) + InvertedBit + FlippedBit(i)) % 2 /\ Received[i] \in {0, 1}
      <3>1. i \in -4 .. WordBits + 3 /\ Received[i] = stream[i]
        BY DEF Received, WordBits
      <3> QED
        BY <3>1, ArrivedBits
    <2> QED
      BY <2>1
  <1>3. \A i \in -1 .. WordBits : raw[i] = (Received[i] + neg) % 2
    <2>1. DOMAIN Received = -1 .. WordBits
      BY DEF Received
    <2> QED
      BY <1>2, <2>1 DEF BitAt, Flip
  <1>4. \A i \in 1 .. 8 : (Received[i] + neg) % 2 = Data(i)
    <2>1. ASSUME NEW i \in 1 .. 8 PROVE (Received[i] + neg) % 2 = Data(i)
      <3>1. i \in -1 .. WordBits
        BY DEF WordBits
      <3>2. Data(i) = IF i \in Preamble THEN 1 ELSE 0
        BY DEF Data, StreamInv
      <3>3. CASE IsInverted(Received)
        BY <3>2, <3>3 DEF IsInverted
      <3>4. CASE ~IsInverted(Received)
        BY <3>2, <3>4 DEF IsNormal
      <3> QED
        BY <3>3, <3>4
    <2> QED
      BY <2>1
  <1> HIDE DEF neg
  <1>5. /\ Sent(-1) = before[1] /\ Sent(0) = before[2]
        /\ \A i \in 1 .. 24 : Sent(i) = (Data(i) + before[2]) % 2
        /\ \A r \in 1 .. 6 :
              Sent(24 + r) = (RowParity(r) + before[IF r \in {1, 3, 6} THEN 1 ELSE 2]) % 2
    BY SentBits DEF StreamInv
  <1> DEFINE c == (before[2] + InvertedBit + neg) % 2
  <1>6. \A i \in 1 .. 8 : FlippedBit(i) = c
    <2>1. ASSUME NEW i \in 1 .. 8 PROVE FlippedBit(i) = c
      <3>1. i \in -1 .. WordBits /\ i \in 1 .. 24
        BY DEF WordBits
      <3>2. Received[i] = (Sent(i) + InvertedBit + FlippedBit(i)) % 2
        BY <1>2, <3>1
      <3>3. Sent(i) = (Data(i) + before[2]) % 2 /\ (Received[i] + neg) % 2 = Data(i)
        BY <1>4, <1>5, <3>1
      <3>4. FlippedBit(i) \in {0, 1} /\ Data(i) \in {0, 1}
        BY <1>1, <3>1
      <3> QED
        BY <1>0, <3>2, <3>3, <3>4
    <2> QED
      BY <2>1
  <1>7. c = 0
    <2> SUFFICES ASSUME c # 0 PROVE FALSE
      OBVIOUS
    <2>1. \A i \in 1 .. 8 : i \in flips
      BY <1>6 DEF FlippedBit
    <2>2. 1 .. 8 \in SUBSET flips
      BY <2>1
    <2>3. IsFiniteSet(flips)
      BY BitsAreFinite, FS_Subset DEF StreamInv
    <2>4. Cardinality(1 .. 8) = 8
      BY BitsAreFinite
    <2>5. Cardinality(1 .. 8) <= Cardinality(flips)
      BY <2>2, <2>3, FS_Subset
    <2> QED
      BY <2>3, <2>4, <2>5, FS_CardinalityType
  <1>8. RightTurn(before[2], InvertedBit, neg)
    BY <1>7 DEF RightTurn
  <1>9. \A i \in 1 .. 8 : i \notin flips
    BY <1>6, <1>7 DEF FlippedBit
  <1>10. raw[0] = FlippedBit(0)
    <2>1. 0 \in -1 .. WordBits
      BY DEF WordBits
    <2>2. raw[0] = (Received[0] + neg) % 2 /\ Received[0] = (Sent(0) + InvertedBit + FlippedBit(0)) % 2
          /\ FlippedBit(0) \in {0, 1}
      BY <1>1, <1>2, <1>3, <2>1
    <2> QED
      BY <1>0, <1>5, <1>7, <2>2
  <1>11. raw[-1] = (before[1] + before[2] + FlippedBit(-1)) % 2
    <2>1. -1 \in -1 .. WordBits
      BY DEF WordBits
    <2>2. raw[-1] = (Received[-1] + neg) % 2 /\ Received[-1] = (Sent(-1) + InvertedBit + FlippedBit(-1)) % 2
          /\ FlippedBit(-1) \in {0, 1}
      BY <1>1, <1>2, <1>3, <2>1
    <2> QED
      <3>1. Sent(-1) = (before[1] + 0) % 2 /\ Sent(-1) = before[1]
        BY <1>0, <1>5
      <3>2. raw[-1] = Turned(before[1], 0, InvertedBit, FlippedBit(-1), neg)
        BY <2>2, <3>1 DEF Turned
      <3>3. raw[-1] = (before[1] + 0 + before[2] + FlippedBit(-1)) % 2
        <4>1. 0 \in {0, 1}
          OBVIOUS
        <4> QED
          BY <1>0, <1>8, <2>2, <3>2, <4>1, TurnedBit
      <3> QED
        BY <1>0, <2>2, <3>3
  <1>12. ASSUME NEW i \in 1 .. 24
         PROVE  d[i] = (Data(i) + FlippedBit(i) + FlippedBit(0)) % 2
    <2>1. i \in -1 .. WordBits /\ i \in 1 .. WordBits /\ i <= 24 /\ 0 \in -1 .. WordBits
      BY DEF WordBits
    <2>2. /\ raw[i] = (Received[i] + neg) % 2
          /\ Received[i] = (Sent(i) + InvertedBit + FlippedBit(i)) % 2
          /\ FlippedBit(i) \in {0, 1} /\ Data(i) \in {0, 1} /\ FlippedBit(0) \in {0, 1}
      BY <1>1, <1>2, <1>3, <2>1
    <2>3. Sent(i) = (Data(i) + before[2]) % 2
      BY <1>5
    <2>4. raw[i] = (Data(i) + FlippedBit(i)) % 2
      <3>1. raw[i] = Turned(Data(i), before[2], InvertedBit, FlippedBit(i), neg)
        BY <2>2, <2>3 DEF Turned
      <3> QED
        BY <1>0, <1>8, <2>2, <3>1, TurnedBit
    <2>5. d[i] = IF raw[0] = 1 THEN Flip(raw[i]) ELSE raw[i]
      BY <2>1 DEF DataWord
    <2> QED
      BY <1>10, <2>2, <2>4, <2>5 DEF Flip
  <1>13. ASSUME NEW r \in 1 .. 6
         PROVE  d[24 + r] = (RowParity(r) + (IF r \in {1, 3, 6} THEN before[1] + before[2] ELSE 0)
                                + FlippedBit(24 + r)) % 2
    <2> DEFINE i == 24 + r
    <2>1. i \in -1 .. WordBits /\ i \in 1 .. WordBits /\ ~(i <= 24)
      BY DEF WordBits
    <2>2. Sent(i) = (RowParity(r) + before[IF r \in {1, 3, 6} THEN 1 ELSE 2]) % 2
      BY <1>5
    <2>3. RowParity(r) \in {0, 1}
      BY RowParityType
    <2> HIDE DEF i
    <2>4. /\ raw[i] = (Received[i] + neg) % 2
          /\ Received[i] = (Sent(i) + InvertedBit + FlippedBit(i)) % 2
          /\ FlippedBit(i) \in {0, 1}
      BY <1>1, <1>2, <1>3, <2>1
    <2>5. d[i] = raw[i]
      BY <2>1 DEF DataWord
    <2>6. CASE r \in {1, 3, 6}
      <3>1. Sent(i) = (RowParity(r) + before[1]) % 2
        BY <2>2, <2>6
      <3>2. d[i] = (RowParity(r) + before[1] + before[2] + FlippedBit(i)) % 2
        <4>1. d[i] = Turned(RowParity(r), before[1], InvertedBit, FlippedBit(i), neg)
          BY <2>4, <2>5, <3>1 DEF Turned
        <4> QED
          BY <1>0, <1>8, <2>3, <2>4, <4>1, TurnedBit
      <3> QED
        BY <1>0, <2>3, <2>4, <2>6, <3>2 DEF i
    <2>7. CASE r \notin {1, 3, 6}
      <3>1. Sent(i) = (RowParity(r) + before[2]) % 2
        BY <2>2, <2>7
      <3>2. d[i] = (RowParity(r) + FlippedBit(i)) % 2
        <4>1. d[i] = Turned(RowParity(r), before[2], InvertedBit, FlippedBit(i), neg)
          BY <2>4, <2>5, <3>1 DEF Turned
        <4> QED
          BY <1>0, <1>8, <2>3, <2>4, <4>1, TurnedBit
      <3> QED
        BY <2>3, <2>4, <2>7, <3>2 DEF i
    <2> QED
      BY <2>6, <2>7
  <1> QED
    BY <1>9, <1>10, <1>11, <1>12, <1>13

\* A word that arrives as it was sent is decoded, with the right sign.
LEMMA CleanWordDecodes ==
    ASSUME StreamInv, flips = {}
    PROVE  Decodes(Received) /\ \A i \in 1 .. 24 : DataWord(BitAt(Received))[i] = Data(i)
  <1> DEFINE raw == BitAt(Received)
             d == DataWord(raw)
  <1>1. Cardinality(flips) < 8
    BY FS_EmptySet
  <1>2. \A i \in -1 .. WordBits : FlippedBit(i) = 0 /\ Data(i) \in {0, 1}
    BY DEF FlippedBit, Data
  <1>3. IsNormal(Received) \/ IsInverted(Received)
    <2>1. ASSUME NEW i \in 1 .. 8
          PROVE  Received[i] = ((IF i \in Preamble THEN 1 ELSE 0) + before[2] + InvertedBit) % 2
      <3>1. i \in -4 .. WordBits + 3 /\ i \in -1 .. WordBits /\ i \in 1 .. 24
        BY DEF WordBits
      <3>2. Received[i] = (Sent(i) + InvertedBit + FlippedBit(i)) % 2
        BY <3>1, ArrivedBits DEF Received
      <3>3. Sent(i) = (Data(i) + before[2]) % 2
        BY <3>1, SentBits DEF StreamInv
      <3>4. Data(i) = IF i \in Preamble THEN 1 ELSE 0
        BY DEF Data, StreamInv
      <3>5. before[2] \in {0, 1} /\ InvertedBit \in {0, 1} /\ FlippedBit(i) = 0
        BY <1>2, <3>1 DEF StreamInv, InvertedBit
      <3> HIDE DEF raw, d
      <3> QED
        BY <3>2, <3>3, <3>4, <3>5
    <2>2. before[2] \in {0, 1} /\ InvertedBit \in {0, 1}
      BY DEF StreamInv, InvertedBit
    <2>3. CASE (before[2] + InvertedBit) % 2 = 0
      <3>1. IsNormal(Received)
        BY <2>1, <2>2, <2>3 DEF IsNormal
      <3> QED
        BY <3>1
    <2>4. CASE (before[2] + InvertedBit) % 2 = 1
      <3>1. before[2] + InvertedBit = 1
        BY <2>2, <2>4
      <3>2. ASSUME NEW i \in 1 .. 8
            PROVE  Received[i] = IF i \in Preamble THEN 0 ELSE 1
        <4>1. CASE i \in Preamble
          <5>1. Received[i] = (1 + before[2] + InvertedBit) % 2
            BY <2>1, <4>1
          <5> QED
            BY <2>2, <3>1, <4>1, <5>1
        <4>2. CASE i \notin Preamble
          <5>1. Received[i] = (0 + before[2] + InvertedBit) % 2
            BY <2>1, <4>2
          <5> QED
            BY <2>2, <3>1, <4>2, <5>1
        <4> QED
          BY <4>1, <4>2
      <3>3. IsInverted(Received)
        BY <3>2 DEF IsInverted
      <3> QED
        BY <3>3
    <2> QED
      BY <2>2, <2>3, <2>4
  <1> HIDE DEF raw, d
  <1>4. /\ raw[0] = FlippedBit(0)
        /\ raw[-1] = (before[1] + before[2] + FlippedBit(-1)) % 2
        /\ \A i \in 1 .. 24 : d[i] = (Data(i) + FlippedBit(i) + FlippedBit(0)) % 2
        /\ \A r \in 1 .. 6 :
              d[24 + r] = (RowParity(r) + (IF r \in {1, 3, 6} THEN before[1] + before[2] ELSE 0)
                             + FlippedBit(24 + r)) % 2
    BY <1>1, <1>3, WordFound DEF raw, d
  <1>5. ASSUME NEW i \in 1 .. 24 PROVE d[i] = Data(i)
    <2>1. 0 \in -1 .. WordBits /\ i \in -1 .. WordBits
      BY DEF WordBits
    <2>2. FlippedBit(i) = 0 /\ FlippedBit(0) = 0 /\ Data(i) \in {0, 1}
      BY <1>2, <2>1
    <2> QED
      BY <1>4, <2>2
  <1>6. ASSUME NEW r \in 1 .. 6
        PROVE  d[24 + r] = (Parity([i \in Taps[r] |-> d[i]])
                              + (IF r \in {1, 3, 6} THEN raw[-1] ELSE raw[0])) % 2
    <2>1. [i \in Taps[r] |-> d[i]] = [j \in Taps[r] |-> Data(j)]
      BY <1>5, RowIsFinite
    <2>2. Parity([i \in Taps[r] |-> d[i]]) = RowParity(r)
      BY <2>1 DEF RowParity
    <2>3. /\ 0 \in -1 .. WordBits /\ -1 \in -1 .. WordBits /\ 24 + r \in -1 .. WordBits
      BY DEF WordBits
    <2>4. FlippedBit(0) = 0 /\ FlippedBit(-1) = 0 /\ FlippedBit(24 + r) = 0
      BY <1>2, <2>3
    <2>5. RowParity(r) \in {0, 1} /\ before[1] \in {0, 1} /\ before[2] \in {0, 1}
      BY RowParityType DEF StreamInv
    <2>6. d[24 + r] = (RowParity(r) + (IF r \in {1, 3, 6} THEN before[1] + before[2] ELSE 0)) % 2
      BY <1>4, <2>4, <2>5
    <2> QED
      BY <1>4, <2>2, <2>4, <2>5, <2>6
  <1>7. CheckParity(d, raw[-1], raw[0])
    BY <1>6 DEF CheckParity
  <1>8. Decodes(Received)
    BY <1>3, <1>7 DEF Decodes, raw, d
  <1> QED
    BY <1>5, <1>8 DEF raw, d

-----------------------------------------------------------------------------
(* What the parity notices *)

\* The data bits of row r that change with respect to D30*
Changed(r) == {i \in Taps[r] : FlippedBit(i) # FlippedBit(0)}

LEMMA CheckedRow ==
    ASSUME StreamInv, Cardinality(flips) < 8, Decodes(Received), NEW r \in 1 .. 6
    PROVE  (Cardinality(Changed(r)) + FlippedBit(24 + r)
              + FlippedBit(IF r \in {1, 3, 6} THEN -1 ELSE 0)) % 2 = 0
  <1> DEFINE raw == BitAt(Received)
             d == DataWord(raw)
  <1>1. IsNormal(Received) \/ IsInverted(Received)
    BY DEF Decodes
  <1>2. d[24 + r] = (Parity([i \in Taps[r] |-> d[i]])
                       + (IF r \in {1, 3, 6} THEN raw[-1] ELSE raw[0])) % 2
    BY DEF Decodes, CheckParity
  <1> HIDE DEF raw, d
  <1>3. /\ raw[0] = FlippedBit(0)
        /\ raw[-1] = (before[1] + before[2] + FlippedBit(-1)) % 2
        /\ \A i \in 1 .. 24 : d[i] = (Data(i) + FlippedBit(i) + FlippedBit(0)) % 2
        /\ d[24 + r] = (RowParity(r) + (IF r \in {1, 3, 6} THEN before[1] + before[2] ELSE 0)
                          + FlippedBit(24 + r)) % 2
    BY <1>1, WordFound DEF raw, d
  <1>4. Parity([i \in Taps[r] |-> d[i]]) = (RowParity(r) + Cardinality(Changed(r))) % 2
    <2> DEFINE T == Taps[r]
               X == [j \in T |-> Data(j)]
               D == [i \in T |-> d[i]]
               G == Changed(r)
    <2>1. IsFiniteSet(T) /\ T \in SUBSET (1 .. 24) /\ G \in SUBSET T
      BY RowIsFinite DEF Changed
    <2>2. X \in [T -> {0, 1}]
      BY DEF Data
    <2>3. ASSUME NEW i \in T
          PROVE  D[i] \in {0, 1} /\ D[i] = IF i \in G THEN 1 - X[i] ELSE X[i]
      <3>1. d[i] = (Data(i) + FlippedBit(i) + FlippedBit(0)) % 2
        BY <1>3, <2>1
      <3>2. Data(i) \in {0, 1} /\ FlippedBit(i) \in {0, 1} /\ FlippedBit(0) \in {0, 1}
        BY DEF Data, FlippedBit
      <3>3. i \in G <=> FlippedBit(i) # FlippedBit(0)
        BY DEF Changed
      <3>4. D[i] = d[i] /\ X[i] = Data(i)
        OBVIOUS
      <3> HIDE DEF D, X, G, T
      <3> QED
        BY <3>1, <3>2, <3>3, <3>4
    <2>4. D \in [T -> {0, 1}]
      BY <2>3
    <2>5. Parity(X) = RowParity(r)
      BY DEF RowParity
    <2>7. FlippedOn(D, X, G, T)
      BY <2>3 DEF FlippedOn
    <2> HIDE DEF D, X, G, T
    <2>8. IsFiniteSet(T) /\ G \in SUBSET T
      BY <2>1
    <2>6. Parity(D) = (Parity(X) + Cardinality(G)) % 2
      BY <2>2, <2>4, <2>7, <2>8, ParityOfFlipped
    <2> QED
      BY <2>5, <2>6 DEF D, G, T
  <1>5. Cardinality(Changed(r)) \in Nat
    BY RowIsFinite, FS_Subset, FS_CardinalityType DEF Changed
  <1>6. /\ RowParity(r) \in {0, 1} /\ before[1] \in {0, 1} /\ before[2] \in {0, 1}
        /\ FlippedBit(0) \in {0, 1} /\ FlippedBit(-1) \in {0, 1} /\ FlippedBit(24 + r) \in {0, 1}
    BY RowParityType DEF StreamInv, FlippedBit
  <1> DEFINE p == RowParity(r)
             g == Cardinality(Changed(r))
             f == FlippedBit(24 + r)
  <1>7. CASE r \in {1, 3, 6}
    <2> DEFINE b == before[1] + before[2]
    <2>1. (p + b + f) % 2 = (((p + g) % 2) + ((b + FlippedBit(-1)) % 2)) % 2
      BY <1>2, <1>3, <1>4, <1>7
    <2>2. b \in Nat /\ p \in Nat /\ g \in Nat /\ f \in Nat /\ FlippedBit(-1) \in Nat
      BY <1>5, <1>6
    <2> HIDE DEF p, g, f, b
    <2> DEFINE x == FlippedBit(-1)
    <2>3. (g + f + x) % 2 = 0
      <3> HIDE DEF x
      <3>1. (((p + g) % 2) + ((b + x) % 2)) % 2 = (p + b + g + x) % 2 /\ x \in Nat
        BY <2>2 DEF x
      <3>2. (p + b + f) % 2 = (p + b + g + x) % 2
        BY <2>1, <3>1 DEF x
      <3> QED
        BY <2>2, <3>1, <3>2
    <2> QED
      BY <1>7, <2>3 DEF g, f
  <1>8. CASE r \notin {1, 3, 6}
    <2>1. (p + f) % 2 = (((p + g) % 2) + FlippedBit(0)) % 2
      <3>1. p + 0 + f = p + f
        BY <1>6
      <3> QED
        BY <1>2, <1>3, <1>4, <1>8, <3>1
    <2>2. p \in Nat /\ g \in Nat /\ f \in Nat /\ FlippedBit(0) \in Nat
      BY <1>5, <1>6
    <2> HIDE DEF p, g, f
    <2>3. (g + f + FlippedBit(0)) % 2 = 0
      BY <2>1, <2>2
    <2> QED
      BY <1>8, <2>3 DEF g, f
  <1> QED
    BY <1>7, <1>8

Within(T, x) == IF x \in T THEN 1 ELSE 0
Is(x, k) == IF x = k THEN 1 ELSE 0

\* Bit x takes part in check r.  When D30* is flipped, so are all data bits.
Hits(r, x) ==
    Within(Taps[r], x) + Is(x, 24 + r)
      + (IF r \in {1, 3, 6} THEN Is(x, -1) ELSE 0)
      + (IF r \in {2, 4, 6} THEN Is(x, 0) ELSE 0)

\* Every bit takes part in an odd number of checks.
LEMMA OddColumns ==
    ASSUME NEW x \in -1 .. WordBits
    PROVE  (Hits(1, x) + Hits(2, x) + Hits(3, x) + Hits(4, x) + Hits(5, x) + Hits(6, x)) % 2 = 1
  BY DEF Hits, Within, Is, Taps, WordBits

LEMMA HitsType ==
    ASSUME NEW x \in -1 .. WordBits, NEW r \in 1 .. 6
    PROVE  Hits(r, x) \in {0, 1}
  <1>1. Taps[r] \in SUBSET (1 .. 24)
    BY RowIsFinite
  <1> QED
    BY <1>1 DEF Hits, Within, Is, WordBits

\* No two bits take part in the same checks.
LEMMA ColumnsDiffer ==
    ASSUME NEW a \in -1 .. WordBits, NEW b \in -1 .. WordBits,
           \A r \in 1 .. 6 : Hits(r, a) = Hits(r, b)
    PROVE  a = b
  <1>1. /\ Hits(1, a) = Hits(1, b) /\ Hits(2, a) = Hits(2, b) /\ Hits(3, a) = Hits(3, b)
        /\ Hits(4, a) = Hits(4, b) /\ Hits(5, a) = Hits(5, b) /\ Hits(6, a) = Hits(6, b)
    OBVIOUS
  <1> QED
    BY <1>1 DEF Hits, Within, Is, Taps, WordBits

Without(F, x) == F \ {x}

LEMMA CountedIn ==
    ASSUME NEW T, NEW F, IsFiniteSet(F), NEW x \in F, NEW R, R = Without(F, x)
    PROVE  /\ IsFiniteSet(R) /\ Cardinality(R) = Cardinality(F) - 1 /\ Cardinality(F) \in Nat
           /\ Cardinality(T \cap R) \in Nat
           /\ Cardinality(T \cap F) = Within(T, x) + Cardinality(T \cap R)
  <1>0. R = F \ {x}
    BY DEF Without
  <1>1. IsFiniteSet(R) /\ Cardinality(R) = Cardinality(F) - 1 /\ Cardinality(F) \in Nat
    BY <1>0, FS_RemoveElement, FS_CardinalityType
  <1>2. IsFiniteSet(T \cap R) /\ Cardinality(T \cap R) \in Nat
    BY <1>1, FS_Intersection, FS_CardinalityType
  <1> DEFINE A == T \cap F
             B == T \cap R
  <1>3. Cardinality(A) = Within(T, x) + Cardinality(B)
    <2>1. IsFiniteSet(B) /\ Cardinality(B) \in Nat
      BY <1>2
    <2>2. CASE x \in T
      <3>1. A = B \cup {x} /\ x \notin B
        BY <1>0, <2>2, Zenon
      <3> HIDE DEF A, B
      <3>2. Cardinality(B \cup {x}) = Cardinality(B) + 1
        BY <2>1, <3>1, FS_AddElement
      <3>3. Within(T, x) = 1
        BY <2>2 DEF Within
      <3>4. Cardinality(A) = Cardinality(B) + 1
        BY <3>1, <3>2, Zenon
      <3> QED
        BY <2>1, <3>3, <3>4
    <2>3. CASE x \notin T
      <3>1. A = B
        BY <1>0, <2>3, Zenon
      <3> HIDE DEF A, B
      <3>2. Within(T, x) = 0
        BY <2>3 DEF Within
      <3> QED
        BY <2>1, <3>1, <3>2
    <2> QED
      BY <2>2, <2>3
  <1> QED
    BY <1>1, <1>2, <1>3

LEMMA WithinLess ==
    ASSUME NEW F, NEW x \in F, NEW R, R = Without(F, x), NEW k
    PROVE  Within(F, k) = Is(x, k) + Within(R, k)
  <1>0. R = F \ {x}
    BY DEF Without
  <1>1. CASE k = x
    <2>1. k \in F /\ k \notin R
      BY <1>0, <1>1
    <2> QED
      BY <1>1, <2>1 DEF Within, Is
  <1>2. CASE k # x
    <2>1. k \in F <=> k \in R
      BY <1>0, <1>2
    <2> QED
      BY <1>2, <2>1 DEF Within, Is
  <1> QED
    BY <1>1, <1>2

\* The flips that check r counts
Noticed(r, F) ==
    Cardinality(Taps[r] \cap F) + Within(F, 24 + r)
      + (IF r \in {1, 3, 6} THEN Within(F, -1) ELSE 0)
      + (IF r \in {2, 4, 6} THEN Within(F, 0) ELSE 0)

LEMMA NoticedStep ==
    ASSUME NEW F, IsFiniteSet(F), NEW x \in F, NEW R, R = Without(F, x), NEW r \in 1 .. 6
    PROVE  Noticed(r, F) = Hits(r, x) + Noticed(r, R) /\ Noticed(r, R) \in Nat
  <1> DEFINE T == Taps[r]
             k == 24 + r
             l == -1
  <1>1. /\ Cardinality(T \cap R) \in Nat
        /\ Cardinality(T \cap F) = Within(T, x) + Cardinality(T \cap R)
        /\ Within(F, k) = Is(x, k) + Within(R, k)
        /\ Within(F, l) = Is(x, l) + Within(R, l)
        /\ Within(F, 0) = Is(x, 0) + Within(R, 0)
    <2> HIDE DEF T, k, l
    <2>1. /\ Cardinality(T \cap R) \in Nat
          /\ Cardinality(T \cap F) = Within(T, x) + Cardinality(T \cap R)
      BY CountedIn
    <2>2. \A i : Within(F, i) = Is(x, i) + Within(R, i)
      BY WithinLess
    <2> QED
      BY <2>1, <2>2
  <1>2. /\ Within(Taps[r], x) \in {0, 1} /\ Is(x, 24 + r) \in {0, 1} /\ Is(x, -1) \in {0, 1}
        /\ Is(x, 0) \in {0, 1} /\ Within(R, 24 + r) \in {0, 1} /\ Within(R, -1) \in {0, 1}
        /\ Within(R, 0) \in {0, 1}
    BY DEF Within, Is
  <1>3. r \in {1, 2, 3, 4, 5, 6}
    OBVIOUS
  <1> QED
    BY <1>1, <1>2, <1>3 DEF Noticed, Hits

LEMMA NoneNoticed ==
    ASSUME NEW r \in 1 .. 6 PROVE Noticed(r, {}) = 0
  <1>1. Taps[r] \cap {} = {}
    BY Zenon
  <1>2. Cardinality(Taps[r] \cap {}) = 0
    BY <1>1, FS_EmptySet
  <1> QED
    BY <1>2 DEF Noticed, Within

\* A row that checks has noticed an even number of flips.
LEMMA RowCountsFlips ==
    ASSUME StreamInv, Cardinality(flips) < 8, Decodes(Received), NEW r \in 1 .. 6
    PROVE  Noticed(r, flips) % 2 = 0
  <1> DEFINE n == Cardinality(Taps[r] \cap flips)
             g == Cardinality(Changed(r))
             f == FlippedBit(24 + r)
  <1>1. (g + f + FlippedBit(IF r \in {1, 3, 6} THEN -1 ELSE 0)) % 2 = 0
    BY CheckedRow
  <1>2. \A k : Within(flips, k) = FlippedBit(k) /\ FlippedBit(k) \in {0, 1}
    BY DEF Within, FlippedBit
  <1>3. IsFiniteSet(Taps[r])
    BY RowIsFinite
  <1>4. n \in Nat
    BY <1>3, FS_Intersection, FS_CardinalityType
  <1>5. CASE 0 \notin flips
    <2>1. Changed(r) = Taps[r] \cap flips
      BY <1>5 DEF Changed, FlippedBit
    <2>2. FlippedBit(0) = 0 /\ g = n
      BY <1>5, <2>1 DEF FlippedBit
    <2>3. f \in {0, 1} /\ FlippedBit(-1) \in {0, 1}
      BY <1>2
    <2> HIDE DEF n, g, f
    <2>4. CASE r \in {1, 3, 6}
      <3>1. (n + f + FlippedBit(-1)) % 2 = 0
        BY <1>1, <2>2, <2>4
      <3>2. Noticed(r, flips) = n + f + FlippedBit(-1)
        BY <1>2, <1>4, <2>2, <2>3, <2>4 DEF Noticed, n, f
      <3> QED
        BY <3>1, <3>2
    <2>5. CASE r \notin {1, 3, 6}
      <3>1. (n + f) % 2 = 0
        BY <1>1, <1>4, <2>2, <2>3, <2>5
      <3>2. Noticed(r, flips) = n + f
        BY <1>2, <1>4, <2>2, <2>3, <2>5 DEF Noticed, n, f
      <3> QED
        BY <3>1, <3>2
    <2> QED
      BY <2>4, <2>5
  <1>6. CASE 0 \in flips
    <2>1. Changed(r) = Taps[r] \ flips
      BY <1>6 DEF Changed, FlippedBit
    <2> DEFINE t == Cardinality(Taps[r])
    <2>2. g = t - n /\ t \in Nat
      BY <1>3, <2>1, FS_Difference, FS_CardinalityType
    <2>3. t % 2 = IF r >= 5 THEN 1 ELSE 0
      BY RowSizes DEF Counted
    <2>4. f \in {0, 1} /\ FlippedBit(-1) \in {0, 1} /\ FlippedBit(0) = 1
      BY <1>2, <1>6 DEF FlippedBit
    <2>5. Noticed(r, flips) = n + f + (IF r \in {1, 3, 6} THEN FlippedBit(-1) ELSE 0)
                                + (IF r \in {2, 4, 6} THEN 1 ELSE 0)
      BY <1>2, <2>4 DEF Noticed
    <2> HIDE DEF n, g, f, t
    <2>6. CASE r \in {1, 3}
      <3>1. ((t - n) + f + FlippedBit(-1)) % 2 = 0 /\ t % 2 = 0
        BY <1>1, <2>2, <2>3, <2>6
      <3>2. (n + f + FlippedBit(-1)) % 2 = 0
        BY <1>4, <2>2, <2>4, <3>1
      <3> QED
        BY <1>4, <2>4, <2>5, <2>6, <3>2
    <2>7. CASE r \in {2, 4}
      <3>1. ((t - n) + f + 1) % 2 = 0 /\ t % 2 = 0
        BY <1>1, <2>2, <2>3, <2>4, <2>7
      <3>2. (n + f + 1) % 2 = 0
        BY <1>4, <2>2, <2>4, <3>1
      <3> QED
        BY <1>4, <2>4, <2>5, <2>7, <3>2
    <2>8. CASE r = 5
      <3>1. ((t - n) + f + 1) % 2 = 0 /\ t % 2 = 1
        BY <1>1, <2>2, <2>3, <2>4, <2>8
      <3>2. (n + f) % 2 = 0
        BY <1>4, <2>2, <2>4, <3>1
      <3> QED
        BY <1>4, <2>4, <2>5, <2>8, <3>2
    <2>9. CASE r = 6
      <3>1. ((t - n) + f + FlippedBit(-1)) % 2 = 0 /\ t % 2 = 1
        BY <1>1, <2>2, <2>3, <2>4, <2>9
      <3>2. (n + f + FlippedBit(-1) + 1) % 2 = 0
        BY <1>4, <2>2, <2>4, <3>1
      <3> QED
        BY <1>4, <2>4, <2>5, <2>9, <3>2
    <2> QED
      BY <2>6, <2>7, <2>8, <2>9
  <1> QED
    BY <1>5, <1>6

\* One to three flips are always noticed: an odd number by the checks as a whole,
\* because every bit is in an odd number of them, and two because no two bits are
\* in the same checks.
LEMMA CorruptedNeverDecodes ==
    ASSUME StreamInv, MaxFlips <= 3, flips # {}
    PROVE  ~Decodes(Received)
  <1> SUFFICES ASSUME Decodes(Received) PROVE FALSE
    OBVIOUS
  <1>1. IsFiniteSet(flips) /\ Cardinality(flips) \in Nat /\ Cardinality(flips) <= 3
    <2>1. IsFiniteSet(flips)
      BY BitsAreFinite, FS_Subset DEF StreamInv
    <2>2. Cardinality(flips) \in Nat
      BY <2>1, FS_CardinalityType
    <2> QED
      BY <2>1, <2>2, DecoderConstants DEF StreamInv
  <1>2. \A i \in flips : i \in -1 .. WordBits
    BY DEF StreamInv
  <1>3. \A r \in 1 .. 6 : Noticed(r, flips) % 2 = 0
    BY <1>1, RowCountsFlips
  <1>4. PICK a \in flips : TRUE
    OBVIOUS
  <1> DEFINE P == Without(flips, a)
  <1>5. /\ IsFiniteSet(P) /\ Cardinality(P) = Cardinality(flips) - 1
        /\ \A i \in P : i \in -1 .. WordBits /\ i # a
    BY <1>1, <1>2, CountedIn DEF Without
  <1>6. \A r \in 1 .. 6 : Noticed(r, flips) = Hits(r, a) + Noticed(r, P) /\ Noticed(r, P) \in Nat
    BY <1>1, NoticedStep
  <1> HIDE DEF P
  <1>7. CASE P = {}
    <2>1. \A r \in 1 .. 6 : Hits(r, a) = 0
      <3>1. ASSUME NEW r \in 1 .. 6 PROVE Hits(r, a) = 0
        <4>1. Hits(r, a) \in {0, 1}
          BY <1>2, HitsType
        <4>2. Noticed(r, flips) = Hits(r, a) + 0 /\ Noticed(r, flips) % 2 = 0
          BY <1>3, <1>6, <1>7, NoneNoticed
        <4> QED
          BY <4>1, <4>2
      <3> QED
        BY <3>1
    <2>2. (Hits(1, a) + Hits(2, a) + Hits(3, a) + Hits(4, a) + Hits(5, a) + Hits(6, a)) % 2 = 1
      BY <1>2, OddColumns
    <2>3. /\ Hits(1, a) = 0 /\ Hits(2, a) = 0 /\ Hits(3, a) = 0
          /\ Hits(4, a) = 0 /\ Hits(5, a) = 0 /\ Hits(6, a) = 0
      BY <2>1
    <2> QED
      BY <2>2, <2>3
  <1>8. CASE P # {}
    <2>1. PICK b \in P : TRUE
      BY <1>8
    <2> DEFINE Q == Without(P, b)
    <2>2. IsFiniteSet(Q) /\ Cardinality(Q) = Cardinality(P) - 1 /\ \A i \in Q : i \in P
      BY <1>5, <2>1, CountedIn DEF Without
    <2>3. \A r \in 1 .. 6 : Noticed(r, P) = Hits(r, b) + Noticed(r, Q) /\ Noticed(r, Q) \in Nat
      BY <1>5, <2>1, NoticedStep
    <2> HIDE DEF Q
    <2>4. a \in -1 .. WordBits /\ b \in -1 .. WordBits /\ b # a
      BY <1>2, <1>5, <2>1
    <2>5. CASE Q = {}
      <3>1. ASSUME NEW r \in 1 .. 6 PROVE Hits(r, a) = Hits(r, b)
        <4>1. Hits(r, a) \in {0, 1} /\ Hits(r, b) \in {0, 1}
          BY <2>4, HitsType
        <4>2. Noticed(r, flips) = Hits(r, a) + (Hits(r, b) + 0) /\ Noticed(r, flips) % 2 = 0
          BY <1>3, <1>6, <2>3, <2>5, NoneNoticed
        <4> QED
          BY <4>1, <4>2
      <3> QED
        BY <2>4, <3>1, ColumnsDiffer
    <2>6. CASE Q # {}
      <3>1. PICK c \in Q : TRUE
        BY <2>6
      <3> DEFINE R == Without(Q, c)
      <3>2. IsFiniteSet(R) /\ Cardinality(R) = Cardinality(Q) - 1
        BY <2>2, <3>1, CountedIn
      <3>3. \A r \in 1 .. 6 : Noticed(r, Q) = Hits(r, c) + Noticed(r, R)
        BY <2>2, <3>1, NoticedStep
      <3> HIDE DEF R
      <3>4. R = {}
        <4>1. Cardinality(R) \in Nat
          BY <3>2, FS_CardinalityType
        <4>2. Cardinality(R) = 0
          BY <1>1, <1>5, <2>2, <3>2, <4>1
        <4> QED
          BY <3>2, <4>2, FS_EmptySet
      <3>5. c \in -1 .. WordBits
        BY <1>5, <2>2, <3>1
      <3>6. ASSUME NEW r \in 1 .. 6
            PROVE  (Hits(r, a) + Hits(r, b) + Hits(r, c)) % 2 = 0
        <4>1. Hits(r, a) \in {0, 1} /\ Hits(r, b) \in {0, 1} /\ Hits(r, c) \in {0, 1}
          BY <2>4, <3>5, HitsType
        <4>2. /\ Noticed(r, flips) = Hits(r, a) + (Hits(r, b) + (Hits(r, c) + 0))
              /\ Noticed(r, flips) % 2 = 0
          BY <1>3, <1>6, <2>3, <3>3, <3>4, NoneNoticed
        <4> QED
          BY <4>1, <4>2
      <3> DEFINE Sum(x) == Hits(1, x) + Hits(2, x) + Hits(3, x) + Hits(4, x) + Hits(5, x) + Hits(6, x)
      <3>7. Sum(a) % 2 = 1 /\ Sum(b) % 2 = 1 /\ Sum(c) % 2 = 1
        BY <2>4, <3>5, OddColumns
      <3>8. \A r \in 1 .. 6 : Hits(r, a) \in Nat /\ Hits(r, b) \in Nat /\ Hits(r, c) \in Nat
        <4>1. ASSUME NEW r \in 1 .. 6
              PROVE  Hits(r, a) \in {0, 1} /\ Hits(r, b) \in {0, 1} /\ Hits(r, c) \in {0, 1}
          BY <2>4, <3>5, HitsType
        <4> QED
          BY <4>1
      <3> DEFINE Row(r) == Hits(r, a) + Hits(r, b) + Hits(r, c)
      <3>9. Sum(a) + Sum(b) + Sum(c) = Row(1) + Row(2) + Row(3) + Row(4) + Row(5) + Row(6)
        BY <3>8
      <3>10. /\ Row(1) % 2 = 0 /\ Row(2) % 2 = 0 /\ Row(3) % 2 = 0
             /\ Row(4) % 2 = 0 /\ Row(5) % 2 = 0 /\ Row(6) % 2 = 0
        BY <3>6
      <3>11. /\ Sum(a) \in Nat /\ Sum(b) \in Nat /\ Sum(c) \in Nat
             /\ Row(1) \in Nat /\ Row(2) \in Nat /\ Row(3) \in Nat
             /\ Row(4) \in Nat /\ Row(5) \in Nat /\ Row(6) \in Nat
        BY <3>8
      <3> HIDE DEF Sum, Row
      <3>12. (Sum(a) + Sum(b) + Sum(c)) % 2 = 1
        BY <3>7, <3>11
      <3>13. (Row(1) + Row(2) + Row(3) + Row(4) + Row(5) + Row(6)) % 2 = 0
        BY <3>10, <3>11
      <3> QED
        BY <3>9, <3>12, <3>13
    <2> QED
      BY <2>5, <2>6
  <1> QED
    BY <1>7, <1>8

-----------------------------------------------------------------------------
(* The edge that is found *)

\* The fourth row and the bit before the word, one place on
Base == Taps[4] \cup {0}

LEMMA RowsFourAndFive ==
    /\ \A i \in Taps[5] : i - 1 \in Base /\ i \in 1 .. 24
    /\ \A j \in Base : j + 1 \in Taps[5] /\ j \in 0 .. 23
    /\ 0 \notin Taps[4] /\ 2 \in Taps[4] /\ 3 \notin Base /\ 7 \notin Base
    /\ IsFiniteSet(Taps[4]) /\ Cardinality(Taps[4]) \in Nat /\ Cardinality(Taps[4]) % 2 = 0
  <1>1. 4 \in 1 .. 6 /\ ~(4 >= 5)
    OBVIOUS
  <1>2. Counted(Taps[4], 0, 24)
    BY <1>1, RowSizes
  <1>3. Taps[5] = {1, 3, 5, 6, 7, 9, 10, 14, 15, 16, 17, 18, 21, 22, 24}
        /\ Taps[4] = {2, 4, 5, 6, 8, 9, 13, 14, 15, 16, 17, 20, 21, 23}
    BY DEF Taps
  <1>4. \A i \in Taps[5] : i - 1 \in Base /\ i \in 1 .. 24
    BY <1>3 DEF Base
  <1>5. \A j \in Base : j + 1 \in Taps[5] /\ j \in 0 .. 23
    BY <1>3 DEF Base
  <1>6. 0 \notin Taps[4] /\ 2 \in Taps[4] /\ 3 \notin Base /\ 7 \notin Base
    BY <1>3 DEF Base
  <1> QED
    BY <1>2, <1>4, <1>5, <1>6, FS_CardinalityType DEF Counted

LEMMA ParityMoves ==
    ASSUME NEW d \in [Taps[5] -> {0, 1}], NEW e \in [Base -> {0, 1}],
           \A j \in Base : e[j] = d[j + 1]
    PROVE  Parity(d) = Parity(e)
  <1> DEFINE A == {i \in Taps[5] : d[i] = 1}
             B == {j \in Base : e[j] = 1}
             f == [j \in B |-> j + 1]
  <1>1. Parity(d) = Cardinality(A) % 2 /\ Parity(e) = Cardinality(B) % 2
    BY DEF Parity
  <1>2. \A j \in B : j \in Base /\ j \in Int /\ j + 1 \in A
    BY RowsFourAndFive
  <1>3. \A i \in A : i - 1 \in B /\ i \in Int
    <2>1. ASSUME NEW i \in A PROVE i - 1 \in B /\ i \in Int
      <3>1. i - 1 \in Base /\ i \in Int /\ (i - 1) + 1 = i
        BY RowsFourAndFive
      <3>2. e[i - 1] = d[(i - 1) + 1]
        BY <3>1
      <3> QED
        BY <3>1, <3>2
    <2> QED
      BY <2>1
  <1>4. IsFiniteSet(B)
    <2>1. IsFiniteSet(Base)
      BY RowsFourAndFive, FS_AddElement DEF Base
    <2> QED
      BY <2>1, FS_Subset
  <1> HIDE DEF A, B
  <1>5. f \in Bijection(B, A)
    <2>1. f \in [B -> A]
      BY <1>2
    <2>2. \A x, y \in B : f[x] = f[y] => x = y
      BY <1>2
    <2>3. \A i \in A : \E x \in B : f[x] = i
      <3>1. ASSUME NEW i \in A PROVE \E x \in B : f[x] = i
        <4>1. i - 1 \in B /\ f[i - 1] = i
          BY <1>3
        <4> QED
          BY <4>1
      <3> QED
        BY <3>1
    <2> QED
      BY <2>1, <2>2, <2>3 DEF Bijection, Injection, Surjection, IsInjective
  <1>6. Cardinality(A) = Cardinality(B)
    BY <1>4, <1>5, FS_Bijection DEF ExistsBijection
  <1> QED
    BY <1>1, <1>6

\* The fifth check of a word that is read one bit late, its preamble completed
\* by three flips: it is the fourth one of the word, with one flip more.
LEMMA ShiftedParity ==
    ASSUME NEW w \in {0, 1}, NEW d \in [Taps[5] -> {0, 1}], Data(0) = 0,
           2 \in flips, \A j \in Base : j \in flips => j = 2,
           \A j \in Base : d[j + 1] = (Data(j) + 1 + FlippedBit(j) + w) % 2
    PROVE  Parity(d) = (RowParity(4) + w) % 2
  <1> DEFINE X == [j \in Base |-> Data(j)]
             e == [j \in Base |-> d[j + 1]]
             G == {j \in Base : e[j] # X[j]}
  <1>1. X \in [Base -> {0, 1}] /\ e \in [Base -> {0, 1}]
    <2>1. \A j \in Base : Data(j) \in {0, 1} /\ d[j + 1] \in {0, 1}
      BY RowsFourAndFive DEF Data
    <2> QED
      BY <2>1
  <1>2. IsFiniteSet(Base) /\ Cardinality(Base) = Cardinality(Taps[4]) + 1
    BY RowsFourAndFive, FS_AddElement DEF Base
  <1>3. Parity(d) = Parity(e)
    <2>1. \A j \in Base : e[j] = d[j + 1]
      OBVIOUS
    <2> HIDE DEF e
    <2> QED
      BY <1>1, <2>1, ParityMoves
  <1>4. Parity(X) = RowParity(4)
    <2>1. {j \in DOMAIN X : X[j] = 1} = {j \in Taps[4] : Data(j) = 1}
      BY DEF Base
    <2>2. {i \in DOMAIN [j \in Taps[4] |-> Data(j)] : [j \in Taps[4] |-> Data(j)][i] = 1}
            = {j \in Taps[4] : Data(j) = 1}
      OBVIOUS
    <2> QED
      BY <2>1, <2>2, Zenon DEF Parity, RowParity
  <1>5. \A j \in Base : (j \in G <=> (1 + FlippedBit(j) + w) % 2 = 1)
    <2>1. ASSUME NEW j \in Base PROVE e[j] # X[j] <=> (1 + FlippedBit(j) + w) % 2 = 1
      <3>1. Data(j) \in {0, 1} /\ FlippedBit(j) \in {0, 1}
        BY DEF Data, FlippedBit
      <3>2. e[j] = (Data(j) + 1 + FlippedBit(j) + w) % 2 /\ X[j] = Data(j)
        OBVIOUS
      <3> HIDE DEF e, X
      <3> QED
        BY <3>1, <3>2
    <2> QED
      BY <2>1
  <1>6. \A j \in Base : FlippedBit(j) = IF j = 2 THEN 1 ELSE 0
    BY DEF FlippedBit
  <1>7. FlippedOn(e, X, G, Base)
    <2>1. ASSUME NEW j \in Base PROVE e[j] = IF j \in G THEN 1 - X[j] ELSE X[j]
      BY <1>1
    <2> HIDE DEF e, X, G
    <2> QED
      BY <2>1 DEF FlippedOn
  <1>8. G \in SUBSET Base
    OBVIOUS
  <1> HIDE DEF G, e, X
  <1>9. Parity(e) = (Parity(X) + Cardinality(G)) % 2
    BY <1>1, <1>2, <1>7, <1>8, ParityOfFlipped
  <1>10. 2 \in Base
    BY RowsFourAndFive DEF Base
  <1>11. Cardinality(G) \in Nat /\ Cardinality(G) % 2 = w
    <2>1. CASE w = 1
      <3>1. G = One(2)
        BY <1>5, <1>6, <1>8, <1>10, <2>1 DEF One
      <3>2. Cardinality(One(2)) = 1
        BY FS_Singleton DEF One
      <3> QED
        BY <2>1, <3>1, <3>2
    <2>2. CASE w = 0
      <3>1. G = Base \ {2}
        BY <1>5, <1>6, <1>8, <2>2
      <3>2. Cardinality(Base \ {2}) = Cardinality(Base) - 1
        BY <1>2, <1>10, FS_RemoveElement
      <3>3. Cardinality(G) = Cardinality(Taps[4])
        BY <1>2, <3>1, <3>2, RowsFourAndFive
      <3> QED
        BY <2>2, <3>3, RowsFourAndFive
    <2> QED
      BY <2>1, <2>2
  <1>12. RowParity(4) \in {0, 1}
    <2>1. 4 \in 1 .. 6
      OBVIOUS
    <2> QED
      BY <2>1, RowParityType
  <1> DEFINE g == Cardinality(G)
             p == RowParity(4)
  <1>13. (p + g) % 2 = (p + w) % 2
    <2> HIDE DEF g, p
    <2>1. g \in Nat /\ g % 2 = w /\ p \in {0, 1}
      BY <1>11, <1>12 DEF g, p
    <2> QED
      BY <2>1
  <1> QED
    BY <1>3, <1>4, <1>9, <1>13

LEMMA TurnedSum ==
    ASSUME NEW p \in {0, 1}, NEW b \in {0, 1}, NEW x \in {0, 1},
           NEW f \in {0, 1}, NEW n \in {0, 1}
    PROVE  Turned(p, b, x, f, n) = (p + f + ((b + x + n) % 2)) % 2
  <1>1. CASE p = 0 /\ b = 0
    BY <1>1 DEF Turned
  <1>2. CASE p = 0 /\ b = 1
    BY <1>2 DEF Turned
  <1>3. CASE p = 1 /\ b = 0
    BY <1>3 DEF Turned
  <1>4. CASE p = 1 /\ b = 1
    BY <1>4 DEF Turned
  <1> QED
    BY <1>1, <1>2, <1>3, <1>4

\* Four members are more than three.
LEMMA FourAreTooMany ==
    ASSUME NEW F, IsFiniteSet(F), Cardinality(F) <= 3,
           NEW a \in F, NEW b \in F, NEW c \in F, a # b, a # c, b # c,
           NEW x \in F
    PROVE  x \in {a, b, c}
  <1> DEFINE P == F \ {a}
             Q == P \ {b}
             R == Q \ {c}
  <1>1. IsFiniteSet(P) /\ Cardinality(P) = Cardinality(F) - 1 /\ b \in P /\ c \in P
    BY FS_RemoveElement
  <1>2. IsFiniteSet(Q) /\ Cardinality(Q) = Cardinality(P) - 1 /\ c \in Q
    <2> HIDE DEF P
    <2> QED
      BY <1>1, FS_RemoveElement
  <1>3. IsFiniteSet(R) /\ Cardinality(R) = Cardinality(Q) - 1
    <2> HIDE DEF Q
    <2> QED
      BY <1>2, FS_RemoveElement
  <1>4. Cardinality(R) = 0
    <2> HIDE DEF R, Q, P
    <2>1. Cardinality(F) \in Nat /\ Cardinality(R) \in Nat
      BY <1>3, FS_CardinalityType
    <2> QED
      BY <1>1, <1>2, <1>3, <2>1
  <1>5. R = {}
    <2> HIDE DEF R
    <2> QED
      BY <1>3, <1>4, FS_EmptySet
  <1> QED
    BY <1>5

\* With the edge inside a block a start half a bit before it reads every bit one
\* place late.  Three flips complete a preamble there, but not the fifth check.
LEMMA ShiftedNeverDecodes ==
    ASSUME StreamInv, Cardinality(flips) <= 3, fraction > 0
    PROVE  ~Decodes(Demodulated(-Half))
  <1> SUFFICES ASSUME Decodes(Demodulated(-Half)) PROVE FALSE
    OBVIOUS
  <1> DEFINE bits == Demodulated(-Half)
             raw == BitAt(bits)
             d == DataWord(raw)
             neg == IF IsInverted(bits) THEN 1 ELSE 0
  <1>1. StreamOfBits /\ IsFiniteSet(flips)
    BY BitsAreFinite, FS_Subset DEF StreamInv
  <1>2. neg \in {0, 1} /\ InvertedBit \in {0, 1} /\ before[1] \in {0, 1} /\ before[2] \in {0, 1}
    BY DEF StreamInv, InvertedBit
  <1>3. \A i \in -1 .. WordBits : bits[i] = stream[i - 1] /\ bits[i] \in {0, 1}
    <2>1. ASSUME NEW i \in -1 .. WordBits PROVE bits[i] = stream[i - 1] /\ bits[i] \in {0, 1}
      <3>1. i \in -1 .. WordBits + 1 /\ i - 1 \in -4 .. WordBits + 3
        BY DEF WordBits
      <3>2. BitSum(-Half, i) > 0 <=> stream[i - 1] = 1
        BY <1>1, <3>1, BitSumOfTie
      <3>3. stream[i - 1] \in {0, 1}
        BY <1>1, <3>1 DEF StreamOfBits
      <3> QED
        BY <3>2, <3>3 DEF Demodulated
    <2> QED
      BY <2>1
  <1>4. IsNormal(bits) \/ IsInverted(bits)
    BY DEF Decodes
  <1>5. \A i \in -1 .. WordBits : raw[i] = (stream[i - 1] + neg) % 2
    <2>1. DOMAIN bits = -1 .. WordBits
      BY DEF Demodulated
    <2> HIDE DEF bits
    <2> QED
      BY <1>3, <2>1 DEF BitAt, Flip
  <1>6. \A i \in 1 .. 8 : raw[i] = IF i \in Preamble THEN 1 ELSE 0
    <2>1. ASSUME NEW i \in 1 .. 8 PROVE raw[i] = IF i \in Preamble THEN 1 ELSE 0
      <3>1. i \in -1 .. WordBits
        BY DEF WordBits
      <3>2. raw[i] = (bits[i] + neg) % 2
        BY <1>3, <1>5, <3>1
      <3> HIDE DEF raw
      <3>3. CASE IsInverted(bits)
        BY <3>2, <3>3 DEF IsInverted
      <3>4. CASE ~IsInverted(bits)
        BY <1>4, <3>2, <3>4 DEF IsNormal
      <3> QED
        BY <3>3, <3>4
    <2> QED
      BY <2>1
  <1>7. d[29] = (Parity([i \in Taps[5] |-> d[i]]) + raw[0]) % 2
    <2>1. CheckParity(d, raw[-1], raw[0])
      BY DEF Decodes
    <2>2. 5 \in 1 .. 6 /\ 5 \notin {1, 3, 6} /\ 24 + 5 = 29
      OBVIOUS
    <2> HIDE DEF d, raw
    <2> QED
      BY <2>1, <2>2 DEF CheckParity
  <1>8. /\ \A i \in 1 .. 24 : d[i] = (raw[i] + raw[0]) % 2
        /\ d[29] = raw[29] /\ raw[0] \in {0, 1}
    <2>1. \A i \in -1 .. WordBits : raw[i] \in {0, 1}
      <3>1. ASSUME NEW i \in -1 .. WordBits PROVE raw[i] \in {0, 1}
        <4>1. stream[i - 1] \in {0, 1} /\ raw[i] = (stream[i - 1] + neg) % 2
          BY <1>3, <1>5
        <4> HIDE DEF raw, neg
        <4> QED
          BY <1>2, <4>1
      <3> QED
        BY <3>1
    <2> HIDE DEF raw
    <2>2. 0 \in -1 .. WordBits /\ 29 \in 1 .. WordBits
      BY DEF WordBits
    <2>3. ASSUME NEW i \in 1 .. 24 PROVE d[i] = (raw[i] + raw[0]) % 2
      <3>1. i \in 1 .. WordBits /\ i \in -1 .. WordBits
        BY DEF WordBits
      <3>2. d[i] = IF raw[0] = 1 THEN Flip(raw[i]) ELSE raw[i]
        BY <3>1 DEF DataWord
      <3> QED
        BY <2>1, <2>2, <3>1, <3>2 DEF Flip
    <2> QED
      BY <2>1, <2>2, <2>3 DEF DataWord
  <1> HIDE DEF bits, raw, d, neg
  <1>9. \A j \in -2 .. WordBits - 1 :
           raw[j + 1] = (((Sent(j) + InvertedBit + FlippedBit(j)) % 2) + neg) % 2
    <2>1. ASSUME NEW j \in -2 .. WordBits - 1
          PROVE  raw[j + 1] = (((Sent(j) + InvertedBit + FlippedBit(j)) % 2) + neg) % 2
      <3>1. j \in -4 .. WordBits + 3 /\ j + 1 \in -1 .. WordBits /\ (j + 1) - 1 = j
        BY DEF WordBits
      <3>2. raw[j + 1] = (stream[(j + 1) - 1] + neg) % 2
        BY <1>5, <3>1
      <3>3. stream[j] = (Sent(j) + InvertedBit + FlippedBit(j)) % 2
        BY <3>1, ArrivedBits
      <3> QED
        BY <3>1, <3>2, <3>3
    <2> QED
      BY <2>1
  <1>10. /\ Sent(0) = before[2] /\ \A i \in 1 .. 24 : Sent(i) = (Data(i) + before[2]) % 2
         /\ Sent(28) = (RowParity(4) + before[2]) % 2 /\ RowParity(4) \in {0, 1}
    <2>1. 4 \in 1 .. 6 /\ 4 \notin {1, 3, 6} /\ 24 + 4 = 28
      OBVIOUS
    <2> QED
      BY <2>1, SentBits, RowParityType DEF StreamInv
  <1>11. Data(0) = 0 /\ \A i \in 0 .. 24 : Data(i) \in {0, 1}
    BY DEF Data, StreamInv, Preamble
  <1> DEFINE c == (before[2] + InvertedBit + neg) % 2
  \* With the polarity that the preamble suggests
  <1>12. \A j \in 0 .. 23 : raw[j + 1] = (Data(j) + FlippedBit(j) + c) % 2
    <2>1. ASSUME NEW j \in 0 .. 23 PROVE raw[j + 1] = (Data(j) + FlippedBit(j) + c) % 2
      <3>1. j \in -2 .. WordBits - 1
        BY DEF WordBits
      <3>2. raw[j + 1] = (((Sent(j) + InvertedBit + FlippedBit(j)) % 2) + neg) % 2
        BY <1>9, <3>1
      <3>3. Sent(j) = (Data(j) + before[2]) % 2
        <4>1. CASE j = 0
          BY <1>2, <1>10, <1>11, <4>1
        <4>2. CASE j # 0
          BY <1>10, <4>2
        <4> QED
          BY <4>1, <4>2
      <3>4. Data(j) \in {0, 1} /\ FlippedBit(j) \in {0, 1}
        BY <1>11 DEF FlippedBit
      <3>5. raw[j + 1] = Turned(Data(j), before[2], InvertedBit, FlippedBit(j), neg)
        BY <3>2, <3>3 DEF Turned
      <3> QED
        BY <1>2, <3>4, <3>5, TurnedSum
    <2> QED
      BY <2>1
  <1>13. /\ Data(1) = 1 /\ Data(2) = 0 /\ Data(3) = 0 /\ Data(4) = 0
         /\ Data(5) = 1 /\ Data(6) = 0 /\ Data(7) = 1
    BY DEF Data, StreamInv, Preamble
  <1>14. /\ raw[1] = 1 /\ raw[2] = 0 /\ raw[3] = 0 /\ raw[4] = 0
         /\ raw[5] = 1 /\ raw[8] = 1
    BY <1>6 DEF Preamble
  <1>15. \A j \in 0 .. 23 : FlippedBit(j) = (Data(j) + raw[j + 1] + c) % 2
    <2>1. ASSUME NEW j \in 0 .. 23 PROVE FlippedBit(j) = (Data(j) + raw[j + 1] + c) % 2
      <3>1. Data(j) \in {0, 1} /\ FlippedBit(j) \in {0, 1} /\ c \in {0, 1}
        BY <1>2, <1>11 DEF FlippedBit
      <3>2. raw[j + 1] = (Data(j) + FlippedBit(j) + c) % 2
        BY <1>12
      <3> HIDE DEF c
      <3> QED
        BY <3>1, <3>2
    <2> QED
      BY <2>1
  <1>16. c \in {0, 1}
    BY <1>2
  <1> HIDE DEF c
  <1>17. /\ FlippedBit(0) = (Data(0) + raw[1] + c) % 2 /\ FlippedBit(1) = (Data(1) + raw[2] + c) % 2
         /\ FlippedBit(2) = (Data(2) + raw[3] + c) % 2 /\ FlippedBit(3) = (Data(3) + raw[4] + c) % 2
         /\ FlippedBit(4) = (Data(4) + raw[5] + c) % 2 /\ FlippedBit(7) = (Data(7) + raw[8] + c) % 2
    <2>1. 0 + 1 = 1 /\ 1 + 1 = 2 /\ 2 + 1 = 3 /\ 3 + 1 = 4 /\ 4 + 1 = 5 /\ 7 + 1 = 8
      OBVIOUS
    <2>2. \A j \in {0, 1, 2, 3, 4, 7} : j \in 0 .. 23
      OBVIOUS
    <2> QED
      BY <1>15, <2>1, <2>2
  <1>18. c = 1
    <2> SUFFICES ASSUME c = 0 PROVE FALSE
      BY <1>16
    <2>1. 0 \in flips /\ 1 \in flips /\ 4 \in flips
      BY <1>11, <1>13, <1>14, <1>17 DEF FlippedBit
    <2>2. 5 \in flips
      <3>1. raw[6] = 0 /\ 5 \in 0 .. 23 /\ 5 + 1 = 6
        BY <1>6 DEF Preamble
      <3>2. FlippedBit(5) = (Data(5) + raw[6] + c) % 2
        BY <1>15, <3>1
      <3> QED
        BY <1>13, <3>1, <3>2 DEF FlippedBit
    <2>3. 5 \in {0, 1, 4}
      BY <1>1, <2>1, <2>2, FourAreTooMany
    <2> QED
      BY <2>3
  <1>19. 2 \in flips /\ 3 \in flips /\ 7 \in flips
    BY <1>13, <1>14, <1>17, <1>18 DEF FlippedBit
  <1>20. \A j \in flips : j \in {2, 3, 7}
    <2>1. ASSUME NEW j \in flips PROVE j \in {2, 3, 7}
      <3> DEFINE x == 2
                 y == 3
                 z == 7
      <3>1. x \in flips /\ y \in flips /\ z \in flips /\ x # y /\ x # z /\ y # z
        BY <1>19
      <3> HIDE DEF x, y, z
      <3>2. j \in {x, y, z}
        BY <1>1, <3>1, FourAreTooMany
      <3> QED
        BY <3>2 DEF x, y, z
    <2> QED
      BY <2>1
  <1>21. raw[29] = (RowParity(4) + 1) % 2
    <2>1. 28 \in -2 .. WordBits - 1 /\ 28 + 1 = 29
      BY DEF WordBits
    <2>2. FlippedBit(28) = 0
      BY <1>20 DEF FlippedBit
    <2>3. raw[29] = (((Sent(28) + InvertedBit + FlippedBit(28)) % 2) + neg) % 2
      BY <1>9, <2>1
    <2>4. raw[29] = Turned(RowParity(4), before[2], InvertedBit, 0, neg)
      BY <1>10, <2>2, <2>3 DEF Turned
    <2>5. raw[29] = (RowParity(4) + 0 + c) % 2
      <3>1. 0 \in {0, 1}
        OBVIOUS
      <3> QED
        BY <1>2, <1>10, <2>4, <3>1, TurnedSum DEF c
    <2> QED
      BY <1>10, <1>18, <2>5
  <1> DEFINE e == [i \in Taps[5] |-> d[i]]
             w == raw[0]
  <1>22. \A j \in Base : e[j + 1] = (Data(j) + 1 + FlippedBit(j) + w) % 2
    <2>1. ASSUME NEW j \in Base PROVE e[j + 1] = (Data(j) + 1 + FlippedBit(j) + w) % 2
      <3>1. j + 1 \in Taps[5] /\ j \in 0 .. 23 /\ j + 1 \in 1 .. 24
        BY RowsFourAndFive
      <3>2. raw[j + 1] = (Data(j) + FlippedBit(j) + 1) % 2
        BY <1>12, <1>18, <3>1
      <3>3. e[j + 1] = (raw[j + 1] + w) % 2
        BY <1>8, <3>1
      <3>4. Data(j) \in {0, 1} /\ FlippedBit(j) \in {0, 1} /\ w \in {0, 1}
        BY <1>8, <1>11, <3>1 DEF FlippedBit
      <3> HIDE DEF e, w
      <3> QED
        BY <3>2, <3>3, <3>4
    <2> QED
      BY <2>1
  <1>23. e \in [Taps[5] -> {0, 1}]
    <2>1. ASSUME NEW i \in Taps[5] PROVE d[i] \in {0, 1}
      <3>1. i \in 1 .. 24 /\ i \in -1 .. WordBits
        BY RowsFourAndFive DEF WordBits
      <3>2. i - 1 \in Base /\ i - 1 \in 0 .. 23 /\ (i - 1) + 1 = i
        BY <3>1, RowsFourAndFive
      <3>3. d[i] = (raw[i] + raw[0]) % 2
        BY <1>8, <3>1
      <3>4. raw[i] = (Data(i - 1) + FlippedBit(i - 1) + c) % 2
        BY <1>12, <3>2
      <3>5. Data(i - 1) \in {0, 1} /\ FlippedBit(i - 1) \in {0, 1}
        BY <1>11, <3>2 DEF FlippedBit
      <3>6. raw[i] \in {0, 1}
        BY <1>18, <3>4, <3>5
      <3> QED
        BY <1>8, <3>3, <3>6
    <2> QED
      BY <2>1
  <1>24. \A j \in Base : j \in flips => j = 2
    BY <1>20, RowsFourAndFive
  <1>25. w \in {0, 1}
    BY <1>8
  <1>26. d[29] = (Parity(e) + w) % 2
    BY <1>7
  <1> HIDE DEF e, w
  <1>27. Parity(e) = (RowParity(4) + w) % 2
    BY <1>11, <1>19, <1>22, <1>23, <1>24, <1>25, ShiftedParity
  <1> QED
    BY <1>8, <1>10, <1>21, <1>25, <1>26, <1>27

\* k blocks after half a bit before the edge, a bit outweighs the one before it
\* by 2 * k blocks, less the share of the edge block: noise must turn these.
LEMMA MarginalNeedsNoise ==
    ASSUME StreamOfBits, NEW k \in 1 .. Half, Marginal(k - Half)
    PROVE  2 * (k * Fraction - fraction) <= Noise
  <1> DEFINE d == Half - k
  <1>1. /\ Period \in Nat \ {0} /\ Fraction \in Nat \ {0} /\ Half \in Nat /\ Period = 2 * Half
        /\ fraction \in 0 .. Fraction - 1 /\ Noise \in Nat
    BY DecoderConstants DEF StreamOfBits
  <1>2. d \in 0 .. Period - 1 /\ k - Half = -d /\ Half - d = k
    BY <1>1
  <1> HIDE DEF d
  <1>3. PICK i \in -1 .. WordBits : BitSum(-d, i) \in -Noise .. Noise
    BY <1>2 DEF Marginal
  <1>4. i \in -3 .. WordBits + 3
    BY DEF WordBits
  <1>5. PICK A \in Int, B \in Int :
              /\ A >= 0 /\ B - A = 2 * ((Half - d) * Fraction)
              /\ BitSum(-d, i) = (A + fraction) * SignOf(i - 1) + (B - fraction) * SignOf(i)
              /\ SignOf(i - 1) \in {-1, 1} /\ SignOf(i) \in {-1, 1}
    BY <1>2, <1>4, BitSumMix
  <1>6. PICK G \in Int : G = k * Fraction /\ B - A = 2 * G
    BY <1>1, <1>2, <1>5
  <1>7. G >= Fraction
    BY <1>1, <1>6
  <1>8. PICK x \in {-1, 1}, y \in {-1, 1} : x = SignOf(i - 1) /\ y = SignOf(i)
    BY <1>5
  <1>9. BitSum(-d, i) = (A + fraction) * x + (B - fraction) * y
    BY <1>5, <1>8
  <1>10. 2 * (G - fraction) <= Noise
    <2> HIDE DEF d
    <2>1. B = A + 2 * G
      BY <1>6
    <2>2. \/ BitSum(-d, i) = A + B
          \/ BitSum(-d, i) = -(A + B)
          \/ BitSum(-d, i) = 2 * (G - fraction)
          \/ BitSum(-d, i) = -(2 * (G - fraction))
      BY <1>1, <1>8, <1>9, <2>1
    <2> QED
      BY <1>1, <1>3, <1>5, <1>7, <2>1, <2>2
  <1> QED
    BY <1>6, <1>10

\* The terms of the metric at a start before the edge
EdgeTerms(p, M, Z, Y) ==
    [i \in 1 .. WordBits |->
        IF SignOf(i) = SignOf(i - 1)
        THEN IF i > 1 THEN 2 * M ELSE 2 * M - Z
        ELSE IF i > 1 THEN p ELSE p + Z - 2 * Y]

LEMMA SharedBlock ==
    ASSUME NEW u \in Int, NEW v \in Int, NEW w \in Int,
           NEW t, t = u - 2 * v + w, NEW x, x = 2 * v - w
    PROVE  t + x = u /\ t + 0 = u + w - 2 * v
  OBVIOUS

LEMMA EdgeMetricValue ==
    ASSUME StreamOfBits, Half >= 3, NEW j \in -1 .. 2,
           NEW M, M = Half * (Fraction * Fraction), NEW Z, Z = Fraction * Fraction,
           NEW Y, Y = Fraction * fraction, NEW p, p = 2 * j * Z
    PROVE  LET sum == SumOver(EdgeTerms(p, M, Z, Y), WordBits)
           IN  EdgeMetric(Received, -(Half - j)) = IF sum < 0 THEN -sum ELSE sum
  <1> DEFINE d == Half - j
             s == -d
             Sign(i) == 2 * Received[i] - 1
             Edge(i) == Prompt(s + (i - 1) * Period)
             Weight(i) == fraction * Sign(i - 1) + (Fraction - fraction) * Sign(i)
             Term(i) == Fraction * Sign(i) * (BitSum(s, i) - Edge(i))
                          + (IF i > 1 THEN Weight(i) * Edge(i) ELSE 0)
             metric == SumOver([i \in 1 .. WordBits |-> Term(i)], WordBits)
  <1>1. EdgeMetric(Received, -(Half - j)) = IF metric < 0 THEN -metric ELSE metric
    BY DEF EdgeMetric
  <1>2. /\ Period \in Nat \ {0} /\ Fraction \in Nat \ {0} /\ Half \in Nat /\ Period = 2 * Half
        /\ fraction \in 0 .. Fraction - 1
    BY DecoderConstants DEF StreamOfBits
  <1>3. ASSUME NEW i \in 1 .. WordBits
        PROVE  Term(i) = EdgeTerms(p, M, Z, Y)[i]
    <2>1. /\ i \in -1 .. WordBits /\ i - 1 \in -1 .. WordBits /\ i \in -3 .. WordBits + 3
          /\ i \in -4 .. WordBits + 3 /\ i - 1 \in -4 .. WordBits + 3 /\ i \in Int
          /\ d \in 0 .. Period - 1 /\ 1 <= d /\ 1 \in 1 .. Period
      BY <1>2 DEF WordBits
    <2>2. Sign(i) = SignOf(i) /\ Sign(i - 1) = SignOf(i - 1)
      BY <2>1 DEF SignOf, Received
    <2>3. PICK x \in {-1, 1}, y \in {-1, 1} : x = SignOf(i - 1) /\ y = SignOf(i)
      BY <2>1, SignType
    <2>4. BitSum(s, i) = (d * Fraction + fraction) * x + ((Period - d) * Fraction - fraction) * y
      <3> HIDE DEF d
      <3> QED
        BY <2>1, <2>3, BitSumValue
    <2>5. Edge(i) = Fraction * x
      <3>1. s + (i - 1) * Period + 1 - 1 = s + (i - 1) * Period
        BY <1>2, <2>1
      <3>2. Prompt(-d + (i - 1) * Period + 1 - 1) = Fraction * SignOf(i - 1)
        <4> HIDE DEF d
        <4> QED
          BY <2>1, PromptValue
      <3> QED
        BY <2>3, <3>1, <3>2
    <2>6. PICK F \in Nat \ {0}, f \in Nat : F = Fraction /\ f = fraction
      BY <1>2
    <2>7. PICK A \in Int, B \in Int : A = d * Fraction /\ B = (Period - d) * Fraction
      BY <1>2
    <2>8. Term(i) = F * y * ((A + f) * x + (B - f) * y - F * x)
                      + (IF i > 1 THEN (f * x + (F - f) * y) * (F * x) ELSE 0)
      BY <2>2, <2>3, <2>4, <2>5, <2>6, <2>7
    <2>9. F * A + F * B = 2 * M /\ F * B - F * A = p /\ F * F = Z /\ F * f = Y
          /\ M \in Int /\ Z \in Int /\ Y \in Int /\ p \in Int
      <3>1. PICK H \in Int : H = Half
        BY <1>2
      <3>2. A = (H - j) * F /\ B = (H + j) * F /\ M = H * (F * F) /\ Z = F * F /\ Y = F * f
        BY <1>2, <2>6, <2>7, <3>1
      <3>3. F * A = M - j * Z /\ F * B = M + j * Z
        <4>1. CASE j = -1
          BY <3>2, <4>1
        <4>2. CASE j = 0
          BY <3>2, <4>2
        <4>3. CASE j = 1
          BY <3>2, <4>3
        <4>4. CASE j = 2
          BY <3>2, <4>4
        <4> QED
          BY <4>1, <4>2, <4>3, <4>4
      <3>4. M \in Int /\ Z \in Int /\ Y \in Int
        BY <3>2
      <3>5. p = j * Z + j * Z /\ j * Z \in Int /\ p \in Int
        BY <3>4
      <3>6. PICK u \in Int, v \in Int, w \in Int : u = F * A /\ v = F * B /\ w = j * Z
        BY <3>5
      <3>7. u + v = 2 * M /\ v - u = w + w
        <4>1. u = M - w /\ v = M + w
          BY <3>3, <3>6, Zenon
        <4>2. \A m \in Int : (m - w) + (m + w) = 2 * m /\ (m + w) - (m - w) = w + w
          OBVIOUS
        <4> QED
          BY <3>4, <4>1, <4>2, Zenon
      <3> QED
        BY <3>2, <3>4, <3>5, <3>6, <3>7, Zenon
    <2>10. EdgeTerms(p, M, Z, Y)[i] =
              IF x = y THEN IF i > 1 THEN 2 * M ELSE 2 * M - Z
              ELSE IF i > 1 THEN p ELSE p + Z - 2 * Y
      BY <2>3 DEF EdgeTerms
    <2>11. F * A \in Int /\ F * B \in Int /\ F * F \in Int /\ F * f \in Int
      OBVIOUS
    <2> DEFINE T == F * y * ((A + f) * x + (B - f) * y - F * x)
               U == (f * x + (F - f) * y) * (F * x)
    <2>12. CASE x = y
      <3>1. T = F * A + F * B - F * F
        BY <2>12
      <3>2. U = F * F
        BY <2>12
      <3> HIDE DEF T, U, Term
      <3> QED
        BY <2>8, <2>9, <2>10, <2>11, <2>12, <3>1, <3>2 DEF T, U
    <2>13. CASE x # y
      <3>1. T = F * B - F * A - 2 * (F * f) + F * F
        BY <2>13
      <3>2. U = 2 * (F * f) - F * F
        BY <2>13
      <3>3. Term(i) = T + (IF i > 1 THEN U ELSE 0)
        BY <2>8, Zenon
      <3> HIDE DEF T, U, Term
      <3>4. T = p - 2 * Y + Z /\ U = 2 * Y - Z
        BY <2>9, <3>1, <3>2, Zenon
      <3>5. p \in Int /\ Y \in Int /\ Z \in Int
        BY <2>9
      <3>6. T + U = p /\ T + 0 = p + Z - 2 * Y
        BY <3>4, <3>5, SharedBlock
      <3>7. Term(i) = IF i > 1 THEN p ELSE p + Z - 2 * Y
        BY <3>3, <3>6, Zenon
      <3> QED
        BY <2>10, <2>13, <3>7, Zenon
    <2> QED
      BY <2>12, <2>13
  <1>4. [i \in 1 .. WordBits |-> Term(i)] = EdgeTerms(p, M, Z, Y)
    <2> HIDE DEF Term
    <2> QED
      BY <1>3 DEF EdgeTerms
  <1> QED
    BY <1>1, <1>4

\* The preamble starts with a transition that two equal bits follow.
LEMMA PreambleSigns ==
    ASSUME StreamInv, flips = {}
    PROVE  SignOf(2) # SignOf(1) /\ SignOf(3) = SignOf(2)
  <1>1. ASSUME NEW i \in 1 .. 3
        PROVE  stream[i] = (Data(i) + before[2] + InvertedBit) % 2 /\ stream[i] \in {0, 1}
    <2>1. i \in -4 .. WordBits + 3 /\ i \in 1 .. 24
      BY DEF WordBits
    <2>2. Sent(i) = (Data(i) + before[2]) % 2
      BY <2>1, SentBits DEF StreamInv
    <2>3. stream[i] = (Sent(i) + InvertedBit + FlippedBit(i)) % 2 /\ stream[i] \in {0, 1}
      BY <2>1, ArrivedBits
    <2>4. before[2] \in {0, 1} /\ InvertedBit \in {0, 1} /\ FlippedBit(i) = 0 /\ Data(i) \in {0, 1}
      BY DEF StreamInv, InvertedBit, FlippedBit, Data
    <2> QED
      BY <2>2, <2>3, <2>4
  <1>2. Data(1) = 1 /\ Data(2) = 0 /\ Data(3) = 0
    BY DEF Data, Preamble, StreamInv
  <1>3. before[2] \in {0, 1} /\ InvertedBit \in {0, 1}
    BY DEF StreamInv, InvertedBit
  <1>4. /\ stream[1] = (Data(1) + before[2] + InvertedBit) % 2
        /\ stream[2] = (Data(2) + before[2] + InvertedBit) % 2
        /\ stream[3] = (Data(3) + before[2] + InvertedBit) % 2
    BY <1>1
  <1>5. stream[1] # stream[2] /\ stream[3] = stream[2]
        /\ stream[1] \in {0, 1} /\ stream[2] \in {0, 1}
    BY <1>1, <1>2, <1>3, <1>4
  <1> QED
    BY <1>5 DEF SignOf

\* The edge block of a bit and the sum of its blocks, at a start before the edge
LEMMA BlocksType ==
    ASSUME StreamOfBits, NEW d \in 0 .. Period - 1, NEW i \in 1 .. WordBits + 1
    PROVE  BitSum(-d, i) \in Int /\ Prompt(-d + (i - 1) * Period) \in Int
  <1>1. /\ Period \in Nat \ {0} /\ Fraction \in Nat \ {0} /\ fraction \in 0 .. Fraction - 1
    BY DecoderConstants DEF StreamOfBits
  <1>2. /\ i \in -3 .. WordBits + 3 /\ i \in -4 .. WordBits + 3 /\ i - 1 \in -4 .. WordBits + 3
        /\ i \in Int /\ 1 \in 1 .. Period
    BY <1>1 DEF WordBits
  <1>3. PICK x \in {-1, 1}, y \in {-1, 1} : x = SignOf(i - 1) /\ y = SignOf(i)
    BY <1>2, SignType
  <1>4. BitSum(-d, i) = (d * Fraction + fraction) * x + ((Period - d) * Fraction - fraction) * y
    BY <1>2, <1>3, BitSumValue
  <1>5. BitSum(-d, i) \in Int
    <2>1. PICK A \in Int, B \in Int : A = d * Fraction + fraction /\ B = (Period - d) * Fraction - fraction
      BY <1>1
    <2> QED
      BY <1>4, <2>1
  <1>6. -d + (i - 1) * Period + 1 - 1 = -d + (i - 1) * Period
    BY <1>1, <1>2
  <1>7. Prompt(-d + (i - 1) * Period + 1 - 1) =
            IF 1 <= d THEN Fraction * x
            ELSE IF 1 = d + 1 THEN fraction * x + (Fraction - fraction) * y ELSE Fraction * y
    BY <1>2, <1>3, PromptValue
  <1>8. Fraction * x \in Int /\ Fraction * y \in Int /\ fraction * x + (Fraction - fraction) * y \in Int
    BY <1>1
  <1> QED
    BY <1>5, <1>6, <1>7, <1>8

\* At every start up to half a bit after the edge the metric is a number.
LEMMA EdgeMetricType ==
    ASSUME StreamOfBits, NEW s \in -(Period - 1) .. Half
    PROVE  EdgeMetric(Received, s) \in Int
  <1> DEFINE Sign(i) == 2 * Received[i] - 1
             Edge(i) == Prompt(s + (i - 1) * Period)
             Weight(i) == fraction * Sign(i - 1) + (Fraction - fraction) * Sign(i)
             Term(i) == Fraction * Sign(i) * (BitSum(s, i) - Edge(i))
                          + (IF i > 1 THEN Weight(i) * Edge(i) ELSE 0)
             f == [i \in 1 .. WordBits |-> Term(i)]
             n == WordBits
  <1>1. /\ Period \in Nat \ {0} /\ Half \in Nat \ {0} /\ Period = 2 * Half
        /\ Fraction \in Nat \ {0} /\ fraction \in 0 .. Fraction - 1
    BY DecoderConstants DEF StreamOfBits
  <1>2. ASSUME NEW i \in 1 .. WordBits PROVE BitSum(s, i) \in Int /\ Edge(i) \in Int
    <2>1. i \in 1 .. WordBits + 1 /\ i + 1 \in 1 .. WordBits + 1 /\ i \in Int
      BY DEF WordBits
    <2>2. CASE s <= 0
      <3> DEFINE d == -s
      <3>1. d \in 0 .. Period - 1 /\ s = -d
        BY <1>1, <2>2
      <3> HIDE DEF d
      <3> QED
        BY <2>1, <3>1, BlocksType
    <2>3. CASE s > 0
      <3> DEFINE d == Period - s
                 j == i + 1
      <3>1. d \in 0 .. Period - 1 /\ j \in 1 .. WordBits + 1 /\ s \in Int
        BY <1>1, <2>1, <2>3
      <3>2. BitSum(s, i) = BitSum(-d, j)
        BY <2>1, <3>1, BitSumOfLateStart
      <3>3. -d + (j - 1) * Period = s + (i - 1) * Period
        <4>1. j - 1 = i /\ i * Period = (i - 1) * Period + Period /\ (i - 1) * Period \in Int
          BY <1>1, <2>1
        <4> QED
          BY <1>1, <3>1, <4>1
      <3> HIDE DEF d, j
      <3>4. BitSum(-d, j) \in Int /\ Prompt(-d + (j - 1) * Period) \in Int
        BY <3>1, BlocksType
      <3> QED
        BY <3>2, <3>3, <3>4
    <2> QED
      BY <1>1, <2>2, <2>3
  <1>3. ASSUME NEW i \in 1 .. WordBits PROVE Term(i) \in Int
    <2>1. i \in -1 .. WordBits /\ i - 1 \in -1 .. WordBits
      BY DEF WordBits
    <2>2. Received[i] \in {0, 1} /\ Received[i - 1] \in {0, 1}
      <3>1. i \in -4 .. WordBits + 3 /\ i - 1 \in -4 .. WordBits + 3
        BY DEF WordBits
      <3> QED
        BY <2>1, <3>1 DEF Received, StreamOfBits
    <2>3. Sign(i) \in Int /\ Sign(i - 1) \in Int /\ BitSum(s, i) \in Int /\ Edge(i) \in Int
      BY <1>2, <2>2
    <2> HIDE DEF Sign, Edge
    <2>4. Weight(i) \in Int
      BY <1>1, <2>3
    <2> HIDE DEF Weight
    <2>5. Weight(i) * Edge(i) \in Int /\ Fraction * Sign(i) * (BitSum(s, i) - Edge(i)) \in Int
      BY <1>1, <2>3, <2>4
    <2> QED
      BY <2>5
  <1> HIDE DEF Term
  <1>4. f \in [1 .. n -> Int] /\ n \in Nat
    BY <1>3 DEF WordBits
  <1>5. EdgeMetric(Received, s) = IF SumOver(f, n) < 0 THEN -SumOver(f, n) ELSE SumOver(f, n)
    BY DEF EdgeMetric, Term
  <1> HIDE DEF f, n
  <1>6. PICK g : IsPartialSums(g, f, n) /\ SumOver(f, n) = g[n]
    BY <1>4, SumIsPartialSum
  <1>7. SumOver(f, n) \in Int
    BY <1>4, <1>6 DEF IsPartialSums
  <1> QED
    BY <1>5, <1>7

\* Of two starts before the middle of the bit before, or one on each side of it,
\* the one that is nearer to the edge matches better.
LEMMA NearerMatchesBetter ==
    ASSUME StreamInv, flips = {}, Half >= 3, NEW j \in {1, 2}, NEW k \in {j - 1, j - 2}
    PROVE  EdgeMetric(Received, -(Half - k)) < EdgeMetric(Received, -(Half - j))
  <1>1. /\ Fraction \in Nat \ {0} /\ Half \in Nat /\ fraction \in 0 .. Fraction - 1 /\ StreamOfBits
    BY DecoderConstants DEF StreamInv, StreamOfBits
  <1>2. PICK M \in Int, Z \in Int, Y \in Int :
           /\ M = Half * (Fraction * Fraction) /\ Z = Fraction * Fraction /\ Y = Fraction * fraction
           /\ M >= 3 * Z /\ Z >= 1 /\ 0 <= Y /\ Y < Z
    <2>1. PICK Z \in Int : Z = Fraction * Fraction /\ Z >= 1
      <3>1. Fraction * Fraction >= Fraction
        BY <1>1
      <3> QED
        BY <1>1, <3>1
    <2>2. PICK M \in Int : M = Half * Z /\ M >= 3 * Z
      <3>1. Half * Z >= 3 * Z
        BY <1>1, <2>1
      <3> QED
        BY <1>1, <2>1, <3>1
    <2>3. PICK Y \in Int : Y = Fraction * fraction /\ 0 <= Y /\ Y < Z
      <3>1. Fraction * fraction <= Fraction * (Fraction - 1)
        BY <1>1
      <3>2. Fraction * (Fraction - 1) = Fraction * Fraction - Fraction
        BY <1>1
      <3>3. Fraction * fraction >= 0
        BY <1>1
      <3> QED
        BY <1>1, <2>1, <3>1, <3>2, <3>3
    <2> QED
      BY <2>1, <2>2, <2>3
  <1> DEFINE n == WordBits
             p == 2 * j * Z
             q == 2 * k * Z
             f == EdgeTerms(p, M, Z, Y)
             h == EdgeTerms(q, M, Z, Y)
             minus == [i \in 1 .. n |-> f[i] - h[i]]
             plus == [i \in 1 .. n |-> f[i] + h[i]]
  <1>3. n \in Nat /\ 1 \in 1 .. n /\ 2 \in 1 .. n /\ 3 \in 1 .. n
    BY DEF WordBits
  <1>4. /\ \A i \in 1 .. n : f[i] =
              IF SignOf(i) = SignOf(i - 1) THEN IF i > 1 THEN 2 * M ELSE 2 * M - Z
              ELSE IF i > 1 THEN p ELSE p + Z - 2 * Y
        /\ \A i \in 1 .. n : h[i] =
              IF SignOf(i) = SignOf(i - 1) THEN IF i > 1 THEN 2 * M ELSE 2 * M - Z
              ELSE IF i > 1 THEN q ELSE q + Z - 2 * Y
        /\ f = [i \in 1 .. n |-> f[i]] /\ h = [i \in 1 .. n |-> h[i]]
    BY DEF EdgeTerms
  <1> HIDE DEF f, h
  <1>5. k \in -1 .. 1 /\ p \in Int /\ q \in Int /\ p > q /\ p + q >= 0
    <2>1. \/ j = 1 /\ k = 0
          \/ j = 1 /\ k = -1
          \/ j = 2 /\ k = 1
          \/ j = 2 /\ k = 0
      OBVIOUS
    <2> QED
      BY <1>2, <2>1
  <1> HIDE DEF p, q
  <1>7. ASSUME NEW i \in 1 .. n
        PROVE  /\ f[i] \in Int /\ h[i] \in Int
               /\ f[i] - h[i] >= 0
               /\ SignOf(i) # SignOf(i - 1) => f[i] - h[i] > 0
               /\ i > 1 => f[i] + h[i] >= 0
               /\ i = 1 => f[i] + h[i] > -(2 * Z)
               /\ i > 1 /\ SignOf(i) = SignOf(i - 1) => f[i] + h[i] = 4 * M
    <2>1. i \in Int /\ i >= 1
      OBVIOUS
    <2>2. /\ f[i] = IF SignOf(i) = SignOf(i - 1) THEN IF i > 1 THEN 2 * M ELSE 2 * M - Z
                    ELSE IF i > 1 THEN p ELSE p + Z - 2 * Y
          /\ h[i] = IF SignOf(i) = SignOf(i - 1) THEN IF i > 1 THEN 2 * M ELSE 2 * M - Z
                    ELSE IF i > 1 THEN q ELSE q + Z - 2 * Y
      BY <1>4
    <2>4. M >= 3 * Z /\ Z >= 1 /\ 0 <= Y /\ Y < Z
      BY <1>2
    <2> QED
      BY <1>5, <2>1, <2>2, <2>4
  <1>8. f \in [1 .. n -> Int] /\ h \in [1 .. n -> Int]
        /\ minus \in [1 .. n -> Int] /\ plus \in [1 .. n -> Int]
    BY <1>4, <1>7
  <1>9. SumOver(minus, n) > 0
    <2>1. SignOf(2) # SignOf(2 - 1)
      BY PreambleSigns
    <2>2. minus[2] > 0 /\ minus[3] >= 0 /\ minus[2] \in Int /\ minus[3] \in Int
      BY <1>3, <1>7, <2>1
    <2>3. \A i \in 1 .. n : i # 2 /\ i # 3 => minus[i] >= 0
      BY <1>7
    <2>4. minus[2] + minus[3] > 0
      BY <2>2
    <2> DEFINE a == 2
               b == 3
    <2>5. /\ a \in 1 .. n /\ b \in 1 .. n /\ a # b /\ minus[a] + minus[b] > 0
          /\ \A i \in 1 .. n : i # a /\ i # b => minus[i] >= 0
      BY <1>3, <2>3, <2>4
    <2> HIDE DEF minus, n, a, b
    <2> QED
      BY <1>3, <1>8, <2>5, SumIsPositive
  <1>10. SumOver(plus, n) > 0
    <2>1. SignOf(3) = SignOf(3 - 1)
      BY PreambleSigns
    <2>2. plus[1] > -(2 * Z) /\ plus[3] = 4 * M /\ plus[1] \in Int /\ plus[3] \in Int
      BY <1>3, <1>7, <2>1
    <2>3. \A i \in 1 .. n : i # 1 /\ i # 3 => plus[i] >= 0
      BY <1>7
    <2>4. plus[1] + plus[3] > 0
      <3>1. M \in Int /\ Z \in Int /\ M >= 3 * Z /\ Z >= 1
        BY <1>2
      <3> HIDE DEF plus
      <3> QED
        BY <2>2, <3>1
    <2> DEFINE a == 1
               b == 3
    <2>5. /\ a \in 1 .. n /\ b \in 1 .. n /\ a # b /\ plus[a] + plus[b] > 0
          /\ \A i \in 1 .. n : i # a /\ i # b => plus[i] >= 0
      BY <1>3, <2>3, <2>4
    <2> HIDE DEF plus, n, a, b
    <2> QED
      BY <1>3, <1>8, <2>5, SumIsPositive
  <1>11. /\ SumOver(f, n) \in Int /\ SumOver(h, n) \in Int
         /\ SumOver(minus, n) = SumOver(f, n) + (-1) * SumOver(h, n)
    <2>1. \A i \in 1 .. n : minus[i] = f[i] + (-1) * h[i]
      BY <1>7
    <2> DEFINE w == -1
    <2>2. w \in {-1, 1} /\ \A i \in 1 .. n : minus[i] = f[i] + w * h[i]
      BY <2>1
    <2> HIDE DEF minus, n, w
    <2>3. SumOver(f, n) \in Int /\ SumOver(h, n) \in Int
          /\ SumOver(minus, n) = SumOver(f, n) + w * SumOver(h, n)
      BY <1>3, <1>8, <2>2, SumIsLinear, ZenonT(30)
    <2> QED
      BY <2>3 DEF w
  <1>12. SumOver(plus, n) = SumOver(f, n) + 1 * SumOver(h, n)
    <2> DEFINE w == 1
    <2>2. w \in {-1, 1} /\ \A i \in 1 .. n : plus[i] = f[i] + w * h[i]
      BY <1>7
    <2> HIDE DEF plus, n, w
    <2>3. SumOver(plus, n) = SumOver(f, n) + w * SumOver(h, n)
      BY <1>3, <1>8, <2>2, SumIsLinear, ZenonT(30)
    <2> QED
      BY <2>3 DEF w
  <1> DEFINE F == SumOver(f, n)
             H == SumOver(h, n)
  <1>13. F - H > 0 /\ F + H > 0 /\ F \in Int /\ H \in Int
    <2> HIDE DEF minus, plus
    <2> QED
      BY <1>9, <1>10, <1>11, <1>12
  <1>14. /\ EdgeMetric(Received, -(Half - j)) = IF F < 0 THEN -F ELSE F
         /\ EdgeMetric(Received, -(Half - k)) = IF H < 0 THEN -H ELSE H
    <2>1. j \in -1 .. 2 /\ k \in -1 .. 2
      BY <1>5
    <2> QED
      BY <1>1, <1>2, <2>1, EdgeMetricValue DEF f, h, p, q
  <1> HIDE DEF F, H
  <1> QED
    BY <1>13, <1>14

-----------------------------------------------------------------------------
(* The decoder *)

\* The code searches two edges on each side, with twenty periods to a bit; the
\* parity is made for three flips.
CodeParameters == MaxFlips <= 3 /\ EdgeSearch <= 2 /\ Period >= 6

\* Noise can spoil every start within half a bit of the edge that is complete
\* with n blocks.
Spoiled(n) ==
    \A s \in 1 - Half .. Half - 1 : s + WordBits * Period <= n => Marginal(s)

\* A word without flips is decoded at the first of these starts that noise does
\* not spoil, and anchored there or earlier.
DecoderInv ==
    /\ StreamInv
    /\ size \in FirstSize .. LastSize
    /\ anchor = NoAnchor /\ flips = {} => Spoiled(size)
    /\ anchor # NoAnchor =>
          /\ size > FirstSize /\ flips = {} /\ Spoiled(size - 1)
          /\ anchor \in 1 - Half .. size - WordBits * Period
          /\ \A i \in 1 .. 24 : word[i] = Data(i)

LEMMA Sizes ==
    /\ FirstSize = WordBits * Period - Half - 1 /\ LastSize = WordBits * Period + Half
    /\ FirstSize \in Nat /\ LastSize \in Nat /\ WordBits * Period \in Nat
  <1>1. Period \in Nat \ {0} /\ Half \in Nat \ {0} /\ Period = 2 * Half
    BY DecoderConstants
  <1> QED
    BY <1>1 DEF FirstSize, LastSize, Half, WordBits

LEMMA DecoderInvInit == DecoderInit => DecoderInv
  <1> SUFFICES ASSUME DecoderInit PROVE DecoderInv
    OBVIOUS
  <1>1. payload \in SUBSET (9 .. 24) /\ before \in [1 .. 2 -> {0, 1}] /\ inverted \in BOOLEAN
    BY DecoderConstants DEF DecoderInit
  <1>2. \A i \in -4 .. WordBits + 3 : Transmitted[i] \in {0, 1}
    BY <1>1, SentBits DEF Transmitted, Flip
  <1>3. StreamOfBits
    <2>1. stream = [i \in -4 .. WordBits + 3 |-> Transmitted[i]]
      BY DEF DecoderInit, Transmitted
    <2> QED
      BY <1>2, <2>1 DEF StreamOfBits, DecoderInit
  <1>4. flips = {} /\ Cardinality(flips) <= MaxFlips
    BY FS_EmptySet, DecoderConstants DEF DecoderInit
  <1>5. StreamInv
    BY <1>1, <1>3, <1>4 DEF StreamInv, DecoderInit
  <1>6. size \in FirstSize .. LastSize
    BY Sizes, DecoderConstants DEF DecoderInit
  <1>7. Spoiled(size)
    BY Sizes, DecoderConstants DEF DecoderInit, Spoiled
  <1> QED
    BY <1>5, <1>6, <1>7 DEF DecoderInv, DecoderInit

\* The satellite sends what it sends.
LEMMA SignalIsFixed ==
    ASSUME UNCHANGED signal
    PROVE  /\ payload' = payload /\ before' = before /\ inverted' = inverted /\ fraction' = fraction
           /\ Transmitted' = Transmitted
           /\ \A i : Data(i)' = Data(i)
  <1>1. payload' = payload /\ before' = before /\ inverted' = inverted /\ fraction' = fraction
    BY DEF signal
  <1>2. \A i : Data(i)' = Data(i)
    BY <1>1 DEF Data
  <1>3. \A i : Sent(i)' = Sent(i)
    BY <1>1, <1>2 DEF Sent
  <1> QED
    BY <1>1, <1>2, <1>3 DEF Transmitted

LEMMA CorruptKeepsInv ==
    ASSUME DecoderInv, NEW i \in -1 .. WordBits, Corrupt(i)
    PROVE  DecoderInv'
  <1>1. /\ payload' = payload /\ before' = before /\ inverted' = inverted /\ fraction' = fraction
        /\ Transmitted' = Transmitted /\ \A j : Data(j)' = Data(j)
    BY SignalIsFixed DEF Corrupt
  <1>2. /\ size = FirstSize /\ Cardinality(flips) < MaxFlips
        /\ flips' = flips \cup {i} /\ stream' = [stream EXCEPT ![i] = Flip(@)]
        /\ size' = size /\ anchor' = anchor /\ word' = word /\ \A j \in flips : j < i
    BY DEF Corrupt
  <1>3. StreamInv
    BY DEF DecoderInv
  <1>4. i \notin flips
    BY <1>2
  <1>5. IsFiniteSet(flips)
    BY <1>3, BitsAreFinite, FS_Subset DEF StreamInv
  <1>6. flips' \in SUBSET (-1 .. WordBits) /\ Cardinality(flips') <= MaxFlips /\ flips' # {}
    <2>1. flips' \in SUBSET (-1 .. WordBits) /\ flips' # {}
      BY <1>2, <1>3 DEF StreamInv
    <2>2. Cardinality(flips') = Cardinality(flips) + 1 /\ Cardinality(flips) \in Nat
      BY <1>2, <1>4, <1>5, FS_AddElement, FS_CardinalityType
    <2> QED
      BY <1>2, <2>1, <2>2, DecoderConstants
  <1>7. i \in -4 .. WordBits + 3
    BY DEF WordBits
  <1>8. StreamOfBits'
    <2>1. stream \in [-4 .. WordBits + 3 -> {0, 1}] /\ fraction \in 0 .. Fraction - 1
      BY <1>3 DEF StreamInv, StreamOfBits
    <2>2. Flip(stream[i]) \in {0, 1}
      BY <1>7, <2>1 DEF Flip
    <2>3. stream' \in [-4 .. WordBits + 3 -> {0, 1}]
      BY <1>2, <2>1, <2>2
    <2> QED
      BY <1>1, <2>1, <2>3 DEF StreamOfBits
  <1>9. ASSUME NEW j \in -4 .. WordBits + 3
        PROVE  stream'[j] = IF j \in flips' THEN Flip(Transmitted'[j]) ELSE Transmitted'[j]
    <2>1. stream[j] = IF j \in flips THEN Flip(Transmitted[j]) ELSE Transmitted[j]
      BY <1>3 DEF StreamInv
    <2>2. stream \in [-4 .. WordBits + 3 -> {0, 1}]
      BY <1>3 DEF StreamInv, StreamOfBits
    <2>3. CASE j = i
      <3>1. stream'[j] = Flip(stream[j])
        BY <1>2, <2>2, <2>3
      <3> QED
        BY <1>1, <1>2, <1>4, <2>1, <2>3, <3>1
    <2>4. CASE j # i
      <3>1. stream'[j] = stream[j] /\ (j \in flips' <=> j \in flips)
        BY <1>2, <2>2, <2>4
      <3> QED
        BY <1>1, <2>1, <3>1
    <2> QED
      BY <2>3, <2>4
  <1>10. StreamInv'
    BY <1>1, <1>2, <1>3, <1>6, <1>8, <1>9 DEF StreamInv
  <1>11. anchor = NoAnchor
    BY <1>2, Sizes DEF DecoderInv
  <1> QED
    BY <1>2, <1>6, <1>10, <1>11 DEF DecoderInv, NoAnchor, FirstSize, LastSize

\* No start half a bit before the edge decodes.
LEMMA FirstStartNeverDecodes ==
    ASSUME StreamInv, MaxFlips <= 3
    PROVE  ~Decodes(Demodulated(-Half))
  <1>1. /\ StreamOfBits /\ fraction \in 0 .. Fraction - 1 /\ Fraction \in Nat
        /\ Cardinality(flips) <= MaxFlips /\ MaxFlips \in Nat /\ IsFiniteSet(flips)
    BY DecoderConstants, BitsAreFinite, FS_Subset DEF StreamInv, StreamOfBits
  <1>2. Cardinality(flips) <= 3
    BY <1>1, FS_CardinalityType
  <1>3. CASE fraction = 0
    BY <1>1, <1>3, TieNeverDecodes
  <1>4. CASE fraction > 0
    BY <1>2, <1>4, ShiftedNeverDecodes
  <1> QED
    BY <1>1, <1>3, <1>4

\* No start finds a corrupted word.
LEMMA CorruptedStreamNeverDecodes ==
    ASSUME StreamInv, MaxFlips <= 3, flips # {}, NEW s \in -Half .. Half
    PROVE  ~Decodes(Demodulated(s))
  <1>1. /\ StreamOfBits /\ Half \in Nat \ {0}
        /\ fraction \in 0 .. Fraction - 1 /\ Fraction \in Nat
    BY DecoderConstants DEF StreamInv, StreamOfBits
  <1>2. CASE s = -Half
    BY <1>2, FirstStartNeverDecodes
  <1>3. CASE s \in 1 .. Half
    <2>1. CASE s = Half /\ fraction = 0
      BY <1>1, <2>1, TieNeverDecodes
    <2>2. CASE s < Half \/ fraction > 0
      <3>1. Demodulated(s) = Received
        BY <1>1, <1>3, <2>2, LateStartFindsBits
      <3> QED
        BY <3>1, CorruptedNeverDecodes
    <2> QED
      BY <1>1, <1>3, <2>1, <2>2
  <1>4. CASE s \in -(Half - 1) .. 0
    <2> DEFINE d == -s
    <2>1. d \in 0 .. Half - 1 /\ s = -d
      BY <1>1, <1>4
    <2> HIDE DEF d
    <2>2. Demodulated(-d) = Received
      BY <1>1, <2>1, EarlyStartFindsBits
    <2> QED
      BY <2>1, <2>2, CorruptedNeverDecodes
  <1> QED
    BY <1>1, <1>2, <1>3, <1>4

\* Of the candidates whose word is complete the last matches best.
LEMMA OffsetIsZero ==
    ASSUME StreamInv, flips = {}, CodeParameters, NEW j \in {1, 2},
           NEW s, s = -(Half - j), NEW n, n = s + WordBits * Period
    PROVE  BestOffset(Received, s, n) = 0
  <1> DEFINE candidates == {c \in -EdgeSearch .. EdgeSearch : s + c + WordBits * Period <= n}
             metric == [c \in candidates |-> EdgeMetric(Received, s + c)]
             First(c) == \A e \in candidates \ {c} :
                            metric[e] < metric[c] \/ (metric[e] = metric[c] /\ c < e)
  <1>1. /\ Half \in Nat /\ Half >= 3 /\ EdgeSearch \in Nat /\ EdgeSearch <= 2
        /\ WordBits * Period \in Nat
    BY DecoderConstants, Sizes DEF CodeParameters
  <1>2. 0 \in candidates /\ \A c \in candidates : c \in {-2, -1, 0}
    <2>1. s \in Int /\ n \in Int
      BY <1>1
    <2> QED
      BY <1>1, <2>1
  <1>3. ASSUME NEW c \in candidates \ {0} PROVE metric[c] < metric[0]
    <2> DEFINE k == j + c
    <2>1. c \in {-2, -1}
      BY <1>2
    <2>2. k \in {j - 1, j - 2} /\ s + c = -(Half - k) /\ s + 0 = -(Half - j)
      BY <1>1, <2>1
    <2>3. metric[c] = EdgeMetric(Received, s + c) /\ metric[0] = EdgeMetric(Received, s + 0)
      BY <1>2, Zenon
    <2> HIDE DEF k, metric
    <2>4. EdgeMetric(Received, -(Half - k)) < EdgeMetric(Received, -(Half - j))
      BY <1>1, <2>2, NearerMatchesBetter
    <2> QED
      BY <2>2, <2>3, <2>4
  <1>4. \A c \in candidates : metric[c] \in Int
    <2>1. ASSUME NEW c \in candidates PROVE metric[c] \in Int
      <3>1. c \in {-2, -1, 0}
        BY <1>2
      <3>2. s + c \in -(Period - 1) .. Half
        BY <1>1, <3>1, DecoderConstants
      <3> QED
        BY <3>2, EdgeMetricType DEF StreamInv
    <2> QED
      BY <2>1
  <1>5. BestOffset(Received, s, n) = CHOOSE c \in candidates : First(c)
    BY DEF BestOffset, Best
  <1> HIDE DEF candidates, metric
  <1>6. First(0)
    BY <1>3
  <1>7. ASSUME NEW c \in candidates, First(c) PROVE c = 0
    <2> SUFFICES ASSUME c # 0 PROVE FALSE
      OBVIOUS
    <2>1. metric[0] < metric[c] \/ (metric[0] = metric[c] /\ c < 0)
      BY <1>2, <1>7
    <2>2. metric[c] < metric[0]
      BY <1>3
    <2> QED
      BY <1>2, <1>4, <2>1, <2>2
  <1> HIDE DEF First
  <1> QED
    BY <1>2, <1>5, <1>6, <1>7

\* One of the complete candidates is chosen.
LEMMA OffsetIsNear ==
    ASSUME StreamOfBits, CodeParameters, NEW s \in 1 - Half .. Half,
           NEW n, n = s + WordBits * Period
    PROVE  BestOffset(Received, s, n) \in {-2, -1, 0}
  <1> DEFINE candidates == {c \in -EdgeSearch .. EdgeSearch : s + c + WordBits * Period <= n}
             metric == [c \in candidates |-> EdgeMetric(Received, s + c)]
             First(c) == \A e \in candidates \ {c} :
                            metric[e] < metric[c] \/ (metric[e] = metric[c] /\ c < e)
  <1>1. /\ Half \in Nat /\ Half >= 3 /\ Period = 2 * Half
        /\ EdgeSearch \in Nat /\ EdgeSearch <= 2 /\ WordBits * Period \in Nat
    BY DecoderConstants, Sizes DEF CodeParameters
  <1>2. 0 \in candidates /\ candidates \in SUBSET {-2, -1, 0}
    <2>1. n \in Int
      BY <1>1
    <2> QED
      BY <1>1, <2>1
  <1>3. ASSUME NEW c \in candidates PROVE metric[c] \in Int
    <2>1. s + c \in -(Period - 1) .. Half
      BY <1>1, <1>2
    <2> QED
      BY <2>1, EdgeMetricType
  <1>4. BestOffset(Received, s, n) = CHOOSE c \in candidates : First(c)
    BY DEF BestOffset, Best
  <1> HIDE DEF candidates, metric
  <1>5. \E c \in candidates : First(c)
    <2>1. \A c \in candidates : c \in {-2, -1, 0} /\ metric[c] \in Int
      BY <1>2, <1>3
    <2>2. CASE -1 \in candidates /\ -2 \in candidates
      BY <1>2, <2>1, <2>2
    <2>3. CASE -1 \in candidates /\ -2 \notin candidates
      BY <1>2, <2>1, <2>3
    <2>4. CASE -1 \notin candidates /\ -2 \in candidates
      BY <1>2, <2>1, <2>4
    <2>5. CASE -1 \notin candidates /\ -2 \notin candidates
      BY <1>2, <2>1, <2>5
    <2> QED
      BY <2>2, <2>3, <2>4, <2>5
  <1> HIDE DEF First
  <1> QED
    BY <1>2, <1>4, <1>5

\* The start at which a word without flips decodes finds its bits.
LEMMA CleanStart ==
    ASSUME StreamInv, MaxFlips <= 3, NEW s \in -Half .. Half
    PROVE  /\ s \in 1 - Half .. Half - 1 => Demodulated(s) = Received
           /\ Decodes(Demodulated(s)) => s > -Half /\ Demodulated(s) = Received
  <1>1. /\ StreamOfBits /\ Half \in Nat \ {0}
        /\ fraction \in 0 .. Fraction - 1 /\ Fraction \in Nat
    BY DecoderConstants DEF StreamInv, StreamOfBits
  <1>2. CASE s = -Half
    BY <1>1, <1>2, FirstStartNeverDecodes
  <1>3. CASE s \in 1 .. Half /\ (s < Half \/ fraction > 0)
    BY <1>1, <1>3, LateStartFindsBits
  <1>4. CASE s = Half /\ fraction = 0
    BY <1>1, <1>4, TieNeverDecodes
  <1>5. CASE s \in 1 - Half .. 0
    <2> DEFINE d == -s
    <2>1. d \in 0 .. Half - 1 /\ s = -d
      BY <1>1, <1>5
    <2> HIDE DEF d
    <2>2. Demodulated(-d) = Received
      BY <1>1, <2>1, EarlyStartFindsBits
    <2> QED
      BY <1>1, <1>5, <2>1, <2>2
  <1> QED
    BY <1>1, <1>2, <1>3, <1>4, <1>5

\* What noise can turn is a matter of the signal.
LEMMA MarginIsFixed ==
    ASSUME stream' = stream, fraction' = fraction, NEW t
    PROVE  Marginal(t)' = Marginal(t)
  BY DEF Marginal, BitSum, SumOver, Prompt, WordBits

\* A start decodes, or noise spoiled it, or its bits are not the word's.
LEMMA TryDecodeKeepsInv ==
    ASSUME DecoderInv, CodeParameters, TryDecode
    PROVE  DecoderInv'
  <1> DEFINE W == WordBits * Period
             n == size + 1
             s == n - W
             bits == Demodulated(s)
             decodes == Decodes(bits)
  <1>1. /\ anchor = NoAnchor /\ size < LastSize /\ size' = n
        /\ \/ /\ decodes
              /\ anchor' = s + BestOffset(bits, s, n)
              /\ word' = DataWord(BitAt(bits))
           \/ (decodes => Marginal(s)) /\ anchor' = anchor /\ word' = word
        /\ UNCHANGED <<signal, stream, flips>>
    BY DEF TryDecode
  <1>2. StreamInv /\ size \in FirstSize .. LastSize
    BY DEF DecoderInv
  <1>3. /\ FirstSize = WordBits * Period - Half - 1 /\ LastSize = WordBits * Period + Half
        /\ FirstSize \in Nat /\ LastSize \in Nat /\ WordBits * Period \in Nat
        /\ Half \in Nat /\ Half >= 3 /\ Period = 2 * Half
    BY Sizes, DecoderConstants DEF CodeParameters
  <1>4. /\ n \in FirstSize + 1 .. LastSize /\ s \in -Half .. Half /\ n = s + W
        /\ n \in Int /\ s \in Int
    <2> HIDE DEF W
    <2>1. size \in FirstSize .. LastSize /\ size < LastSize /\ W \in Nat
          /\ FirstSize = W - Half - 1 /\ LastSize = W + Half
      BY <1>1, <1>2, <1>3 DEF W
    <2> QED
      BY <1>3, <2>1
  <1>5. StreamInv' /\ size' \in FirstSize .. LastSize /\ size' > FirstSize
    <2>1. /\ payload' = payload /\ before' = before /\ inverted' = inverted /\ fraction' = fraction
          /\ Transmitted' = Transmitted /\ stream' = stream /\ flips' = flips
      BY <1>1, SignalIsFixed
    <2>2. StreamInv'
      BY <1>2, <2>1 DEF StreamInv, StreamOfBits
    <2> QED
      BY <1>1, <1>2, <1>3, <1>4, <2>2
  <1>6. flips' = flips /\ \A i : Data(i)' = Data(i)
    BY <1>1, SignalIsFixed
  <1>7. \A t : Marginal(t)' = Marginal(t)
    <2>1. stream' = stream /\ fraction' = fraction
      BY <1>1, SignalIsFixed
    <2> QED
      BY <2>1, MarginIsFixed
  <1>8. CASE flips # {}
    <2>1. ~decodes
      <3> HIDE DEF s
      <3> QED
        BY <1>2, <1>4, <1>8, CorruptedStreamNeverDecodes DEF CodeParameters
    <2>2. anchor' = NoAnchor' /\ flips' # {}
      BY <1>1, <1>6, <1>8, <2>1 DEF NoAnchor
    <2> QED
      BY <1>5, <2>2 DEF DecoderInv, FirstSize, LastSize, WordBits
  <1>9. CASE flips = {} /\ decodes /\ anchor' = s + BestOffset(bits, s, n)
             /\ word' = DataWord(BitAt(bits))
    <2>1. bits = Received /\ s \in 1 - Half .. Half
      <3> HIDE DEF s, n, W
      <3>1. Decodes(Demodulated(s))
        BY <1>9
      <3>2. s > -Half /\ Demodulated(s) = Received
        BY <1>2, <1>4, <3>1, CleanStart DEF CodeParameters
      <3> QED
        BY <1>3, <1>4, <3>2
    <2>2. BestOffset(Received, s, n) \in {-2, -1, 0}
      <3> HIDE DEF s, n
      <3> QED
        BY <1>2, <1>4, <2>1, OffsetIsNear DEF StreamInv, W
    <2>3. anchor' \in 1 - Half .. s
      <3> HIDE DEF s, n, bits, W
      <3>1. anchor' = s + BestOffset(Received, s, n)
        BY <1>9, <2>1
      <3>2. CASE s \in {-(Half - 1), -(Half - 2)}
        <4>1. PICK j \in {1, 2} : s = -(Half - j)
          BY <3>2
        <4>2. BestOffset(Received, s, n) = 0
          BY <1>2, <1>4, <1>9, <4>1, OffsetIsZero DEF W
        <4> QED
          BY <1>3, <2>1, <3>1, <4>2
      <3>3. CASE s >= 3 - Half
        BY <1>3, <2>1, <2>2, <3>1, <3>3
      <3> QED
        BY <1>3, <2>1, <3>2, <3>3
    <2>4. anchor' # NoAnchor' /\ anchor' \in 1 - Half .. size' - W
      BY <1>1, <1>3, <1>4, <2>3 DEF NoAnchor
    <2>5. Spoiled(size - 1)'
      <3>1. Spoiled(size)
        BY <1>1, <1>9 DEF DecoderInv
      <3>2. size' - 1 = size
        BY <1>1, <1>2, <1>3
      <3> QED
        BY <1>7, <3>1, <3>2 DEF Spoiled, WordBits, Half
    <2>6. \A i \in 1 .. 24 : word'[i] = Data(i)'
      <3> HIDE DEF bits, s
      <3> QED
        BY <1>2, <1>6, <1>9, <2>1, CleanWordDecodes
    <2> QED
      BY <1>5, <1>6, <1>9, <2>4, <2>5, <2>6
      DEF DecoderInv, FirstSize, LastSize, WordBits, Half
  <1>10. CASE flips = {} /\ (decodes => Marginal(s)) /\ anchor' = anchor /\ word' = word
    <2>1. Spoiled(size)
      BY <1>1, <1>10 DEF DecoderInv
    <2>2. s \in 1 - Half .. Half - 1 => Marginal(s)
      <3> HIDE DEF s, n, W
      <3>1. s \in 1 - Half .. Half - 1 => Demodulated(s) = Received
        BY <1>2, <1>4, CleanStart DEF CodeParameters
      <3>2. Decodes(Received)
        BY <1>2, <1>10, CleanWordDecodes
      <3> QED
        BY <1>10, <3>1, <3>2
    <2>3. Spoiled(n)
      <3> SUFFICES ASSUME NEW t \in 1 - Half .. Half - 1, t + WordBits * Period <= n
                   PROVE  Marginal(t)
        BY DEF Spoiled
      <3>1. t = s \/ t + WordBits * Period <= size
        BY <1>2, <1>3, <1>4
      <3> HIDE DEF s
      <3> QED
        BY <2>1, <2>2, <3>1 DEF Spoiled
    <2>4. anchor' = NoAnchor' /\ Spoiled(size)'
      <3>1. anchor' = NoAnchor'
        BY <1>1, <1>10 DEF NoAnchor
      <3> HIDE DEF n
      <3> QED
        BY <1>1, <1>7, <2>3, <3>1 DEF Spoiled, WordBits, Half
    <2> QED
      BY <1>5, <2>4 DEF DecoderInv, FirstSize, LastSize, WordBits
  <1> QED
    BY <1>1, <1>8, <1>9, <1>10

LEMMA DecoderInvStep ==
    ASSUME CodeParameters
    PROVE  DecoderInv /\ [DecoderNext]_decoderVars => DecoderInv'
  <1> SUFFICES ASSUME DecoderInv, [DecoderNext]_decoderVars PROVE DecoderInv'
    OBVIOUS
  <1>1. CASE \E i \in -1 .. WordBits : Corrupt(i)
    BY <1>1, CorruptKeepsInv
  <1>2. CASE TryDecode
    BY <1>2, TryDecodeKeepsInv
  <1>3. CASE UNCHANGED decoderVars
    <2>1. UNCHANGED <<stream, flips, size, anchor, word>> /\ UNCHANGED signal
      BY <1>3 DEF decoderVars
    <2>2. /\ payload' = payload /\ before' = before /\ inverted' = inverted /\ fraction' = fraction
          /\ Transmitted' = Transmitted /\ \A i : Data(i)' = Data(i)
      BY <2>1, SignalIsFixed
    <2>3. StreamInv'
      BY <2>1, <2>2 DEF DecoderInv, StreamInv, StreamOfBits
    <2>4. Spoiled(size)' = Spoiled(size) /\ Spoiled(size - 1)' = Spoiled(size - 1)
      BY <2>1, <2>2, MarginIsFixed DEF Spoiled, WordBits, Half
    <2> QED
      BY <2>1, <2>2, <2>3, <2>4 DEF DecoderInv, NoAnchor, FirstSize, LastSize, Half, WordBits
  <1> QED
    BY <1>1, <1>2, <1>3 DEF DecoderNext, Done

\* Up to three flipped bits, and whatever the noise, the decoder keeps to what was
\* sent: a clean subframe is accepted at the first start within half a bit of its
\* edge that noise does not spoil, and a corrupted word nowhere.
THEOREM DecoderInvariant ==
    ASSUME CodeParameters
    PROVE  DecoderSpec => []DecoderInv
  <1>1. DecoderInit => DecoderInv
    BY DecoderInvInit
  <1>2. DecoderInv /\ [DecoderNext]_decoderVars => DecoderInv'
    BY DecoderInvStep
  <1> QED
    BY <1>1, <1>2, PTL DEF DecoderSpec

\* checkParity notices up to three flips anywhere in a word and the two bits
\* before it, with either polarity, for any data; and a word that arrives as it
\* was sent is decoded, to the data that was sent, unless noise can turn a bit at
\* every start within half a bit of the edge.
THEOREM DecodedWordsAreTrue ==
    ASSUME CodeParameters
    PROVE  DecoderSpec => []OnlyTrueWords
  <1>1. DecoderInv => OnlyTrueWords
    <2> SUFFICES ASSUME DecoderInv PROVE OnlyTrueWords
      OBVIOUS
    <2>1. ASSUME size = LastSize, anchor = NoAnchor, flips = {}, NEW s \in 1 - Half .. Half - 1
          PROVE  Marginal(s)
      <3>1. s + WordBits * Period <= size
        BY <2>1, Sizes, DecoderConstants
      <3> QED
        BY <2>1, <3>1 DEF DecoderInv, Spoiled
    <2> QED
      BY <2>1 DEF DecoderInv, OnlyTrueWords, Half
  <1> QED
    BY <1>1, DecoderInvariant, PTL

\* Whatever the data, the length of a bit, the place of its edge within a block
\* and the noise, a channel anchors its subframe after half a bit before the edge,
\* and no later than noise explains: the edge search of tryDecodeAtBitPosition,
\* which compares the complete candidates only, never moves the anchor forward,
\* nor back to half a bit.
THEOREM AnchorsAreExplained ==
    ASSUME CodeParameters
    PROVE  DecoderSpec => []AnchorsFollowNoise
  <1>1. DecoderInv => AnchorsFollowNoise
    <2> SUFFICES ASSUME DecoderInv, anchor # NoAnchor
                 PROVE  /\ anchor > -Half
                        /\ \A k \in 1 .. Half :
                              anchor > k - Half => 2 * (k * Fraction - fraction) <= Noise
      BY DEF AnchorsFollowNoise, Half
    <2>1. /\ StreamOfBits /\ Spoiled(size - 1) /\ size \in Int
          /\ anchor \in 1 - Half .. size - WordBits * Period
          /\ Half \in Nat /\ WordBits * Period \in Nat
      BY Sizes, DecoderConstants DEF DecoderInv, StreamInv
    <2>2. anchor > -Half
      BY <2>1
    <2>3. ASSUME NEW k \in 1 .. Half, anchor > k - Half
          PROVE  2 * (k * Fraction - fraction) <= Noise
      <3>1. k - Half \in 1 - Half .. Half - 1 /\ (k - Half) + WordBits * Period <= size - 1
        BY <2>1, <2>3
      <3>2. Marginal(k - Half)
        BY <2>1, <3>1 DEF Spoiled
      <3> QED
        BY <2>1, <3>2, MarginalNeedsNoise
    <2> QED
      BY <2>2, <2>3
  <1> QED
    BY <1>1, DecoderInvariant, PTL
=============================================================================
