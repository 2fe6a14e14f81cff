------------------------- MODULE AcquisitionProofs -------------------------
(***************************************************************************)
(* Proofs about module Acquisition, for any grid, any number of searches,  *)
(* and any sets of satellites, blocks and buffers.                         *)
(*                                                                         *)
(* Two things hold only within limits the code does not enforce, and the   *)
(* theorems say so: PoolFits, the slots of a search fit the first pool;    *)
(* and GridFits, a grid has at most 500 bins.                              *)
(***************************************************************************)
EXTENDS Acquisition, TLAPS

PoolFits == MaxSlots <= MinimumSlots
GridFits == \A g \in Grids : computeNumberOfFrequencyBins(g) <= 500

EngineTypes ==
    /\ device \in Devices
    /\ lengthIsPowerOfTwo \in BOOLEAN
    /\ strideIsSet \in BOOLEAN
    /\ clError \in BOOLEAN
    /\ slotPool \in {0, MinimumSlots}
    /\ DOMAIN poolContent = SlotIds
    /\ DOMAIN m_slotHost = SlotIds
    /\ m_slotStates \in [SlotIds -> {"SlotInvalid", "SlotDevice", "SlotHost"}]

SearchTypes ==
    /\ grid \in Grids
    /\ pc \in {"idle", "forward", "forwardHost", "batch", "inverse"}
    /\ index \in Nat
    /\ svId \in Satellites
    /\ pc # "idle" => input.address \in Buffers /\ input.data \in Blocks
    /\ metrics \in {"reset", "inserted"}

\* The slots this search has filled so far
Filled == IF pc \in {"forward", "forwardHost"} THEN 0 .. index - 1 ELSE 0 .. m_reuseFactor - 1

\* What the address in the cache promises about the buffer on the device
ResidentIsKnown ==
    \/ m_cachedInput1Ptr = NoAddress
    \/ m_cachedInput1Ptr = input.address /\ residentInput = input.data
    \/ m_cachedInput1Ptr = svId /\ residentInput = svId

\* A valid slot among the filled ones has the spectrum of this search's block.
SlotIsOwn(s) ==
    /\ m_slotStates[s] = "SlotDevice" =>
          slotPool # 0 /\ poolContent[s] = SpectrumOf(input.data, s)
    /\ m_slotStates[s] = "SlotHost" => m_slotHost[s] = SpectrumOf(input.data, s)

SlotsAreOwn == pc # "idle" => \A s \in Filled : SlotIsOwn(s)

\* Where correlate is in its loops, and how many bins that makes.
Progress ==
    /\ pc \in {"forward", "forwardHost"} => index < m_reuseFactor
    /\ pc = "batch" => index = 0
    /\ pc = "inverse" => index < m_numberOfFreqencyBins /\ DOMAIN bins = 0 .. index - 1
    /\ pc \in {"forward", "forwardHost", "batch"} => DOMAIN bins = {}
    /\ metrics = "inserted" => pc = "idle"

SearchInv ==
    /\ EngineTypes /\ SearchTypes
    /\ ResidentIsKnown /\ SlotsAreOwn /\ Progress
    /\ ResultsAreOfThisSearch

\* No call failed on a machine with a complete set of kernels, or without a device.
Healthy == lengthIsPowerOfTwo /\ device # "noAbsolute" /\ ~clError

\* Then every filled slot is valid, all of them on the device if there is one.
SlotIsReady(s) ==
    IF device = "none" THEN m_slotStates[s] = "SlotHost"
    ELSE m_slotStates[s] = "SlotDevice" /\ strideIsSet

HealthInv ==
    Healthy =>
        /\ pc # "idle" => \A s \in Filled : SlotIsReady(s)
        /\ pc = "forwardHost" => device = "none"
        /\ pc = "idle" /\ searches > 0 => metrics = "inserted"

-----------------------------------------------------------------------------
(* The search grid *)

LEMMA QuotientAndRest ==
    ASSUME NEW a \in Nat, NEW b \in Nat \ {0}
    PROVE  /\ a \div b \in Nat /\ a % b \in Nat /\ a % b < b
           /\ a = b * (a \div b) + (a % b)
  OBVIOUS

LEMMA GridTypes ==
    ASSUME NEW g \in Grids
    PROVE  g.span \in Int /\ g.step \in Int /\ g.resolution \in Nat \ {0}
  BY AcquisitionAssumption DEF Grids

\* The bins reach the end of the range: computeNumberOfFrequencyBins rounds up.
LEMMA BinsCoverTheRange ==
    ASSUME NEW g \in Grids
    PROVE  /\ computeNumberOfFrequencyBins(g) \in Nat \ {0}
           /\ g.step > 0 => (computeNumberOfFrequencyBins(g) - 1) * g.step >= g.span
  <1>1. PICK span \in Int, step \in Int : span = g.span /\ step = g.step
    BY GridTypes
  <1>2. CASE span <= 0 \/ step <= 0
    BY <1>1, <1>2 DEF computeNumberOfFrequencyBins
  <1>3. CASE span > 0 /\ step > 0
    <2>1. PICK a \in Nat : a = span + step - 1
      BY <1>3
    <2>2. PICK q \in Nat, r \in Nat : q = a \div step /\ r < step /\ a = step * q + r
      BY <1>3, <2>1, QuotientAndRest
    <2>3. computeNumberOfFrequencyBins(g) = q + 1
      BY <1>1, <1>3, <2>1, <2>2 DEF computeNumberOfFrequencyBins
    <2>4. PICK p \in Int : p = step * q /\ p = q * step
      BY <1>3
    <2>5. p >= span
      BY <1>3, <2>1, <2>2, <2>4
    <2> QED
      BY <1>1, <2>3, <2>4, <2>5
  <1> QED
    BY <1>2, <1>3

\* computeReuseFactor falls back to one slot per bin, or R slots lie within a
\* thousandth of a step of one FFT bin.
LEMMA ReuseFactorIsClose ==
    ASSUME NEW g \in Grids
    PROVE  LET R == computeReuseFactor(g)
               fallback == computeNumberOfFrequencyBins(g)
           IN  /\ R \in Nat \ {0} /\ R <= fallback
               /\ \/ R = fallback
                  \/ g.step > 0 /\ 1000 * Abs(g.resolution - R * g.step) <= g.step
  <1> DEFINE fallback == computeNumberOfFrequencyBins(g)
             rounded == LRound(g.resolution, g.step)
             error == Abs(g.resolution - rounded * g.step)
  <1>1. fallback \in Nat \ {0}
    BY BinsCoverTheRange
  <1>2. g.step \in Int /\ g.resolution \in Nat
    BY GridTypes
  <1>3. CASE g.step <= 0
    BY <1>1, <1>2, <1>3 DEF computeReuseFactor
  <1>4. CASE g.step > 0
    <2>1. rounded \in Nat
      <3>1. 2 * g.resolution + g.step \in Nat /\ 2 * g.step \in Nat \ {0}
        BY <1>2, <1>4
      <3> QED
        BY <3>1, QuotientAndRest DEF LRound
    <2>2. error \in Int
      <3>1. rounded * g.step \in Int
        BY <1>2, <2>1
      <3>2. g.resolution - rounded * g.step \in Int
        BY <1>2, <3>1
      <3> QED
        BY <3>2 DEF Abs
    <2>3. computeReuseFactor(g) = IF \/ g.step <= 0
                                     \/ rounded < 1 \/ rounded > fallback
                                     \/ 1000 * error > g.step
                                  THEN fallback ELSE rounded
      BY DEF computeReuseFactor
    <2> HIDE DEF fallback, rounded, error
    <2>4. CASE rounded < 1 \/ rounded > fallback \/ 1000 * error > g.step
      BY <1>1, <2>3, <2>4 DEF fallback
    <2>5. CASE ~(rounded < 1 \/ rounded > fallback \/ 1000 * error > g.step)
      <3>1. computeReuseFactor(g) = rounded
        BY <1>4, <1>2, <2>3, <2>5
      <3>2. rounded \in Nat \ {0} /\ rounded <= fallback /\ 1000 * error <= g.step
        BY <1>1, <1>2, <2>1, <2>2, <2>5
      <3> QED
        BY <1>4, <3>1, <3>2 DEF error, fallback
    <2> QED
      BY <2>4, <2>5
  <1> QED
    BY <1>2, <1>3, <1>4

LEMMA AbsIsBound == \A n \in Int : Abs(n) \in Nat /\ (n = Abs(n) \/ n = -Abs(n))
  BY DEF Abs

\* How far a bin's frequency is from the one it is reported with: a thousandth
\* of a step per FFT bin of shift.
LEMMA ErrorPerShift ==
    ASSUME m_reuseFactor \in Nat \ {0}, grid.step \in Nat \ {0}, grid.resolution \in Nat,
           1000 * Abs(grid.resolution - m_reuseFactor * grid.step) <= grid.step,
           NEW bin \in Nat
    PROVE  1000 * Abs(SearchedFrequency(bin) - bin * grid.step) <= Shift(bin) * grid.step
  <1>0. PICK R \in Nat \ {0}, step \in Nat \ {0}, resolution \in Nat :
           R = m_reuseFactor /\ step = grid.step /\ resolution = grid.resolution
    OBVIOUS
  <1>1. PICK q \in Nat, r \in Nat : q = Shift(bin) /\ r = Slot(bin) /\ bin = R * q + r
    <2>1. bin \div R \in Nat /\ bin % R \in Nat /\ bin = R * (bin \div R) + (bin % R)
      BY QuotientAndRest
    <2> QED
      BY <1>0, <2>1, Zenon DEF Shift, Slot
  <1>2. PICK d \in Int : d = resolution - R * step
    OBVIOUS
  <1>3. (r * step + q * resolution) - bin * step = q * d
    <2>1. bin * step = (R * q) * step + r * step
      BY <1>1
    <2>2. (R * q) * step = q * (R * step)
      OBVIOUS
    <2>3. q * d = q * resolution - q * (R * step)
      BY <1>2
    <2> QED
      BY <2>1, <2>2, <2>3
  <1>4. PICK e \in Nat : e = Abs(d) /\ (d = e \/ d = -e)
    BY AbsIsBound
  <1>5. Abs(q * d) = q * e
    <2>1. q * e \in Nat /\ (q * d = q * e \/ q * d = -(q * e))
      BY <1>4
    <2> QED
      BY <2>1 DEF Abs
  <1>6. 1000 * (q * e) <= q * step
    <2>1. PICK k \in Nat : step = 1000 * e + k
      <3>1. step - 1000 * e \in Nat
        BY <1>0, <1>2, <1>4
      <3> QED
        BY <3>1
    <2>2. q * step = 1000 * (q * e) + q * k
      BY <2>1
    <2>3. q * k \in Nat /\ q * e \in Nat
      OBVIOUS
    <2> QED
      BY <2>2, <2>3
  <1> QED
    BY <1>0, <1>1, <1>3, <1>5, <1>6 DEF SearchedFrequency


\* The grid does not change; so what holds of it in one state always holds.
LEMMA GridIsTrue ==
    ASSUME GridFits, grid \in Grids
    PROVE  SearchGridIsTrue
  <1> SUFFICES ASSUME grid.step > 0
               PROVE  /\ (m_numberOfFreqencyBins - 1) * grid.step >= grid.span
                      /\ \A bin \in Bins :
                           2 * Abs(SearchedFrequency(bin) - bin * grid.step) < grid.step
    BY DEF SearchGridIsTrue
  <1>1. grid.step \in Nat \ {0} /\ grid.resolution \in Nat
    BY GridTypes
  <1>2. /\ m_numberOfFreqencyBins \in Nat \ {0}
        /\ (m_numberOfFreqencyBins - 1) * grid.step >= grid.span
    BY BinsCoverTheRange DEF m_numberOfFreqencyBins
  <1>3. m_numberOfFreqencyBins <= 500
    BY DEF GridFits, m_numberOfFreqencyBins
  <1>4. /\ m_reuseFactor \in Nat \ {0} /\ m_reuseFactor <= m_numberOfFreqencyBins
        /\ \/ m_reuseFactor = m_numberOfFreqencyBins
           \/ 1000 * Abs(grid.resolution - m_reuseFactor * grid.step) <= grid.step
    BY ReuseFactorIsClose DEF m_reuseFactor, m_numberOfFreqencyBins
  <1>5. ASSUME NEW bin \in Bins
        PROVE  2 * Abs(SearchedFrequency(bin) - bin * grid.step) < grid.step
    <2>1. bin \in Nat /\ bin < m_numberOfFreqencyBins
      BY <1>2 DEF Bins
    <2>2. PICK q \in Nat, r \in Nat :
             /\ q = Shift(bin) /\ r = Slot(bin) /\ r < m_reuseFactor
             /\ bin = m_reuseFactor * q + r
      <3>1. /\ bin \div m_reuseFactor \in Nat
            /\ bin % m_reuseFactor \in Nat /\ bin % m_reuseFactor < m_reuseFactor
            /\ bin = m_reuseFactor * (bin \div m_reuseFactor) + (bin % m_reuseFactor)
        BY <1>4, <2>1, QuotientAndRest
      <3> QED
        BY <3>1, Zenon DEF Shift, Slot
    <2>3. q <= bin
      <3>1. m_reuseFactor * q >= q
        BY <1>4
      <3> QED
        BY <2>2, <3>1, <1>4
    <2>4. CASE m_reuseFactor = m_numberOfFreqencyBins
      <3>1. q = 0
        <4>1. q >= 1 => m_reuseFactor * q >= m_reuseFactor
          BY <1>4
        <4> QED
          BY <1>4, <2>1, <2>2, <2>4, <4>1
      <3>2. r = bin
        BY <1>4, <2>1, <2>2, <3>1
      <3>3. SearchedFrequency(bin) = bin * grid.step
        BY <1>1, <2>1, <2>2, <3>1, <3>2 DEF SearchedFrequency
      <3>4. Abs(SearchedFrequency(bin) - bin * grid.step) = 0
        BY <1>1, <2>1, <3>3 DEF Abs
      <3> QED
        BY <1>1, <3>4
    <2>5. CASE 1000 * Abs(grid.resolution - m_reuseFactor * grid.step) <= grid.step
      <3> DEFINE error == Abs(SearchedFrequency(bin) - bin * grid.step)
      <3>1. 1000 * error <= q * grid.step
        BY <1>1, <1>4, <2>1, <2>2, <2>5, ErrorPerShift
      <3>2. error \in Nat
        <4>1. SearchedFrequency(bin) = r * grid.step + q * grid.resolution
          BY <2>2 DEF SearchedFrequency
        <4>2. SearchedFrequency(bin) - bin * grid.step \in Int
          BY <1>1, <2>1, <4>1
        <4> QED
          BY <4>2, AbsIsBound
      <3>3. q <= 499
        BY <1>2, <1>3, <2>1, <2>3
      <3>4. q * grid.step <= 499 * grid.step
        <4>1. PICK k \in Nat : q + k = 499
          <5>1. 499 - q \in Nat
            BY <3>3
          <5> QED
            BY <5>1
        <4>2. PICK s \in Nat : s = grid.step
          BY <1>1
        <4>3. (q + k) * s = q * s + k * s /\ k * s \in Nat /\ q * s \in Nat
          OBVIOUS
        <4> QED
          BY <4>1, <4>2, <4>3
      <3> HIDE DEF error
      <3>5. q * grid.step \in Int
        BY <1>1
      <3>6. 2 * error < grid.step
        BY <1>1, <3>1, <3>2, <3>4, <3>5
      <3> QED
        BY <3>6 DEF error
    <2> QED
      BY <1>4, <2>4, <2>5
  <1> QED
    BY <1>2, <1>5

\* In a grid of at most 500 bins the bins reach the end of the configured Doppler
\* range, and every bin, also one that reuses a slot with a shift, correlates with
\* the frequency that createDopplerSearchTable's spacing reports for it, to less
\* than half a step.
THEOREM SearchIsOnTheGrid ==
    ASSUME GridFits
    PROVE  Spec => []SearchGridIsTrue
  <1>1. Init => grid \in Grids
    BY DEF Init
  <1>2. grid \in Grids /\ [Next]_vars => (grid \in Grids)'
    <2>1. ASSUME [Next]_vars PROVE UNCHANGED grid
      BY <2>1 DEF Next, vars, searchVars, Start, ForwardOnDevice, ForwardDeviceFails,
                  ForwardOnHost, ForwardFails, NextReplica, Return, CorrelateBatch,
                  CorrelateBatchFails, InverseOnDevice, InverseOnHost, InverseStale,
                  InverseFails, AccumulateBin, Done
    <2> QED
      BY <2>1
  <1>3. grid \in Grids => SearchGridIsTrue
    BY GridIsTrue
  <1> QED
    BY <1>1, <1>2, <1>3, PTL DEF Spec


-----------------------------------------------------------------------------
(* The engine *)

LEMMA SlotsOfTheGrid ==
    ASSUME grid \in Grids
    PROVE  /\ m_reuseFactor \in Nat \ {0} /\ 0 .. m_reuseFactor - 1 \subseteq SlotIds
           /\ m_numberOfFreqencyBins \in Nat \ {0}
           /\ \A bin \in Nat : Slot(bin) \in 0 .. m_reuseFactor - 1
  <1>1. m_numberOfFreqencyBins \in Nat \ {0}
    BY BinsCoverTheRange DEF m_numberOfFreqencyBins
  <1>2. m_reuseFactor \in Nat \ {0} /\ m_reuseFactor <= MaxSlots
    BY ReuseFactorIsClose DEF m_reuseFactor, Grids
  <1>3. \A bin \in Nat : bin % m_reuseFactor \in Nat /\ bin % m_reuseFactor < m_reuseFactor
    BY <1>2, QuotientAndRest
  <1>4. \A bin \in Nat : Slot(bin) \in 0 .. m_reuseFactor - 1
    BY <1>2, <1>3 DEF Slot
  <1>5. 0 .. m_reuseFactor - 1 \subseteq SlotIds
    BY <1>2, EngineAssumption DEF SlotIds
  <1> QED
    BY <1>1, <1>2, <1>4, <1>5

\* The first pool is large enough for every slot.
LEMMA OnePool ==
    ASSUME PoolFits, NEW s \in SlotIds
    PROVE  NeededSlots(s) = MinimumSlots
  <1>1. s \in Nat /\ s < MinimumSlots
    BY EngineAssumption DEF PoolFits, SlotIds
  <1>2. s \div MinimumSlots = 0
    <2>1. PICK q \in Nat, r \in Nat : q = s \div MinimumSlots /\ s = MinimumSlots * q + r
      <3>1. /\ s \div MinimumSlots \in Nat /\ s % MinimumSlots \in Nat
            /\ s = MinimumSlots * (s \div MinimumSlots) + (s % MinimumSlots)
        BY <1>1, EngineAssumption, QuotientAndRest
      <3> QED
        BY <3>1, Zenon
    <2>2. q >= 1 => MinimumSlots * q >= MinimumSlots
      BY EngineAssumption
    <2> QED
      BY <1>1, <2>1, <2>2, EngineAssumption
  <1> QED
    BY <1>2, EngineAssumption DEF NeededSlots

\* What a slot that is not the one in work may lose: its validity.  While it has
\* that, its contents are the old ones, unless there was no pool at all.
KeptOrInvalid(s) ==
    \/ m_slotStates'[s] = "SlotInvalid"
    \/ /\ m_slotStates'[s] = m_slotStates[s]
       /\ \/ slotPool = 0
          \/ slotPool' = slotPool /\ poolContent'[s] = poolContent[s]

LEMMA FillOnDeviceEffect ==
    ASSUME EngineTypes, PoolFits, NEW x, NEW i \in SlotIds, FillSlotOnDevice(x, i)
    PROVE  /\ EngineTypes' /\ slotPool' # 0 /\ strideIsSet'
           /\ m_slotStates'[i] = "SlotDevice"
           /\ poolContent'[i] = SpectrumOf(residentInput', i)
           /\ \A s \in SlotIds \ {i} : KeptOrInvalid(s)
           /\ strideIsSet /\ slotPool # 0 =>
                 \A s \in SlotIds \ {i} : m_slotStates'[s] = m_slotStates[s]
  <1> DEFINE before == PoolBefore(Freed(i))
             pool == GrownPool(i, before)
  <1>1. /\ strideIsSet' = TRUE
        /\ slotPool' = pool.pool
        /\ poolContent' = [pool.content EXCEPT ![i] = SpectrumOf(residentInput', i)]
        /\ m_slotStates' = [pool.states EXCEPT ![i] = "SlotDevice"]
    BY DEF FillSlotOnDevice, SetSlots, PoolBefore, GrownPool
  <1>2. UNCHANGED <<device, lengthIsPowerOfTwo, m_slotHost, clError>>
    BY DEF FillSlotOnDevice, configVars
  <1>3. /\ before.pool = slotPool /\ before.content = poolContent
        /\ before.states = IF strideIsSet THEN Freed(i) ELSE AllInvalid
    BY DEF PoolBefore
  <1>4. /\ Freed(i) \in [SlotIds -> {"SlotInvalid", "SlotDevice", "SlotHost"}]
        /\ \A s \in SlotIds \ {i} : Freed(i)[s] = m_slotStates[s]
    BY DEF EngineTypes, Freed
  <1>5. /\ AllInvalid \in [SlotIds -> {"SlotInvalid", "SlotDevice", "SlotHost"}]
        /\ \A s \in SlotIds : AllInvalid[s] = "SlotInvalid"
    BY DEF AllInvalid
  <1>6. CASE slotPool = 0
    <2>1. /\ pool.pool = MinimumSlots /\ pool.content = [j \in SlotIds |-> NoSpectrum]
          /\ pool.states = AllInvalid
      BY <1>3, <1>6, OnePool, EngineAssumption DEF GrownPool
    <2> HIDE DEF pool, before
    <2> QED
      BY <1>1, <1>2, <1>5, <1>6, <2>1, EngineAssumption DEF EngineTypes, KeptOrInvalid
  <1>7. CASE slotPool = MinimumSlots
    <2>1. /\ pool.pool = slotPool /\ pool.content = poolContent
          /\ pool.states = IF strideIsSet THEN Freed(i) ELSE AllInvalid
      BY <1>3, <1>7, OnePool, EngineAssumption DEF GrownPool
    <2> HIDE DEF pool, before
    <2>2. DOMAIN poolContent = SlotIds
      BY DEF EngineTypes
    <2>3. /\ poolContent'[i] = SpectrumOf(residentInput', i)
          /\ \A s \in SlotIds \ {i} : poolContent'[s] = poolContent[s]
          /\ DOMAIN poolContent' = SlotIds
      BY <1>1, <2>1, <2>2
    <2>4. /\ m_slotStates' \in [SlotIds -> {"SlotInvalid", "SlotDevice", "SlotHost"}]
          /\ m_slotStates'[i] = "SlotDevice"
          /\ \A s \in SlotIds \ {i} : m_slotStates'[s] = IF strideIsSet THEN m_slotStates[s]
                                                         ELSE "SlotInvalid"
      BY <1>1, <1>4, <1>5, <2>1
    <2> QED
      BY <1>1, <1>2, <1>7, <2>1, <2>3, <2>4, EngineAssumption DEF EngineTypes, KeptOrInvalid
  <1> QED
    BY <1>6, <1>7 DEF EngineTypes

LEMMA FillFailsEffect ==
    ASSUME EngineTypes, PoolFits, NEW x, NEW i \in SlotIds, FillSlotOnDeviceFails(x, i)
    PROVE  /\ EngineTypes' /\ UNCHANGED <<m_slotHost, lengthIsPowerOfTwo, device>>
           /\ \A s \in SlotIds \ {i} : KeptOrInvalid(s)
           /\ ResidentInput1Fails(x) \/ EnsureResidentInput1(x)
           /\ lengthIsPowerOfTwo => clError'
  <1> DEFINE before == PoolBefore(Freed(i))
  <1>1. /\ UNCHANGED <<device, lengthIsPowerOfTwo, m_slotHost>>
        /\ clError' = (clError \/ lengthIsPowerOfTwo)
    BY DEF FillSlotOnDeviceFails, configVars
  <1>2. clError' \in BOOLEAN /\ (lengthIsPowerOfTwo => clError')
    BY <1>1, Zenon
  <1>3. /\ before.pool = slotPool /\ before.content = poolContent
        /\ before.states = IF strideIsSet THEN Freed(i) ELSE AllInvalid
    BY DEF PoolBefore
  <1>4. /\ Freed(i) \in [SlotIds -> {"SlotInvalid", "SlotDevice", "SlotHost"}]
        /\ \A s \in SlotIds \ {i} : Freed(i)[s] = m_slotStates[s]
    BY DEF EngineTypes, Freed
  <1>5. /\ AllInvalid \in [SlotIds -> {"SlotInvalid", "SlotDevice", "SlotHost"}]
        /\ \A s \in SlotIds : AllInvalid[s] = "SlotInvalid"
    BY DEF AllInvalid
  <1>6. CASE /\ ResidentInput1Fails(x) \/ EnsureResidentInput1(x)
             /\ m_slotStates' = Freed(i)
             /\ UNCHANGED <<strideIsSet, slotPool, poolContent>>
    BY <1>1, <1>2, <1>4, <1>6 DEF EngineTypes, KeptOrInvalid
  <1>7. CASE /\ slotPool < NeededSlots(i)
             /\ EnsureResidentInput1(x)
             /\ SetSlots(LostPool(before))
    <2>1. slotPool = 0
      BY <1>7, OnePool, EngineAssumption DEF EngineTypes
    <2>2. /\ strideIsSet' = TRUE /\ slotPool' = 0
          /\ poolContent' = [j \in SlotIds |-> NoSpectrum]
          /\ m_slotStates' = IF strideIsSet THEN Freed(i) ELSE AllInvalid
      BY <1>7 DEF SetSlots, LostPool, PoolBefore
    <2> HIDE DEF before
    <2> QED
      BY <1>1, <1>2, <1>4, <1>5, <1>7, <2>1, <2>2 DEF EngineTypes, KeptOrInvalid
  <1>8. CASE EnsureResidentInput1(x) /\ SetSlots(GrownPool(i, before))
    <2>1. CASE slotPool = 0
      <3>1. /\ strideIsSet' = TRUE /\ slotPool' = MinimumSlots
            /\ poolContent' = [j \in SlotIds |-> NoSpectrum]
            /\ m_slotStates' = AllInvalid
        BY <1>3, <1>8, <2>1, OnePool, EngineAssumption DEF SetSlots, GrownPool
      <3> HIDE DEF before
      <3> QED
        BY <1>1, <1>2, <1>5, <1>8, <2>1, <3>1 DEF EngineTypes, KeptOrInvalid
    <2>2. CASE slotPool = MinimumSlots
      <3>1. /\ strideIsSet' = TRUE /\ slotPool' = slotPool
            /\ poolContent' = poolContent
            /\ m_slotStates' = IF strideIsSet THEN Freed(i) ELSE AllInvalid
        BY <1>3, <1>8, <2>2, OnePool, EngineAssumption DEF SetSlots, GrownPool
      <3> HIDE DEF before
      <3> QED
        BY <1>1, <1>2, <1>4, <1>5, <1>8, <2>2, <3>1 DEF EngineTypes, KeptOrInvalid
    <2> QED
      BY <2>1, <2>2 DEF EngineTypes
  <1> QED
    BY <1>6, <1>7, <1>8 DEF FillSlotOnDeviceFails


\* The address in the cache is that of no other vector of the search.
LEMMA EnsureInput ==
    ASSUME SearchTypes, ResidentIsKnown, pc # "idle", EnsureResidentInput1(input)
    PROVE  residentInput' = input.data /\ m_cachedInput1Ptr' = input.address
  <1>1. input.address # NoAddress /\ input.address # svId
    BY AcquisitionAssumption DEF SearchTypes
  <1> QED
    BY <1>1 DEF ResidentIsKnown, EnsureResidentInput1, IsResident

LEMMA EnsureCode ==
    ASSUME SearchTypes, ResidentIsKnown, pc # "idle", EnsureResidentInput1(codeSpectrum)
    PROVE  residentInput' = svId /\ m_cachedInput1Ptr' = svId
  <1>1. svId # NoAddress /\ input.address # svId
    BY AcquisitionAssumption DEF SearchTypes
  <1>2. codeSpectrum.address = svId /\ codeSpectrum.data = svId
    BY DEF codeSpectrum
  <1> QED
    BY <1>1, <1>2 DEF ResidentIsKnown, EnsureResidentInput1, IsResident

\* An upload that fails leaves no address behind; complexMultiplier overwrites the
\* buffer under a known address only where there was no buffer.
LEMMA ResidentStaysKnown ==
    ASSUME SearchTypes, ResidentIsKnown, pc # "idle", UNCHANGED <<input, svId>>,
           \/ EnsureResidentInput1(input) \/ ResidentInput1Fails(input)
           \/ EnsureResidentInput1(codeSpectrum) \/ ResidentInput1Fails(codeSpectrum)
           \/ MultiplierTouchesInput(input)
           \/ UNCHANGED residentVars
    PROVE  ResidentIsKnown'
  <1>1. CASE EnsureResidentInput1(input)
    BY <1>1, EnsureInput DEF ResidentIsKnown
  <1>2. CASE EnsureResidentInput1(codeSpectrum)
    BY <1>2, EnsureCode DEF ResidentIsKnown
  <1>3. CASE ResidentInput1Fails(input) \/ ResidentInput1Fails(codeSpectrum)
    BY <1>3 DEF ResidentInput1Fails, ResidentIsKnown, residentVars
  <1>4. CASE MultiplierTouchesInput(input)
    <2>1. input.data # Unallocated /\ svId # Unallocated
      BY AcquisitionAssumption DEF SearchTypes
    <2> QED
      BY <1>4, <2>1 DEF MultiplierTouchesInput, ResidentIsKnown, residentVars
  <1>5. CASE UNCHANGED residentVars
    BY <1>5 DEF residentVars, ResidentIsKnown
  <1> QED
    BY <1>1, <1>2, <1>3, <1>4, <1>5

LEMMA SlotStaysOwn ==
    ASSUME UNCHANGED <<input, m_slotHost>>, NEW s, KeptOrInvalid(s), SlotIsOwn(s)
    PROVE  SlotIsOwn(s)'
  BY DEF KeptOrInvalid, SlotIsOwn, SpectrumOf

-----------------------------------------------------------------------------
(* The search *)

\* What a step that leaves the accumulated bins alone leaves true.
LEMMA ResultsKept ==
    ASSUME UNCHANGED <<grid, input, svId, bins, metrics>>, ResultsAreOfThisSearch
    PROVE  ResultsAreOfThisSearch'
  BY DEF ResultsAreOfThisSearch, IsTrue, Bins, Slot, m_reuseFactor, m_numberOfFreqencyBins

\* The slot of the replica is filled: the loop goes on, or all slots are.
LEMMA ReplicaDone ==
    ASSUME SearchTypes, Progress, pc \in {"forward", "forwardHost"}, NextReplica
    PROVE  /\ SearchTypes' /\ Progress' /\ pc' # "idle"
           /\ Filled' = Filled \cup {index} /\ Filled = 0 .. index - 1
           /\ index \in SlotIds /\ index \notin Filled /\ Filled \subseteq SlotIds
           /\ UNCHANGED <<grid, input, svId, bins, metrics, searches>>
  <1>1. /\ grid \in Grids /\ index \in Nat /\ m_reuseFactor \in Nat /\ index < m_reuseFactor
        /\ 0 .. m_reuseFactor - 1 \subseteq SlotIds
    BY SlotsOfTheGrid DEF SearchTypes, Progress
  <1>2. UNCHANGED <<grid, input, svId, bins, metrics, searches, m_reuseFactor>>
    BY DEF NextReplica, m_reuseFactor
  <1>3. Filled = 0 .. index - 1
    BY DEF Filled
  <1>4. index \in SlotIds /\ index \notin Filled /\ Filled \subseteq SlotIds
    BY <1>1, <1>3
  <1>5. metrics = "reset" /\ DOMAIN bins = {}
    BY DEF SearchTypes, Progress
  <1>6. CASE index + 1 < m_reuseFactor
    <2>1. index' = index + 1 /\ pc' = "forward"
      BY <1>6 DEF NextReplica
    <2>2. Filled' = 0 .. index
      BY <1>1, <2>1 DEF Filled
    <2>3. SearchTypes' /\ Progress'
      BY <1>1, <1>2, <1>5, <1>6, <2>1 DEF SearchTypes, Progress
    <2> QED
      BY <1>1, <1>2, <1>3, <1>4, <2>1, <2>2, <2>3
  <1>7. CASE ~(index + 1 < m_reuseFactor)
    <2>1. index' = 0 /\ pc' = "batch"
      BY <1>7 DEF NextReplica
    <2>2. Filled' = 0 .. index
      <3>1. m_reuseFactor - 1 = index
        BY <1>1, <1>7
      <3> QED
        BY <1>2, <2>1, <3>1 DEF Filled
    <2>3. SearchTypes' /\ Progress'
      BY <1>1, <1>2, <1>5, <2>1 DEF SearchTypes, Progress
    <2> QED
      BY <1>1, <1>2, <1>3, <1>4, <2>1, <2>2, <2>3
  <1> QED
    BY <1>6, <1>7

\* accumulateBin of a result that is of this search
LEMMA BinDone ==
    ASSUME SearchTypes, Progress, ResultsAreOfThisSearch, pc = "inverse", NEW result,
           \/ result = [spectrum |-> SpectrumOf(input.data, Slot(index)), operand |-> svId]
           \/ result.spectrum = StaleMagnitude,
           AccumulateBin(result)
    PROVE  SearchTypes' /\ Progress' /\ ResultsAreOfThisSearch'
  <1>1. /\ grid \in Grids /\ index \in Nat
        /\ m_numberOfFreqencyBins \in Nat /\ index < m_numberOfFreqencyBins
        /\ DOMAIN bins = 0 .. index - 1 /\ metrics = "reset"
    BY SlotsOfTheGrid DEF SearchTypes, Progress
  <1>2. /\ bins' = [bin \in 0 .. index |-> IF bin = index THEN result ELSE bins[bin]]
        /\ index' = index + 1
        /\ UNCHANGED <<grid, input, svId, m_numberOfFreqencyBins>>
    BY DEF AccumulateBin, m_numberOfFreqencyBins
  <1>3. DOMAIN bins' = 0 .. index /\ 0 .. index' - 1 = 0 .. index
    BY <1>1, <1>2
  <1>4. \/ /\ index + 1 = m_numberOfFreqencyBins /\ pc' = "idle" /\ metrics' = "inserted"
        \/ /\ index + 1 < m_numberOfFreqencyBins /\ pc' = "inverse" /\ metrics' = "reset"
    BY <1>1 DEF AccumulateBin
  <1>5. SearchTypes' /\ Progress'
    BY <1>1, <1>2, <1>3, <1>4 DEF SearchTypes, Progress
  <1>6. metrics' = "inserted" => DOMAIN bins' = Bins'
    BY <1>1, <1>2, <1>3, <1>4 DEF Bins
  <1>7. ASSUME NEW bin \in DOMAIN bins'
        PROVE  IsTrue(bin)' \/ bins'[bin].spectrum = StaleMagnitude
    <2>1. Slot(bin)' = Slot(bin)
      BY <1>2 DEF Slot, m_reuseFactor
    <2>2. CASE bin = index
      BY <1>2, <1>3, <1>7, <2>1, <2>2 DEF IsTrue
    <2>3. CASE bin # index
      <3>1. bin \in DOMAIN bins /\ bins'[bin] = bins[bin]
        BY <1>1, <1>2, <1>3, <1>7, <2>3
      <3>2. IsTrue(bin) \/ bins[bin].spectrum = StaleMagnitude
        BY <3>1 DEF ResultsAreOfThisSearch
      <3> QED
        BY <1>2, <2>1, <3>1, <3>2 DEF IsTrue
    <2> QED
      BY <2>2, <2>3
  <1> QED
    BY <1>5, <1>6, <1>7 DEF ResultsAreOfThisSearch, StaleMagnitude


LEMMA SearchInvInit == Init => SearchInv
  <1> SUFFICES ASSUME Init PROVE SearchInv
    OBVIOUS
  <1>1. EngineTypes
    BY DEF Init, EngineInit, EngineTypes
  <1>2. SearchTypes /\ ResidentIsKnown /\ SlotsAreOwn /\ Progress
    BY DEF Init, EngineInit, SearchTypes, ResidentIsKnown, SlotsAreOwn, Progress
  <1>3. ResultsAreOfThisSearch
    BY DEF Init, ResultsAreOfThisSearch
  <1> QED
    BY <1>1, <1>2, <1>3 DEF SearchInv

LEMMA SearchInvStep ==
    ASSUME PoolFits
    PROVE  SearchInv /\ [Next]_vars => SearchInv'
  <1> SUFFICES ASSUME SearchInv, [Next]_vars
               PROVE  SearchInv'
    OBVIOUS
  <1> USE DEF SearchInv
  \* A step of the engine that touches no slot
  <1>1. ASSUME UNCHANGED <<input, grid, slotVars>>, pc # "idle", Filled' = Filled
        PROVE  SlotsAreOwn'
    BY <1>1 DEF SlotsAreOwn, slotVars, SlotIsOwn, SpectrumOf
  \* correlate returns without metrics
  <1>2. ASSUME Return PROVE SearchTypes' /\ Progress' /\ SlotsAreOwn' /\ ResultsAreOfThisSearch'
    <2>1. pc' = "idle" /\ UNCHANGED <<grid, index, input, svId, bins, metrics, searches>>
      BY <1>2 DEF Return
    <2> QED
      BY <2>1, ResultsKept DEF SearchTypes, Progress, SlotsAreOwn
  <1>3. ASSUME NEW address \in Buffers, NEW data \in Blocks, NEW sv \in Satellites,
               Start(address, data, sv)
        PROVE  SearchInv'
    <2>1. /\ pc' = "forward" /\ index' = 0 /\ svId' = sv
          /\ input'.address = address /\ input'.data = data
          /\ bins' = <<>> /\ metrics' = "reset" /\ grid' = grid
          /\ clError' = FALSE /\ m_cachedInput1Ptr' = NoAddress
      BY <1>3 DEF Start, InvalidateResidentInput
    <2>2. EngineTypes'
      BY <1>3, <2>1 DEF Start, EngineTypes, configVars, slotVars
    <2>3. m_reuseFactor' \in Nat \ {0}
      BY <2>1, SlotsOfTheGrid DEF SearchTypes, m_reuseFactor
    <2>4. SearchTypes' /\ Progress' /\ ResidentIsKnown'
      BY <2>1, <2>3 DEF SearchTypes, Progress, ResidentIsKnown
    <2>5. SlotsAreOwn'
      BY <2>1 DEF SlotsAreOwn, Filled
    <2>6. ResultsAreOfThisSearch'
      BY <2>1 DEF ResultsAreOfThisSearch
    <2> QED
      BY <2>2, <2>4, <2>5, <2>6
  <1>4. CASE ForwardOnDevice
    <2>1. pc = "forward" /\ FillSlotOnDevice(input, index) /\ NextReplica
      BY <1>4 DEF ForwardOnDevice
    <2>2. /\ SearchTypes' /\ Progress' /\ pc' # "idle"
          /\ Filled' = Filled \cup {index} /\ index \in SlotIds /\ index \notin Filled
          /\ Filled \subseteq SlotIds
          /\ UNCHANGED <<grid, input, svId, bins, metrics>>
      BY <2>1, ReplicaDone
    <2>3. /\ EngineTypes' /\ slotPool' # 0
          /\ m_slotStates'[index] = "SlotDevice"
          /\ poolContent'[index] = SpectrumOf(residentInput', index)
          /\ \A s \in SlotIds \ {index} : KeptOrInvalid(s)
      BY <2>1, <2>2, FillOnDeviceEffect
    <2>4. EnsureResidentInput1(input) /\ UNCHANGED m_slotHost
      BY <2>1 DEF FillSlotOnDevice
    <2>5. residentInput' = input.data /\ ResidentIsKnown'
      BY <2>1, <2>2, <2>4, EnsureInput, ResidentStaysKnown
    <2>6. SlotsAreOwn'
      <3>1. \A s \in Filled : SlotIsOwn(s)'
        BY <2>1, <2>2, <2>3, <2>4, SlotStaysOwn DEF SlotsAreOwn
      <3>2. /\ m_slotStates'[index] = "SlotDevice" /\ slotPool' # 0
            /\ poolContent'[index] = SpectrumOf(input'.data, index)
        BY <2>2, <2>3, <2>5
      <3>3. \A s : s = index => SlotIsOwn(s)'
        BY <3>2 DEF SlotIsOwn, SpectrumOf
      <3> QED
        BY <2>2, <3>1, <3>3 DEF SlotsAreOwn
    <2> QED
      BY <2>2, <2>3, <2>5, <2>6, ResultsKept
  <1>5. CASE ForwardDeviceFails
    <2>1. /\ pc = "forward" /\ pc' = "forwardHost" /\ FillSlotOnDeviceFails(input, index)
          /\ UNCHANGED <<grid, index, input, svId, bins, metrics>>
      BY <1>5 DEF ForwardDeviceFails
    <2>2. /\ index \in Nat /\ index \in SlotIds /\ 0 .. index - 1 \subseteq SlotIds
          /\ index < m_reuseFactor /\ m_reuseFactor' = m_reuseFactor
      <3>1. /\ index \in Nat /\ index < m_reuseFactor /\ m_reuseFactor \in Nat
            /\ 0 .. m_reuseFactor - 1 \subseteq SlotIds
        BY <2>1, SlotsOfTheGrid DEF SearchTypes, Progress
      <3>2. m_reuseFactor' = m_reuseFactor
        BY <2>1 DEF m_reuseFactor
      <3> QED
        BY <3>1, <3>2
    <2>3. /\ EngineTypes' /\ UNCHANGED m_slotHost
          /\ \A s \in SlotIds \ {index} : KeptOrInvalid(s)
          /\ ResidentInput1Fails(input) \/ EnsureResidentInput1(input)
      BY <2>1, <2>2, FillFailsEffect
    <2>4. ResidentIsKnown'
      BY <2>1, <2>3, ResidentStaysKnown
    <2>5. Filled = 0 .. index - 1 /\ Filled' = Filled
      BY <2>1 DEF Filled
    <2>6. SlotsAreOwn'
      <3>1. \A s \in Filled : s \in SlotIds \ {index} /\ SlotIsOwn(s)
        BY <2>1, <2>2, <2>5 DEF SlotsAreOwn
      <3> QED
        BY <2>1, <2>3, <2>5, <3>1, SlotStaysOwn DEF SlotsAreOwn
    <2>7. SearchTypes' /\ Progress'
      BY <2>1, <2>2 DEF SearchTypes, Progress
    <2> QED
      BY <2>1, <2>3, <2>4, <2>6, <2>7, ResultsKept
  <1>6. CASE ForwardOnHost
    <2>1. /\ pc \in {"forward", "forwardHost"}
          /\ FillSlotOnHost(input, index) /\ NextReplica
      BY <1>6 DEF ForwardOnHost, OnHost
    <2>2. /\ SearchTypes' /\ Progress' /\ pc' # "idle" /\ pc # "idle"
          /\ Filled' = Filled \cup {index} /\ index \in SlotIds /\ index \notin Filled
          /\ Filled \subseteq SlotIds
          /\ UNCHANGED <<grid, input, svId, bins, metrics>>
      BY <2>1, ReplicaDone
    <2>3. ResidentIsKnown'
      BY <2>1, <2>2, ResidentStaysKnown DEF FillSlotOnHost
    <2>4. /\ UNCHANGED <<device, lengthIsPowerOfTwo, strideIsSet, slotPool, poolContent, clError>>
          /\ m_slotHost' = [m_slotHost EXCEPT ![index] = SpectrumOf(input.data, index)]
          /\ m_slotStates' = [m_slotStates EXCEPT ![index] = "SlotHost"]
      BY <2>1 DEF FillSlotOnHost, configVars
    <2>5. /\ EngineTypes'
          /\ m_slotHost'[index] = SpectrumOf(input.data, index)
          /\ m_slotStates'[index] = "SlotHost"
          /\ \A s \in SlotIds \ {index} : /\ m_slotHost'[s] = m_slotHost[s]
                                          /\ m_slotStates'[s] = m_slotStates[s]
      BY <2>2, <2>4 DEF EngineTypes
    <2>6. SlotsAreOwn'
      <3>1. \A s \in Filled : SlotIsOwn(s)'
        BY <2>2, <2>4, <2>5 DEF SlotsAreOwn, SlotIsOwn, SpectrumOf
      <3>2. /\ m_slotStates'[index] = "SlotHost"
            /\ m_slotHost'[index] = SpectrumOf(input'.data, index)
        BY <2>2, <2>5
      <3>3. \A s : s = index => SlotIsOwn(s)'
        BY <3>2 DEF SlotIsOwn, SpectrumOf
      <3> QED
        BY <2>2, <3>1, <3>3 DEF SlotsAreOwn
    <2> QED
      BY <2>2, <2>3, <2>5, <2>6, ResultsKept
  <1>7. CASE ForwardFails
    <2>1. /\ pc \in {"forward", "forwardHost"}
          /\ FillSlotFails(input, index) /\ Return
      BY <1>7 DEF ForwardFails, OnHost
    <2>2. ResidentIsKnown'
      BY <2>1, ResidentStaysKnown DEF FillSlotFails, Return
    <2>3. EngineTypes'
      BY <2>1 DEF FillSlotFails, EngineTypes, Freed, configVars
    <2> QED
      BY <1>2, <2>1, <2>2, <2>3
  \* From here on the slots are only read.
  <1>8. ASSUME pc \in {"batch", "inverse"}, UNCHANGED <<configVars, slotVars>>, clError' \in BOOLEAN
        PROVE  EngineTypes'
    BY <1>8 DEF EngineTypes, configVars, slotVars
  <1>9. CASE CorrelateBatch
    <2>1. /\ pc = "batch" /\ pc' = "idle" /\ metrics' = "inserted"
          /\ Batch(codeSpectrum, UsedSlots)
          /\ bins' = [bin \in Bins |-> DeviceResult(bin)]
          /\ UNCHANGED <<grid, index, input, svId>>
      BY <1>9 DEF CorrelateBatch
    <2>2. residentInput' = svId /\ ResidentIsKnown'
      BY <2>1, EnsureCode, ResidentStaysKnown DEF Batch
    <2>3. EngineTypes'
      BY <1>8, <2>1 DEF Batch, EngineTypes
    <2>4. SearchTypes' /\ Progress' /\ SlotsAreOwn'
      BY <2>1 DEF SearchTypes, Progress, SlotsAreOwn
    <2>5. Bins' = Bins /\ DOMAIN bins' = Bins
      BY <2>1 DEF Bins, m_numberOfFreqencyBins
    <2>6. ASSUME NEW bin \in Bins PROVE IsTrue(bin)'
      <3>1. bin \in Nat /\ Slot(bin) \in UsedSlots /\ Slot(bin) \in Filled
        BY <2>1, <2>6, SlotsOfTheGrid DEF Bins, UsedSlots, Filled, SearchTypes
      <3>2. m_slotStates[Slot(bin)] = "SlotDevice"
        BY <2>1, <3>1 DEF Batch, BatchPossible
      <3>3. PoolSlot(Slot(bin)) = SpectrumOf(input.data, Slot(bin))
        BY <2>1, <3>1, <3>2 DEF SlotsAreOwn, SlotIsOwn, PoolSlot
      <3>4. bins'[bin] = [spectrum |-> SpectrumOf(input.data, Slot(bin)), operand |-> svId]
        BY <2>1, <2>2, <2>6, <3>3 DEF DeviceResult
      <3>5. Slot(bin)' = Slot(bin)
        BY <2>1 DEF Slot, m_reuseFactor
      <3> QED
        BY <2>1, <3>4, <3>5 DEF IsTrue
    <2> QED
      BY <2>2, <2>3, <2>4, <2>5, <2>6 DEF ResultsAreOfThisSearch
  <1>10. CASE CorrelateBatchFails
    <2>1. /\ pc = "batch" /\ pc' = "inverse"
          /\ BatchFails(codeSpectrum, UsedSlots)
          /\ UNCHANGED <<grid, index, input, svId, bins, metrics>>
      BY <1>10 DEF CorrelateBatchFails
    <2>2. ResidentIsKnown'
      BY <2>1, ResidentStaysKnown DEF BatchFails
    <2>3. EngineTypes'
      <3>1. clError' \in BOOLEAN
        BY <2>1 DEF BatchFails, EngineTypes
      <3> QED
        BY <1>8, <2>1, <3>1 DEF BatchFails
    <2>4. SlotsAreOwn'
      <3>1. Filled' = Filled
        BY <2>1 DEF Filled, m_reuseFactor
      <3> QED
        BY <1>1, <2>1, <3>1 DEF BatchFails
    <2>5. SearchTypes' /\ Progress'
      <3>1. /\ m_numberOfFreqencyBins \in Nat \ {0} /\ index = 0 /\ DOMAIN bins = {}
            /\ m_numberOfFreqencyBins' = m_numberOfFreqencyBins
            /\ metrics = "reset"
        BY <2>1, SlotsOfTheGrid DEF SearchTypes, Progress, m_numberOfFreqencyBins
      <3>2. 0 .. index - 1 = {}
        BY <3>1
      <3> QED
        BY <2>1, <3>1, <3>2 DEF SearchTypes, Progress
    <2> QED
      BY <2>1, <2>2, <2>3, <2>4, <2>5, ResultsKept
  \* One bin is accumulated: the slots and their number stay.
  <1>11. ASSUME NEW result, pc = "inverse", AccumulateBin(result), UNCHANGED slotVars
         PROVE  SlotsAreOwn' /\ UNCHANGED <<grid, input, svId>>
    <2>1. UNCHANGED <<grid, input, svId>> /\ pc' \in {"inverse", "idle"}
      BY <1>11 DEF AccumulateBin
    <2>2. Filled' = Filled
      BY <1>11, <2>1 DEF Filled, m_reuseFactor
    <2> QED
      BY <1>1, <1>11, <2>1, <2>2
  <1>12. ASSUME pc = "inverse"
         PROVE  index \in Nat /\ Slot(index) \in Filled
    BY <1>12, SlotsOfTheGrid DEF SearchTypes, Filled
  <1>13. CASE InverseOnDevice
    <2>1. /\ pc = "inverse" /\ UseSlotOnDevice(codeSpectrum, Slot(index))
          /\ AccumulateBin(DeviceResult(index))
      BY <1>13 DEF InverseOnDevice
    <2>2. SlotsAreOwn' /\ UNCHANGED <<grid, input, svId>>
      BY <1>11, <2>1 DEF UseSlotOnDevice
    <2>3. residentInput' = svId /\ ResidentIsKnown'
      BY <2>1, <2>2, EnsureCode, ResidentStaysKnown DEF UseSlotOnDevice
    <2>4. EngineTypes'
      BY <1>8, <2>1 DEF UseSlotOnDevice, EngineTypes
    <2>5. PoolSlot(Slot(index)) = SpectrumOf(input.data, Slot(index))
      BY <1>12, <2>1 DEF UseSlotOnDevice, SlotsAreOwn, SlotIsOwn, PoolSlot
    <2>6. DeviceResult(index)
            = [spectrum |-> SpectrumOf(input.data, Slot(index)), operand |-> svId]
      BY <2>3, <2>5 DEF DeviceResult
    <2>7. SearchTypes' /\ Progress' /\ ResultsAreOfThisSearch'
      BY <2>1, <2>6, BinDone
    <2> QED
      BY <2>2, <2>3, <2>4, <2>7
  <1>14. CASE InverseOnHost
    <2>1. /\ pc = "inverse" /\ m_slotStates[Slot(index)] = "SlotHost"
          /\ UNCHANGED <<configVars, slotVars, residentVars, clError>>
          /\ AccumulateBin(HostResult(index))
      BY <1>14 DEF InverseOnHost, UseSlotOnHost, engineVars, configVars, slotVars, residentVars
    <2>2. SlotsAreOwn' /\ UNCHANGED <<grid, input, svId>>
      BY <1>11, <2>1
    <2>3. ResidentIsKnown'
      BY <2>1, <2>2, ResidentStaysKnown
    <2>4. EngineTypes'
      BY <1>8, <2>1 DEF EngineTypes
    <2>5. HostResult(index)
            = [spectrum |-> SpectrumOf(input.data, Slot(index)), operand |-> svId]
      BY <1>12, <2>1 DEF SlotsAreOwn, SlotIsOwn, HostResult, codeSpectrum
    <2>6. SearchTypes' /\ Progress' /\ ResultsAreOfThisSearch'
      BY <2>1, <2>5, BinDone
    <2> QED
      BY <2>2, <2>3, <2>4, <2>6
  <1>15. CASE InverseStale
    <2> DEFINE stale == [spectrum |-> StaleMagnitude, operand |-> svId]
    <2>1. /\ pc = "inverse" /\ clError' = TRUE
          /\ UNCHANGED <<configVars, slotVars, residentVars>>
          /\ AccumulateBin(stale)
      BY <1>15 DEF InverseStale, AbsoluteUploadFails
    <2>2. stale.spectrum = StaleMagnitude
      OBVIOUS
    <2> HIDE DEF stale
    <2>3. SlotsAreOwn' /\ UNCHANGED <<grid, input, svId>>
      BY <1>11, <2>1
    <2>4. ResidentIsKnown'
      BY <2>1, <2>3, ResidentStaysKnown
    <2>5. EngineTypes'
      BY <1>8, <2>1
    <2>6. SearchTypes' /\ Progress' /\ ResultsAreOfThisSearch'
      BY <2>1, <2>2, BinDone
    <2> QED
      BY <2>3, <2>4, <2>5, <2>6
  <1>16. CASE InverseFails
    <2>1. pc = "inverse" /\ UseSlotFails(codeSpectrum, Slot(index)) /\ Return
      BY <1>16 DEF InverseFails
    <2>2. ResidentIsKnown'
      BY <2>1, ResidentStaysKnown DEF UseSlotFails, Return
    <2>3. EngineTypes'
      <3>1. clError' \in BOOLEAN
        BY <2>1 DEF UseSlotFails, EngineTypes
      <3> QED
        BY <1>8, <2>1, <3>1 DEF UseSlotFails
    <2> QED
      BY <1>2, <2>1, <2>2, <2>3
  <1>17. CASE UNCHANGED vars
    <2>1. UNCHANGED <<grid, pc, index, input, svId, bins, metrics, configVars, slotVars,
                      residentVars, clError>>
      BY <1>17 DEF vars, engineVars, searchVars, configVars, slotVars, residentVars
    <2>2. EngineTypes' /\ SearchTypes' /\ ResidentIsKnown'
      BY <2>1 DEF EngineTypes, SearchTypes, ResidentIsKnown, configVars, slotVars, residentVars
    <2>3. Progress'
      BY <2>1 DEF Progress, m_reuseFactor, m_numberOfFreqencyBins
    <2>4. SlotsAreOwn'
      BY <2>1 DEF SlotsAreOwn, SlotIsOwn, Filled, m_reuseFactor, slotVars, SpectrumOf
    <2> QED
      BY <2>1, <2>2, <2>3, <2>4, ResultsKept
  <1> QED
    BY <1>3, <1>4, <1>5, <1>6, <1>7, <1>9, <1>10, <1>13, <1>14, <1>15, <1>16, <1>17
    DEF Next, Done


-----------------------------------------------------------------------------
(* A search without errors *)

LEMMA HealthInvInit == Init => HealthInv
  BY DEF Init, HealthInv

LEMMA HealthInvStep ==
    ASSUME PoolFits
    PROVE  SearchInv /\ HealthInv /\ [Next]_vars => HealthInv'
  <1> SUFFICES ASSUME SearchInv, HealthInv, [Next]_vars, Healthy'
               PROVE  /\ pc' # "idle" => \A s \in Filled' : SlotIsReady(s)'
                      /\ pc' = "forwardHost" => device' = "none"
                      /\ pc' = "idle" /\ searches' > 0 => metrics' = "inserted"
    BY DEF HealthInv
  <1>0. EngineTypes /\ SearchTypes /\ ResidentIsKnown /\ SlotsAreOwn /\ Progress
    BY DEF SearchInv
  \* Within a search the engine stays healthy, or was not.
  <1>1. ASSUME UNCHANGED <<configVars>>, ~clError
        PROVE  Healthy
    BY <1>1 DEF Healthy, configVars
  <1>2. ASSUME NEW address \in Buffers, NEW data \in Blocks, NEW sv \in Satellites,
               Start(address, data, sv)
        PROVE  pc' = "forward" /\ Filled' = {}
    BY <1>2 DEF Start, Filled
  <1>3. CASE ForwardOnDevice
    <2>1. pc = "forward" /\ FillSlotOnDevice(input, index) /\ NextReplica
      BY <1>3 DEF ForwardOnDevice
    <2>2. /\ pc' # "idle" /\ pc' # "forwardHost"
          /\ Filled' = Filled \cup {index} /\ index \in SlotIds /\ index \notin Filled
          /\ Filled \subseteq SlotIds
      BY <1>0, <2>1, ReplicaDone DEF NextReplica
    <2>3. /\ strideIsSet' /\ m_slotStates'[index] = "SlotDevice"
          /\ strideIsSet /\ slotPool # 0 =>
                \A s \in SlotIds \ {index} : m_slotStates'[s] = m_slotStates[s]
      BY <1>0, <2>1, <2>2, FillOnDeviceEffect
    <2>4. device # "none" /\ UNCHANGED <<configVars, clError>>
      BY <2>1 DEF FillSlotOnDevice
    <2>5. Healthy
      BY <1>1, <2>4 DEF Healthy
    <2>6. \A s \in Filled : m_slotStates[s] = "SlotDevice" /\ strideIsSet /\ slotPool # 0
      BY <1>0, <2>1, <2>4, <2>5 DEF HealthInv, SlotIsReady, SlotsAreOwn, SlotIsOwn
    <2>7. \A s \in Filled' : m_slotStates'[s] = "SlotDevice"
      BY <2>2, <2>3, <2>6
    <2> QED
      BY <2>2, <2>3, <2>4, <2>7 DEF SlotIsReady, configVars
  <1>4. CASE ForwardDeviceFails
    <2>1. pc = "forward" /\ FillSlotOnDeviceFails(input, index)
      BY <1>4 DEF ForwardDeviceFails
    <2>2. index \in SlotIds
      <3>1. /\ index \in Nat /\ index < m_reuseFactor /\ m_reuseFactor \in Nat
            /\ 0 .. m_reuseFactor - 1 \subseteq SlotIds
        BY <1>0, <2>1, SlotsOfTheGrid DEF SearchTypes, Progress
      <3> QED
        BY <3>1
    <2>3. (lengthIsPowerOfTwo => clError') /\ UNCHANGED lengthIsPowerOfTwo
      BY <1>0, <2>1, <2>2, FillFailsEffect
    <2> QED
      BY <2>3 DEF Healthy
  <1>5. CASE ForwardOnHost
    <2>1. /\ pc \in {"forward", "forwardHost"} /\ OnHost
          /\ FillSlotOnHost(input, index) /\ NextReplica
      BY <1>5 DEF ForwardOnHost, OnHost
    <2>2. /\ pc' # "idle" /\ pc' # "forwardHost" /\ pc # "idle"
          /\ Filled' = Filled \cup {index} /\ index \in SlotIds /\ index \notin Filled
          /\ Filled \subseteq SlotIds
      BY <1>0, <2>1, ReplicaDone DEF NextReplica
    <2>3. /\ UNCHANGED <<configVars, clError>>
          /\ m_slotStates' = [m_slotStates EXCEPT ![index] = "SlotHost"]
      BY <2>1 DEF FillSlotOnHost
    <2>4. Healthy
      BY <1>1, <2>3 DEF Healthy
    <2>5. device = "none" /\ device' = "none"
      BY <2>1, <2>3, <2>4 DEF OnHost, HealthInv, configVars
    <2>6. \A s \in Filled : m_slotStates[s] = "SlotHost"
      BY <2>2, <2>4, <2>5 DEF HealthInv, SlotIsReady
    <2>7. \A s \in Filled' : m_slotStates'[s] = "SlotHost"
      BY <1>0, <2>2, <2>3, <2>6 DEF EngineTypes
    <2> QED
      BY <2>2, <2>5, <2>7 DEF SlotIsReady
  <1>6. CASE ForwardFails
    BY <1>6 DEF ForwardFails, FillSlotFails, Healthy, configVars
  <1>7. CASE CorrelateBatch
    BY <1>7 DEF CorrelateBatch
  \* The slots were ready, and are only read.
  <1>8. ASSUME pc \in {"batch", "inverse"}, pc' \in {"batch", "inverse"},
               UNCHANGED <<grid, configVars, slotVars>>, ~clError
        PROVE  \A s \in Filled' : SlotIsReady(s)'
    <2>1. Healthy /\ Filled' = Filled
      BY <1>1, <1>8 DEF Filled, m_reuseFactor
    <2>2. \A s \in Filled : SlotIsReady(s)
      BY <1>8, <2>1 DEF HealthInv
    <2> QED
      BY <1>8, <2>1, <2>2 DEF SlotIsReady, configVars, slotVars
  <1>9. CASE CorrelateBatchFails
    <2>1. /\ pc = "batch" /\ pc' = "inverse" /\ UNCHANGED <<grid, configVars, slotVars>>
          /\ clError => clError'
      BY <1>9 DEF CorrelateBatchFails, BatchFails
    <2> QED
      BY <1>8, <2>1 DEF Healthy
  <1>10. ASSUME NEW result, pc = "inverse", AccumulateBin(result),
                UNCHANGED <<configVars, slotVars>>, clError => clError'
         PROVE  /\ pc' # "idle" => \A s \in Filled' : SlotIsReady(s)'
                /\ pc' # "forwardHost"
                /\ pc' = "idle" => metrics' = "inserted"
    <2>1. \/ pc' = "idle" /\ metrics' = "inserted"
          \/ pc' = "inverse"
      BY <1>10 DEF AccumulateBin
    <2>2. UNCHANGED grid
      BY <1>10 DEF AccumulateBin
    <2> QED
      BY <1>8, <1>10, <2>1, <2>2 DEF Healthy
  <1>11. CASE InverseOnDevice
    BY <1>10, <1>11 DEF InverseOnDevice, UseSlotOnDevice
  <1>12. CASE InverseOnHost
    <2>1. UNCHANGED <<configVars, slotVars, clError>>
      BY <1>12 DEF InverseOnHost, UseSlotOnHost, engineVars, configVars, slotVars
    <2> QED
      BY <1>10, <1>12, <2>1 DEF InverseOnHost
  <1>13. CASE InverseStale
    <2>1. clError'
      BY <1>13 DEF InverseStale, AbsoluteUploadFails
    <2> QED
      BY <2>1 DEF Healthy
  <1>14. CASE InverseFails
    <2>1. /\ pc = "inverse" /\ UseSlotFails(codeSpectrum, Slot(index))
      BY <1>14 DEF InverseFails
    <2>2. m_slotStates[Slot(index)] = "SlotInvalid" /\ UNCHANGED <<configVars, clError>>
      BY <2>1 DEF UseSlotFails, Healthy
    <2>3. Healthy
      BY <1>1, <2>2 DEF Healthy
    <2>4. Slot(index) \in Filled
      BY <1>0, <2>1, SlotsOfTheGrid DEF SearchTypes, Filled
    <2>5. SlotIsReady(Slot(index))
      BY <2>1, <2>3, <2>4 DEF HealthInv
    <2> QED
      BY <2>2, <2>5 DEF SlotIsReady
  <1>15. CASE UNCHANGED vars
    <2>1. UNCHANGED <<grid, pc, index, metrics, searches, configVars, slotVars, clError>>
      BY <1>15 DEF vars, engineVars, searchVars, configVars, slotVars
    <2>2. Healthy /\ Filled' = Filled
      BY <1>1, <2>1 DEF Healthy, Filled, m_reuseFactor
    <2> QED
      BY <2>1, <2>2 DEF HealthInv, SlotIsReady, configVars, slotVars
  <1> QED
    BY <1>2, <1>3, <1>4, <1>5, <1>6, <1>7, <1>9, <1>11, <1>12, <1>13, <1>14, <1>15
    DEF Next, Done

-----------------------------------------------------------------------------
(* Results *)

\* While the slots of a search fit the first pool, the engine and the search agree
\* in every state on what the resident operand and every valid slot hold, and
\* correlate knows how far it is.
THEOREM SearchInvariant ==
    ASSUME PoolFits
    PROVE  Spec => []SearchInv
  <1>1. Init => SearchInv
    BY SearchInvInit
  <1>2. SearchInv /\ [Next]_vars => SearchInv'
    BY SearchInvStep
  <1> QED
    BY <1>1, <1>2, PTL DEF Spec

\* Whatever OpenCL call fails, and whether a bin was correlated in the batch, one
\* by one or on the host, nothing of an earlier search or of a lost buffer reaches
\* the metrics that correlate inserts, except a magnitude that absolute did not
\* upload; and metrics stand for all bins.
THEOREM NoForeignResults ==
    ASSUME PoolFits
    PROVE  Spec => []ResultsAreOfThisSearch
  <1>1. SearchInv => ResultsAreOfThisSearch
    BY DEF SearchInv
  <1> QED
    BY <1>1, SearchInvariant, PTL

\* A search during which no OpenCL call fails ends with metrics, on a machine
\* without a device as on one with all kernels: correlate never gives up for a
\* reason of its own.
THEOREM HealthySearchesEndWithMetrics ==
    ASSUME PoolFits
    PROVE  Spec => []HealthySearchCompletes
  <1>1. Init => HealthInv
    BY HealthInvInit
  <1>2. SearchInv /\ HealthInv /\ [Next]_vars => HealthInv'
    BY HealthInvStep
  <1>3. HealthInv => HealthySearchCompletes
    BY DEF HealthInv, Healthy, HealthySearchCompletes
  <1> QED
    BY <1>1, <1>2, <1>3, SearchInvariant, PTL DEF Spec
=============================================================================
