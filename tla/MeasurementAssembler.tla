------------------------ MODULE MeasurementAssembler ------------------------
(***************************************************************************)
(* Pvt/GPSOpenClMeasurementAssembler: from the channels to one measurement *)
(* per usable satellite.                                                   *)
(*                                                                         *)
(* Times are whole numbers of ticks, Ticks of which make one code period.  *)
(* The true transit times of the satellites cancel in everything the       *)
(* assembler and the solver compare, so they are taken as zero: a channel  *)
(* without fault reports the transmit time Now * Ticks.                    *)
(***************************************************************************)
EXTENDS Integers, Sequences, FiniteSets

CONSTANTS Ticks,            \* time resolution: ticks per code period
          SubframePeriods,  \* code periods per subframe (6000)
          WeekSubframes,    \* subframes per week (100800)
          MaxAnchorPeriods, \* 15 s in code periods
          Now               \* code periods since the start of the week

ASSUME AssemblerAssumption ==
    /\ Ticks \in Nat \ {0} /\ Ticks % 4 = 0
    /\ SubframePeriods \in Nat \ {0} /\ WeekSubframes \in Nat \ {0}
    /\ MaxAnchorPeriods \in Nat /\ Now \in Nat

Magnitude(n) == IF n < 0 THEN -n ELSE n

\* What a channel that decoded subframe k of the week reports: the time of week
\* in its hand-over word is that of the next subframe.  "edge" is the error of
\* the bit edge in whole code periods, "phase" that of the code phase in ticks.
Decoded(k, edge, phase) ==
    [confirmed |-> TRUE, complete |-> TRUE,
     promptCount |-> Now, startSample |-> k * SubframePeriods + edge,
     tow |-> ((k + 1) % WeekSubframes) * SubframePeriods,
     chips |-> Ticks + phase]

-----------------------------------------------------------------------------
ComputeTransmitTime(c) ==
    LET startTow == c.tow - SubframePeriods
        elapsed == c.promptCount - c.startSample
    IN  (startTow + elapsed) * Ticks + (c.chips - Ticks)

Contributes(c) ==
    /\ c.confirmed /\ c.complete
    /\ c.startSample <= c.promptCount
    /\ c.promptCount - c.startSample <= MaxAnchorPeriods

\* Element size / 2 of the sorted arrivals
Median(arrivals) ==
    LET n == Len(arrivals)
        Below(v) == {i \in 1 .. n : arrivals[i] < v}
        UpTo(v) == {i \in 1 .. n : arrivals[i] <= v}
    IN  CHOOSE v \in {arrivals[i] : i \in 1 .. n} :
            Cardinality(Below(v)) <= n \div 2 /\ n \div 2 < Cardinality(UpTo(v))

\* std::round: halves away from zero
Round(t) ==
    LET periods == (2 * Magnitude(t) + Ticks) \div (2 * Ticks)
    IN  IF t < 0 THEN -periods ELSE periods

\* Mutant: an offset of any fraction is taken for a whole period
MutNoGuardBand(transmitTimes, arrivals) ==
    LET median == Median(arrivals) IN
    [i \in DOMAIN transmitTimes |->
        LET offset == median - arrivals[i]
        IN  IF Magnitude(Round(offset)) <= 1
            THEN transmitTimes[i] + Round(offset) * Ticks
            ELSE transmitTimes[i]]

\* An arrival one code period beside the median, within a quarter period, is
\* moved to it.
SnapTransmitTimesToMedianArrival(transmitTimes, arrivals) ==
    LET median == Median(arrivals) IN
    [i \in DOMAIN transmitTimes |->
        LET offset == median - arrivals[i]
            whole == Round(offset)
        IN  IF /\ whole # 0 /\ Magnitude(whole) <= 1
               /\ 4 * Magnitude(offset - whole * Ticks) < Ticks
            THEN transmitTimes[i] + whole * Ticks
            ELSE transmitTimes[i]]

\* The sum of a sequence, as a fold from the left
SumOf(s) ==
    LET sum[n \in 0 .. Len(s)] == IF n = 0 THEN 0 ELSE sum[n - 1] + s[n]
    IN  sum[Len(s)]

\* Receiver time minus transmit time, the receiver time being the average; in
\* units of a tick divided by the number of satellites.
Pseudoranges(transmitTimes) ==
    LET total == SumOf(transmitTimes)
    IN  [i \in DOMAIN transmitTimes |->
            total - Len(transmitTimes) * transmitTimes[i]]
=============================================================================
