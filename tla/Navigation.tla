----------------------------- MODULE Navigation -----------------------------
(***************************************************************************)
(* Application::computeNavigationSolution: the measurements of one epoch   *)
(* (module MeasurementAssembler) and PVTSolver::solvePosition.             *)
(*                                                                         *)
(* Least squares is abstracted to what it decides.  More than four rows    *)
(* leave a residual below the gate exactly when their ranges agree: a      *)
(* common error is a clock bias, and a fault is far above the gate of      *)
(* 30 m.  Four rows are fitted exactly, unless no position could give such *)
(* ranges.  Which satellite has the largest residual depends on the        *)
(* geometry and is left open.                                              *)
(***************************************************************************)
EXTENDS MeasurementAssembler, Functions, SequencesExt

CONSTANTS SatelliteCount, MinSatellites,
          Low,            \* satellites truly below the elevation mask
          Degenerate,     \* sets of satellites whose normal matrix is singular
          DisplacedSets, HiddenSets, \* what a wrong position does, see Places
          MaxSpread,      \* ticks between ranges that some position explains
          MaxFaults       \* bound: channels that are not healthy in an epoch

ASSUME NavigationAssumption ==
    /\ SatelliteCount \in Nat /\ MinSatellites \in Nat /\ MinSatellites >= 4
    /\ Low \subseteq 1 .. SatelliteCount
    /\ DisplacedSets \cup HiddenSets \cup Degenerate
          \subseteq SUBSET (1 .. SatelliteCount)
    /\ MaxSpread \in Nat /\ MaxFaults \in Nat

VARIABLES m_referenceEcef, m_hasValidFix,
          channels,       \* what the channels report in this epoch
          pc,             \* "block", "solve" or "publish"
          orbits, correctedRanges, usedTransmitTimes,  \* rows of the solve
          rejected        \* history: how many rows the residual gate removed

rowVars == <<orbits, correctedRanges, usedTransmitTimes>>
vars == <<m_referenceEcef, m_hasValidFix, channels, pc, rowVars, rejected>>

Satellites == 1 .. SatelliteCount

\* A position, by how it makes the satellites look: the implied arrivals of the
\* displaced ones are one code period off, the hidden ones are below the mask.
TruePlace == [right |-> TRUE, displaced |-> {}, hidden |-> Low]
Places == {TruePlace} \cup
    [right : {FALSE}, displaced : DisplacedSets, hidden : HiddenSets]

Newest == Now \div SubframePeriods - 1  \* the last complete subframe
Healthy == Decoded(Newest, 0, 0)

\* A channel decoded the newest subframe, with the right bit edge, with one a
\* block late, or with a code phase that is off; or it missed the last subframe,
\* or the last two; or it lost lock.
Observations ==
    {Healthy, Decoded(Newest, 1, 0), Decoded(Newest, 0, 3),
     Decoded(Newest - 1, 0, 0), Decoded(Newest - 2, 0, 0),
     [Healthy EXCEPT !.confirmed = FALSE]}

Init ==
    /\ m_referenceEcef = TruePlace  \* the seed; not used before a fix
    /\ m_hasValidFix = FALSE
    /\ channels = [i \in Satellites |-> Healthy]
    /\ pc = "block"
    /\ orbits = <<>> /\ correctedRanges = <<>> /\ usedTransmitTimes = <<>>
    /\ rejected = 0

\* computeNavigationSolution returns; everything but the solver is local to it.
Return ==
    /\ pc' = "block"
    /\ channels' = [i \in Satellites |-> Healthy]
    /\ orbits' = <<>> /\ correctedRanges' = <<>> /\ usedTransmitTimes' = <<>>
    /\ rejected' = 0

-----------------------------------------------------------------------------
(* assemble *)

\* The members of a finite set of numbers, smallest first: what a loop over
\* increasing indices collects.
InOrder(S) ==
    [k \in 1 .. Cardinality(S) |->
        CHOOSE x \in S : Cardinality({y \in S : y <= x}) = k]

Prns(ch) == InOrder({i \in Satellites : Contributes(ch[i])})

TransmitTimes(ch) ==
    LET prns == Prns(ch)
        raw == [i \in DOMAIN prns |-> ComputeTransmitTime(ch[prns[i]])]
        arrivals == [i \in DOMAIN prns |->
                        IF prns[i] \in m_referenceEcef.displaced
                        THEN raw[i] + Ticks ELSE raw[i]]
    IN  IF m_hasValidFix THEN SnapTransmitTimesToMedianArrival(raw, arrivals)
        ELSE raw

AssembleFails(ch) ==
    /\ Len(Prns(ch)) < 4
    /\ UNCHANGED vars

-----------------------------------------------------------------------------
(* solvePosition *)

Masked == IF m_hasValidFix THEN m_referenceEcef.hidden ELSE {}

\* The rows above the elevation mask; each is moved to the next free place.
Kept(prns) == InOrder({i \in DOMAIN prns : prns[i] \notin Masked})

Compacted(s, kept) == [k \in DOMAIN kept |-> s[kept[k]]]

Rows(prns, s) == [i \in DOMAIN prns |-> [of |-> prns[i], value |-> s[i]]]

TooFew(ch) ==
    /\ Len(Prns(ch)) >= 4
    /\ \/ Len(Prns(ch)) < MinSatellites
       \/ Len(Kept(Prns(ch))) < MinSatellites
    /\ UNCHANGED vars

\* Mutant: the mask forgets the transmit times
MutMasksTwoRows(ch) ==
    \E prns \in {Prns(ch)}, times \in {TransmitTimes(ch)} :
    \E kept \in {Kept(prns)}, ranges \in {Pseudoranges(times)} :
        /\ Len(prns) >= 4 /\ Len(kept) >= MinSatellites
        /\ channels' = ch
        /\ orbits' = Compacted(prns, kept)
        /\ correctedRanges' = Compacted(Rows(prns, ranges), kept)
        /\ usedTransmitTimes' = SubSeq(Rows(prns, times), 1, Len(kept))
        /\ pc' = "solve"
        /\ UNCHANGED <<m_referenceEcef, m_hasValidFix, rejected>>

\* The measurements are assembled; orbits and ranges of all satellites, then
\* the elevation mask compacts the three vectors.  (Each vector is bound once:
\* TLC would expand a definition again at every use under ENABLED.)
StartSolve(ch) ==
    \E prns \in {Prns(ch)}, times \in {TransmitTimes(ch)} :
    \E kept \in {Kept(prns)}, ranges \in {Pseudoranges(times)} :
        /\ Len(prns) >= 4 /\ Len(prns) >= MinSatellites
        /\ Len(kept) >= MinSatellites
        /\ channels' = ch
        /\ orbits' = Compacted(prns, kept)
        /\ correctedRanges' = Compacted(Rows(prns, ranges), kept)
        /\ usedTransmitTimes' = Compacted(Rows(prns, times), kept)
        /\ pc' = "solve"
        /\ UNCHANGED <<m_referenceEcef, m_hasValidFix, rejected>>

RangesAgree ==
    \A i, j \in DOMAIN orbits :
        /\ correctedRanges[i].of = orbits[i]
        /\ correctedRanges[i].value = correctedRanges[j].value

IsSingular == Range(orbits) \in Degenerate

\* A pivot below 1e-12
Singular ==
    /\ pc = "solve" /\ IsSingular
    /\ Return /\ UNCHANGED <<m_referenceEcef, m_hasValidFix>>

\* Ranges farther apart than the satellites are have no fit.
HasFit ==
    \A i, j \in DOMAIN usedTransmitTimes :
        Magnitude(usedTransmitTimes[i].value - usedTransmitTimes[j].value)
            <= MaxSpread

\* The residual of the converged solution passes the gate.
Converged ==
    /\ pc = "solve" /\ ~IsSingular
    /\ (Len(orbits) = 4 /\ HasFit) \/ RangesAgree
    /\ m_referenceEcef' \in {p \in Places : p.right = RangesAgree}
    /\ m_hasValidFix' = TRUE
    /\ pc' = "publish"
    /\ UNCHANGED <<channels, rowVars, rejected>>

\* Mutant: one satellite above the minimum is enough to reject one
MutMayReject == Len(orbits) >= MinSatellites + 1

MayReject == Len(orbits) >= MinSatellites + 2

\* Mutant: nothing is erased
MutRejectsNothing(worst) ==
    /\ pc = "solve" /\ ~IsSingular /\ ~RangesAgree /\ MayReject
    /\ UNCHANGED vars

\* Too large a residual, or 15 iterations without convergence: the satellite
\* with the largest residual is erased from all three vectors.
RejectWorst(worst) ==
    /\ pc = "solve" /\ ~IsSingular
    /\ ~RangesAgree
    /\ MayReject
    /\ orbits' = RemoveAt(orbits, worst)
    /\ correctedRanges' = RemoveAt(correctedRanges, worst)
    /\ usedTransmitTimes' = RemoveAt(usedTransmitTimes, worst)
    /\ rejected' = rejected + 1
    /\ UNCHANGED <<m_referenceEcef, m_hasValidFix, channels, pc>>

\* The same, with too few satellites to tell which one is wrong
GiveUp ==
    /\ pc = "solve" /\ ~IsSingular
    /\ ~RangesAgree
    /\ ~MayReject
    /\ Return /\ UNCHANGED <<m_referenceEcef, m_hasValidFix>>

\* The fix goes to the console, the telemetry file and the sink.
Publish == pc = "publish" /\ Return /\ UNCHANGED <<m_referenceEcef, m_hasValidFix>>

-----------------------------------------------------------------------------
Solve ==
    \/ Singular \/ Converged \/ GiveUp \/ Publish
    \/ \E worst \in DOMAIN orbits : RejectWorst(worst)

ComputeNavigationSolution ==
    /\ pc = "block"
    /\ \E ch \in [Satellites -> Observations] :
          /\ Cardinality({i \in Satellites : ch[i] # Healthy}) <= MaxFaults
          /\ AssembleFails(ch) \/ TooFew(ch) \/ StartSolve(ch)

Next == Solve \/ ComputeNavigationSolution

Spec == Init /\ [][Next]_vars

\* The consumer thread keeps running.
FairSpec == Spec /\ WF_vars(Solve)

\* And epochs in which every channel reports a true measurement keep coming.
RecoverySpec ==
    FairSpec /\ WF_vars(pc = "block" /\ StartSolve([i \in Satellites |-> Healthy]))

-----------------------------------------------------------------------------
\* Row i of the solve is about one satellite, whatever the mask and the gate
\* removed: solvePosition keeps three vectors in step by hand.  Atmospheric
\* delays computed at another satellite's time would stay below the gate.
RowsAligned ==
    /\ Len(correctedRanges) = Len(orbits)
    /\ Len(usedTransmitTimes) = Len(orbits)
    /\ \A i \in DOMAIN orbits :
          correctedRanges[i].of = orbits[i] /\ usedTransmitTimes[i].of = orbits[i]

\* "One faulted measurement cannot poison the fix" (solvePosition), as far as it
\* goes: a published fix rests on ranges that agree, unless there were only four
\* satellites to begin with; rejection never goes down to an exact fit.
FixIsSound ==
    pc = "publish" => RangesAgree \/ (Len(orbits) = 4 /\ rejected = 0)

\* "Snaps such outliers onto the median cluster": with a right reference and
\* more than half of the satellites in one cluster, a satellite that a whole
\* code period, one way or the other, brings to within a quarter of a period of
\* that cluster is moved by this period, and no other satellite is moved.
SnapRepairsEdges ==
    LET prns == Prns(channels)
        Raw(p) == ComputeTransmitTime(channels[p])
        Cluster(v) == {p \in Range(prns) : Raw(p) = v}
    IN  pc = "solve" /\ rejected = 0 /\ m_hasValidFix /\ m_referenceEcef.right =>
            \A v \in {Raw(p) : p \in Range(prns)} :
                2 * Cardinality(Cluster(v)) > Len(prns) =>
                    \A i \in DOMAIN usedTransmitTimes :
                        LET t == usedTransmitTimes[i]
                            Near(time) == 4 * Magnitude(time - v) < Ticks
                            edges == {e \in {-Ticks, Ticks} : Near(Raw(t.of) + e)}
                        IN  IF edges = {} THEN t.value = Raw(t.of)
                            ELSE \E e \in edges : t.value = Raw(t.of) + e

\* solvePosition returns: its loop has no bound but the satellites it rejects.
SolveReturns == pc = "solve" ~> pc # "solve"

\* "One faulted measurement cannot poison the fix": once all channels report
\* true measurements for good, the receiver finds its position again.
FixRecovers ==
    <>[](\A i \in Satellites : channels[i] = Healthy) => <>[](m_referenceEcef.right)
=============================================================================
