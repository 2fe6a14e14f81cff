---------------------------- MODULE ChannelProofs ----------------------------
(***************************************************************************)
(* Proofs about module Channel, for any bit period and subframe length,    *)
(* any thresholds of the compaction and of the debounce counters.          *)
(*                                                                         *)
(* The heart is CompactionIsSound: what compactNavigationHistory drops is  *)
(* a whole number of bits, less than every position that points into the   *)
(* history, so that the rewritten positions are natural numbers again, at  *)
(* the same distance from the newest sample.  Only the last theorem, about *)
(* the length of the histories, needs the thresholds to leave room for a   *)
(* subframe: WindowFits.                                                   *)
(***************************************************************************)
EXTENDS Channel, WellFoundedInduction, TLAPS

\* Shape of an accumulated ephemeris and of the navigation state
Ephemerides == [seen : SUBSET Accumulated, iod : [Accumulated -> Nat]]

SearchVectors == [1 .. BitPeriod -> Nat]

NavStates ==
    [promptHistory : Nat, codePhaseHistory : Nat, cumulativeDriftHistory : Nat,
     bitSyncPhase : Phases \cup {NoSync},
     bitSyncSearchPositions : {<<>>} \cup SearchVectors,
     navBitOffset : Nat, lastSubframeStartSample : Nat]

Truths == [anchorAge : Nat, unread : Int, compacted : BOOLEAN]

-----------------------------------------------------------------------------
(* Ephemeris *)

\* Every subframe that counts as seen has this issue of data.
AllOfIssue(e, i) == \A s \in e.seen : IssueOfData(e, s) = i

LEMMA ResidueOnce ==
    ASSUME NEW i \in Nat PROVE i % 256 \in Nat /\ (i % 256) % 256 = i % 256
  OBVIOUS

\* mergeSubframe keeps the shape, and leaves subframes of one issue only.
LEMMA MergeIsConsistent ==
    ASSUME NEW e \in Ephemerides, NEW id \in Accumulated, NEW iodc \in Nat
    PROVE  LET m == MergeSubframe(Subframe(id, iodc), e)
           IN  /\ m \in Ephemerides
               /\ id \in m.seen
               /\ AllOfIssue(m, iodc % 256)
               /\ AllOfIssue(e, iodc % 256) => e.seen \subseteq m.seen
  <1> DEFINE d == Subframe(id, iodc)
             stored == [e EXCEPT !.seen = @ \cup {d.id}, !.iod[d.id] = d.iod]
             m == MergeSubframe(d, e)
  <1>1. d.id = id /\ d.iod \in Nat /\ d.iod % 256 = iodc % 256
    BY ResidueOnce DEF Subframe
  <1>2. /\ stored \in Ephemerides
        /\ stored.seen = e.seen \cup {id}
        /\ stored.iod = [e.iod EXCEPT ![id] = d.iod]
    BY <1>1 DEF Ephemerides
  <1>3. IssueOfData(stored, id) = iodc % 256
    BY <1>1, <1>2 DEF IssueOfData, Ephemerides
  <1>4. m = [stored EXCEPT !.seen = {s \in @ : IssueOfData(stored, s) = iodc % 256}]
    BY <1>1, <1>3 DEF MergeSubframe
  <1> HIDE DEF d, stored, m
  <1>5. /\ m \in Ephemerides
        /\ m.seen = {s \in e.seen \cup {id} : IssueOfData(stored, s) = iodc % 256}
        /\ m.iod = stored.iod
    BY <1>2, <1>4 DEF Ephemerides
  <1>6. id \in m.seen /\ AllOfIssue(m, iodc % 256)
    BY <1>3, <1>5 DEF AllOfIssue, IssueOfData
  <1>7. ASSUME AllOfIssue(e, iodc % 256) PROVE e.seen \subseteq m.seen
    <2>1. ASSUME NEW s \in e.seen PROVE IssueOfData(stored, s) = iodc % 256
      <3>1. CASE s = id
        BY <3>1, <1>3
      <3>2. CASE s # id
        BY <3>2, <1>2, <1>7 DEF AllOfIssue, IssueOfData, Ephemerides
      <3> QED
        BY <3>1, <3>2
    <2> QED
      BY <2>1, <1>5
  <1> QED
    BY <1>5, <1>6, <1>7 DEF m, d

\* Three subframes of one data set, in any order, complete any ephemeris.
LEMMA ThreeSubframesComplete ==
    ASSUME NEW e \in Ephemerides, NEW iodc \in Nat,
           NEW a \in Accumulated, NEW b \in Accumulated, NEW c \in Accumulated,
           {a, b, c} = Accumulated
    PROVE  HasCompleteEphemeris(
              MergeSubframe(Subframe(c, iodc),
                 MergeSubframe(Subframe(b, iodc),
                    MergeSubframe(Subframe(a, iodc), e))))
  <1> DEFINE x == MergeSubframe(Subframe(a, iodc), e)
             y == MergeSubframe(Subframe(b, iodc), x)
             z == MergeSubframe(Subframe(c, iodc), y)
  <1>1. x \in Ephemerides /\ a \in x.seen /\ AllOfIssue(x, iodc % 256)
    BY MergeIsConsistent
  <1> HIDE DEF x
  <1>2. y \in Ephemerides /\ {a, b} \subseteq y.seen /\ AllOfIssue(y, iodc % 256)
    BY <1>1, MergeIsConsistent, ZenonT(60)
  <1> HIDE DEF y
  <1>3. z \in Ephemerides /\ {a, b, c} \subseteq z.seen
    BY <1>2, MergeIsConsistent, ZenonT(60)
  <1> HIDE DEF z
  <1>4. z.seen = Accumulated
    BY <1>3 DEF Ephemerides
  <1> QED
    BY <1>4 DEF x, y, z, HasCompleteEphemeris

\* What any subframe the decoder may deliver does to the ephemeris
LEMMA MergeKeepsEphemeris ==
    ASSUME NEW e \in Ephemerides, NEW d \in Subframes,
           \A s, t \in e.seen : IssueOfData(e, s) = IssueOfData(e, t)
    PROVE  LET m == MergeSubframe(d, e)
           IN  /\ m \in Ephemerides
               /\ \A s, t \in m.seen : IssueOfData(m, s) = IssueOfData(m, t)
  <1>1. PICK id \in 1 .. 5, iodc \in Iodcs : d = Subframe(id, iodc)
    BY DEF Subframes
  <1>2. iodc \in Nat
    BY IodcAssumption
  <1>3. CASE id \in Accumulated
    BY <1>1, <1>2, <1>3, MergeIsConsistent DEF AllOfIssue
  <1>4. CASE id \notin Accumulated
    BY <1>1, <1>4 DEF MergeSubframe, Subframe
  <1> QED
    BY <1>3, <1>4

-----------------------------------------------------------------------------
(* Arithmetic of whole bits *)

LEMMA WholeBits ==
    ASSUME NEW q \in Int, NEW b \in Nat \ {0} PROVE (q * b) \div b = q
  OBVIOUS

LEMMA BitsBelow ==
    ASSUME NEW a \in Nat, NEW b \in Nat \ {0}
    PROVE  /\ a \div b \in Nat
           /\ (a \div b) * b <= a
           /\ \A k \in Int : a <= k * b => a \div b <= k
  OBVIOUS

LEMMA MoreBits ==
    ASSUME NEW a \in Int, NEW k \in Int, NEW j \in Int, NEW b \in Int
    PROVE  /\ a + (k + j) * b = (a + k * b) + j * b
           /\ a + k * b \in Int
  OBVIOUS

LEMMA LeastElement ==
    ASSUME NEW S \in SUBSET Nat, S # {}
    PROVE  Min(S) \in S /\ \A y \in S : Min(S) <= y
  <1> DEFINE Less == {p \in Nat \X Nat : p[1] < p[2]}
  <1>1. IsWellFoundedOn(Less, Nat)
    BY NatLessThanWellFounded, Zenon DEF OpToRel
  <1>2. PICK x \in S : \A y \in S : <<y, x>> \notin Less
    BY <1>1, WFMin
  <1>3. ASSUME NEW y \in S PROVE x <= y
    <2>1. x \in Nat /\ y \in Nat /\ <<y, x>> \notin Less
      BY <1>2
    <2>2. ~(y < x)
      BY <2>1
    <2> QED
      BY <2>1, <2>2
  <1> QED
    BY <1>3 DEF Min

-----------------------------------------------------------------------------
(* Compaction *)

Aligned(n) ==
    /\ n.codePhaseHistory = n.promptHistory
    /\ n.cumulativeDriftHistory = n.promptHistory

\* LookBackIsKept as a fact about the navigation state; while searching it also
\* says that the search has begun.
HasLookBack(n) ==
    IF n.bitSyncPhase >= 0 THEN n.navBitOffset >= 2
    ELSE /\ n.bitSyncSearchPositions \in SearchVectors
         /\ \A p \in 1 .. BitPeriod : n.bitSyncSearchPositions[p] >= 2

\* Synced: the drop ends two bits before the anchor and the read position.
LEMMA SyncedDrop ==
    ASSUME NEW n \in NavStates, n.bitSyncPhase >= 0
    PROVE  LET drop == DropSamples(n)
               bits == drop \div BitPeriod
           IN  /\ drop \in Nat /\ bits \in Nat /\ drop = bits * BitPeriod
               /\ drop > 0 => /\ drop <= n.lastSubframeStartSample
                              /\ bits + 2 <= n.navBitOffset
  <1> DEFINE anchor == Min({n.lastSubframeStartSample, ReadSample(n)})
             margin == n.bitSyncPhase + 2 * BitPeriod
             q == (anchor - margin) \div BitPeriod
             drop == DropSamples(n)
  <1>1. /\ n.bitSyncPhase \in Nat /\ n.lastSubframeStartSample \in Nat
        /\ n.navBitOffset \in Nat /\ n.promptHistory \in Nat
        /\ BitPeriod \in Nat \ {0} /\ CompactThreshold \in Nat
    BY ChannelAssumption DEF NavStates, Phases, NoSync
  <1>2. ReadSample(n) \in Nat
    BY <1>1 DEF ReadSample
  <1>3. /\ anchor \in Nat
        /\ anchor <= n.lastSubframeStartSample
        /\ anchor <= ReadSample(n)
    <2>1. {n.lastSubframeStartSample, ReadSample(n)} \in SUBSET Nat
      BY <1>1, <1>2
    <2> QED
      BY <2>1, LeastElement
  <1>4. margin \in Nat
    BY <1>1
  <1>5. \/ drop = 0
        \/ anchor > margin /\ drop = q * BitPeriod
    BY <1>1 DEF DropSamples
  <1>6. CASE drop = 0
    BY <1>1, <1>6
  <1>7. CASE anchor > margin /\ drop = q * BitPeriod
    <2> HIDE DEF anchor, drop
    <2>1. /\ anchor - margin \in Nat
          /\ anchor - margin <= (n.navBitOffset - 2) * BitPeriod
      <3>1. ReadSample(n) - margin = (n.navBitOffset - 2) * BitPeriod
        BY <1>1 DEF ReadSample
      <3> QED
        BY <1>2, <1>3, <1>4, <1>7, <3>1
    <2> HIDE DEF margin
    <2>2. /\ q \in Nat /\ q * BitPeriod <= anchor - margin
          /\ q <= n.navBitOffset - 2
      <3> DEFINE a == anchor - margin
                 k == n.navBitOffset - 2
      <3>1. a \in Nat /\ k \in Int /\ a <= k * BitPeriod
        BY <1>1, <2>1
      <3> HIDE DEF a, k
      <3>2. /\ a \div BitPeriod \in Nat
            /\ (a \div BitPeriod) * BitPeriod <= a
            /\ a \div BitPeriod <= k
        BY <1>1, <3>1, BitsBelow
      <3> QED
        BY <3>2 DEF a, k
    <2> HIDE DEF q
    <2>3. drop \in Nat /\ drop \div BitPeriod = q
      BY <1>1, <1>7, <2>2, WholeBits
    <2> QED
      BY <1>1, <1>3, <1>4, <1>7, <2>2, <2>3 DEF drop
  <1> QED
    BY <1>5, <1>6, <1>7

\* Searching: the drop ends two bits before the slowest candidate.
LEMMA SearchDrop ==
    ASSUME NEW n \in NavStates, n.bitSyncPhase = NoSync
    PROVE  LET drop == DropSamples(n)
               bits == drop \div BitPeriod
           IN  /\ drop \in Nat /\ bits \in Nat /\ drop = bits * BitPeriod
               /\ drop > 0 =>
                     /\ n.bitSyncSearchPositions \in SearchVectors
                     /\ \A p \in 1 .. BitPeriod :
                           bits + 2 <= n.bitSyncSearchPositions[p]
  <1> DEFINE f == n.bitSyncSearchPositions
             S == {f[p] : p \in DOMAIN f}
             least == Min(S)
             drop == DropSamples(n)
  <1>1. BitPeriod \in Nat \ {0} /\ ~(n.bitSyncPhase >= 0)
    BY ChannelAssumption DEF NoSync
  <1>2. \/ drop = 0
        \/ f # <<>> /\ least > 2 /\ drop = (least - 2) * BitPeriod
    BY <1>1 DEF DropSamples
  <1>3. CASE drop = 0
    BY <1>1, <1>3
  <1>4. CASE f # <<>> /\ least > 2 /\ drop = (least - 2) * BitPeriod
    <2>1. f \in SearchVectors
      BY <1>4 DEF NavStates
    <2>2. S \in SUBSET Nat /\ f[1] \in S /\ \A p \in 1 .. BitPeriod : f[p] \in S
      BY <1>1, <2>1 DEF SearchVectors
    <2> HIDE DEF S, f
    <2>3. least \in Nat /\ \A p \in 1 .. BitPeriod : least <= f[p]
      BY <2>2, LeastElement
    <2> HIDE DEF least, drop
    <2>4. drop \in Nat /\ drop \div BitPeriod = least - 2
      BY <1>1, <1>4, <2>3, WholeBits
    <2>5. \A p \in 1 .. BitPeriod : f[p] \in Nat /\ (least - 2) + 2 <= f[p]
      BY <2>1, <2>3 DEF SearchVectors
    <2> QED
      BY <1>1, <1>4, <2>1, <2>3, <2>4, <2>5 DEF drop, f
  <1> QED
    BY <1>2, <1>3, <1>4

\* compactNavigationHistory keeps the shape, the alignment, the phase and, once
\* synced, the distance of both positions to the newest sample.
LEMMA CompactionIsSound ==
    ASSUME NEW n \in NavStates, Aligned(n)
    PROVE  LET m == CompactNavigationHistory(n)
           IN  /\ m \in NavStates /\ Aligned(m)
               /\ m.bitSyncPhase = n.bitSyncPhase
               /\ n.bitSyncPhase >= 0 =>
                     /\ m.promptHistory - m.lastSubframeStartSample
                          = n.promptHistory - n.lastSubframeStartSample
                     /\ m.promptHistory - ReadSample(m)
                          = n.promptHistory - ReadSample(n)
               /\ HasLookBack(n) \/ Compacts(n) => HasLookBack(m)
  <1> DEFINE drop == DropSamples(n)
             bits == drop \div BitPeriod
             synced == n.bitSyncPhase >= 0
             m == CompactNavigationHistory(n)
             rebased == [p \in DOMAIN n.bitSyncSearchPositions |->
                            IF n.bitSyncSearchPositions[p] > bits
                            THEN n.bitSyncSearchPositions[p] - bits ELSE 0]
  <1>1. CASE drop < CompactMinDrop \/ drop > n.promptHistory
    <2>1. m = n
      BY <1>1 DEF CompactNavigationHistory
    <2>2. ~Compacts(n)
      BY <2>1 DEF Compacts, NavStates
    <2> QED
      BY <2>1, <2>2
  <1>2. CASE ~(drop < CompactMinDrop \/ drop > n.promptHistory)
    <2>1. m = [n EXCEPT !.promptHistory = n.promptHistory - drop,
                        !.codePhaseHistory = n.codePhaseHistory - drop,
                        !.cumulativeDriftHistory = n.cumulativeDriftHistory - drop,
                        !.lastSubframeStartSample =
                            IF synced THEN n.lastSubframeStartSample - drop
                            ELSE n.lastSubframeStartSample,
                        !.navBitOffset =
                            IF synced THEN n.navBitOffset - bits ELSE n.navBitOffset,
                        !.bitSyncSearchPositions =
                            IF synced THEN n.bitSyncSearchPositions ELSE rebased]
      BY <1>2 DEF CompactNavigationHistory, NavStates
    <2>2. /\ m.promptHistory = n.promptHistory - drop
          /\ m.codePhaseHistory = n.codePhaseHistory - drop
          /\ m.cumulativeDriftHistory = n.cumulativeDriftHistory - drop
          /\ m.bitSyncPhase = n.bitSyncPhase
      BY <2>1 DEF NavStates
    <2>3. Compacts(n) <=> n.promptHistory - drop < n.promptHistory
      BY <2>2 DEF Compacts
    <2>4. CASE synced
      <3>1. /\ drop \in Nat /\ bits \in Nat /\ drop = bits * BitPeriod
            /\ drop > 0 => /\ drop <= n.lastSubframeStartSample
                           /\ bits + 2 <= n.navBitOffset
        BY <2>4, SyncedDrop
      <3>2. /\ m.lastSubframeStartSample = n.lastSubframeStartSample - drop
            /\ m.navBitOffset = n.navBitOffset - bits
            /\ m.bitSyncSearchPositions = n.bitSyncSearchPositions
        BY <2>1, <2>4 DEF NavStates
      <3> HIDE DEF drop, bits, m
      <3>3. BitPeriod \in Nat \ {0} /\ (drop = 0 => bits = 0)
        BY <3>1, ChannelAssumption
      <3>4. /\ n.promptHistory \in Nat /\ n.codePhaseHistory = n.promptHistory
            /\ n.cumulativeDriftHistory = n.promptHistory
            /\ n.lastSubframeStartSample \in Nat /\ n.navBitOffset \in Nat
            /\ n.bitSyncPhase \in Nat /\ drop <= n.promptHistory
        BY <1>2, <2>4, <3>1, ChannelAssumption DEF NavStates, Aligned, Phases, NoSync
      <3>5. /\ m.promptHistory \in Nat /\ m.codePhaseHistory = m.promptHistory
            /\ m.cumulativeDriftHistory = m.promptHistory
            /\ m.lastSubframeStartSample \in Nat /\ m.navBitOffset \in Nat
        BY <2>2, <3>1, <3>2, <3>3, <3>4
      <3>6. m \in NavStates
        BY <2>1, <2>2, <3>2, <3>5 DEF NavStates
      <3>7. m.promptHistory - m.lastSubframeStartSample
              = n.promptHistory - n.lastSubframeStartSample
        BY <2>2, <3>1, <3>2, <3>4
      <3>8. m.promptHistory - ReadSample(m) = n.promptHistory - ReadSample(n)
        BY <2>2, <3>1, <3>2, <3>3, <3>4 DEF ReadSample
      <3>9. HasLookBack(n) \/ Compacts(n) => HasLookBack(m)
        BY <2>2, <2>3, <2>4, <3>1, <3>2, <3>3, <3>4 DEF HasLookBack
      <3> QED
        BY <2>2, <3>5, <3>6, <3>7, <3>8, <3>9 DEF Aligned, m
    <2>5. CASE ~synced
      <3>1. n.bitSyncPhase = NoSync
        BY <2>5, ChannelAssumption DEF NavStates, Phases
      <3>2. /\ drop \in Nat /\ bits \in Nat /\ drop = bits * BitPeriod
            /\ drop > 0 =>
                 /\ n.bitSyncSearchPositions \in SearchVectors
                 /\ \A p \in 1 .. BitPeriod :
                       bits + 2 <= n.bitSyncSearchPositions[p]
        BY <3>1, SearchDrop
      <3>3. /\ m.lastSubframeStartSample = n.lastSubframeStartSample
            /\ m.navBitOffset = n.navBitOffset
            /\ m.bitSyncSearchPositions = rebased
        BY <2>1, <2>5 DEF NavStates
      <3> HIDE DEF drop, bits, m
      <3>4. BitPeriod \in Nat \ {0} /\ (drop = 0 => bits = 0)
        BY <3>2, ChannelAssumption
      <3>5. /\ m.promptHistory \in Nat /\ m.codePhaseHistory = m.promptHistory
            /\ m.cumulativeDriftHistory = m.promptHistory
        BY <1>2, <2>2, <3>2 DEF NavStates, Aligned
      <3>6. /\ rebased \in {<<>>} \cup SearchVectors
            /\ HasLookBack(n) \/ Compacts(n) =>
                 /\ rebased \in SearchVectors
                 /\ \A p \in 1 .. BitPeriod : rebased[p] >= 2
        <4>1. CASE n.bitSyncSearchPositions = <<>>
          <5>1. rebased = <<>>
            BY <4>1
          <5>2. n.bitSyncSearchPositions \notin SearchVectors
            BY <3>4, <4>1 DEF SearchVectors
          <5>3. ~Compacts(n)
            BY <2>3, <3>2, <5>2 DEF NavStates
          <5> QED
            BY <2>5, <5>1, <5>2, <5>3 DEF HasLookBack
        <4>2. CASE n.bitSyncSearchPositions \in SearchVectors
          <5> DEFINE f == n.bitSyncSearchPositions
          <5>1. f \in [1 .. BitPeriod -> Nat] /\ DOMAIN f = 1 .. BitPeriod
            BY <4>2 DEF SearchVectors
          <5> HIDE DEF f
          <5>2. rebased = [p \in 1 .. BitPeriod |->
                              IF f[p] > bits THEN f[p] - bits ELSE 0]
            BY <5>1 DEF f
          <5>3. rebased \in SearchVectors
            <6>1. \A p \in 1 .. BitPeriod :
                     (IF f[p] > bits THEN f[p] - bits ELSE 0) \in Nat
              BY <3>2, <5>1
            <6> QED
              BY <5>2, <6>1 DEF SearchVectors
          <5>4. CASE drop = 0
            <6>1. ~Compacts(n)
              BY <2>3, <5>4 DEF NavStates
            <6>2. \A p \in 1 .. BitPeriod : rebased[p] = f[p]
              BY <3>4, <5>1, <5>2, <5>4, SMTT(30)
            <6>3. HasLookBack(n) => \A p \in 1 .. BitPeriod : f[p] >= 2
              BY <2>5 DEF HasLookBack, f
            <6> QED
              BY <5>3, <6>1, <6>2, <6>3
          <5>5. CASE drop > 0
            <6>1. \A p \in 1 .. BitPeriod : bits + 2 <= f[p]
              BY <3>2, <5>5 DEF f
            <6>2. ASSUME NEW p \in 1 .. BitPeriod PROVE rebased[p] >= 2
              <7>1. f[p] \in Nat /\ bits \in Nat /\ bits + 2 <= f[p]
                BY <3>2, <5>1, <6>1
              <7>2. rebased[p] = IF f[p] > bits THEN f[p] - bits ELSE 0
                BY <5>2, Zenon
              <7> QED
                BY <7>1, <7>2
            <6> QED
              BY <5>3, <6>2
          <5> QED
            BY <3>2, <5>3, <5>4, <5>5
        <4> QED
          BY <4>1, <4>2 DEF NavStates
      <3> HIDE DEF rebased
      <3>7. m \in NavStates
        BY <2>1, <2>2, <3>3, <3>5, <3>6 DEF NavStates
      <3>8. HasLookBack(n) \/ Compacts(n) => HasLookBack(m)
        BY <2>2, <2>5, <3>3, <3>6 DEF HasLookBack
      <3> QED
        BY <2>2, <2>5, <3>5, <3>7, <3>8 DEF Aligned, m
    <2> QED
      BY <2>4, <2>5
  <1> QED
    BY <1>1, <1>2

-----------------------------------------------------------------------------
(* The navigation state *)

AnchorInside == nav.bitSyncPhase >= 0 => nav.lastSubframeStartSample < nav.promptHistory

NavInv ==
    /\ nav \in NavStates /\ Aligned(nav)
    /\ truth \in Truths
    /\ AnchorInside
    /\ PositionsSurviveCompaction
    /\ truth.compacted => HasLookBack(nav)

LEMMA CleanIsSafe ==
    ASSUME nav = CleanNav, truth = CleanTruth PROVE NavInv
  BY DEF NavInv, CleanNav, CleanTruth, NavStates, Truths, Aligned, AnchorInside,
         PositionsSurviveCompaction, NoSync

LEMMA SubframeIsLong == SubframeSamples \in Nat \ {0}
  BY ChannelAssumption DEF SubframeSamples

LEMMA NextPositionGrows ==
    ASSUME NEW n, NEW phase, NEW position \in Nat
    PROVE  NextPosition(n, phase, position) \in Nat
           /\ NextPosition(n, phase, position) >= position
  BY DEF NextPosition

\* Appending moves the newest sample away from both positions by one.
LEMMA AppendIsSafe ==
    ASSUME NavInv, nav' = AppendSample(nav),
           truth' = IF nav.bitSyncPhase >= 0
                    THEN [truth EXCEPT !.anchorAge = @ + 1, !.unread = @ + 1]
                    ELSE truth
    PROVE  NavInv'
  <1>1. /\ nav'.promptHistory = nav.promptHistory + 1
        /\ nav'.codePhaseHistory = nav.codePhaseHistory + 1
        /\ nav'.cumulativeDriftHistory = nav.cumulativeDriftHistory + 1
        /\ nav'.bitSyncPhase = nav.bitSyncPhase
        /\ nav'.bitSyncSearchPositions = nav.bitSyncSearchPositions
        /\ nav'.navBitOffset = nav.navBitOffset
        /\ nav'.lastSubframeStartSample = nav.lastSubframeStartSample
    BY DEF NavInv, NavStates, AppendSample
  <1>2. nav' \in NavStates /\ Aligned(nav')
    <2>1. nav \in NavStates /\ Aligned(nav)
      BY DEF NavInv
    <2>2. /\ nav'.promptHistory \in Nat /\ nav'.codePhaseHistory \in Nat
          /\ nav'.cumulativeDriftHistory \in Nat
      BY <1>1, <2>1 DEF NavStates
    <2>3. nav' \in NavStates
      BY <1>1, <2>1, <2>2 DEF NavStates, AppendSample
    <2> QED
      BY <1>1, <2>1, <2>3 DEF Aligned
  <1>3. truth' \in Truths /\ truth'.compacted = truth.compacted
    <2>1. truth \in Truths /\ truth.anchorAge + 1 \in Nat /\ truth.unread + 1 \in Int
      BY DEF NavInv, Truths
    <2>2. CASE nav.bitSyncPhase >= 0
      BY <2>1, <2>2 DEF Truths
    <2> QED
      BY <2>1, <2>2
  <1>4. ReadSample(nav') = ReadSample(nav)
    BY <1>1 DEF ReadSample
  <1>5. HasLookBack(nav) => HasLookBack(nav')
    BY <1>1 DEF HasLookBack
  <1>6. CASE nav.bitSyncPhase >= 0
    <2>1. /\ truth'.anchorAge = truth.anchorAge + 1
          /\ truth'.unread = truth.unread + 1
          /\ truth.anchorAge \in Nat /\ truth.unread \in Int
      BY <1>6 DEF NavInv, Truths
    <2>2. ReadSample(nav) \in Int /\ nav.lastSubframeStartSample \in Nat
          /\ nav.promptHistory \in Nat
      BY ChannelAssumption, SMTT(30) DEF NavInv, NavStates, ReadSample, Phases, NoSync
    <2>3. /\ nav.promptHistory - nav.lastSubframeStartSample = truth.anchorAge
          /\ nav.promptHistory - ReadSample(nav) = truth.unread
          /\ nav.lastSubframeStartSample < nav.promptHistory
      BY <1>6 DEF NavInv, PositionsSurviveCompaction, AnchorInside
    <2>4. AnchorInside' /\ PositionsSurviveCompaction'
      BY <1>1, <1>4, <2>1, <2>2, <2>3 DEF AnchorInside, PositionsSurviveCompaction
    <2> QED
      BY <1>2, <1>3, <1>5, <2>4 DEF NavInv
  <1>7. CASE ~(nav.bitSyncPhase >= 0)
    BY <1>1, <1>2, <1>3, <1>5, <1>7 DEF NavInv, AnchorInside, PositionsSurviveCompaction
  <1> QED
    BY <1>6, <1>7

\* What a decoding action may rely on after the compaction it starts with
LEMMA AfterCompaction ==
    ASSUME NavInv
    PROVE  LET n == CompactNavigationHistory(nav)
           IN  /\ n \in NavStates /\ Aligned(n)
               /\ n.bitSyncPhase = nav.bitSyncPhase
               /\ n.bitSyncPhase >= 0 =>
                     /\ n.promptHistory - n.lastSubframeStartSample = truth.anchorAge
                     /\ n.promptHistory - ReadSample(n) = truth.unread
                     /\ n.lastSubframeStartSample < n.promptHistory
               /\ truth.compacted \/ Compacts(nav) => HasLookBack(n)
  <1> DEFINE n == CompactNavigationHistory(nav)
  <1>1. nav \in NavStates /\ Aligned(nav) /\ (truth.compacted => HasLookBack(nav))
    BY DEF NavInv
  <1>2. /\ n \in NavStates /\ Aligned(n)
        /\ n.bitSyncPhase = nav.bitSyncPhase
        /\ nav.bitSyncPhase >= 0 =>
             /\ n.promptHistory - n.lastSubframeStartSample
                  = nav.promptHistory - nav.lastSubframeStartSample
             /\ n.promptHistory - ReadSample(n) = nav.promptHistory - ReadSample(nav)
        /\ HasLookBack(nav) \/ Compacts(nav) => HasLookBack(n)
    BY <1>1, CompactionIsSound
  <1> HIDE DEF n
  <1>3. /\ n.promptHistory \in Nat /\ n.lastSubframeStartSample \in Nat
        /\ nav.promptHistory \in Nat /\ nav.lastSubframeStartSample \in Nat
    BY <1>1, <1>2 DEF NavStates
  <1>4. n.bitSyncPhase >= 0 =>
          /\ n.promptHistory - n.lastSubframeStartSample = truth.anchorAge
          /\ n.promptHistory - ReadSample(n) = truth.unread
          /\ n.lastSubframeStartSample < n.promptHistory
    BY <1>2, <1>3 DEF NavInv, PositionsSurviveCompaction, AnchorInside
  <1> QED
    BY <1>1, <1>2, <1>4 DEF n

\* The search positions are assigned on first use and total from then on.
LEMMA SearchVectorIsTotal ==
    ASSUME NEW n \in NavStates, ~(n.bitSyncPhase >= 0)
    PROVE  /\ SearchPositions(n) \in SearchVectors
           /\ HasLookBack(n) =>
                \A p \in 1 .. BitPeriod : SearchPositions(n)[p] >= 2
  <1>1. BitPeriod \in Nat \ {0}
    BY ChannelAssumption
  <1>2. CASE n.bitSyncSearchPositions = <<>>
    <2>1. Len(n.bitSyncSearchPositions) = 0 /\ n.bitSyncSearchPositions \notin SearchVectors
      BY <1>1, <1>2 DEF SearchVectors
    <2> QED
      BY <1>1, <2>1 DEF SearchPositions, SearchVectors, HasLookBack
  <1>3. CASE n.bitSyncSearchPositions \in SearchVectors
    <2>1. Len(n.bitSyncSearchPositions) = BitPeriod
      BY <1>1, <1>3 DEF SearchVectors
    <2> QED
      BY <1>3, <2>1 DEF SearchPositions, HasLookBack
  <1> QED
    BY <1>2, <1>3 DEF NavStates

LEMMA QuietIsSafe ==
    ASSUME NavInv, NavigateQuietly PROVE NavInv'
  <1> DEFINE n == CompactNavigationHistory(nav)
             enough == HadEnoughData(n, n.bitSyncPhase, n.navBitOffset)
  <1>1. /\ n \in NavStates /\ Aligned(n)
        /\ n.bitSyncPhase >= 0 =>
             /\ n.promptHistory - n.lastSubframeStartSample = truth.anchorAge
             /\ n.promptHistory - ReadSample(n) = truth.unread
             /\ n.lastSubframeStartSample < n.promptHistory
        /\ truth.compacted \/ Compacts(nav) => HasLookBack(n)
    BY AfterCompaction
  <1>2. truth' = [truth EXCEPT !.compacted = truth.compacted \/ Compacts(nav),
                               !.unread = IF n.bitSyncPhase >= 0 /\ enough
                                          THEN truth.unread - BitPeriod
                                          ELSE truth.unread]
    BY DEF NavigateQuietly, NavInv, Truths
  <1>3. nav' = IF n.bitSyncPhase >= 0
               THEN [n EXCEPT !.navBitOffset =
                        NextPosition(n, n.bitSyncPhase, n.navBitOffset)]
               ELSE [n EXCEPT !.bitSyncSearchPositions =
                        [p \in 1 .. BitPeriod |->
                            NextPosition(n, p - 1, SearchPositions(n)[p])]]
    BY <1>1 DEF NavigateQuietly, NavStates
  <1>4. Compacts(nav) \in BOOLEAN /\ BitPeriod \in Nat \ {0}
    BY ChannelAssumption DEF Compacts
  <1> HIDE DEF n, enough
  <1>5. /\ truth' \in Truths
        /\ truth'.anchorAge = truth.anchorAge
        /\ truth'.compacted = (truth.compacted \/ Compacts(nav))
        /\ truth'.unread = IF n.bitSyncPhase >= 0 /\ enough
                           THEN truth.unread - BitPeriod ELSE truth.unread
    <2>1. truth \in Truths /\ truth.unread - BitPeriod \in Int
          /\ (truth.compacted \/ Compacts(nav)) \in BOOLEAN
      BY <1>4 DEF NavInv, Truths
    <2> QED
      BY <1>2, <2>1 DEF Truths
  <1>6. CASE n.bitSyncPhase >= 0
    <2> DEFINE next == NextPosition(n, n.bitSyncPhase, n.navBitOffset)
    <2>1. /\ n.navBitOffset \in Nat /\ n.bitSyncPhase \in Nat
          /\ n.promptHistory \in Nat /\ n.lastSubframeStartSample \in Nat
      BY <1>1, <1>6, ChannelAssumption DEF NavStates, Phases, NoSync
    <2>2. next \in Nat /\ next >= n.navBitOffset
          /\ next = IF enough THEN n.navBitOffset + 1 ELSE n.navBitOffset
      BY <2>1, NextPositionGrows DEF NextPosition, enough
    <2> HIDE DEF next
    <2>3. /\ nav' \in NavStates
          /\ nav'.promptHistory = n.promptHistory
          /\ nav'.codePhaseHistory = n.codePhaseHistory
          /\ nav'.cumulativeDriftHistory = n.cumulativeDriftHistory
          /\ nav'.bitSyncPhase = n.bitSyncPhase
          /\ nav'.navBitOffset = next
          /\ nav'.lastSubframeStartSample = n.lastSubframeStartSample
      BY <1>1, <1>3, <1>6, <2>2 DEF NavStates, next
    <2>4. Aligned(nav') /\ AnchorInside'
      BY <1>1, <1>6, <2>3 DEF Aligned, AnchorInside
    <2>5. HasLookBack(n) => HasLookBack(nav')
      BY <1>6, <2>1, <2>2, <2>3 DEF HasLookBack
    <2>6. PositionsSurviveCompaction'
      <3>1. CASE enough
        <4>1. ReadSample(nav') = ReadSample(n) + BitPeriod /\ ReadSample(n) \in Int
          <5>1. nav'.bitSyncPhase = n.bitSyncPhase /\ nav'.navBitOffset = n.navBitOffset + 1
            BY <2>2, <2>3, <3>1
          <5>2. /\ n.bitSyncPhase + (n.navBitOffset + 1) * BitPeriod
                     = (n.bitSyncPhase + n.navBitOffset * BitPeriod) + 1 * BitPeriod
                /\ n.bitSyncPhase + n.navBitOffset * BitPeriod \in Int
            BY <1>4, <2>1, MoreBits
          <5> QED
            BY <1>4, <5>1, <5>2 DEF ReadSample
        <4> QED
          BY <1>1, <1>4, <1>5, <1>6, <2>1, <2>3, <3>1, <4>1
          DEF PositionsSurviveCompaction
      <3>2. CASE ~enough
        <4>1. ReadSample(nav') = ReadSample(n)
          BY <2>2, <2>3, <3>2 DEF ReadSample
        <4> QED
          BY <1>1, <1>5, <1>6, <2>3, <3>2, <4>1 DEF PositionsSurviveCompaction
      <3> QED
        BY <3>1, <3>2
    <2> QED
      BY <1>1, <1>5, <2>3, <2>4, <2>5, <2>6 DEF NavInv
  <1>7. CASE ~(n.bitSyncPhase >= 0)
    <2> DEFINE f == SearchPositions(n)
               g == [p \in 1 .. BitPeriod |-> NextPosition(n, p - 1, f[p])]
    <2>1. f \in SearchVectors /\ (HasLookBack(n) => \A p \in 1 .. BitPeriod : f[p] >= 2)
      BY <1>1, <1>7, SearchVectorIsTotal
    <2> HIDE DEF f
    <2>2. \A p \in 1 .. BitPeriod : NextPosition(n, p - 1, f[p]) \in Nat
                                    /\ NextPosition(n, p - 1, f[p]) >= f[p]
      BY <2>1, NextPositionGrows DEF SearchVectors
    <2>3. g \in SearchVectors /\ \A p \in 1 .. BitPeriod : g[p] >= f[p]
      BY <2>2 DEF SearchVectors
    <2>4. nav' = [n EXCEPT !.bitSyncSearchPositions = g]
      BY <1>3, <1>7 DEF f
    <2> HIDE DEF g
    <2>5. /\ nav' \in NavStates
          /\ nav'.promptHistory = n.promptHistory
          /\ nav'.codePhaseHistory = n.codePhaseHistory
          /\ nav'.cumulativeDriftHistory = n.cumulativeDriftHistory
          /\ nav'.bitSyncPhase = n.bitSyncPhase
          /\ nav'.bitSyncSearchPositions = g
      BY <1>1, <2>3, <2>4 DEF NavStates
    <2>6. HasLookBack(n) => \A p \in 1 .. BitPeriod : g[p] >= 2
      BY <2>1, <2>3 DEF SearchVectors
    <2> QED
      BY <1>1, <1>5, <1>7, <2>3, <2>5, <2>6
      DEF NavInv, Aligned, AnchorInside, PositionsSurviveCompaction, HasLookBack
  <1> QED
    BY <1>6, <1>7

LEMMA NaturalFields ==
    /\ SubframeBits \in Nat /\ BitPeriod \in Nat \ {0}
    /\ \A phase \in Phases : phase \in Nat
    /\ \A n \in NavStates : n.promptHistory \in Nat
  BY ChannelAssumption DEF Phases, NavStates

LEMMA CandidateInside ==
    ASSUME NEW n \in NavStates, NEW start \in Int, CandidateFits(n, start)
    PROVE  start \in Nat /\ start < n.promptHistory
  BY NaturalFields, SubframeIsLong DEF CandidateFits

\* A decoded subframe anchors the measurement inside the history, and the read
\* position moves behind it.
LEMMA DecodedIsSafe ==
    ASSUME NEW n \in NavStates, Aligned(n), NEW phase \in Phases,
           NEW position \in Nat, NEW start \in Int, CandidateFits(n, start),
           NEW g \in {<<>>} \cup SearchVectors,
           NEW c \in BOOLEAN, c => position >= 2,
           nav' = [n EXCEPT !.bitSyncPhase = phase,
                            !.navBitOffset = position + SubframeBits,
                            !.lastSubframeStartSample = start,
                            !.bitSyncSearchPositions = g],
           truth' = [anchorAge |-> n.promptHistory - start,
                     unread |-> n.promptHistory - phase
                                  - (position + SubframeBits) * BitPeriod,
                     compacted |-> c]
    PROVE  NavInv'
  <1>1. /\ SubframeBits \in Nat /\ BitPeriod \in Nat \ {0} /\ phase \in Nat
        /\ n.promptHistory \in Nat /\ position + SubframeBits \in Nat
    BY NaturalFields
  <1>2. start \in Nat /\ start < n.promptHistory
    BY CandidateInside
  <1>3. /\ nav' \in NavStates
        /\ nav'.promptHistory = n.promptHistory
        /\ nav'.codePhaseHistory = n.codePhaseHistory
        /\ nav'.cumulativeDriftHistory = n.cumulativeDriftHistory
        /\ nav'.bitSyncPhase = phase
        /\ nav'.navBitOffset = position + SubframeBits
        /\ nav'.lastSubframeStartSample = start
    BY <1>1, <1>2 DEF NavStates
  <1>4. n.promptHistory - phase - (position + SubframeBits) * BitPeriod \in Int
    BY <1>1
  <1>5. truth' \in Truths
    <2>1. PICK w \in Int :
             w = n.promptHistory - phase - (position + SubframeBits) * BitPeriod
      BY <1>4
    <2>2. n.promptHistory - start \in Nat
      BY <1>1, <1>2, SMTT(30)
    <2>3. truth' = [anchorAge |-> n.promptHistory - start, unread |-> w, compacted |-> c]
      BY <2>1
    <2> QED
      BY <2>1, <2>2, <2>3 DEF Truths
  <1>6. PositionsSurviveCompaction'
    <2> DEFINE product == (position + SubframeBits) * BitPeriod
    <2>1. product \in Int
      BY <1>1
    <2>2. ReadSample(nav') = phase + product
      BY <1>3 DEF ReadSample
    <2> HIDE DEF product
    <2>3. n.promptHistory - (phase + product) = n.promptHistory - phase - product
      BY <1>1, <2>1
    <2> QED
      BY <1>3, <2>2, <2>3 DEF PositionsSurviveCompaction, product
  <1>7. truth'.compacted => HasLookBack(nav')
    BY <1>1, <1>3 DEF HasLookBack
  <1> QED
    BY <1>2, <1>3, <1>5, <1>6, <1>7 DEF NavInv, Aligned, AnchorInside

LEMMA DecodeIsSafe ==
    ASSUME NavInv, NEW d, NEW bestOffset \in Int, DecodeSubframe(d, bestOffset)
    PROVE  NavInv'
  <1>1. PICK n : n = CompactNavigationHistory(nav)
    OBVIOUS
  <1> DEFINE start == StartSample(n.bitSyncPhase, n.navBitOffset, bestOffset)
             c == truth.compacted \/ Compacts(nav)
  <1>2. /\ n \in NavStates /\ Aligned(n)
        /\ n.bitSyncPhase >= 0
        /\ n.promptHistory - ReadSample(n) = truth.unread
        /\ c => HasLookBack(n)
    BY <1>1, AfterCompaction DEF DecodeSubframe
  <1>3. /\ n.bitSyncPhase \in Phases /\ n.bitSyncPhase \in Nat
        /\ n.navBitOffset \in Nat /\ n.promptHistory \in Nat
        /\ n.bitSyncSearchPositions \in {<<>>} \cup SearchVectors
        /\ BitPeriod \in Nat \ {0} /\ SubframeBits \in Nat
    BY <1>2, ChannelAssumption DEF NavStates, Phases, NoSync
  <1>4. start \in Int /\ CandidateFits(n, start)
    BY <1>1, <1>3 DEF DecodeSubframe, StartSample
  <1>5. c \in BOOLEAN /\ (c => n.navBitOffset >= 2)
    BY <1>2 DEF HasLookBack, Compacts, NavInv, Truths
  <1>6. nav' = [n EXCEPT !.bitSyncPhase = n.bitSyncPhase,
                         !.navBitOffset = n.navBitOffset + SubframeBits,
                         !.lastSubframeStartSample = start,
                         !.bitSyncSearchPositions = n.bitSyncSearchPositions]
    BY <1>1, <1>2 DEF DecodeSubframe, NavStates
  <1>7. truth.unread - SubframeSamples
          = n.promptHistory - n.bitSyncPhase
              - (n.navBitOffset + SubframeBits) * BitPeriod
    <2>1. /\ n.bitSyncPhase + (n.navBitOffset + SubframeBits) * BitPeriod
               = ReadSample(n) + SubframeSamples
          /\ ReadSample(n) \in Int
      BY <1>3, MoreBits, SMTT(30) DEF ReadSample, SubframeSamples
    <2>2. SubframeSamples \in Int /\ (n.navBitOffset + SubframeBits) * BitPeriod \in Int
      BY <1>3, SubframeIsLong
    <2> DEFINE product == (n.navBitOffset + SubframeBits) * BitPeriod
    <2>3. /\ product \in Int /\ ReadSample(n) \in Int /\ SubframeSamples \in Int
          /\ n.bitSyncPhase \in Int /\ n.promptHistory \in Int
          /\ n.bitSyncPhase + product = ReadSample(n) + SubframeSamples
          /\ n.promptHistory - ReadSample(n) = truth.unread
      BY <1>2, <1>3, <2>1, <2>2
    <2> HIDE DEF product
    <2>4. truth.unread - SubframeSamples = n.promptHistory - n.bitSyncPhase - product
      BY <2>3
    <2> QED
      BY <2>4 DEF product
  <1>8. truth' = [anchorAge |-> n.promptHistory - start,
                  unread |-> n.promptHistory - n.bitSyncPhase
                               - (n.navBitOffset + SubframeBits) * BitPeriod,
                  compacted |-> c]
    BY <1>1, <1>7 DEF DecodeSubframe
  <1>9. PICK s, k : s = start /\ k = c
    OBVIOUS
  <1> QED
    BY <1>2, <1>3, <1>4, <1>5, <1>6, <1>8, <1>9, DecodedIsSafe

LEMMA BitSyncIsSafe ==
    ASSUME NavInv, NEW d, NEW bestOffset \in Int, NEW phase \in Phases,
           BitSync(phase, d, bestOffset)
    PROVE  NavInv'
  <1>1. PICK n : n = CompactNavigationHistory(nav)
    OBVIOUS
  <1>2. PICK search : search = SearchPositions(n)
    OBVIOUS
  <1> DEFINE position == search[phase + 1]
             start == StartSample(phase, position, bestOffset)
             c == truth.compacted \/ Compacts(nav)
             g == [p \in 1 .. BitPeriod |->
                      IF p <= phase THEN NextPosition(n, p - 1, search[p])
                      ELSE search[p]]
  <1>3. /\ n \in NavStates /\ Aligned(n)
        /\ n.bitSyncPhase = NoSync
        /\ c => HasLookBack(n)
    BY <1>1, AfterCompaction DEF BitSync
  <1>4. search \in SearchVectors /\ (c => \A p \in 1 .. BitPeriod : search[p] >= 2)
    BY <1>2, <1>3, SearchVectorIsTotal DEF NoSync
  <1>5. phase \in Nat /\ phase + 1 \in 1 .. BitPeriod /\ BitPeriod \in Nat \ {0}
    BY ChannelAssumption DEF Phases
  <1>6. position \in Nat /\ (c => position >= 2)
    BY <1>4, <1>5 DEF SearchVectors
  <1>7. g \in SearchVectors
    <2>1. \A p \in 1 .. BitPeriod : search[p] \in Nat
      BY <1>4 DEF SearchVectors
    <2>2. \A p \in 1 .. BitPeriod : NextPosition(n, p - 1, search[p]) \in Nat
      BY <2>1, NextPositionGrows
    <2> QED
      BY <2>1, <2>2 DEF SearchVectors
  <1>8. start \in Int /\ CandidateFits(n, start)
    <2>1. start \in Int
      BY <1>5, <1>6 DEF StartSample
    <2> QED
      BY <1>1, <1>2, <2>1 DEF BitSync
  <1>9. c \in BOOLEAN
    BY DEF Compacts, NavInv, Truths
  <1>10. nav' = [n EXCEPT !.bitSyncPhase = phase,
                          !.navBitOffset = position + SubframeBits,
                          !.lastSubframeStartSample = start,
                          !.bitSyncSearchPositions = g]
    BY <1>1, <1>2 DEF BitSync
  <1>11. truth' = [anchorAge |-> n.promptHistory - start,
                   unread |-> n.promptHistory - phase
                                - (position + SubframeBits) * BitPeriod,
                   compacted |-> c]
    BY <1>1, <1>2 DEF BitSync
  <1>12. PICK k : k = c
    OBVIOUS
  <1> HIDE DEF position, start, c, g
  <1> QED
    BY <1>3, <1>6, <1>7, <1>8, <1>9, <1>10, <1>11, <1>12, DecodedIsSafe

LEMMA NavInit == Init => NavInv
  BY CleanIsSafe DEF Init

LEMMA NavStep == NavInv /\ [Next]_channelVars => NavInv'
  <1> SUFFICES ASSUME NavInv, [Next]_channelVars PROVE NavInv'
    OBVIOUS
  <1>0. ASSUME nav' = CleanNav, truth' = CleanTruth PROVE NavInv'
    BY <1>0 DEF NavInv, CleanNav, CleanTruth, NavStates, Truths, Aligned, AnchorInside,
                PositionsSurviveCompaction, NoSync
  <1>1. ASSUME UNCHANGED <<nav, truth>> PROVE NavInv'
    BY <1>1 DEF NavInv, AnchorInside, PositionsSurviveCompaction
  <1>2. CASE InitTracking
    BY <1>0, <1>2 DEF InitTracking
  <1>3. ASSUME NEW good \in BOOLEAN, TrackBlock(good) PROVE NavInv'
    <2>1. CASE m_state' = "Acquiring"
      BY <1>0, <1>3, <2>1 DEF TrackBlock, NavAfterLockCheck
    <2>2. CASE m_state' # "Acquiring" /\ m_state = "Tracking"
      <3>1. nav' = AppendSample(nav)
        BY <1>3, <2>2 DEF TrackBlock, NavAfterLockCheck
      <3>2. truth' = IF nav.bitSyncPhase >= 0
                     THEN [truth EXCEPT !.anchorAge = @ + 1, !.unread = @ + 1]
                     ELSE truth
        BY <1>3, <2>2 DEF TrackBlock
      <3> QED
        BY <3>1, <3>2, AppendIsSafe
    <2>3. CASE m_state' # "Acquiring" /\ m_state # "Tracking"
      BY <1>1, <1>3, <2>3 DEF TrackBlock, NavAfterLockCheck
    <2> QED
      BY <2>1, <2>2, <2>3
  <1>4. CASE TrackBlockThrows
    BY <1>1, <1>4 DEF TrackBlockThrows
  <1>5. CASE UpdateNavigation
    <2>1. \A bestOffset \in -EdgeSearch .. EdgeSearch : bestOffset \in Int
      BY ChannelAssumption
    <2> QED
      BY <1>5, <2>1, QuietIsSafe, DecodeIsSafe, BitSyncIsSafe DEF UpdateNavigation
  <1>6. CASE AtBound \/ UNCHANGED channelVars
    BY <1>1, <1>6 DEF AtBound, channelVars
  <1> QED
    BY <1>2, <1>3, <1>4, <1>5, <1>6 DEF Next

-----------------------------------------------------------------------------
(* The lifecycle and the ephemeris *)

LockInv ==
    /\ m_state \in {"Acquiring", "Confirming", "Tracking"}
    /\ m_isAcquired \in BOOLEAN
    /\ pc \in {"track", "navigate"}
    /\ m_confirmProgress \in 0 .. ConfirmDebounceBlocks
    /\ m_lossProgress \in 0 .. LossDebounceBlocks
    /\ m_blocksInConfirming \in 0 .. ConfirmTimeoutBlocks
    /\ m_state = "Confirming" => /\ m_confirmProgress < ConfirmDebounceBlocks
                                 /\ m_blocksInConfirming < ConfirmTimeoutBlocks
    /\ m_state = "Tracking" => m_lossProgress < LossDebounceBlocks
    /\ pc = "navigate" => m_state = "Tracking"

LifeInv ==
    /\ LockInv
    /\ LostMeansForgotten
    /\ ephemeris \in Ephemerides
    /\ EphemerisIsConsistent

LEMMA LifeInit == Init => LifeInv
  <1> SUFFICES ASSUME Init PROVE LifeInv
    OBVIOUS
  <1>1. LockInv
    <2>1. m_isAcquired \in BOOLEAN
      BY DEF Init
    <2>2. /\ m_confirmProgress \in 0 .. ConfirmDebounceBlocks
          /\ m_lossProgress \in 0 .. LossDebounceBlocks
          /\ m_blocksInConfirming \in 0 .. ConfirmTimeoutBlocks
      BY ChannelAssumption DEF Init
    <2> QED
      BY <2>1, <2>2 DEF Init, LockInv
  <1>2. LostMeansForgotten
    BY Zenon DEF Init, LostMeansForgotten
  <1>3. ephemeris \in Ephemerides /\ EphemerisIsConsistent
    BY DEF Init, Ephemerides, NoEphemeris, EphemerisIsConsistent
  <1> QED
    BY <1>1, <1>2, <1>3 DEF LifeInv

LEMMA LifeStep == LifeInv /\ [Next]_channelVars => LifeInv'
  <1> SUFFICES ASSUME LifeInv, [Next]_channelVars PROVE LifeInv'
    OBVIOUS
  <1>0. ASSUME ephemeris' = NoEphemeris \/ UNCHANGED ephemeris
        PROVE  ephemeris' \in Ephemerides /\ EphemerisIsConsistent'
    BY <1>0 DEF LifeInv, Ephemerides, NoEphemeris, EphemerisIsConsistent
  <1>1. CASE InitTracking
    BY <1>0, <1>1, ChannelAssumption
    DEF InitTracking, LifeInv, LockInv, LostMeansForgotten
  <1>2. ASSUME NEW good \in BOOLEAN, TrackBlock(good) PROVE LifeInv'
    <2>1. ephemeris' = IF m_state' = "Acquiring" THEN NoEphemeris ELSE ephemeris
      BY <1>2 DEF TrackBlock
    <2>2. LockInv'
      <3>1. /\ m_isAcquired' = (m_state' # "Acquiring")
            /\ pc' = IF m_state' = "Tracking" THEN "navigate" ELSE "track"
        BY <1>2 DEF TrackBlock
      <3>2. CASE ConfirmStep(good)
        BY <3>1, <3>2, ChannelAssumption DEF ConfirmStep, LeakyStep, LifeInv, LockInv
      <3>3. CASE LossStep(good)
        BY <3>1, <3>3, ChannelAssumption DEF LossStep, LeakyStep, LifeInv, LockInv
      <3> QED
        BY <1>2, <3>2, <3>3 DEF TrackBlock
    <2>3. LostMeansForgotten'
      <3>1. m_state' # "Tracking" => m_state' = "Acquiring" \/ m_state = "Confirming"
        BY <1>2 DEF TrackBlock, ConfirmStep, LossStep, LifeInv, LockInv
      <3> QED
        BY <1>2, <2>1, <3>1 DEF TrackBlock, NavAfterLockCheck, LifeInv, LostMeansForgotten
    <2> QED
      BY <1>0, <2>1, <2>2, <2>3 DEF LifeInv
  <1>3. CASE TrackBlockThrows
    BY <1>0, <1>3 DEF TrackBlockThrows, lockVars, LifeInv, LockInv, LostMeansForgotten
  <1>4. CASE UpdateNavigation
    <2>1. /\ pc = "navigate" /\ pc' = "track"
          /\ UNCHANGED <<m_state, m_isAcquired, lockVars>>
          /\ UNCHANGED ephemeris \/ \E d \in Subframes : ephemeris' = MergeSubframe(d, ephemeris)
      BY <1>4 DEF UpdateNavigation, NavigateQuietly, DecodeSubframe, BitSync, Merges
    <2>2. LockInv' /\ LostMeansForgotten'
      BY <2>1 DEF LifeInv, LockInv, LostMeansForgotten, lockVars
    <2>3. ASSUME NEW d \in Subframes, ephemeris' = MergeSubframe(d, ephemeris)
          PROVE  ephemeris' \in Ephemerides /\ EphemerisIsConsistent'
      BY <2>3, MergeKeepsEphemeris DEF LifeInv, EphemerisIsConsistent
    <2> QED
      BY <1>0, <2>1, <2>2, <2>3 DEF LifeInv
  <1>5. CASE AtBound \/ UNCHANGED channelVars
    BY <1>0, <1>5 DEF AtBound, channelVars, LifeInv, LockInv, LostMeansForgotten
  <1> QED
    BY <1>1, <1>2, <1>3, <1>4, <1>5 DEF Next

-----------------------------------------------------------------------------
LEMMA ChannelInvariant == Spec => [](NavInv /\ LifeInv)
  BY NavInit, NavStep, LifeInit, LifeStep, PTL DEF Spec

\* Every field of a channel keeps its range: the debounce counters stop at their
\* limits, and no position in the histories becomes negative.
THEOREM TypeCorrect == Spec => []TypeOK
  <1>1. NavInv /\ LifeInv => TypeOK
    BY DEF NavInv, LifeInv, LockInv, TypeOK, NavStates, SearchVectors, Truths, Ephemerides
  <1> QED
    BY <1>1, ChannelInvariant, PTL

\* compactNavigationHistory never moves a position relative to the signal, keeps
\* the three histories aligned and keeps the two bits before every position.
THEOREM CompactionCorrect == Spec => []CompactionIsSafe
  <1>1. NavInv => PositionsSurviveCompaction /\ HistoriesAligned
    BY DEF NavInv, Aligned, AnchorInside, HistoriesAligned
  <1>2. NavInv => LookBackIsKept
    BY DEF NavInv, HasLookBack, LookBackIsKept, SearchVectors
  <1>3. NavInv => CompactionIsSafe
    BY <1>1, <1>2 DEF CompactionIsSafe
  <1> QED
    BY <1>3, ChannelInvariant, PTL

\* Nothing of an earlier lock survives evaluateLockState's reset.
THEOREM ForgetsOnLoss == Spec => []LostMeansForgotten
  <1>1. LifeInv => LostMeansForgotten
    BY DEF LifeInv
  <1> QED
    BY <1>1, ChannelInvariant, PTL

\* mergeSubframe never mixes two data sets, and recovers from any mixture of
\* earlier subframes within one pass over a new data set.
THEOREM EphemerisCorrect == Spec => []EphemerisIsSound
  <1>1. LifeInv => EphemerisIsConsistent
    BY DEF LifeInv
  <1>2. LifeInv => OnePassCompletes
    <2> SUFFICES ASSUME LifeInv,
                        NEW iodc \in Iodcs, NEW a \in Accumulated,
                        NEW b \in Accumulated, NEW c \in Accumulated,
                        {a, b, c} = Accumulated
                 PROVE  HasCompleteEphemeris(
                           MergeSubframe(Subframe(c, iodc),
                              MergeSubframe(Subframe(b, iodc),
                                 MergeSubframe(Subframe(a, iodc), ephemeris))))
      BY DEF OnePassCompletes
    <2>1. iodc \in Nat /\ ephemeris \in Ephemerides
      BY IodcAssumption DEF LifeInv
    <2> QED
      BY <2>1, ThreeSubframesComplete
  <1>3. LifeInv => EphemerisIsSound
    BY <1>1, <1>2 DEF EphemerisIsSound
  <1> QED
    BY <1>3, ChannelInvariant, PTL


-----------------------------------------------------------------------------
(* How long the histories become *)

\* The constants of the code leave room: a subframe (6000 samples), what is not
\* worth dropping (10000) and three bits (60) fit below the threshold (30000),
\* and the candidates around a bit edge (2) are less than a subframe away.
WindowFits ==
    /\ SubframeSamples + CompactMinDrop + 3 * BitPeriod <= CompactThreshold
    /\ EdgeSearch <= SubframeSamples

\* Where the subframe ends that candidate phase p - 1 tries next
SearchEnd(f, p) == (p - 1) + f[p] * BitPeriod + SubframeSamples

\* The search keeps pace with a history of h samples: no candidate has data for
\* an attempt, but for slack samples, and none is more than a bit ahead.
Paced(h, f, slack) ==
    /\ f \in SearchVectors
    /\ \A p \in 1 .. BitPeriod :
          /\ h < SearchEnd(f, p) + slack
          /\ f[p] = 0 \/ SearchEnd(f, p) <= h + BitPeriod

NotSearched(n) == n.bitSyncSearchPositions = <<>> /\ n.promptHistory = 0

\* Between blocks every candidate waits for data; the sample of a block gives at
\* most one attempt to each.  Once synced the decoder reads behind the anchor.
PaceInv ==
    IF nav.bitSyncPhase >= 0 THEN nav.lastSubframeStartSample <= ReadSample(nav)
    ELSE \/ NotSearched(nav) /\ (m_state = "Tracking" => pc = "navigate")
         \/ Paced(nav.promptHistory, nav.bitSyncSearchPositions,
                  IF pc = "navigate" THEN 1 ELSE 0)

LEMMA SearchEndIsNatural ==
    ASSUME NEW f \in SearchVectors, NEW p \in 1 .. BitPeriod
    PROVE  /\ f[p] \in Nat /\ f[p] * BitPeriod \in Nat
           /\ SearchEnd(f, p) \in Nat
           /\ SubframeSamples <= SearchEnd(f, p) - f[p] * BitPeriod
           /\ SearchEnd(f, p) - f[p] * BitPeriod < SubframeSamples + BitPeriod
  <1>1. f[p] \in Nat /\ BitPeriod \in Nat \ {0} /\ p \in Nat \ {0} /\ p <= BitPeriod
    BY ChannelAssumption DEF SearchVectors
  <1>2. PICK b : b = f[p] * BitPeriod /\ b \in Nat
    BY <1>1
  <1>3. PICK s : s = SubframeSamples /\ s \in Nat
    BY SubframeIsLong
  <1>4. SearchEnd(f, p) = (p - 1) + b + s
    BY <1>2, <1>3 DEF SearchEnd
  <1> QED
    BY <1>1, <1>2, <1>3, <1>4

\* An attempt of each candidate that has data leaves all of them waiting.
LEMMA AttemptsKeepPace ==
    ASSUME NEW n \in NavStates, NEW f, Paced(n.promptHistory, f, 1)
    PROVE  Paced(n.promptHistory,
                 [p \in 1 .. BitPeriod |-> NextPosition(n, p - 1, f[p])], 0)
  <1> DEFINE g == [p \in 1 .. BitPeriod |-> NextPosition(n, p - 1, f[p])]
  <1>1. f \in SearchVectors /\ BitPeriod \in Nat \ {0} /\ n.promptHistory \in Nat
    BY NaturalFields DEF Paced
  <1>2. \A p \in 1 .. BitPeriod : f[p] \in Nat
    BY <1>1 DEF SearchVectors
  <1>3. g \in SearchVectors
    BY <1>2, NextPositionGrows DEF SearchVectors
  <1>4. ASSUME NEW p \in 1 .. BitPeriod
        PROVE  /\ n.promptHistory < SearchEnd(g, p) + 0
               /\ g[p] = 0 \/ SearchEnd(g, p) <= n.promptHistory + BitPeriod
    <2>1. /\ n.promptHistory < SearchEnd(f, p) + 1
          /\ f[p] = 0 \/ SearchEnd(f, p) <= n.promptHistory + BitPeriod
      BY DEF Paced
    <2>2. g[p] = IF SearchEnd(f, p) <= n.promptHistory THEN f[p] + 1 ELSE f[p]
      BY DEF NextPosition, HadEnoughData, SearchEnd
    <2>3. f[p] \in Nat /\ SearchEnd(f, p) \in Nat
      BY <1>1, SearchEndIsNatural
    <2> HIDE DEF g
    <2>4. CASE SearchEnd(f, p) <= n.promptHistory
      <3>1. (f[p] + 1) * BitPeriod = f[p] * BitPeriod + BitPeriod
        BY <1>1, <2>3
      <3>2. PICK b \in Nat : b = f[p] * BitPeriod
        BY <1>1, <2>3
      <3>3. PICK s \in Nat : s = SubframeSamples
        BY SubframeIsLong
      <3>4. SearchEnd(g, p) = (p - 1) + (b + BitPeriod) + s
        BY <2>2, <2>4, <3>1, <3>2, <3>3 DEF SearchEnd
      <3>5. SearchEnd(f, p) = (p - 1) + b + s
        BY <3>2, <3>3 DEF SearchEnd
      <3>6. SearchEnd(g, p) = SearchEnd(f, p) + BitPeriod
        BY <1>1, <3>2, <3>3, <3>4, <3>5
      <3> QED
        BY <1>1, <2>1, <2>3, <2>4, <3>6
    <2>5. CASE ~(SearchEnd(f, p) <= n.promptHistory)
      <3>1. SearchEnd(g, p) = SearchEnd(f, p) /\ g[p] = f[p]
        BY <2>2, <2>5 DEF SearchEnd
      <3> QED
        BY <1>1, <2>1, <2>3, <2>5, <3>1
    <2> QED
      BY <2>4, <2>5
  <1> QED
    BY <1>3, <1>4 DEF Paced


\* While the edge is searched a history that reaches the threshold is cut.
LEMMA LongSearchDrops ==
    ASSUME WindowFits, NEW n \in NavStates, n.bitSyncPhase = NoSync,
           Paced(n.promptHistory, n.bitSyncSearchPositions, 1),
           n.promptHistory >= CompactThreshold
    PROVE  LET drop == DropSamples(n)
           IN  /\ drop \in Nat /\ drop > 0
               /\ drop >= CompactMinDrop /\ drop <= n.promptHistory
               /\ n.promptHistory - drop < CompactThreshold
  <1> DEFINE f == n.bitSyncSearchPositions
             S == {f[p] : p \in DOMAIN f}
             drop == DropSamples(n)
  <1>1. /\ BitPeriod \in Nat \ {0} /\ CompactMinDrop \in Nat /\ CompactThreshold \in Nat
        /\ n.promptHistory \in Nat /\ SubframeSamples \in Nat
        /\ SubframeSamples + CompactMinDrop + 3 * BitPeriod <= CompactThreshold
    BY NaturalFields, SubframeIsLong, ChannelAssumption DEF WindowFits
  <1>2. f \in [1 .. BitPeriod -> Nat] /\ f \in SearchVectors /\ f # <<>>
    BY <1>1 DEF Paced, SearchVectors
  <1>3. PICK q \in 1 .. BitPeriod : f[q] = Min(S)
    <2>1. S \in SUBSET Nat /\ f[1] \in S /\ \A x \in S : \E p \in 1 .. BitPeriod : f[p] = x
      BY <1>1, <1>2
    <2> QED
      BY <2>1, LeastElement, Zenon
  <1>4. drop = IF f[q] > 2 THEN (f[q] - 2) * BitPeriod ELSE 0
    BY <1>1, <1>2, <1>3 DEF DropSamples, NoSync
  <1>5. /\ n.promptHistory < SearchEnd(f, q) + 1
        /\ f[q] = 0 \/ SearchEnd(f, q) <= n.promptHistory + BitPeriod
    BY DEF Paced
  <1>6. /\ f[q] \in Nat /\ f[q] * BitPeriod \in Nat
        /\ SearchEnd(f, q) \in Nat
        /\ SubframeSamples <= SearchEnd(f, q) - f[q] * BitPeriod
        /\ SearchEnd(f, q) - f[q] * BitPeriod < SubframeSamples + BitPeriod
    BY <1>2, SearchEndIsNatural
  <1> HIDE DEF f, S, drop
  <1>7. PICK b \in Nat : b = f[q] * BitPeriod
    BY <1>6
  <1>8. b >= CompactMinDrop + 2 * BitPeriod + 1
    <2>1. PICK e \in Nat : e = SearchEnd(f, q)
      BY <1>6
    <2>2. n.promptHistory < e + 1 /\ e - b < SubframeSamples + BitPeriod
      BY <1>5, <1>6, <1>7, <2>1
    <2> QED
      BY <1>1, <2>1, <2>2, <1>7
  <1>9. (f[q] - 2) * BitPeriod = b - 2 * BitPeriod
    BY <1>1, <1>6, <1>7
  <1>10. f[q] > 2
    <2>1. b <= 2 * BitPeriod \/ f[q] > 2
      <3>1. f[q] = 0 \/ f[q] = 1 \/ f[q] = 2 \/ f[q] > 2
        BY <1>6
      <3>2. f[q] = 2 => b = 2 * BitPeriod
        BY <1>1, <1>7
      <3>3. f[q] = 1 => b = BitPeriod
        BY <1>1, <1>7
      <3>4. f[q] = 0 => b = 0
        BY <1>1, <1>7
      <3> QED
        BY <1>1, <3>1, <3>2, <3>3, <3>4
    <2> QED
      BY <1>1, <1>8, <2>1
  <1>11. drop = b - 2 * BitPeriod
    BY <1>4, <1>9, <1>10
  <1>12. b + SubframeSamples <= n.promptHistory + BitPeriod
    BY <1>1, <1>5, <1>6, <1>7, <1>10
  <1> QED
    BY <1>1, <1>5, <1>6, <1>7, <1>8, <1>11, <1>12 DEF drop

\* Compaction keeps the search where it is relative to the newest sample.
LEMMA SearchKeepsPace ==
    ASSUME WindowFits, NEW n \in NavStates, n.bitSyncPhase = NoSync,
           \/ NotSearched(n)
           \/ Paced(n.promptHistory, n.bitSyncSearchPositions, 1)
    PROVE  LET m == CompactNavigationHistory(n)
           IN  /\ m.promptHistory < CompactThreshold
               /\ Paced(m.promptHistory, SearchPositions(m), 1)
  <1> DEFINE drop == DropSamples(n)
             bits == drop \div BitPeriod
             m == CompactNavigationHistory(n)
             f == n.bitSyncSearchPositions
             g == m.bitSyncSearchPositions
  <1>1. /\ BitPeriod \in Nat \ {0} /\ CompactMinDrop \in Nat /\ CompactThreshold \in Nat
        /\ n.promptHistory \in Nat /\ SubframeSamples \in Nat \ {0}
        /\ CompactThreshold > 0 /\ ~(n.bitSyncPhase >= 0)
    BY NaturalFields, SubframeIsLong, ChannelAssumption DEF WindowFits, NoSync
  <1>2. /\ drop \in Nat /\ bits \in Nat /\ drop = bits * BitPeriod
        /\ drop > 0 => \A p \in 1 .. BitPeriod : bits + 2 <= f[p]
    BY SearchDrop
  <1>3. n.promptHistory < CompactThreshold => drop = 0
    BY DEF DropSamples
  <1>4. \/ m = n
        \/ /\ drop >= CompactMinDrop /\ drop <= n.promptHistory
           /\ m.promptHistory = n.promptHistory - drop
           /\ g = [p \in DOMAIN f |-> IF f[p] > bits THEN f[p] - bits ELSE 0]
    <2>1. CASE drop < CompactMinDrop \/ drop > n.promptHistory
      BY <2>1 DEF CompactNavigationHistory
    <2>2. CASE ~(drop < CompactMinDrop \/ drop > n.promptHistory)
      <3>1. drop >= CompactMinDrop /\ drop <= n.promptHistory
        BY <1>1, <1>2, <2>2
      <3>2. /\ m.promptHistory = n.promptHistory - drop
            /\ g = [p \in DOMAIN f |-> IF f[p] > bits THEN f[p] - bits ELSE 0]
        BY <1>1, <2>2 DEF CompactNavigationHistory, NavStates
      <3> QED
        BY <3>1, <3>2
    <2> QED
      BY <2>1, <2>2
  <1>5. CASE NotSearched(n)
    <2>1. f = <<>> /\ n.promptHistory = 0 /\ drop = 0
      BY <1>1, <1>3, <1>5 DEF NotSearched
    <2>2. m.promptHistory = 0 /\ g = <<>>
      BY <1>1, <1>4, <2>1
    <2> DEFINE z == [p \in 1 .. BitPeriod |-> 0]
    <2>3. SearchPositions(m) = z
      <3>1. Len(g) = 0
        BY <2>2
      <3> QED
        BY <1>1, <3>1 DEF SearchPositions
    <2>4. z \in SearchVectors /\ \A p \in 1 .. BitPeriod : z[p] = 0
      BY DEF SearchVectors
    <2> HIDE DEF z, m
    <2>5. ASSUME NEW p \in 1 .. BitPeriod PROVE 0 < SearchEnd(z, p) + 1
      BY <2>4, SearchEndIsNatural
    <2>6. Paced(0, z, 1)
      BY <2>4, <2>5 DEF Paced
    <2> QED
      BY <1>1, <2>2, <2>3, <2>6 DEF m
  <1>6. CASE Paced(n.promptHistory, f, 1)
    <2>1. f \in SearchVectors /\ f \in [1 .. BitPeriod -> Nat] /\ DOMAIN f = 1 .. BitPeriod
      BY <1>6 DEF Paced, SearchVectors
    <2>2. n.promptHistory >= CompactThreshold =>
             /\ drop > 0 /\ drop >= CompactMinDrop /\ drop <= n.promptHistory
             /\ n.promptHistory - drop < CompactThreshold
      BY <1>6, LongSearchDrops
    <2> HIDE DEF f
    <2>3. /\ m.promptHistory < CompactThreshold /\ g \in SearchVectors
          /\ Paced(m.promptHistory, g, 1)
      <3>1. CASE drop = 0
        <4>1. n.promptHistory < CompactThreshold /\ bits = 0
          BY <1>1, <1>2, <2>2, <3>1
        <4> HIDE DEF drop, bits, m
        <4>2. m.promptHistory = n.promptHistory /\ g = f
          <5>1. CASE m = n
            BY <5>1 DEF f
          <5>2. CASE /\ m.promptHistory = n.promptHistory - drop
                     /\ g = [p \in DOMAIN f |-> IF f[p] > bits THEN f[p] - bits ELSE 0]
            <6>1. \A p \in 1 .. BitPeriod :
                     (IF f[p] > bits THEN f[p] - bits ELSE 0) = f[p]
              BY <2>1, <4>1
            <6> QED
              BY <1>1, <2>1, <3>1, <5>2, <6>1
          <5> QED
            BY <1>4, <5>1, <5>2
        <4> QED
          BY <1>6, <2>1, <4>1, <4>2
      <3>2. CASE drop > 0
        <4>1. n.promptHistory >= CompactThreshold
          BY <1>1, <1>3, <3>2
        <4> HIDE DEF drop, bits
        <4>2. /\ m.promptHistory = n.promptHistory - drop
              /\ g = [p \in DOMAIN f |-> IF f[p] > bits THEN f[p] - bits ELSE 0]
          <5>1. ~(drop < CompactMinDrop \/ drop > n.promptHistory)
            BY <1>1, <1>2, <2>2, <4>1
          <5> QED
            BY <1>1, <5>1 DEF CompactNavigationHistory, NavStates, drop, bits, f
        <4> HIDE DEF m
        <4>3. \A p \in 1 .. BitPeriod : f[p] \in Nat /\ bits + 2 <= f[p]
          BY <1>2, <2>1, <3>2 DEF f
        <4>4. \A p \in 1 .. BitPeriod : g[p] = f[p] - bits /\ g[p] \in Nat
          BY <1>2, <2>1, <4>2, <4>3
        <4>5. g \in SearchVectors
          BY <2>1, <4>2, <4>4 DEF SearchVectors
        <4>6. ASSUME NEW p \in 1 .. BitPeriod
              PROVE  /\ m.promptHistory < SearchEnd(g, p) + 1
                     /\ g[p] = 0 \/ SearchEnd(g, p) <= m.promptHistory + BitPeriod
          <5>1. /\ n.promptHistory < SearchEnd(f, p) + 1
                /\ f[p] = 0 \/ SearchEnd(f, p) <= n.promptHistory + BitPeriod
                /\ f[p] # 0
            BY <1>2, <1>6, <4>3 DEF Paced
          <5>2. SearchEnd(f, p) \in Nat /\ f[p] \in Nat
            BY <2>1, SearchEndIsNatural
          <5>3. (f[p] - bits) * BitPeriod = f[p] * BitPeriod - drop
            BY <1>1, <1>2, <5>2
          <5>4. PICK b \in Nat : b = f[p] * BitPeriod
            BY <1>1, <5>2
          <5>5. PICK s \in Nat : s = SubframeSamples
            BY <1>1
          <5>6. SearchEnd(g, p) = (p - 1) + (b - drop) + s
            BY <4>4, <5>3, <5>4, <5>5 DEF SearchEnd
          <5>7. SearchEnd(f, p) = (p - 1) + b + s
            BY <5>4, <5>5 DEF SearchEnd
          <5>8. SearchEnd(g, p) = SearchEnd(f, p) - drop
            BY <1>1, <1>2, <5>4, <5>5, <5>6, <5>7
          <5> QED
            BY <1>1, <1>2, <4>2, <5>1, <5>2, <5>8
        <4> QED
          BY <1>1, <1>2, <2>2, <4>1, <4>2, <4>5, <4>6 DEF Paced
      <3> QED
        BY <1>2, <3>1, <3>2
    <2>4. SearchPositions(m) = g
      <3>1. Len(g) = BitPeriod
        BY <1>1, <2>3 DEF SearchVectors
      <3> QED
        BY <3>1 DEF SearchPositions
    <2> QED
      BY <2>3, <2>4
  <1> QED
    BY <1>5, <1>6


\* Once synced, a compacted history that is still long has its anchor near its
\* beginning.
LEMMA SyncedTail ==
    ASSUME NEW n \in NavStates, Aligned(n), n.bitSyncPhase >= 0,
           n.lastSubframeStartSample <= ReadSample(n),
           n.lastSubframeStartSample < n.promptHistory
    PROVE  LET m == CompactNavigationHistory(n)
           IN  /\ m.lastSubframeStartSample <= ReadSample(m)
               /\ m.promptHistory >= CompactThreshold =>
                     m.lastSubframeStartSample
                        < CompactMinDrop + n.bitSyncPhase + 3 * BitPeriod
  <1> DEFINE anchor == Min({n.lastSubframeStartSample, ReadSample(n)})
             margin == n.bitSyncPhase + 2 * BitPeriod
             drop == DropSamples(n)
             m == CompactNavigationHistory(n)
  <1>1. /\ n.bitSyncPhase \in Nat /\ n.lastSubframeStartSample \in Nat
        /\ n.navBitOffset \in Nat /\ n.promptHistory \in Nat
        /\ BitPeriod \in Nat \ {0} /\ CompactThreshold \in Nat /\ CompactMinDrop \in Nat
    BY ChannelAssumption DEF NavStates, Phases, NoSync
  <1>2. ReadSample(n) \in Nat
    BY <1>1 DEF ReadSample
  <1>3. anchor = n.lastSubframeStartSample
    <2>1. {n.lastSubframeStartSample, ReadSample(n)} \in SUBSET Nat
      BY <1>1, <1>2
    <2>2. /\ anchor \in {n.lastSubframeStartSample, ReadSample(n)}
          /\ anchor <= n.lastSubframeStartSample
      BY <2>1, LeastElement
    <2> HIDE DEF anchor
    <2> QED
      BY <1>1, <1>2, <2>2
  <1>4. /\ drop \in Nat
        /\ drop > 0 => drop <= n.lastSubframeStartSample
    BY SyncedDrop
  <1>5. m \in NavStates
        /\ m.promptHistory - m.lastSubframeStartSample
             = n.promptHistory - n.lastSubframeStartSample
        /\ m.promptHistory - ReadSample(m) = n.promptHistory - ReadSample(n)
        /\ m.bitSyncPhase = n.bitSyncPhase
    BY CompactionIsSound
  <1>6. \/ m = n /\ (drop < CompactMinDrop \/ drop > n.promptHistory)
        \/ m.promptHistory = n.promptHistory - drop
    <2>1. CASE drop < CompactMinDrop \/ drop > n.promptHistory
      BY <2>1 DEF CompactNavigationHistory
    <2>2. CASE ~(drop < CompactMinDrop \/ drop > n.promptHistory)
      BY <2>2 DEF CompactNavigationHistory, NavStates
    <2> QED
      BY <2>1, <2>2
  <1>7. n.promptHistory >= CompactThreshold =>
           n.lastSubframeStartSample - drop < margin + BitPeriod
    <2> SUFFICES ASSUME n.promptHistory >= CompactThreshold
                 PROVE  n.lastSubframeStartSample - drop < margin + BitPeriod
      OBVIOUS
    <2>1. drop = IF anchor > margin
                 THEN ((anchor - margin) \div BitPeriod) * BitPeriod ELSE 0
      BY <1>1 DEF DropSamples
    <2>2. CASE anchor > margin
      <3> DEFINE a == anchor - margin
      <3>1. a \in Nat /\ drop = (a \div BitPeriod) * BitPeriod
        BY <1>1, <1>3, <2>1, <2>2
      <3>2. a = n.lastSubframeStartSample - margin /\ margin \in Nat
        BY <1>1, <1>3
      <3> HIDE DEF a, drop, margin, anchor
      <3>3. a < (a \div BitPeriod) * BitPeriod + BitPeriod
        BY <1>1, <3>1
      <3> QED
        BY <1>1, <1>4, <3>1, <3>2, <3>3
    <2>3. CASE ~(anchor > margin)
      <3>1. n.lastSubframeStartSample <= margin /\ drop = 0
        BY <1>1, <1>3, <2>1, <2>3
      <3> QED
        BY <1>1, <3>1
    <2> QED
      BY <2>2, <2>3
  <1> HIDE DEF drop, m, anchor
  <1>8. /\ m.promptHistory \in Nat /\ m.lastSubframeStartSample \in Nat
        /\ m.navBitOffset \in Nat /\ m.bitSyncPhase \in Nat
    BY <1>1, <1>5 DEF NavStates
  <1>9. ReadSample(m) \in Nat
    BY <1>1, <1>8 DEF ReadSample
  <1>10. m.lastSubframeStartSample <= ReadSample(m)
    BY <1>1, <1>2, <1>5, <1>8, <1>9
  <1>11. ASSUME m.promptHistory >= CompactThreshold
         PROVE  m.lastSubframeStartSample
                   < CompactMinDrop + n.bitSyncPhase + 3 * BitPeriod
    <2>1. CASE m = n /\ (drop < CompactMinDrop \/ drop > n.promptHistory)
      <3>1. drop < CompactMinDrop
        BY <1>1, <1>4, <2>1
      <3> QED
        BY <1>1, <1>4, <1>7, <1>11, <2>1, <3>1
    <2>2. CASE m.promptHistory = n.promptHistory - drop
      BY <1>1, <1>4, <1>5, <1>7, <1>8, <1>11, <2>2
    <2> QED
      BY <1>6, <2>1, <2>2
  <1> QED
    BY <1>10, <1>11 DEF m

\* What updateNavigation finds after its compaction: a short history, or one
\* that little precedes its anchor in.
LEMMA CompactedHistory ==
    ASSUME WindowFits, NavInv, PaceInv, pc = "navigate"
    PROVE  LET n == CompactNavigationHistory(nav)
           IN  /\ n.bitSyncPhase >= 0 =>
                     /\ n.lastSubframeStartSample <= ReadSample(n)
                     /\ n.promptHistory >= CompactThreshold =>
                           n.promptHistory < truth.anchorAge + CompactMinDrop
                                               + nav.bitSyncPhase + 3 * BitPeriod
               /\ ~(n.bitSyncPhase >= 0) =>
                     /\ n.promptHistory < CompactThreshold
                     /\ Paced(n.promptHistory, SearchPositions(n), 1)
  <1> DEFINE n == CompactNavigationHistory(nav)
  <1>1. nav \in NavStates /\ Aligned(nav) /\ truth.anchorAge \in Nat
    BY DEF NavInv, Truths
  <1>2. /\ n \in NavStates /\ n.bitSyncPhase = nav.bitSyncPhase
        /\ n.bitSyncPhase >= 0 =>
             n.promptHistory - n.lastSubframeStartSample = truth.anchorAge
    BY AfterCompaction
  <1>3. ASSUME n.bitSyncPhase >= 0
        PROVE  /\ n.lastSubframeStartSample <= ReadSample(n)
               /\ n.promptHistory >= CompactThreshold =>
                     n.promptHistory < truth.anchorAge + CompactMinDrop
                                         + nav.bitSyncPhase + 3 * BitPeriod
    <2>1. /\ nav.bitSyncPhase >= 0
          /\ nav.lastSubframeStartSample <= ReadSample(nav)
          /\ nav.lastSubframeStartSample < nav.promptHistory
      BY <1>2, <1>3 DEF PaceInv, NavInv, AnchorInside
    <2>2. /\ n.lastSubframeStartSample <= ReadSample(n)
          /\ n.promptHistory >= CompactThreshold =>
                n.lastSubframeStartSample
                   < CompactMinDrop + nav.bitSyncPhase + 3 * BitPeriod
      BY <1>1, <2>1, SyncedTail
    <2>3. /\ n.promptHistory \in Nat /\ n.lastSubframeStartSample \in Nat
          /\ nav.bitSyncPhase \in Nat /\ BitPeriod \in Nat /\ CompactMinDrop \in Nat
          /\ CompactThreshold \in Nat
      BY <1>1, <1>2, <2>1, ChannelAssumption DEF NavStates, Phases, NoSync
    <2> HIDE DEF n
    <2> QED
      BY <1>1, <1>2, <1>3, <2>2, <2>3
  <1>4. ASSUME ~(n.bitSyncPhase >= 0)
        PROVE  /\ n.promptHistory < CompactThreshold
               /\ Paced(n.promptHistory, SearchPositions(n), 1)
    <2>1. nav.bitSyncPhase = NoSync /\ ~(nav.bitSyncPhase >= 0)
      BY <1>1, <1>2, <1>4, ChannelAssumption DEF NavStates, Phases
    <2>2. \/ NotSearched(nav)
          \/ Paced(nav.promptHistory, nav.bitSyncSearchPositions, 1)
      BY <2>1 DEF PaceInv
    <2> QED
      BY <1>1, <2>1, <2>2, SearchKeepsPace
  <1> QED
    BY <1>3, <1>4


LEMMA PaceInit == Init => PaceInv
  BY DEF Init, PaceInv, NotSearched, CleanNav, NoSync

LEMMA QuietKeepsPace ==
    ASSUME WindowFits, NavInv, PaceInv, NavigateQuietly PROVE PaceInv'
  <1>1. PICK n : n = CompactNavigationHistory(nav)
    OBVIOUS
  <1>2. pc = "navigate" /\ pc' = "track"
    BY DEF NavigateQuietly
  <1>3. n \in NavStates /\ n.bitSyncPhase = nav.bitSyncPhase
    BY <1>1, AfterCompaction
  <1>4. /\ n.bitSyncPhase >= 0 => n.lastSubframeStartSample <= ReadSample(n)
        /\ ~(n.bitSyncPhase >= 0) => Paced(n.promptHistory, SearchPositions(n), 1)
    BY <1>1, <1>2, CompactedHistory
  <1>5. CASE n.bitSyncPhase >= 0
    <2> DEFINE next == NextPosition(n, n.bitSyncPhase, n.navBitOffset)
    <2>1. nav' = [n EXCEPT !.navBitOffset = next]
      BY <1>1, <1>3, <1>5 DEF NavigateQuietly, NavStates
    <2>2. /\ n.bitSyncPhase \in Nat /\ n.navBitOffset \in Nat
          /\ n.lastSubframeStartSample \in Nat /\ BitPeriod \in Nat \ {0}
      BY <1>3, <1>5, ChannelAssumption DEF NavStates, Phases, NoSync
    <2>3. next \in Nat /\ (next = n.navBitOffset \/ next = n.navBitOffset + 1)
      BY <2>2 DEF NextPosition
    <2> HIDE DEF next
    <2>4. /\ nav'.navBitOffset = next /\ nav'.bitSyncPhase = n.bitSyncPhase
          /\ nav'.lastSubframeStartSample = n.lastSubframeStartSample
      BY <1>3, <2>1 DEF NavStates
    <2>5. next * BitPeriod >= n.navBitOffset * BitPeriod
      <3>1. (n.navBitOffset + 1) * BitPeriod = n.navBitOffset * BitPeriod + BitPeriod
        BY <2>2
      <3>2. n.navBitOffset * BitPeriod \in Nat
        BY <2>2
      <3> QED
        BY <2>2, <2>3, <3>1, <3>2
    <2>6. nav'.lastSubframeStartSample <= ReadSample(nav')
      <3>1. PICK x \in Nat : x = next * BitPeriod
        BY <2>2, <2>3
      <3>2. PICK y \in Nat : y = n.navBitOffset * BitPeriod
        BY <2>2
      <3>3. ReadSample(nav') = n.bitSyncPhase + x /\ ReadSample(n) = n.bitSyncPhase + y
        BY <2>4, <3>1, <3>2 DEF ReadSample
      <3> QED
        BY <1>4, <1>5, <2>2, <2>4, <2>5, <3>1, <3>2, <3>3
    <2> QED
      BY <1>5, <2>4, <2>6 DEF PaceInv
  <1>6. CASE ~(n.bitSyncPhase >= 0)
    <2> DEFINE g == [p \in 1 .. BitPeriod |-> NextPosition(n, p - 1, SearchPositions(n)[p])]
    <2>1. nav' = [n EXCEPT !.bitSyncSearchPositions = g]
      BY <1>1, <1>6 DEF NavigateQuietly
    <2>2. Paced(n.promptHistory, g, 0)
      BY <1>3, <1>4, <1>6, AttemptsKeepPace
    <2> HIDE DEF g
    <2>3. /\ nav'.bitSyncSearchPositions = g /\ nav'.bitSyncPhase = n.bitSyncPhase
          /\ nav'.promptHistory = n.promptHistory
      BY <1>3, <2>1 DEF NavStates
    <2> QED
      BY <1>2, <1>6, <2>2, <2>3 DEF PaceInv
  <1> QED
    BY <1>5, <1>6

\* A decoded subframe starts less than its own length behind the read position.
LEMMA DecodedKeepsPace ==
    ASSUME WindowFits, NEW phase \in Phases, NEW position \in Nat,
           NEW bestOffset \in -EdgeSearch .. EdgeSearch,
           nav'.bitSyncPhase = phase,
           nav'.navBitOffset = position + SubframeBits,
           nav'.lastSubframeStartSample = StartSample(phase, position, bestOffset)
    PROVE  PaceInv'
  <1>1. /\ phase \in Nat /\ BitPeriod \in Nat \ {0} /\ SubframeBits \in Nat
        /\ EdgeSearch \in Nat /\ bestOffset \in Int /\ bestOffset <= EdgeSearch
    BY ChannelAssumption DEF Phases
  <1>2. PICK b \in Nat : b = position * BitPeriod
    BY <1>1
  <1>3. PICK s \in Nat : s = SubframeSamples /\ s = SubframeBits * BitPeriod
    BY SubframeIsLong DEF SubframeSamples
  <1>4. (position + SubframeBits) * BitPeriod = b + s
    BY <1>1, <1>2, <1>3
  <1>5. /\ ReadSample(nav') = phase + (b + s)
        /\ nav'.lastSubframeStartSample = phase + b + bestOffset
    BY <1>2, <1>4 DEF ReadSample, StartSample
  <1>6. nav'.lastSubframeStartSample <= ReadSample(nav')
    BY <1>1, <1>2, <1>3, <1>5 DEF WindowFits
  <1> QED
    BY <1>1, <1>6 DEF PaceInv

LEMMA PaceStep ==
    ASSUME WindowFits, NavInv, LifeInv, PaceInv, [Next]_channelVars
    PROVE  PaceInv'
  <1>1. CASE InitTracking
    BY <1>1 DEF InitTracking, PaceInv, NotSearched, CleanNav, NoSync
  <1>2. ASSUME NEW good \in BOOLEAN, TrackBlock(good) PROVE PaceInv'
    <2>1. pc = "track" /\ pc' = IF m_state' = "Tracking" THEN "navigate" ELSE "track"
      BY <1>2 DEF TrackBlock
    <2>2. CASE m_state' = "Acquiring"
      <3>1. nav' = CleanNav
        BY <1>2, <2>2 DEF TrackBlock, NavAfterLockCheck
      <3> QED
        BY <2>2, <3>1 DEF PaceInv, NotSearched, CleanNav, NoSync
    <2>3. CASE m_state' # "Acquiring" /\ m_state = "Tracking"
      <3>1. nav' = AppendSample(nav) /\ m_state' = "Tracking" /\ nav \in NavStates
        BY <1>2, <2>3 DEF TrackBlock, NavAfterLockCheck, ConfirmStep, LossStep, NavInv
      <3>2. /\ nav'.promptHistory = nav.promptHistory + 1
            /\ nav'.bitSyncPhase = nav.bitSyncPhase
            /\ nav'.bitSyncSearchPositions = nav.bitSyncSearchPositions
            /\ nav'.navBitOffset = nav.navBitOffset
            /\ nav'.lastSubframeStartSample = nav.lastSubframeStartSample
        BY <3>1 DEF NavStates, AppendSample
      <3>3. CASE nav.bitSyncPhase >= 0
        BY <3>2, <3>3 DEF PaceInv, ReadSample
      <3>4. CASE ~(nav.bitSyncPhase >= 0)
        <4>1. Paced(nav.promptHistory, nav.bitSyncSearchPositions, 0)
          BY <2>1, <2>3, <3>4 DEF PaceInv
        <4> DEFINE f == nav.bitSyncSearchPositions
        <4>2. f \in SearchVectors
          BY <4>1 DEF Paced
        <4>3. ASSUME NEW p \in 1 .. BitPeriod
              PROVE  /\ nav.promptHistory + 1 < SearchEnd(f, p) + 1
                     /\ f[p] = 0 \/ SearchEnd(f, p) <= (nav.promptHistory + 1) + BitPeriod
          <5>1. /\ nav.promptHistory < SearchEnd(f, p) + 0
                /\ f[p] = 0 \/ SearchEnd(f, p) <= nav.promptHistory + BitPeriod
            BY <4>1 DEF Paced
          <5>2. SearchEnd(f, p) \in Nat /\ nav.promptHistory \in Nat /\ BitPeriod \in Nat
            BY <3>1, <4>2, SearchEndIsNatural, NaturalFields
          <5> QED
            BY <5>1, <5>2
        <4>4. Paced(nav.promptHistory + 1, f, 1)
          BY <4>2, <4>3 DEF Paced
        <4> QED
          BY <2>1, <3>1, <3>2, <3>4, <4>4 DEF PaceInv
      <3> QED
        BY <3>3, <3>4
    <2>4. CASE m_state' # "Acquiring" /\ m_state # "Tracking"
      <3>1. nav' = nav /\ nav = CleanNav
        BY <1>2, <2>4 DEF TrackBlock, NavAfterLockCheck, LifeInv, LostMeansForgotten
      <3> QED
        BY <2>1, <3>1 DEF PaceInv, NotSearched, CleanNav, NoSync
    <2> QED
      BY <2>2, <2>3, <2>4
  <1>3. CASE TrackBlockThrows
    <2>1. /\ pc = "track" /\ pc' = "navigate" /\ m_state = "Tracking"
          /\ UNCHANGED nav
      BY <1>3 DEF TrackBlockThrows
    <2>2. CASE nav.bitSyncPhase >= 0
      BY <2>1, <2>2 DEF PaceInv
    <2>3. CASE ~(nav.bitSyncPhase >= 0)
      <3> DEFINE f == nav.bitSyncSearchPositions
      <3>1. Paced(nav.promptHistory, f, 0)
        BY <2>1, <2>3 DEF PaceInv
      <3>2. f \in SearchVectors /\ nav.promptHistory \in Nat
        BY <3>1, NaturalFields DEF Paced, NavInv
      <3>3. ASSUME NEW p \in 1 .. BitPeriod
            PROVE  nav.promptHistory < SearchEnd(f, p) + 1
        <4>1. nav.promptHistory < SearchEnd(f, p) + 0 /\ SearchEnd(f, p) \in Nat
          BY <3>1, <3>2, SearchEndIsNatural DEF Paced
        <4> QED
          BY <3>2, <4>1
      <3>4. Paced(nav.promptHistory, f, 1)
        BY <3>1, <3>3 DEF Paced
      <3> QED
        BY <2>1, <2>3, <3>4 DEF PaceInv
    <2> QED
      BY <2>2, <2>3
  <1>4. CASE NavigateQuietly
    BY <1>4, QuietKeepsPace
  <1>5. ASSUME NEW d \in Subframes, NEW bestOffset \in -EdgeSearch .. EdgeSearch,
               DecodeSubframe(d, bestOffset)
        PROVE  PaceInv'
    <2>1. PICK n : n = CompactNavigationHistory(nav)
      OBVIOUS
    <2>2. n \in NavStates /\ n.bitSyncPhase >= 0
      BY <1>5, <2>1, AfterCompaction DEF DecodeSubframe
    <2>3. n.bitSyncPhase \in Phases /\ n.navBitOffset \in Nat
      BY <2>2, ChannelAssumption DEF NavStates, Phases, NoSync
    <2>4. /\ nav'.bitSyncPhase = n.bitSyncPhase
          /\ nav'.navBitOffset = n.navBitOffset + SubframeBits
          /\ nav'.lastSubframeStartSample
                = StartSample(n.bitSyncPhase, n.navBitOffset, bestOffset)
      BY <1>5, <2>1, <2>2 DEF DecodeSubframe, NavStates
    <2> QED
      BY <2>3, <2>4, DecodedKeepsPace
  <1>6. ASSUME NEW d \in Subframes, NEW bestOffset \in -EdgeSearch .. EdgeSearch,
               NEW phase \in Phases, BitSync(phase, d, bestOffset)
        PROVE  PaceInv'
    <2>1. PICK n : n = CompactNavigationHistory(nav)
      OBVIOUS
    <2>2. n \in NavStates /\ n.bitSyncPhase = NoSync
      BY <1>6, <2>1, AfterCompaction DEF BitSync
    <2>3. PICK position : position = SearchPositions(n)[phase + 1]
      OBVIOUS
    <2>4. position \in Nat
      <3>1. SearchPositions(n) \in SearchVectors
        BY <2>2, SearchVectorIsTotal DEF NoSync
      <3>2. phase + 1 \in 1 .. BitPeriod
        BY ChannelAssumption DEF Phases
      <3> QED
        BY <2>3, <3>1, <3>2 DEF SearchVectors
    <2>5. /\ nav'.bitSyncPhase = phase
          /\ nav'.navBitOffset = position + SubframeBits
          /\ nav'.lastSubframeStartSample = StartSample(phase, position, bestOffset)
      BY <1>6, <2>1, <2>2, <2>3 DEF BitSync, NavStates
    <2> QED
      BY <2>4, <2>5, DecodedKeepsPace
  <1>7. CASE AtBound \/ UNCHANGED channelVars
    BY <1>7 DEF AtBound, channelVars, PaceInv
  <1> QED
    BY <1>1, <1>2, <1>3, <1>4, <1>5, <1>6, <1>7 DEF Next, UpdateNavigation

\* compactNavigationHistory bounds the histories by what the decoder still needs:
\* while the bit edge is searched they never pass the threshold, and once synced
\* they pass it only by what followed the last decoded subframe.
THEOREM HistoryIsBounded ==
    ASSUME WindowFits
    PROVE  Spec => HistoryFollowsAnchor
  <1>1. NavInv /\ LifeInv /\ PaceInv /\ [Next]_channelVars => PaceInv'
    BY PaceStep
  <1>2. ASSUME NavInv, PaceInv, [Next]_channelVars
        PROVE  [pc = "navigate" /\ nav'.promptHistory >= CompactThreshold =>
                  /\ nav.bitSyncPhase >= 0
                  /\ nav'.promptHistory
                        < truth.anchorAge + CompactMinDrop + nav.bitSyncPhase
                            + 3 * BitPeriod
               ]_channelVars
    <2> SUFFICES ASSUME Next, pc = "navigate", nav'.promptHistory >= CompactThreshold
                 PROVE  /\ nav.bitSyncPhase >= 0
                        /\ nav'.promptHistory
                              < truth.anchorAge + CompactMinDrop + nav.bitSyncPhase
                                  + 3 * BitPeriod
      BY <1>2
    <2>1. PICK n : n = CompactNavigationHistory(nav)
      OBVIOUS
    <2>2. n \in NavStates /\ n.bitSyncPhase = nav.bitSyncPhase
      BY <1>2, <2>1, AfterCompaction
    <2>3. /\ n.bitSyncPhase >= 0 /\ n.promptHistory >= CompactThreshold =>
               n.promptHistory < truth.anchorAge + CompactMinDrop + nav.bitSyncPhase
                                   + 3 * BitPeriod
          /\ ~(n.bitSyncPhase >= 0) => n.promptHistory < CompactThreshold
      BY <1>2, <2>1, CompactedHistory
    <2>4. UpdateNavigation
      BY DEF Next, InitTracking, TrackBlock, TrackBlockThrows, AtBound
    <2>5. nav'.promptHistory = n.promptHistory
      BY <2>1, <2>2, <2>4
      DEF UpdateNavigation, NavigateQuietly, DecodeSubframe, BitSync, NavStates
    <2>6. n.promptHistory \in Nat /\ CompactThreshold \in Nat
      BY <2>2, ChannelAssumption DEF NavStates
    <2> QED
      BY <2>2, <2>3, <2>5, <2>6
  <1> QED
    BY <1>1, <1>2, PaceInit, ChannelInvariant, PTL DEF Spec, HistoryFollowsAnchor
=============================================================================
