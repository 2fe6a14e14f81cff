------------------------------- MODULE Channel -------------------------------
(***************************************************************************)
(* Tracking/GPSOpenClChannel: the life of one satellite channel.  It is    *)
(* acquired, confirmed, tracked and lost; while it is tracked every block  *)
(* appends one sample to three histories, the navigation decoder reads     *)
(* them bit by bit, and compactNavigationHistory drops their oldest part   *)
(* and rebases every position that points into them.                       *)
(*                                                                         *)
(* A history is its length.  Whether a block is good, whether the decoder  *)
(* finds a subframe where it looks, which one, and how far off the bit     *)
(* edge it starts are decided by the signal: nondeterministic here.        *)
(***************************************************************************)
EXTENDS Integers, Sequences, FiniteSets, FiniteSetsExt, Ephemeris

CONSTANTS
    BitPeriod,         \* GPS_NAV_CODE_PERIODS_PER_BIT (20)
    SubframeBits,      \* GPS_NAV_BITS_PER_SUBFRAME (300)
    EdgeSearch,        \* candidate start offsets around the bit edge (2)
    CompactThreshold,  \* NAV_HISTORY_COMPACT_THRESHOLD (30000)
    CompactMinDrop,    \* NAV_HISTORY_COMPACT_MIN_DROP (10000)
    MaxHistory,        \* bound: history length explored
    ConfirmDebounceBlocks, ConfirmTimeoutBlocks, LossDebounceBlocks

ASSUME ChannelAssumption ==
    /\ BitPeriod \in Nat \ {0} /\ SubframeBits \in Nat \ {0}
    /\ EdgeSearch \in Nat
    /\ CompactThreshold \in Nat /\ CompactMinDrop \in Nat
    /\ MaxHistory \in Nat
    /\ ConfirmDebounceBlocks \in Nat \ {0}
    /\ ConfirmTimeoutBlocks \in Nat \ {0}
    /\ LossDebounceBlocks \in Nat \ {0}

VARIABLES m_state, m_isAcquired,
          m_confirmProgress, m_lossProgress, m_blocksInConfirming,
          nav,         \* navigation state: histories and positions in them
          ephemeris,   \* m_accumulatedEphemeris and m_seenSubframeMask
          pc,          \* between blocks, or tracked and about to decode
          truth        \* history: where the positions really are, see below

lockVars == <<m_confirmProgress, m_lossProgress, m_blocksInConfirming>>
channelVars == <<m_state, m_isAcquired, m_confirmProgress, m_lossProgress,
                 m_blocksInConfirming, nav, ephemeris, pc, truth>>

NoSync == -1
Phases == 0 .. BitPeriod - 1
SubframeSamples == SubframeBits * BitPeriod

\* resetNavigationState
CleanNav ==
    [promptHistory |-> 0, codePhaseHistory |-> 0, cumulativeDriftHistory |-> 0,
     bitSyncPhase |-> NoSync, bitSyncSearchPositions |-> <<>>,
     navBitOffset |-> 0, lastSubframeStartSample |-> 0]

\* Once synced: samples since the start of the last decoded subframe, samples
\* not yet read by the decoder, and whether anything was ever dropped: counted from the
\* signal, not from the positions that compaction rewrites.
CleanTruth == [anchorAge |-> 0, unread |-> 0, compacted |-> FALSE]

Init ==
    /\ m_state = "Acquiring"
    /\ m_isAcquired = FALSE
    /\ m_confirmProgress = 0 /\ m_lossProgress = 0 /\ m_blocksInConfirming = 0
    /\ nav = CleanNav
    /\ ephemeris = NoEphemeris
    /\ pc = "track"
    /\ truth = CleanTruth

-----------------------------------------------------------------------------
(* Lifecycle *)

\* setAcquired and initTracking, from finalizeAcquisition
InitTracking ==
    /\ pc = "track"
    /\ m_state = "Acquiring"
    /\ m_isAcquired' = TRUE
    /\ m_state' = "Confirming"
    /\ m_confirmProgress' = 0 /\ m_lossProgress' = 0 /\ m_blocksInConfirming' = 0
    /\ nav' = CleanNav
    /\ ephemeris' = NoEphemeris
    /\ truth' = CleanTruth
    /\ UNCHANGED pc

LeakyStep(up, progress) ==
    IF up THEN progress + 1 ELSE IF progress > 0 THEN progress - 1 ELSE 0

\* Mutant: a good block restarts the confirmation timeout
MutTimeoutRestarts(good) ==
    /\ m_state = "Confirming"
    /\ m_confirmProgress' = LeakyStep(good, m_confirmProgress)
    /\ m_blocksInConfirming' = IF good THEN 0 ELSE m_blocksInConfirming + 1
    /\ \/ /\ m_confirmProgress' >= ConfirmDebounceBlocks
          /\ m_state' = "Tracking"
          /\ m_lossProgress' = 0
       \/ /\ m_confirmProgress' < ConfirmDebounceBlocks
          /\ m_blocksInConfirming' >= ConfirmTimeoutBlocks
          /\ m_state' = "Acquiring"
          /\ UNCHANGED m_lossProgress
       \/ /\ m_confirmProgress' < ConfirmDebounceBlocks
          /\ m_blocksInConfirming' < ConfirmTimeoutBlocks
          /\ UNCHANGED <<m_state, m_lossProgress>>

\* computeNextState in Confirming: two ways out and one way to stay
ConfirmStep(good) ==
    /\ m_state = "Confirming"
    /\ m_confirmProgress' = LeakyStep(good, m_confirmProgress)
    /\ m_blocksInConfirming' = m_blocksInConfirming + 1
    /\ \/ /\ m_confirmProgress' >= ConfirmDebounceBlocks
          /\ m_state' = "Tracking"
          /\ m_lossProgress' = 0
       \/ /\ m_confirmProgress' < ConfirmDebounceBlocks
          /\ m_blocksInConfirming' >= ConfirmTimeoutBlocks
          /\ m_state' = "Acquiring"
          /\ UNCHANGED m_lossProgress
       \/ /\ m_confirmProgress' < ConfirmDebounceBlocks
          /\ m_blocksInConfirming' < ConfirmTimeoutBlocks
          /\ UNCHANGED <<m_state, m_lossProgress>>

\* computeNextState in Tracking
LossStep(good) ==
    /\ m_state = "Tracking"
    /\ m_lossProgress' = LeakyStep(~good, m_lossProgress)
    /\ m_state' = IF m_lossProgress' >= LossDebounceBlocks
                  THEN "Acquiring" ELSE "Tracking"
    /\ UNCHANGED <<m_confirmProgress, m_blocksInConfirming>>

\* doWork and trackBlock append one sample to each history
AppendSample(n) ==
    [n EXCEPT !.promptHistory = @ + 1, !.codePhaseHistory = @ + 1,
              !.cumulativeDriftHistory = @ + 1]

\* Mutant: a lost channel keeps its navigation state
MutKeepsNav(lost, n) == n

\* evaluateLockState calls resetNavigationState when the lock is lost.
NavAfterLockCheck(lost, n) == IF lost THEN CleanNav ELSE n

\* trackBlock, with evaluateLockState: a channel that is lost forgets its
\* navigation state, the sample just appended included.
TrackBlock(good) ==
    /\ pc = "track"
    /\ m_isAcquired
    /\ nav.promptHistory < MaxHistory
    /\ ConfirmStep(good) \/ LossStep(good)
    /\ LET lost == m_state' = "Acquiring"
           grows == m_state = "Tracking"
       IN /\ m_isAcquired' = ~lost
          /\ nav' = NavAfterLockCheck(lost, IF grows THEN AppendSample(nav) ELSE nav)
          /\ ephemeris' = IF lost THEN NoEphemeris ELSE ephemeris
          /\ truth' = IF lost THEN CleanTruth
                      ELSE IF grows /\ nav.bitSyncPhase >= 0
                      THEN [truth EXCEPT !.anchorAge = @ + 1, !.unread = @ + 1]
                      ELSE truth
    /\ pc' = IF m_state' = "Tracking" THEN "navigate" ELSE "track"

\* trackBlock throws before it appends: no sample and no lock check this time
TrackBlockThrows ==
    /\ pc = "track"
    /\ m_state = "Tracking"
    /\ pc' = "navigate"
    /\ UNCHANGED <<m_state, m_isAcquired, lockVars, nav, ephemeris, truth>>

-----------------------------------------------------------------------------
(* updateNavigation: compaction first *)

ReadSample(n) == n.bitSyncPhase + n.navBitOffset * BitPeriod

\* Mutant: nothing is dropped while the bit edge is searched
MutCompactsOnlySynced(n) ==
    IF n.promptHistory < CompactThreshold \/ n.bitSyncPhase < 0 THEN 0
    ELSE LET anchor == Min({n.lastSubframeStartSample, ReadSample(n)})
             margin == n.bitSyncPhase + 2 * BitPeriod
         IN  IF anchor > margin
             THEN ((anchor - margin) \div BitPeriod) * BitPeriod ELSE 0

\* How much of the history the decoder no longer needs, in whole bits: while
\* synced everything but two bits before the last subframe and before the read
\* position; while searching, before the slowest of the candidate phases.
DropSamples(n) ==
    IF n.promptHistory < CompactThreshold THEN 0
    ELSE IF n.bitSyncPhase >= 0
    THEN LET anchor == Min({n.lastSubframeStartSample, ReadSample(n)})
             margin == n.bitSyncPhase + 2 * BitPeriod
         IN  IF anchor > margin
             THEN ((anchor - margin) \div BitPeriod) * BitPeriod ELSE 0
    ELSE IF n.bitSyncSearchPositions # <<>>
    THEN LET least == Min({n.bitSyncSearchPositions[p] :
                              p \in DOMAIN n.bitSyncSearchPositions})
         IN  IF least > 2 THEN (least - 2) * BitPeriod ELSE 0
    ELSE 0

\* Mutant: the anchor is not rebased
MutAnchorNotRebased(n) ==
    LET drop == DropSamples(n)
        dropBits == drop \div BitPeriod
        synced == n.bitSyncPhase >= 0
    IN  IF drop < CompactMinDrop \/ drop > n.promptHistory THEN n
        ELSE [n EXCEPT
                !.promptHistory = @ - drop,
                !.codePhaseHistory = @ - drop,
                !.cumulativeDriftHistory = @ - drop,
                !.navBitOffset = IF synced THEN @ - dropBits ELSE @,
                !.bitSyncSearchPositions =
                    IF synced THEN @
                    ELSE [p \in DOMAIN @ |-> IF @[p] > dropBits THEN @[p] - dropBits ELSE 0]]

\* compactNavigationHistory
CompactNavigationHistory(n) ==
    LET drop == DropSamples(n)
        dropBits == drop \div BitPeriod
        synced == n.bitSyncPhase >= 0
    IN  IF drop < CompactMinDrop \/ drop > n.promptHistory THEN n
        ELSE [n EXCEPT
                !.promptHistory = @ - drop,
                !.codePhaseHistory = @ - drop,
                !.cumulativeDriftHistory = @ - drop,
                !.lastSubframeStartSample = IF synced THEN @ - drop ELSE @,
                !.navBitOffset = IF synced THEN @ - dropBits ELSE @,
                !.bitSyncSearchPositions =
                    IF synced THEN @
                    ELSE [p \in DOMAIN @ |-> IF @[p] > dropBits THEN @[p] - dropBits ELSE 0]]

Compacts(n) == CompactNavigationHistory(n).promptHistory < n.promptHistory

-----------------------------------------------------------------------------
(* updateNavigation: then processPromptSignal and mergeSubframe *)

\* tryDecodeAtBitPosition: hadEnoughData
HadEnoughData(n, phase, position) ==
    phase + position * BitPeriod + SubframeSamples <= n.promptHistory

\* A failed attempt moves the position by one bit if it had enough data.
NextPosition(n, phase, position) ==
    IF HadEnoughData(n, phase, position) THEN position + 1 ELSE position

\* searchPositions[phase] is element phase + 1; assigned on first use
SearchPositions(n) ==
    IF Len(n.bitSyncSearchPositions) = BitPeriod THEN n.bitSyncSearchPositions
    ELSE [p \in 1 .. BitPeriod |-> 0]

\* subframeStartSample is the bit edge corrected by bestOffset, one of the few
\* candidates around it that the history has room for.
StartSample(phase, position, bestOffset) == phase + position * BitPeriod + bestOffset

CandidateFits(n, start) == start >= 0 /\ start + SubframeSamples <= n.promptHistory

NavigateQuietly ==
    /\ pc = "navigate"
    /\ LET n == CompactNavigationHistory(nav) IN
       /\ nav' =
            IF n.bitSyncPhase >= 0
            THEN [n EXCEPT !.navBitOffset = NextPosition(n, n.bitSyncPhase, @)]
            ELSE [n EXCEPT !.bitSyncSearchPositions =
                     [p \in 1 .. BitPeriod |->
                         NextPosition(n, p - 1, SearchPositions(n)[p])]]
       /\ truth' =
            [truth EXCEPT !.compacted = @ \/ Compacts(nav),
                          !.unread = IF n.bitSyncPhase >= 0 /\
                                        HadEnoughData(n, n.bitSyncPhase, n.navBitOffset)
                                     THEN @ - BitPeriod ELSE @]
    /\ pc' = "track"
    /\ UNCHANGED <<m_state, m_isAcquired, lockVars, ephemeris>>

\* The rest of updateNavigation once a subframe was decoded
Merges(d) ==
    /\ ephemeris' = MergeSubframe(d, ephemeris)
    /\ pc' = "track"
    /\ UNCHANGED <<m_state, m_isAcquired, lockVars>>

\* Synced: the next subframe decodes where it is expected.
DecodeSubframe(d, bestOffset) ==
    /\ pc = "navigate"
    /\ nav.bitSyncPhase >= 0
    /\ LET n == CompactNavigationHistory(nav)
           start == StartSample(n.bitSyncPhase, n.navBitOffset, bestOffset)
       IN /\ HadEnoughData(n, n.bitSyncPhase, n.navBitOffset)
          /\ CandidateFits(n, start)
          /\ nav' = [n EXCEPT !.navBitOffset = @ + SubframeBits,
                              !.lastSubframeStartSample = start]
          /\ truth' = [anchorAge |-> n.promptHistory - start,
                       unread |-> truth.unread - SubframeSamples,
                       compacted |-> truth.compacted \/ Compacts(nav)]
    /\ Merges(d)

\* Searching: the candidate phases are tried in turn, and the first subframe
\* that decodes fixes the phase for good.
BitSync(phase, d, bestOffset) ==
    /\ pc = "navigate"
    /\ nav.bitSyncPhase = NoSync
    /\ LET n == CompactNavigationHistory(nav)
           search == SearchPositions(n)
           position == search[phase + 1]
           start == StartSample(phase, position, bestOffset)
       IN /\ HadEnoughData(n, phase, position)
          /\ CandidateFits(n, start)
          /\ nav' = [n EXCEPT
                       !.bitSyncPhase = phase,
                       !.navBitOffset = position + SubframeBits,
                       !.lastSubframeStartSample = start,
                       !.bitSyncSearchPositions =
                          [p \in 1 .. BitPeriod |->
                             IF p <= phase THEN NextPosition(n, p - 1, search[p])
                             ELSE search[p]]]
          /\ truth' = [anchorAge |-> n.promptHistory - start,
                       unread |-> n.promptHistory - phase
                                    - (position + SubframeBits) * BitPeriod,
                       compacted |-> truth.compacted \/ Compacts(nav)]
    /\ Merges(d)

-----------------------------------------------------------------------------
UpdateNavigation ==
    \/ NavigateQuietly
    \/ \E d \in Subframes, bestOffset \in -EdgeSearch .. EdgeSearch :
          \/ DecodeSubframe(d, bestOffset)
          \/ \E phase \in Phases : BitSync(phase, d, bestOffset)

\* The exploration stops here, not the receiver.
AtBound ==
    /\ pc = "track" /\ nav.promptHistory >= MaxHistory
    /\ UNCHANGED channelVars

Next ==
    \/ InitTracking
    \/ \E good \in BOOLEAN : TrackBlock(good)
    \/ TrackBlockThrows
    \/ UpdateNavigation
    \/ AtBound

Spec == Init /\ [][Next]_channelVars

\* Blocks keep coming; nothing obliges a search to succeed.
FairSpec ==
    /\ Spec
    /\ WF_channelVars(\E good \in BOOLEAN : TrackBlock(good))
    /\ WF_channelVars(UpdateNavigation)

-----------------------------------------------------------------------------
TypeOK ==
    /\ m_state \in {"Acquiring", "Confirming", "Tracking"}
    /\ m_isAcquired \in BOOLEAN
    /\ m_confirmProgress \in 0 .. ConfirmDebounceBlocks
    /\ m_lossProgress \in 0 .. LossDebounceBlocks
    /\ m_blocksInConfirming \in 0 .. ConfirmTimeoutBlocks
    /\ nav.promptHistory \in Nat /\ nav.codePhaseHistory \in Nat
    /\ nav.cumulativeDriftHistory \in Nat
    /\ nav.bitSyncPhase \in Phases \cup {NoSync}
    /\ nav.bitSyncSearchPositions = <<>>
       \/ nav.bitSyncSearchPositions \in [1 .. BitPeriod -> Nat]
    /\ nav.navBitOffset \in Nat /\ nav.lastSubframeStartSample \in Nat
    /\ ephemeris.seen \subseteq Accumulated
    /\ pc \in {"track", "navigate"}
    /\ truth.anchorAge \in Nat /\ truth.unread \in Int /\ truth.compacted \in BOOLEAN

\* Outside Tracking nothing of an earlier lock survives: no history, anchor,
\* bit sync or ephemeris can leak into the next acquisition of the satellite.
LostMeansForgotten ==
    /\ m_isAcquired <=> m_state # "Acquiring"
    /\ m_state # "Tracking" => nav = CleanNav /\ ephemeris = NoEphemeris

\* Compaction rewrites positions without moving them: the age of the last
\* subframe, from which MeasurementAssembler computes the transmit time, and
\* the decoder's distance to the newest sample are what the signal says.
PositionsSurviveCompaction ==
    nav.bitSyncPhase >= 0 =>
        /\ nav.promptHistory - nav.lastSubframeStartSample = truth.anchorAge
        /\ nav.promptHistory - ReadSample(nav) = truth.unread

\* The three histories stay aligned one to one, and the anchor points into them.
HistoriesAligned ==
    /\ nav.codePhaseHistory = nav.promptHistory
    /\ nav.cumulativeDriftHistory = nav.promptHistory
    /\ nav.bitSyncPhase >= 0 => nav.lastSubframeStartSample < nav.promptHistory

\* Once anything was dropped every position that may be decoded next has the
\* two preceding bits D29 and D30 in the history (bitPosition >= 2), so the
\* parity of its first word is checked against them.
LookBackIsKept ==
    truth.compacted =>
        IF nav.bitSyncPhase >= 0 THEN nav.navBitOffset >= 2
        ELSE \A p \in DOMAIN nav.bitSyncSearchPositions :
                nav.bitSyncSearchPositions[p] >= 2

\* Compaction of a history that any pattern of decoded and missed subframes may
\* precede is invisible: to the transmit times, to the three parallel vectors
\* and to the parity of the next word.
CompactionIsSafe ==
    PositionsSurviveCompaction /\ HistoriesAligned /\ LookBackIsKept

\* What limits the history: updateNavigation leaves it longer than the threshold
\* only when it consists of little more than what followed the last decoded
\* subframe, so it keeps growing only while no subframe decodes.
HistoryFollowsAnchor ==
    [][pc = "navigate" /\ nav'.promptHistory >= CompactThreshold =>
         /\ nav.bitSyncPhase >= 0
         /\ nav'.promptHistory
               < truth.anchorAge + CompactMinDrop + nav.bitSyncPhase + 3 * BitPeriod
      ]_channelVars

\* The subframes marked as seen belong to one data set, so a complete ephemeris
\* never mixes two uploads.
EphemerisIsConsistent ==
    \A s, t \in ephemeris.seen :
        IssueOfData(ephemeris, s) = IssueOfData(ephemeris, t)

\* Whatever was accumulated before, one pass over a data set, its subframes in
\* any order, completes the ephemeris.
OnePassCompletes ==
    \A iodc \in Iodcs, a, b, c \in Accumulated :
        {a, b, c} = Accumulated =>
            HasCompleteEphemeris(
                MergeSubframe(Subframe(c, iodc),
                    MergeSubframe(Subframe(b, iodc),
                        MergeSubframe(Subframe(a, iodc), ephemeris))))

\* No order of subframes, across uploads and losses of lock, mixes two data sets
\* or leaves mergeSubframe in a state that one clean pass does not repair.
EphemerisIsSound == EphemerisIsConsistent /\ OnePassCompletes

\* A channel does not stay in Confirming: it is confirmed or given up.
ConfirmingEnds == m_state = "Confirming" ~> m_state # "Confirming"
=============================================================================
