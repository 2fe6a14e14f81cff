-------------------------- MODULE ApplicationProofs --------------------------
(***************************************************************************)
(* Proofs about module Application, for any number of channels, any queue  *)
(* capacities, any threshold and any re-acquisition interval.              *)
(*                                                                         *)
(* SingleFlight is not inductive alone: that the worker's tryPush of a     *)
(* result succeeds, and that a job in flight is never dispatched again,    *)
(* need each other.  AppInv adds the contents of the queues.               *)
(***************************************************************************)
EXTENDS Application, SequenceTheorems, TLAPS

\* One search at a time leaves only three shapes of the two queues.
QueueShapes ==
    \/ jobs = <<>> /\ results = <<>>
    \/ \E c \in Channels : jobs = <<c>> /\ results = <<>> /\ ~WorkerHoldsJob
    \/ \E c \in Channels : jobs = <<>> /\ results = <<c>> /\ ~WorkerHoldsJob

InFlightFlag ==
    (jobs # <<>> \/ results # <<>> \/ WorkerHoldsJob)
      <=> (m_acquisitionBusy \/ pc = "setBusy")

DispatchIsFree == pc = "setBusy" => ~m_acquisitionBusy

AppInv ==
    /\ TypeOK
    /\ QueueShapes
    /\ InFlightFlag
    /\ DispatchIsFree
    /\ SearchedChannelIsAcquiring

-----------------------------------------------------------------------------
LEMMA OneElement ==
    ASSUME NEW S, NEW c \in S
    PROVE  /\ <<c>> \in Seq(S) /\ Len(<<c>>) = 1 /\ <<c>>[1] = c
           /\ <<c>> # <<>> /\ Head(<<c>>) = c /\ Tail(<<c>>) = <<>>
           /\ Append(<<>>, c) = <<c>> /\ DOMAIN <<c>> = {1}
  OBVIOUS

LEMMA NoElement ==
    ASSUME NEW S
    PROVE  <<>> \in Seq(S) /\ Len(<<>>) = 0 /\ DOMAIN <<>> = {}
  OBVIOUS

LEMMA ShapesCount ==
    ASSUME QueueShapes, InFlightFlag
    PROVE  SingleFlight
  <1>1. CASE jobs = <<>> /\ results = <<>>
    BY <1>1, NoElement DEF SingleFlight, SearchesInFlight, InFlightFlag
  <1>2. ASSUME NEW c \in Channels, jobs = <<c>>, results = <<>>, ~WorkerHoldsJob
        PROVE  SingleFlight
    BY <1>2, NoElement, OneElement DEF SingleFlight, SearchesInFlight, InFlightFlag
  <1>3. ASSUME NEW c \in Channels, jobs = <<>>, results = <<c>>, ~WorkerHoldsJob
        PROVE  SingleFlight
    BY <1>3, NoElement, OneElement DEF SingleFlight, SearchesInFlight, InFlightFlag
  <1> QED
    BY <1>1, <1>2, <1>3 DEF QueueShapes

-----------------------------------------------------------------------------
\* The step of each action; the queues change shape only in four of them.
LEMMA InitIsSafe == Init => AppInv
  BY ApplicationAssumption, NoElement
  DEF Init, AppInv, TypeOK, QueueShapes, InFlightFlag, DispatchIsFree,
      SearchedChannelIsAcquiring, WorkerHoldsJob, Channels, NoChannel

LEMMA SearchTarget ==
    ASSUME TypeOK
    PROVE  ChannelToSearch \in Channels \cup {NoChannel}
  <1>1. SlotWidth \in Nat \ {0}
    BY ApplicationAssumption DEF SlotWidth
  <1>2. m_currentBlockIndex \div SlotWidth \in Nat
    BY <1>1, ApplicationAssumption DEF TypeOK
  <1>3. (m_currentBlockIndex \div SlotWidth) % NumChannels \in Channels
    BY <1>2, ApplicationAssumption DEF Channels
  <1> QED
    BY <1>3, ApplicationAssumption DEF ChannelToSearch, TypeOK, Channels, NoChannel

LEMMA StepIsSafe == AppInv /\ [Next]_appVars => AppInv'
  <1> SUFFICES ASSUME AppInv, [Next]_appVars PROVE AppInv'
    OBVIOUS
  <1> USE ApplicationAssumption, NoElement, OneElement
  <1> USE DEF AppInv, TypeOK, QueueShapes, InFlightFlag, DispatchIsFree,
              SearchedChannelIsAcquiring, WorkerHoldsJob, channelVars, sweepVars
  <1>1. CASE BlockWithResult
    <2>1. PICK c \in Channels : jobs = <<>> /\ results = <<c>> /\ ~WorkerHoldsJob
      BY <1>1 DEF BlockWithResult
    <2>2. /\ jobs' = <<>> /\ results' = <<>> /\ ~WorkerHoldsJob'
          /\ m_acquisitionBusy' = FALSE /\ pc' = "dispatch"
      BY <1>1, <2>1 DEF BlockWithResult
    <2>3. m_state' \in [Channels -> {"Acquiring", "Confirming", "Tracking"}]
      BY <1>1, <2>1 DEF BlockWithResult, FinalizeAcquisition
    <2>4. searched' \subseteq Channels
      BY <1>1, <2>1 DEF BlockWithResult, FinalizeAcquisition
    <2>5. UNCHANGED <<m_acquisitionCN0, stale, sweepVars, jobsFinished, workerPc, job>>
      BY <1>1 DEF BlockWithResult, FinalizeAcquisition
    <2>6. /\ jobs' \in Seq(Channels) /\ Len(jobs') <= JobCapacity
          /\ results' \in Seq(Channels) /\ Len(results') <= ResultCapacity
      BY <2>2
    <2>7. /\ m_acquisitionCN0' \in [Channels -> Levels \cup {0}]
          /\ m_nextAcquisitionChannel' \in 0 .. NumChannels
          /\ m_coldStartSweepDone' \in BOOLEAN
          /\ m_currentBlockIndex' \in 0 .. BlockPeriod - 1
          /\ jobsFinished' \in BOOLEAN
          /\ workerPc' \in {"pop", "reset", "correlate", "report", "exited"}
          /\ job' \in Channels \cup {NoChannel}
          /\ stale' \subseteq Channels
      BY <2>5
    <2>8. TypeOK'
      BY <2>2, <2>3, <2>4, <2>6, <2>7
    <2> QED
      BY <2>2, <2>8
  <1>2. CASE BlockWithoutResult
    BY <1>2 DEF BlockWithoutResult
  <1>3. CASE DispatchWhileBusy
    BY <1>3 DEF DispatchWhileBusy
  <1>4. CASE DispatchNothing
    BY <1>4 DEF DispatchNothing, AdvanceSweep
  <1>5. CASE DispatchJob
    <2>1. PICK c \in Channels : c = ChannelToSearch /\ m_state[c] = "Acquiring"
      BY <1>5, SearchTarget DEF DispatchJob, CanHandOver
    <2>2. jobs = <<>> /\ results = <<>> /\ ~WorkerHoldsJob
      BY <1>5 DEF DispatchJob
    <2>3. /\ jobs' = <<c>> /\ results' = <<>> /\ ~WorkerHoldsJob'
          /\ stale' = stale \cup {c} /\ pc' = "setBusy"
          /\ UNCHANGED <<m_state, m_acquisitionBusy>>
      BY <1>5, <2>1, <2>2 DEF DispatchJob
    <2>4. TypeOK'
      BY <1>5, <2>1, <2>3 DEF DispatchJob, AdvanceSweep
    <2>5. SearchedChannelIsAcquiring'
      BY <2>1, <2>3
    <2> QED
      BY <1>5, <2>3, <2>4, <2>5 DEF DispatchJob
  <1>6. CASE SetBusy
    BY <1>6 DEF SetBusy
  <1>7. CASE TrackSatellites
    <2>1. \A c \in Channels : m_state[c] = "Acquiring" => m_state'[c] = "Acquiring"
      BY <1>7 DEF TrackSatellites, NextStates
    <2>2. UNCHANGED <<jobs, results, workerPc, job, m_acquisitionBusy>> /\ pc' = "idle"
      BY <1>7 DEF TrackSatellites
    <2>3. TypeOK'
      BY <1>7 DEF TrackSatellites
    <2>4. SearchedChannelIsAcquiring'
      BY <2>1, <2>2
    <2> QED
      BY <1>7, <2>2, <2>3, <2>4 DEF TrackSatellites
  <1>8. CASE Destroy
    BY <1>8 DEF Destroy
  <1>9. CASE Join
    BY <1>9 DEF Join
  <1>10. CASE PopJob
    BY <1>10 DEF PopJob
  <1>11. CASE ResetAcquisitionMetrics
    BY <1>11 DEF ResetAcquisitionMetrics
  <1>12. ASSUME NEW level \in Levels, InsertAcquisitionMetrics(level) PROVE AppInv'
    BY <1>12 DEF InsertAcquisitionMetrics
  <1>13. CASE CorrelateFails
    BY <1>13 DEF CorrelateFails
  <1>14. CASE PushResult
    BY <1>14 DEF PushResult
  <1>15. CASE WorkerExits
    BY <1>15 DEF WorkerExits
  <1>16. CASE UNCHANGED appVars
    BY <1>16 DEF appVars
  <1> QED
    BY <1>1, <1>2, <1>3, <1>4, <1>5, <1>6, <1>7, <1>8, <1>9, <1>10, <1>11, <1>12, <1>13, <1>14, <1>15, <1>16
    DEF Next, ProcessBlock, WorkerStep, Destroyed

-----------------------------------------------------------------------------
\* The inductive invariant of the hand-off.
THEOREM AppInvariant == Spec => []AppInv
  BY InitIsSafe, StepIsSafe, PTL DEF Spec

\* The acquisition thread and the consumer have exactly one search between
\* them while m_acquisitionBusy is set, so the unchecked tryPush of the result
\* queue always succeeds.
THEOREM OneSearchAtATime == Spec => []SingleFlight
  <1>1. AppInv => SingleFlight
    BY ShapesCount DEF AppInv
  <1> QED
    BY <1>1, AppInvariant, PTL

\* The channel under search is never one that the tracking pool works on.
THEOREM SearchExcludesTracking == Spec => []SearchedChannelIsAcquiring
  <1>1. AppInv => SearchedChannelIsAcquiring
    BY DEF AppInv
  <1> QED
    BY <1>1, AppInvariant, PTL

-----------------------------------------------------------------------------
(* The metrics and the cold-start sweep.  Both ride on the hand-off: what   *)
(* is in flight is exactly one channel, and it is Acquiring.                *)

InFlight(c) ==
    \/ \E i \in DOMAIN jobs : jobs[i] = c
    \/ \E i \in DOMAIN results : results[i] = c
    \/ WorkerHoldsJob /\ job = c

\* A metric is older than the search in flight only until the worker resets it.
StaleIsQueued ==
    \A c \in stale : (\E i \in DOMAIN jobs : jobs[i] = c) \/ (workerPc = "reset" /\ job = c)

TrackedAreAboveThreshold ==
    \A c \in Channels : m_state[c] # "Acquiring" => m_acquisitionCN0[c] >= Threshold

\* A channel leaves Acquiring only by a search that was applied.
TrackedAreSearched ==
    \A c \in Channels : m_state[c] # "Acquiring" => c \in searched

\* What the cursor has passed is searched, or is being searched now.
SweepLeavesNoGap ==
    ~m_coldStartSweepDone =>
        \A c \in Channels : c < m_nextAcquisitionChannel => c \in searched \/ InFlight(c)

FinishedMeansLeaving == jobsFinished => Leaving

SweepInv ==
    /\ StaleIsQueued
    /\ TrackedAreAboveThreshold
    /\ TrackedAreSearched
    /\ SweepLeavesNoGap
    /\ FinishedMeansLeaving
    /\ ColdStartIsComplete

LEMMA SweepInit == Init => SweepInv
  BY ApplicationAssumption, NoElement
  DEF Init, SweepInv, StaleIsQueued, TrackedAreAboveThreshold, TrackedAreSearched,
      SweepLeavesNoGap, FinishedMeansLeaving, ColdStartIsComplete, Channels

\* A dispatch that finds the worker free finds nothing in flight.
LEMMA FreeMeansEmpty ==
    ASSUME AppInv, pc = "dispatch", ~m_acquisitionBusy
    PROVE  /\ jobs = <<>> /\ results = <<>> /\ ~WorkerHoldsJob
           /\ \A c \in Channels : ~InFlight(c)
  BY NoElement DEF AppInv, InFlightFlag, InFlight

\* The sweep ends with nothing in flight, so all that the cursor has passed,
\* every channel, is searched.
LEMMA SweepEnds ==
    ASSUME AppInv, SweepInv, pc = "dispatch", ~m_acquisitionBusy, AdvanceSweep,
           UNCHANGED searched
    PROVE  ColdStartIsComplete'
  <1>1. CASE m_coldStartSweepDone
    BY <1>1 DEF SweepInv, ColdStartIsComplete, Channels
  <1>2. CASE ~m_coldStartSweepDone /\ m_nextAcquisitionChannel >= NumChannels
    <2>1. \A c \in Channels : c < m_nextAcquisitionChannel
      BY <1>2, ApplicationAssumption DEF AppInv, TypeOK, Channels
    <2>2. Channels \subseteq searched
      BY <1>2, <2>1, FreeMeansEmpty DEF SweepInv, SweepLeavesNoGap
    <2> QED
      BY <2>2 DEF AppInv, TypeOK, ColdStartIsComplete, Channels
  <1>3. CASE ~m_coldStartSweepDone /\ ~(m_nextAcquisitionChannel >= NumChannels)
    BY <1>3 DEF AdvanceSweep, ColdStartIsComplete
  <1> QED
    BY <1>1, <1>2, <1>3

LEMMA CursorMoves ==
    ASSUME TypeOK, AdvanceSweep, ~m_coldStartSweepDone'
    PROVE  /\ ~m_coldStartSweepDone /\ m_nextAcquisitionChannel < NumChannels
           /\ m_nextAcquisitionChannel' = m_nextAcquisitionChannel + 1
  <1>1. ~(m_coldStartSweepDone \/ m_nextAcquisitionChannel >= NumChannels)
    BY Zenon DEF AdvanceSweep
  <1>2. ~m_coldStartSweepDone /\ ~(m_nextAcquisitionChannel >= NumChannels)
    BY <1>1
  <1>3. m_nextAcquisitionChannel < NumChannels
    BY <1>2, ApplicationAssumption DEF TypeOK
  <1> QED
    BY <1>2, <1>3 DEF AdvanceSweep

LEMMA SweepStep == AppInv /\ SweepInv /\ [Next]_appVars => SweepInv'
  <1> SUFFICES ASSUME AppInv, SweepInv, [Next]_appVars PROVE SweepInv'
    OBVIOUS
  <1> USE ApplicationAssumption, NoElement, OneElement
  <1> USE DEF SweepInv, StaleIsQueued, TrackedAreAboveThreshold, TrackedAreSearched,
              SweepLeavesNoGap, FinishedMeansLeaving, ColdStartIsComplete, InFlight,
              Leaving, WorkerHoldsJob, channelVars, sweepVars
  <1>t. TypeOK
    BY DEF AppInv
  <1>1. CASE BlockWithResult
    <2>1. PICK c \in Channels : jobs = <<>> /\ results = <<c>> /\ ~WorkerHoldsJob
      BY <1>1 DEF BlockWithResult, AppInv, QueueShapes
    <2>2. /\ jobs' = <<>> /\ results' = <<>> /\ searched' = searched \cup {c}
          /\ m_state' = IF m_acquisitionCN0[c] >= Threshold
                        THEN [m_state EXCEPT ![c] = "Confirming"] ELSE m_state
          /\ UNCHANGED <<m_acquisitionCN0, stale, sweepVars, jobsFinished, workerPc, job>>
          /\ pc' = "dispatch" /\ pc = "idle"
      BY <1>1, <2>1 DEF BlockWithResult, FinalizeAcquisition
    <2>3. StaleIsQueued'
      BY <2>1, <2>2
    <2>4. TrackedAreAboveThreshold' /\ TrackedAreSearched'
      BY <2>2, <1>t DEF TypeOK
    <2>5. SweepLeavesNoGap'
      BY <2>1, <2>2
    <2>6. ColdStartIsComplete' /\ FinishedMeansLeaving'
      BY <2>2, <1>t DEF Channels, TypeOK
    <2> QED
      BY <2>3, <2>4, <2>5, <2>6
  <1>2. CASE BlockWithoutResult
    BY <1>2 DEF BlockWithoutResult, Channels
  <1>3. CASE DispatchWhileBusy
    BY <1>3 DEF DispatchWhileBusy, Channels
  <1>4. CASE DispatchNothing
    <2>1. /\ pc = "dispatch" /\ ~m_acquisitionBusy /\ AdvanceSweep /\ pc' = "track"
          /\ UNCHANGED <<m_state, m_acquisitionCN0, stale, searched, jobs, results,
                         jobsFinished, workerPc, job>>
      BY <1>4 DEF DispatchNothing
    <2>2. jobs = <<>> /\ results = <<>> /\ \A c \in Channels : ~InFlight(c)
      BY <2>1, FreeMeansEmpty
    <2>3. ColdStartIsComplete'
      BY <2>1, SweepEnds
    <2>4. SweepLeavesNoGap'
      <3>1. SUFFICES ASSUME ~m_coldStartSweepDone', NEW c \in Channels,
                            c < m_nextAcquisitionChannel'
                     PROVE  c \in searched
        BY <2>1
      <3>2. /\ ~m_coldStartSweepDone /\ m_nextAcquisitionChannel < NumChannels
            /\ m_nextAcquisitionChannel' = m_nextAcquisitionChannel + 1
        BY <3>1, <2>1, <1>t, CursorMoves
      <3>3. CASE c < m_nextAcquisitionChannel
        BY <3>2, <3>3, <2>2
      <3>4. CASE c = m_nextAcquisitionChannel
        <4>1. ChannelToSearch = c /\ c # NoChannel
          BY <3>2, <3>4 DEF ChannelToSearch, NoChannel, Channels
        <4>2. Len(jobs) < JobCapacity /\ ~jobsFinished
          BY <2>1, <2>2
        <4>3. m_state[c] # "Acquiring"
          BY <1>4, <4>1, <4>2 DEF DispatchNothing, CanHandOver
        <4> QED
          BY <4>3
      <3> QED
        BY <3>1, <3>2, <3>3, <3>4, <1>t DEF TypeOK, Channels
    <2> QED
      BY <2>1, <2>3, <2>4
  <1>5. CASE DispatchJob
    <2>1. /\ pc = "dispatch" /\ ~m_acquisitionBusy /\ AdvanceSweep
          /\ UNCHANGED <<m_state, m_acquisitionCN0, searched, results,
                         jobsFinished, workerPc, job>>
          /\ stale' = stale \cup {ChannelToSearch}
          /\ jobs' = Append(jobs, ChannelToSearch)
          /\ pc' = "setBusy"
      BY <1>5 DEF DispatchJob
    <2>2. jobs = <<>> /\ results = <<>> /\ \A c \in Channels : ~InFlight(c)
      BY <2>1, FreeMeansEmpty
    <2>3. ColdStartIsComplete'
      BY <2>1, SweepEnds
    <2>4. ChannelToSearch \in Channels
      BY <1>5, <1>t, SearchTarget DEF DispatchJob, CanHandOver
    <2>5. jobs' = <<ChannelToSearch>>
      BY <2>1, <2>2, <2>4
    <2>6. \E i \in DOMAIN jobs' : jobs'[i] = ChannelToSearch
      BY <2>4, <2>5
    <2>7. SweepLeavesNoGap'
      <3>1. SUFFICES ASSUME ~m_coldStartSweepDone', NEW c \in Channels,
                            c < m_nextAcquisitionChannel'
                     PROVE  c \in searched \/ c = ChannelToSearch
        BY <2>1, <2>6
      <3>2. /\ ~m_coldStartSweepDone /\ m_nextAcquisitionChannel < NumChannels
            /\ m_nextAcquisitionChannel' = m_nextAcquisitionChannel + 1
        BY <3>1, <2>1, <1>t, CursorMoves
      <3>3. CASE c < m_nextAcquisitionChannel
        BY <3>2, <3>3, <2>2
      <3>4. CASE c = m_nextAcquisitionChannel
        BY <3>2, <3>4 DEF ChannelToSearch
      <3> QED
        BY <3>1, <3>2, <3>3, <3>4, <1>t DEF TypeOK, Channels
    <2>8. StaleIsQueued'
      <3>1. \A c \in stale : workerPc = "reset" /\ job = c
        BY <2>2
      <3> QED
        BY <3>1, <2>1, <2>6
    <2> QED
      BY <2>1, <2>3, <2>7, <2>8
  <1>6. CASE SetBusy
    BY <1>6 DEF SetBusy, Channels
  <1>7. CASE TrackSatellites
    <2>1. \A c \in Channels : m_state'[c] # "Acquiring" => m_state[c] # "Acquiring"
      BY <1>7 DEF TrackSatellites, NextStates
    <2> QED
      BY <1>7, <2>1 DEF TrackSatellites, Channels
  <1>8. CASE Destroy
    BY <1>8 DEF Destroy, Channels
  <1>9. CASE Join
    BY <1>9 DEF Join, Channels
  <1>10. CASE PopJob
    <2>1. PICK c \in Channels : jobs = <<c>> /\ results = <<>>
      BY <1>10 DEF PopJob, AppInv, QueueShapes
    <2>2. /\ jobs' = <<>> /\ results' = <<>> /\ job' = c /\ workerPc' = "reset"
          /\ workerPc = "pop"
          /\ UNCHANGED <<m_state, m_acquisitionCN0, searched, stale, sweepVars,
                         jobsFinished, pc>>
      BY <1>10, <2>1 DEF PopJob
    <2>3. \A d \in Channels : InFlight(d) => InFlight(d)'
      BY <2>1, <2>2
    <2>4. StaleIsQueued'
      BY <2>1, <2>2
    <2> QED
      BY <2>2, <2>3, <2>4 DEF Channels
  <1>11. CASE ResetAcquisitionMetrics
    <2>1. job \in Channels /\ m_state[job] = "Acquiring"
      BY <1>11 DEF ResetAcquisitionMetrics, AppInv, SearchedChannelIsAcquiring
    <2> QED
      BY <1>11, <2>1, <1>t DEF ResetAcquisitionMetrics, TypeOK, Channels
  <1>12. ASSUME NEW level \in Levels, InsertAcquisitionMetrics(level) PROVE SweepInv'
    <2>1. job \in Channels /\ m_state[job] = "Acquiring"
      BY <1>12 DEF InsertAcquisitionMetrics, AppInv, SearchedChannelIsAcquiring
    <2> QED
      BY <1>12, <2>1, <1>t DEF InsertAcquisitionMetrics, TypeOK, Channels
  <1>13. CASE CorrelateFails
    BY <1>13 DEF CorrelateFails, Channels
  <1>14. CASE PushResult
    <2>1. jobs = <<>> /\ results = <<>> /\ job \in Channels
      BY <1>14 DEF PushResult, AppInv, QueueShapes, SearchedChannelIsAcquiring
    <2>2. /\ results' = <<job>> /\ workerPc = "report"
          /\ UNCHANGED <<m_state, m_acquisitionCN0, searched, stale, sweepVars, jobs,
                         job, jobsFinished, pc>>
      BY <1>14, <2>1 DEF PushResult
    <2>3. \A d \in Channels : InFlight(d) => InFlight(d)'
      BY <2>1, <2>2
    <2>4. StaleIsQueued'
      BY <2>1, <2>2
    <2> QED
      BY <2>2, <2>3, <2>4 DEF Channels
  <1>15. CASE WorkerExits
    BY <1>15 DEF WorkerExits, Channels
  <1>16. CASE UNCHANGED appVars
    BY <1>16 DEF appVars, Channels
  <1> QED
    BY <1>1, <1>2, <1>3, <1>4, <1>5, <1>6, <1>7, <1>8, <1>9, <1>10, <1>11, <1>12, <1>13, <1>14, <1>15, <1>16
    DEF Next, ProcessBlock, WorkerStep, Destroyed

LEMMA SweepInvariant == Spec => []SweepInv
  BY SweepInit, SweepStep, AppInvariant, PTL DEF Spec

\* No result is applied with the metrics of an earlier search of its channel,
\* although the worker writes them without a lock while the consumer goes on;
\* a tracked channel keeps the metrics that let finalizeAcquisition start it.
THEOREM MetricsBelongToTheirSearch == Spec => []MetricsAreOfOwnSearch
  <1>1. AppInv /\ SweepInv => MetricsAreOfOwnSearch
    <2> SUFFICES ASSUME AppInv, SweepInv PROVE MetricsAreOfOwnSearch
      OBVIOUS
    <2>1. ASSUME NEW i \in DOMAIN results PROVE results[i] \notin stale
      <3>1. results # <<>>
        BY <2>1, NoElement
      <3>2. jobs = <<>> /\ ~WorkerHoldsJob
        BY <3>1 DEF AppInv, QueueShapes
      <3> QED
        BY <3>2, NoElement DEF SweepInv, StaleIsQueued, WorkerHoldsJob
    <2>2. ASSUME NEW c \in stale PROVE m_state[c] = "Acquiring"
      BY <2>2 DEF SweepInv, StaleIsQueued, AppInv, SearchedChannelIsAcquiring, WorkerHoldsJob
    <2> QED
      BY <2>1, <2>2 DEF MetricsAreOfOwnSearch, SweepInv, TrackedAreAboveThreshold
  <1> QED
    BY <1>1, AppInvariant, SweepInvariant, PTL

\* m_coldStartSweepDone is only set once every channel had its search applied:
\* no refused tryPush, however the threads interleave, skips a satellite.
THEOREM SweepSkipsNoChannel == Spec => []ColdStartIsComplete
  <1>1. SweepInv => ColdStartIsComplete
    BY DEF SweepInv
  <1> QED
    BY <1>1, SweepInvariant, PTL
=============================================================================
