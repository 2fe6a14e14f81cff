----------------------------- MODULE Application -----------------------------
(***************************************************************************)
(* Application/GPSOpenClApplication: processBlock on the consumer thread   *)
(* and acquisitionWorkerLoop on the acquisition thread, which hand each    *)
(* other one satellite search at a time through two bounded queues.        *)
(*                                                                         *)
(* The queues are the FIFO queues that BoundedQueue was shown to           *)
(* implement.  trackSatellites is one step: TrackingWorkerPool is a        *)
(* barrier.  A channel is its lifecycle state (module Channel has the      *)
(* debounce counters that drive it) and the C/N0 of its last search, on a  *)
(* small scale where 0 is "no result".  Buffers, timing, telemetry and the *)
(* position solution are left out: none of them feeds back.                *)
(***************************************************************************)
EXTENDS Naturals, Sequences, FiniteSets

CONSTANTS
    NumChannels,                  \* GPS_CA_SV_COUNT
    Levels,                       \* C/N0 values a completed search may yield
    Threshold,                    \* acquisitionCn0ThresholdDbHz
    ReacquisitionIntervalBlocks,  \* 0 disables re-acquisition
    BlockPeriod,                  \* the block index wraps here (uint32_t)
    JobCapacity,                  \* m_acquisitionJobQueue
    ResultCapacity                \* m_acquisitionResultQueue

ASSUME ApplicationAssumption ==
    /\ NumChannels \in Nat \ {0}
    /\ Threshold \in Nat \ {0}
    /\ Levels \subseteq Nat
    /\ ReacquisitionIntervalBlocks \in Nat
    /\ BlockPeriod \in Nat \ {0}
    /\ JobCapacity \in Nat \ {0}
    /\ ResultCapacity \in Nat \ {0}

VARIABLES m_state,                   \* lifecycle state of each channel
          m_acquisitionCN0,          \* C/N0 metric of each channel
          m_acquisitionBusy,         \* is a search in flight?
          m_nextAcquisitionChannel,  \* cursor of the cold-start sweep
          m_coldStartSweepDone,
          m_currentBlockIndex,
          jobs,                      \* m_acquisitionJobQueue: channel indices
          jobsFinished,              \* m_acquisitionJobQueue.finish() was called
          results,                   \* m_acquisitionResultQueue: channel indices
          pc,                        \* consumer thread
          workerPc,                  \* acquisition thread
          job,                       \* channel the acquisition thread works on
          stale,                     \* history: metrics older than the search in flight
          searched                   \* history: channels with a finalized search

channelVars == <<m_state, m_acquisitionCN0, stale, searched>>
sweepVars == <<m_nextAcquisitionChannel, m_coldStartSweepDone, m_currentBlockIndex>>
appVars == <<m_state, m_acquisitionCN0, m_acquisitionBusy,
             m_nextAcquisitionChannel, m_coldStartSweepDone,
             m_currentBlockIndex, jobs, jobsFinished, results, pc, workerPc,
             job, stale, searched>>

Channels == 0 .. NumChannels - 1
NoChannel == NumChannels   \* channelToSearch = -1

\* initializeChannels and the constructor, which starts the acquisition thread
Init ==
    /\ m_state = [c \in Channels |-> "Acquiring"]
    /\ m_acquisitionCN0 = [c \in Channels |-> 0]
    /\ m_acquisitionBusy = FALSE
    /\ m_nextAcquisitionChannel = 0
    /\ m_coldStartSweepDone = FALSE
    /\ m_currentBlockIndex = 0
    /\ jobs = <<>> /\ jobsFinished = FALSE
    /\ results = <<>>
    /\ pc = "idle"
    /\ workerPc = "pop"
    /\ job = NoChannel
    /\ stale = {}
    /\ searched = {}

-----------------------------------------------------------------------------
(* Consumer thread: processBlock *)

\* finalizeAcquisition: the channel starts tracking when the C/N0 suffices
FinalizeAcquisition(c) ==
    /\ m_state' = IF m_acquisitionCN0[c] >= Threshold
                  THEN [m_state EXCEPT ![c] = "Confirming"] ELSE m_state
    /\ searched' = searched \cup {c}
    /\ UNCHANGED <<m_acquisitionCN0, stale>>

\* Mutant: the flag is not cleared when a result is applied
MutKeepsBusy ==
    /\ pc = "idle"
    /\ results # <<>>
    /\ FinalizeAcquisition(Head(results))
    /\ results' = Tail(results)
    /\ pc' = "dispatch"
    /\ UNCHANGED <<sweepVars, m_acquisitionBusy, jobs, jobsFinished, workerPc, job>>

\* A block arrives and a search has completed: apply it, free the worker.
BlockWithResult ==
    /\ pc = "idle"
    /\ results # <<>>
    /\ FinalizeAcquisition(Head(results))
    /\ results' = Tail(results)
    /\ m_acquisitionBusy' = FALSE
    /\ pc' = "dispatch"
    /\ UNCHANGED <<sweepVars, jobs, jobsFinished, workerPc, job>>

BlockWithoutResult ==
    /\ pc = "idle"
    /\ results = <<>>
    /\ pc' = "dispatch"
    /\ UNCHANGED <<channelVars, sweepVars, m_acquisitionBusy, jobs,
                   jobsFinished, results, workerPc, job>>

SlotWidth ==
    IF ReacquisitionIntervalBlocks \div NumChannels > 1
    THEN ReacquisitionIntervalBlocks \div NumChannels ELSE 1

\* The cold-start sweep takes the channels in turn; afterwards every
\* SlotWidth-th block belongs to one channel, round robin.
ChannelToSearch ==
    IF ~m_coldStartSweepDone
    THEN IF m_nextAcquisitionChannel < NumChannels
         THEN m_nextAcquisitionChannel ELSE NoChannel
    ELSE IF ReacquisitionIntervalBlocks > 0 /\ m_currentBlockIndex % SlotWidth = 0
         THEN (m_currentBlockIndex \div SlotWidth) % NumChannels ELSE NoChannel

\* Mutant: the sweep is declared done when its last search is dispatched
MutSweepEndsEarly ==
    /\ m_nextAcquisitionChannel' =
          IF ~m_coldStartSweepDone /\ m_nextAcquisitionChannel < NumChannels
          THEN m_nextAcquisitionChannel + 1 ELSE m_nextAcquisitionChannel
    /\ m_coldStartSweepDone' =
          (m_coldStartSweepDone \/ m_nextAcquisitionChannel >= NumChannels - 1)
    /\ UNCHANGED m_currentBlockIndex

\* The cold-start cursor moves even when the job is not handed over.
AdvanceSweep ==
    /\ m_nextAcquisitionChannel' =
          IF ~m_coldStartSweepDone /\ m_nextAcquisitionChannel < NumChannels
          THEN m_nextAcquisitionChannel + 1 ELSE m_nextAcquisitionChannel
    /\ m_coldStartSweepDone' =
          (m_coldStartSweepDone \/ m_nextAcquisitionChannel >= NumChannels)
    /\ UNCHANGED m_currentBlockIndex

\* Mutant: tracked channels are searched too
MutSearchesTracked(c) ==
    /\ c # NoChannel
    /\ Len(jobs) < JobCapacity /\ ~jobsFinished

\* isEligibleForAcquisition, and the two reasons for tryPush to refuse
CanHandOver(c) ==
    /\ c # NoChannel
    /\ m_state[c] = "Acquiring"
    /\ Len(jobs) < JobCapacity /\ ~jobsFinished

DispatchWhileBusy ==
    /\ pc = "dispatch"
    /\ m_acquisitionBusy
    /\ pc' = "track"
    /\ UNCHANGED <<channelVars, sweepVars, m_acquisitionBusy, jobs,
                   jobsFinished, results, workerPc, job>>

DispatchNothing ==
    /\ pc = "dispatch"
    /\ ~m_acquisitionBusy
    /\ ~CanHandOver(ChannelToSearch)
    /\ AdvanceSweep
    /\ pc' = "track"
    /\ UNCHANGED <<channelVars, m_acquisitionBusy, jobs, jobsFinished,
                   results, workerPc, job>>

\* Mutant: m_acquisitionBusy is not consulted
MutDispatchAnyway ==
    /\ pc = "dispatch"
    /\ CanHandOver(ChannelToSearch)
    /\ AdvanceSweep
    /\ jobs' = Append(jobs, ChannelToSearch)
    /\ stale' = stale \cup {ChannelToSearch}
    /\ pc' = "setBusy"
    /\ UNCHANGED <<m_state, m_acquisitionCN0, searched, m_acquisitionBusy,
                   jobsFinished, results, workerPc, job>>

DispatchJob ==
    /\ pc = "dispatch"
    /\ ~m_acquisitionBusy
    /\ CanHandOver(ChannelToSearch)
    /\ AdvanceSweep
    /\ jobs' = Append(jobs, ChannelToSearch)
    /\ stale' = stale \cup {ChannelToSearch}
    /\ pc' = "setBusy"
    /\ UNCHANGED <<m_state, m_acquisitionCN0, searched, m_acquisitionBusy,
                   jobsFinished, results, workerPc, job>>

\* The flag is set after the job is visible: the search may already be over.
SetBusy ==
    /\ pc = "setBusy"
    /\ m_acquisitionBusy' = TRUE
    /\ pc' = "track"
    /\ UNCHANGED <<channelVars, sweepVars, jobs, jobsFinished, results,
                   workerPc, job>>

\* What one tracked block may do to a channel (Channel!ComputeNextState); a
\* channel whose trackBlock throws stays where it is.
NextStates(s) ==
    IF s = "Confirming" THEN {"Confirming", "Tracking", "Acquiring"}
    ELSE IF s = "Tracking" THEN {"Tracking", "Acquiring"} ELSE {s}

\* trackSatellites, and the end of the block: the next one has the next index
TrackSatellites ==
    /\ pc = "track"
    /\ m_state' \in [Channels -> {"Acquiring", "Confirming", "Tracking"}]
    /\ \A c \in Channels : m_state'[c] \in NextStates(m_state[c])
    /\ m_currentBlockIndex' = (m_currentBlockIndex + 1) % BlockPeriod
    /\ pc' = "idle"
    /\ UNCHANGED <<m_acquisitionCN0, stale, searched, m_acquisitionBusy,
                   m_nextAcquisitionChannel, m_coldStartSweepDone, jobs,
                   jobsFinished, results, workerPc, job>>

\* Mutant: the destructor joins without finish()
MutDestroyWithoutFinish ==
    /\ pc = "idle"
    /\ pc' = "join"
    /\ UNCHANGED <<channelVars, sweepVars, m_acquisitionBusy, jobs,
                   jobsFinished, results, workerPc, job>>

\* ~Application: no more jobs, then wait for the acquisition thread
Destroy ==
    /\ pc = "idle"
    /\ jobsFinished' = TRUE
    /\ pc' = "join"
    /\ UNCHANGED <<channelVars, sweepVars, m_acquisitionBusy, jobs, results,
                   workerPc, job>>

Join ==
    /\ pc = "join"
    /\ workerPc = "exited"
    /\ pc' = "destroyed"
    /\ UNCHANGED <<channelVars, sweepVars, m_acquisitionBusy, jobs,
                   jobsFinished, results, workerPc, job>>

-----------------------------------------------------------------------------
(* Acquisition thread: acquisitionWorkerLoop *)

PopJob ==
    /\ workerPc = "pop"
    /\ jobs # <<>>
    /\ job' = Head(jobs)
    /\ jobs' = Tail(jobs)
    /\ workerPc' = "reset"
    /\ UNCHANGED <<channelVars, sweepVars, m_acquisitionBusy, jobsFinished,
                   results, pc>>

\* Mutant: the metrics of the previous search are kept
MutKeepsMetrics ==
    /\ workerPc = "reset"
    /\ workerPc' = "correlate"
    /\ UNCHANGED <<channelVars, sweepVars, m_acquisitionBusy, jobs,
                   jobsFinished, results, pc, job>>

\* correlate starts with resetAcquisitionMetrics
ResetAcquisitionMetrics ==
    /\ workerPc = "reset"
    /\ m_acquisitionCN0' = [m_acquisitionCN0 EXCEPT ![job] = 0]
    /\ stale' = stale \ {job}
    /\ workerPc' = "correlate"
    /\ UNCHANGED <<m_state, searched, sweepVars, m_acquisitionBusy, jobs,
                   jobsFinished, results, pc, job>>

\* correlate ends with insertAcquisitionMetrics ...
InsertAcquisitionMetrics(level) ==
    /\ workerPc = "correlate"
    /\ m_acquisitionCN0' = [m_acquisitionCN0 EXCEPT ![job] = level]
    /\ workerPc' = "report"
    /\ UNCHANGED <<m_state, stale, searched, sweepVars, m_acquisitionBusy,
                   jobs, jobsFinished, results, pc, job>>

\* ... or gives up early or throws, which leaves the metrics reset.
CorrelateFails ==
    /\ workerPc = "correlate"
    /\ workerPc' = "report"
    /\ UNCHANGED <<channelVars, sweepVars, m_acquisitionBusy, jobs,
                   jobsFinished, results, pc, job>>

\* m_acquisitionResultQueue.tryPush, whose return value nobody checks
PushResult ==
    /\ workerPc = "report"
    /\ results' = IF Len(results) < ResultCapacity
                  THEN Append(results, job) ELSE results
    /\ workerPc' = "pop"
    /\ UNCHANGED <<channelVars, sweepVars, m_acquisitionBusy, jobs,
                   jobsFinished, pc, job>>

\* pop returns false: the queue is finished and empty
WorkerExits ==
    /\ workerPc = "pop"
    /\ jobs = <<>> /\ jobsFinished
    /\ workerPc' = "exited"
    /\ UNCHANGED <<channelVars, sweepVars, m_acquisitionBusy, jobs,
                   jobsFinished, results, pc, job>>

-----------------------------------------------------------------------------
ProcessBlock ==
    \/ BlockWithResult \/ BlockWithoutResult
    \/ DispatchWhileBusy \/ DispatchNothing \/ DispatchJob \/ SetBusy
    \/ TrackSatellites

WorkerStep ==
    \/ PopJob \/ ResetAcquisitionMetrics
    \/ \E level \in Levels : InsertAcquisitionMetrics(level)
    \/ CorrelateFails \/ PushResult \/ WorkerExits

Destroyed == pc = "destroyed" /\ UNCHANGED appVars

Next == ProcessBlock \/ Destroy \/ Join \/ WorkerStep \/ Destroyed

Spec == Init /\ [][Next]_appVars

\* The source keeps delivering blocks until the application is destroyed, and
\* both threads are scheduled; nothing obliges the application to be destroyed.
FairSpec ==
    /\ Spec
    /\ WF_appVars(ProcessBlock)
    /\ WF_appVars(Join)
    /\ WF_appVars(WorkerStep)

-----------------------------------------------------------------------------
TypeOK ==
    /\ m_state \in [Channels -> {"Acquiring", "Confirming", "Tracking"}]
    /\ m_acquisitionCN0 \in [Channels -> Levels \cup {0}]
    /\ m_acquisitionBusy \in BOOLEAN
    /\ m_nextAcquisitionChannel \in 0 .. NumChannels
    /\ m_coldStartSweepDone \in BOOLEAN
    /\ m_currentBlockIndex \in 0 .. BlockPeriod - 1
    /\ jobs \in Seq(Channels) /\ Len(jobs) <= JobCapacity
    /\ jobsFinished \in BOOLEAN
    /\ results \in Seq(Channels) /\ Len(results) <= ResultCapacity
    /\ pc \in {"idle", "dispatch", "setBusy", "track", "join", "destroyed"}
    /\ workerPc \in {"pop", "reset", "correlate", "report", "exited"}
    /\ job \in Channels \cup {NoChannel}
    /\ stale \subseteq Channels
    /\ searched \subseteq Channels

WorkerHoldsJob == workerPc \in {"reset", "correlate", "report"}

SearchesInFlight ==
    Len(jobs) + (IF WorkerHoldsJob THEN 1 ELSE 0) + Len(results)

\* m_acquisitionBusy is exact: one search is queued, running or waiting to be
\* applied while it is set, and none otherwise.  So no tryPush of a job or a
\* result, whose failure the code ignores, can fail, and the flag never sticks.
SingleFlight ==
    SearchesInFlight = IF m_acquisitionBusy \/ pc = "setBusy" THEN 1 ELSE 0

\* The channel under search is not tracked: the pool's threads and the
\* acquisition thread never work on the same channel, and finalizeAcquisition
\* never restarts a channel that is already being tracked.
SearchedChannelIsAcquiring ==
    /\ \A i \in DOMAIN jobs : m_state[jobs[i]] = "Acquiring"
    /\ \A i \in DOMAIN results : m_state[results[i]] = "Acquiring"
    /\ WorkerHoldsJob => job \in Channels /\ m_state[job] = "Acquiring"

\* A result is applied with the metrics of its own search, and the metrics of
\* a tracked channel remain those of the search that acquired it.
MetricsAreOfOwnSearch ==
    /\ \A i \in DOMAIN results : results[i] \notin stale
    /\ \A c \in Channels : m_state[c] # "Acquiring" =>
          c \notin stale /\ m_acquisitionCN0[c] >= Threshold

\* m_coldStartSweepDone: every channel was searched, and the result applied,
\* although the cursor moves on without looking at the outcome of tryPush.
ColdStartIsComplete ==
    m_coldStartSweepDone => searched = Channels

Leaving == pc \in {"join", "destroyed"}

\* A search never blocks further searches forever, and the cold-start sweep
\* ends, although a dispatch may find the job queue taken at any block.
SearchCompletes ==
    /\ m_acquisitionBusy ~> ~m_acquisitionBusy \/ Leaving
    /\ <>(m_coldStartSweepDone \/ Leaving)

\* The destructor joins the acquisition thread whatever it is doing.
DestructorReturns == pc = "join" ~> pc = "destroyed"

\* Re-acquisition is attempted again and again for a channel that is not
\* tracked (AcquisitionInput::reacquisitionIntervalBlocks, "Blocks between
\* re-acquisition attempts").
ReacquisitionRecurs ==
    \A c \in Channels :
        []<>(m_state[c] # "Acquiring" \/ c \in stale \/ Leaving)
=============================================================================
