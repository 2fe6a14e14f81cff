# GPSOpenCl: a TLA+ verification project

GPSOpenCl is a GPS L1 C/A software receiver in C++.  It reads blocks of samples
(one block is one code period, 1 ms), searches for satellites on the GPU,
tracks them on a pool of threads, decodes the navigation message, assembles
measurements, solves for position, and publishes everything through sinks.
This directory models its control: threads, queues, state machines and the
bookkeeping between them.  Paths below are relative to `src/Source/`.

## 1. Inventory

| Component | State | Operations | Talks to |
|---|---|---|---|
| `Common/BoundedQueue` | ring `m_storage`, `m_head`, `m_count`, `m_finished`, mutex, two condition variables | `push`, `tryPush`, `pop`, `tryPop`, `finish` | every pair of threads below |
| `Application/Main.cpp` | `blockQueue`, `recycleQueue`, `blockIdx`, producer thread | producer loop, main loop, exception path, join | source, `Application` |
| `Application` | channels, `m_acquisitionBusy`, sweep cursor, block index, job and result queue, acquisition thread | `processBlock`, `finalizeAcquisition`, `acquisitionWorkerLoop`, `trackSatellites`, destructor; telemetry and the call of the solver | everything |
| `Tracking/TrackingWorkerPool` | generation, pending count, atomic cursor, worker threads | `run`, `workerLoop`, `drainCursor`, destructor | `Application::trackSatellites` |
| `Tracking/Channel` | lifecycle state, debounce counters, three histories, bit sync, anchor, accumulated ephemeris | `initTracking`, `trackBlock`, `evaluateLockState`, `compactNavigationHistory`, `updateNavigation`, `mergeSubframe` | tracking pool, decoder |
| `NavDecode/NavigationDecoder` | ionospheric parameters; moves positions that live in the channel | `processPromptSignal`, `tryDecodeAtBitPosition`, `decodeSubframe`, `checkParity` | `Channel` |
| `Acquisition`, `CaCodeGenerator` | code tables, Doppler grid, slot of each bin | `correlate` | acquisition thread, compute engine |
| `Gpu/SpectrumEngine`, `GPUHandler` | resident input and its address, slot pool, slot states, host slots, batch latch | fill a slot, use a slot, batch, CPU fallback | `Acquisition::correlate` |
| `Tracking/Tracking` | carrier and code phase, basis and NCO of the loops, blocks since pull-in began, running magnitude | `initTrackingState`, `doWork` | `Channel::trackBlock`, C/A code table |
| `Pvt/MeasurementAssembler`, `PVTSolver` | reference position, whether it is trusted | `assemble`, `solvePosition` | `Application::computeNavigationSolution` |
| `Sink/*` | publish lock; one queue and one thread per output; log file, socket | `publishXxxOutput`, `pushConsole`, `pushJsonFile`, writer loops, destructors | producer, main and tracking threads |
| `Input/*` | read position | `initialize`, `readBlock` | producer thread |
| `Common/Settings`, `Profiler`, structs | configuration, timings | parsing, merging | start-up |

What is hard here, and therefore what the properties are about:

* **Interleaving.** Up to eight threads (producer, main, acquisition, tracking
  workers, one per sink).  `BoundedQueue` notifies after it has released the
  mutex; `TrackingWorkerPool` hands out work through an unlocked atomic cursor;
  `m_acquisitionBusy` is set after the job is already visible.
* **Ordering.** Results of a search arrive blocks later; subframes of two data
  sets interleave around an upload.
* **Shutdown.** Four destructors join threads that may be asleep, working or
  just about to sleep; the main loop may be left by an exception while the
  producer is blocked.
* **Limits.** Full queues whose refusal is ignored, histories that are compacted
  by hand with `size_t` subtractions, a block index that wraps, a pool of spectra
  that grows in the middle of a search.
* **Failing calls.** Any OpenCL call may fail, and the engine then continues on the
  host with whatever its caches hold.  Writes to the log and sends on the socket fail
  in the middle of a record or between two frames.
* **State that outlives its cause.** A fix becomes the reference of the next epoch; a
  frequency estimate is handed from one loop to another; phases are wrapped block
  by block for hours.

`PROJECT.json` lists these hazards line by line with the properties that cover
them.

What correct means, per component: the queue is a closable FIFO without lost
wakeups; the pool is a parallel *for* with a barrier; the hand-off has one search
in flight, never on a tracked channel; the pipeline processes the blocks in order,
all of them, and ends; a channel forgets everything on loss of lock, its positions
always mean the same sample of the signal, and its ephemeris is of one data set; a
search correlates its own block with its own code in every bin, or reports nothing; the
replica of a block continues the one before it; only words that were sent are decoded,
and all channels agree on their edge to one block; a fix rests on ranges that agree;
outputs lose messages but never reorder them, and nothing stays behind at shutdown.

## 2. Modules

| Module | Models | Rests on |
|---|---|---|
| `FifoQueue` | what a queue promises: a closable bounded FIFO | |
| `BoundedQueue` | `BoundedQueue.hpp`, with every notify a step of its own | implements `FifoQueue` |
| `ParallelFor` | what the pool promises: every item once, return after the last | |
| `TrackingWorkerPool` | `run`, workers, cursor, shutdown | implements `ParallelFor` |
| `Sources` | `readBlock` of `FileSource` and `GpsSdrSimSource` | |
| `Pipeline` | producer and main loop of `Main.cpp` | calls `Sources`; queues are FIFO steps |
| `Application` | `processBlock` and the acquisition thread | queues are FIFO steps, `trackSatellites` is one step |
| `Ephemeris` | `mergeSubframe` and `hasCompleteEphemeris` as operators | |
| `Channel` | the life of one channel, histories, compaction, decoder positions | `Ephemeris` |
| `SpectrumEngine` | what the compute engine remembers between calls, and how each call changes it | |
| `Acquisition` | `correlate` and the Doppler grid | calls `SpectrumEngine` |
| `NavigationDecoder` | `tryDecodeAtBitPosition` and `checkParity` on one word, from the signal | |
| `CaCodeGenerator` | `rawCaCodes`, the 32 codes at full length | |
| `Tracking` | `doWork`: the replica, the loops, the handover between them | `CaCodeGenerator` |
| `MeasurementAssembler` | transmit times, the snap to the median, pseudoranges, as operators | |
| `Navigation` | `computeNavigationSolution` and the control of `solvePosition` over many epochs | `MeasurementAssembler` |
| `LossyLog` | what an output promises: a subsequence of what was published, in order | |
| `Sinks` | publishers, `CompositeSink`, `FileSink`, `ZmqSink`, `TelemetryExporter`, shutdown, restart | implements `LossyLog`; queues are FIFO steps |
| `BoundedQueueProofs`, `TrackingWorkerPoolProofs`, `ApplicationProofs`, `ChannelProofs`, `SinksProofs`, `PipelineProofs`, `AcquisitionProofs` | theorems | the module they are named after |
| `MeasurementProofs` | theorems | `Tracking`, `NavigationDecoder`, `Navigation`: from the samples to the position |

State variables keep the names of the members they stand for (`m_head`,
`m_cursor`, `m_acquisitionBusy`, ...).  Variables marked *history* exist only for
the properties.  Definitions whose name starts with `Mut` are wrong variants of
the definition below them, each a plausible bug; they are not part of any
specification, and show that the property which forbids them can fail.

**BoundedQueue.**  A critical section is one step; `notify_one` after the unlock
is another (`NotifyPop`, `NotifyPush`), so a thread can run in between.  Waiting
threads have a program counter `pushWait` or `popWait`; they may wake up
spuriously.  `finish` notifies under the mutex, in one step.

**TrackingWorkerPool.**  The caller's `run` publishes a generation under the
mutex, notifies after it, drains the cursor itself and then waits for the helpers.
`fetch_add`, the comparison with `m_itemCount` and the work on an item are
separate steps, because nothing locks them.  With no more than one item
(`RunInline`) no worker is involved.

**Application.**  One block is three consumer steps: poll the result queue
(`BlockWithResult`, `BlockWithoutResult`), dispatch (`DispatchWhileBusy`,
`DispatchNothing`, `DispatchJob` then `SetBusy`), track (`TrackSatellites`).  The
acquisition thread pops a job, resets the metrics, and fills them or fails, then
reports.  A channel is its lifecycle state and one C/N0 level.

**Sources and Pipeline.**  The stream is counted in bytes; a block is its index and the
position of its first sample.  A FIFO gives any part of what is missing, nothing, or an
error, at every turn of the read loop; a capture may turn out shorter than it was.  A
text is the count of numbers that parse.  Buffers are counted, not named.  The exception
path calls `finish` on the block queue, which releases a producer blocked in `push`.

**Channel.**  A history is its length; what the decoder finds at a position is up
to the signal and therefore nondeterministic, but where it looks, when it has
enough data, and how positions move is the code's.  `truth` counts, from the signal
alone, what the rebased positions must agree with.

**Ephemeris.**  A subframe carries its issue of data: ten bits in subframe 1
(IODC), eight in 2 and 3 (IODE); the comparison is of the low eight bits.

**SpectrumEngine.**  A vector is its address and its contents; a spectrum says from
which contents and which carrier replica it was computed; a correlation says which
spectrum and which operand it used.  So a stale buffer shows up as a wrong label, with
no arithmetic.  Every call has a successful variant and one that fails at each point
where it leaves different memory behind.  `device` is how far the creation of the kernels
got.  All vectors of a receiver have one length, so only the slot pool ever grows.
Where the code does not look at the result of `clSetKernelArg` it is taken to succeed.

**Acquisition.**  `correlate` is a program counter over its two loops.  Consecutive
searches share the engine and may find their input at the address of an earlier one.
The grid (`computeNumberOfFrequencyBins`, `computeReuseFactor`) is computed in integer
hertz.  Application's acquisition thread makes these searches one step.

**NavigationDecoder.**  `Channel` leaves open what the decoder finds; here it follows
from the signal.  A subframe is its first word, with the two bits before it, so the
parity, the complement by D30 and both polarities of the Costas lock are exact.  A
prompt value is an integer: the block that holds the bit edge mixes two bits in the
proportion `fraction`.  Noise can turn a bit whose sum is at most
`Noise`, which has no limit (`Marginal`).  A start at which it does fails; that up to three turned
bits never pass the parity is what the flips show, and more are beyond what the parity
promises.  Noise is not taken to *repair* a start whose bits are those of another one:
that would need every transition of the subframe turned the right way.  Bits are flipped
on the way, any three of the 32, wherever the edge is.  The reference parity is
written differently from the code's: one row of the matrix of IS-GPS-200 and its
rotations.  Left out: a word at the very start of the history, where the two bits
before it are taken as zero, and words 2 to 10, which repeat the first one's check.

**CaCodeGenerator and Tracking.**  The two registers run their real 1023 shifts, one
step each; the reference of the codes is the pair of taps that the signal specification
names, which the code replaces by a delay.  `Tracking` then abstracts the six sums of a
block to what they decide (zero or not, strong enough or not, the error of each
discriminator), and keeps phases, frequencies and gains as integers, so that *the
same phase* and *no step* can be stated exactly.  The unwrapped phases `codePhase` and
`carrPhase` are history variables.

**MeasurementAssembler and Navigation.**  Time is counted in ticks, eight to a code
period, and true transit times cancel.  Each channel reports, per epoch, a true
measurement, one with a bit edge a block late, one with a wrong code phase, one from an
older subframe, or none.  A position is how it makes satellites look: whose arrival it
displaces, whom it hides below the mask.  Least squares is reduced to its decision:
more than four rows pass the residual gate exactly when their ranges agree, four rows
pass if some position could give such ranges (`HasFit`: ranges a week apart have none, and
the iterations run out), and which row is worst is open.  A loop over increasing indices that keeps
some of them is `InOrder` of the set it keeps: the satellites of an epoch (`Prns`) and the
rows above the mask (`Kept`), which move to the next free place (`Compacted`).

**Sinks.**  A message is its number.  A pop and the I/O after it are one step; the I/O may
fail wherever the code tests for it.  The stream buffer of the log file is explicit,
because a write that succeeds may only have filled it.  The log on disk is its whole records;
a record that a failed write cut off is a *tear*, kept beside it with the number of whole
records before it.  A message on the wire is
complete in the socket; with `ZMQ_LINGER` 0, what the library has not sent by
`zmq_close` is outside the model.  What makes a write fail (a full disk) is taken to last:
the flush of the stream buffer in `close()` after it writes nothing.  A second start appends to the same log.

## 3. Runs

| Run | Instance | Shows |
|---|---|---|
| `queue` | 3 threads, 2 items, 2 slots | FIFO refinement, no lost wakeup, `finish` leaves nobody asleep, sleepers are served |
| `worker_pool` | caller, 2 workers, up to 3 items, 3 runs | barrier, refinement of `ParallelFor`, every run returns, the destructor joins |
| `handoff` | 3 channels, interval 6 | one search in flight, not on a tracked channel, own metrics; the cold start is complete and ends, searches complete, the destructor returns |
| `pipeline` | blocks of 2 samples, up to 6 of them, 2 + 2 buffers, 2 waits | blocks are the stream, in order, nothing lost at the end, bounded memory, termination |
| `channel` | subframe of 4 samples, threshold 14, history up to 18, 3 data sets | compaction moves nothing, keeps alignment and look-back, and what bounds the history; one data set at a time, one pass completes, loss forgets, Confirming ends |
| `search_correct` | 2 searches, 10 grids, up to 4 slots, pool of 4 | results of this search only, no silent skip, the grid is what it says |
| `nav_decoder` | one word, both polarities, 4 values of the bits before, edge between two blocks or inside one, up to 3 flips | only what was sent is decoded, anchors are no farther off than noise explains |
| `tracking` | 32 codes of 1023 chips; then codes of 5 chips, 10 samples, 4 lanes, 6 blocks | the codes are the specified ones, the replica is continuous, the carrier has no steps |
| `navigation` | 6 satellites, 6 kinds of observation each, around the end of a week | aligned rows, sound fixes, the snap repairs edges only, the solver returns |
| `sinks` | 2 publishers, 3 messages, queues of 1, 2 starts | lossy ordered log, log stops at a tear, framing, drained shutdown that ends |
| `reacquisition_starves` | 2 channels, interval 4 | expected violation, finding 1 |
| `poisoned_fix` | 4 satellites, at most one not healthy, in the middle of a week | expected violation, finding 2 |

**Bounds.**  Two slots make the ring wrap and be full, partly full and empty;
three threads are enough for two sleepers of one kind and one waker, and for both
kinds of sleeper at once.  Two workers are both helpers in a
run of three items, and one of them is late and finds no slot in a run of two; three
runs (`MaxRuns`) let a worker of one run meet the next two.  Three channels give a sweep with a first, a middle and
a last channel, and interval 6 over 3 channels gives slots of two blocks;
`BlockPeriod` = 7 is not a multiple of the slot, as 2^32 is not a multiple of
the real slot of 31 blocks.  `MaxBlocks` = 6 exceeds both queues and the buffers in
the threads' hands; files of 3, 4, 7 and 24 bytes are one sample, a block, a block and a
half with an odd byte, and as many blocks as the bound allows.  The channel's bit
period is 2 (not 20) and `EdgeSearch` 1 (not 2), so that several candidate phases exist
and stay within a bit; a threshold of 14 samples holds three subframes, more than the
minimum drop of 4 plus the look-back, so that compaction happens with and without bit
sync, and again after it.  `MaxHistory` stops the exploration (`AtBound`), not the
receiver.  The IODCs 1 and 257 share their low eight bits, the one case in which the
code cannot tell two data sets apart, and the properties are stated accordingly.

In `search_correct` the pool granularity `MinimumSlots` (32) is 4 and `MaxSlots` 4, so no
search grows the pool: that is the condition under which the properties hold, and the
default configuration (spacing 500 Hz, resolution 1 kHz, two slots) meets it.  The
spacings are whole fractions of the resolution (500, 1000), far from one (700), one just
outside the tolerance (999) and degenerate (0).  Two searches with one buffer address
and two blocks are enough for a stale upload; the second search starts from every
engine state the first can leave.

In `nav_decoder` three flips are what the distance of the parity code guarantees to be
noticed; the bit period is 6, with five candidate edges as in the code, and half a block
stands for an edge inside one.  Noise 7, in half blocks, can turn the sum of the first
start and, with the edge inside a block, of the second, but of no later one: anchors fall
on three blocks.  In `tracking` ten samples
over lanes of four leave a tail of two; five chips of eight units over ten samples make a
chip change every two samples, and code rates that the loop has moved make the phase
wrap between samples; the basis limit is reached, so the clamp happens (`Saturates`).
In `navigation` six satellites are the fewest of which one can be rejected
(`minSatellites` + 2); the present is the first instant of a new week, so that a channel
without the newest subframe reports a time of the old one, and the oldest anchor is
past its age limit; any number of channels may be faulty (`MaxFaults`), and two code
periods (`MaxSpread`) tell a bit edge, which four rows fit, from a week, which they do not.
In `sinks` queues of one slot are full whenever a thread lags by
one message; three messages let one be lost in the middle.

**Fairness.**  Only weak fairness, of steps a scheduled thread takes: a thread
inside a queue operation continues, workers and the caller of the pool continue,
the acquisition thread continues, blocks keep arriving, `processBlock` runs to its
end, the sinks' threads continue and their I/O returns, main's destructors run in the
end, `solvePosition` continues.  `RecoverySpec`, of the expected violation, adds that
epochs with true measurements keep coming, which is the premise of the claim it refutes.  Nothing obliges anybody to call an operation, a search to succeed, a satellite
to be found, or the application to be destroyed.  Mutexes are assumed to be
granted eventually: a critical section is short and never blocks.

## 4. Proofs

The proofs hold for every value of the constants that satisfies the named assumptions
(`QueueAssumption`, `PoolAssumption`, `ApplicationAssumption`, `ChannelAssumption`,
`IodcAssumption`, `SinksAssumption`, `SourceAssumption`, `PipelineAssumption`,
`EngineAssumption`, `AcquisitionAssumption`, `TrackingAssumption`, `DecoderAssumption`,
`AssemblerAssumption`, `NavigationAssumption`): capacities and sizes are positive, thread sets are finite where they are counted, model values that mark
"nothing" are distinct from real ones, half a chip is a whole number of units.  Some
theorems need more about the constants and say so as their hypothesis; the code's values
satisfy it, nothing in the code enforces it:

| Hypothesis | Says | In the code |
|---|---|---|
| `WindowFits` | a subframe, the smallest drop and three bits fit below the compaction threshold; edge candidates are within a subframe | 6000 + 10000 + 60 <= 30000; 2 <= 6000 |
| `PoolFits` | the slots of a search fit the first pool | 2 slots for the default grid, pool of 32 |
| `GridFits` | a grid has at most 500 bins | 17 bins for the default grid |
| `CodeParameters` | at most three bits of a word are corrupted, at most two candidate edges on each side, at least six periods to a bit | 2 candidates, 20 periods; three flips are what the parity is made to notice |

* `BoundedQueueProofs`.  The ring invariant (the occupied slots are the `m_count`
  slots from `m_head`) gives type correctness and, with the mapping that reads the
  ring from `m_head` on, `RefinesFifo`.  *No lost wakeup* is inductive only together
  with a count of the notifications still on their way: there are at least as many of
  them as there are sleepers next to work.
* `TrackingWorkerPoolProofs`.  The inductive invariant `PoolInv` relates the pending
  count to the slots not yet claimed plus the helpers inside the run, ties every
  helper to the current generation, and says that once the caller or a helper left
  the cursor loop the cursor is exhausted.  `BarrierHolds` and
  `RefinesParallelFor` follow.
* `ApplicationProofs`.  `SingleFlight` alone is not inductive: that a result is
  never dropped and that a job is never dispatched twice need each other.  `AppInv`
  adds which shapes the two queues can have and that the channel under search is
  in Acquiring.  On top of it `SweepInv`: a channel with metrics of another search is still
  queued, and what the cold-start cursor has passed was searched or is in flight.  Since
  the sweep can only end with nothing in flight, `SweepSkipsNoChannel` follows.
* `ChannelProofs`.  `CompactionIsSound` shows that what is dropped is a whole number
  of bits and lies at least two bits before every position, so the subtractions do not
  go below zero and distances to the newest sample are kept.  `NavInv` carries that
  through all actions (`CompactionCorrect`, `TypeCorrect`).  `LifeInv` covers the
  lifecycle (`ForgetsOnLoss`) and the ephemeris (`EphemerisCorrect`), whose lemma
  `MergeIsConsistent` says what `mergeSubframe` leaves whatever it found.
  `HistoryIsBounded` needs to know how fast the decoder reads: by `PaceInv` each candidate
  phase waits for data between blocks, and a block gives it one attempt, which moves it a
  whole bit; once synced the decoder reads behind its anchor, so only the anchor can hold
  the history back.
* `SinksProofs`.  `SinkInv` follows a message: it has the highest number its output was
  offered so far, because the publishing lock is held across all outputs (`Turn`), and from
  there on it only moves, in rising order, from the queue to the stream buffer and the log,
  or is lost (`Flow`).  `Shutdown` says that a thread which returned left its queue empty,
  which gives `DestructorsDrain`; `TornOnce` that the file stays closed after a tear.  The
  step of the refinement (`RefinesLossyLog`) is: whatever an action appends to a log is
  above what the log holds, and was offered.
* `PipelineProofs`.  `StreamInv` counts bytes: while the producer is in its loop
  `readBlock` has consumed exactly the blocks it delivered plus the part of the call in
  progress, so a short or failed read can only end the loop, never shift a block.
  `BuffersAreBounded` is not inductive, because the producer allocates after it *saw*
  the recycle queue empty, which need not be so any more; `BufferInv` adds that while it is
  without a buffer there is room for one more.
* `AcquisitionProofs`.  `SearchInv` says what the engine's memory means during a search:
  the cached address names either this block or this code, and every filled slot that
  counts as valid, on the device or on the host, has this block's spectrum.  It is
  preserved when any single OpenCL call fails, and needs `PoolFits`: section 6 says what happens
  when the pool grows.  `HealthInv` adds which slots are ready when nothing failed.
  `SearchIsOnTheGrid` is arithmetic of the rounded ratio, and its error grows with the bin.
* `MeasurementProofs`, tracking.  `PhaseInv`: the wrapped phases differ from the oscillators
  by whole codes and whole turns, whatever sign `fmod` leaves.  `CarrierInv`: the frequency
  is the basis plus the NCO of the loop in charge, on the handover block too; without it
  `CarrierNeverJumps` does not follow for a single step.
* `MeasurementProofs`, decoder.  The sum of a bit at a start `d` blocks early is a mix of two
  neighbours with weights `d` and `Period - d` (`BitSumMix`), so its sign is the nearer
  one's: all starts less than half a bit away find the same bits.  For these, eight bits of
  preamble fix the polarity against seven flips (`WordFound`), every bit is in an odd
  number of the six checks and no two bits are in the same ones (`OddColumns`,
  `ColumnsDiffer`), so one, two or three flips leave a check odd.  Exactly half a bit away
  there are two cases.  With the edge between two blocks a one needs two ones, and no
  preamble has that form.  With the edge inside a block the start reads the word one bit
  late, and the bits 2, 3 and 7, flipped, *do* make an inverted preamble; but the fifth row
  of taps is the fourth one moved by one place (`RowsFourAndFive`), so the fifth check
  repeats the fourth check of the word with one flip too many and fails for all data
  (`ShiftedNeverDecodes`).  The edge metric of a start is compared with that of an earlier one
  term by term (`NearerMatchesBetter`); the later ones are not complete, so the offset is
  zero for the two starts next to half a bit (`OffsetIsZero`) and at most two blocks back
  for the others.  `DecoderInv` says that noise could spoil every start within half a bit
  that was passed (`Spoiled`); how much noise that takes is `MarginalNeedsNoise`.  No bound
  on the noise is assumed.
* `MeasurementProofs`, position.  `InOrder` is a bijection (`InOrderIsBijection`), so the mask
  renumbers the rows of all three vectors alike, and erasing one place of each keeps them
  aligned.  `GateInv`: a row is only removed while more than the minimum remain after it,
  and after a removal there are at least five; so an exact fit of four was never reached by
  rejection, which is `PublishedFixIsSound`.  `TimesInv` carries the assembler's times to the
  solve; a cluster of more than half of the arrivals contains the median, whatever the
  sort does with the rest, and from there `EdgesAreRepaired` is the arithmetic of the guard
  band.  `SolveRunsOutOfRows` is the safety half of `SolveReturns`: every turn of the
  unbounded loop costs a row.

Only model-checked, and why:

* all liveness properties (`SleepersServed`, `FinishReleases`, `RunReturns`, `ShutdownJoins`,
  `SearchCompletes`, `DestructorReturns`, `ConfirmingEnds`, `PipelineTerminates`,
  `DestructorsReturn`, `SolveReturns`): the prover has no rules for fairness;
* `CodesAreGold`: a computation without a parameter, 1023 shifts of two concrete registers
  from one state.  The run executes all of it for all 32 codes, so there is no larger
  instance for a theorem to speak of.

Every other invariant and action property of a passing run is stated by a theorem.

## 5. Findings

1. **Re-acquisition can starve a channel** (`reacquisition_starves`).
   `Common/GPSOpenClStructs.hpp` documents `reacquisitionIntervalBlocks` as "Blocks
   between re-acquisition attempts."  The attempt of a channel is tied to block indices
   (`(index / slot) % channels`) and is skipped when another search is in flight at
   that block.  If the searches take longer than a slot the same channel can be skipped
   every time.
2. **A fix from four satellites can be poisoned for good** (`poisoned_fix`).
   `Pvt/GPSOpenClPVTSolver.hpp` says "One faulted measurement cannot poison the fix."
   Four rows are fitted exactly, also when one of them is a code period off, as it may
   be before the first fix (`Tests/GroundTruthTest.cpp` speaks of the "inherent
   one-code-period bit-edge ambiguity"): the residual gate passes, and the result becomes
   the trusted reference.  If that position puts one of the four below
   the elevation mask, `solvePosition` returns before it solves anything, in every later
   epoch.  A fifth satellite that is not hidden leads out of it.  `FixIsSound` states what
   does hold: rejection never goes down to an exact fit, so with more than four
   satellites above the mask a published fix rests on ranges that agree.

## 6. Observations

Met while modelling; each is in a module or was seen in the source, none is a run.

* `Channel::compactNavigationHistory`: "History stays inside its initial reservation."
  Only what precedes the last decoded subframe is dropped, so a synced channel that keeps
  lock while no subframe passes parity grows past 60000 samples.
  `HistoryFollowsAnchor` states what holds.
* `SpectrumEngine::ensureSlotPool`: a search with more than 32 slots grows the pool in
  the middle and invalidates the slots it has filled, so it is skipped the first time;
  when the larger pool cannot be allocated, the slots of the lost one stay `SlotDevice`.
  The default grid uses two slots.
* `SpectrumEngine::absolute` ignores the result of its upload; if only that call fails,
  it returns 0 with the magnitudes of an older vector.  `ResultsAreOfThisSearch` shows
  that this is the only way in which foreign data reaches the metrics as long as the
  slots fit the pool.
* `NavigationDecoder::tryDecodeAtBitPosition`: a start is tried as soon as its last block
  has arrived, so the candidate edges after it never fit, and the first start that decodes
  is half a bit early.  That is a common error of all channels, a clock bias, up to
  the starts that noise spoils; `AnchorsFollowNoise` says how much noise each further
  block takes.  While it cannot turn four blocks of a bit, channels settle on two adjacent
  blocks: the split into two clusters that the repository's README describes as a known
  open issue.  Nothing in the code enforces that; a weaker channel may be two blocks
  off, which `snapTransmitTimesToMedianArrival` leaves alone and only the residual gate
  can reject.
* `Tracking::fllDiscriminator` compares with the last *reliable* prompt, several
  blocks back after a fade, but divides by one code period; and `rateAidDiscriminator`
  takes the whole share from the offset even where the basis is clamped, which is the one
  step `CarrierHasNoSteps` excludes (`Saturates`).
* `Tracking::getTrackingOutput` runs after the sums are reset, so the published correlator
  values are zero.
* `FileSink` appends after a restart to a log that may end in a torn record;
  `LogStopsAtTear` holds within a run.  It also assumes that the error lasts: a stream
  buffer that a failed write left in place is flushed again by `close()`, and if that
  succeeds, records follow the torn one.
* `Channel::trackBlock` appends to three vectors; beyond their reservation a failed
  allocation between two of them would misalign them.

## 7. Not modelled, and the plan

Arithmetic over floating point (correlation, transforms, loop filter design, lock
indicators, orbits, least squares, atmospheric delays, dilution of precision) is out of
reach of both tools; the models keep its control and leave its values open.  `Settings`
runs once before any thread exists; `NmeaGenerator` and the JSON of `TelemetryExporter`
are formatting that no part reads back; `Profiler`, the wire structs and console output
take no part in any decision.  Texts are counted, not parsed, so the exchange of
in-phase and quadrature after a malformed line of `FileSource` is not told apart.

What is left to a model of its own: the upsampled code tables and the text parser, both
pure functions over data.  The proofs cover every safety property that has a parameter to
quantify over; liveness would need a prover with rules for fairness.
