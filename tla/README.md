# Pudica: models and proofs

Pudica is a UDP video transport for cloud gaming: a sender captures and encodes frames at 35
frames a second, paces them onto the network packet by packet, and lets a delay-based
controller choose the bitrate; a receiver reassembles frames, repairs single losses by parity,
acknowledges every packet and plays frames in order. This directory holds TLA+ models of that
code (`src/codes`) and of the Python programs that run experiments with it (`src/realnet`,
`src/evaluations`), TLC configurations that check them on small instances, and TLAPS proofs.

## Inventory

| Part | State | Operations | What makes it correct | What is hard |
|---|---|---|---|---|
| Rate controller (`pudica_algo.cc/.h`) | state machine STEADY / FALLBACK / CONGESTED_WAIT / DRAINING, rate, saved rate, epochs, runs of congested and lossy samples, loss ceiling | `on_frame_acked`, `on_frame_loss`, `on_inflight_age`, `take_encoding_bitrate`, `force_drain`, `check_shallow_congestion` | steps only on feedback about the current rate; drains only on three consecutive congested frames and only rises out of them on evidence; the fallback's bookkeeping agrees | called from three threads, on feedback several frames old, with frames lost in between |
| Sender (`sender.cc`) | capture queue, `inflight`, `retries`, flags, copies of the controller's rate | capture, pacer, `retry_one`, listener, `timers`, `resolve`, keyboard, `run`, `stop` | each frame begun has one outcome, reported in order; retransmissions neither early, nor forgotten, nor doubled; clean samples are of frames not known to be retransmitted or repaired; the rate limit ends | four threads and one mutex; clocks read before the mutex is taken; a stop or an exception in the middle of a frame |
| Sent-frame accounting (`transport.h`) | per packet send time, attempt, acked, queued | `acknowledge` | monotone, whatever the order of ACKs | lost, repeated and late ACKs |
| Receiver (`receiver.cc`) | session, window of frames, `next`, `need_key` | session start, reassembly, ACKs, ordered playout, eviction, keyframe requests | frames are played once and in order; nothing is decoded without its references; the picture comes back | restarts of either side, reordering, a clock that can step back |
| Reassembly and parity (`transport.h`) | payloads, parity blocks, count | `add`, `recover`, `assemble` | a packet is rebuilt exactly when its group lacks one | parity first, duplicates, short last group |
| Wire protocol (`protocol.h`) | none | `encode`, `decode` | round trip, rejection of inconsistent headers | sequential |
| Logger (`logger.cc/.h`) | a stream and its mutex | `log` | one line per event; the events of a frame in an order that the evaluations accept | written by all threads |
| Capture, codec, rendering (`cloud_gaming`) | FFmpeg, X11 and SDL handles | grab, encode, decode, draw | external | external |
| Network shaper (`realnet/netshape.py`) | `applied`, the interface's qdiscs | `apply`, `change`, `clear` | what was applied is removed, foreign qdiscs are preserved | commands that fail or time out half way |
| Remote receiver (`realnet/remote.py`) | owned and finished processes by port | `start_receiver`, `stop_receiver`, `fetch_receiver_log` | no process is left behind, none signalled that is not ours | ssh calls that fail after taking effect |
| Experiments (`realnet/run_all.py`, `session.py`, `gamesim.py`, `preflight.py`) | callbacks to run, game and display, results, exit status | `run_all`, `run_session`, `GameSim.start`/`stop` | a result that counts left nothing behind and measured what was configured; the exit status tells | cleanup after a failure at any statement, which may fail too |
| Evaluation batch (`evaluations/run_all_parallel.py`, `scenarios.py`, `utils.py`) | a pool, tests, their processes, ports, metadata | `main`, `emulate`, `cleanup`, `wait_for_experiment` | an experiment that counts was measured with its own processes; a batch ends | killed tests leave processes that hold ports; signals that go unheeded |
| Evaluation of logs (`sift.py`, `metrics.py`) | none | checks and statistics over a log | agrees with what the sender did | logs cut off by a stop at any moment, half-open windows, rounding |
| Trace conversion (`zeus_traces/convert.py`) | none | one file to another | the same capacity | none for the models |

How they interact: capture, pacer, listener and keyboard of the sender share one mutex, under
which they also call the controller; sender and receiver exchange datagrams that may be lost,
duplicated, delayed and reordered, and keyframe requests go the other way; scripts start and
stop processes on one or two machines, share their ports with earlier scripts, and read the
logs the sender wrote.

## Modules

| Module | Models | Kind |
|---|---|---|
| `PudicaController` | the controller, closed over the frames that carry its decisions | state machine |
| `PudicaControllerProofs` | theorems about it | proofs |
| `MCPudicaController` | sets for its configurations | TLC |
| `FrameLedger` | what the sender promises of every frame: one outcome, in order | abstract specification |
| `SenderFeedback` | the sender's threads around its mutex, refined to `FrameLedger` | state machine |
| `SenderFeedbackProofs` | theorems about it, with the refinement's steps | proofs |
| `MCSenderFeedback` | entry for its configurations | TLC |
| `ReceiverPlayout` | the receiver's loop: sessions, reassembly, playout, eviction | state machine |
| `ReceiverPlayoutProofs` | theorems about it | proofs |
| `MCReceiverPlayout` | entry for its configurations, symmetry of sessions | TLC |
| `KeyRequests` | the keyframe round trip: receiver, network, listener, capture; a theorem | composition, checked as it is |
| `RealnetSession` | `run_all` and the sessions of the two-machine experiments: shaper, remote receiver, game, cleanup | composition, checked as it is |
| `RealnetSessionProofs` | theorems about it | proofs |
| `EvaluationBatch` | the pool of `run_all_parallel.py`, its tests, their experiments and processes | state machine |
| `EvaluationBatchProofs` | theorems about it | proofs |
| `MCEvaluationBatch` | two tests and their ports | TLC |
| `Metrics` | `metrics.py` over a log, a sequence of events | operators |
| `MetricsProofs` | lemmas about sums, windows, parity groups, the bisection and the means | proofs |
| `Sift` | `sift.py` over a log | operators |
| `SenderLog` | the log a sender writes, in every order; what sift and the metrics make of it | composition |
| `SenderLogProofs` | theorems about it | proofs |
| `MCSenderLog` | three frames' sizes | TLC |

### PudicaController

One action per call the sender makes: `TakeEncodingBitrate` (capture), `OnFrameAcked` with its
branches `CongestionOnset`, `CongestionConfirmed`, `StartDrain`, `StayCongested`, `EndDrain`,
`Uncongested`, and `OnFrameLoss`, `Unsampled` (the two other ways `resolve` disposes of a
frame), `OnInflightAge` (`timers`), `KeyLoss` and `KeyDrain` (keyboard), `Tick`. Variables carry
the names of the fields, shortened: `saved` is `saved_rate`, `pending` is `fallback_pending`,
`ceiling` is `cubic_rate`, `lossRun` is `loss_samples` and so on; `bitrate` is the atomic the
other threads read. `pipe` is the closure: frames encoded and not yet resolved, with the epoch
they were tagged with in the critical section that also took their rate (sender.cc 200-216).
`timeouts`, a history variable, keeps the times of all backoffs. `pacing`, the other atomic, is
left out: only `on_frame_acked` changes what it copies, and its one caller stores it right after.

Rates are small integers. What the network measures is chosen freely: a sample is under ALPHA,
near (at most one) or over in BUR, and clean, lossy with little delay, or lossy with much. The
BUR history and tau only choose how far a step goes, so a step goes anywhere such a step can:
strictly up under ALPHA (or at the bound), by at most `AddStep` near one. A drain, its end and
the ceiling take any rate within bounds, since they come from measured receive rates.

### SenderFeedback

An action is one critical section with the unlocked code after it. The clock is read before the
mutex is taken by both the pacer (`started`, sender.cc 290) and the listener (`now`, 389): these
reads are steps of their own, which is where the interesting interleavings come from. Times are
ages, advanced by `Tick` and capped where no comparison changes; `lag` is the age of the
listener's reading, so `now - t` is `age - lag`, negative when `t` is newer than `now`. The
network and the receiver are `AcksFor`: any ACK for a packet sent, with FRAME_COMPLETE only once
all packets were sent, RECOVERED only for a frame that parity completed; ACKs are lost, repeated
and late. How the receiver completed a frame is open until an ACK first says that it did
(`MayBeRebuilt`, `Rebuilds`): `rebuilt` keeps the frames completed by parity whether or not their
RECOVERED ACK arrives, `touched` those that the sender retransmitted or was told the repair of.

Pacer: `PacerNoResend` (nothing to retransmit, read the clock), `PacerBegin` (pop, number and
enter the frame), `PacerResend` between packets, `PacerData`, `PacerSent`, `PacerProbe`,
`PacerProbed`, `PacerIdle`. Listener: `ListenerRead` (recv, clock), `ListenerStep` (ACK, timers,
resolve, rate limit). `Fail` is an exception in any worker (`guarded`), the `Main` actions are
`run` and `stop`. The history variable `outcome` records what `resolve` and `stop` do with each
frame and is what is refined to `FrameLedger`.

Left out: bytes and pacing delays (time between steps is free), the ACK rate and RTT
estimators (`retry_delay_us` is constant), stream-info packets; keyframe requests are in
`KeyRequests`, what is logged in `SenderLog`. A check of
`running` that is followed at once by a critical section is one step with it.

### ReceiverPlayout

One pass of the loop in `main` is a receive action, playout actions and `Evict`. Receive:
`ReceivePacket` (data, parity or probe of the current session), `ReceiveInfo` (stream
information that changes the decoder), `StartWithPacket`, `StartWithInfo` (a session begins or
replaces another), `TooManySessions` (the exception after 64 restarts), `Idle` (the socket's
timeout and every packet that changes nothing). Playout, repeated until `PlayEnds`: `GiveUp`,
`PlayCounted` (headless), `Decode` with its two outcomes, `AwaitKey`. A frame that the loop
jumps to over a missing one is in the same action as what happens to it (`Skipped`).

An `Entry` holds which payloads are there and which parity blocks are stored; `Recover` rebuilds
the one packet a group lacks. The history fields `seen` and `seenParity` keep what was received,
`ref` what the decoder holds. Payload bytes, sizes and the pictures are left out; `Capacity`
stands for both bounds on what is buffered, 256 frames and 16 MiB. Packets come from a free
network: any packet of any session at any time.

Time is the newest arrival time seen. `arrival_us` computes arrival from CLOCK_REALTIME and the
monotonic clock, so the next one may be smaller; `lag` is by how much, up to `MaxSkew`, and
`Within` is the unsigned comparison that wraps.

### KeyRequests

What `SenderFeedback` and `ReceiverPlayout` leave out of each other: a receiver that misses a
reference asks for a keyframe (`RequestKey`, receiver.cc 133-147), the listener of the sender
serves a request of its own session at most once per `SenderGaps` (`TakeRequest`, sender.cc
389-397), capture forces the encoder (`CaptureTakes`, `CaptureEncodes`), and the frame comes back
(`PlayWaiting`, `PlayDecoded`, `PlayRejected`, `Lost`). The encoder may yield nothing, having
forgotten that it was forced (`EncodesNothing`). A frame `Window` or more ahead of `next` is refused
(receiver.cc 105), and `next` moves over accepted frames only: `behind` is how far the first frame
still to come is ahead of `next`, after losses or because the receiver joined late (`FirstToCome`); at
`Window` the receiver is `Stalled`. The sender may be restarted, with
requests for the old session and frames from it still on their way; a session begins at the
receiver with stream information or frame 1. Frames are in playout order here, since how the
receiver brings them there is `ReceiverPlayout`'s subject. Ages stop at the largest gap, ids
and `behind` at the window. Two bounds, on frames and on requests in flight, block capture and
drop requests.

Restarts of the receiver are left out. One that joins after a whole window of frames is in the
model, and stalls, as `MCLateReceiver` shows.
Synthetic and headless modes never ask.

### RealnetSession

`run_all` checks its plan and the preflight's list, runs one session after another on one port,
goes on when one raises, and exits with a status. `pc` is the next statement of `run_all`,
`run_session`, `GameSim.start` or `Shaper.apply`, `stack` the session's `ExitStack`: each callback
is pushed before what it undoes is begun, and unwinding runs all of them, whichever raise.
Actions: `CheckPlan`, `Preflight`, `StartSession`, `FinishSession`, `EndRun` (`run_all`);
`StartXvfb`, `StartContent`, `UndoGame` (`GameSim`); `Launch`, `AlreadyOwned`, `Ready`
(`start_receiver`); `CheckQdiscs`, `AddRoot`, `AddNetem`, `AddFilters`, `Undo` (`apply`);
`Change`, `Spawn`, `SenderEnds`; and the five `Unwind` actions (`stop_process`, `clear`,
`stop_receiver`, `fetch_receiver_log`, `GameSim.stop`). A command has one of three `Outcomes`:
done, failed, or `late`: it took effect and raised all the same, by a timeout or a lost
connection. The Shaper is new in each session, `_owned` and `_finished` outlive it. The
environment: receivers, games and displays die, someone configures the interface or runs an X
server on the display.

`stop_receiver` ends in a KILL that it does not wait for (remote.py 57-60); the model takes the
receiver to be dead when that command has returned.

Left out: pings and files (a failure there is one of the neighbouring statements), the fairness
test with its several ports on one interface, reuse of a process id between the ownership check
and the kill, someone configuring the interface between a check and the command after it, and a
command that takes effect after its session ended. An interrupt from the keyboard is a failing
command.

### EvaluationBatch

`run_all_parallel.py` runs batches of tests in a pool; `PoolStarts`, `Timeout`, `MainReads` and
`MainReturns` are the pool and `main`'s loop over its results in order, in which the first
`TimeoutExpired` cancels the tests that have not begun. A test runs its experiments one after
another: `Prepare`, `StartProcess` (receivers, each waited for by `Ready` or `NotReady`; servers;
the link), `ExperimentEnds` and `Check` (`wait_for_experiment`, the logs), `CleanOne` and
`EndExperiment` (`cleanup`). Processes bind their port or find it taken (`Bind`), die (`Die`) and
may outlive their signals. A timeout kills the test's process and nothing else, so that what it
had started keeps running, into the next batch too.

Two assumptions. A link left behind by a killed test has ended by the next batch, since the
emulated link stops with the sender it runs. A server is started but not waited for; `Settled`
lets an experiment count only once each of its processes has bound its port or exited, seconds
after it began. `gone` is a history variable.

### Metrics, Sift and SenderLog

A log is a sequence of records with the fields the evaluations read. `Metrics` has the functions
of `metrics.py` that a property is about: wire bytes of a frame, `payload_equivalent` (whose
range is in 1/`unit` bytes, the unit doubled by each of `Halvings` steps), `throughput`, `wire_throughput`, the counts of `summarise`,
`offered_utilization`'s frames, the running sum of `smoothed`, `convergence_ms`. `Sift` says which
event of a log `sift.py` complains about. `SenderLog` writes the log: the pacer, the listener with
`resolve`, ACKs that complete nothing but measure a delay (`Measure`), a stop at any moment and
`Close`; what the network delivers, which samples are
congested and which probes are acknowledged are free choices. Time is the length of the log.
Properties compare the two: what the evaluations compute with what the sender did (its history
is `frame`), and what is computed cleverly (running sums, bisection) with a direct definition. `EquivalentFits` states
the payload up to the width that the bisection ends with, which is one byte when the capacity is
at most 2^`Halvings`, as in the run and with the code's 60 steps.

## Runs

| Run | Question | Bounds |
|---|---|---|
| `MCController` | fallback, waiting, drain, epochs, loss ceiling, spacing of backoffs, the published rate, under every interleaving with the debugging keys | rates 1..3, 4 frames (two runs of three overlap, or one is interrupted), 3 in flight, clock to 3 and gaps of 1 or 2 between backoffs (frames that expire together, and three backoffs at different gaps), one key, `l` or `d` |
| `MCSenderPackets` | retransmission bookkeeping, samples, timeouts, shutdown | one frame of two packets, two retransmissions, timeout 3 (long enough for a third, which must not happen), retry delay 1, lag 1, failing workers |
| `MCSenderLedger` | refinement of `FrameLedger`, with its liveness; the rate limit ends | two frames of one packet, queue of one, two retransmissions, timeout 1, lag 0, every age reported (`LateAge` 0: reports change nothing that these properties read) |
| `MCReceiver` | decoding only with references, exact reassembly, playout never goes back | three frames of two packets and parity, window and capacity 2, timeout 1, three sessions with one retired, both modes, skew 1, frame 3 a keyframe or not |
| `MCReceiverLive` | no frame blocks playout or stays buffered; retired sessions | two frames, two sessions, skew 0 (a wrapped age only makes frames leave earlier) |
| `MCKeyRequests` | a lost picture returns; keyframes are forced for this session's receiver only | gaps 2 at the receiver, 2 or 3 at the sender, three frames and two requests on their way, a window of two frames, two sessions |
| `MCRealnet` | what is left behind, measured and reported when commands fail or take effect late | three sessions (one leaves something, one meets it, one follows), two rates |
| `MCEvaluationBatch` | experiments that count used their own processes; a batch ends | two batches, two tests in two jobs, one with two experiments, one with a receiver and a server |
| `MCSenderLog` | sift accepts what the sender writes; the metrics agree with what it did | three frames of 5040, 4560 and 4800 bytes (a group and a packet, and two of a group; with a target of 4800 the edges of the 5% band and its middle), one retransmission, eight capacities around the steps of `FrameWireBytes` |
| `MCSpuriousAlarm`, `MCRepairUnheard`, `MCLateReceiver` | three statements of the documentation or comments that the code does not keep, see below | small |

Why the bounds are enough: the controller compares rates with each other, with the bounds and
with the cut, so a few rates realise every order; runs have length three, so in four frames two
of them overlap, and one can be interrupted; its main properties are proved for all bounds. The
sender treats packets of a frame alike and frames only through their order, so two of each show
duplicates, orders and overlaps; ages are capped above the largest threshold plus the lag. The
thresholds of the rate limit (4 and 2 in the code) are 1 and 1 here, so that a single packet
reaches both.

In the receiver three frames give a frame missing, one incomplete and one complete in every
order; a window and capacity of 2 refuse the third until one leaves; a group of two packets and
its parity has every case of `recover`, none missing, one and more. Frames evicted, played and
arriving late meet because ages run to past twice the timeout.

In `MCKeyRequests` requests of two sessions and gaps that differ meet in the two places that a
request has; more frames or requests only queue. A window of two frames tells none lost, some
lost and too many lost. In `MCRealnet` the fourth session would find what
the third finds; its properties are proved for any number of sessions. In `MCEvaluationBatch` the
second batch meets what the first left. In `MCSenderLog` three frames make one run of three
samples, hence one drain and what sift demands of it; a gap inside a run takes four and is
covered by `DrainAfterThree`. Their sizes differ in packets and in parity
groups, and are such that smoothed rates fall on both edges of the band, inside it and, since a frame
that is not delivered counts as zero, below it, in windows of one to three points; rates above the
band are left to the proof.

`CHECK_DEADLOCK FALSE` is set where the program ends: the receiver after too many restarts,
`run_all` after its sessions, a sender that was stopped, a log that is closed, batches that run
out; and in the controller's run because frames, clock and keys run out. `MCKeyRequests` checks
deadlock.

Fairness. `SenderFeedback` and `ReceiverPlayout`: each thread keeps running and time passes;
nothing is assumed of the network, of capture, or of the moment main decides to stop. For the
listener that is said of its place in the loop (`ListenerGoes`), whatever ACK it reads. Main reacts
to a stopped sender (the loop at sender.cc 487 polls `running`). `Tick` is strongly fair because
the model's bound on `lag` disables it now and then. `EvaluationBatch`: main and the tests go on,
each of their waits has a deadline; nothing is assumed of processes or of the pool's timeouts.
`KeyRequests` has to assume more, since a network that loses everything returns no picture: a
request, a frame or stream information that is sent again and again is not lost for ever,
capture does not skip frames and the encoder does not yield nothing for ever, and the decoder
does not reject every keyframe. What is shown is that the two rate limits, which are independent
of each other, and a restart of the sender leave no state from which no further request is made
or served, except the stall: `PictureReturns` promises the picture or `Stalled`, which is what an
outage of 256 frames, or joining that late, comes to in the code.

### What the code does not keep

- `MCSpuriousAlarm`: the age of the oldest frame wraps when the frame is newer than the
  listener's clock reading (sender.cc:179, pudica_algo.h:154), although the three other places
  that subtract times guard against it; `RetransmitsAreDue` and `LossesAreLate` show that those
  guards suffice.
- `MCRepairUnheard`: a frame that parity repaired is sampled as clean when its one RECOVERED ACK
  (receiver.cc:131) is lost, since any other ACK of it then reports it complete
  (TECHNICAL_DOCUMENTATION.md:299, pudica_algo.h:54). `CleanUnlessUnheard` shows that this is the only
  way: what the sender retransmitted, or was told of, is never clean.
- `MCLateReceiver`: a receiver that joins, or is restarted, after 256 frames refuses all that
  come (receiver.cc:105): `next` is 1 and only a buffered frame can move it. So does one that
  missed 256 frames in a row.

Seen while modelling, and part of the models:

- A good sample between the fallback and the next encoding restores the rate before any frame
  used the cut (pudica_algo.cc:98), against TECHNICAL_DOCUMENTATION.md:265.
- An arrival time that steps back makes an incomplete frame look timed out, and it is given up
  early (receiver.cc:26-32, 151-156; TECHNICAL_DOCUMENTATION.md:414). The properties of the
  receiver hold in spite of it.
- A frame may be delivered without a sample, though sender.cc:105 promises each one: when only
  RECOVERED ACKs arrived, no one-way delay is measured and the frame takes neither branch of
  `resolve` (outcome `unsampled`).
- The debugging key `l` calls `on_frame_loss` with a default time of 0 and thereby erases the time of
  the last backoff (sender.cc:455). `BackoffsSpaced`, which is checked with that key, counts backoffs
  anew after it.
- The queue's bound is checked before the encoder runs and applied after it (sender.cc:213):
  harmless, since capture is the only thread that adds frames.
- BUR is printed with six decimals, so a drain on three samples of which one is above 1 by less
  than half a millionth is reported as invalid by `sift.py`. `SiftAccepts` allows for exactly that.
- `sift.py` accepts a delivery after a loss of the same frame, but not the reverse
  (TECHNICAL_DOCUMENTATION.md:504). The sender writes neither.
- `wire_throughput` counts retransmissions of frames that were never delivered
  (TECHNICAL_DOCUMENTATION.md:488); `WireIsSent` states it so.
- `payload_equivalent` is 0 for a capacity below one packet's frame; `convergence_ms` then raises,
  after the experiment has run.
- `TECHNICAL_DOCUMENTATION.md:545` says that no test covers the keyframe round trip; `KeyRequests`
  does, as a model.
- A test killed after its hour leaves receivers and servers that hold their ports, and the next
  batch's test then fails (run_all_parallel.py:14-17). `metadata["ok"]` of an experiment stays
  true if its cleanup raises afterwards; the test then fails (`PassIsClean`).
- A session whose receiver could not be started keeps as its receiver.log that of the last
  receiver on its port (remote.py:63). `OkIsClean` shows that this happens to no session that
  counts.
- When the wait after a kill raises in `GameSim.stop`, its Xvfb keeps running; later sessions find
  a display that answers, use it, and never stop it (gamesim.py:43-45, 104-122). The session in
  which that happened does not count.
- A preflight for the doom backend looks for chocolate-doom, not for the .wad file that the game
  needs. A plan that only holds tests which need shaping, with NO_SHAPE, runs nothing and exits
  with 0 (run_all.py:64-66).

## Proofs

`PudicaControllerProofs` proves, for all values of the constants, `TypeOK`, `FallbackBook`,
`SteadyUncongested`, `EpochsTellFresh`, `PublishedRate` and the action properties
`StepOnFreshFeedback`, `DrainAfterThree`, `DrainHolds`, `CeilingAfterThreeLosses` and
`BackoffsSpaced`: everything `MCController` checks. Assumptions are those named in `PudicaController`:
`0 < BMin <= BMax`, natural bounds, known input kinds.

- `TypeCorrect` is inductive; the arithmetic of cuts and halves is in lemmas that keep a rate
  within bounds.
- `FallbackConsistent`: the two invariants are proved as one (`FallbackInv`), inductive given the
  types: onset and confirmation of congestion each read what the other maintains, the count of
  congested samples and the fallback's state.
- `EpochsSound` strengthens the property (`EpochInv`): the last decision is not after
  `nextFid`, `adjEpoch` always equals `rateEpoch`, and each frame in the pipe has an id below
  `nextFid` and an epoch of at most `rateEpoch`. A new epoch then separates the frames encoded
  before it from those after.
- `FreshFeedback` reads the guard `epoch >= adjEpoch` through that invariant.
- `DrainsNeedThree` needs `RunInv`: as many samples as `congested` says, at the end of
  `recent`, are congested, and they are of consecutive frames up to `lastSample`.
- `DrainsHold` uses `FallbackBook` (nothing is pending while draining, so an encoding restores
  no rate) and `RunInv` (`recent` ends in the sample just taken).
- `CeilingNeedsThree` needs `LossInv`, the like of `RunInv` for losses: the entries of `lossRun` are
  those of the newest samples in `recent`, of consecutive frames, each newer than `ceilingAt`.
- `BackoffsApart` is about the whole sequence of backoffs: any two are as many gaps apart as there are
  steps between them, those at one clock value included. It needs that the time the controller
  remembers is always that of the last backoff in `timeouts` (`BackoffInv`). `RatePublished` is
  inductive.

`SenderFeedbackProofs` proves, for any numbers of packets, probes and frames, any time-outs, clocks
and failing threads, that the sender implements `FrameLedger!SafeSpec` (the safety part of
`LedgerKept`), `TypeOK`, `RetryBook`, `CleanUnlessUnheard`, `ShutdownCloses`, `NoPacketForgotten`,
`LossesAreLate` and `RetransmitsAreDue`: every safety property of its two passing runs. Assumptions are
those named in `SenderFeedback`.

- `FlightInv` types what the rest reads of a frame: its times. It asks nothing of the deque.
- `LedgerInv`: the in-flight map holds exactly the frames begun that have no outcome, and a
  frame that waits or is encoded has an identifier left. It is inductive because `resolve` and
  `stop` are the only steps that take frames out of the map (`Resolving`, `NotResolving`).
- `Handled` sums up a step of the listener: `AckEffect`, `DueEffect` and `ReallyOver` say what ACKs
  and timers leave of a frame, and that a clock which is behind delays them but never hurries them.
- `LedgerStep` maps steps: beginning a frame is `Send`, resolving some is `Report` up to the
  newest of them (`HasGreatest`), every other step leaves the ledger alone.
- `StopInv` (nothing is left to run after `stop`) with `LedgerInv` gives `ShutdownCloses`; `SendInv`
  (the packets the pacer has passed were sent) gives `NoPacketForgotten`.
- `BookInv` has each entry of the deque once, each of a frame begun, marked as queued or
  acknowledged, and each mark with its entry (`MarksAgree`): it is `RetryBook` with what makes it
  inductive, that a mark is never of an acknowledged packet. The listener appends the packets due in
  the order of a CHOOSE; that this enumerates each once follows from their ranks
  (`OrderedEnumerates`). `ResendBook` is `retry_one` with all the stale entries it skips.
- `BookInv` holds only together with `GotInv` (the ACK in hand is for a frame still in flight: only
  the listener erases frames, and it does so in the step that uses the ACK), `SendInv` and
  `ProbeInv`; `TouchInv` adds that a frame in `touched` has `loss` set before `resolve` can
  look at it. This is `RetryInv`, and gives `RetryBook` and `CleanUnlessUnheard`.
- `FlagsInv`, `PlacesInv` and `MapInv` are the rest of `TypeOK`.

`ReceiverPlayoutProofs` proves, for any sessions, streams, frame sizes, group sizes, windows,
time-outs and clock skews, every safety property of `MCReceiver` and `MCReceiverLive`: `TypeOK`,
`RebuiltExactly`, `KeyframesKnown`, `RefsKnown`, `NoComeback` and `RetiredStay`. Assumptions are those
named in `ReceiverPlayout`.

- `EntryInv` is what packets leave of an entry, in two halves. `Sound`: a payload whose packet did
  not come was missing alone, and its group's parity came; parity that is no longer kept was
  used, or is of no use. `Settled`: nothing can be rebuilt now. A packet breaks the second half
  for its own group only, which is why `recover` need look at no other (`RecoverInv`, `TakeInv`).
  `EntryProperties` draws `RebuiltExactly` from it, and `KeyframesKnown`: a complete frame has at
  least one data packet that came, as a group with parity has two members.
- `FramesInv` has every buffered frame in `EntryInv`, and `next` after what was played and after
  what was evicted. The second is why a frame admitted by the window is newer than any evicted,
  hence `NoComeback`; `EvictFacts` shows that eviction keeps it.
- `RefsKnown` and `RetiredStay` are inductive, the first given `FramesInv`.

`RealnetSessionProofs` proves `TypeOK`, `ForeignKept`, `MeasuredAsConfigured`, `ExitTellsAll` and
`OkIsClean` for any number of sessions and any rates. Assumptions: `MaxSessions` is a natural
number, `Rates` a set of positive ones. The argument goes by the statement a session is at, in
layers:

- `AtWork`: a session is under way at every statement but `run_all`'s own. `TypeOK` is inductive
  only with it.
- `ShapeInv`: what the interface holds at each statement. It gives `ForeignKept`: the only
  commands that write are at statements where the root is ours, or bare. Time-outs are why it
  says nothing of `applied` where the root may have been added late.
- `AnswerInv`: at most one receiver has the port, and once the session's own was seen to answer, it
  is that one. With `ShapeInv` it gives `MeasuredAsConfigured`.
- `CountInv`: a session counts at its end at the earliest, and until a test is bad all before it
  count. It gives `ExitTellsAll`.
- `StackInv` and `CleanInv`: the callbacks pushed at each statement, and how far an unwinding
  without an exception has come: each callback that does not raise did its part, so that a
  session that ends with an empty stack and no exception left nothing. It gives `OkIsClean`.

`KeyRequests` ends with the proof of `ForcedIsAsked` for any gaps, bounds and restarts; the
one assumption it uses is that the window is not empty (`WindowSize`). `OrderInv` strengthens it: the receiver is never in a later session
than the sender, frames in flight are of sessions that have begun, and requests in flight of
sessions the receiver had joined.

`EvaluationBatchProofs` proves `OkMeasuredByOwn` and `PassIsClean` for any tests, ports, experiments
and numbers of jobs and batches. Assumption: the plan is well-formed (`Plan`: ports are numbers,
each test has a list of them and at least one experiment). The properties are two conjuncts of the
inductive `Inv`; the others say of each test where it is:

- `TestInv`: a test is in one of its experiments while it runs, and is cleaning up once one failed.
- `AliveInv`: what runs of this batch belongs to the experiment its test is at, or to one that
  failed, was killed or left a process that would not stop. What older batches left is not bounded.
- `OkInv` and `CountInv`: what counts is over or being cleaned up after, and everything before the
  current experiment counts. The second gives the half of `PassIsClean` about experiments.
- `GoneInv`: an experiment that lost a process lacks one until it is cleaned up after, so the check
  at its end sees that. With `OkInv` (nothing counts that may still lose a process it needs) it
  gives `OkMeasuredByOwn`.
- The proofs look at steps by what they do to one test (`Acts`: begin, go on, raise, start, count,
  clean, go to the next, end), not by action, so that each invariant meets eight cases.

`SenderLogProofs` proves all six invariants of `MCSenderLog`: `SiftAccepts`, `SummaryAccounts`,
`WireIsSent`, `SmoothedIsMean`, `SettledConverges` and `EquivalentFits`, for any frames, sizes,
delays, packet formats, intervals, capacities and numbers of retransmissions. Assumptions:
`WireFormat`, `FrameBound` and `InputKinds` (positive sizes, intervals, targets and capacities),
and that a frame has four probes (`FourProbes`), as the literal in `sift.py` demands.

- `LogInv` is `FramesInv` (how far each frame is) with `Booked`: which events of each frame the log
  has (`Books`), that sift objects to none of them (`Valid`), that the controller's run of congested
  samples is in the log frame after frame (`RunLogged`), and that every drain has its three samples
  (`DrainsEarned`). `resolve` and the final loop of `stop` write several events in one step; each
  is shown to keep `Booked` by itself, with counters for how far the step has come.
- `DataInv` is about contents: an event's time is its place (`Dated`), it has its frame's size
  (`Datum`), and what was sent of a frame is its packets, parity, probes and as many packets as the
  log has retransmissions (`Accounted`). With `LogInv` it gives `SummaryAccounts` and `WireIsSent`.
- `ParityCounted`: the pacer counts the ends of parity groups, `metrics.py` their beginnings. A
  bijection between the two shows the counts equal, the group of one packet included.
- `SmoothedMeans`: after each point the kept window is the trailing window and the running total its
  sum. `TrailMean` bounds such a mean by bounds of its members, `MeanInBand` takes this to the band
  on either side of the target, and `WindowsFound` to windows of points: one that fits before the end
  is found if all it is smoothed from is in the band, and is not if one of its points is smoothed
  from rates that are all too high or all too low. That is `SettledConverges`.
- `Bisects` is the bisection's invariant: the lower end fits or is zero, the upper end does not fit,
  and the range has the width of the capacity in its unit. It needs that `FrameWireBytes` grows
  with the payload (`WireGrows`): the parity groups of fewer packets are among those of more.

`MetricsProofs` holds the lemmas. The models sum with `SumFunction`, which adds in an order that is
not specified; `PartSumIsSum` to `SumBounds` show that it is additive, linear, monotone and the same
under a bijection. The recursive functions on `0..n` (`PayloadEquivalent`, `Smoothed`) are shown
to exist before they are used, and induction is over sets (of numbers, or of subsets of a finite set) and
rests on the well-foundedness of the numbers, as the library's induction theorems take operators.

Only model-checked: liveness, which the prover does not handle. That is the liveness of
`LedgerKept`, and `LimitReleased`, `EveryFramePasses`, `PictureReturns` and `EveryBatchReturns`.
Every invariant that a passing run checks, and every action property, is proved. The types of the
variables of `KeyRequests`, `SenderLog`, `EvaluationBatch` and `RealnetSession` are part of
`OrderInv`, `FramesInv`, `TestInv` and that module's `TypeOK`.

## Not modelled

- Sender and receiver with the network in between as one model: the product of the two machines is
  out of TLC's reach at a size where retransmission, reordering and eviction meet. Each is
  checked against a freer partner than the other one is: the sender against any ACKs for what was
  sent (`AcksFor`), the receiver against any packets. `KeyRequests` composes the two where their
  rules meet.
- The wire format (`protocol.h`): sequential conversions of fixed layout.
- FFmpeg, X11 and SDL wrappers: external; their failures are choices of the models.
- The logger's formatting and flushing; a failing write is a failing worker (`Fail`).
- The fairness experiment's several flows on one interface, and the values of `config.py`.
- In the evaluations: traces written, command lines, plots, percentiles, Jain's index and the
  CUBIC report, which are arithmetic over one file.
- `zeus_traces/convert.py`: a stateless conversion.
