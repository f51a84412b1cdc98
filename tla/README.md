# Formal model of fieldbus-control-node

TLA+ modules that model the control node, the loop that runs it and what they
promise, the TLC configurations that check them on small instances, and TLAPS
proofs of the results that should hold for every value of the constants.
Every definition is translated from the Rust sources; line references are to
the files of the repository.

## The system: inventory

| Part | State | Operations | Interacts with |
|---|---|---|---|
| Validator (`core/src/j1939.rs`) | last accepted sequence number, accepted, rejected, one counter per reason | `validate`, `reset_sequence` | called by the node for each frame |
| Watchdog (`core/src/watchdog.rs`) | last seen instant, latched safe state | `new`, `feed`, `check`, `reset` | fed by accepted frames only, checked once per step |
| Control law (`core/src/control.rs`) | filter value, primed, integral | `LowPass::update`, `Pi::update`, `reset` | run by the node when not latched |
| Control node (`core/src/node.rs`) | the three above, transmit sequence | `step(now, frames)`, `reset(now)` | called by the runner once per cycle |
| Periodic runner (`host/src/runner.rs`) | cycle, period ledger, jitter, misses, first trip | one loop: sleep, receive, step, send, record | bus, node, hog |
| Simulated bus (`host/src/bus.rs`) | cycle, sensor sequence, plant, noise, fault schedule | `recv_until`, `send` | runner |
| SocketCAN bus (`host/src/socketcan.rs`) | a socket | `recv_until`, `send` | runner, Linux |
| CPU hog (`host/src/hog.rs`) | state word, lock, condition variable, threads | `spawn`, `activate`, `deactivate`, `stop` | runner, spinner threads |
| Jitter statistics (`core/src/telemetry.rs`) | histogram, extremes, misses | `record`, percentiles | runner, reports |
| Reports and gates (`host/src/report.rs`) | none | positive gate, three negative controls | run outcomes |
| Telemetry store (`cloud/src/lib.rs`) | append-only log, devices, readings, metadata | `open`, `register`, `rotate_credential`, `ingest`, `publish_*` | file system, HTTP server |
| Device simulator (`cloud/src/lib.rs`) | ring of unsent readings, counters | `sample`, `sync`, `reboot` | store, over a faulty link |
| HTTP server (`cloud/src/main.rs`) | metrics, store | one request at a time | devices, operators |
| Browser demo, site, scripts, infrastructure | none of their own | | |

What is hard, and what makes each part correct:

* **Validator.** One fixed attribution order; a refused frame must not move
  the sequence position; sequence numbers and counters wrap. Correct when the
  histogram of refusals is exact and no legitimate frame is refused because of
  an injected one. A real gap in the stream is another matter (below).
* **Watchdog and node.** Order of ingest, check and control inside a step; a
  latch that nothing on the bus can clear; staleness counted from acceptance.
  Correct when every command is either fresh or safe.
* **Control law.** Anti-windup over long histories of errors.
* **Runner.** Late wake-ups, overruns and catching up; each period counted
  once; attribution of misses to the window of the CPU hog.
* **CPU hog.** Wake-ups between a waiter's test and its wait, joining threads.
* **Store and device.** Crashes and failed writes between the bytes of an
  event, partial batches, lost responses and retries, a full ring, rotation.

The complete list of hazards, each at its line and with the properties that
would catch it, is in `PROJECT.json`.

## Plan

1. `Validator`, `Watchdog`, `ControlLaw`, composed by `ControlNode`; abstract
   promise `FailSafe`; proofs in `ControlNodeProofs`. (done)
2. `PeriodicRunner` and `PeriodicRunnerProofs`; `SimBus`; `ControlRun`, which
   composes node, runner and bus. (done)
3. `EventStore`: file, crash and failure at any point of an append, replay.
   (done)
4. `DeviceUplink` over `EventStore`, with the contract `UplinkContract`, its
   refinement and the draining of the ring. (done)
5. `CpuHog`: threads, lock, condition variable, relaxed state word; `HogRun`,
   which runs it under the loop; `CpuHogProofs`, `HogRunProofs`. (done)
6. `JitterStats` (nearest rank against the samples themselves) and
   `CompletionGate` (gate, controls, verdict), evaluated on the runs of
   `ControlRun` and `HogRun`. (done)
7. `SocketStream`, the SocketCAN bus in front of the validator. It takes the
   place of a first model of a lossy wire without a socket. (done)
8. Proofs of the compositions: `ControlRunProofs`, `SocketStreamProofs`,
   `DeviceUplinkProofs`. (done)
9. Proofs of the store, `EventStoreProofs`, and of what they mean for a device
   (`DeviceUplinkProofs`). (done)
10. Proofs of the statistics and of the verdicts that rest on them: sums and
   histograms in `PeriodicRunnerProofs`, runs in `HogRunProofs` and
   `ControlRunProofs`. (done)
11. Left: the request counters of the HTTP server.

## Modules

* `Validator` models `j1939.rs`. A frame is the set of structural checks it
  fails, its sequence number and its value; `Fails`, `Attributed` and
  `Acceptable` are `classify`, `ValidateOk` and `ValidateErr` are `validate`.
  An `Option` is a set of at most one element, here and elsewhere.
* `Watchdog` models `watchdog.rs`: `Arm`, `Feed`, `Checked`, `WatchdogReset`.
* `ControlLaw` models `control.rs` in scaled integers (Kp = 15, Ki = 1, limit
  25000 in units of 1/25 are exactly the program's gains). Rounding of `f32`
  is not modelled; the filter rounds down.
* `ControlNode` composes them. One call of `step` is `StepBegin`, then
  `IngestAccept` or `IngestReject` for each frame of the slice, then
  `CommandSafe` or `CommandControl`, which contain everything after the loop.
  `phase` keeps the call whole. `Reset` is the operator's `reset`. `trustedAt`
  and `checkedAt` are history variables no action reads.
* `FailSafe` is the promise to the actuator, without frames, counters or
  control law: control output only within the budget of the last trusted
  reading, safe output otherwise, and from then on until a re-arm. The mapping
  in `ControlNode` takes the latch to the mode.
* `PeriodicRunner` models the timing of `run` and `PeriodLedger`: `WakeUp` is
  everything from the hog switch to the ledger, `EndCycleAt` the deadline
  check. `started`, `skippedSet` and `overranSet` (the cycles that ended late) are
  history; `Standing` is where the ledger stands after a wake-up.
* `SimBus` models `bus.rs`. The fault schedule is drawn cycle by cycle; the
  plant only chooses the value sent. `BusFrames` is every frame it can deliver,
  which the node of `ControlRun` must be able to take
  (`EnvironmentAssumption`).
* `ControlRun` is `run` with node and bus: `Sleep`, `Receive` (`recv_until`
  and entry into `step`, at the wake-up instant), `TakeFrame`, `StepAndSend`
  (with everything the loop records), `EndOfCycle`. `RunOutcome` is what `run`
  returns; the controls are evaluated on it against what the manifest expects.
* `CpuHog` models `hog.rs`: `Spawn`, the caller's `set` in three steps (lock,
  store, notify) and `stop` with its joins, and for each spinner the policy
  request, the relaxed load, spinning, and the test under the lock around the
  wait. `seen` is what a relaxed load returns: it lags behind `word` until
  `Propagate` or until the spinner takes the lock. A wait may end for no reason.
* `JitterStats` models `telemetry.rs` as a histogram, with the samples kept
  beside it in a bag to compare with. `CompletionGate` models the positive
  gate and the three controls of `report.rs` and the exit of `cmd_run`.
* `HogRun` composes runner, hog, statistics and gate: the spinners are created
  before the clock starts, switched at the window's boundaries by calls the
  loop waits for, and joined after the last cycle. Node and bus only take time
  in it.
* `SocketStream` models `socketcan.rs` before the validator: a sender that
  numbers its frames, a wire that loses, damages or delays them, the queue of
  the kernel with its bound, frames of other nodes, `recv_until`, which reads
  until a read fails, and the loop of `step` over what it returns. Sender and
  kernel are external.
* `EventStore` models `Store`. A line of the file is an event or `Garbage`;
  `closed` and `tail` are the file, `disk` the synced part. A request is
  validated whole (`Register`, `RotateCredential`, `Publish`, `Ingest`; a
  refusal changes nothing), then `AppendOk` writes, syncs and applies one
  event, and `Answer` confirms. `AppendErr`, `Crash` and `PowerLoss` leave
  anything between nothing and all of the line in the file (`Remains`,
  `OnDisk`); which of them may happen in a behaviour is the variable
  `failures`, chosen once from the constant `FailureModes` and never changed:
  several promises hold under some failures and not under others. A start is
  `Open`, a `ReplayLine` for each line of the file, which applies it with the
  same `Apply` or finds `Garbage` and gives up, and `Opened`; `replayed` is the
  iterator over the lines, and a crash may interrupt it. `Shows` says
  declaratively what a memory is of a list of lines: of each device, reading
  and key the latest line, of a device's health the latest reading since its
  record. Files are assumed to lose a suffix, never other bytes.
* `DeviceUplink` models `DeviceSimulator` and the requests between it and the
  store. `at` says where the request is that `sync` waits for; `strays` are
  requests whose sender has given up. Sampling, rebooting and provisioning
  wait for `sync`, which holds the device exclusively.
* `UplinkContract` is what both promise: held, then confirmed or counted lost.
* `MC*` modules give menus of frames, faults and instants.
* Operators whose comment starts with "Mutant" are wrong on purpose; no
  specification uses them. They record for each property a plausible bug that
  breaks it.

## Runs

| Run | Shows | Bounds |
|---|---|---|
| `node` | freshness, latch, safe command, overshoot, refinement of `FailSafe`, plausible measurement, anti-windup, counters of refusals, inductive invariant | instants 0..4, budget 1, 2 sequence numbers, 2 frames a step, measurements of a range of -2..2 and beyond it, a frame that fails several checks |
| `node_startup` | finding: integration before the first sample | as `node` |
| `hog_run` | ledger, window and spinners agree, no lost wake-up, `stop` leaves no thread, percentiles, gate, attribution, `run` returns | 4 cycles of 2 ticks, a window of the second cycle, stalls up to instant 8; two spinners in virtual time, one in real time; 2 buckets and overflow |
| `hog_attribution` | finding: misses of the window counted outside | as `hog_run` |
| `run_corrupt` | exact histogram and totals, the control's verdict, node contract | 7 cycles on schedule, eight sets of faults to draw from in each, 6 sequence numbers, counters of width 36 |
| `run_silence` | trip bound from both sides, reporting, the freeze control's verdict | 7 cycles, budget of 3 periods, a period of lateness |
| `socket_stream` | order, nothing accepted after a gap within a lap, silence ends the call | 3 sequence numbers, 6 frames, a read timeout of 1, room for 2 frames, instants 0..4 |
| `store` | confirmed readings and credentials in force, memory is replay, retention bound, types | 4 events, 3 identities, room for 2; restarts with losses of power, or write errors with crashes or with losses of power |
| `store_unsynced` | finding: confirmed without a sync | crash, then power |
| `store_partial` | finding: part of a refused batch stays | batch of 2 |
| `store_recover` | finding: torn last line | one crash |
| `uplink` | refinement of `UplinkContract`, no contradiction, the ring drains | 2 sessions of 2 readings, ring of 2, one rotation, one fault: a lost request or answer, an early timeout or a restart |

Why the bounds are enough: budgets are longer than one check and shorter than
the run, so trips, near trips, recoveries by reset and second trips happen;
sequence numbers and counters of the node wrap within the runs; six sequence
numbers is the least for which the injected skip of five is neither a repeat
of the last accepted number nor its successor, and seven cycles go round them
once. The counters of `run_corrupt` do not wrap, because the totals of the
manifest are compared with them; those of `node` do. The frames of
`socket_stream` cover two laps. `MaxLate = 0` in `ControlRun` is the program's
virtual-time mode. Two spinners are enough for one to hold the lock while
another is woken, and four cycles for one before, one in and two after the
window, so that a cycle of the window that is late has two that catch up after
it. A stall of `hog_run` may begin before the window, and reaches over it and
over the end of the run. The runs meet what the attribution properties assume:
stalls that skip a period of the window and make its cycle late, and runs that
are late only before and after it. Four events are a registration, a rotation or a failed append, and a batch of two;
four readings overflow a ring of two while a batch of two is under way.
The failure modes of `store` contain every pair of failures that does not break
`AckedDurable` (a restart is a crash between two requests). A loss of power
after a start that replayed what a crash or a write error left unsynced breaks
it, which is a finding, so `AckedSurvives` leaves those modes out
(`UnsyncedReplay`). An append whose `sync_data` failed is in the log and not
in the memory, so `MemoryIsReplay` and `RetentionBound` are stated for
behaviours without write errors. Where
deadlock checking is off the modelled run or its history counter ends, the log
is full or cannot be opened.

Fairness. The node and its loop are passive or finite, and what must happen
eventually is stated with its bound (`SilenceTrips`), so their runs assume
none, except `hog_run`: there the loop goes on (weak fairness of `LoopStep`),
and so does each runnable thread and each store on its way to a spinner
(`HogFairness`). Taking the lock has strong fairness, since others may have it
again and again; a spurious end of a wait has none, so no wake-up depends on it.
`FairUplinkSpec` assumes that the server, which serves one request after the
other, goes on, that the device repeats `sync` and times out, and that the
operator registers the device, restarts the server and passes on credentials
(strong fairness, since the device can take a new secret between two calls of
`sync` only). Faults are finite in number, by the bound `MaxFaults`: a link
that fails for ever drains nothing.

## Proofs

`ControlNodeProofs` proves, for every width, range, budget, gain, smoothing
factor, clock and menu of frames satisfying the named assumptions:

* type correctness, `FreshOrSafe`, `SafeCommandedWhileLatched`,
  `IntegralInAuthority`, `MeasurementPlausible`;
* the action properties `LatchHeld`, `OvershootWithinOneGap`, `ComesOffLimit`;
* that the node implements `FailSafe`.

All rest on `Inductive`. Freshness alone is not inductive: one has to know
that the watchdog's instant is the instant of trust and that no instant lies in
the future. The overshoot bound needs that an unlatched node was inside its
budget at its previous check. The arithmetic is in lemmas: the integral cannot
leave the authority because it only grows while the proportional part has the
same sign (`IntegrateInAuthority`), a blend stays between its arguments
(`BlendInHull`).

`PeriodicRunnerProofs` proves that the ledger is exact for every period and
every schedule of wake-ups: the strengthening says that the ledger stands one
past the period of the latest start and that everything before it is either
started or skipped. A second invariant adds the window: the ledger is never
behind the cycle the loop is at, and the flag of the hog is that of the current
cycle (`SidesMatchTheHog`). A third, `SideInductive`, says what is counted on
which side. Until a period is skipped the ledger stands exactly where the loop
is, and a cycle that finds more missed than the period of its own number ends
late. So as long as no cycle before the window ended late, whatever the window
loses, skipped periods and late cycles alike, is counted inside
(`WindowPeriodsStayInside`). The hypothesis is needed: a stall that begins in
an earlier cycle and reaches into the window is found by that cycle and counted
outside. The converse is finding 5 and has no bound: the periods the first
cycle after the window finds missed, and the late ends of the cycles that catch
up behind it, are counted outside although the time was lost under the hog.

`CpuHogProofs` proves, for every number of threads and every interleaving, that
no wake-up is lost and that `stop` leaves no thread. That no spinner sleeps
through a store is not inductive: one has to know that the lock excludes the
caller from the stretch between a spinner's test and its wait, that a spinner
past the test has seen the current word, and that `TERMINATE` is never taken
back. `HogRunProofs` shows that every run of `HogRun` is a run of `HogSpec` and
of `RunnerSpec`, so what is proved of the parts holds of the whole, and from
`RunShape` that each cycle measured as inside the window began with the
spinners told to run, and each outside with them told not to. `RunVerdict`
ties the statistics to the ledger; with `SideInductive` a run that was late in the
window only, in skipped periods or late ends, is caught and attributed, and one
that was never late in it is not attributed (`ContentionIsCaught`); and
a run that passes the gate started a cycle in each period and finished none
late (`PassMeansOnTime`). Both hold for `missed_deadlines_max = 0`, the frozen
manifest's value: with any misses allowed, neither would.

The statistics are about sums. A sum is defined by recursion over sets, and
the induction theorems of the library cannot be used here, so
`PeriodicRunnerProofs` gets by without them: the sum of `f` over `S` is the
number of `Units(f, S)`, the pairs of an element and a positive number up to its
value (`SumCountsUnits`, by a smallest counterexample), and how sums split,
grow and compare follows from cardinalities (`SumSplit`, `SumMonotone`,
`SumWithoutZeros`, `SumBumped`). `Recorded` relates a histogram to the bag of
its samples: up to each bucket both have the same count, every sample's bucket
is occupied, the extremes are samples and enclose the rest, and the saturating
sum lies between count times minimum and count times maximum. `record` keeps it
(`RecordedStep`), and it implies that the first bucket to reach the rank is the
bucket of the nearest-rank sample (`FirstBucket`), because a bucket's number
grows with the sample and the rank rounds up. `RunStatistics` says that the
three histograms of a run stand so to the wake-ups of the run and of the two
sides. Hence `PercentilesAreHonest`, for instants that fit a `u64`, and
`GateIsNeverOptimistic`: with no miss allowed and a jitter bound below the
overflow bucket (0, 1000 us and 40000 us in the program), a run that passes had
every cycle in its period and 99 wake-ups in 100 below the bound, and a run
that fails has a miss, or a wake-up within a bucket of the bound, to show.

`ControlRunProofs` first shows that a run over the bus steps the node only as
`ControlNode` allows and keeps the loop of `PeriodicRunner`
(`RunDrivesTheNode`, `RunKeepsPeriods`): the delivered frames are the bus's, a
step is entered at the wake-up instant of its cycle, and nothing else runs in
between. So the theorems about node and ledger hold of the whole run, which is
fail-safe as the node is (`RunIsFailSafe`), and `Inductive` may be used to
prove more. `RunTiming` adds where the run stands:
the instant of the last check is that of the last wake-up, and the instant of
trust is that of the last cycle with an accepted frame, up to the lateness of
one wake-up. From it follow, for every period, budget and lateness, the
overshoot bound of `watchdog.rs` (`OvershootInTheLoop`), that a trip means
silence and silence a trip (`TripMeansSilence`, `SilenceIsBounded`). `RunTrip`
says that the run's record of the trip follows the latch (`TripIsReported`).
`RunFreeze` says that no cycle after the freeze has an accepted frame, so the
silence is as long as what is left of the run, and the sensor-freeze control
catches it (`FreezeIsCaught`), provided that a trip fails the gate and that the
manifest's reaction bound has room for the budget, a period and the lateness of
a wake-up (`FreezeThresholds`; 100 ms, 80 ms and 10 ms in `frozen.json`, which
leaves 10 ms for the lateness).

The same module proves that the histogram is exact for every schedule of
faults, width of a sequence number and counter. `ExactHistogram` speaks of the
instants between two steps only; `RunCounts` says what is missing inside one:
the frames left in the inbox are the extras of a set of faults not refused yet,
and the counters are one short for each of them. It needs that the good frame
comes first (so that an extra finds its own number taken, or the next one
free), that `SkipAhead` is neither a repeat nor the successor
(`SkipAheadAssumption`), and the order of the checks: a frame with a bad CRC is
a duplicate too (`ExtraIsRefused`).

That every refusal is counted under exactly one reason
(`RefusalsAccounted`) is modulo the width of a counter: the sum of the eight
counters and the total differ by whole turns. The can-corrupt control compares
totals, so its theorem needs that none can turn: each kind is injected at most
once a cycle (`RunInjects`), and `CorruptThresholds` asks that five times the
cycles stay below the counters' width (50000 against 2^32). `RunOnSchedule`
says that on the virtual clock every sample is 0 and no period is skipped, so
the reported p99 is at most one bucket. With the manifest's thresholds the
control is then caught exactly when a frame was injected, with exact totals,
and a run without one passes the positive gate exactly if it never tripped
(`CorruptIsCaught`).

`SocketStreamProofs` proves that frames reach the validator in the order they
were sent and that the sequence position is the number of the last accepted
one. From this, what is accepted after an accepted frame is its successor but
for whole laps of the counter (`GapsAreRefused`), and a silent bus holds
`recv_until` no longer than its read timeout (`SilenceReturns`).

`EventStoreProofs` proves, for any number of devices, identities, values,
instants and retries, every size of a batch, every bound and every set of
failures, that what the store confirms is kept: `MemoryIsReplay`,
`RetentionBound`, `CredentialSurvives`, `AckedSurvives` and the types. None of
them is inductive, because a failed append and a loss of power change the file
without the memory, and a start makes the memory from the file. The argument is
about lines. Every step of the store moves the log in one way only (`LogMoves`,
with lemmas `WriteMoves` and `LossMoves` for the file operations): each line of
the next file is an old line at its place, the line being written, or
`Garbage`; lines that every further failure would leave (`Sure`: all of them,
or the synced ones if the power may fail) are not lost. A fact is `Firm` if a
sure line states it and no later line denies it; `FirmStays` shows that a step
which writes no denying line keeps it firm. `StoreInductive` then says that
what has been confirmed is firm and, while the store serves, in the memory
(`CredentialKept`, `ReadingKept`), that the events still to be appended deny
nothing confirmed (`RequestFits`: their readings are not stored, their
credentials are newer), that the memory shows the lines replayed so far
(`MemoryShown`), and that log, memory and events under way together stay in the
bound (`Bounded`, which is why the room of a batch is checked before its first
append). `Garbage` needs no case of its own: no start gets past it, so what is
spoilt is never served. Replay computes a fold, but it need not be reasoned
about as one: each of its steps shows one line more (`ShowsMore`), and when
there is none left it shows them all.

Findings 2 and 4 need a stop in the middle of an append, or a failed one.
`OrderlyRestartRebuilds` is the other side: while no append fails and the
server is only stopped between two requests (`Orderly`), the log is whole and
synced at every moment, it opens at every restart, and a serving store shows
what the log says. So replay is the recovery operation the runbook calls it,
for orderly stops.

`DeviceUplinkProofs` proves the refinement of `UplinkContract` for every ring,
batch, number of sessions and faults, whatever the store answers. The
invariant: while `sync` waits, the batch under way is the front of the ring, so
a confirmation drains what was confirmed; and every request on its way, however
late, holds readings sampled before. That the system takes only steps of
`EventStore` (`UplinkHasStore`) brings the store's theorems into it. With them,
`OneValue` says that whatever is in the ring, on its way, under way in the
store, in its memory or in any line of its log is a reading sampled earlier,
and that two of them with one identity are one reading: the boot counter keeps
sessions apart and nothing but `Sample` brings a new reading
(`OnlySamplesBring`). So no request of the device, however late, contradicts
the store (`HonestNeverContradicts`).

Three more theorems follow a reading from the sensor to the log. `HandedOver`:
it leaves the ring as the oldest of a full one, counted, or because the store
confirmed it and has it in memory at that moment; from there on
`ConfirmedSurvives` keeps it. Neither module alone says this: the device knows
what was answered, the store what it kept. `IdentityIsNew`: the identities the
device may still give are in neither ring nor store, so no new reading is taken
for an old one, after a reboot of the device or a restart of the server.
`RefusalsAreExplained`: of the checks of `ingest`, those for size and for
contradiction never refuse a request of the device, however late it comes. What
may refuse it is the signature, when its secret is not the one in force; a
value that is not valid; and the bound, when its readings not yet stored find
no room, which also refuses the stored readings of the same batch
(`lib.rs:314`). So a batch stored as a whole and signed with the secret in
force is confirmed again, by a full store too. That last part is for stores
whose appends do not fail: a failed append that left its line makes a restart
hold more readings than the bound allows, and from then on `ingest` refuses
every batch, repetitions included.

Every invariant, action property and refinement that a passing run checks is
stated by a theorem. Only model-checked are the two liveness properties,
`RunReturns` and `Drains`: liveness under fairness is out of the prover's
reach. The theorems about the verdicts have the thresholds they need as
hypotheses, which the frozen manifest and the runs' configurations satisfy:
`FreezeThresholds`, `CorruptThresholds`, `GateThresholds`.

## Findings

1. The controller integrates against a measurement of zero until the first
   accepted frame (`NoStartupTransient`).
2. A reading confirmed after a restart may never have been synced, and a loss
   of power takes it (`AckedDurable`).
3. A batch refused with a write error stays partly applied (`NoPartialBatch`).
4. A stop in the middle of an append leaves a log that cannot be opened
   (`Recoverable`).
5. A period that was over while the spinners still ran is counted outside the
   window when the first cycle after the window discovers it
   (`ContendedPeriodsInside`; `report.rs:650` against `runner.rs:566-570`).

Noted while modelling, without a run of their own:

* A period counted as `SkippedPeriod` is one in which no cycle started; an
  overrunning cycle may have executed in all of it (`runner.rs:81`, `137`).
* `injected_count` also counts the faults listed for a dropped cycle or a
  frozen sensor, which are never sent (`bus.rs:119`, `224-226`).
* The desynchronisation after a lost frame, called permanent, ends when the
  sender's counter has gone round (`j1939.rs:336-339`, `388`). The safe state
  latches long before.
* Readings whose append failed after the write come back at the next start,
  also past the retention bound (`lib.rs:208`, `314`). Past it, `ingest` refuses
  repetitions too, although "A duplicate is acknowledged without creating a
  second reading" (`docs/decisions/0001-device-cloud-boundaries.md`).
* `recv_until` of the SocketCAN bus reads until a read fails and does not look
  at the deadline it is given (`bus.rs:43-46`): on a bus that is never silent it
  need not return (`socketcan.rs:109-131`). `SilenceEndsTheCall` is the part
  that holds.
* The check named `safe_state_persists_to_end_of_run` looks at whether the
  watchdog tripped (`report.rs:815`); that it stays tripped is `LatchHeld`.
* A percentile equal to the overflow floor may come from the last exact bucket
  or from the overflow bucket; the report tells them apart by the overflow
  count only.
* A hog "running when it started" (`runner.rs:546`) has been told to run; a
  spinner that was asleep may not be on a processor yet.

## Not modelled

* Byte layout and CRC arithmetic, `f32` rounding, overflow of `u64` instants,
  the plant, the text of floating-point values, signatures other than by the
  secret used: data that no property here tells apart.
* The width of the histogram's counts (`u32`, `telemetry.rs:46`): a bucket
  overflows after 2^32 cycles, and a run has as many as the manifest says
  (10000).
* What the operating system does with a thread policy. That a request may be
  refused, and that the grants are counted, is modelled.
* The records of single misses, report files, the completion file, which is the
  conjunction of stored verdicts, parsing of arguments and of the manifest,
  printing: sequential code without state of its own.
* The HTTP server's parsing and its request counters, which each branch of
  `handle` increments before it answers. That it serves one request at a time,
  and which requests it passes to the store, is in `DeviceUplink`.
* Health and dashboard, which are read-only views of a store.
* Browser demo, site, scripts and infrastructure.
