# OpenNeato in TLA+

A verification development for the firmware of OpenNeato: modules that model its
components, configurations that check them with TLC on small instances, and
theorems about them checked by TLAPS. Paths are relative to the repository;
`neato_serial.cpp` and the like are in `firmware/src/`.

## 1. The system

An ESP32 sits on the debug UART of a Neato Botvac and serves HTTP: a web
application (`frontend/`), a Home Assistant integration (`custom_components/`)
and anything else that speaks its API poll the robot's state and send it
commands. On top of the plain bridge it adds manual driving, a cleaning
schedule, a recorded cleaning history, push notifications and a guard that keeps
the robot behind lines drawn on a map. A command-line tool (`flash/`) installs
the image; later images come over the API.

Two tasks run the firmware. `loop()` (main.cpp:196-274) ticks the registered
managers in turn (NeatoSerial, SystemManager, DataLogger, Scheduler,
ManualCleanManager, NoGoGuard, CleaningHistory, NotificationManager) and never
blocks in them; the handlers of the web server run on the AsyncTCP task. They
share every object and take no lock. Everything that concerns the robot is
asynchronous: a manager hands the serial queue a command and a callback, and
goes on in the callback, one answer or timeout later.

| component | state | operations | what makes it correct |
| --- | --- | --- | --- |
| serial queue (`neato_serial.*`) | priority queue of at most 16, command on the wire, receive buffer, deadlines | `enqueue`, `tick`, the getters and command chains | every call answered once and eventually; the most urgent first, then the oldest; a success is one of the caller's own command |
| caches (`async_cache.h`) | value, age, fetch in flight, waiters | `get`, `invalidate` | every waiter answered once, no read older than an earlier one |
| cleaning commands (`NeatoSerial::clean`) | the cached state | start, pause, resume, stop, dock | a poll after an action does not see the state before it |
| manual driving (`manual_clean_manager.*`) | mode, transition, contacts, stalls, watchdog | enable, disable, move, motors, tick | mode and robot agree; contacts and silence stop the wheels; there is always a way out |
| no-go guard (`nogo_guard.*`) | configuration, run, stage of the escape, relays | apply, start and end of a run, tick, bumper test | an escape ends, gives the robot back to its own cleaning, and drives only in TestMode |
| scheduler (`scheduler.*`) | fired slots, pending clean, restart ahead, skip request | tick, skip, cancel | a slot is cleaned once, or for a reason not at all, with the restart it asks for |
| history (`cleaning_history.*`) | session being recorded, buffer, files, caches of the list, recovery | tick, list, delete, import | a clean is recorded and closed once; nothing flushed is lost, whenever the power goes |
| data logger (`data_logger.*`) | buffer, current file, archives, compression, bulk deletion | log, tick, download, delete | a flushed line stays readable; a download misses none; archives stay bounded |
| heatshrink (`lib/heatshrink`) | encoder and decoder machines | sink, poll, finish | what is read back is what was written |
| notifications (`notification_manager.*`) | previous state and error, pending message | tick, the two answers | each clean told of once at each end, with its own statistics |
| firmware update (`firmware_manager.*`) | update in progress, announced MD5, reboot | begin, chunk, end | only whole images of this chip are booted |
| Wi-Fi (`wifi_manager.*`) | station, fallback access point, deadlines | boot, tick, connect, forget | the device stays reachable |
| settings, system manager | one record; pending reboot | apply; restart, reset, format, tick | a reboot that is due happens; what a reboot keeps is what its causes rely on |
| parsing, serial menu, frontend, integration, flash tool | none of the firmware's, or none at all | | callers and sequential code |

The hard parts are those between components and between two moments: a callback
that runs after the state it was made for is gone; the priority of one command
over another that was queued before it; the queue full in the middle of a chain;
a poll, an action and the cache in any order; two answers of one look at the
robot, with the robot changing in between; power cut between two steps on a file
system that is replayed at the next boot; a file renamed or removed below a
download; two uploads whose chunks mix; the reboots; and the two tasks.
`PROJECT.json` lists these places with their lines ("hazards"), each with the
properties that watch it or the reason none does.

## 2. Modules

| module | models | builds on |
| --- | --- | --- |
| `NeatoSerial` | the queue, the wire, the robot's console and the command chains | |
| `CommandService` | abstract: a call begins, and ends once with a verdict | |
| `NeatoSerialRefinement` | the mapping between the two | both |
| `NeatoSerialProofs` | theorems | `NeatoSerial`, `NeatoSerialRefinement` |
| `AsyncCache` | the cache for any fetcher | |
| `StateCache` | cache, event commands and line composed: its steps are those of `AsyncCache`, with what goes with them | `AsyncCache` |
| `MoveSafety` | `isMoveAllowed()` as pure operators | |
| `ManualClean`, `ManualCleanProofs` | manual driving over the queue; theorems | `MoveSafety` |
| `NoGoGuard`, `NoGoGuardProofs` | the guard over the queue, and the history that starts and ends its runs; theorems | |
| `Scheduler`, `SchedulerProofs` | the schedule of a day, the deferred reboot and the memory each reboot keeps; theorems | |
| `CleaningHistory`, `CleaningHistoryProofs` | sessions, their files, the list, and recovery after a power cut; theorems | |
| `DataLogger` | log lines from memory to archive, downloads, deletion | |
| `Heatshrink`, `HeatshrinkInvariant` | encoder and decoder and the loops around them; what is always true of them, for the proofs | |
| `LogProofs` | theorems about the log files (part 1) and their compression (parts 2 and 3), which share no state | `DataLogger`, `HeatshrinkInvariant` |
| `Notifications`, `NotificationsProofs` | what is told of a clean; theorems | |
| `Lifecycle` | boot, loop, Wi-Fi, update, settings, resets | |
| `BridgeProofs` | theorems about the caches (part 1) and the life cycle (part 2), which share no state | `StateCache`, `Lifecycle` |
| `QueueRace` | `enqueue` and `dequeueNext` as the accesses of two tasks | |

Where constants need definitions, an `MC` module instantiates the component for
TLC; the other components are checked as they are. State is named as in the
source where it can be. What a handler does is, in most modules, a function of a
record of the manager's variables: a handler that calls another, or a lambda run
on the spot by a full queue, is then composition, as in the code, and an action
is one handler, complete.

**NeatoSerial.** `queue`, `state`, `current`, `echo` and `expired` are the
members of the class; `nextSeq`, `issued`, `replies`, `executed` and `echoed`
are history; `inbox`, `replying`, `rx` are the robot's console and the UART.
`Tick` is one `tick()`: a terminator read (`ReceiveResponse`), bytes without
one (`ReadPartial`), the timeout (`ResponseTimeout`) or the end of the delay
(`DelayOver`), with the callback and all it enqueues in the same step.
`Submit` is a call of the API. The chains are `FirstCmd`, `NextCmd`
and `AnswersNow`: battery reset, wheel stop, brush, power cycle, and single
commands. Replies echo the command; the check compares verbs only.

**AsyncCache.** `Get` and `Invalidate` may be called by waiters while they are
delivered to. A fetch may be refused on the spot. `Change` is what the cached
value stands for, changing; versions tell old answers from new.

**StateCache.** Polls and events share a line where events come first.
`Clean` reads the cache to choose between pause, resume and start, as `clean()`
does, invalidates, and queues the event. `RobotMoves` is the robot on its own.

**ManualClean.** One step per handler (`Enable`, `Disable`, `Move`, `Stop`,
`SetMotors`), per branch of `tick()` (`EnableTimeout`, `PollBumpers`,
`PollStall`, `Watchdog`) and per completion. The queue is the serial queue seen
from outside: priority order, a limit, one command on the wire, `Done` or
`Fail`. Sensors read anything at any time.

**NoGoGuard.** A pose is abstracted to a `View`, what `observePose()` decides
from it; deadlines to whether they have passed. `StateSeen` is the history's
poll of the robot's state: it starts a run, or ends it unless an escape is under
way, as `isManeuverActive()` says; whether that keeps a run from ending in the
middle of an escape depends on the stage, on the robot and on what is still in
the queue (`RunEndsWithClean`). `Refused` is the cascade of lambdas a full queue
runs on the spot.

**Scheduler.** Time is counted in ticks of 30 s, as in the code, with the
code's own durations. `Ticked` is `tick()` with its order and its early
returns; `Seen` the four lambdas of the state read, which all waiters of one
fetch run, in order, in one step. `Reboot` separates what is lost (RAM, reads,
commands), what a soft reboot keeps (RTC memory) and what is always kept (NVS).

**CleaningHistory.** The flash is `raw` and `hs`, the two files an epoch may
have, as sequences of lines (header, poses, recharge marker, summary); `ram` is
the object, lost at a power cut; `Boot` is `begin()` with its recovery of what
the cut left, merging of orphans included. `Loop` is `tick()`: a step of the
compression, or the request for the robot's state; the answers of state,
charger, motors and pose are steps of their own, which is where a second session
may begin before the first has ended. `PowerCut` may come between any two
actions, and inside the handlers that change more than one file: each has an
operator that says what a cut can find (`CutCompressing`, the `.hs` closed and
the raw file not removed; `CutMerging`, orphans removed and the file that takes
them in not flushed; `CutFinalizing`, `CutAnswering`, `CutStopping`,
`CutImporting`). Inside `deleteAllSessions()` it is a cut after some
`DeleteSession`.

**DataLogger.** The same for logs: `Tick` flushes, rotates, compresses a chunk,
enforces the limits or deletes one file of a bulk deletion, in the code's order;
a download holds a file open and reads it piece by piece (`ReadMore`) while
lines are flushed and files are renamed and removed.

**Heatshrink.** One action per state of the two machines, in the loop of
`heatshrink_encoder_poll()`/`heatshrink_decoder_poll()`, with the bit counters,
the partial bytes and the window; and `compressStep()` and
`CompressedLogReader::read()` around them, with their buffers. A byte is two
bits wide in the run. The file may lose its last bytes in between.

**Notifications.** `Tick` is the manager's, with its two intervals; the answers
of state and error arrive one after the other, with the robot free to change
before each. CleaningHistory is reduced to what is read of it: a session that
is recorded and some time later finalized.

**Lifecycle.** `Setup` is `setup()` in its order, `Loop` the body of `loop()`
one call at a time, with its early returns (a reboot due, an update, no
station); the requests of the web server's task come between any two. `flash`
holds the two partitions, `nvs` what Preferences keep, `settings` the copy in
memory, `owed` (history) what became of each restart, reset and format that was
asked for. `Update`, the boot loader and the radio are external, as main.cpp uses
them: an image not marked valid is left at the next boot.

**QueueRace.** `enqueue` is admission, search and insertion, `dequeueNext` the
copy of the front and the erasure, each a step of its task.

### Modelling assumptions

* Except in `QueueRace`, a handler of the web task and a tick do not
  interleave within each other. `QueueRace` shows what is lost by that.
* `ManualClean`: the vacuum stands for the three cleaning motors, TestMode Off
  ends their motion; the queue's limit is what other traffic leaves.
* `NoGoGuard`: the cleaning motors are one command; the retry counters stop at
  two; the state poll bypasses the cache, which `StateCache` covers. The robot
  is idle, cleaning or paused: docking and the recharge in mid-clean, which
  keep a session open, are in `CleaningHistory`. The queue has two free places
  or more: with one, polls of pose and state can refuse each other for ever.
* `Scheduler`: the schedule is not edited and the day does not end. A robot
  that boots answers nothing. What memory before the schedule holds (see
  `NoWildClean`) is a choice of the environment.
* `CleaningHistory`: epochs grow with every session, so the clock is set before
  the first; the flash is large enough and the charger answers within a tick
  unless `DiskMayFill` or `SlowCharger` says otherwise; a user does not delete
  the file being recorded unless `DeleteBusy` does. A raw file beside a finished
  `.hs` is a state a power cut reaches. The branch of the recovery that would
  remove it is in the model (`Stale`, `Unstale`) and never taken: names are
  sorted in descending order, `X.jsonl.hs` comes before `X.jsonl`, and the scan
  ends at the first `.hs` (`CleaningHistory_stale`).
* `DataLogger`: everything runs in one task, file names grow (the code names
  archives by time and compares names as strings, which is the same for epochs).
* `Notifications`: every kind of message is on; a message counts when it is
  tried; a clean lasts longer than the 30 s a message waits and the 5 s between
  two looks (`TimingAssumption`); no manoeuvre of the guard ends between the two
  answers of one look unless `LateError`.
* `Heatshrink`: the 32-bit C++ build, which is the one that is compiled.
* `Lifecycle`: `softAP()` does not fail, for a radio that opens no access point
  leaves nothing to reach; a request made before an upload ended has its delay
  of 500 ms over before the two seconds that follow the upload, unless the loop
  was held up; the Update library checks the MD5 and the first byte; the serial
  menu, scans and mDNS are left out.
* Replies later than their timeout are in `NeatoSerial` only.

## 3. Runs

| run | distinct states | bounds | what it shows |
| --- | --- | --- | --- |
| `NeatoSerial` | 719 000 | a battery reset (a chain of three), a move and a poll; two places; replies on time, late, broken off or missing | exactly-once, order, meaning of success, refinement, every call answered |
| `AsyncCache` | 20 000 | three calls, two versions | answers once, monotonic reads, every call answered |
| `StateCache` | 1 003 000 | two actions, two pollers, two moves of the robot | read-your-writes |
| `ManualClean` | 796 000 | three calls, forward and back, two contacts, three places, faults, slow line | modes, contacts, watchdog, way out, transitions end |
| `NoGoGuard` | 533 000 | relay build, two cleans, one configuration, one test, one fault, two places | escapes drive in TestMode, end, open their relays, give the robot back after one fault too, and do not end the run |
| `Scheduler` | 568 000 | two slots as close as `Apart` allows (16 minutes), 80 ticks, two faults, two slow answers, a maintenance restart within the first window | slots cleaned once, not lost, skipped, restarted for |
| `CleaningHistory` | 259 000 | two cleans, a recharge, a pose, a power cut between any two changes of a file, a request of any kind | nothing flushed lost, one summary, a whole list, every clean recorded and closed |
| `Notifications` | 945 000 | two cleans, two pauses, an outage | told once at each end, with its own statistics or none |
| `DataLogger` | 410 000 | four lines in files of two, two requests, a power cut | rotation and compression lose no line, downloads miss none, limits |
| `Heatshrink` | 326 000 | all sources of up to ten bytes over two letters, up to two bytes torn off | round trip, reading ends |
| `Lifecycle` | 327 000 | two browsers, three images, two requests of eight kinds, an outage, a cut | whole images only, kept only if proven, a restart, reset or format carried out or lost with another reboot, reachable |
| `QueueRace` | | two commands of each of the two tasks | a violation, see below |

The bounds are chosen for the cases, not for the sizes: two queue places are the
least in which one command can overtake another while a third is refused; the
battery reset has all the ways a chain can fail; two versions tell stale from
fresh; two cleans and one configuration make the guard start with what a former
run left; two slots make the restart ahead of one reboot the bridge after the
other has fired; two cleans and a recharge put a session's late answers into the
next session, and one cut falls anywhere in either; two uploads are the least
that mix; ten bytes fill a window of eight and come back to it. Every action of
these modules is taken in these runs.

Larger instances pass too, and are not run every time. `ManualClean`: four calls
(4.1 million states), three contacts, four places. `NoGoGuard`: two faults and
two configurations (1.5 million), three cleans, the TestMode build with three
faults. `Scheduler`: three faults and slow answers (1.2 million), a day of 100
ticks, no restart before cleans, slots 8 or 4 ticks apart (`At <- Slots4Apart`,
`Slots2Apart`). `CleaningHistory`: two cuts, so that one falls into the recovery
of the other (1.2 million), two requests, three cleans, two poses (1.7 million).
`DataLogger`: five lines (1.6 million), two cuts with three requests.
`Notifications`: two pauses and two outages (1.4 million). `Lifecycle`: three
requests, the invariants (7.8 million) and, with no cut and no outage, all of it
(1.7 million). `Heatshrink`: other windows, buffers and widths of a
byte.

Type invariants, and properties that a run need not repeat, are in the modules
and hold when their line is added to the run's configuration: `TypeOK`,
`QueueInOrder`, `SingleFlight`, `PollAnswered`, `OneTransition`,
`FirstSilenceStops`, `OneManeuver`, `EscapePulseUncut`, `Rearms`,
`CallsAreLegal`, `HsTypeOK`, `OpenApCloses`, `BufferDrains` and the like.
`NeatoSerial` with `OpOf <- PowerOps` is the power cycle, whose second command
is not waited for, against an emergency stop.

**Fairness.** `WF` of every `Tick` and `Loop`, because `loop()` calls every
manager and none blocks (loop_task.h:17-24); of the passing of deadlines,
because `millis()` advances; of the line, because a command is answered or times
out; of `Setup`, because a device that reset boots. `SF` twice. In
`CleaningHistory`, of a read of the state that succeeds: a robot that answers
again and again is sometimes understood; nothing could be recorded otherwise. In
`Lifecycle`, of a tick of the Wi-Fi manager whose attempt succeeds, for the same
reason. Nothing is assumed of callers, of uploads or of the network, and nothing
of the robot beyond a console that stays silent or does not; `AsyncCache`
assumes that fetchers keep the contract of async_cache.h:27. `Heatshrink` is one
sequential program, so `WF(HsNext)`. Deadlock is not checked: every model may stop
when its calls and its counters are used up.

### Disagreements shown

`QueueRace` ends in a counterexample on purpose. The queue has no lock: an
insertion between `front()` and `erase(begin())` is lost, and the command copied
is sent twice (`SentExactlyOnce`, neato_serial.cpp:190-206), where
async_cache.h:27 says "exactly once".

Further ones are stated in the modules and found by hand with
`tlc -config X.cfg M`, with these configurations, each of one property, which
says what the repository says:

| configuration | property | what happens | against |
| --- | --- | --- | --- |
| `NeatoSerial_testmode` | `TestModeBeforeMotors` | wheel commands are critical and overtake TestMode | neato_serial.cpp:651-652, "before any CRITICAL/MEDIUM motor commands" |
| `StateCache_stale` | `ReadYourWrites` | a poll on the wire when an action is made stores the state before it as fresh; `ReadYourWritesUnlessPolled`, which is proved, shows that this is the only way | neato_serial.h:101-102, "so the next poll fetches fresh data" |
| `ManualClean_watchdog` | `SilenceStops` | the watchdog works once in a session; `FirstSilenceStops` is the part that holds | manual_clean_manager.h:26, "stops wheels if no API activity" |
| `ManualClean_motors` | `MotorsOffBeforeTestMode` | TestMode Off overtakes the motors' commands | manual_clean_manager.h:18, the order of `disable()` |
| `ManualClean_stall` | `StallBlocksUntilReversed` | a reverse move that is refused clears the front stall | manual_clean_manager.cpp:308, "persist until the user reverses away" |
| `NoGoGuard_config` | `ExitsTestMode` | a configuration applied in an escape leaves the robot in TestMode | docs/nogo-guard.md:31, "exits TestMode" |
| `NoGoGuard_late` | `EscapesOnlyInRun` | a pose answered after the run begins an escape | nogo_guard.h:14, "During an autonomous cleaning run" |
| `Scheduler_powercut` | `RestartedOnce` | if the restart cuts the bridge's power, the restart at clean time repeats | README.md:466, "prevents repeated restarts" |
| `Scheduler_maintenance` | `RestartsIdleRobot` | one answer sends the pending clean and then restarts the robot | frontend/src/views/settings.tsx:650, "skips the restart if the robot is busy" |
| `CleaningHistory_merge` | `MergeKeepsPoses` | each orphan is removed before the file it is merged into is flushed; a cut in between loses it | README.md:175, "automatically recovered with full stats" |
| `CleaningHistory_stale` | `NoStaleRaw` | a raw file beside its whole `.hs` is never removed | cleaning_history.cpp:544, "Also clean up any raw .jsonl" |
| `Notifications_late` | `ToldOnce` | a manoeuvre that ends between the answers of state and error looks like a new clean | notification_manager.cpp:63-65, "cannot generate another" |
| `Lifecycle_update` | `ManagersRun` | an update that fails or is given up leaves `updateInProgress`, and the loop skips every manager from then on | main.cpp:264, "during firmware update" |
| `Lifecycle_reset` | `NoResetIsLost` | a reset asked for while the reboot of an update is due is lost with it | docs/user-guide.md:596, "erase everything" |

and with these changes to the configuration of the run:

| run, change | property violated | against |
| --- | --- | --- |
| `NeatoSerial`, `OpOf <- StopOps` | `StopMeansDisabled` | neato_serial.cpp:670, "disable wheels for immediate stop" |
| `NeatoSerial`, `OpOf <- DriveOps` | `OkMeansExecuted` | neato_serial.cpp:147, "prevent stale bytes from leaking into the next command" |
| `NeatoSerial`, `OpOf <- MoveOps` | `OkMeansVerbExecuted` | the same: an echo broken off by the reply to a later command lends it its verb. `OkMeansEchoed`, which is proved, is what the check does give |
| `StateCache`, `MaxSource = 3` | `ResumesWhatIsPaused` | neato_serial.cpp:626, "resume whatever is paused" |
| `ManualClean`, `Contacts = {}`, `Faults = FALSE`, `Moves <- ForwardOnly`, `QueueMax = 4`, `SlowLine = FALSE` | `NoMoveWhileLeaving`, `MovesFindWheelsEnabled` | manual_clean_manager.h:18; neato_serial.cpp:675, "so subsequent move commands work" |
| `ManualClean_motors`, `SlowLine = TRUE` | `OneSequence` | manual_clean_manager.h:39, "a transition is in progress" |
| `NoGoGuard`, `Unanswered = TRUE` | `TestModeKnown` | (no promise: what a lost answer to TestMode On does) |
| `Scheduler`, `At <- OneSlot`, `End = 44`, `MaxSlow = 1`, `MaxFaults = 0` | `NoWildClean` | (no promise: two reads of the boot wait answered together trigger, after the slot's clean, one for slot -1, which is sent if the memory before the schedule reads as an enabled slot; `CleanedOnce` counts cleans of slots and not this one) |
| `Scheduler`, `At <- Slots12Apart` | `SkippedIsNotCleaned`, `CleanedOnce` | the restart ahead of the second slot reboots the bridge within the first's window and forgets that it fired or was skipped |
| `CleaningHistory`, `SlowCharger = TRUE` | `NothingFlushedIsLost`, `EveryCleanRecorded` | a charger that answers a tick late: the end of the session is handled twice, and the second compression, of a raw file that is gone, truncates the finished one |
| `CleaningHistory` | `CachedMetaIsTrue` | what the list caches of a file may be older than the file |
| `CleaningHistory`, `MaxPoses = 2` | `FlushedAtSessionEnd` | poses are still buffered when the session ends |
| `CleaningHistory`, `DiskMayFill = TRUE` | `NothingFlushedIsLost` | (no promise: a compression that falls short loses the session) |
| `DataLogger`, `MaxLines = 3`, `MaxCuts = 0`, `MaxRequests = 3`, `MaxFiles = 0` | `LimitsAlwaysHold` | a second delete-all with nothing to delete leaves `bulkDeletePending` set, and the limits are never enforced again |
| `DataLogger`, `WatchEarly = TRUE` | `EarlyEventsCaptured` | main.cpp:90-91, events before `begin()` |
| `DataLogger`, `EncoderFails = TRUE` | `FlushedIsKept` | data_logger.cpp, "Fall back to uncompressed archive (source already renamed)": the source is removed all the same |
| `DataLogger`, `ClockSet = FALSE` or `SlowReader = TRUE` | `FlushedIsKept`, `ReaderMissesNothing` | (no promise: names that are reused; a file removed below a download) |
| `Lifecycle` | `ApHasHostname` | user-guide.md:446-447; the access point starts before `setHostname` (main.cpp:63, 114) |
| `Lifecycle` | `ReconnectTried` | wifi_manager.cpp:373-375; `inConfigMode` is set at boot and never cleared (wifi_manager.cpp:93) |
| `Lifecycle` | `GoodImageKept` | main.cpp:139-141; an image that joins the network later is not marked |
| `Lifecycle`, `BadTimes = TRUE` | `RejectedIsUntouched` | settings_manager.cpp:183-190 against 385-390 |

Seen while modelling, without a property of their own: an import that is given
up leaves `importing` set for ever; a torn `.hs` is listed and served and keeps
older orphans from being recovered; a recharge marker is written before the
poses buffered ahead of it; a setting saved through the access point while the
files are formatted outlives the reset; a recharge begun, or a pause taken,
between two looks of the notification manager loses "Cleaning done"; a clean
shorter than a look is not told of; a second upload within the two seconds
before the reboot destroys the image that was accepted.

## 4. Proofs

**Serial queue.** For any number of callers and any operations (`Req`, `OpOf`),
any `QueueMax` of at least one, and replies late or not: `TypeCorrect`,
`CompletesExactlyOnce`, `QueueStaysInOrder`, `TransmitsMostUrgentFirst`,
`SuccessIsEchoed`, and `Implements`, that `NeatoSerial` implements
`CommandService`.

The inductive invariant `IInv` is `TypeOK`, `ExactlyOnce`, `QueueInOrder` and
`Bookkeeping`. `ExactlyOnce` alone is not inductive: that a new entry sorts
after all of its priority needs the sequence numbers in the queue to be below
`nextSeq`, and that a claim is not duplicated needs them to belong to calls
already issued; these are `Bookkeeping`. The argument per step: an insertion
moves one claim into the queue (`EnqueueInv`), the tail of the queue keeps the
others (`TailClaims`), a completion either answers or hands its claim to the
next command of the chain (`CompleteInv`). `SuccessIsEchoed` needs in addition
that every echo that has been read or waits to be is of a verb the robot did
echo (`EchoesAreReal`), and that what a chain tested before its present command
was echoed (`ChainsTested`).

**Caches.** With any data and any callers: `CTypeCorrect`,
`AnswersExactlyOnce`, `OneFetchAtATime`, `ReadsStayInOrder`, from `CIInv`,
which adds to the properties of the run the `Chronology` of versions: what is
stored, handed out or sampled by a fetch is no newer than the source, and no
call was made with a floor above what had been handed out.

On top of it, for any readers, actions and changes: `STypeCorrect` and
`WritesAreSeen`. (The steps of `StateCache` are steps of `AsyncCache` by their
definition, so the above holds of it; that is not a result.) The invariant
`SIInv` says that an event is sent once (`SentOnce`), that while one that was
not polled under is under way nothing is cached and no poll is on the wire
(`NothingPolled`), and hence that what is cached, sampled or about to be handed
out is as new as what was confirmed (`AsNewAsConfirmed`). The exception, an
older poll on the wire when the action was made, is the one the property names.

**Manual driving.** For wheel distances of any size: `FrontBlocksForward`, and
`EscapeExists`, from any combination of flags a robot on its wheels can be
reversed out of its corner after one forward attempt at most; hence
`DriverNeverTrapped`. For any moves, contacts, number of calls and queue limit,
with faults and a slow line: `ManualTypeCorrect`, and `ModeAgrees`, that mode and
robot agree once all that was sent is carried out. The invariant `MCIInv` says
that, unless a command was refused or failed or a sequence was given up, no step
of a transition is queued or on the wire and everything rests (`AtRest`), or
exactly one is, and finds flags, TestMode and LDS as its place in the chain says
(`OnWire`, `Waiting`, `Stage`). A handler is shown to be `Quiet`, adding only
commands that belong to no transition, wherever the queue puts them
(`InsertShape`), or to send the next step (`Sends`). That wheels believed to move
have stalled less than twice (`StallsCounted`) keeps the count in its type.

`ContactsAreHeeded` and `TurningIsWatched` are about the wheels: once all that
was sent is carried out, a lifted robot stands, one against a front bumper does
not drive forward, and wheels that turn are wheels the stall poll looks at.
Neither is inductive, for between a handler and the robot there is a queue, with
a poll and a move in it in any order. Their invariant (`MCDInv`) compares what
is queued, on the wire and turning with what the object believes (`Driving`):
commands to the wheels are at the front of the queue, in the order they were
given (`WheelsFirst`); a move that no stop follows (`LooseAt`), wherever it is
by now, is one the manager would still allow (`Safe`); and the mode is entered
standing still. Both hold in runs in which no command was lost or given up,
which is how the properties are stated.

**No-go guard.** For any number of cleans, escapes, faults and any queue limit:
`GuardTypeCorrect` and, where a configuration is applied only outside a run and
an escape (`~ConfigAnytime`), `WheelsInTestMode`, `EscapeReturnsRobot` and
`RunsEndWithTheirClean`: the guard drives only in TestMode; at rest in a run
that met no fault and no full queue the robot is neither paused nor in TestMode;
and such a run ends only when its clean has. The code takes a configuration at
any time (nogo_guard.cpp:129), and `NoGoGuard_config` shows what then becomes of
the escape; the run has the same restriction. `GInv` says, stage by stage, what
is in the queue and on the wire (`AtRest`, `Sent`, `Queued`): of the commands
whose answer moves the escape on (`Carries`) at most one, and a pause behind all
that ended the run before (`Holds`); and what the stage says of the robot
(`Facts`). The last two need in addition `Sound`, stage and robot in
agreement, which holds only as long as nothing failed: after a fault a stage goes
on with the robot in another state.

**Cleaning history.** For any number of cleans, recharges, poses, power cuts and
requests and any limits: `FlushedIsKept`, `SessionIsClosedOnce`, `ListIsWhole`
and `HistoryTypeCorrect`, under the three assumptions the run makes. With
`SlowCharger`, that is, if a tick finds the charger's last answer still missing,
a session is lost (section 3); with `DiskMayFill` a compression that falls short
loses one; with `DeleteBusy` a user may delete what is being recorded. All three
are things the code allows. Power cuts come between handlers and inside them.
Two of these places do harm, and the statements except them: a cut inside the
merge of interrupted sessions loses poses (`log.unmerged`), and one between a
compression and the removal of its source lists a session twice (`log.torn`).
What is proved is that nothing else does harm.

The invariant `HInv` has three parts. `Sound` relates the files to each other
and to the object: the file being recorded exists, uncompressed, and is not
closed (`Recording`); one that is compressed has its source and an unfinished
copy (`Compressing`); a compressed file is whole and its source gone, or it is
being written, or the power failed before its source was removed (`Torn`), or it
is an upload (`Copies`); and only the newest file may be open, and after
recovery only the one that is recorded (`OpenIsNewest`). The last is why
recovery finds every open session among the orphans, why none of them is hidden
behind a `.hs`, and why removing what was merged loses nothing, if the merge is
not cut. `Phases` says which answers may be outstanding in which state: a
summary is asked of the charger once, by the session that records. `Numbers`
keeps an epoch free for every session to come. Each handler, being a function of
a record, has a lemma of its own (`WriteSound`, `FinishSound`, `RecoverSound`,
...): it keeps `Sound` and every pose (`Keeps`).

The recovery merges files and counts poses by recursion over epochs and lines;
these are recursive functions, and what they compute is proved by
induction. The library's induction theorems take an operator and cannot be used;
but that a well-founded relation has minimal elements (`WFMin`) is first-order:
`LeastNumber` follows, and from it `UpTo`, induction for a set in place of a
predicate. `LogProofs` does the same for powers of two, for the search and for
the copying of a reference (`LeastElement`, `IterationExists`, `InductionTo`).

**Schedule.** `RestartPrecedesClean` and `SchedulerTypeCorrect` hold for any
slots, durations, faults and power cuts. Their invariant (`PInv`) says that
whoever may order the clean of a slot, a read that is not the first, the clean
that waits for the robot's boot, or `preparedCleanAt`, was put there by a restart
of the robot for that slot (`Prepared`).

`CleansOnce` and `SkipIsKept` need three hypotheses. `~CutsPower`: with a
restart that cuts the bridge's power, what it knows of the slot goes with it
(`Scheduler_powercut` shows the restart repeated). `Apart`: a window is over
before the restart ahead of the next slot is due, for that restart reboots the
bridge, and `firedSlots` is in memory only; with slots twelve minutes apart
(section 3, `Slots12Apart`) TLC finds both properties violated. The run's two
slots are as close as `Apart` allows. `Timely`: that restart is carried out
before its slot begins. The invariant (`SInv`) follows each slot through the
parts of the code that may clean for it: of a read for it under way, a restart
ordered, a clean awaited, and a slot closed, at most one is the case (`Single`),
each only once the window has begun, and with the slot fired or its window over
(`Begun`); and a read, an order or a reboot for a restart ahead belongs to a
slot that is near (`Near`), so that the reboot, which forgets that slots fired,
forgets only those whose window is over.

`NoSlotIsLost` needs in addition `Spread` (no two slots at one time) and `Quick`:
slow ticks, faults and the boot of the robot fit into the window together. Each
fault lets a slot fire again, and enough of them use up the window: that is the
code's way of giving up, without a trace. The invariant (`TInv`) is an account:
a slot that is not settled is to fire, asked for, ordered or awaited, no later
than the slow ticks and faults so far explain (`Tracked`). A tick, a failed
answer and an order carried out each hand the slot on within that account, and
with `Quick` it closes before the window does. The run's constants satisfy all
five hypotheses, and TLC finds `SInv` and `TInv` true there.

A single answer is handed to all readers in turn; `AllSeen` is therefore a
recursive function, and the proofs about it use `UpTo` as above.

**Device.** For any number of browsers and any uploads, requests, outages and
cuts: `MarkedValidIsProven` and `OnlyWholeImagesBoot`, from `LInv`. That a
partition never holds an image of another chip (`BootableImages`) needs that
what has been written begins with the first chunk of an image for this one
(`WrittenIsForChip`). That a marked image can join the network (`MarkedJoin`)
covers both partitions, for a boot may go back to the other one, and the image
that runs while the station is connected; that writing does not leave the mark
on what is overwritten is `UpdateOfUnmarked`.

**Log files.** For any number of lines, files, requests and power cuts and any
limits: `WrittenIsKept`, that `FlushedIsKept` holds if the clock is set at boot
and the encoder does not fail, and `ReaderIsServed`, that `ReaderMissesNothing`
holds of a download that ends before the compression of its file does. Without
the clock names are given twice and a rename onto an existing file fails; an
encoder that fails has its source removed all the same (data_logger.cpp:154);
and a download whose file is removed below it ends early: the code allows all
three, and TLC shows each (section 3).

`WrittenIsKept` rests on `Sound`. Archives are numbered upwards and never beyond
the events logged (`Numbered`), so that the name of the next is free and the
destination of a compression does not exist when it begins; a line in memory is
in no file yet (`Fresh`); and while a file is compressed (`Copied`), what was
read of the source is in the destination or in the encoder (`ReadOn`), nothing
else is (`Safe`), and if either of the two is deleted no line of them is owed any
more. Hence nothing is lost when the source is removed (`FinishSound`), nor when
a power cut tears the destination (`CutSound`): then the source is still there.
`ReaderIsServed` rests on `Served`: each line a download still owes is in the
rest of its file, which is renamed and grows but does not change, or in the tail
it took from memory (`Reading`). Every helper, being a function of a record, has
a lemma that says what it leaves (`Appended`, `Rotated`, `Put`, `Finished`, ...)
and one for each of the two invariants that it keeps it.

**Compression.** For any window, lookahead, buffers and chunks that
`BitsAssumption` and `SizesAssumption` allow, for any source, of any length, and
any number of bytes torn off.

`EncoderNeverMisused`: `compressStep()` and the encoder keep each other's
protocol, so that the error returns that would give a source up are not taken.
The invariant `HsInv` (in `HeatshrinkInvariant`, as those below): while the loop
feeds it the encoder is not finished, an encoder that ends is, and when the loop
reads on the encoder waits for input.

`ServedAsCompressed`: `RoundTrip`, what is read of a compressed file is its
source or, if the file has lost its end, a beginning of it. The invariant `Trip`
has a part for each program, and they meet in a sequence of marks `T`, which the
code does not keep. A mark is a place in the stream of bits and one in the
source; from one to the next goes a token (`Token`): a literal, which holds the
byte of the source, or a reference, whose distance and length the source repeats
itself by (`Repeats`).

* The encoder (`Coded`): the marks so far are of whole tokens (`Tokens`), of the
  next one the bits that the state says have been pushed (`Progress`), and the
  buffer is the source about the place where it searches (`Buffered`). What the
  search returns does repeat (`MatchIs`); that it is the longest is not needed.
  Bits pushed change nothing before them (`PushBitsWrites`), so a token stays one
  (`TokenAgrees`). At the end the tokens are all of the source (`Complete`), and
  the padding is of zero bits, shorter than a reference.
* The decoder (`ReadsAt`): it is within one token, at the bits its state reads
  next (`Place`); its ring holds the end of what it has served (`Ring`), and
  that is the source up to the token, or up to where the copy of it has come.
  Bits taken are the field at the place (`GetBitsIs`), across the end of a byte
  too; a copy that overlaps itself is the repetition (`CopiesIs`); the padding
  begins a reference that is never whole (`PaddingIs`).
* The reader (`Serving`): file, input buffer and decoder hold consecutive parts
  of the stream (`Supplied`). When it stops at the end of a file that has its end,
  the decoder waits for bits beyond the last mark, so that all tokens have been
  read (`EndIsWhole`).

`BuffersHold`: `HsTypeOK`, no buffer of the encoder, of the decoder or of the
loops around them is written beyond its end, and a reference that is read is no
longer than the lookahead and reaches no further back than the window. This is
what two assertions of the decoder say (heatshrink_decoder_32bit.cpp:306), one
commented out and one not compiled, and what its copying needs, which ends where
the window comes round and not after a count. It follows from `Trip` and `Fits`:
a step of the encoder writes at most one byte, and only where there is room
(`StepFits`); and an index of which the high bits have been read leaves room for
the low ones (`Reaches`), padding at the end of a torn file included.

**Notifications.** For any number of cleans, pauses and outages and any
intervals that `TimingAssumption` allows: `StatsFit`, `DoneIsToldOnce`, and,
unless `LateError`, `NothingIsToldTwice`. The invariant `NIInv` needs what an
answer still says of the robot when it is handled (`AnswerIsRecent`), that a
clean whose start was told is one the manager has in mind (`StartedOnce`), that
one whose end was heard is over (`DoneOnce`), how far the history may lag
(`HistoryKeepsUp`) and, for the statistics, that the clean after the one a
message waits for cannot have ended within the wait (`StillWaiting` in
`StatsWillFit`): this is where the length of a clean enters, and without the
assumption the statistics do mix.

The assumptions are those the modules name on their constants, evaluated by TLC
in every run.

Only model-checked: everything under fairness (`EveryCallAnswered`,
`GetAnswered`, `TransitionsEnd`, `ManeuverEnds`, `EveryCleanRecorded`,
`SessionEnds`, `DoneIsTold`, `LimitsHold`, `ReadEnds`, `RebootHappens`,
`Reachable`), as liveness and `ENABLED` are out of the prover's reach; and
`DTypeOK`, one of the properties a run need not repeat (3), of `DataLogger`: the
proofs use a weaker typing, in which lines are numbers and the list of a
delete-all may be anything.

## 5. Plan

1. Done: the serial queue, its abstract service and its proofs; the cache, the
   state cache as its composition, and their proofs; manual driving; the guard;
   the schedule and its proofs; the race of the two tasks; the life of a
   recorded session and of a log line with power cuts, and their proofs; the
   compression; notifications; the device from boot to reboot, with its update.
2. Left: an abstract specification of the guard (a robot lent and given back)
   and of a scheduled slot (due, claimed, done once), with `NoGoGuard` and
   `Scheduler` shown to implement them.
3. Theorems: every safety property a passing run checks has one, but for
   `OneFaultRecovered`.
4. `setMotors()` with its counter on the heap; the double answer of a route
   whose command is refused on the spot; midnight and edits of the schedule.

## 6. Not modelled

Parsing and JSON, the serial menu, geometry and the parser of the guard's
configuration (sequential data transformation; the last two have host tests of
their own); statistics and telemetry of a session; the recharge, error and
docking messages, single tests of the transition that is modelled; the scan and
mDNS; NTP and the fallback clock; the `.c` files of heatshrink, which are not
compiled; the frontend, the Home Assistant integration and the flash tool
(callers of the interface that is modelled). `initSKey()` reads the robot's
version once at start through the queue, a call like any other.
