# TLA+ models of the Aceinna device driver

The program (`src/src/aceinna`) is a Python driver for GNSS/INS devices on
Ethernet (100BASE-T1) or a serial port: it finds the device, parses its output,
sends it commands, forwards corrections from an NTRIP caster, logs, and upgrades
firmware. Its hard parts are threads that share attributes with few locks, an
event mechanism that runs handlers on whichever thread emits, and protocols over
a link that loses and delays. These modules model those parts; TLC checks them on
small instances and TLAPS proves some of the results for all instances.

Paths below are relative to `src/src/aceinna` of the repository.

## Inventory

| Component | State | Operations | Interacts with |
|---|---|---|---|
| Message center, commands (`devices/message_center.py`, `devices/decorator.py`) | `_is_running`, `_running_message`, `prerun_queue`, the messages' `_is_finished`, `_start_time`, the global `generator_result` | `request_run`, `run`, `run_post`, `timeout_check`, `on_command_receive`, `finish` | called by any thread; parser emits `command` on the parser thread; time-outs on the checker thread |
| Message center, threads (same file) | `_has_exception`, `_is_pause`, `_is_stop`, `data_queue`, two locks | receiver, parser, checker loops; `pause`, `resume`, `stop` | communicator (reads), parser, driver (ERROR), provider (pause) |
| Upgrade center (`devices/upgrade_center.py`) | workers with group and progress, the three status lists, `current` | `register`, `start`, progress/error/done handlers | one thread for each group; emits to the provider |
| Firmware worker (`devices/upgrade_workers/firmware_worker.py`) | `current`, `total`, `_is_stopped` | `work`, `write_block`, `stop` | communicator, provider hooks, upgrade center |
| Jump workers (`jump_bootloader_worker.py`, `jump_application_worker.py`) | `_is_stopped` | `work` with retries | as the firmware worker |
| SDK workers (`sdk_9100_worker.py`, `ethernet_sdk_9100_worker.py`) | stage of the boot protocol, counters | stages of flashing the GNSS chip | as the firmware worker |
| Firmware content parser (`framework/utils/firmware_parser.py`, `get_upgrade_workers` of the providers) | – | file to parts, parts to list of workers | provider, upgrade center |
| Driver (`core/driver.py`) | provider, communicator, `_with_exception` | `detect`, `execute`, discovery / exception / upgrade handlers | all handlers run on the thread that emits |
| Provider base and providers (`devices/base`, `devices/ins401`, `rtkl`, `rtk350la`) | message center, `is_upgrading`, data files, parameters | `setup`, `reset`, `close`, `upgrade_framework`, commands | message center, upgrade center, communicator |
| Device manager and ping (`devices/device_manager.py`, `devices/ping`) | cache of providers | `ping`, `build_provider` | communicators |
| Communicators (`framework/communicators`) | port or sniffer, bounded receive cache, find options | `find_device`, `read`, `write`, `reset_buffer`, `upgrade` | read by the receiver or an upgrade worker |
| Message parsers, helpers (`devices/parsers`, `framework/utils/helper.py`) | receive buffer, current command | `analyse`, `read_untils_have_data` | parser thread, upgrade workers |
| NTRIP client, RTCM parser (`devices/widgets/ntrip_client.py`, `core/gnss.py`) | `is_connected`, `is_close`, scanner state | `run`, `send`, `close`, `receive` | its own thread; provider forwards |
| File logger (`framework/file_storage.py`) | open logs, upload texts, `exit_thread` | start, append, stop, upload threads | parser thread, cloud |
| Packet statistics (`core/packet_statistics.py`) | counters, rates | `collect`, `get_result`, `reset` | parser thread and console |
| CAN FD driver (`bootstrap/canfd_driver.py`, `devices/widgets/canfd.py`) | `can_message_flag`, `can_imu_dict`, `log_files`, tries | `listen`, `log`, `send_base_data` | the CAN bus, NTRIP client, log files |
| Console, bootstrap, mount angle, vendored python-can, tests, tools | – | – | not modelled |

What makes each of the parts correct:

* commands: every command issued is sent once, one at a time, and its caller gets
  its own answer or a time-out that really elapsed;
* center threads: blocks are parsed in order and once; nobody else reads while the
  device is searched or upgraded; an error reaches the driver; threads end;
* upgrade center: workers in turn, FINISH only when all are done, and in the end;
* firmware worker: FINISH only with a complete image, whatever the link loses;
* SDK workers: never ahead of the chip although its replies are all alike; they end;
* an upgrade as a whole: every part of the file that was asked for is written, in
  the bootloader, and the unit is in its application afterwards;
* driver, provider, device manager: one user of the link and one listener of each
  event over all reconnections, the device found again, logs not given up;
* NTRIP/RTCM: reconnects, and delivers the packets of the caster and nothing else;
* CAN logs: a row is of one epoch, and no row is lost;
* communicators: the search ends by calling exactly one handler; nothing stale in
  the receive cache;
* logger: no text lost, threads end.

`PROJECT.json` lists under "hazards", each at its line, what is hard to test.

## Modules

### MessageCenter, CommandService – commands

`MessageCenter` is the pipeline of a command. A thread is a caller (a provider
method under `with_device_message`), the parser thread or the checker thread. No
lock protects the pipeline, so every read and write of a shared attribute is a
step: `request_run` is `RequestRun`, `RequestPut`; `run` is `RunMark`,
`RunAssign`, `RunStamp`, `RunWrite`; `finish` is `FinishTest`, `FinishSet`,
`FinishEmit`; `run_post` is `RunPostTest`, `RunPostIdle`, `RunPostGet`;
`timeout_check` is `TimeoutBegin` to `TimeoutFinish`, each of its re-reads of
`_running_message` on its own. The methods are executed by whichever thread calls
them and take the thread as a parameter. Messages are `<<caller, number>>`, and
a result says which command it answers and whether it is a time-out. The device
and the clock are the external actions `DeviceAnswers`, `DeviceSilent`,
`Expire`.

`CommandService` is what a provider method relies on: commands are served one at a
time, and each returns its own answer or a time-out only if the device was silent,
in the end. `MessageCenter!Service` maps the pipeline to it: a command is active
from its writing until its `_is_finished` is set.

### CenterThreads – receiver, parser, checker

The three threads of one center, with a program counter each, and the firmware
upgrade that pauses and resumes it. `exception_lock` is held by the checker across
the listeners of ERROR, that is, across the driver's `_handle_device_exception`:
reset of the provider, `find_device`, and closing of the old center when the
device is found. `data_lock` encloses single queue operations and needs no steps
of its own. The search has all outcomes of `serialport.py`: found, not found,
found on the last try (where neither handler is called), and an exception.

### FirmwareWorker – blocks over a lossy link

`work` and `write_block` for both kinds of units: with acknowledgements a block
is written until it is acknowledged (and the process ends when the tries are used
up), without them the first is written once and the others three times. The flash
is the set of the offsets received; contents are abstract. The link loses blocks
and acknowledgements; an acknowledgement carries no offset, as in the code.

### UpgradeCenter – groups of workers

Groups, threads, the status lists with their append and their comparison as
separate steps, the progress handler with its reset of `self.current` outside of
the lock, and the error path that stops the workers one by one and ends the
process. A worker is what the center sees of it: it progresses, finishes, emits
ERROR, raises or returns in silence. `UpgradeCenter` is thereby the abstract
specification that `UpgradeSession`, with the real workers, implements.

### SdkWorker – the boot protocol of the GNSS chip

Both `SDKUpgradeWorker`s as one table of stages: for each of them what is sent, what
is waited for, how often it is tried and what a failure leads to. The
differences between the serial and the Ethernet worker (change of the baud rate,
resets of the receive buffer, optional stages) are columns and conditions. The chip
is the external half: it goes through its stages and acknowledges, always with the
same byte, commands and its own doings alike. That byte is the hazard: the worker
knows only by counting what has been acknowledged (`InStep`).

### FirmwareImage – from a file to a list of workers

`firmware_parser.parser` as a recursive function over the rules, and `get_upgrade_workers` of the
Ethernet, beidou and RTK providers with its insertion of jump workers by index
arithmetic. Operators only; a file is the sequence of its sections.

### UpgradeSession – an upgrade as a whole

Composes the three: `FirmwareImage` makes the list of workers of a session, the
threads of `UpgradeCenter` call them, and a call is carried out by `SdkWorker`, by
the jump workers modelled here (rounds, tries, the providers' hooks before and after
the command, pings after a reset), or by the firmware worker as
`FirmwareWorker` shows it: it writes its whole part or fails. The unit has two
cores, each in its application or its bootloader, and what has been installed.
The link may lose a jump or its acknowledgement, or deliver it late.

### DriverLifecycle – reconnections and upgrades

The threads that run the driver's handlers are the command line, the checker of
each message center and the last thread of each upgrade. What is left of a center
is its reader and its checker, of an upgrade its end. State: the provider that the
device manager keeps (its center, its listeners, `is_upgrading`, `is_logging`, the
open files) and the driver's `_with_exception`. `FindHit` to `NotFound` are
`find_device` with its tries, `Discover`, `Load`, `SetupDone`, `Listen` the handler
of a discovery with `ping`, `setup` and the adding of listeners, `HearException` the
recovery from an error, `UpgradeFramework`, `UpgradeComplete`, `UpgradeError` an
upgrade, `UpgradeCompleted` and `UpgradeTold` what follows the search after it.
Three kinds of interface differ in what `find_device` does on a miss.

### RtcmStream, CanLog, CanFdDriver

`RtcmStream` is `NTRIPClient.run` with its request, the caster's answer, the end of a
connection at any byte, and `RTCMParser` byte by byte; a packet keeps its
header, length, payload and CRC, one byte each where the code has more, and the CRC
is right for what the caster sends. `recv()` returns any number of bytes up to
`MaxChunk`. Listeners are a provider, which forwards unless it is upgrading, and
`send_base_data`, which cuts into CAN messages. `CanLog` is `log()` of the CAN
driver: the order of messages as the number of bits in `can_message_flag`, the row that
is written when all are there, the opening of logs. `CanFdDriver` composes them
under `listen()`, whose requests time out and are tried again.

### How they fit together

The provider's `upgrade_framework` pauses the center (`UpgradePause` in
`CenterThreads`) and starts the upgrade center; its workers (`UpgradeSession`)
then read the communicator alone, which is why `AtMostOneStrayRead` matters;
FINISH of the upgrade center leads to the search and to `UpgradeResume`.
`CenterThreads` and `MessageCenter` are two views of the same object: the first
has the life of the threads, the second what the parser and checker threads do
with commands while they live. Their product adds nothing but states: the only
attribute that both use is `_is_stop`. `DriverLifecycle` looks at one more scale:
centers come and go, and the handlers of ERROR and FINISH, which the two modules
above reduce to an outcome, are its actions.

| Abstract | Implemented by | Shown by |
|---|---|---|
| `CommandService` | `MessageCenter` | `ServesCommands` (TLC) |
| `UpgradeCenter` | `UpgradeSession` | `SessionImplementsCenter` (proof) |
| `CanLog` | `CanFdDriver` | `DriverLogs` (proof) |

## Runs

| Run | Question | Result |
|---|---|---|
| `MC_AnyFault` | two commands, of one caller or two, all faults, a switch of threads at any step: is a command lost inside the center or sent twice, do parser and checker both block in `run_post`, when does a lone caller get what is not its own? | never; only behind a command that timed out |
| `MC_OneCaller` | one caller, silent devices, four commands in a row: does the pipeline implement `CommandService`? | yes, with liveness |
| `MC_Undisturbed` | two callers, queued commands, silent devices: one at the device, all finished? | yes, when threads switch where they sleep or do I/O |
| `CT_Threads` | read errors, raising listeners, short frames, failing search, two upgrades: order, solitude of the search, stray reads, reports, ends | hold |
| `CT_ParserStuck` | does the parser return after an exception, as its docstring says? | no, when the search raises under the lock (finding) |
| `FW_Worker` | losses, failing writes and hooks, stop: is an image ever incomplete at FINISH, do three copies suffice, does the worker end? | complete, they do, and it ends |
| `FW_LateAck` | and when an acknowledgement comes late? | a block can be missing (finding) |
| `SDK_Stages` | losses, late replies, stop: is a worker ever ahead of the chip, does it end? | in step under the conditions named in `InStep`; it ends |
| `US_Upgrade` | whole upgrades, from the file to FINISH, and all groupings the center supports: in turn, in the bootloader, complete, back in the application, ended, progress that adds up? | yes, under the conditions each property names |
| `DR_Driver` | two broken links and two upgrades on three kinds of interface: one listener, one user of the link, log kept, found again, commands end? | yes, unless a recovery meets an upgrade |
| `DR_LastTry` | is an upgrade told its end when the device is found on the last try? | no (finding) |
| `CF_Driver` | corrections cut and connections broken anywhere, messages lost: complete packets, bounded skips, rows of one epoch, none lost, streaming again? | yes |

### Bounds

* `MaxCalls` bounds the commands of a caller. Two callers with one command each
  reach every race on an empty and on a non-empty queue; four commands in a row
  reach the leftovers of one command in the next and the one after it. Two
  callers with two commands each make the queue hold several. `CallsBound` allows
  `MC_AnyFault` two commands in all, of one caller or of two: with preemption at every step
  more are beyond five minutes, and the theorems about its properties hold for any number.
* `MaxBlocks` = 3 with `MaxUpgrades` = 2: a block in each of receiver, queue and
  parser, and a pause after a resume.
* `total` = 7 with `max_data_len` = 3: first block, middle block, shorter last block.
  `EraseUnit` = 3 stands for 102400, so that the first block gets as many tries as
  a file of three erase units.
* `Blocks` = 3, `MaxTries` = 2 in `SDK_Stages`: a first, a middle and a last block, and
  a repetition of every stage. `US_Upgrade` has two blocks and one try, since the
  stages are the subject of `SDK_Stages`; `MaxJumps` = 2 lets a jump be repeated.
* `Sessions` and `Registrations` (`MCUpgradeSession`): files with all sections,
  with sections missing, out of order or cut off, for the flags that matter; the one
  group that all providers register, and groupings with BEFORE_ALL, AFTER_ALL, two
  groups and none. The providers put every worker into group FIRMWARE, so the others
  are what the class offers. `Size` = 1: one report of progress for each worker.
* `MaxCenters` = 3, `MaxUpgrades` = 2, `MaxFaults` = 2 in `DR_Driver`: a second fault
  during the recovery from the first, a fault during and after an upgrade, an upgrade
  after a recovery. `Retries` = 2 is the code's.
* `Header` = 3, two traffics (`MCCanFdDriver`): packets whose payloads hold no header,
  and packets that hold one where a resynchronising parser may take it for a
  beginning. `MaxChunk` = 3 cuts every packet at every byte, `MaxCuts` = 2 gives a cut
  in what follows a cut, `MaxEarly` = 1 the sentence that overtakes the request.
  A parser that is out of step for ever is stopped at nine skipped packets, beyond the
  bound of `SkipsBounded`. `valid_base_len` = 2 stands for the size in the unit's settings: one message
  or several, full or not.
* `Kinds` = 9 is the code's; `MaxLost` = 7 is the largest number of losses for which
  `RowOfOneEpoch` holds: with eight, TLC finds a row of two epochs.
  `MaxEpochs` = 3, because a row mixed of two epochs lies within three.
  `MaxTries` = 5 is the code's.

`CHECK_DEADLOCK FALSE` is set throughout: callers stop calling at the bound, an
upgrade and a stopped center really end, and the user need not act.

### "preempt", and what is known to fail

CPython switches threads between any two bytecodes, but does so seldom while a
thread runs briefly between sleeps. `MessageCenter` separates the two: with
"preempt" in `Faults` a thread may be switched anywhere; without it only where it
sleeps or does I/O (`RestPc`), which includes the writing of a command and the
logging of a time-out. What holds only without "preempt" is a statement about the
usual schedule and not a guarantee. With it, TLC finds

* the lost wakeup of `request_run` against `run_post` even for one caller (a command
  stays in the queue until another one is issued);
* two threads in `run_post` for one queued command: one of them blocks in `get()`, and if
  that is the parser it does not see a stop; never both (`AtMostOneBlocks`). With a silent device `OneInFlight` fails as well;
* the death of the checker, which reads `_running_message` before it is set.

Independently of it, two callers at a time may get each other's answers
(`generator_result` is one global), a late answer finishes the next command, and
after a raised write the command that is running is not the one at the device.
`OwnUnlessTimeout` says how far this goes for a caller that has been alone, with preemption and all
faults: nothing goes astray before a command has timed out. After that nothing can be
promised, since an answer does not say which command it is of.

### Findings

Each is a run that fails, with the line of the documentation it contradicts:
`CT_ParserStuck`, `FW_LateAck`, `DR_LastTry` (see "findings").

The following is known from the modelling and not listed there, because the
repository promises nothing. The properties exempt these cases by name.

* With several threads, of which the providers start one only, and AFTER_ALL workers, two threads may both find `run_status`
  complete and run the AFTER_ALL workers twice; their count then passes the number it
  is compared with and FINISH is never emitted (`SessionEnds`). Without any worker it is
  not emitted either.
* A worker that raises leaves the upgrade unfinished. When a worker fails, the others
  of its group are stopped one by one, so that one more of them may still be called.
* `JumpApplication` gives up without an error (`BackInApplication`: `unheard`), and a
  beidou unit that stays in its bootloader is pinged for ever (`SessionEnds`).
* The file's parts are looked for in one order, and a part out of order is dropped
  without notice (`EveryPartInstalled`: `InOrder`); a file cut off in its last part
  makes the parser raise IndexError.
* `RTK330LA` builds its SDK worker without `ack_enable`, which raises TypeError: the serial
  SDK worker is not reachable through that provider, and its sessions are entered
  directly. The Ethernet provider asks for the bootloader version's acknowledgement
  flag before the jump has set it, so that an unknown version ends in ERROR.
* The check of the CRC in the Ethernet SDK worker is left in its first round whatever the
  result. `check_predefined_result` compares `abs(a - b < 1000)`, which is almost always
  true.
* A recovery that meets an upgrade (`disturbed`) resumes the center and clears
  `is_upgrading` under the upgrade workers: the link then has two users.
  `upgrade_framework` stops the log and leaves `is_logging` set (`LogKept`).
* A header cut off from its length takes the next header for it: some hundred bytes of
  the next connection are swallowed before the parser looks for a header again
  (`SkipsBounded` counts the packets).
* A request of `listen()` that times out has no 'data'; the KeyError makes it try five
  times, and the threads start without an answer. A CAN read that raises ends the
  receiving thread in silence.

### Fairness

* `MessageCenter`: threads run (weak fairness of `RunStep`, `FinishStep`), the
  device disposes of every command and time passes. Steps that `MayEnter` guards
  are strongly fair: the loops of the others sleep in every turn, so that a
  waiting thread gets in. Issuing commands and stopping are not fair.
* `CenterThreads`: strong fairness for the three loops, since `exception_lock` is
  free while the others sleep; `find_device` ends (its ports and retries are finite);
  no fairness for beginning an upgrade or for faults.
* `FirmwareWorker`: the worker's thread runs; a block on the link arrives or is lost.
* `SdkWorker`: the worker runs, and the link and the chip dispose of what is on it. A
  wait that gets nothing ends by its number of reads.
* `UpgradeSession`: each thread of the center runs until it ends, and so does the chip.
  Nothing is fair about faults; that workers end is no longer assumed.
* `DriverLifecycle`: threads run on, a command is answered or timed out while its checker
  polls, and the device answers a ping again each time it has fallen silent (without
  it a search goes on for ever, as it should). The user is never made to act.
* `CanFdDriver`: `listen()` and the client's thread run, and the caster answers a request.
  No fairness for what the caster sends, for cuts or for messages of the unit.

## Proofs

All theorems hold for all values of the constants that the named assumptions of the
modules allow, and rest on nothing else.

`MessageCenterProofs`, for all sets of callers and bounds, from
`MessageCenterAssumption`; the first four for all faults, preemption included:

* `TypeCorrect`: `TypeOK`, by the invariant `TypeInv` = `TypeOK` /\ `LocalsSet`. The
  second part is needed because a step reads a thread's local or `_running_message`
  long after the test that made it safe: a thread in the middle of `run` has a
  message, and the checker past its test finds one running.
* `CommandsKept` (`NothingDropped`) and `CommandsRunAtMostOnce` (`RunAtMostOnce`), by
  `TypeInv` and `Accounts`: issued = written, queued or held; the three exclude one
  another; only issued commands occur. Only four actions move a command
  (`CallBegin`, `RequestPut`, `RunWrite`/`RunWriteRaises`, `RunPostGet`), each with its lemma; for
  all others `SameHands` says that nothing changed hands.
* `OneIsLeft` (`AtMostOneBlocks`): a thread gets to `get()` only past a queue that is not
  empty, and who empties it is on its way to `run`.
* `AnswersOwnUnlessTimeout` (`OwnUnlessTimeout`), by `Sole` => `AstrayInv`, where `Sole` says that
  one caller at most has called so far (`SoleBefore`: it was so before every step):
  while no command before the latest has expired (`Fresh`), what is at the device, on its way
  back, being finished or not written yet is the latest command, in one place (`OnePlace`);
  `_running_message` is that command once it was started, and the checker times it out only if
  it is too old (`LatestRuns`); a result is its own (`ResultLatest`); and until a first command
  expires, a caller that has its result leaves nothing behind (`NothingBehind`), which is what makes
  the next command the only one. Late answers, preemption and raising writes are all allowed.
* `OneAtTheDevice` (`OneInFlight`), if neither "preempt" nor "late" is among the faults
  (`Calm`), by `PipeInv`: one thread is inside of the pipeline (`Alone`); a thread in `run`,
  `finish` or `run_post` is the only one, has `_is_running` set, nothing at the device and no
  checker behind it (`OneWorks`); what is at the device or lost and unfinished is
  `_running_message` (`OneHeld`); no answer is there twice (`InboxOnce`).
* `CommandsAreServed`, if moreover there is one caller and no write raises (`OneCaller`): every
  step of the pipeline is one of `CommandService` or invisible there, by `OwnInv` (whatever is
  queued, runs, is at the device or is being finished is the command the caller waits for) and
  `ServedInv`: a command that was written and is not
  finished is at the device, lost or about to become `_running_message` (`Unfinished`); what
  the caller waits for is the result of a finished one, a timeout just when that was
  lost (`ResultsRight`); and nothing was returned for it before (`ReturnsOnce`). This is the
  safety half of `ServesCommands`; that a command does return stays with TLC.

`CenterThreadsProofs`, for all numbers of blocks and upgrades and all faults, from
`CenterThreadsAssumption`:

* `TypeCorrect` (`TypeOK`) and `BlocksKeepOrder` (`BlocksInOrder`), by `ThreadTypes` and
  `OrderInv`: `data_queue` holds what is between the blocks taken from it and those
  put into it. Only four actions move a block (`ReceiverRead`, `ReceiverPut`,
  `ParserTake`, `ParserAnalyse`), each with its lemma; for all others `OrderKept` says
  that nothing is disturbed. The counters are bounded by the blocks, so they are part
  of this invariant and not of `ThreadTypes`.
* `FindsAlone` (`FindAlone`), by `AloneInv`: the receiver sets `_has_exception` as the
  last thing it does, so whoever saw it set knows that the receiver is gone, even
  after `reset` or an upgrade has cleared it.
* `OneStrayRead` (`AtMostOneStrayRead`), by `StrayInv`, which rests on `AloneInv`: while an upgrade
  has the device, the center is paused, stopped or has no receiver. The checker's
  reset clears the pause of an upgrade, but only when the receiver is gone.
* `OneLateParse` (`AtMostOneLateParse`), by `LateInv`: a parser that has taken a block after
  `stop` meets `_is_stop` before the next.

`FirmwareWorkerProofs`, for all file lengths, block sizes and faults, from
`FirmwareWorkerAssumption`:

* `TypeCorrect`: `TypeOK`, with `BlockLeft` (a block is written only where one is left);
* `NoBlockSkipped` (`NoHole`) and `FinishMeansComplete` (`ImageComplete`), assuming
  that no acknowledgement is late. The invariant `IInv` adds `LinkInv`: between two
  blocks nothing is on the link, and while the worker waits, what is there is the
  current block or its acknowledgement. This is what an acknowledgement without an
  offset relies on; `FW_LateAck` shows that the assumption cannot be dropped.
* `ThreeCopiesSuffice` (`CopiesSuffice`), for units without acknowledgements and without
  that assumption, by `CopiesInv`: of the copies of a block that were written, each is
  in the flash, on the link or among the losses, and a block the worker has left was
  written three times. `Times` counts a block on the link, which is a sequence.

`UpgradeCenterProofs`, for all groupings, sizes and faults of workers, from
`UpgradeCenterAssumption`:

* `CalledInOrder` (`CalledInTurn`), by `OrderInv`. A thread looks only at its own list and
  at the lengths of the status lists, so the invariant says what these lengths mean:
  `Counts` (a list holds each ended worker once, and what a thread has left to call has
  not ended), `Phases` (no thread of a group runs before the BEFORE_ALL workers
  have ended, and no AFTER_ALL worker is called before the normal ones have),
  `Passed` (what a thread has left behind has ended or was stopped), `Shape` (who may have what to do).
* `FinishIsComplete` (`FinishMeansAll`) and `FinishIsUnique` (`FinishOnce`), by `FinishInv`; its
  part `Singly` holds for one thread only, which is what the race over AFTER_ALL
  workers makes necessary. `TypeCorrect` (`TypeOK`) follows with `Amounts`.
* `BarIsTotal` (`BarAddsUp`), by `BarInv`: while the one thread goes through
  `handle_worker_progress`, the worker's `current` is 0 or already its total, and `last` is where
  the bar stands. That the sums over workers are natural numbers, and how one of them
  changes with one worker, is proved of the fold they are made of.

`UpgradeSessionProofs`: `SessionImplementsCenter`, every behaviour of `UpgradeSession` is one
of `UpgradeCenter`: the step of a jump, SDK or firmware worker is one of the steps a worker
may take there, or invisible. So `SessionCalledInOrder` and `SessionFinishIsComplete` follow
for every list of workers that a file can yield, and so does `SessionBarIsTotal`.

What follows there is about the workers themselves, for all files and flags, from
`SessionsAssumption`: a session is one of `EthernetSession` or `BeidouSession` for any file and
any flags, or a list of SDK workers or of workers of no known kind. `SessionInv`
(theorem `SessionInvariant`) has these parts beside those of the center:

* `Listed`: the list is `Proper`. This is no assumption, but proved of `EthernetWorkers` and
  `BeidouWorkers` (`SessionsAreProper`): every worker that writes has a jump of its core to the
  bootloader before it, with none back in between, and a jump back behind it
  (`Bracketed`); if the parts are in the order of the rules, there is a worker for each that was
  asked for (`Covered`). `TakenInOrder` and `TakenAll` say what the parser takes of a file. It
  takes a beginning of the file, in the order of the rules (`Rank`, `Sorted`), so that
  the workers of one core stand together, which is what `Wrap` relies on when it
  puts one pair of jumps around them.
* `JumpInv`: one thread goes through the list in order (`InLine`); when the jumps before a part
  have been made, its core is in its bootloader (`Entered`), and when all jumps of a core have, it
  is in its application, except for a jump back that was not acknowledged (`Back`, `BackHeard`). A
  jump to the bootloader that is not acknowledged fails, and the thread stops; this is what keeps a
  write from a core in its application.
* `PartsIn`, for a unit that acknowledges, in time (`Faultless`): the part of each worker that has
  ended is in the unit.
* the invariant of `SdkWorkerProofs` below, carried from one SDK worker to the next: each begins
  with an empty link and a chip that has done nothing (`Fresh`).

From it `PartsWrittenInBoot` (`WrittenInBoot`), `CoresBackInApplication` (`BackInApplication`),
`PartsInstalled` (`EveryPartInstalled`) and `SessionNeverAhead` (`InStep`) follow. Where the argument
needs induction over the rules or the file, it takes the least counterexample, since
the induction theorems of the library cannot be instantiated here.

`SdkWorkerProofs`, for all sizes of the image, numbers of tries and faults of the link,
from `SdkWorkerAssumption`:

* `NeverAhead` (`InStep`), by `SdkInv`. All acknowledgements are one byte, and the worker does not know
  which it reads; it is in step because they can be counted. Each that lies unread on
  the link stands for one more stage that the chip has gone through (`Behind`). One is
  added when the chip carries out the command the worker waits for (`Pending`), or does
  by itself what comes next (`OwnInTurn`). That no command is carried out twice without
  the worker knowing takes a worker that sends it once, on the serial line
  (`OverSerial`), or again only when nothing is left to come (`OverEthernet`). The latter is
  why `InStep` is stated, over Ethernet, for answers that are not late and units that need no
  change of the baud rate.
* `FinishedIsWritten`: a worker that reports FINISH has written every block, by `SdkInv` and
  `AtTheEnd`, on the same condition.

`CanFdDriverProofs`, for all numbers of kinds, epochs and losses, all packets of the caster and
all chunks in which they come, from `CanLogAssumption`, `RtcmAssumption` and `CanFdAssumption`:

* `RowsOfOneEpoch` (`RowOfOneEpoch`), by `Missing` and `Counted`: what has been collected is of
  one epoch, and each message that the unit has sent since and that is not collected
  is counted by `lost`; hence fewer than `Kinds - 1` losses cannot hide an epoch.
* `NoRowLost` (`RowsKept`), by `SeenFirst`: a row is written only when every kind has been
  seen, and a log is emptied only when its kind is seen first.
* `DriverLogs` carries both over to the whole driver: `DriverRowsOfOneEpoch`, `DriverNoRowLost`.
* `PacketsInStep` (`FramesInStep`), by `StreamInv`: while nothing was lost, the parser keeps exactly
  the part received of the packet under way. `Where` and `Under` say at which packet, and how
  far in it, a number of received bytes leads; `NextByte` is one byte of that, `ChunksMakeUp` a
  chunk. The loop over the bytes is a fold, unrolled one byte at a time.
* `SkipsAreBounded` (`SkipsBounded`), by `SkipInv`: a parser out of step is in one of three
  situations. It swallows a false packet (`Swallowing`): each byte is one less of what is left of it
  (`Left`), so that the packets passing meanwhile are paid for by its length. It looks for a
  header (`Seeking`), which comes with the next packet. Or it is in step again (`Mended`).
  `StrayByte` accounts for one byte, `StrayChunk` for a chunk. The parser's state survives a
  connection, hence the invariant speaks of it on all of them.

`DriverLifecycleProofs`, for any number of centers, upgrades and faults, from
`DriverAssumption`:

* `TypeCorrect` (`DriverTypeOK`).
* `ListensOnce` (`DriverListens`) and `LinkHasOneUser` (`OneUser`), by `DriverInv`. No lock
  makes a recovery exclusive; what does is that `reset()` takes the listeners off, so
  that nobody hears of a second error until they are on again (`OneRecovery`). An upgrade is alone
  because `is_upgrading` stays set until its end, and the paused center does not read
  (`OneUpgrade`). Both fail once a recovery meets an upgrade, hence `disturbed`.
* `LogIsKept` (`LogKept`), by `LogInv`: the files are open only while no thread searches or
  upgrades, so that whoever replaces the logger finds it closed.

Every safety invariant of the runs is thus proved. Only model-checked is what is liveness, with
the fairness that `ServesCommands` asks of `CommandService`: the prover has no means for
fairness and ENABLED. Where a proof needs induction over a fold or a sum, it takes a
least counterexample, as above.

## Not modelled

`PROJECT.json` lists every component with its reason. The map covers about a tenth of
the Python lines of the repository, and modelling could not bring it near a third:

* almost half of them are python-can, vendored under `devices/widgets/can`, with its
  drivers for adapters and its readers of log formats;
* the SDK workers hold thousands of lines of boot code as hexadecimal tables, of which a
  model keeps that they are sent;
* decoding of payloads, formatting and console output, settings and resources have no
  state that a later step depends on; a model of a conversion of doubles would be the
  conversion again;
* the mount angle estimation is floating-point arithmetic around a native library;
* tests and tools are not part of the driver.

Left out inside the components that are modelled: contents and CRCs of firmware,
the handshake and the sniffers of the Ethernet link with its bounded receive cache,
the search over serial ports and baud rates with its history file, the threads that
copy debug ports of the UART providers to files, reading and writing of parameters, the
forced bootloader, download of firmware, clients of a web socket, CAN FD packets,
LEVER_ARM_SET, which opens the CAN logs again, BASE_RTCM payloads, and the upload of
logs, which nothing starts.

## Plan

What could follow, in this order:

1. `EthernetLink`: handshake, sniffers, the bounded cache with its two readers, as an
   implementation of the communicator that `DriverLifecycle` and `FirmwareWorker` see.
2. `SerialFind`: the search over ports and baud rates as one of `find_device`.
3. `FrameParser`: the scanners of the message parsers as functions, against a definition
   of a frame; `PacketStatistics`, `LogUpload`.

## Running

    tlc -config MC_OneCaller.cfg MCMessageCenter     (and the other MC_*.cfg)
    tlc -config CT_Threads.cfg CenterThreads         (and CT_ParserStuck)
    tlc -config FW_Worker.cfg FirmwareWorker         (and FW_LateAck)
    tlc -config SDK_Stages.cfg SdkWorker
    tlc -config US_Upgrade.cfg MCUpgradeSession
    tlc -config DR_Driver.cfg DriverLifecycle        (and DR_LastTry)
    tlc -config CF_Driver.cfg MCCanFdDriver
    tlapm MessageCenterProofs.tla

and `tlapm` likewise for `CenterThreadsProofs`, `FirmwareWorkerProofs`,
`UpgradeCenterProofs`, `UpgradeSessionProofs`, `SdkWorkerProofs`, `CanFdDriverProofs` and
`DriverLifecycleProofs`. That of `UpgradeSessionProofs` takes some minutes.
