# Verification of go-java-launcher

TLA+ specifications of the two programs of this repository, `go-init` and
`go-java-launcher`: what they do to processes, pidfiles, signals and log files,
step by step; TLC configurations that check them on small instances; and proofs,
checked by TLAPS, of the properties that matter most for every instance.

## The system

| Part | Code | State | Operations |
|---|---|---|---|
| go-init commands | `init/cli/{lib,start,status,stop}.go` | one pidfile per command in `var/run`, the process table; per invocation: the maps of `serviceStatus`, the processes `stop` waits for, its ticker and timer | `start`, `status`, `stop` |
| go-init logs | `init/cli/{cli,logging}.go` | `var/log/startup.log`, `startup.log.0` to `.5`, the same for each subProcess, the files that invocations and processes have open | rotate, truncate, append |
| launcher | `launcher/main/main.go` | the subProcesses it has started | start subProcesses, start the monitor, exec; clean up after a panic |
| process monitor | `launchlib/monitor.go` | pids of service and subProcesses, channel of signals, ticker | verify its parent, forward signals, watch, terminate the group |
| configuration | `launchlib/config.go` | none | read, default, validate, cross-check the static and the custom file |
| command compilation | `launchlib/launcher.go` | none | JVM options, environment, class path, cgexec |
| container resources | `launchlib/{cgroup,memory,processors}.go` | none (reads `/proc`, cgroup files) | paths, memory limit, processor count, heap size |
| clock | `init/cli/time/clockwork.go` | fake clock: sleepers, blockers, a lock, two unbuffered or one-place channels per sleeper | NewTimer, NewTicker, Stop, Advance, BlockUntil |
| wiring | `init/cli/cli.go`, `init/main/main.go`, `launchlib/logging.go` | none | registration of commands, writers |

**How they interact.** The invocations of `go-init` share nothing in memory: they
meet in the pidfiles, in the process table and in the log files, and take no
lock. `go-init` launches the service and each subProcess itself, never the
monitor. `go-java-launcher` is the other way to run a service: it starts its
subProcesses and a monitor (itself, with `--group-monitor`) as children and
becomes the service by `exec`, so that the monitor's parent is the service. The
monitor has two goroutines, which share the list of pids: one forwards signals,
one looks every five seconds whether the service is still in the process table.

**What is hard.** Reading a pidfile, probing the pid, launching, and the two
halves of `ioutil.WriteFile` are separate steps, and between any two of them a
process may exit, its pid may be reused, another invocation may act, or the
invocation may be killed. `stop` races a ticker against a timer, and processes
against both. The launcher hands responsibility for the subProcesses from a
deferred function to a process that has yet to come up. Rotation is six renames
and more. One log is open at the same time with and without `O_APPEND`. The fake clock
sends on unbuffered channels with its lock held, to goroutines that take the lock to stop
their timers.

**What makes each part correct.** go-init: what it has started it can find again;
nothing is launched twice; `stop` leaves nothing behind and always ends; `status`
tells the truth. Logs: only the oldest log is lost, numbers go with age, old logs
are not written over. Launcher and monitor: a launch that fails leaves nothing
running, the clean-up never hits a service that runs, the group ends with the
service, signals reach everybody. Configuration, compilation, resources: the
result is the documented function of the input. Fake clock: whoever waits for it sees every
tick and deadline, and neither the test nor a stop hangs.

## The modules

`GoInit` — the three commands. An invocation `i` runs the command line `op[i]`
and is at `pc[i]`:

| `pc` | Code |
|---|---|
| `idle`, `exited` | not running; `Begin` is `getServiceStatus` or the start of `stop` |
| `check`, `probe` | loop over the commands: read the pidfile (`lib.go:99`), then ask for the process (`lib.go:111`) |
| `launch`, `record`, `write` | loop of `startService`: `startCommand`, then `WriteFile` with its truncation and its write |
| `term` | loop of `stopService` (SIGTERM) |
| `wait`, `poll`, `expire`, `sigkill` | `waitForServiceToStop`: the select, the tick's loop, the timer's loop, and `Kill` after `isProcRunning` |
| `remove` | loop over the pidfiles at the end of `stop` |

`conf[i]` is what invocation `i` has found in the configuration, any of `Configs`: commands may
come and go between invocations, and one that is no longer configured is looked after by nobody
until it is configured again. `handle[i]` holds the `os.Process` values (`runningProcs`, later `procs`), `written[i]`
the keys of `writtenPids`; commands without a handle are `notRunningCmds`. The
process table gives each pid an owner (a command, a stranger or nobody), a parent
and the mark of a zombie. A started process is a child of the `go-init` that
started it until that ends, and only then is it reaped. A removed pidfile that a
start is just writing is an unlinked inode: its writer writes into nothing
(`unlinked`). Two overlapping writes of pids of different length may leave the
digits of both: the result is any pid (`WritePid`).

`Service` — what go-init promises, without pids, pidfiles, signals or waiting: the set `up` of
commands that are served, a request at a time, and what an exit code says about `up`. It grows only
through start, and only by a command that was down; success of stop and the codes 1 and 3 of
status are true statements (status 0 and start 0 are none: a process that has just ended
still counts as running). `Promise` in `GoInit` is the instance: a command is up if a process with its
name lives that no SIGKILL is on its way to, and an invocation is busy from `Begin` until it exits.
Nearly every step of `GoInit` is a stutter of `Service`; `StartCommand` is `Launch`, an exit of
a process or a SIGKILL is `GoesDown`, and the last step of a command is `Answer`, whose guard is what the
invocation has gathered in several steps before.

`StartupLog` — one log and its rotation: `startup.log` or, with `log = "sub"`, that of a subProcess, as a
directory `dir` of places (0 is the log, `k + 1` is its number `k`) that hold inodes, numbered by age.
An invocation opens the startup log in `executeWithLoggers` (`rotate` and `open`: start rotates
and truncates, status and stop append), writes messages there at its own offset
(start) or at the end (the others), opens it again to append in
`compileCmdFromConfig` (`config`) and once more for the process (`launch`). The log of a subProcess is
opened for the first time in `compileCmdFromConfig`, which closes it, and once more for the process; it receives
no messages. An invocation may be killed anywhere (`End`).

`Launcher` — `pc` is the launcher's place in `main` (`service` after exec, `unwind`
while the deferred function runs), `mpc` that of the monitor's main goroutine;
`queue`, `sig` and `ftodo` are the forwarding goroutine. `table[x]` says what the pid
of `x` stands for: a live process, a zombie, nobody, or a stranger. The kernel's
part is that a monitor whose parent has exited has another parent, that a signal
to a zombie or a stranger does nothing to the group, and that SIGTERM before
`signal.Notify` ends the monitor. `SignalPid` looks and signals in one step: a process
that exits in between makes it return an error that no caller acts on.

`Group` — what go-java-launcher promises about its processes, without pids, lists, channels and ticks: the
subProcesses join one by one, a keeper is appointed when all have joined, and only then is a service with subProcesses up;
a launch that fails tells all of them to end before it gives up; the keeper clears only when the primary process is gone, and
retires when nobody lives that was not told. Nobody is told without a reason (`Tell`). `Promise` in `Launcher`
is the instance: `Stage` and `Keeper` are what `pc` and `mpc` look like from outside, a member is alive if its
process is `live`, and told once it was sent a SIGTERM (`got`). A keeper that comes up after the death of the primary process goes
without clearing (`ComeTooLate`): `Group` promises no more than the code does, and `launcher_race` shows what is missing.

`Resources`, `Config` and `Compile` — the sequential part. `Resources` holds what a container grants
(`cgroup.go`, `memory.go`, `processors.go`, the heap size) as operators on tables of split fields,
with an int that becomes a uint64 (`Word`); `Config` holds validation, defaults and cross-checks of the two files
(`config.go`); `Compile` goes in one launch, in one `world` of files, variables, paths and host, from the files to the
commands: `static`, `custom` and `verify` are `GetConfigsFromFiles`, `primary` and `subs` are
`CompileCmdsFromConfig`, and `err` is the reason of a failure. A JVM option is its prefix and its number, an
executable its directory and base name, a value of the environment is a placeholder or not.

`FakeClock` — the clock of the tests, with the goroutines that share it: stops in `waitForServiceToStop`
(`pc[s]`; `NewTimer` and `NewTicker`, the select, the two deferred `Stop`s, each in two steps
because it sends a token before it takes the lock) and the test (`test`: `BlockUntil` once, then `Advance` any number
of times). `Advance` keeps the lock and its loop is a step per sleeper: `NotDue`, `Deliver` (the send and the
receipt), `Forget` (a token instead), `SendOnClosed` (a panic); `again` and `later` are its `periodicSleepers` and
`newSleepers`, `held` tells whether a sleeper is the one its `fakeTimer` points to. `GoInit` has the real
clock instead: a tick that is not fetched is dropped, and time does not wait for anybody.

`MCGoInit` and `MCStartupLog` add symmetry sets (for runs without liveness properties), `MCCompile` the worlds;
`MCLauncher` and `MCFakeClock` need nothing besides.
`GoInitProofs`, `GoInitFaultProofs`, `ServiceProofs`, `StartupLogProofs`, `LauncherProofs`, `CompileProofs` and
`FakeClockProofs` hold the theorems. In the
specifications, a definition whose comment begins with "Mutant:" is a wrong variant of the
one after it and no part of `Next`: it stands for a bug that the named property would find.

Environment, modelled from how the code uses it: the process table and signals
of Linux, files and inodes, the runtime's signal channel (a send that does not
block) and the `select` statement.

## Runs

| Run | Question | Bounds |
|---|---|---|
| `goinit_alone` | Do start, status and stop, one after the other in any order, keep the books and the promise? `IInv`, `NoOrphan`, `OneInstance`, `StopMeansStopped`, `StatusTruth`, `KeepsPromise` | 2 commands, of which either or both are configured, 3 pids that strangers reuse, timer of 2 s; configuration errors |
| `goinit_faults` | What remains true when go-init is killed at any step or file operations fail, and does every command end? `FaultIInv`, `SuccessOnRecord`, `TornPidfileWedges`, `KillOnlyAfterGrace`, `InvocationsFinish`, `StopEndsProcesses` | 2 commands, 2 pids that strangers reuse, timer of 2 s |
| `goinit_overlap` | What remains true when two invocations overlap, and can they block each other? `TornMeansWriting`, `InvocationsFinish` | 1 command, 2 invocations, 2 pids, timer of 1 s |
| `launcher_safe` | Launch and monitor under errors, kills, reuse of pids: who is told to end, who is forgotten, and is it the group that `Group` promises? `IInv`, `NoLeakOnError`, `NoFriendlyFire`, `CleanUpComplete`, `ForwardedToAll`, `ImplementsGroup` | 1 subProcess (the limit of `config.go:132`), 2 signals, channel of 2 |
| `launcher_live` | Does the group end with the service, and do signals arrive? `GroupDies`, `SignalsForwarded` | the same, with failing starts and pids that are reused |
| `startup_log_alone` | What does a rotation lose, and what is written over? `RotationIInv`, `OnlyOldestLost`, `OldLogsKept` | the startup log and that of a subProcess; three old logs, five logs, one entry each |
| `startup_log_overlap` | Rotations by two invocations. `LogsInOrder` | either log; three old logs, five logs |
| `fake_clock` | Do stops and test get past each other, with every tick and deadline? `ClockIInv`, `Attached`, `EveryTick`, `DeadlineKept`, `OnlyTickersLinger`, `TestGoesOn`, `StopReturns` | 2 stops, timer of 3 s, clock up to 5 s |
| `compile_all` | What do configuration files become? `TypeOK`, `CInv`, `ConfigErrorsComeFirst`, `NothingIgnored`, `HeapFitsContainer`, `OptionsKept`, `OwnEnvironment` | 3850 worlds: all combinations of 16 lists of options, 2 switches and 51 hosts; 48 of places of java; 324 of environments; 216 pairs of files with and without a defect |

The inductive invariants of the proofs (`IInv`, `FaultIInv`, `RotationIInv`, `ClockIInv`) are checked in these runs, and
each holds its module's `TypeOK` as a conjunct. In `Compile`, where `CInv` does not, `TypeOK` is checked by itself.

The bounds are small and hit every case: three pids are one more than the
commands, so that a process can be replaced while its predecessor's pid is a
stranger's; two seconds separate a timer that runs out at once from one that is
late; five logs and three places make logs fall off the end after interrupted
rotations have left gaps; a channel of two can be full with a signal that is
not the last. Two commands show a loop that fails half way. A clock that
goes to five seconds, by any steps, lets a ticker tick several times in one `Advance` and the deadline lie before, at and
behind its end, and two stops let one be stopped while the clock sends to the other; what the test does after
five seconds (`MaxTime`) it can also do before. `MaxLogs` and `MaxLen`
bound the state only: what is beyond `MaxLen` is written and not remembered, and
without a further inode the log cannot be created again. Deadlock is checked for
`GoInit` and `StartupLog`; a group of processes, a compilation and a test really end, so it is not for
`Launcher`, `Compile` and `FakeClock` (whether the last one ends well is what its liveness properties say). In `compile_all` a mebibyte has 2 bytes, the highest limit is 200 and a word has 1024 values: the limits
lie around nothing, around the point where three mebibytes per processor are a quarter of
the limit, at the highest limit, and at the ends of an int.

Three runs show where the code differs from what the documentation or a comment says; each checks one
property and finds it violated:

| Run | What happens |
|---|---|
| `launcher_race` | the service dies before the monitor has looked at its parent: the monitor gives up and the subProcess stays |
| `startup_log_kept` | later messages of start go over what the compilation or the service has written |
| `fake_clock_stopped` | `Stop` of a ticker that has ticked leaves its sleeper on the clock, where `BlockUntil` counts it and a later `Advance` may panic on its closed channel |

Further differences that were seen while modelling and have no run of their own:

* stop fails if a process ends between `isProcRunning` and `Kill` (`stop.go:122`), and leaves further processes and all pidfiles as they are;
* if a fake ticker ticks for the last time in an `Advance` that also reaches the deadline, the timer is sent to a stop which
  waits for the lock of the clock, and nobody goes on (`clockwork.go:244`; `Stuck`, which `TestGoesOn` and `StopReturns` except);
* a fake timer of no duration sends with the lock held (`clockwork.go:180`); nobody passes 0;
* stop exits 0 while a process it has sent a SIGKILL is still alive (`stop.go:127`; usage at `stop.go:38`);
* a process that has exited and was not reaped counts as running (`lib.go:176`), and so does a stranger with a
  recorded pid (`status.go:32`);
* start exits 4, a code of status, when it cannot open its log (`cli.go:40`; usage at `start.go:34`);
* a start that cannot write a pidfile leaves a process that stop does not see (`start.go:58`);
* a start that finds the service running has already moved the service's log away (`logging.go:89`; usage at `start.go:32`);
* the README's examples have `executable: "{{CWD}}/..."`: braces are refused (`launcher.go:34`), and nothing expands
  them outside `env`;
* configured variables are appended to the inherited ones (`launcher.go:229`); `os/exec` drops the earlier of two entries
  with one key, `syscall.Exec` (`main.go:161`) passes both on;
* custom `jvmOpts` are "Ignored if configType is "executable"" (`README.md:101`): compilation looks at the type of the static
  section only (`launcher.go:89`), so a java service keeps the options of a custom file whose `configType` is `executable`
  (for subProcesses the types must agree, `config.go:229`; `compile_all` has such files, and `OptionsKept` holds of them);
* "the JAVA_HOME environment cannot be overwritten with this mechanism" (`README.md:144`): an entry `JAVA_HOME` of `env` is appended like
  any other (`launcher.go:229`), and what does not see it is the choice of java, which asks the launcher's own
  environment (`launcher.go:193`);
* an error of closing the compilation log is lost: `Wrapf` of the nil `err` is nil (`launcher.go:76`).

## Fairness

`GoInit`: an invocation that has begun goes on (WF on its steps) and its clock ticks;
Go's `select` chooses at random among ready cases, so a timer that is ready again
and again is chosen in the end (SF on `TimerFires`: each tick taken in between
disables it for the time of its loop). The kernel ends a process that was sent a
SIGKILL. No other process has to exit, and none has to be reaped.

With crashes and failing files (`goinit_faults`) nothing more is assumed: an invocation may be killed, and then it has ended.

`FakeClock`: each goroutine goes on, and a lock that is free is taken (no goroutine takes it again and again); that the test
moves the clock is not assumed.

`Launcher`: each goroutine and the launcher go on (WF), the ticker ticks, and whoever
started the launcher reaps it. The last is needed: a zombie answers signal 0, and the
monitor waits for as long as it is one. A stranger with the pid of the dead service answers as well, and may
do so for ever. `GroupDies` is therefore about behaviours in which nobody answers at that pid in the end; how often it was
given away before does not matter. Nor can the code do anything against a kill of the monitor (no fault of
the liveness run) or a SIGTERM before `signal.Notify`, which `GroupDies` names.

## What is proved

All theorems hold for every value of the constants under the assumptions of the modules.

* `GoInitProofs`. `TypeCorrect`: `TypeOK`, for any number of overlapping
  invocations and all faults (strengthened by `LoopOK`: the command at hand is one still to
  be visited, and the loops of stop visit only commands with a handle).
  `BookIsKept`: `IInv`, under `Alone` (one invocation at a time, the code has no lock) and
  `NoLoss` (no crash, no failing file operation: either may lose a pid). The safety
  properties say little about the middle of a command, so `IInv` states for each `pc` how the
  invocation knows a serving process: from the pidfile while its command is still to be
  checked, from its handle afterwards, from being about to write it down, and not at
  all after a stop that exited 0 (`Known`). `NothingIsOrphaned`, `NothingRunsTwice` and
  `StopStops` follow from it.
* `GoInitFaultProofs`. Under `Alone`, with crashes and failures. `NotesAreTrue`: `FaultIInv`, what an invocation has noted
  of the pidfiles is still so (it is the only one to write them), and whoever it has on its list after the SIGTERMs has been sent one
  or is a stranger. `SuccessIsOnRecord`, `TornPidfileStays` and `KillsAreWarned` follow; the first is what an exit code 0 is worth: that of start that every configured
  command is on record, that of stop that no pidfile of theirs is left, whichever write or removal of several has failed. Besides `TypeCorrect`, `TornIsBeingWritten` is the one
  statement about any number of overlapping invocations: a torn pidfile has a writer, if nobody is killed and no write fails. Its
  invariant says besides that whoever writes into a removed file is in the middle of its write, too.
* `ServiceProofs`. `StatusIsTrue`: `StatusTruth` from `IInv`. `PromiseIsKept`: `Spec => KeepsPromise`, under `Alone` and `NoLoss`, a
  refinement with step simulation: the initial states map to those of `Service`, processes, strangers and init take a command
  down or stutter (`ProcessesImplement`), and there is a lemma for the steps of each part of a command (`BeginImplements`,
  `CheckImplements`, `StartImplements`, `StopImplements`). `IInv` is what it needs: an answer of stop is true because
  whatever still served a command would have a handle, and `Launch` is allowed because whoever serves a command is found in its
  pidfile.
* `LauncherProofs`. `BookIsKept`: `IInv`, for any number of subProcesses, also with kills,
  failures and reused pids. It says that a live subProcess is on the launcher's list, that the
  monitor is given that list complete, that the
  deferred function has signalled those it has ticked off, that the monitor cleans up
  only when the launcher or service is gone, that who is ticked off in the forwarding of a signal has got it, and that what is
  forwarded was sent. `ErrorLeaksNothing` and `ServiceIsSpared` follow. So do the
  safety halves of the two liveness properties of `launcher_live`: `CleanUpIsComplete` (`GroupDies` says that the clean-up comes to its
  end, this that at its end nobody was forgotten) and `SignalsReachTheGroup` (`SignalsForwarded` likewise).
  `GroupIsKept`: `Spec => ImplementsGroup`, a refinement with step simulation, one lemma each for the steps of the launcher
  (`LaunchImplements`), the monitor (`WatchImplements`) and the rest (`EnvironmentImplements`). What `Group` sees is
  little of the state, so nearly all steps of `Group` have guards that follow from `IInv` and from `Started`: during the
  loop exactly the subProcesses behind it have been started, the monitor comes before the exec, and who has ended stays dead.
* `StartupLogProofs`. For both logs. `TypeCorrect`. `HigherIsOlder`: for any limit and any number of overlapping
  and interrupted rotations (with: no log is younger than the newest). `RotationIsKept` and
  `OldestGoesFirst`, for one invocation at a time: with `NextPlaceEmpty`, the place a rename
  goes to is empty, so that only the removal of the last place loses a log. `OldLogsStay`: `OldLogsKept`, with `StartsAnew`:
  after a rotation there is no log, so the one that start truncates is new and empty, and nobody else writes to that of a
  subProcess before it is closed.
* `CompileProofs`. `StagesAreKept`: `CInv`, for any files and hosts: what each stage leaves to the next (`StageInv`), and
  that each command is compiled from its own two sections (`SectionInv`). `ErrorsComeFirst`, `NothingIsIgnored` and `EnvironmentIsOwn` follow.
  `OptionsAreKept`: `OptionsKept`, for lists of any length. It rests on what the loop that drops the heap sizes leaves
  (`FilterKeeps`): the loop is the recursive function `Kept`, and both that it is defined and
  what it keeps are shown by the least number of steps at which it would go wrong, which takes the place of an
  induction. `HeapFits`: `HeapFitsContainer`; the limit in force is that of the process's own cgroup (`PathIsOwn`), the size is exactly the share of it that
  `IsShare` names (`HeapBounds`), and percentages stand in for a size only where there is no limit to go by (`NoHeapIfUnlimited`). `TypeCorrect`: `TypeOK`.
  `HeapBounds`, `NegativeIsTooHigh` and `ProcessorBounds` are about the operators of `Resources`, for all numbers.
  Assumed of a world (`WorldOK`): options are lists of options, a host has a processor, its tables are lists, a controller is named by one entry only of `/proc/self/cgroup`, the number in
  a file is an int, a custom configuration has its fields, and a working directory is not the placeholder for one.
* `FakeClockProofs`. For any number of stops, any timer and any steps of the test. `ClockIsKept`: `ClockIInv`, of which `OneEach` (the
  clock and the lists of a running `Advance` hold no channel twice), `DueThen` (it is due
  where its timer or last tick puts it), `PastIsOver` (none that is due is left behind), `InStep` (what the
  clock and the stop know of each other's time) and `ChannelsOfStop` (which channels have a sleeper, are closed or hold a token at each
  place of a stop) carry each other. `AllAreAttached`, `TicksAreDelivered`, `DeadlineIsKept` and `TimersDoNotLinger` follow, and two results
  that no run lists: `StopDoesNotBlock`, the buffer of one is enough for the token of a stop (`clockwork.go:140`), and `OnlyOldTickersPanic`,
  the panic of `Advance` is only ever about a ticker that has ticked before it was stopped.

Every safety property that a passing run checks is a theorem. Only model-checked: all liveness (`InvocationsFinish`, `StopEndsProcesses`,
`GroupDies`, `SignalsForwarded`, `TestGoesOn`, `StopReturns`), which TLAPS does not cover under fairness, and the three violations.

## What is not modelled

* In `Compile`: YAML, arguments that are handed through (main class, class path, `args`), and the inherited
  environment. `GoInit` and `Launcher` have the failure of configuration and compilation as a choice, and `GoInit` the set of configured commands.
* Permissions: processes of others are taken to be signallable, as under one user. A pid is
  written in one step: a write that stops half way leaves the file torn. More than one truncated
  digit is not told apart from any other pid.
* How often a command is launched by overlapping starts (no lock, no promise), and how long the log of a running service is kept
  when start is called again and again: hazards without a property, the second one listed among the differences above.
* In `FakeClock`: `Sleep`, which is `NewTimer` and a receipt and has no caller, `Now`, and durations of zero. The real clock passes each
  call to package `time`; its timer and ticker are in `GoInit`.
* The writers (their `Close` does nothing), the registration of commands, vendored code, the build.
* Exit codes of the monitor, and its output.

## Plan

Done, in this order: `GoInit` with its runs and proofs; `Launcher`; `StartupLog`; `Resources`, `Config`, `Compile`;
`FakeClock`; configurations that change; `Service` and its refinement; the proofs with faults; the logs of subProcesses;
the proofs of `FakeClock` and of the rest of `Compile`; `Group` and its refinement.

1. More about overlapping invocations, where the code takes no lock: what of `IInv` remains true for them without `Alone`.
2. The safety halves of `StopEndsProcesses` and `StopReturns`, as there are now of `GroupDies` and `SignalsForwarded`.
