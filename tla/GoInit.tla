------------------------------- MODULE GoInit -------------------------------
(***************************************************************************)
(* go-init (init/cli): the start, status and stop commands, run any number *)
(* of times and possibly at the same time, against the pidfiles in var/run *)
(* and the process table of the machine.                                   *)
(*                                                                         *)
(* The commands share nothing but files and processes, so every system     *)
(* call that reads or changes one of them is a step of its own.  The       *)
(* process table is external code, modelled from how init/cli uses it:     *)
(* a process exits when it likes, stays a zombie until its parent reaps    *)
(* it, and its pid may then be given to a process of somebody else.        *)
(***************************************************************************)
EXTENDS Naturals

CONSTANTS
  Cmds,        \* names of commands: services and subProcesses
  Configs,     \* the sets of commands that the configuration may list
  Invs,        \* go-init invocations that may run at the same time
  Pids,        \* process ids
  WaitSeconds, \* seconds stop waits before it kills (240 in the code)
  Faults,      \* what may go wrong: a subset of FaultKinds
  Foreign,     \* owner of a process that is not part of the service
  Nobody,      \* owner of a pid that is not in the process table
  InitProc,    \* parent of a process whose parent has exited
  NoPid,       \* no process handle
  NoCmd,       \* no command at hand
  Absent,      \* contents of a pidfile that does not exist
  Torn         \* contents of a pidfile that holds no integer

FaultKinds == {"crash",     \* an invocation is killed
               "io",        \* a file, directory or fork operation fails
               "config",    \* the configuration cannot be read or compiled
               "foreign"}   \* free pids are reused by processes of others

ASSUME ConstantsAssumption ==
  /\ Configs \subseteq SUBSET Cmds
  /\ WaitSeconds \in Nat \ {0}
  /\ Faults \subseteq FaultKinds
  /\ Foreign \notin Cmds /\ Nobody \notin Cmds /\ Foreign # Nobody
  /\ InitProc \notin Invs
  /\ NoPid \notin Pids /\ Absent \notin Pids /\ Torn \notin Pids /\ Absent # Torn
  /\ NoCmd \notin Cmds

VARIABLES
  owner,    \* owner[p]: the command the process with pid p was started for
  parent,   \* parent[p]: the invocation whose child p is, or InitProc
  zombie,   \* pids of the processes that exited and were not reaped yet
  termed,   \* pids of the processes that were sent a SIGTERM
  killed,   \* pids of the processes that were sent a SIGKILL and are not dead yet
  pidfile,  \* pidfile[c]: contents of var/run/<c>.pid
  unlinked, \* invocations that write a pidfile which has been removed meanwhile
  op,       \* op[i]: the command line of invocation i
  conf,     \* conf[i]: the commands that it has found in the configuration
  pc,       \* pc[i]: where invocation i is
  code,     \* code[i]: its exit code
  todo,     \* todo[i]: commands its current loop has still to visit
  cur,      \* cur[i]: the command at hand
  handle,   \* handle[i][c]: the os.Process it holds for command c
  written,  \* written[i]: commands whose pidfile it found (writtenPids)
  elapsed,  \* elapsed[i]: seconds since stop created its timer
  tick      \* tick[i]: a tick waits in the channel of its ticker

cmdVars   == <<op, conf>>
fileVars  == <<pidfile, unlinked>>
procVars  == <<owner, parent, zombie, termed, killed>>
loopVars  == <<todo, cur, handle, written>>
timerVars == <<elapsed, tick>>
vars == <<owner, parent, zombie, termed, killed, pidfile, unlinked, op, conf, pc,
          code, todo, cur, handle, written, elapsed, tick>>

Ops   == {"start", "status", "stop"}
Codes == {0, 1, 3, 4, 137}
Crashed == 137

TypeOK ==
  /\ owner \in [Pids -> Cmds \cup {Foreign, Nobody}]
  /\ parent \in [Pids -> Invs \cup {InitProc}]
  /\ zombie \subseteq Pids /\ termed \subseteq Pids /\ killed \subseteq Pids
  /\ pidfile \in [Cmds -> Pids \cup {Absent, Torn}]
  /\ unlinked \subseteq Invs
  /\ op \in [Invs -> Ops] /\ conf \in [Invs -> SUBSET Cmds]
  /\ pc \in [Invs -> {"idle", "check", "probe", "launch", "record", "write", "term",
                      "wait", "poll", "expire", "sigkill", "remove", "exited"}]
  /\ code \in [Invs -> Codes]
  /\ todo \in [Invs -> SUBSET Cmds]
  /\ cur \in [Invs -> Cmds \cup {NoCmd}]
  /\ handle \in [Invs -> [Cmds -> Pids \cup {NoPid}]]
  /\ written \in [Invs -> SUBSET Cmds]
  /\ elapsed \in [Invs -> 0..WaitSeconds]
  /\ tick \in [Invs -> BOOLEAN]

Init ==
  /\ owner = [p \in Pids |-> Nobody]
  /\ parent = [p \in Pids |-> InitProc]
  /\ zombie = {} /\ termed = {} /\ killed = {}
  /\ pidfile = [c \in Cmds |-> Absent]
  /\ unlinked = {}
  /\ op = [i \in Invs |-> "status"] /\ conf = [i \in Invs |-> {}]
  /\ pc = [i \in Invs |-> "idle"]
  /\ code = [i \in Invs |-> 0]
  /\ todo = [i \in Invs |-> {}]
  /\ cur = [i \in Invs |-> NoCmd]
  /\ handle = [i \in Invs |-> [c \in Cmds |-> NoPid]]
  /\ written = [i \in Invs |-> {}]
  /\ elapsed = [i \in Invs |-> 0]
  /\ tick = [i \in Invs |-> FALSE]

-----------------------------------------------------------------------------
(* The process table.                                                      *)

\* Signal 0 reaches every process in the table, a zombie too, and /proc lists it.
IsProcRunning(p) == owner[p] # Nobody

Live(p) == owner[p] # Nobody /\ p \notin zombie

Free(p) == owner[p] = Nobody

\* A process ends: of its own accord, or because of a signal.
ProcExits(p) ==
  /\ Live(p)
  /\ zombie' = zombie \cup {p}
  /\ killed' = killed \ {p}
  /\ UNCHANGED <<owner, parent, termed, fileVars, cmdVars, pc, code, loopVars, timerVars>>

\* go-init never waits for its children: only init reaps, after their parent is gone.
Reap(p) ==
  /\ p \in zombie /\ parent[p] = InitProc
  /\ owner' = [owner EXCEPT ![p] = Nobody]
  /\ zombie' = zombie \ {p}
  /\ termed' = termed \ {p}
  /\ UNCHANGED <<parent, killed, fileVars, cmdVars, pc, code, loopVars, timerVars>>

ForeignStarts(p) ==
  /\ "foreign" \in Faults
  /\ Free(p)
  /\ owner' = [owner EXCEPT ![p] = Foreign]
  /\ UNCHANGED <<parent, zombie, termed, killed, fileVars, cmdVars, pc, code, loopVars, timerVars>>

-----------------------------------------------------------------------------
(* Every invocation: read the configuration, then look at each command.    *)

Goto(i, l) == pc' = [pc EXCEPT ![i] = l]

Visited(i, c) == todo' = [todo EXCEPT ![i] = @ \ {c}]

\* The process ends with exit code rc; its children become children of init.
Finish(i, rc) ==
  /\ Goto(i, "exited")
  /\ code' = [code EXCEPT ![i] = rc]
  /\ parent' = [p \in Pids |-> IF parent[p] = i THEN InitProc ELSE parent[p]]
  /\ todo' = [todo EXCEPT ![i] = {}]
  /\ cur' = [cur EXCEPT ![i] = NoCmd]
  /\ handle' = [handle EXCEPT ![i] = [c \in Cmds |-> NoPid]]
  /\ written' = [written EXCEPT ![i] = {}]
  /\ unlinked' = unlinked \ {i}
  /\ elapsed' = [elapsed EXCEPT ![i] = 0]
  /\ tick' = [tick EXCEPT ![i] = FALSE]

ErrorCode(o) == IF o = "status" THEN 4 ELSE 1

Begin(i, o) ==
  /\ pc[i] \in {"idle", "exited"}
  /\ Goto(i, "check")
  /\ op' = [op EXCEPT ![i] = o]
  /\ code' = [code EXCEPT ![i] = 0]
  /\ \E cmds \in Configs : /\ conf' = [conf EXCEPT ![i] = cmds]
                           /\ todo' = [todo EXCEPT ![i] = cmds]
  /\ UNCHANGED <<procVars, fileVars, cur, handle, written, timerVars>>

\* The log file cannot be opened, or the commands cannot be compiled.
BeginFails(i, o) ==
  /\ pc[i] \in {"idle", "exited"}
  /\ op' = [op EXCEPT ![i] = o]
  /\ \/ "io" \in Faults /\ Finish(i, 4)
     \/ "config" \in Faults /\ Finish(i, ErrorCode(o))
  /\ UNCHANGED <<owner, zombie, termed, killed, pidfile, conf>>

\* getCmdProcess, first half: read the pidfile of one command.
ReadPidfile(i, c) ==
  /\ pc[i] = "check" /\ c \in todo[i]
  /\ \/ /\ pidfile[c] = Absent
        /\ Visited(i, c)
        /\ UNCHANGED <<pc, cur, handle>>
     \/ /\ pidfile[c] \in Pids
        /\ Goto(i, "probe")
        /\ cur' = [cur EXCEPT ![i] = c]
        /\ handle' = [handle EXCEPT ![i][c] = pidfile[c]]
        /\ UNCHANGED todo
  /\ UNCHANGED <<procVars, fileVars, cmdVars, code, written, timerVars>>

\* getCmdProcess, second half: is there a process with that pid?
Probe(i) ==
  /\ pc[i] = "probe"
  /\ Goto(i, "check")
  /\ Visited(i, cur[i])
  /\ written' = [written EXCEPT ![i] = @ \cup {cur[i]}]
  /\ handle' = [handle EXCEPT ![i][cur[i]] = IF IsProcRunning(@) THEN @ ELSE NoPid]
  /\ UNCHANGED <<procVars, fileVars, cmdVars, code, cur, timerVars>>

\* Mutant: a pidfile without an integer is taken for no pidfile.
BadPidfileIgnored(i, c) ==
  /\ pc[i] = "check" /\ c \in todo[i]
  /\ pidfile[c] = Torn
  /\ Visited(i, c)
  /\ UNCHANGED <<procVars, fileVars, cmdVars, pc, code, cur, handle, written, timerVars>>

\* The pidfile does not hold an integer.
BadPidfile(i, c) ==
  /\ pc[i] = "check" /\ c \in todo[i]
  /\ pidfile[c] = Torn
  /\ Finish(i, ErrorCode(op[i]))
  /\ UNCHANGED <<owner, zombie, termed, killed, pidfile, cmdVars>>

\* A pidfile cannot be read, or the process table cannot be listed.
CheckFails(i) ==
  /\ "io" \in Faults
  /\ \/ pc[i] \in {"check", "poll", "expire"} /\ todo[i] # {}
     \/ pc[i] = "probe"
  /\ Finish(i, ErrorCode(op[i]))
  /\ UNCHANGED <<owner, zombie, termed, killed, pidfile, cmdVars>>

\* The commands for which the invocation holds a process.
RunningCmds(i) == {c \in Cmds : handle[i][c] # NoPid}

\* Mutant: start does not leave out the commands that are running.
AllCmds(i) == conf[i]

NotRunningCmds(i) == conf[i] \ RunningCmds(i)

AllChecked(i, o) == pc[i] = "check" /\ todo[i] = {} /\ op[i] = o

-----------------------------------------------------------------------------
(* status: the first applicable of ErrorState, NotRunning, Dead, Running.  *)

\* Mutant: the record of earlier processes is not looked at.
StatusCodeNoRecord(i) == IF NotRunningCmds(i) # {} THEN 3 ELSE 0

StatusCode(i) ==
  CASE NotRunningCmds(i) # {} /\ written[i] = {} -> 3
    [] NotRunningCmds(i) # {} /\ written[i] # {} -> 1
    [] OTHER -> 0

Status(i) ==
  /\ AllChecked(i, "status")
  /\ Finish(i, StatusCode(i))
  /\ UNCHANGED <<owner, zombie, termed, killed, pidfile, cmdVars>>

-----------------------------------------------------------------------------
(* start: launch what is not running and record each pid as it is known.   *)

StartService(i) ==
  /\ AllChecked(i, "start")
  /\ Goto(i, "launch")
  /\ todo' = [todo EXCEPT ![i] = NotRunningCmds(i)]
  /\ UNCHANGED <<procVars, fileVars, cmdVars, code, cur, handle, written, timerVars>>

StartCommand(i, c, p) ==
  /\ pc[i] = "launch" /\ c \in todo[i]
  /\ Free(p)
  /\ owner' = [owner EXCEPT ![p] = c]
  /\ parent' = [parent EXCEPT ![p] = i]
  /\ cur' = [cur EXCEPT ![i] = c]
  /\ handle' = [handle EXCEPT ![i][c] = p]
  /\ Goto(i, "record")
  /\ UNCHANGED <<zombie, termed, killed, fileVars, cmdVars, code, todo, written, timerVars>>

\* A directory, a log file or the fork itself fails; the commands launched so far stay.
StartFails(i) ==
  /\ pc[i] = "launch" /\ todo[i] # {}
  /\ "io" \in Faults \/ ~\E p \in Pids : Free(p)
  /\ Finish(i, 1)
  /\ UNCHANGED <<owner, zombie, termed, killed, pidfile, cmdVars>>

\* Mutant: the pidfile is created, and its contents forgotten.
TouchPidfile(i) ==
  /\ pc[i] = "record"
  /\ Goto(i, "launch")
  /\ pidfile' = [pidfile EXCEPT ![cur[i]] = Torn]
  /\ Visited(i, cur[i])
  /\ UNCHANGED <<procVars, unlinked, cmdVars, code, cur, handle, written, timerVars>>

\* ioutil.WriteFile opens the pidfile with O_TRUNC, then writes it.
TruncatePidfile(i) ==
  /\ pc[i] = "record"
  /\ Goto(i, "write")
  /\ pidfile' = [pidfile EXCEPT ![cur[i]] = Torn]
  /\ UNCHANGED <<procVars, unlinked, cmdVars, code, loopVars, timerVars>>

\* Where another start has written since, the end of a longer pid stays behind a shorter one.
WritePid(i, p) ==
  /\ pc[i] = "write"
  /\ p = handle[i][cur[i]] \/ pidfile[cur[i]] \in Pids
  /\ Goto(i, "launch")
  /\ pidfile' = IF i \in unlinked THEN pidfile ELSE [pidfile EXCEPT ![cur[i]] = p]
  /\ unlinked' = unlinked \ {i}
  /\ Visited(i, cur[i])
  /\ UNCHANGED <<procVars, cmdVars, code, cur, handle, written, timerVars>>

\* The pidfile directory or the pidfile cannot be created, or not be written.
RecordFails(i) ==
  /\ "io" \in Faults
  /\ pc[i] \in {"record", "write"}
  /\ Finish(i, 1)
  /\ UNCHANGED <<owner, zombie, termed, killed, pidfile, cmdVars>>

\* Mutant: start returns from inside its loop.
StartedEarly(i) ==
  /\ pc[i] = "launch"
  /\ Finish(i, 0)
  /\ UNCHANGED <<owner, zombie, termed, killed, pidfile, cmdVars>>

Started(i) ==
  /\ pc[i] = "launch" /\ todo[i] = {}
  /\ Finish(i, 0)
  /\ UNCHANGED <<owner, zombie, termed, killed, pidfile, cmdVars>>

-----------------------------------------------------------------------------
(* stop: SIGTERM, wait with a ticker and a timer, SIGKILL, remove pidfiles. *)

StopService(i) ==
  /\ AllChecked(i, "stop")
  /\ Goto(i, "term")
  /\ todo' = [todo EXCEPT ![i] = RunningCmds(i)]
  /\ UNCHANGED <<procVars, fileVars, cmdVars, code, cur, handle, written, timerVars>>

\* A process that has finished meanwhile is not an error.
Terminate(i, c) ==
  /\ pc[i] = "term" /\ c \in todo[i]
  /\ termed' = IF Live(handle[i][c]) THEN termed \cup {handle[i][c]} ELSE termed
  /\ Visited(i, c)
  /\ UNCHANGED <<owner, parent, zombie, killed, fileVars, cmdVars, pc, code,
                 cur, handle, written, timerVars>>

WaitForServiceToStop(i) ==
  /\ pc[i] = "term" /\ todo[i] = {}
  /\ Goto(i, "wait")
  /\ UNCHANGED <<procVars, fileVars, cmdVars, code, loopVars, timerVars>>

\* A second passes; the channel of a ticker holds one tick, further ones are dropped.
SecondPasses(i) ==
  /\ pc[i] \in {"wait", "poll"}
  /\ elapsed' = [elapsed EXCEPT ![i] = IF @ < WaitSeconds THEN @ + 1 ELSE @]
  /\ tick' = [tick EXCEPT ![i] = TRUE]
  /\ UNCHANGED <<procVars, fileVars, cmdVars, pc, code, loopVars>>

TickerFires(i) ==
  /\ pc[i] = "wait" /\ tick[i]
  /\ Goto(i, "poll")
  /\ tick' = [tick EXCEPT ![i] = FALSE]
  /\ todo' = [todo EXCEPT ![i] = RunningCmds(i)]
  /\ UNCHANGED <<procVars, fileVars, cmdVars, code, cur, handle, written, elapsed>>

\* One remaining process is looked at; it is forgotten when it is gone.
Poll(i, c) ==
  /\ pc[i] = "poll" /\ c \in todo[i]
  /\ Visited(i, c)
  /\ handle' = [handle EXCEPT ![i][c] = IF IsProcRunning(@) THEN @ ELSE NoPid]
  /\ UNCHANGED <<procVars, fileVars, cmdVars, pc, code, cur, written, timerVars>>

\* Mutant: stop goes on as soon as one process is gone.
PollDoneEarly(i) ==
  /\ pc[i] = "poll" /\ todo[i] = {}
  /\ IF RunningCmds(i) # conf[i]
     THEN Goto(i, "remove") /\ todo' = [todo EXCEPT ![i] = conf[i]]
     ELSE Goto(i, "wait") /\ UNCHANGED todo
  /\ UNCHANGED <<procVars, fileVars, cmdVars, code, cur, handle, written, timerVars>>

PollDone(i) ==
  /\ pc[i] = "poll" /\ todo[i] = {}
  /\ IF RunningCmds(i) = {}
     THEN Goto(i, "remove") /\ todo' = [todo EXCEPT ![i] = conf[i]]
     ELSE Goto(i, "wait") /\ UNCHANGED todo
  /\ UNCHANGED <<procVars, fileVars, cmdVars, code, cur, handle, written, timerVars>>

\* Mutant: the timer is created with a duration that has passed.
TimerFiresAtOnce(i) ==
  /\ pc[i] = "wait"
  /\ Goto(i, "expire")
  /\ todo' = [todo EXCEPT ![i] = RunningCmds(i)]
  /\ UNCHANGED <<procVars, fileVars, cmdVars, code, cur, handle, written, timerVars>>

TimerFires(i) ==
  /\ pc[i] = "wait" /\ elapsed[i] = WaitSeconds
  /\ Goto(i, "expire")
  /\ todo' = [todo EXCEPT ![i] = RunningCmds(i)]
  /\ UNCHANGED <<procVars, fileVars, cmdVars, code, cur, handle, written, timerVars>>

\* Mutant: the timer ends the wait, and nothing is killed.
ExpireGivesUp(i, c) ==
  /\ pc[i] = "expire" /\ c \in todo[i]
  /\ Visited(i, c)
  /\ UNCHANGED <<procVars, fileVars, cmdVars, pc, code, cur, handle, written, timerVars>>

Expire(i, c) ==
  /\ pc[i] = "expire" /\ c \in todo[i]
  /\ IF IsProcRunning(handle[i][c])
     THEN /\ Goto(i, "sigkill")
          /\ cur' = [cur EXCEPT ![i] = c]
          /\ UNCHANGED todo
     ELSE Visited(i, c) /\ UNCHANGED <<pc, cur>>
  /\ UNCHANGED <<procVars, fileVars, cmdVars, code, handle, written, timerVars>>

Kill(i) ==
  /\ pc[i] = "sigkill"
  /\ IsProcRunning(handle[i][cur[i]])
  /\ killed' = IF Live(handle[i][cur[i]]) THEN killed \cup {handle[i][cur[i]]} ELSE killed
  /\ Goto(i, "expire")
  /\ Visited(i, cur[i])
  /\ UNCHANGED <<owner, parent, zombie, termed, fileVars, cmdVars, code,
                 cur, handle, written, timerVars>>

\* The process has gone since it was looked at: Kill returns an error, and so does stop.
KillFails(i) ==
  /\ pc[i] = "sigkill"
  /\ ~IsProcRunning(handle[i][cur[i]])
  /\ Finish(i, 1)
  /\ UNCHANGED <<owner, zombie, termed, killed, pidfile, cmdVars>>

\* Mutant: the wait goes on after the SIGKILLs, until the processes are gone.
ExpireWaitsOn(i) ==
  /\ pc[i] = "expire" /\ todo[i] = {}
  /\ Goto(i, "wait")
  /\ UNCHANGED <<procVars, fileVars, cmdVars, code, loopVars, timerVars>>

\* Mutant: stop removes every pidfile that it finds.
ExpireDoneAll(i) ==
  /\ pc[i] = "expire" /\ todo[i] = {}
  /\ Goto(i, "remove")
  /\ todo' = [todo EXCEPT ![i] = Cmds]
  /\ UNCHANGED <<procVars, fileVars, cmdVars, code, cur, handle, written, timerVars>>

ExpireDone(i) ==
  /\ pc[i] = "expire" /\ todo[i] = {}
  /\ Goto(i, "remove")
  /\ todo' = [todo EXCEPT ![i] = conf[i]]
  /\ UNCHANGED <<procVars, fileVars, cmdVars, code, cur, handle, written, timerVars>>

RemovePidfile(i, c) ==
  /\ pc[i] = "remove" /\ c \in todo[i]
  /\ Visited(i, c)
  /\ pidfile' = [pidfile EXCEPT ![c] = Absent]
  /\ unlinked' = unlinked \cup {j \in Invs : pc[j] = "write" /\ cur[j] = c}
  /\ UNCHANGED <<procVars, cmdVars, pc, code, cur, handle, written, timerVars>>

\* The loop goes on, and stop will exit 1.
RemoveFails(i, c) ==
  /\ "io" \in Faults
  /\ pc[i] = "remove" /\ c \in todo[i] /\ pidfile[c] # Absent
  /\ Visited(i, c)
  /\ code' = [code EXCEPT ![i] = 1]
  /\ UNCHANGED <<procVars, fileVars, cmdVars, pc, cur, handle, written, timerVars>>

Stopped(i) ==
  /\ pc[i] = "remove" /\ todo[i] = {}
  /\ Finish(i, code[i])
  /\ UNCHANGED <<owner, zombie, termed, killed, pidfile, cmdVars>>

-----------------------------------------------------------------------------

Crash(i) ==
  /\ "crash" \in Faults
  /\ pc[i] \notin {"idle", "exited"}
  /\ Finish(i, Crashed)
  /\ UNCHANGED <<owner, zombie, termed, killed, pidfile, cmdVars>>

\* What an invocation does on its own once it has begun.
Check(i)  == Probe(i) \/ \E c \in Cmds : ReadPidfile(i, c) \/ BadPidfile(i, c)

Start(i)  == \/ StartService(i) \/ StartFails(i) \/ TruncatePidfile(i) \/ Started(i)
             \/ \E p \in Pids : WritePid(i, p) \/ \E c \in Cmds : StartCommand(i, c, p)

Stop(i)   == \/ StopService(i) \/ WaitForServiceToStop(i) \/ TickerFires(i) \/ PollDone(i)
             \/ TimerFires(i) \/ Kill(i) \/ KillFails(i) \/ ExpireDone(i) \/ Stopped(i)
             \/ \E c \in Cmds : \/ Terminate(i, c) \/ Poll(i, c) \/ Expire(i, c)
                                \/ RemovePidfile(i, c)

Run(i)    == Check(i) \/ Status(i) \/ Start(i) \/ Stop(i)

Fail(i)   == \/ Crash(i) \/ CheckFails(i) \/ RecordFails(i)
             \/ \E c \in Cmds : RemoveFails(i, c)

Next ==
  \/ \E i \in Invs : Run(i) \/ Fail(i) \/ SecondPasses(i)
  \/ \E i \in Invs, o \in Ops : Begin(i, o) \/ BeginFails(i, o)
  \/ \E p \in Pids : ProcExits(p) \/ Reap(p) \/ ForeignStarts(p)

Spec == Init /\ [][Next]_vars

\* A program that has begun goes on, and its clock ticks.  Go's select takes any ready
\* case at random, so a timer that stays due is taken in the end.  The kernel ends a
\* process that was sent a SIGKILL.  No other process has to exit, and none is reaped.
Fairness ==
  /\ \A i \in Invs : WF_vars(Run(i)) /\ WF_vars(SecondPasses(i)) /\ SF_vars(TimerFires(i))
  /\ \A p \in Pids : WF_vars(p \in killed /\ ProcExits(p))

FairSpec == Spec /\ Fairness

-----------------------------------------------------------------------------
(* Safety.  "Alone" properties are those of one invocation at a time: the  *)
(* code takes no lock, and the overlapping runs show what then remains.    *)

\* The processes that serve command c: alive, and not about to die of a SIGKILL.
Serving(c) == {p \in Pids : owner[p] = c /\ Live(p) /\ p \notin killed}

Recording(i) == pc[i] \in {"record", "write"}

Exited(i, o, rc) == pc[i] = "exited" /\ op[i] = o /\ code[i] = rc

\* Alone: every process that serves a command can be found again by a later go-init, also
\* after the configuration has dropped the command for a while (getConfiguredCommands):
\* its pid is in the command's pidfile, or start (startService) is about to put it there.
NoOrphan ==
  \A c \in Cmds : \A p \in Serving(c) :
    \/ pidfile[c] = p
    \/ \E i \in Invs : Recording(i) /\ cur[i] = c /\ handle[i][c] = p

\* Alone: start never launches a second process for a command that is being served,
\* however starts, stops, exits, failures and the reuse of pids follow each other.
OneInstance == \A c \in Cmds : \A p, q \in Serving(c) : p = q

\* Alone: when stop has exited 0 no process of a configured command is left that nobody
\* killed, also where the configuration had not listed that command before.
StopMeansStopped ==
  \A i \in Invs : Exited(i, "stop", 0) => \A c \in conf[i] : Serving(c) = {}

\* Alone: status exits 3 only if nothing serves and no pidfile is left, and 1 only if
\* some command is not served although a pidfile is left (the two nonzero answers of status).
StatusTruth ==
  \A i \in Invs :
    /\ Exited(i, "status", 3) =>
         \A c \in conf[i] : Serving(c) = {} /\ pidfile[c] = Absent
    /\ Exited(i, "status", 1) =>
         (\E c \in conf[i] : Serving(c) = {}) /\ (\E c \in conf[i] : pidfile[c] # Absent)

\* Without crashes and failing writes, a pidfile that holds no integer is being written at
\* this moment, by a start whose open file it is: even if starts and stops overlap, such a
\* file, which makes every command fail (getCmdProcess), does not stay.
TornMeansWriting ==
  \A c \in Cmds : pidfile[c] = Torn =>
    \E i \in Invs \ unlinked : pc[i] = "write" /\ cur[i] = c

\* Alone: a torn pidfile of a command that is always configured, which nobody writes any
\* more (its start has crashed or failed), is never repaired or removed by go-init, and
\* meanwhile nothing is launched or signalled: start, status and stop all give up in
\* getCmdProcess, until somebody deletes the file.
TornPidfileWedges ==
  [][\A c \in Cmds :
       (/\ pidfile[c] = Torn /\ \A cmds \in Configs : c \in cmds
        /\ \A i \in Invs : ~Recording(i)) =>
         /\ pidfile' = pidfile
         /\ \A p \in Pids : Free(p) => owner'[p] \notin Cmds
         /\ termed' \subseteq termed /\ killed' \subseteq killed]_vars

\* Alone: the exit code tells of every failure half way.  If start exits 0, then every configured
\* command has a pid on record, even if a start was killed or failed before, and none was launched
\* that could not be written down; if stop exits 0, then each of them has its pidfile removed, also
\* where the removal of one fails and the loop goes on with others (stop.go:69).
SuccessOnRecord ==
  \A i \in Invs :
    /\ Exited(i, "start", 0) => \A c \in conf[i] : pidfile[c] \in Pids
    /\ Exited(i, "stop", 0) => \A c \in conf[i] : pidfile[c] = Absent

\* Alone: a SIGKILL is sent only by a stop whose timer has run out, and to no process of
\* the service that was not sent a SIGTERM before (waitForServiceToStop).
KillOnlyAfterGrace ==
  [][\A p \in killed' \ killed :
       /\ p \in termed \/ owner[p] = Foreign
       /\ \E i \in Invs : op[i] = "stop" /\ elapsed[i] = WaitSeconds]_vars

\* How invocation i can tell, at each place, that process p serves command c.
KnownConfigured(i, c, p) ==
  /\ pc[i] \in {"idle", "check", "probe", "launch", "term", "wait", "poll", "expire",
                "sigkill", "exited"} => pidfile[c] = p
  /\ pc[i] \in {"check", "probe"} => c \in todo[i] \/ handle[i][c] = p
  /\ pc[i] = "launch" => c \notin todo[i]
  /\ Recording(i) => IF c = cur[i] THEN handle[i][c] = p
                                  ELSE pidfile[c] = p /\ c \notin todo[i]
  /\ pc[i] \in {"term", "wait", "poll"} => handle[i][c] = p
  /\ pc[i] \in {"expire", "sigkill"} => handle[i][c] = p /\ c \in todo[i]
  /\ pc[i] # "remove"
  /\ ~Exited(i, "stop", 0)

\* A command that the configuration does not list keeps its pidfile all the time.
Known(i, c, p) == IF c \in conf[i] THEN KnownConfigured(i, c, p) ELSE pidfile[c] = p

\* What the command at hand is, where there is one.
AtHand(i) ==
  /\ pc[i] \in {"probe", "record", "write", "sigkill"} => cur[i] \in todo[i]
  /\ todo[i] \subseteq conf[i] /\ RunningCmds(i) \subseteq conf[i]
  /\ pc[i] \in {"idle", "exited"} => todo[i] = {} /\ RunningCmds(i) = {}
  /\ pc[i] = "probe" => handle[i][cur[i]] = pidfile[cur[i]] /\ pidfile[cur[i]] \in Pids
  /\ pc[i] = "write" => pidfile[cur[i]] = Torn
  /\ pc[i] \in {"launch", "record", "write"} => op[i] = "start"
  /\ pc[i] \in {"term", "wait", "poll", "expire", "sigkill", "remove"} => op[i] = "stop"

\* Alone: the inductive invariant behind NoOrphan, OneInstance and StopMeansStopped.  At
\* every step of start, status and stop, what the invocation has read and noted (todo,
\* handle) and the pidfiles lead to each process that serves.
IInv ==
  /\ TypeOK
  /\ unlinked = {}
  /\ \A i \in Invs : AtHand(i) /\ \A c \in Cmds : \A p \in Serving(c) : Known(i, c, p)

\* What has been read is what the pidfiles say.
Noted(i) ==
  /\ pc[i] \in {"idle", "exited"} => written[i] = {}
  /\ pc[i] \in {"check", "probe"} =>
       /\ \A c \in conf[i] \ todo[i] : c \in written[i] <=> pidfile[c] # Absent
       /\ written[i] \subseteq conf[i] \ todo[i]
       /\ \A c \in RunningCmds(i) :
            /\ pidfile[c] = handle[i][c]
            /\ c \in written[i] \/ (pc[i] = "probe" /\ c = cur[i])

\* What start has done with is on record, and what stop has done with is not.
Recorded(i) ==
  /\ pc[i] \in {"launch", "record", "write"} =>
       \A c \in conf[i] \ todo[i] : pidfile[c] \in Pids
  /\ pc[i] = "remove" /\ code[i] = 0 => \A c \in conf[i] \ todo[i] : pidfile[c] = Absent
  /\ Exited(i, "start", 0) => \A c \in conf[i] : pidfile[c] \in Pids
  /\ Exited(i, "stop", 0) => \A c \in conf[i] : pidfile[c] = Absent

\* A torn pidfile of a configured command is one still to be read, or being written.
TornSeen(i) ==
  /\ pc[i] \notin {"idle", "exited"} => conf[i] \in Configs
  /\ \A c \in conf[i] : pidfile[c] = Torn =>
       \/ pc[i] \in {"idle", "exited"}
       \/ pc[i] \in {"check", "probe"} /\ c \in todo[i]
       \/ pc[i] = "write" /\ c = cur[i]

\* Whom stop waits for, it has sent a SIGTERM, unless it was too late for that.
Warned(i) ==
  /\ pc[i] \in {"expire", "sigkill"} => elapsed[i] = WaitSeconds
  /\ \A c \in RunningCmds(i) :
       (pc[i] \in {"wait", "poll", "expire", "sigkill"} \/ (pc[i] = "term" /\ c \notin todo[i]))
         => handle[i][c] \in termed \/ ~Live(handle[i][c]) \/ owner[handle[i][c]] = Foreign

\* Alone, with all faults: the inductive invariant behind SuccessOnRecord, TornPidfileWedges
\* and KillOnlyAfterGrace, and behind what status says.
FaultIInv ==
  /\ TypeOK
  /\ unlinked = {}
  /\ \A i \in Invs : AtHand(i) /\ Noted(i) /\ Recorded(i) /\ TornSeen(i) /\ Warned(i)

-----------------------------------------------------------------------------
(* GoInit as Service sees it.                                              *)

Only == CHOOSE i \in Invs : TRUE

Promise == INSTANCE Service WITH
  up     <- {c \in Cmds : Serving(c) # {}},
  busy   <- pc[Only] \notin {"idle", "exited"},
  op     <- op[Only],
  asked  <- conf[Only],
  answer <- code[Only]

\* Alone, without crashes and failing file operations: go-init implements Service.  Its
\* launches, and the exits of processes, change what is up, its exit codes are true in
\* the step in which it exits, and all its other steps are not seen from outside.
KeepsPromise == Promise!Spec

-----------------------------------------------------------------------------
(* Liveness.                                                               *)

\* Every invocation comes to an end, stop too, whatever the processes do: its loop is left
\* when they are gone or, since a select takes each ready case in the end, by the timer.
InvocationsFinish ==
  \A i \in Invs : pc[i] # "idle" ~> pc[i] = "exited"

\* Each process that stop finds running is gone in the end, or stop reports a failure.
StopEndsProcesses ==
  \A i \in Invs, c \in Cmds, p \in Pids :
    (pc[i] = "term" /\ handle[i][c] = p) ~>
      (~Live(p) \/ Exited(i, "stop", 1) \/ Exited(i, "stop", Crashed))

=============================================================================
