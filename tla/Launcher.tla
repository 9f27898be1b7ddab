------------------------------ MODULE Launcher ------------------------------
(***************************************************************************)
(* go-java-launcher (launcher/main) with subProcesses, and the process     *)
(* monitor (launchlib/monitor.go) that it starts before it becomes the     *)
(* service by exec.  One process group: Main is the launcher and, after    *)
(* exec, the service; Mon is the monitor; Subs are the subProcesses.       *)
(*                                                                         *)
(* A process is known by its pid, and table[x] says what the pid of x      *)
(* stands for at the moment, which may be a stranger once x is reaped.     *)
(***************************************************************************)
EXTENDS Naturals, Sequences

CONSTANTS
  Main, Mon, \* the launcher or service, and the monitor
  Subs,      \* the subProcesses
  Sigs,      \* the signals that may be sent to the monitor
  Term,      \* SIGTERM
  QCap,      \* capacity of the monitor's signal channel (35 in the code)
  Faults     \* what may go wrong: a subset of FaultKinds

FaultKinds == {"start",  \* a command does not start, or the exec fails
               "kill",   \* the launcher or the monitor is killed
               "reuse"}  \* the pid of a reaped process is given to a stranger

Procs == {Main, Mon} \cup Subs

ASSUME ConstantsAssumption ==
  /\ Main # Mon /\ Main \notin Subs /\ Mon \notin Subs
  /\ Term \in Sigs
  /\ QCap \in Nat \ {0}
  /\ Faults \subseteq FaultKinds

VARIABLES
  table, \* table[x]: what the pid of x stands for in the process table
  got,   \* got[x]: signals that x was sent through the launcher or the monitor
  pc,    \* where the launcher is; "service" after exec
  todo,  \* subProcesses the launcher has still to start, or to terminate
  pids,  \* monitor.SubProcessPIDs: subProcesses that were started
  mpc,   \* where the main goroutine of the monitor is
  mtodo, \* subProcesses it has still to terminate
  tick,  \* a tick waits in the channel of its ticker
  queue, \* its channel of signals
  sig,   \* the signal that its forwarding goroutine has taken
  ftodo, \* processes that goroutine has still to forward it to
  sent   \* signals that others have sent to the monitor (history)

launcherVars == <<pc, todo, pids>>
watchVars    == <<mpc, mtodo, tick>>
forwardVars  == <<queue, sig, ftodo>>
vars == <<table, got, pc, todo, pids, mpc, mtodo, tick, queue, sig, ftodo, sent>>

TypeOK ==
  /\ table \in [Procs -> {"unborn", "live", "zombie", "gone", "stranger"}]
  /\ got \in [Procs -> SUBSET Sigs]
  /\ pc \in {"compile", "spawn", "exec", "unwind", "service", "panicked", "ended"}
  /\ todo \subseteq Subs /\ pids \subseteq Subs
  /\ mpc \in {"off", "verify", "notify", "watch", "cleanup", "ended"}
  /\ mtodo \subseteq Subs
  /\ tick \in BOOLEAN
  /\ queue \in Seq(Sigs) /\ Len(queue) <= QCap
  /\ sig \in Sigs
  /\ ftodo \subseteq Procs
  /\ sent \subseteq Sigs

Init ==
  /\ table = [x \in Procs |-> IF x = Main THEN "live" ELSE "unborn"]
  /\ got = [x \in Procs |-> {}]
  /\ pc = "compile" /\ todo = {} /\ pids = {}
  /\ mpc = "off" /\ mtodo = {} /\ tick = FALSE
  /\ queue = <<>> /\ sig = Term /\ ftodo = {}
  /\ sent = {}

-----------------------------------------------------------------------------
(* The process table and its signals.                                      *)

\* Mutant: os.FindProcess is trusted, which never fails on Unix.
IsPidFound(x) == table[x] # "unborn"

\* Signal 0 is answered by every process in the table: a zombie, and a stranger.
IsPidAlive(x) == table[x] \in {"live", "zombie", "stranger"}

\* A zombie and a stranger are signalled too, which leaves no trace in the group.
SignalPid(x, s) ==
  got' = IF table[x] = "live" THEN [got EXCEPT ![x] = @ \cup {s}] ELSE got

\* The threads of an exited process take no further step.
Becomes(x, st) == table' = [table EXCEPT ![x] = st]

SubExits(s) ==
  /\ table[s] = "live"
  /\ Becomes(s, "zombie")
  /\ UNCHANGED <<got, launcherVars, watchVars, forwardVars, sent>>

\* The service ends when it likes, or it is killed like anybody else.
ServiceExits ==
  /\ pc = "service"
  /\ Becomes(Main, "zombie")
  /\ pc' = "ended"
  /\ UNCHANGED <<got, todo, pids, watchVars, forwardVars, sent>>

LauncherKilled ==
  /\ "kill" \in Faults
  /\ pc \in {"compile", "spawn", "exec", "unwind"}
  /\ Becomes(Main, "zombie")
  /\ pc' = "ended"
  /\ UNCHANGED <<got, todo, pids, watchVars, forwardVars, sent>>

\* The process of the monitor ends, and all that it has not forwarded is lost.
MonitorEnds ==
  /\ Becomes(Mon, "zombie")
  /\ mpc' = "ended" /\ mtodo' = {} /\ tick' = FALSE
  /\ queue' = <<>> /\ ftodo' = {} /\ UNCHANGED sig

MonitorKilled ==
  /\ "kill" \in Faults
  /\ table[Mon] = "live"
  /\ MonitorEnds
  /\ UNCHANGED <<got, launcherVars, sent>>

\* The launcher reaps nobody; the service may, and init does once Main is dead.
Reap(x) ==
  /\ table[x] = "zombie"
  /\ x = Main \/ table[Main] # "live" \/ pc = "service"
  /\ Becomes(x, "gone")
  /\ UNCHANGED <<got, launcherVars, watchVars, forwardVars, sent>>

PidReused(x) ==
  /\ "reuse" \in Faults
  /\ table[x] = "gone"
  /\ Becomes(x, "stranger")
  /\ UNCHANGED <<got, launcherVars, watchVars, forwardVars, sent>>

StrangerExits(x) ==
  /\ table[x] = "stranger"
  /\ Becomes(x, "gone")
  /\ UNCHANGED <<got, launcherVars, watchVars, forwardVars, sent>>

-----------------------------------------------------------------------------
(* The launcher.                                                           *)

\* Read the configuration, create the directories, compile the commands.
Compile ==
  /\ pc = "compile"
  /\ IF Subs = {} THEN pc' = "exec" ELSE pc' = "spawn"
  /\ todo' = Subs
  /\ UNCHANGED <<table, got, pids, watchVars, forwardVars, sent>>

\* The process ends by a panic that no deferred function has still to see.
Panicked ==
  /\ pc' = "panicked"
  /\ Becomes(Main, "zombie")

CompileFails ==
  /\ "start" \in Faults
  /\ pc = "compile"
  /\ Panicked
  /\ UNCHANGED <<got, todo, pids, watchVars, forwardVars, sent>>

\* Mutant: the pid of the new process is not appended to SubProcessPIDs.
StartSubUnlisted(s) ==
  /\ pc = "spawn" /\ s \in todo
  /\ Becomes(s, "live")
  /\ todo' = todo \ {s}
  /\ UNCHANGED <<got, pc, pids, watchVars, forwardVars, sent>>

StartSub(s) ==
  /\ pc = "spawn" /\ s \in todo
  /\ Becomes(s, "live")
  /\ todo' = todo \ {s}
  /\ pids' = pids \cup {s}
  /\ UNCHANGED <<got, pc, watchVars, forwardVars, sent>>

\* Mutant: the monitor does not wait for the loop over the subProcesses.
StartMonitorEarly ==
  /\ pc = "spawn"
  /\ Becomes(Mon, "live")
  /\ mpc' = "verify"
  /\ pc' = "exec"
  /\ UNCHANGED <<got, todo, pids, mtodo, tick, forwardVars, sent>>

StartMonitor ==
  /\ pc = "spawn" /\ todo = {}
  /\ Becomes(Mon, "live")
  /\ mpc' = "verify"
  /\ pc' = "exec"
  /\ UNCHANGED <<got, todo, pids, mtodo, tick, forwardVars, sent>>

\* The primary command takes over the process; deferred functions are forgotten.
Exec ==
  /\ pc = "exec"
  /\ pc' = "service"
  /\ UNCHANGED <<table, got, todo, pids, watchVars, forwardVars, sent>>

\* Mutant: the deferred function is only registered after the loop that starts subProcesses.
StartFailsUndeferred ==
  /\ "start" \in Faults
  /\ pc \in {"spawn", "exec"}
  /\ pc' = "unwind"
  /\ todo' = IF pc = "spawn" THEN {} ELSE pids
  /\ UNCHANGED <<table, got, pids, watchVars, forwardVars, sent>>

\* A subProcess, the monitor or the exec fails: panic, and the deferred function runs.
StartFails ==
  /\ "start" \in Faults
  /\ pc \in {"spawn", "exec"}
  /\ pc' = "unwind"
  /\ todo' = pids
  /\ UNCHANGED <<table, got, pids, watchVars, forwardVars, sent>>

\* The deferred KillSubProcesses goes on with the next pid whatever one signal returns.
KillSubProcess(s) ==
  /\ pc = "unwind" /\ s \in todo
  /\ SignalPid(s, Term)
  /\ todo' = todo \ {s}
  /\ UNCHANGED <<table, pc, pids, watchVars, forwardVars, sent>>

Unwound ==
  /\ pc = "unwind" /\ todo = {}
  /\ Panicked
  /\ UNCHANGED <<got, todo, pids, watchVars, forwardVars, sent>>

-----------------------------------------------------------------------------
(* The monitor.                                                            *)

\* Its parent must be the primary process, which has lost its children once it has exited.
Verify ==
  /\ mpc = "verify"
  /\ table[Main] = "live"
  /\ mpc' = "notify"
  /\ UNCHANGED <<table, got, launcherVars, mtodo, tick, forwardVars, sent>>

VerifyFails ==
  /\ mpc = "verify"
  /\ table[Main] # "live"
  /\ MonitorEnds
  /\ UNCHANGED <<got, launcherVars, sent>>

\* From here on signals go to the channel, a goroutine forwards them, and a ticker runs.
ForwardSignals ==
  /\ mpc = "notify"
  /\ mpc' = "watch"
  /\ UNCHANGED <<table, got, launcherVars, mtodo, tick, forwardVars, sent>>

\* Somebody signals the monitor: before signal.Notify a SIGTERM ends it and others are
\* ignored, later what does not fit into the channel is dropped.
SignalArrives(s) ==
  /\ table[Mon] = "live"
  /\ sent' = sent \cup {s}
  /\ \/ /\ mpc \in {"verify", "notify"} /\ s = Term
        /\ MonitorEnds
     \/ /\ mpc \in {"verify", "notify"} /\ s # Term
        /\ UNCHANGED <<table, watchVars, forwardVars>>
     \/ /\ mpc \in {"watch", "cleanup"}
        /\ queue' = IF Len(queue) < QCap THEN Append(queue, s) ELSE queue
        /\ UNCHANGED <<table, watchVars, sig, ftodo>>
  /\ UNCHANGED <<got, launcherVars>>

Forwarding == mpc \in {"watch", "cleanup"}

\* Mutant: signals are passed on to the primary process alone.
TakeSignalForPrimary ==
  /\ Forwarding /\ ftodo = {} /\ queue # <<>>
  /\ sig' = Head(queue)
  /\ queue' = Tail(queue)
  /\ ftodo' = {Main}
  /\ UNCHANGED <<table, got, launcherVars, watchVars, sent>>

TakeSignal ==
  /\ Forwarding /\ ftodo = {} /\ queue # <<>>
  /\ sig' = Head(queue)
  /\ queue' = Tail(queue)
  /\ ftodo' = {Main} \cup pids
  /\ UNCHANGED <<table, got, launcherVars, watchVars, sent>>

\* The primary process first, then each subProcess.
Forward(x) ==
  /\ Forwarding /\ x \in ftodo
  /\ Main \in ftodo => x = Main
  /\ SignalPid(x, sig)
  /\ ftodo' = ftodo \ {x}
  /\ UNCHANGED <<table, launcherVars, watchVars, queue, sig, sent>>

CheckPeriodPasses ==
  /\ mpc = "watch"
  /\ tick' = TRUE
  /\ UNCHANGED <<table, got, launcherVars, mpc, mtodo, forwardVars, sent>>

PrimaryAlive ==
  /\ mpc = "watch" /\ tick
  /\ IsPidAlive(Main)
  /\ tick' = FALSE
  /\ UNCHANGED <<table, got, launcherVars, mpc, mtodo, forwardVars, sent>>

\* Mutant: the loop is left after the first tick, whatever the check has said.
PrimaryTakenForDead ==
  /\ mpc = "watch" /\ tick
  /\ tick' = FALSE
  /\ mpc' = "cleanup"
  /\ mtodo' = pids
  /\ UNCHANGED <<table, got, launcherVars, forwardVars, sent>>

PrimaryDead ==
  /\ mpc = "watch" /\ tick
  /\ ~IsPidAlive(Main)
  /\ tick' = FALSE
  /\ mpc' = "cleanup"
  /\ mtodo' = pids
  /\ UNCHANGED <<table, got, launcherVars, forwardVars, sent>>

\* Mutant: what was forwarded last is sent once more, instead of a SIGTERM.
RepeatToSubProcess(s) ==
  /\ mpc = "cleanup" /\ s \in mtodo
  /\ SignalPid(s, sig)
  /\ mtodo' = mtodo \ {s}
  /\ UNCHANGED <<table, launcherVars, mpc, tick, forwardVars, sent>>

TermSubProcess(s) ==
  /\ mpc = "cleanup" /\ s \in mtodo
  /\ SignalPid(s, Term)
  /\ mtodo' = mtodo \ {s}
  /\ UNCHANGED <<table, launcherVars, mpc, tick, forwardVars, sent>>

MonitorReturns ==
  /\ mpc = "cleanup" /\ mtodo = {}
  /\ MonitorEnds
  /\ UNCHANGED <<got, launcherVars, sent>>

-----------------------------------------------------------------------------

Launch == \/ Compile \/ StartMonitor \/ Exec \/ Unwound
          \/ \E s \in Subs : StartSub(s) \/ KillSubProcess(s)

Watch == \/ Verify \/ VerifyFails \/ ForwardSignals \/ PrimaryAlive \/ PrimaryDead
         \/ MonitorReturns
         \/ \E s \in Subs : TermSubProcess(s)

ForwardNext == TakeSignal \/ \E x \in Procs : Forward(x)

Environment ==
  \/ ServiceExits \/ LauncherKilled \/ MonitorKilled \/ CompileFails \/ StartFails
  \/ \E s \in Subs : SubExits(s)
  \/ \E s \in Sigs : SignalArrives(s)
  \/ \E x \in Procs : Reap(x) \/ PidReused(x) \/ StrangerExits(x)

Next == Launch \/ Watch \/ ForwardNext \/ CheckPeriodPasses \/ Environment

Spec == Init /\ [][Next]_vars

\* Each thread that can go on does, the ticker ticks, and whoever started the launcher reaps
\* it.  Nobody has to exit, and the processes of others need not be reaped.
Fairness ==
  /\ WF_vars(Launch) /\ WF_vars(Watch) /\ WF_vars(ForwardNext) /\ WF_vars(CheckPeriodPasses)
  /\ WF_vars(Reap(Main))

FairSpec == Spec /\ Fairness

-----------------------------------------------------------------------------
(* Properties.                                                             *)

Termed(s) == table[s] # "live" \/ Term \in got[s]

\* main.go:125: when the launcher has given up because of an error, be it before or after
\* the monitor was started, every subProcess it had started is dead or was sent a SIGTERM.
NoLeakOnError == pc = "panicked" => \A s \in Subs : Termed(s)

\* While the service runs, the launcher's and the monitor's clean-up stay away from it and
\* its subProcesses: a SIGTERM reaches them only if somebody sent one to the monitor.
NoFriendlyFire ==
  pc = "service" => \A x \in Procs : Term \in got[x] => Term \in sent

\* monitor.go:78: a subProcess that the monitor has no longer to terminate, because it has
\* seen to it or because it has never heard of it, is dead or was sent a SIGTERM.
CleanUpComplete == mpc = "cleanup" => \A s \in Subs \ mtodo : Termed(s)

\* When the last of the group has been seen to, each of it that lives has got the signal,
\* unless the monitor has ended meanwhile (monitor.go:55).
ForwardedToAll ==
  [][ftodo # {} /\ ftodo' = {} /\ mpc' # "ended" =>
       \A x \in {Main} \cup Subs : table[x] = "live" => sig \in got'[x]]_vars

\* The inductive invariant behind them.  A subProcess that is alive is on the launcher's
\* list, which the monitor is given complete; whoever unwinds or cleans up has signalled those
\* it has ticked off, and so has whoever forwards; while the launcher lives, or
\* the service it has become, the monitor does not clean up; and what the monitor forwards is
\* what it was sent.
IInv ==
  /\ TypeOK
  /\ \A s \in Subs : table[s] = "live" => s \in pids
  /\ pc = "compile" => pids = {}
  /\ pc \in {"compile", "spawn"} => mpc = "off" /\ table[Mon] = "unborn"
  /\ mpc = "off" => ftodo = {}
  /\ \A x \in {Main} \cup pids : ftodo # {} /\ x \notin ftodo /\ table[x] = "live" => sig \in got[x]
  /\ CleanUpComplete
  /\ pc = "unwind" => \A s \in pids \ todo : Termed(s)
  /\ NoLeakOnError
  /\ pc \notin {"panicked", "ended"} => table[Main] = "live" /\ mpc # "cleanup"
  /\ queue \in Seq(sent) /\ (ftodo # {} => sig \in sent)
  /\ pc \in {"compile", "spawn", "exec", "service"} =>
       \A x \in Procs : Term \in got[x] => Term \in sent

-----------------------------------------------------------------------------
(* The launcher and its monitor as Group sees them.                        *)

Stage ==
  CASE pc \in {"compile", "spawn", "exec"} -> "starting"
    [] pc = "unwind"                       -> "failing"
    [] pc = "panicked"                     -> "failed"
    [] pc = "service"                      -> "up"
    [] pc = "ended"                        -> "over"

Keeper ==
  CASE mpc = "off"                 -> "none"
    [] mpc \in {"verify", "notify"} -> "coming"
    [] mpc = "watch"               -> "watching"
    [] mpc = "cleanup"             -> "clearing"
    [] mpc = "ended"               -> "gone"

Promise == INSTANCE Group WITH
  Primary <- Main,
  MayDie  <- "kill" \in Faults,
  stage   <- Stage,
  joined  <- pids,
  alive   <- {x \in Subs \cup {Main} : table[x] = "live"},
  told    <- {x \in Subs \cup {Main} : Term \in got[x]},
  asked   <- Term \in sent,
  keeper  <- Keeper

\* README.md:135: the launcher and its monitor implement Group.  Each start, exit and SIGTERM
\* is a step that Group allows, and what they do with lists, ticks, pids that are reused and
\* other signals is not seen from outside.
ImplementsGroup == Promise!Spec

-----------------------------------------------------------------------------
(* Liveness.                                                               *)

\* Once the monitor watches, the death of the service or the launcher is followed by a SIGTERM
\* to each subProcess, however many signals it has to forward meanwhile, or by a SIGTERM of
\* somebody else's to the same effect (TermProcessGroupOnDeath).  A monitor that has verified its
\* parent gets that far, whatever signals it is sent before signal.Notify, except SIGTERM.  A
\* zombie or a stranger that answers at the pid of the dead puts all that off, for as often and as
\* long as there is one, and no longer.
GroupDies ==
  <>[](table[Main] = "gone") =>
    \A s \in Subs :
      /\ (mpc = "watch" /\ pc \in {"ended", "panicked"}) ~> Termed(s)
      /\ (mpc = "notify" /\ pc \in {"ended", "panicked"}) ~> (Termed(s) \/ Term \in sent)

\* A signal that got into the channel reaches the primary process and every subProcess
\* that live long enough, unless the monitor ends first (ForwardSignals).
SignalsForwarded ==
  \A s \in Sigs, x \in Procs \ {Mon} :
    (\E k \in 1..Len(queue) : queue[k] = s) ~>
      (table[x] # "live" \/ s \in got[x] \/ mpc = "ended")

\* README.md:135, "a monitor subProcess will be launched, which terminates the group, should
\* the main process die": not if it dies before the monitor has looked at its parent, even
\* if nobody has signalled the monitor.
MainDeathEndsGroup ==
  \A s \in Subs : (pc = "ended") ~> (Termed(s) \/ sent # {})

=============================================================================
