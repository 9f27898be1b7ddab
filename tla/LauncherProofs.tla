--------------------------- MODULE LauncherProofs ---------------------------
(***************************************************************************)
(* Theorems about Launcher for any number of subProcesses, any signals,    *)
(* any capacity of the channel and all faults, with proofs for TLAPS: the  *)
(* inductive invariant, what follows from it, and that Launcher implements *)
(* Group.                                                                  *)
(***************************************************************************)
EXTENDS Launcher, SequenceTheorems, TLAPS

\* The parts of the invariant that a step of one process can disturb.
Listed   == /\ \A s \in Subs : table[s] = "live" => s \in pids
            /\ pc = "compile" => pids = {}
Unwinds  == /\ pc = "unwind" => \A s \in pids \ todo : Termed(s)
            /\ NoLeakOnError
MainUp   == pc \notin {"panicked", "ended"} => table[Main] = "live" /\ mpc # "cleanup"
Complete == /\ pc \in {"compile", "spawn"} => mpc = "off" /\ table[Mon] = "unborn"
            /\ mpc = "off" => ftodo = {}
Reached  == \A x \in {Main} \cup pids :
              ftodo # {} /\ x \notin ftodo /\ table[x] = "live" => sig \in got[x]
Signals  == queue \in Seq(sent) /\ (ftodo # {} => sig \in sent)
Spared   == pc \in {"compile", "spawn", "exec", "service"} =>
              \A x \in Procs : Term \in got[x] => Term \in sent

LEMMA IInvParts ==
  ASSUME TypeOK', Listed', Unwinds', Complete', Reached', CleanUpComplete', MainUp', Signals',
         Spared'
  PROVE  IInv'
  BY DEF IInv, Listed, Unwinds, Complete, Reached, MainUp, Signals, Spared

LEMMA ProcFacts ==
  /\ Main \in Procs /\ Mon \in Procs /\ Main # Mon
  /\ \A s \in Subs : s \in Procs /\ s # Main /\ s # Mon
  /\ \A x \in Procs : x = Main \/ x = Mon \/ x \in Subs
  BY ConstantsAssumption DEF Procs

\* A sequence over a set is one over every larger set.
LEMMA SeqGrows ==
  ASSUME NEW S, NEW T, S \subseteq T, NEW q \in Seq(S)
  PROVE  q \in Seq(T)
  <1>1. Len(q) \in Nat /\ q \in [1..Len(q) -> S]
    BY LenProperties
  <1>2. q \in [1..Len(q) -> T]
    BY <1>1
  <1>3. QED  BY <1>1, <1>2, SeqDef

LEMMA InitIInv == Init => IInv
  <1> SUFFICES ASSUME Init PROVE IInv
    OBVIOUS
  <1>1. <<>> \in Seq(Sigs) /\ <<>> \in Seq(sent) /\ Len(<<>>) = 0
    BY EmptySeq
  <1>2. TypeOK
    <2>1. queue \in Seq(Sigs) /\ Len(queue) <= QCap
      BY <1>1, ConstantsAssumption DEF Init
    <2>2. QED  BY <2>1, ConstantsAssumption, ProcFacts DEF Init, TypeOK
  <1>3. \A s \in Subs : table[s] # "live"
    BY ProcFacts DEF Init
  <1>4. \A x \in Procs : got[x] = {}
    BY DEF Init
  <1>5. QED
    BY <1>1, <1>2, <1>3, <1>4, ProcFacts
    DEF Init, IInv, NoLeakOnError, CleanUpComplete, Termed

\* A live process becomes something else, which frees nobody from a SIGTERM.
LEMMA DeathKept ==
  ASSUME IInv, NEW x \in Procs, x # Main, table[x] # "unborn",
         NEW st \in {"zombie", "gone", "stranger"}, Becomes(x, st),
         UNCHANGED <<got, launcherVars, watchVars, forwardVars, sent>>
  PROVE  IInv'
  <1> USE ProcFacts DEF IInv, TypeOK, Becomes, launcherVars, watchVars, forwardVars
  <1>1. TypeOK'
    OBVIOUS
  <1>2. \A y \in Procs : table'[y] = "live" => table[y] = "live"
    OBVIOUS
  <1>3. Listed' /\ Complete'
    BY <1>2 DEF Listed, Complete
  <1>4. Unwinds' /\ CleanUpComplete' /\ Reached'
    BY <1>2 DEF Unwinds, NoLeakOnError, CleanUpComplete, Reached, Termed
  <1>5. MainUp'
    BY DEF MainUp
  <1>6. Signals' /\ Spared'
    BY DEF Signals, Spared
  <1>7. QED  BY <1>1, <1>3, <1>4, <1>5, <1>6, IInvParts

\* Main dies as "panicked" or "ended".
LEMMA MainDeathKept ==
  ASSUME IInv, Becomes(Main, "zombie"), pc' \in {"panicked", "ended"},
         pc' = "panicked" => \A s \in Subs : Termed(s),
         UNCHANGED <<got, todo, pids, watchVars, forwardVars, sent>>
  PROVE  IInv'
  <1> USE ProcFacts DEF IInv, TypeOK, Becomes, watchVars, forwardVars
  <1>1. TypeOK'
    OBVIOUS
  <1>2. \A y \in Procs : table'[y] = "live" => table[y] = "live"
    OBVIOUS
  <1>3. Listed' /\ Unwinds' /\ CleanUpComplete' /\ Reached'
    BY <1>2 DEF Listed, Unwinds, NoLeakOnError, CleanUpComplete, Reached, Termed
  <1>4. Complete' /\ MainUp' /\ Signals' /\ Spared'
    BY DEF Complete, MainUp, Signals, Spared
  <1>5. QED  BY <1>1, <1>3, <1>4, IInvParts

\* The monitor ends.
LEMMA MonitorEndKept ==
  ASSUME IInv, mpc # "off" \/ table[Mon] # "unborn", MonitorEnds, UNCHANGED <<got, launcherVars>>,
         sent \subseteq sent', sent' \subseteq Sigs
  PROVE  IInv'
  <1> USE ProcFacts DEF IInv, TypeOK, Becomes, MonitorEnds, launcherVars
  <1>1. TypeOK'
    <2>1. <<>> \in Seq(Sigs) /\ Len(<<>>) = 0
      BY EmptySeq
    <2>2. queue' \in Seq(Sigs) /\ Len(queue') <= QCap
      BY <2>1, ConstantsAssumption
    <2>3. QED  BY <2>2
  <1>2. \A y \in Procs : table'[y] = "live" => table[y] = "live"
    OBVIOUS
  <1>3. Listed' /\ Unwinds' /\ CleanUpComplete' /\ Reached'
    BY <1>2 DEF Listed, Unwinds, NoLeakOnError, CleanUpComplete, Reached, Termed
  <1>4. Complete' /\ MainUp' /\ Spared'
    BY DEF Complete, MainUp, Spared
  <1>5. Signals'
    BY EmptySeq DEF Signals
  <1>6. QED  BY <1>1, <1>3, <1>4, <1>5, IInvParts

LEMMA EnvironmentKept ==
  ASSUME IInv, Environment
  PROVE  IInv'
  <1> USE ProcFacts
  <1>1. ASSUME NEW s \in Subs, SubExits(s) PROVE IInv'
    BY <1>1, DeathKept DEF SubExits
  <1>2. CASE ServiceExits
    BY <1>2, MainDeathKept DEF ServiceExits
  <1>3. CASE LauncherKilled
    BY <1>3, MainDeathKept DEF LauncherKilled
  <1>4. CASE MonitorKilled
    <2>1. sent' = sent /\ sent \subseteq Sigs
      BY <1>4 DEF MonitorKilled, IInv, TypeOK
    <2>2. QED  BY <1>4, <2>1, MonitorEndKept DEF MonitorKilled
  <1>5. ASSUME NEW x \in Procs, Reap(x) \/ PidReused(x) \/ StrangerExits(x)
        PROVE  IInv'
    <2>1. CASE x # Main
      BY <1>5, <2>1, DeathKept DEF Reap, PidReused, StrangerExits
    <2>2. CASE x = Main
      <3>1. pc \in {"panicked", "ended"} /\ UNCHANGED <<pc, got, todo, pids, watchVars,
                                                        forwardVars, sent>>
        BY <1>5, <2>2 DEF IInv, TypeOK, Reap, PidReused, StrangerExits, launcherVars
      <3>2. \A y \in Procs : table'[y] = "live" => table[y] = "live"
        BY <1>5 DEF IInv, TypeOK, Reap, PidReused, StrangerExits, Becomes
      <3>3. TypeOK'
        BY <1>5, <3>1
        DEF IInv, TypeOK, Reap, PidReused, StrangerExits, Becomes, watchVars, forwardVars
      <3>4. Listed' /\ Unwinds' /\ CleanUpComplete' /\ Reached'
        BY <3>1, <3>2
        DEF IInv, TypeOK, Listed, Unwinds, NoLeakOnError, CleanUpComplete, Reached, Termed,
            watchVars, forwardVars
      <3>5. Complete' /\ MainUp' /\ Signals' /\ Spared'
        BY <3>1 DEF IInv, Complete, MainUp, Signals, Spared, watchVars, forwardVars
      <3>6. QED  BY <3>3, <3>4, <3>5, IInvParts
    <2>3. QED  BY <2>1, <2>2
  <1>6. CASE CompileFails
    <2>1. \A s \in Subs : Termed(s)
      BY <1>6 DEF CompileFails, IInv, Termed
    <2>2. QED  BY <1>6, <2>1, MainDeathKept DEF CompileFails, Panicked
  <1>7. CASE StartFails
    <2>1. TypeOK'
      BY <1>7 DEF StartFails, IInv, TypeOK, watchVars, forwardVars
    <2>2. Listed' /\ Unwinds' /\ Complete' /\ Reached' /\ CleanUpComplete'
          /\ MainUp' /\ Signals' /\ Spared'
      BY <1>7
      DEF StartFails, IInv, Listed, Unwinds, Complete, Reached, CleanUpComplete, MainUp,
          Signals, Spared, NoLeakOnError, Termed, watchVars, forwardVars
    <2>3. QED  BY <2>1, <2>2, IInvParts
  <1>8. ASSUME NEW s \in Sigs, SignalArrives(s) PROVE IInv'
    <2>1. sent \subseteq sent' /\ sent' \subseteq Sigs /\ s \in sent'
      BY <1>8 DEF SignalArrives, IInv, TypeOK
    <2>2. CASE MonitorEnds
      BY <1>8, <2>1, <2>2, MonitorEndKept DEF SignalArrives
    <2>3. CASE /\ queue' = queue \/ (Len(queue) < QCap /\ queue' = Append(queue, s))
               /\ UNCHANGED <<table, watchVars, sig, ftodo>>
      <3>1. queue' \in Seq(sent') /\ queue' \in Seq(Sigs) /\ Len(queue') <= QCap
        <4>1. queue \in Seq(sent') /\ queue \in Seq(Sigs) /\ Len(queue) <= QCap
          BY <2>1, SeqGrows DEF IInv, TypeOK
        <4>2. Append(queue, s) \in Seq(sent') /\ Append(queue, s) \in Seq(Sigs)
              /\ Len(Append(queue, s)) = Len(queue) + 1
          BY <2>1, <4>1, AppendProperties
        <4>3. QED  BY <2>3, <4>1, <4>2, ConstantsAssumption
      <3>2. TypeOK'
        BY <1>8, <2>1, <2>3, <3>1 DEF SignalArrives, IInv, TypeOK, launcherVars, watchVars
      <3>3. Listed' /\ Unwinds' /\ Complete' /\ Reached' /\ CleanUpComplete' /\ MainUp' /\ Spared'
        BY <1>8, <2>1, <2>3
        DEF SignalArrives, IInv, Listed, Unwinds, Complete, Reached, CleanUpComplete, MainUp,
            Spared, NoLeakOnError, Termed, launcherVars, watchVars
      <3>4. Signals'
        BY <2>1, <2>3, <3>1 DEF IInv, Signals
      <3>5. QED  BY <3>2, <3>3, <3>4, IInvParts
    <2>4. QED  BY <1>8, <2>2, <2>3 DEF SignalArrives, forwardVars
  <1>9. QED
    BY <1>1, <1>2, <1>3, <1>4, <1>5, <1>6, <1>7, <1>8 DEF Environment

\* A signal is sent to one of the group: nobody loses a SIGTERM by it.
LEMMA SignalGot ==
  ASSUME TypeOK, NEW x \in Procs, NEW s \in Sigs, SignalPid(x, s)
  PROVE  /\ got' \in [Procs -> SUBSET Sigs]
         /\ \A y \in Procs : got[y] \subseteq got'[y]
         /\ \A y \in Procs : got'[y] \subseteq got[y] \cup {s}
         /\ table[x] = "live" => s \in got'[x]
  BY DEF TypeOK, SignalPid

LEMMA LaunchKept ==
  ASSUME IInv, Launch
  PROVE  IInv'
  <1> USE ProcFacts
  <1>1. CASE Compile
    <2>1. TypeOK'
      BY <1>1 DEF Compile, IInv, TypeOK, watchVars, forwardVars
    <2>2. Listed' /\ Unwinds' /\ Complete' /\ Reached' /\ CleanUpComplete'
          /\ MainUp' /\ Signals' /\ Spared'
      BY <1>1
      DEF Compile, IInv, Listed, Unwinds, Complete, Reached, CleanUpComplete, MainUp, Signals,
          Spared, NoLeakOnError, Termed, watchVars, forwardVars
    <2>3. QED  BY <2>1, <2>2, IInvParts
  <1>2. ASSUME NEW s \in Subs, StartSub(s) PROVE IInv'
    <2>1. TypeOK'
      BY <1>2 DEF StartSub, IInv, TypeOK, Becomes, watchVars, forwardVars
    <2>2. Listed' /\ Unwinds' /\ Complete' /\ Reached' /\ CleanUpComplete'
          /\ MainUp' /\ Signals' /\ Spared'
      BY <1>2
      DEF StartSub, IInv, TypeOK, Listed, Unwinds, Complete, Reached, CleanUpComplete, MainUp,
          Signals, Spared, NoLeakOnError, Termed, Becomes, watchVars, forwardVars
    <2>3. QED  BY <2>1, <2>2, IInvParts
  <1>3. CASE StartMonitor
    <2>1. TypeOK'
      BY <1>3 DEF StartMonitor, IInv, TypeOK, Becomes, forwardVars
    <2>2. Listed' /\ Unwinds' /\ Complete' /\ Reached' /\ CleanUpComplete'
          /\ MainUp' /\ Signals' /\ Spared'
      BY <1>3
      DEF StartMonitor, IInv, TypeOK, Listed, Unwinds, Complete, Reached, CleanUpComplete,
          MainUp, Signals, Spared, NoLeakOnError, Termed, Becomes, forwardVars
    <2>3. QED  BY <2>1, <2>2, IInvParts
  <1>4. CASE Exec
    <2>1. TypeOK'
      BY <1>4 DEF Exec, IInv, TypeOK, watchVars, forwardVars
    <2>2. Listed' /\ Unwinds' /\ Complete' /\ Reached' /\ CleanUpComplete'
          /\ MainUp' /\ Signals' /\ Spared'
      BY <1>4
      DEF Exec, IInv, Listed, Unwinds, Complete, Reached, CleanUpComplete, MainUp, Signals,
          Spared, NoLeakOnError, Termed, watchVars, forwardVars
    <2>3. QED  BY <2>1, <2>2, IInvParts
  <1>5. ASSUME NEW s \in Subs, KillSubProcess(s) PROVE IInv'
    <2>1. /\ got' \in [Procs -> SUBSET Sigs]
          /\ \A y \in Procs : got[y] \subseteq got'[y]
          /\ table[s] = "live" => Term \in got'[s]
      BY <1>5, SignalGot, ConstantsAssumption DEF KillSubProcess, IInv
    <2>2. TypeOK'
      BY <1>5, <2>1 DEF KillSubProcess, IInv, TypeOK, watchVars, forwardVars
    <2>3. Listed' /\ Unwinds' /\ Complete' /\ Reached' /\ CleanUpComplete'
          /\ MainUp' /\ Signals' /\ Spared'
      BY <1>5, <2>1
      DEF KillSubProcess, IInv, TypeOK, Listed, Unwinds, Complete, Reached, CleanUpComplete,
          MainUp, Signals, Spared, NoLeakOnError, Termed, watchVars, forwardVars
    <2>4. QED  BY <2>2, <2>3, IInvParts
  <1>6. CASE Unwound
    <2>1. \A s \in Subs : Termed(s)
      BY <1>6 DEF Unwound, IInv, Termed
    <2>2. QED  BY <1>6, <2>1, MainDeathKept DEF Unwound, Panicked
  <1>7. QED
    BY <1>1, <1>2, <1>3, <1>4, <1>5, <1>6 DEF Launch

LEMMA WatchKept ==
  ASSUME IInv, Watch
  PROVE  IInv'
  <1> USE ProcFacts
  <1>1. CASE VerifyFails \/ MonitorReturns
    <2>1. sent' = sent /\ sent \subseteq Sigs
      BY <1>1 DEF VerifyFails, MonitorReturns, IInv, TypeOK
    <2>2. QED  BY <1>1, <2>1, MonitorEndKept DEF VerifyFails, MonitorReturns
  <1>2. CASE Verify \/ ForwardSignals \/ PrimaryAlive
    <2>1. TypeOK'
      BY <1>2 DEF Verify, ForwardSignals, PrimaryAlive, IInv, TypeOK, launcherVars, forwardVars
    <2>2. Listed' /\ Unwinds' /\ Complete' /\ Reached' /\ CleanUpComplete'
          /\ MainUp' /\ Signals' /\ Spared'
      BY <1>2
      DEF Verify, ForwardSignals, PrimaryAlive, IInv, Listed, Unwinds, Complete, Reached,
          CleanUpComplete, MainUp, Signals, Spared, NoLeakOnError, Termed, launcherVars,
          forwardVars
    <2>3. QED  BY <2>1, <2>2, IInvParts
  <1>3. CASE PrimaryDead
    <2>1. TypeOK'
      BY <1>3 DEF PrimaryDead, IInv, TypeOK, launcherVars, forwardVars
    <2>2. pc \in {"panicked", "ended"}
      BY <1>3 DEF PrimaryDead, IInv, IsPidAlive
    <2>3. Listed' /\ Unwinds' /\ Complete' /\ Reached' /\ CleanUpComplete'
          /\ MainUp' /\ Signals' /\ Spared'
      BY <1>3, <2>2
      DEF PrimaryDead, IInv, Listed, Unwinds, Complete, Reached, CleanUpComplete, MainUp,
          Signals, Spared, NoLeakOnError, Termed, launcherVars, forwardVars
    <2>4. QED  BY <2>1, <2>3, IInvParts
  <1>4. ASSUME NEW s \in Subs, TermSubProcess(s) PROVE IInv'
    <2>1. /\ got' \in [Procs -> SUBSET Sigs]
          /\ \A y \in Procs : got[y] \subseteq got'[y]
          /\ table[s] = "live" => Term \in got'[s]
      BY <1>4, SignalGot, ConstantsAssumption DEF TermSubProcess, IInv
    <2>2. TypeOK'
      BY <1>4, <2>1 DEF TermSubProcess, IInv, TypeOK, launcherVars, forwardVars
    <2>3. pc \in {"panicked", "ended"}
      BY <1>4 DEF TermSubProcess, IInv
    <2>4. Listed' /\ Unwinds' /\ Complete' /\ MainUp' /\ Signals' /\ Spared'
      BY <1>4, <2>1, <2>3
      DEF TermSubProcess, IInv, TypeOK, Listed, Unwinds, Complete, MainUp, Signals, Spared,
          NoLeakOnError, Termed, launcherVars, forwardVars
    <2>5. Reached'
      BY <1>4, <2>1 DEF TermSubProcess, IInv, TypeOK, Reached, launcherVars, forwardVars
    <2>6. CleanUpComplete'
      BY <1>4, <2>1 DEF TermSubProcess, IInv, TypeOK, CleanUpComplete, Termed
    <2>7. QED  BY <2>2, <2>4, <2>5, <2>6, IInvParts
  <1>5. QED
    BY <1>1, <1>2, <1>3, <1>4 DEF Watch

LEMMA ForwardKept ==
  ASSUME IInv, ForwardNext \/ CheckPeriodPasses
  PROVE  IInv'
  <1> USE ProcFacts
  <1>1. CASE TakeSignal
    <2>1. /\ Head(queue) \in sent /\ Head(queue) \in Sigs
          /\ Tail(queue) \in Seq(sent) /\ Tail(queue) \in Seq(Sigs)
          /\ Len(Tail(queue)) <= QCap
      <3>1. queue \in Seq(sent) /\ queue \in Seq(Sigs) /\ queue # <<>> /\ Len(queue) <= QCap
        BY <1>1 DEF TakeSignal, IInv, TypeOK
      <3>2. QED  BY <3>1, HeadTailProperties, ConstantsAssumption
    <2>2. TypeOK'
      BY <1>1, <2>1 DEF TakeSignal, IInv, TypeOK, launcherVars, watchVars
    <2>3. Listed' /\ Unwinds' /\ Complete' /\ Reached' /\ CleanUpComplete'
          /\ MainUp' /\ Signals' /\ Spared'
      BY <1>1, <2>1
      DEF TakeSignal, Forwarding, IInv, TypeOK, Listed, Unwinds, Complete, Reached,
          CleanUpComplete, MainUp, Signals, Spared, NoLeakOnError, Termed, launcherVars,
          watchVars
    <2>4. QED  BY <2>2, <2>3, IInvParts
  <1>2. ASSUME NEW x \in Procs, Forward(x) PROVE IInv'
    <2>1. /\ got' \in [Procs -> SUBSET Sigs]
          /\ \A y \in Procs : got[y] \subseteq got'[y] /\ got'[y] \subseteq got[y] \cup {sig}
          /\ sig \in sent /\ (table[x] = "live" => sig \in got'[x])
      BY <1>2, SignalGot DEF Forward, IInv, TypeOK
    <2>2. TypeOK'
      BY <1>2, <2>1 DEF Forward, IInv, TypeOK, launcherVars, watchVars
    <2>3. Listed' /\ Unwinds' /\ Complete' /\ MainUp' /\ Signals'
      BY <1>2, <2>1
      DEF Forward, Forwarding, IInv, TypeOK, Listed, Unwinds, Complete, MainUp, Signals,
          NoLeakOnError, Termed, launcherVars, watchVars
    <2>4. Reached' /\ CleanUpComplete'
      BY <1>2, <2>1
      DEF Forward, IInv, TypeOK, Reached, CleanUpComplete, Termed, launcherVars, watchVars
    <2>5. Spared'
      BY <1>2, <2>1 DEF Forward, IInv, TypeOK, Spared, launcherVars
    <2>6. QED  BY <2>2, <2>3, <2>4, <2>5, IInvParts
  <1>3. CASE CheckPeriodPasses
    <2>1. TypeOK'
      BY <1>3 DEF CheckPeriodPasses, IInv, TypeOK, launcherVars, forwardVars
    <2>2. Listed' /\ Unwinds' /\ Complete' /\ Reached' /\ CleanUpComplete'
          /\ MainUp' /\ Signals' /\ Spared'
      BY <1>3
      DEF CheckPeriodPasses, IInv, Listed, Unwinds, Complete, Reached, CleanUpComplete, MainUp,
          Signals, Spared, NoLeakOnError, Termed, launcherVars, forwardVars
    <2>3. QED  BY <2>1, <2>2, IInvParts
  <1>4. QED
    BY <1>1, <1>2, <1>3 DEF ForwardNext

\* The inductive invariant of the launcher and its monitor.
THEOREM BookIsKept == Spec => []IInv
  <1>1. IInv /\ UNCHANGED vars => IInv'
    BY DEF vars, IInv, TypeOK, NoLeakOnError, CleanUpComplete, Termed
  <1>2. IInv /\ Next => IInv'
    BY LaunchKept, WatchKept, ForwardKept, EnvironmentKept DEF Next
  <1>3. QED  BY <1>1, <1>2, InitIInv, PTL DEF Spec

\* Every variable keeps its type, and the channel of signals its capacity.
THEOREM TypeCorrect == Spec => []TypeOK
  <1>1. IInv => TypeOK
    BY DEF IInv
  <1>2. QED  BY <1>1, BookIsKept, PTL

\* However many subProcesses there are, and whichever of them, the monitor or the exec fails:
\* a launcher that panics leaves none behind without a SIGTERM.
THEOREM ErrorLeaksNothing == Spec => []NoLeakOnError
  <1>1. IInv => NoLeakOnError
    BY DEF IInv
  <1>2. QED  BY <1>1, BookIsKept, PTL

\* While the service runs, neither clean-up signals it or its subProcesses.
THEOREM ServiceIsSpared == Spec => []NoFriendlyFire
  <1>1. IInv => NoFriendlyFire
    BY DEF IInv, NoFriendlyFire
  <1>2. QED  BY <1>1, BookIsKept, PTL

\* Whoever the monitor has no longer to terminate is dead or was sent a SIGTERM.
THEOREM CleanUpIsComplete == Spec => []CleanUpComplete
  <1>1. IInv => CleanUpComplete
    BY DEF IInv
  <1>2. QED  BY <1>1, BookIsKept, PTL

\* Whoever of the group is alive when the last of it has been seen to has got the signal.
THEOREM SignalsReachTheGroup == Spec => ForwardedToAll
  <1> DEFINE Step == ftodo # {} /\ ftodo' = {} /\ mpc' # "ended" =>
                       \A x \in {Main} \cup Subs : table[x] = "live" => sig \in got'[x]
  <1>1. IInv /\ [Next]_vars => [Step]_vars
    <2> SUFFICES ASSUME IInv, Next, ftodo # {}, ftodo' = {}, mpc' # "ended",
                        NEW x \in {Main} \cup Subs, table[x] = "live"
                 PROVE  sig \in got'[x]
      OBVIOUS
    <2>1. PICK y \in Procs : Forward(y)
      <3>1. ~MonitorEnds
        BY DEF MonitorEnds
      <3>2. UNCHANGED ftodo \/ TakeSignal \/ \E y \in Procs : Forward(y)
        BY <3>1
        DEF Next, Launch, Watch, ForwardNext, CheckPeriodPasses, Environment, Compile, StartSub,
            StartMonitor, Exec, KillSubProcess, Unwound, Verify, VerifyFails, ForwardSignals,
            PrimaryAlive, PrimaryDead, TermSubProcess, MonitorReturns, ServiceExits,
            LauncherKilled, MonitorKilled, CompileFails, StartFails, SubExits, SignalArrives,
            Reap, PidReused, StrangerExits, forwardVars
      <3>3. ~TakeSignal
        BY DEF TakeSignal
      <3> QED  BY <3>2, <3>3
    <2>2. /\ \A z \in Procs : got[z] \subseteq got'[z]
          /\ table[y] = "live" => sig \in got'[y]
      BY <2>1, SignalGot DEF Forward, IInv, TypeOK
    <2>3. CASE x = y
      BY <2>2, <2>3
    <2>4. CASE x # y
      <3>1. x \notin ftodo /\ x \in {Main} \cup pids /\ x \in Procs
        BY <2>1, <2>4, ProcFacts DEF Forward, IInv
      <3>2. sig \in got[x]
        BY <3>1 DEF IInv
      <3> QED  BY <2>2, <3>1, <3>2
    <2> QED  BY <2>3, <2>4
  <1> QED  BY <1>1, BookIsKept, PTL DEF Spec, ForwardedToAll

-----------------------------------------------------------------------------
(* The launcher and its monitor implement Group.                           *)

\* What Group sees of the group.
Alive == {x \in Subs \cup {Main} : table[x] = "live"}
Told  == {x \in Subs \cup {Main} : Term \in got[x]}
Seen  == <<Stage, pids, Alive, Told, Term \in sent, Keeper>>

\* What it needs to know besides: which subProcesses have been started, that the monitor comes
\* before the exec and does not live before that, and that a launcher or service that has ended
\* stays dead.
Started ==
  /\ pc = "spawn" => pids = Subs \ todo
  /\ pc \in {"exec", "service"} /\ Subs # {} => mpc # "off"
  /\ mpc = "off" => table[Mon] = "unborn"
  /\ pc \in {"panicked", "ended"} => table[Main] # "live"

LEMMA StartedKept ==
  ASSUME IInv, Started, [Next]_vars
  PROVE  Started'
  <1> USE ProcFacts DEF Started, IInv, TypeOK
  <1>1. CASE Launch
    BY <1>1
    DEF Launch, Compile, StartSub, StartMonitor, Exec, KillSubProcess, Unwound, Panicked, Becomes,
        watchVars
  <1>2. CASE Watch
    BY <1>2
    DEF Watch, Verify, VerifyFails, ForwardSignals, PrimaryAlive, PrimaryDead, TermSubProcess,
        MonitorReturns, MonitorEnds, Becomes, launcherVars
  <1>3. CASE ForwardNext \/ CheckPeriodPasses
    BY <1>3 DEF ForwardNext, TakeSignal, Forward, CheckPeriodPasses, launcherVars, watchVars
  <1>4. CASE Environment
    BY <1>4
    DEF Environment, ServiceExits, LauncherKilled, MonitorKilled, CompileFails, Panicked,
        StartFails, SubExits, SignalArrives, Reap, PidReused, StrangerExits, MonitorEnds, Becomes,
        launcherVars, watchVars
  <1>5. CASE UNCHANGED vars
    BY <1>5 DEF vars
  <1> QED
    BY <1>1, <1>2, <1>3, <1>4, <1>5 DEF Next

LEMMA StartedHolds == Spec => []Started
  <1>1. Init => Started
    BY ProcFacts DEF Init, Started
  <1> QED
    BY <1>1, StartedKept, BookIsKept, PTL DEF Spec

LEMMA Unseen ==
  ASSUME UNCHANGED Seen
  PROVE  UNCHANGED Promise!vars
  BY DEF Seen, Alive, Told, Promise!vars

\* A pid that stands for a live process stands for something else, or never stood for one.
LEMMA AliveLoses ==
  ASSUME TypeOK, NEW x \in Procs, NEW st, st # "live", Becomes(x, st)
  PROVE  Alive' = Alive \ {x}
  <1>1. \A y \in Subs \cup {Main} : (table'[y] = "live") <=> (table[y] = "live" /\ y # x)
    BY ProcFacts DEF TypeOK, Becomes
  <1> QED
    BY <1>1 DEF Alive

\* Only a SIGTERM to a live member tells it something that Group hears.
LEMMA ToldGains ==
  ASSUME TypeOK, NEW x \in Procs, NEW s \in Sigs, SignalPid(x, s)
  PROVE  \/ s = Term /\ x \in Alive /\ Told' = Told \cup {x}
         \/ Told' = Told
  <1> USE ProcFacts DEF TypeOK, SignalPid, Alive, Told
  <1>1. CASE s = Term /\ x \in Alive
    <2>1. \A y \in Subs \cup {Main} : (Term \in got'[y]) <=> (Term \in got[y] \/ y = x)
      BY <1>1
    <2> QED  BY <1>1, <2>1
  <1>2. CASE ~(s = Term /\ x \in Alive)
    <2>1. \A y \in Subs \cup {Main} : (Term \in got'[y]) <=> (Term \in got[y])
      BY <1>2
    <2> QED  BY <2>1
  <1> QED
    BY <1>1, <1>2

\* The launcher.
LEMMA LaunchImplements ==
  ASSUME IInv, Started, Launch
  PROVE  [Promise!Next]_Promise!vars
  <1> USE ProcFacts DEF IInv, Stage, Keeper, watchVars, forwardVars
  <1>1. CASE Compile
    <2>1. UNCHANGED Seen
      BY <1>1 DEF Compile, Seen, Alive, Told
    <2> QED  BY <2>1, Unseen
  <1>2. ASSUME NEW s \in Subs, StartSub(s) PROVE Promise!Join(s)
    <2>1. Alive' = Alive \cup {s}
      <3>1. \A y \in Subs \cup {Main} : (table'[y] = "live") <=> (table[y] = "live" \/ y = s)
        BY <1>2 DEF StartSub, Becomes, TypeOK
      <3> QED  BY <3>1 DEF Alive
    <2>2. s \in Subs \ pids /\ pids' = pids \cup {s} /\ Stage = "starting" /\ Keeper = "none"
      BY <1>2 DEF StartSub, Started
    <2>3. UNCHANGED <<Stage, Told, sent, Keeper>>
      BY <1>2 DEF StartSub, Told
    <2> QED  BY <2>1, <2>2, <2>3 DEF Promise!Join, Alive, Told
  <1>3. CASE StartMonitor
    <2>1. pids = Subs /\ Stage = "starting" /\ Keeper = "none"
      BY <1>3 DEF StartMonitor, Started
    <2>2. Keeper' = "coming" /\ Stage' = "starting" /\ UNCHANGED <<pids, sent, got>>
      BY <1>3 DEF StartMonitor
    <2>3. Alive' = Alive
      BY <1>3 DEF StartMonitor, Becomes, TypeOK, Alive
    <2>4. Promise!Appoint
      BY <2>1, <2>2, <2>3 DEF Promise!Appoint, Alive
    <2> QED  BY <2>4 DEF Promise!Next
  <1>4. CASE Exec
    <2>1. Stage = "starting" /\ (Keeper = "none" => Subs = {}) /\ Stage' = "up"
      BY <1>4 DEF Exec, Started, TypeOK
    <2>2. UNCHANGED <<pids, table, got, sent, Keeper>>
      BY <1>4 DEF Exec
    <2>3. Promise!Up
      BY <2>1, <2>2 DEF Promise!Up
    <2> QED  BY <2>3 DEF Promise!Next
  <1>5. ASSUME NEW s \in Subs, KillSubProcess(s) PROVE [Promise!Next]_Promise!vars
    <2>1. UNCHANGED <<Stage, pids, Alive, sent, Keeper>> /\ Stage = "failing" /\ SignalPid(s, Term)
      BY <1>5 DEF KillSubProcess, Alive
    <2>2. CASE s \in Alive /\ Told' = Told \cup {s}
      <3>1. Promise!Tell(s)
        BY <2>1, <2>2 DEF Promise!Tell, Alive, Told
      <3> QED  BY <3>1 DEF Promise!Next
    <2>3. CASE Told' = Told
      BY <2>1, <2>3, Unseen DEF Seen
    <2> QED  BY <2>1, <2>2, <2>3, ToldGains, ConstantsAssumption
  <1>6. CASE Unwound
    <2>1. Alive' = Alive \ {Main}
      BY <1>6, AliveLoses DEF Unwound, Panicked
    <2>2. Alive \cap Subs \subseteq Told
      BY <1>6 DEF Unwound, Alive, Told, Termed
    <2>3. Stage = "failing" /\ Stage' = "failed" /\ UNCHANGED <<pids, got, sent, Keeper>>
      BY <1>6 DEF Unwound, Panicked
    <2>4. Promise!GiveUp
      BY <2>1, <2>2, <2>3 DEF Promise!GiveUp, Alive, Told
    <2> QED  BY <2>4 DEF Promise!Next
  <1> QED
    BY <1>1, <1>2, <1>3, <1>4, <1>5, <1>6 DEF Launch, Promise!Next

\* The monitor.
LEMMA WatchImplements ==
  ASSUME IInv, Started, Watch \/ ForwardNext \/ CheckPeriodPasses
  PROVE  [Promise!Next]_Promise!vars
  <1> USE ProcFacts DEF IInv, Stage, Keeper, launcherVars
  <1>1. ASSUME MonitorEnds, UNCHANGED <<pc, pids, got>>, mpc # "off"
        PROVE  UNCHANGED <<Stage, pids, Alive, Told>> /\ Keeper' = "gone"
    <2>1. Alive' = Alive
      BY <1>1, AliveLoses DEF MonitorEnds, Alive
    <2> QED  BY <1>1, <2>1 DEF MonitorEnds, Told
  <1>2. CASE ForwardSignals
    <2>1. Promise!Watch
      BY <1>2 DEF ForwardSignals, Promise!Watch, forwardVars
    <2> QED  BY <2>1 DEF Promise!Next
  <1>3. CASE VerifyFails
    <2>1. Keeper = "coming" /\ Main \notin Alive /\ UNCHANGED sent
      BY <1>3 DEF VerifyFails, Alive
    <2>2. UNCHANGED <<Stage, pids, Alive, Told>> /\ Keeper' = "gone"
      BY <1>1, <1>3 DEF VerifyFails
    <2>3. Promise!ComeTooLate
      BY <2>1, <2>2 DEF Promise!ComeTooLate, Alive, Told
    <2> QED  BY <2>3 DEF Promise!Next
  <1>4. CASE PrimaryDead
    <2>1. Main \notin Alive /\ Keeper = "watching" /\ Keeper' = "clearing"
      BY <1>4 DEF PrimaryDead, IsPidAlive, Alive
    <2>2. Promise!Clear
      BY <1>4, <2>1 DEF PrimaryDead, Promise!Clear, Alive
    <2> QED  BY <2>2 DEF Promise!Next
  <1>5. CASE MonitorReturns
    <2>1. Keeper = "clearing" /\ UNCHANGED sent
      BY <1>5 DEF MonitorReturns
    <2>2. Alive \subseteq Told
      <3>1. table[Main] # "live"
        BY <1>5 DEF MonitorReturns, Started
      <3> QED  BY <1>5, <3>1 DEF MonitorReturns, CleanUpComplete, Termed, Alive, Told
    <2>3. UNCHANGED <<Stage, pids, Alive, Told>> /\ Keeper' = "gone"
      BY <1>1, <1>5 DEF MonitorReturns
    <2>4. Promise!Retire
      BY <2>1, <2>2, <2>3 DEF Promise!Retire, Alive, Told
    <2> QED  BY <2>4 DEF Promise!Next
  <1>6. ASSUME NEW x \in Procs, NEW s \in Sigs, SignalPid(x, s),
               s = Term => Term \in sent \/ mpc = "cleanup",
               UNCHANGED <<pc, pids, table, sent, mpc>>
        PROVE  [Promise!Next]_Promise!vars
    <2>1. UNCHANGED <<Stage, pids, Alive, sent, Keeper>>
      BY <1>6 DEF Alive
    <2>2. CASE s = Term /\ x \in Alive /\ Told' = Told \cup {x}
      <3>1. Promise!Tell(x)
        BY <1>6, <2>1, <2>2 DEF Promise!Tell, Alive, Told
      <3>2. x \in Subs \cup {Main}
        BY <2>2 DEF Alive
      <3> QED  BY <3>1, <3>2 DEF Promise!Next
    <2>3. CASE Told' = Told
      BY <2>1, <2>3, Unseen DEF Seen
    <2> QED  BY <1>6, <2>2, <2>3, ToldGains
  <1>7. ASSUME NEW s \in Subs, TermSubProcess(s) PROVE [Promise!Next]_Promise!vars
    BY <1>6, <1>7, ConstantsAssumption DEF TermSubProcess
  <1>8. ASSUME NEW x \in Procs, Forward(x) PROVE [Promise!Next]_Promise!vars
    <2>1. sig \in Sigs /\ sig \in sent
      BY <1>8 DEF Forward, TypeOK
    <2> QED  BY <1>6, <1>8, <2>1 DEF Forward, watchVars
  <1>9. CASE Verify \/ PrimaryAlive \/ TakeSignal \/ CheckPeriodPasses
    <2>1. UNCHANGED Seen
      BY <1>9
      DEF Verify, PrimaryAlive, TakeSignal, CheckPeriodPasses, Seen, Alive, Told, watchVars
    <2> QED  BY <2>1, Unseen
  <1> QED
    BY <1>2, <1>3, <1>4, <1>5, <1>7, <1>8, <1>9 DEF Watch, ForwardNext

\* Everybody else.
LEMMA EnvironmentImplements ==
  ASSUME IInv, Started, Environment
  PROVE  [Promise!Next]_Promise!vars
  <1> USE ProcFacts DEF IInv, Stage, Keeper
  <1>1. ASSUME NEW x \in Subs \cup {Main}, table[x] = "live", Becomes(x, "zombie"),
               Stage' = IF x = Main THEN "over" ELSE Stage, UNCHANGED <<pids, got, sent, mpc>>
        PROVE  [Promise!Next]_Promise!vars
    <2>1. Alive' = Alive \ {x} /\ x \in Alive
      BY <1>1, AliveLoses DEF Alive
    <2>2. Told' = Told /\ Keeper' = Keeper
      BY <1>1 DEF Told
    <2>3. Promise!Leave(x)
      <3> HIDE DEF Stage, Keeper
      <3> QED  BY <1>1, <2>1, <2>2 DEF Promise!Leave, Alive, Told
    <2> QED  BY <2>3 DEF Promise!Next
  <1>2. ASSUME NEW s \in Subs, SubExits(s) PROVE [Promise!Next]_Promise!vars
    <2>1. /\ table[s] = "live" /\ Becomes(s, "zombie") /\ s # Main
          /\ UNCHANGED <<pids, got, sent, mpc>> /\ Stage' = Stage
      BY <1>2 DEF SubExits, launcherVars, watchVars
    <2> HIDE DEF Stage
    <2> QED  BY <1>1, <2>1
  <1>3. CASE ServiceExits \/ LauncherKilled
    <2>1. table[Main] = "live" /\ pc' = "ended" /\ UNCHANGED mpc
      BY <1>3 DEF ServiceExits, LauncherKilled, watchVars
    <2> QED  BY <1>1, <1>3, <2>1 DEF ServiceExits, LauncherKilled
  <1>4. CASE CompileFails
    <2>1. Alive' = Alive \ {Main}
      BY <1>4, AliveLoses DEF CompileFails, Panicked
    <2>2. Alive \cap Subs = {}
      BY <1>4 DEF CompileFails, Alive
    <2>3. Stage = "starting" /\ Stage' = "failed" /\ UNCHANGED <<pids, got, sent, Keeper>>
      BY <1>4 DEF CompileFails, Panicked, watchVars
    <2>4. Promise!GiveUp
      BY <2>1, <2>2, <2>3 DEF Promise!GiveUp, Alive, Told
    <2> QED  BY <2>4 DEF Promise!Next
  <1>5. CASE StartFails
    <2>1. Promise!Fails
      BY <1>5 DEF StartFails, Promise!Fails, watchVars
    <2> QED  BY <2>1 DEF Promise!Next
  <1>6. ASSUME MonitorEnds, UNCHANGED <<pc, pids, got>>
        PROVE  UNCHANGED <<Stage, pids, Alive, Told>> /\ Keeper' = "gone"
    <2>1. Alive' = Alive
      BY <1>6, AliveLoses DEF MonitorEnds, Alive
    <2> QED  BY <1>6, <2>1 DEF MonitorEnds, Told
  <1>7. CASE MonitorKilled
    <2>1. UNCHANGED <<Stage, pids, Alive, Told, sent>> /\ Keeper' = "gone"
      BY <1>6, <1>7 DEF MonitorKilled, launcherVars
    <2>2. CASE mpc \in {"verify", "notify", "watch", "cleanup"}
      <3>1. Promise!KeeperDies
        BY <1>7, <2>1, <2>2 DEF Promise!KeeperDies, MonitorKilled, Alive, Told
      <3> QED  BY <3>1 DEF Promise!Next
    <2>3. CASE mpc = "ended"
      BY <2>1, <2>3, Unseen DEF Seen
    <2> QED  BY <1>7, <2>2, <2>3 DEF MonitorKilled, TypeOK, Started
  <1>8. ASSUME NEW s \in Sigs, SignalArrives(s) PROVE [Promise!Next]_Promise!vars
    <2>1. UNCHANGED <<pc, pids, got>> /\ sent' = sent \cup {s}
      BY <1>8 DEF SignalArrives, launcherVars
    <2>2. CASE MonitorEnds /\ s = Term /\ Keeper = "coming"
      <3>1. UNCHANGED <<Stage, pids, Alive, Told>> /\ Keeper' = "gone"
        BY <1>6, <2>1, <2>2
      <3>2. Promise!Ask
        BY <2>1, <2>2, <3>1 DEF Promise!Ask, Alive, Told
      <3> QED  BY <3>2 DEF Promise!Next
    <2>3. CASE UNCHANGED <<table, mpc>>
      <3>1. UNCHANGED <<Stage, pids, Alive, Told, Keeper>>
        BY <2>1, <2>3 DEF Alive, Told
      <3>2. CASE s = Term
        <4>1. Promise!Ask
          BY <2>1, <3>1, <3>2 DEF Promise!Ask, Alive, Told
        <4> QED  BY <4>1 DEF Promise!Next
      <3>3. CASE s # Term
        <4>1. (Term \in sent') = (Term \in sent)
          BY <2>1, <3>3
        <4>2. UNCHANGED Seen
          <5> HIDE DEF Stage, Keeper
          <5> QED  BY <2>1, <3>1, <4>1 DEF Seen
        <4> QED  BY <4>2, Unseen
      <3> QED  BY <3>2, <3>3
    <2> QED  BY <1>8, <2>2, <2>3 DEF SignalArrives, watchVars
  <1>9. ASSUME NEW x \in Procs, Reap(x) \/ PidReused(x) \/ StrangerExits(x)
        PROVE  [Promise!Next]_Promise!vars
    <2>1. table[x] # "live" /\ \E st : st # "live" /\ Becomes(x, st)
      BY <1>9 DEF Reap, PidReused, StrangerExits
    <2>2. Alive' = Alive \ {x} /\ x \notin Alive
      BY <2>1, AliveLoses DEF Alive
    <2>3. UNCHANGED Seen
      BY <1>9, <2>2
      DEF Reap, PidReused, StrangerExits, Seen, Told, launcherVars, watchVars, forwardVars
    <2> QED  BY <2>3, Unseen
  <1> QED
    BY <1>2, <1>3, <1>4, <1>5, <1>7, <1>8, <1>9 DEF Environment

\* However many subProcesses there are and whatever fails, is killed, or has its pid reused, the
\* group comes up and goes down as Group says.
THEOREM GroupIsKept == Spec => ImplementsGroup
  <1>1. Init => Promise!Init
    <2> SUFFICES ASSUME Init PROVE Promise!Init
      OBVIOUS
    <2>1. /\ \A x \in Subs \cup {Main} : table[x] = "live" <=> x = Main
          /\ \A x \in Subs \cup {Main} : Term \notin got[x]
      BY ProcFacts DEF Init
    <2>2. Alive = {Main} /\ Told = {}
      BY <2>1 DEF Alive, Told
    <2>3. (Term \in sent) = FALSE
      BY DEF Init
    <2> QED  BY <2>2, <2>3 DEF Init, Promise!Init, Stage, Keeper, Alive, Told
  <1>2. IInv /\ Started /\ [Next]_vars => [Promise!Next]_Promise!vars
    <2> SUFFICES ASSUME IInv, Started, [Next]_vars PROVE [Promise!Next]_Promise!vars
      OBVIOUS
    <2>1. CASE UNCHANGED vars
      <3>1. UNCHANGED Seen
        BY <2>1 DEF vars, Seen, Stage, Keeper, Alive, Told
      <3> QED  BY <3>1, Unseen
    <2> QED
      BY <2>1, LaunchImplements, WatchImplements, EnvironmentImplements DEF Next
  <1> QED
    BY <1>1, <1>2, BookIsKept, StartedHolds, PTL DEF Spec, ImplementsGroup, Promise!Spec

=============================================================================
