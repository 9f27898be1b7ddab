-------------------------- MODULE GoInitFaultProofs --------------------------
(***************************************************************************)
(* Theorems about GoInit when invocations are killed and file operations   *)
(* fail (FaultIInv, for one invocation at a time), about pidfiles when any *)
(* number of invocations overlap, and about the implementation of Service. *)
(***************************************************************************)
EXTENDS GoInitProofs

USE DEF cmdVars

(* One invocation at a time, whatever fails.                               *)

\* What FaultIInv says of the only invocation.
Desk(i) ==
  unlinked = {} /\ AtHand(i) /\ Noted(i) /\ Recorded(i) /\ TornSeen(i) /\ Warned(i)

LEMMA FinishDesk ==
  ASSUME TypeInv, NEW i \in Invs, Desk(i), NEW rc \in Codes, Finish(i, rc),
         UNCHANGED <<pidfile, conf>>, NEW o \in Ops, op'[i] = o,
         o = "start" /\ rc = 0 => \A c \in conf[i] : pidfile[c] \in Pids,
         o = "stop" /\ rc = 0 => \A c \in conf[i] : pidfile[c] = Absent
  PROVE  Desk(i)'
  <1>1. /\ pc'[i] = "exited" /\ code'[i] = rc /\ todo'[i] = {} /\ written'[i] = {}
        /\ \A c \in Cmds : handle'[i][c] = NoPid
    BY DEF TypeInv, TypeOK, Finish, Goto
  <1>2. unlinked' = {}
    BY DEF Desk, Finish
  <1>3. QED
    BY <1>1, <1>2 DEF Desk, AtHand, Noted, Recorded, TornSeen, Warned, RunningCmds, Exited, Recording

LEMMA ProcessesDesk ==
  ASSUME TypeInv, NEW i \in Invs, Desk(i),
         NEW q \in Pids, ProcExits(q) \/ Reap(q) \/ ForeignStarts(q)
  PROVE  Desk(i)'
  <1>1. UNCHANGED <<pidfile, unlinked, op, conf, pc, code, todo, cur, handle, written, elapsed>>
    BY DEF ProcExits, Reap, ForeignStarts, fileVars, loopVars, timerVars
  <1>2. AtHand(i)' /\ Noted(i)' /\ Recorded(i)' /\ TornSeen(i)'
    BY <1>1 DEF Desk, AtHand, Noted, Recorded, TornSeen, RunningCmds, Exited
  <1>3. ASSUME NEW p \in Pids, p \in termed \/ ~Live(p) \/ owner[p] = Foreign
        PROVE  p \in termed' \/ ~Live(p)' \/ owner'[p] = Foreign
    BY <1>3, ConstantsAssumption
    DEF ProcExits, Reap, ForeignStarts, Live, TypeInv, TypeOK
  <1>4. Warned(i)'
    BY <1>1, <1>3 DEF Desk, Warned, RunningCmds, TypeInv, TypeOK
  <1>5. QED  BY <1>1, <1>2, <1>4 DEF Desk

LEMMA BeginDesk ==
  ASSUME TypeInv, NEW i \in Invs, Desk(i), NEW o \in Ops, Begin(i, o) \/ BeginFails(i, o)
  PROVE  Desk(i)'
  <1>1. CASE Begin(i, o)
    <2>1. /\ todo'[i] = conf'[i] /\ conf'[i] \in Configs
          /\ pc'[i] = "check" /\ pc[i] \in {"idle", "exited"}
      BY <1>1 DEF TypeInv, TypeOK, Begin, Goto
    <2>2. UNCHANGED <<pidfile, unlinked, handle, written>>
      BY <1>1 DEF Begin, fileVars
    <2>3. written[i] = {} /\ \A c \in Cmds : handle[i][c] = NoPid
      BY <2>1 DEF Desk, AtHand, Noted, RunningCmds
    <2>4. QED
      BY <2>1, <2>2, <2>3
      DEF Desk, AtHand, Noted, Recorded, TornSeen, Warned, RunningCmds, Exited
  <1>2. CASE BeginFails(i, o)
    <2>1. PICK rc \in {1, 4} : Finish(i, rc)
      BY <1>2 DEF BeginFails, ErrorCode
    <2>2. op'[i] = o
      BY <1>2 DEF BeginFails, TypeInv, TypeOK
    <2>3. rc \in Codes /\ rc # 0 /\ UNCHANGED <<pidfile, conf>>
      BY <1>2 DEF Codes, BeginFails
    <2>4. QED
      BY <2>1, <2>2, <2>3, FinishDesk
  <1>3. QED  BY <1>1, <1>2

LEMMA CheckDesk ==
  ASSUME TypeInv, NEW i \in Invs, Desk(i), Check(i)
  PROVE  Desk(i)'
  <1> USE DEF Goto, Visited, procVars, fileVars, timerVars, RunningCmds
  <1>1. CASE Probe(i)
    <2>1. /\ cur[i] \in Cmds /\ cur[i] \in todo[i] /\ cur[i] \in conf[i]
          /\ pidfile[cur[i]] # Absent /\ pidfile[cur[i]] # Torn
      BY <1>1, ConstantsAssumption
      DEF Probe, TypeInv, TypeOK, LoopOK, Desk, AtHand, Noted
    <2>2. /\ pc'[i] = "check" /\ todo'[i] = todo[i] \ {cur[i]}
          /\ written'[i] = written[i] \cup {cur[i]}
          /\ \A c \in Cmds : handle'[i][c] = handle[i][c] \/ handle'[i][c] = NoPid
          /\ UNCHANGED <<pidfile, unlinked, conf>>
      BY <1>1, <2>1 DEF Probe, TypeInv, TypeOK
    <2>3. QED
      BY <1>1, <2>1, <2>2
      DEF Probe, TypeInv, TypeOK, Desk, AtHand, Noted, Recorded, TornSeen, Warned, Exited
  <1>2. ASSUME NEW c \in Cmds, ReadPidfile(i, c) PROVE Desk(i)'
    BY <1>2, ConstantsAssumption
    DEF ReadPidfile, TypeInv, TypeOK, Desk, AtHand, Noted, Recorded, TornSeen, Warned, Exited
  <1>3. ASSUME NEW c \in Cmds, BadPidfile(i, c) PROVE Desk(i)'
    <2>1. op[i] \in Ops /\ op' = op /\ ErrorCode(op[i]) \in Codes /\ ErrorCode(op[i]) # 0
      BY <1>3 DEF ErrorCode, BadPidfile, TypeInv, TypeOK, Codes
    <2>2. QED
      BY <1>3, <2>1, FinishDesk DEF BadPidfile
  <1>4. QED  BY <1>1, <1>2, <1>3 DEF Check

LEMMA StartDesk ==
  ASSUME TypeInv, NEW i \in Invs, Desk(i), Start(i)
  PROVE  Desk(i)'
  <1> USE DEF Goto, Visited, procVars, fileVars, loopVars, timerVars, RunningCmds
  <1>1. CASE StartService(i)
    BY <1>1, ConstantsAssumption
    DEF StartService, AllChecked, NotRunningCmds,
        TypeInv, TypeOK, Desk, AtHand, Noted, Recorded, TornSeen, Warned, Exited
  <1>2. CASE StartFails(i) \/ Started(i)
    <2>1. op[i] = "start" /\ op' = op /\ "start" \in Ops
      BY <1>2 DEF StartFails, Started, Desk, AtHand, Ops
    <2>2. PICK rc \in Codes : Finish(i, rc) /\ (rc = 0 => Started(i))
      BY <1>2 DEF StartFails, Started, Codes
    <2>3. rc = 0 => \A c \in conf[i] : pidfile[c] \in Pids
      BY <2>2 DEF Started, Desk, Recorded
    <2>4. QED
      BY <1>2, <2>1, <2>2, <2>3, FinishDesk DEF StartFails, Started
  <1>3. CASE TruncatePidfile(i)
    BY <1>3, ConstantsAssumption
    DEF TruncatePidfile, TypeInv, TypeOK, LoopOK, Desk, AtHand, Noted, Recorded, TornSeen,
        Warned, Exited
  <1>4. ASSUME NEW q \in Pids, WritePid(i, q) PROVE Desk(i)'
    <2>1. i \notin unlinked /\ cur[i] \in Cmds
      BY <1>4, ConstantsAssumption DEF WritePid, TypeInv, TypeOK, LoopOK, Desk, AtHand
    <2>2. QED
      BY <1>4, <2>1, ConstantsAssumption
      DEF WritePid, TypeInv, TypeOK, LoopOK, Desk, AtHand, Noted, Recorded, TornSeen,
          Warned, Exited
  <1>5. ASSUME NEW q \in Pids, NEW d \in Cmds, StartCommand(i, d, q) PROVE Desk(i)'
    BY <1>5, ConstantsAssumption
    DEF StartCommand, TypeInv, TypeOK, Desk, AtHand, Noted, Recorded, TornSeen, Warned, Exited
  <1>6. QED  BY <1>1, <1>2, <1>3, <1>4, <1>5 DEF Start

LEMMA StopDesk ==
  ASSUME TypeInv, NEW i \in Invs, Desk(i), Stop(i), Alone
  PROVE  Desk(i)'
  <1> USE DEF Goto, Visited, procVars, fileVars, loopVars, timerVars, RunningCmds
  <1>1. CASE StopService(i)
    BY <1>1, ConstantsAssumption
    DEF StopService, AllChecked,
        TypeInv, TypeOK, Desk, AtHand, Noted, Recorded, TornSeen, Warned, Exited
  <1>2. CASE WaitForServiceToStop(i)
    BY <1>2
    DEF WaitForServiceToStop,
        TypeInv, TypeOK, Desk, AtHand, Noted, Recorded, TornSeen, Warned, Exited, Live
  <1>3. CASE TickerFires(i) \/ TimerFires(i)
    BY <1>3
    DEF TickerFires, TimerFires,
        TypeInv, TypeOK, Desk, AtHand, Noted, Recorded, TornSeen, Warned, Exited, Live
  <1>4. CASE PollDone(i) \/ ExpireDone(i)
    BY <1>4
    DEF PollDone, ExpireDone,
        TypeInv, TypeOK, Desk, AtHand, Noted, Recorded, TornSeen, Warned, Exited, Live
  <1>5. CASE Kill(i)
    BY <1>5
    DEF Kill, TypeInv, TypeOK, LoopOK, Desk, AtHand, Noted, Recorded, TornSeen, Warned, Exited,
        Live
  <1>6. CASE KillFails(i)
    <2>1. op' = op /\ op[i] \in Ops /\ 1 \in Codes
      BY <1>6 DEF KillFails, TypeInv, TypeOK, Codes
    <2>2. QED
      BY <1>6, <2>1, FinishDesk DEF KillFails
  <1>7. CASE Stopped(i)
    <2>1. op' = op /\ op[i] \in Ops /\ code[i] \in Codes /\ op[i] # "start"
      BY <1>7 DEF Stopped, TypeInv, TypeOK, Desk, AtHand
    <2>2. code[i] = 0 => \A c \in conf[i] : pidfile[c] = Absent
      BY <1>7 DEF Stopped, Desk, Recorded
    <2>3. QED
      BY <1>7, <2>1, <2>2, FinishDesk DEF Stopped
  <1>8. ASSUME NEW c \in Cmds, Terminate(i, c) PROVE Desk(i)'
    BY <1>8
    DEF Terminate, TypeInv, TypeOK, LoopOK, Desk, AtHand, Noted, Recorded, TornSeen, Warned,
        Exited, Live
  <1>9. ASSUME NEW c \in Cmds, Poll(i, c) PROVE Desk(i)'
    BY <1>9
    DEF Poll, TypeInv, TypeOK, LoopOK, Desk, AtHand, Noted, Recorded, TornSeen, Warned,
        Exited, Live
  <1>10. ASSUME NEW c \in Cmds, Expire(i, c) PROVE Desk(i)'
    BY <1>10
    DEF Expire, TypeInv, TypeOK, LoopOK, Desk, AtHand, Noted, Recorded, TornSeen, Warned,
        Exited, Live
  <1>11. ASSUME NEW c \in Cmds, RemovePidfile(i, c) PROVE Desk(i)'
    <2>1. unlinked' = {}
      BY <1>11 DEF RemovePidfile, Alone, Desk
    <2>2. QED
      BY <1>11, <2>1, ConstantsAssumption
      DEF RemovePidfile, TypeInv, TypeOK, Desk, AtHand, Noted, Recorded, TornSeen, Warned,
          Exited
  <1>12. QED
    BY <1>1, <1>2, <1>3, <1>4, <1>5, <1>6, <1>7, <1>8, <1>9, <1>10, <1>11 DEF Stop

LEMMA StatusDesk ==
  ASSUME TypeInv, NEW i \in Invs, Desk(i), Status(i)
  PROVE  Desk(i)'
  <1>1. op'[i] = "status" /\ "status" \in Ops /\ StatusCode(i) \in Codes
    BY DEF Status, AllChecked, Ops, StatusCode, Codes
  <1>2. QED
    BY <1>1, FinishDesk DEF Status

LEMMA FailDesk ==
  ASSUME TypeInv, NEW i \in Invs, Desk(i), Fail(i)
  PROVE  Desk(i)'
  <1>1. op[i] \in Ops /\ ErrorCode(op[i]) \in Codes \ {0} /\ {1, Crashed} \subseteq Codes \ {0}
    BY DEF TypeInv, TypeOK, ErrorCode, Codes, Crashed
  <1>2. CASE Crash(i) \/ RecordFails(i) \/ CheckFails(i)
    <2>1. PICK rc \in Codes \ {0} : Finish(i, rc)
      BY <1>1, <1>2 DEF Crash, RecordFails, CheckFails
    <2>2. op' = op /\ UNCHANGED <<pidfile, conf>>
      BY <1>2 DEF Crash, RecordFails, CheckFails
    <2>3. QED
      BY <1>1, <2>1, <2>2, FinishDesk
  <1>3. ASSUME NEW c \in Cmds, RemoveFails(i, c) PROVE Desk(i)'
    BY <1>3
    DEF RemoveFails, Visited, procVars, fileVars, timerVars, RunningCmds,
        TypeInv, TypeOK, Desk, AtHand, Noted, Recorded, TornSeen, Warned, Exited
  <1>4. QED  BY <1>2, <1>3 DEF Fail

LEMMA SecondDesk ==
  ASSUME TypeInv, NEW i \in Invs, Desk(i), SecondPasses(i)
  PROVE  Desk(i)'
  BY DEF SecondPasses, procVars, fileVars, loopVars, RunningCmds, TypeInv, TypeOK,
         Desk, AtHand, Noted, Recorded, TornSeen, Warned, Exited, Live

LEMMA DeskIsFaultIInv ==
  ASSUME Alone, NEW i \in Invs
  PROVE  FaultIInv <=> TypeOK /\ Desk(i)
  BY DEF Alone, FaultIInv, Desk

LEMMA DeskStep ==
  ASSUME Alone, TypeInv, TypeInv', FaultIInv, [Next]_vars
  PROVE  FaultIInv'
  <1>1. CASE UNCHANGED vars
    BY <1>1
    DEF vars, FaultIInv, TypeInv, AtHand, Noted, Recorded, TornSeen, Warned, RunningCmds,
        Exited, Live
  <1>2. ASSUME Next, NEW i \in Invs PROVE Desk(i)'
    <2>1. Desk(i) /\ \A j \in Invs : j = i
      BY DeskIsFaultIInv DEF Alone
    <2>2. CASE \E j \in Invs : Run(j) \/ Fail(j) \/ SecondPasses(j)
      BY <2>1, <2>2, CheckDesk, StatusDesk, StartDesk, StopDesk, FailDesk, SecondDesk DEF Run
    <2>3. CASE \E j \in Invs, o \in Ops : Begin(j, o) \/ BeginFails(j, o)
      BY <2>1, <2>3, BeginDesk
    <2>4. CASE \E p \in Pids : ProcExits(p) \/ Reap(p) \/ ForeignStarts(p)
      BY <2>1, <2>4, ProcessesDesk
    <2>5. QED  BY <1>2, <2>2, <2>3, <2>4 DEF Next
  <1>3. ASSUME Next PROVE FaultIInv'
    BY <1>2, <1>3 DEF Alone, FaultIInv, Desk, TypeInv
  <1>4. QED  BY <1>1, <1>3

\* One invocation at a time, killed anywhere and with any file operation failing: what it
\* has noted is true, what it has done with is on record, and stop warns before it kills.
THEOREM NotesAreTrue ==
  ASSUME Alone
  PROVE  Spec => []FaultIInv
  <1>1. Init => FaultIInv
    BY InitTypeInv, ConstantsAssumption
    DEF Init, FaultIInv, TypeInv, AtHand, Noted, Recorded, TornSeen, Warned, RunningCmds, Exited
  <1>2. TypeInv /\ TypeInv' /\ FaultIInv /\ [Next]_vars => FaultIInv'
    BY DeskStep
  <1>3. QED  BY <1>1, <1>2, TypeInvHolds, PTL DEF Spec

\* A start that exits 0 has every configured command on record, and a stop that exits 0 none,
\* whatever failed before or on the way.
THEOREM SuccessIsOnRecord ==
  ASSUME Alone
  PROVE  Spec => []SuccessOnRecord
  <1>1. FaultIInv => SuccessOnRecord
    BY DEF FaultIInv, Recorded, SuccessOnRecord
  <1>2. QED  BY <1>1, NotesAreTrue, PTL

\* While a torn pidfile of a command that is always configured stays, nothing is recorded,
\* removed, launched or signalled.
THEOREM TornPidfileStays ==
  ASSUME Alone
  PROVE  Spec => TornPidfileWedges
  <1> DEFINE Wedged(c) == /\ pidfile[c] = Torn /\ \A cmds \in Configs : c \in cmds
                          /\ \A i \in Invs : ~Recording(i)
             Nothing   == /\ pidfile' = pidfile
                          /\ \A p \in Pids : Free(p) => owner'[p] \notin Cmds
                          /\ termed' \subseteq termed /\ killed' \subseteq killed
  <1>1. ASSUME TypeInv, FaultIInv, [Next]_vars, NEW c \in Cmds, Wedged(c) PROVE Nothing
    <2>1. UNCHANGED <<owner, pidfile, termed, killed>> => Nothing
      BY ConstantsAssumption DEF Free
    <2>2. ASSUME NEW i \in Invs
          PROVE  pc[i] \in {"idle", "exited"} \/ (pc[i] \in {"check", "probe"} /\ c \in todo[i])
      BY <1>1, <2>2 DEF FaultIInv, TornSeen, Recording
    <2>3. ASSUME NEW i \in Invs, Run(i) PROVE Nothing
      <3>1. pc[i] \in {"check", "probe"} /\ todo[i] # {}
        BY <2>2, <2>3
        DEF Run, Check, Status, Start, Stop, Probe, ReadPidfile, BadPidfile, AllChecked,
            StartService, StartFails, TruncatePidfile, Started, WritePid, StartCommand,
            StopService, WaitForServiceToStop, TickerFires, PollDone, TimerFires, Kill,
            KillFails, ExpireDone, Stopped, Terminate, Poll, Expire, RemovePidfile
      <3>2. ~Status(i) /\ ~Start(i) /\ ~Stop(i)
        BY <3>1
        DEF Status, Start, Stop, AllChecked, StartService, StartFails, TruncatePidfile, Started,
            WritePid, StartCommand, StopService, WaitForServiceToStop, TickerFires, PollDone,
            TimerFires, Kill, KillFails, ExpireDone, Stopped, Terminate, Poll, Expire,
            RemovePidfile
      <3>3. UNCHANGED <<owner, pidfile, termed, killed>>
        BY <2>3, <3>2
        DEF Run, Check, Probe, ReadPidfile, BadPidfile, procVars, fileVars
      <3>4. QED  BY <2>1, <3>3
    <2>4. ASSUME NEW i \in Invs, Fail(i) \/ SecondPasses(i) PROVE Nothing
      BY <2>1, <2>2, <2>4
      DEF Fail, Crash, CheckFails, RecordFails, RemoveFails, SecondPasses, procVars, fileVars
    <2>5. ASSUME NEW i \in Invs, NEW o \in Ops, Begin(i, o) \/ BeginFails(i, o) PROVE Nothing
      BY <2>1, <2>5 DEF Begin, BeginFails, procVars, fileVars
    <2>6. ASSUME NEW p \in Pids, ProcExits(p) \/ Reap(p) \/ ForeignStarts(p) PROVE Nothing
      BY <1>1, <2>6, ConstantsAssumption
      DEF ProcExits, Reap, ForeignStarts, Free, fileVars, TypeInv, TypeOK
    <2>7. CASE UNCHANGED vars
      BY <2>1, <2>7 DEF vars
    <2>8. QED  BY <1>1, <2>3, <2>4, <2>5, <2>6, <2>7 DEF Next
  <1>2. TypeInv /\ FaultIInv /\ [Next]_vars => [\A c \in Cmds : Wedged(c) => Nothing]_vars
    BY <1>1
  <1>3. QED  BY <1>2, TypeInvHolds, NotesAreTrue, PTL DEF Spec, TornPidfileWedges

\* A SIGKILL comes from a stop whose time is over, and hits nobody who was not warned.
THEOREM KillsAreWarned ==
  ASSUME Alone
  PROVE  Spec => KillOnlyAfterGrace
  <1> DEFINE Graced(p) == /\ p \in termed \/ owner[p] = Foreign
                          /\ \E i \in Invs : op[i] = "stop" /\ elapsed[i] = WaitSeconds
  <1>1. ASSUME TypeInv, FaultIInv, [Next]_vars, NEW p \in killed' \ killed PROVE Graced(p)
    <2>1. ASSUME NEW i \in Invs, Kill(i) PROVE Graced(p)
      <3>1. /\ cur[i] \in Cmds /\ cur[i] \in RunningCmds(i) /\ p = handle[i][cur[i]] /\ Live(p)
            /\ pc[i] = "sigkill"
        BY <1>1, <2>1 DEF Kill, TypeInv, TypeOK, LoopOK, RunningCmds
      <3>2. QED  BY <1>1, <3>1 DEF FaultIInv, AtHand, Warned
    <2>2. ASSUME NEW i \in Invs, Run(i), ~Kill(i) PROVE killed' = killed
      BY <2>2
      DEF Run, Check, Status, Start, Stop, Probe, ReadPidfile, BadPidfile, StartService,
          StartFails, TruncatePidfile, Started, WritePid, StartCommand, StopService,
          WaitForServiceToStop, TickerFires, PollDone, TimerFires, KillFails, ExpireDone,
          Stopped, Terminate, Poll, Expire, RemovePidfile, procVars
    <2>3. ASSUME NEW i \in Invs, Fail(i) \/ SecondPasses(i) PROVE killed' = killed
      BY <2>3 DEF Fail, Crash, CheckFails, RecordFails, RemoveFails, SecondPasses, procVars
    <2>4. ASSUME NEW i \in Invs, NEW o \in Ops, Begin(i, o) \/ BeginFails(i, o)
          PROVE  killed' = killed
      BY <2>4 DEF Begin, BeginFails, procVars
    <2>5. ASSUME NEW q \in Pids, ProcExits(q) \/ Reap(q) \/ ForeignStarts(q)
          PROVE  killed' \subseteq killed
      BY <2>5 DEF ProcExits, Reap, ForeignStarts
    <2>6. CASE UNCHANGED vars
      BY <1>1, <2>6 DEF vars
    <2>7. QED  BY <1>1, <2>1, <2>2, <2>3, <2>4, <2>5, <2>6 DEF Next
  <1>2. TypeInv /\ FaultIInv /\ [Next]_vars => [\A p \in killed' \ killed : Graced(p)]_vars
    BY <1>1
  <1>3. QED  BY <1>2, TypeInvHolds, NotesAreTrue, PTL DEF Spec, KillOnlyAfterGrace

-----------------------------------------------------------------------------
(* Any number of invocations at the same time.                             *)

\* An invocation that writes into a removed file is in the middle of its write.
TornInv == TornMeansWriting /\ \A i \in unlinked : pc[i] = "write"

\* A torn pidfile is always one that some start is just writing, so it does not stay.
THEOREM TornIsBeingWritten ==
  ASSUME NoLoss
  PROVE  Spec => []TornMeansWriting
  <1>1. Init => TornInv
    BY ConstantsAssumption DEF Init, TornInv, TornMeansWriting
  <1>2. ASSUME TypeInv, TornInv, [Next]_vars PROVE TornInv'
    <2>0. /\ \A c \in Cmds : pidfile[c] = Torn =>
               \E i \in Invs \ unlinked : pc[i] = "write" /\ cur[i] = c
          /\ \A i \in unlinked : pc[i] = "write"
          /\ unlinked \subseteq Invs /\ pidfile \in [Cmds -> Pids \cup {Absent, Torn}]
      BY <1>2 DEF TornInv, TornMeansWriting, TypeInv, TypeOK
    <2> DEFINE Quiet(i) == /\ UNCHANGED <<pidfile, unlinked>>
                           /\ pc[i] # "write" /\ pc'[i] # "write"
                           /\ \A j \in Invs \ {i} : pc'[j] = pc[j] /\ cur'[j] = cur[j]
    <2>1. ASSUME NEW i \in Invs, Quiet(i) PROVE TornInv'
      BY <2>0, <2>1 DEF TornInv, TornMeansWriting
    <2>2. ASSUME NEW i \in Invs, NEW rc, Finish(i, rc), pc[i] # "write", pidfile' = pidfile
          PROVE  TornInv'
      <3>1. unlinked' = unlinked
        BY <2>0, <2>2 DEF Finish
      <3>2. QED  BY <1>2, <2>1, <2>2, <3>1 DEF Finish, Goto, TypeInv, TypeOK
    <2>3. ASSUME NEW i \in Invs, Check(i) PROVE TornInv'
      BY <1>2, <2>1, <2>2, <2>3
      DEF Check, Probe, ReadPidfile, BadPidfile, Goto, fileVars, TypeInv, TypeOK
    <2>4. ASSUME NEW i \in Invs, Status(i) PROVE TornInv'
      BY <2>2, <2>4 DEF Status, AllChecked
    <2>5. ASSUME NEW i \in Invs, Start(i) PROVE TornInv'
      <3>1. CASE StartService(i)
        BY <1>2, <2>1, <3>1 DEF StartService, AllChecked, Goto, fileVars, TypeInv, TypeOK
      <3>2. CASE StartFails(i) \/ Started(i)
        BY <2>2, <3>2 DEF StartFails, Started
      <3>3. CASE TruncatePidfile(i)
        BY <1>2, <2>0, <3>3
        DEF TruncatePidfile, Goto, loopVars, TypeInv, TypeOK, LoopOK, TornInv, TornMeansWriting
      <3>4. ASSUME NEW p \in Pids, WritePid(i, p) PROVE TornInv'
        BY <1>2, <2>0, <3>4, ConstantsAssumption
        DEF WritePid, Goto, TypeInv, TypeOK, TornInv, TornMeansWriting
      <3>5. ASSUME NEW p \in Pids, NEW c \in Cmds, StartCommand(i, c, p) PROVE TornInv'
        BY <1>2, <2>1, <3>5 DEF StartCommand, Goto, fileVars, TypeInv, TypeOK
      <3>6. QED  BY <2>5, <3>1, <3>2, <3>3, <3>4, <3>5 DEF Start
    <2>6. ASSUME NEW i \in Invs, Stop(i) PROVE TornInv'
      <3>1. CASE KillFails(i) \/ Stopped(i)
        BY <2>2, <3>1 DEF KillFails, Stopped
      <3>2. ASSUME NEW c \in Cmds, RemovePidfile(i, c) PROVE TornInv'
        BY <1>2, <2>0, <3>2, ConstantsAssumption
        DEF RemovePidfile, TypeInv, TypeOK, TornInv, TornMeansWriting
      <3>3. CASE ~(KillFails(i) \/ Stopped(i) \/ \E c \in Cmds : RemovePidfile(i, c))
        BY <1>2, <2>1, <2>6, <3>3
        DEF Stop, StopService, AllChecked, WaitForServiceToStop, TickerFires, PollDone,
            TimerFires, Kill, ExpireDone, Terminate, Poll, Expire, Goto, loopVars, fileVars,
            TypeInv, TypeOK
      <3>4. QED  BY <3>1, <3>2, <3>3
    <2>7. ASSUME NEW i \in Invs, NEW o \in Ops, Begin(i, o) \/ BeginFails(i, o) PROVE TornInv'
      BY <1>2, <2>1, <2>2, <2>7 DEF Begin, BeginFails, Goto, fileVars, TypeInv, TypeOK
    <2>8. ASSUME NEW p \in Pids, ProcExits(p) \/ Reap(p) \/ ForeignStarts(p) PROVE TornInv'
      BY <2>0, <2>8
      DEF ProcExits, Reap, ForeignStarts, fileVars, loopVars, TornInv, TornMeansWriting
    <2>9. ASSUME NEW i \in Invs, Fail(i) \/ SecondPasses(i) PROVE TornInv'
      BY <2>0, <2>9
      DEF Fail, Crash, CheckFails, RecordFails, RemoveFails, NoLoss, SecondPasses, fileVars,
          loopVars, TornInv, TornMeansWriting
    <2>10. CASE UNCHANGED vars
      BY <2>0, <2>10 DEF vars, TornInv, TornMeansWriting
    <2>11. QED
      BY <1>2, <2>3, <2>4, <2>5, <2>6, <2>7, <2>8, <2>9, <2>10 DEF Next, Run
  <1>3. TypeInv /\ TornInv /\ [Next]_vars => TornInv'
    BY <1>2
  <1>4. TornInv => TornMeansWriting
    BY DEF TornInv
  <1>5. QED  BY <1>1, <1>3, <1>4, TypeInvHolds, PTL DEF Spec

=============================================================================
