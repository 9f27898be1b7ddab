---------------------------- MODULE ServiceProofs ----------------------------
(***************************************************************************)
(* GoInit implements Service, for any commands, configurations and pids:   *)
(* one invocation at a time, without crashes and failing file operations,  *)
(* but with processes that exit at any time and pids that are reused.      *)
(***************************************************************************)
EXTENDS GoInitFaultProofs

USE DEF cmdVars

\* All that is known of a reachable state.
Kept == TypeInv /\ IInv /\ FaultIInv

Up == {c \in Cmds : Serving(c) # {}}

LEMMA KeptHolds ==
  ASSUME Alone, NoLoss
  PROVE  Spec => []Kept
  BY TypeInvHolds, BookIsKept, NotesAreTrue, PTL DEF Kept

LEMMA OnlyOne ==
  ASSUME Alone
  PROVE  Only \in Invs /\ \A i \in Invs : i = Only
  BY DEF Alone, Only

\* Nothing that Serving looks at has changed.
LEMMA SameUp ==
  ASSUME UNCHANGED <<owner, zombie, killed>>
  PROVE  Up' = Up
  BY DEF Up, Serving, Live

\* status has looked at every command: what it holds no process for is not served, and
\* without any written pid there is no pidfile.
LEMMA StatusKnows ==
  ASSUME Kept, NEW i \in Invs, Status(i)
  PROVE  /\ StatusCode(i) = 3 => \A c \in conf[i] : Serving(c) = {} /\ pidfile[c] = Absent
         /\ StatusCode(i) = 1 =>
              (\E c \in conf[i] : Serving(c) = {}) /\ (\E c \in conf[i] : pidfile[c] # Absent)
  <1>1. /\ pc[i] = "check" /\ todo[i] = {} /\ conf[i] \subseteq Cmds
        /\ AtHand(i) /\ Noted(i) /\ \A c \in Cmds : \A p \in Serving(c) : Known(i, c, p)
    BY DEF Kept, FaultIInv, IInv, TypeOK, Status, AllChecked
  <1>2. ASSUME NEW c \in conf[i], NEW p \in Serving(c) PROVE c \in RunningCmds(i) /\ c \in written[i]
    <2>1. handle[i][c] = p /\ p \in Pids
      BY <1>1, <1>2 DEF Known, KnownConfigured, Serving
    <2>2. c \in RunningCmds(i)
      BY <1>1, <2>1, ConstantsAssumption DEF RunningCmds
    <2>3. QED  BY <1>1, <2>2 DEF Noted
  <1>3. ASSUME StatusCode(i) = 3
        PROVE  \A c \in conf[i] : Serving(c) = {} /\ pidfile[c] = Absent
    <2>1. written[i] = {}
      BY <1>3 DEF StatusCode
    <2>2. QED  BY <1>1, <1>2, <2>1 DEF Noted
  <1>4. ASSUME StatusCode(i) = 1
        PROVE  (\E c \in conf[i] : Serving(c) = {}) /\ (\E c \in conf[i] : pidfile[c] # Absent)
    <2>1. NotRunningCmds(i) # {} /\ written[i] # {}
      BY <1>4 DEF StatusCode
    <2>2. QED  BY <1>1, <1>2, <2>1 DEF Noted, NotRunningCmds
  <1>5. QED  BY <1>3, <1>4

\* After stop has removed the pidfiles nothing of its configuration is served.
LEMMA StopKnows ==
  ASSUME Kept, NEW i \in Invs, Stopped(i)
  PROVE  conf[i] \cap Up = {}
  BY DEF Kept, IInv, Known, KnownConfigured, Stopped, Up

\* The statements that status makes with its exit code stay true: what is down stays down
\* until the next start, and what was on record stays on record.
THEOREM StatusIsTrue ==
  ASSUME Alone, NoLoss
  PROVE  Spec => []StatusTruth
  <1>1. Init => StatusTruth
    BY DEF Init, StatusTruth, Exited
  <1>2. ASSUME Kept, StatusTruth, [Next]_vars PROVE StatusTruth'
    <2>1. ASSUME UNCHANGED <<pidfile, conf, op, pc, code>>,
                 \A c \in Cmds : Serving(c)' \subseteq Serving(c)
          PROVE  StatusTruth'
      BY <1>2, <2>1 DEF StatusTruth, Exited, Kept, TypeInv, TypeOK
    <2>2. ASSUME NEW i \in Invs, ~(pc'[i] = "exited" /\ op'[i] = "status" /\ code'[i] \in {1, 3})
          PROVE  StatusTruth'
      BY <2>2, OnlyOne DEF StatusTruth, Exited
    <2>3. ASSUME NEW i \in Invs, NEW rc, Finish(i, rc), op'[i] # "status" \/ rc \notin {1, 3}
          PROVE  StatusTruth'
      <3>1. code'[i] = rc
        BY <1>2, <2>3 DEF Finish, Kept, TypeInv, TypeOK
      <3>2. QED  BY <2>2, <2>3, <3>1
    <2>4. ASSUME NEW i \in Invs, Check(i) PROVE StatusTruth'
      <3>1. CASE \E c \in Cmds : BadPidfile(i, c)
        BY <1>2, <2>3, <3>1 DEF BadPidfile, ErrorCode
      <3>2. CASE Probe(i) \/ \E c \in Cmds : ReadPidfile(i, c)
        BY <1>2, <2>2, <3>2 DEF Probe, ReadPidfile, Goto, Kept, TypeInv, TypeOK
      <3>3. QED  BY <2>4, <3>1, <3>2 DEF Check
    <2>5. ASSUME NEW i \in Invs, Status(i) PROVE StatusTruth'
      <3>1. /\ UNCHANGED <<pidfile, conf>> /\ code'[i] = StatusCode(i)
            /\ \A c \in Cmds : Serving(c)' = Serving(c)
        BY <1>2, <2>5 DEF Status, Finish, Serving, Live, Kept, TypeInv, TypeOK
      <3>2. conf[i] \subseteq Cmds
        BY <1>2 DEF Kept, TypeInv, TypeOK
      <3>3. /\ code'[i] = 3 => \A c \in conf'[i] : Serving(c)' = {} /\ pidfile'[c] = Absent
            /\ code'[i] = 1 => /\ \E c \in conf'[i] : Serving(c)' = {}
                              /\ \E c \in conf'[i] : pidfile'[c] # Absent
        BY <1>2, <2>5, <3>1, <3>2, StatusKnows
      <3>4. QED  BY <3>3, OnlyOne DEF StatusTruth, Exited
    <2>6. ASSUME NEW i \in Invs, Start(i) PROVE StatusTruth'
      <3>1. op'[i] = op[i] /\ (pc[i] \in {"launch", "record", "write"} => op[i] = "start")
        BY <1>2, <2>6
        DEF Start, StartService, StartFails, TruncatePidfile, Started, WritePid, StartCommand,
            Kept, IInv, AtHand
      <3>2. CASE StartFails(i) \/ Started(i)
        BY <2>3, <3>1, <3>2 DEF StartFails, Started
      <3>3. CASE ~(StartFails(i) \/ Started(i))
        BY <1>2, <2>2, <2>6, <3>3
        DEF Start, StartService, TruncatePidfile, WritePid, StartCommand, Goto, Kept, TypeInv,
            TypeOK
      <3>4. QED  BY <3>2, <3>3
    <2>7. ASSUME NEW i \in Invs, Stop(i) PROVE StatusTruth'
      <3>1. CASE KillFails(i) \/ Stopped(i)
        BY <1>2, <2>3, <3>1 DEF KillFails, Stopped, Kept, IInv, AtHand
      <3>2. CASE ~(KillFails(i) \/ Stopped(i))
        BY <1>2, <2>2, <2>7, <3>2
        DEF Stop, StopService, AllChecked, WaitForServiceToStop, TickerFires, PollDone,
            TimerFires, Kill, ExpireDone, Terminate, Poll, Expire, RemovePidfile, Goto,
            loopVars, Kept, TypeInv, TypeOK
      <3>3. QED  BY <3>1, <3>2
    <2>8. ASSUME NEW i \in Invs, NEW o \in Ops, Begin(i, o) \/ BeginFails(i, o)
          PROVE  StatusTruth'
      <3>1. CASE Begin(i, o)
        BY <1>2, <2>2, <3>1 DEF Begin, Goto, Kept, TypeInv, TypeOK
      <3>2. CASE BeginFails(i, o)
        <4>1. op'[i] = o
          BY <1>2, <3>2 DEF BeginFails, Kept, TypeInv, TypeOK
        <4>2. QED  BY <2>3, <3>2, <4>1 DEF BeginFails, ErrorCode
      <3>3. QED  BY <2>8, <3>1, <3>2
    <2>9. ASSUME NEW p \in Pids, ProcExits(p) \/ Reap(p) \/ ForeignStarts(p)
          PROVE  StatusTruth'
      <3>1. UNCHANGED <<pidfile, conf, op, pc, code>>
        BY <2>9 DEF ProcExits, Reap, ForeignStarts, fileVars
      <3>2. \A c \in Cmds : Serving(c)' \subseteq Serving(c)
        BY <1>2, <2>9, ConstantsAssumption
        DEF ProcExits, Reap, ForeignStarts, Serving, Live, Kept, TypeInv, TypeOK
      <3>3. QED  BY <2>1, <3>1, <3>2
    <2>10. ASSUME NEW i \in Invs, Fail(i) PROVE FALSE
      BY <2>10 DEF Fail, Crash, CheckFails, RecordFails, RemoveFails, NoLoss
    <2>11. CASE (\E i \in Invs : SecondPasses(i)) \/ UNCHANGED vars
      <3>1. UNCHANGED <<pidfile, conf, op, pc, code, owner, zombie, killed>>
        BY <2>11 DEF SecondPasses, vars, procVars, fileVars
      <3>2. QED  BY <2>1, <3>1 DEF Serving, Live
    <2>12. QED
      BY <1>2, <2>4, <2>5, <2>6, <2>7, <2>8, <2>9, <2>10, <2>11 DEF Next, Run
  <1>3. Kept /\ StatusTruth /\ [Next]_vars => StatusTruth'
    BY <1>2
  <1>4. QED  BY <1>1, <1>3, KeptHolds, PTL DEF Spec

-----------------------------------------------------------------------------
(* The refinement.                                                         *)

\* Where nothing fails, an invocation has no exit code before it exits.
NoCodeYet == \A i \in Invs : pc[i] \notin {"idle", "exited"} => code[i] = 0

LEMMA NoCodeYetHolds ==
  ASSUME NoLoss
  PROVE  Spec => []NoCodeYet
  <1>1. Init => NoCodeYet
    BY DEF Init, NoCodeYet
  <1>2. ASSUME TypeInv, NoCodeYet, [Next]_vars PROVE NoCodeYet'
    <2>1. ASSUME UNCHANGED code, \A i \in Invs : pc'[i] \notin {"idle", "exited"} =>
                                                 pc[i] \notin {"idle", "exited"}
          PROVE  NoCodeYet'
      BY <1>2, <2>1 DEF NoCodeYet
    <2>2. ASSUME NEW i \in Invs, NEW rc, Finish(i, rc) PROVE NoCodeYet'
      <3>1. pc'[i] = "exited" /\ \A j \in Invs \ {i} : pc'[j] = pc[j] /\ code'[j] = code[j]
        BY <1>2, <2>2 DEF Finish, Goto, TypeInv, TypeOK
      <3>2. QED  BY <1>2, <3>1 DEF NoCodeYet
    <2>3. ASSUME NEW i \in Invs, Check(i) \/ Status(i) PROVE NoCodeYet'
      <3>1. CASE Status(i) \/ \E c \in Cmds : BadPidfile(i, c)
        BY <2>2, <3>1 DEF Status, BadPidfile
      <3>2. CASE Probe(i) \/ \E c \in Cmds : ReadPidfile(i, c)
        BY <1>2, <2>1, <3>2 DEF Probe, ReadPidfile, Goto, TypeInv, TypeOK
      <3>3. QED  BY <2>3, <3>1, <3>2 DEF Check
    <2>4. ASSUME NEW i \in Invs, Start(i) PROVE NoCodeYet'
      <3>1. CASE StartFails(i) \/ Started(i)
        BY <2>2, <3>1 DEF StartFails, Started
      <3>2. CASE ~(StartFails(i) \/ Started(i))
        <4>1. /\ code' = code /\ pc[i] \notin {"idle", "exited"}
              /\ \E l : pc' = [pc EXCEPT ![i] = l]
          BY <2>4, <3>2
          DEF Start, StartService, AllChecked, TruncatePidfile, WritePid, StartCommand, Goto
        <4>2. QED  BY <1>2, <2>1, <4>1 DEF TypeInv, TypeOK
      <3>3. QED  BY <3>1, <3>2
    <2>5. ASSUME NEW i \in Invs, Stop(i) PROVE NoCodeYet'
      <3>1. CASE KillFails(i) \/ Stopped(i)
        BY <2>2, <3>1 DEF KillFails, Stopped
      <3>2. CASE ~(KillFails(i) \/ Stopped(i))
        BY <1>2, <2>1, <2>5, <3>2
        DEF Stop, StopService, AllChecked, WaitForServiceToStop, TickerFires, PollDone,
            TimerFires, Kill, ExpireDone, Terminate, Poll, Expire, RemovePidfile, Goto,
            TypeInv, TypeOK
      <3>3. QED  BY <3>1, <3>2
    <2>6. ASSUME NEW i \in Invs, NEW o \in Ops, Begin(i, o) PROVE NoCodeYet'
      BY <1>2, <2>6 DEF NoCodeYet, Begin, Goto, TypeInv, TypeOK
    <2>7. ASSUME NEW i \in Invs, NEW o \in Ops, BeginFails(i, o) PROVE NoCodeYet'
      BY <2>2, <2>7 DEF BeginFails
    <2>8. ASSUME NEW p \in Pids, ProcExits(p) \/ Reap(p) \/ ForeignStarts(p)
          PROVE  NoCodeYet'
      BY <2>1, <2>8 DEF ProcExits, Reap, ForeignStarts
    <2>9. ASSUME NEW i \in Invs, Fail(i) PROVE FALSE
      BY <2>9 DEF Fail, Crash, CheckFails, RecordFails, RemoveFails, NoLoss
    <2>10. CASE (\E i \in Invs : SecondPasses(i)) \/ UNCHANGED vars
      BY <2>1, <2>10 DEF SecondPasses, vars
    <2>11. QED
      BY <1>2, <2>3, <2>4, <2>5, <2>6, <2>7, <2>8, <2>9, <2>10 DEF Next, Run
  <1>3. QED  BY <1>1, <1>2, TypeInvHolds, PTL DEF Spec

\* When the process of a pid has died or is about to, its command is no longer up.
LEMMA OneGoesDown ==
  ASSUME OneInstance, NEW p \in Pids, p \in zombie' \cup killed', owner' = owner,
         \A q \in Pids \ {p} : /\ q \in zombie' <=> q \in zombie
                               /\ q \in killed' <=> q \in killed
  PROVE  Up' = Up \/ \E c \in Up : Up' = Up \ {c}
  <1>1. \A c \in Cmds : Serving(c)' = Serving(c) \ {p}
    BY DEF Serving, Live
  <1>2. ASSUME NEW c \in Cmds, p \in Serving(c) PROVE c \in Up /\ Up' = Up \ {c}
    <2>1. Serving(c) = {p}
      BY <1>2 DEF OneInstance
    <2>2. \A d \in Cmds \ {c} : p \notin Serving(d)
      BY <1>2 DEF Serving
    <2>3. \A d \in Cmds \ {c} : Serving(d)' = Serving(d)
      <3>1. ASSUME NEW d \in Cmds \ {c} PROVE Serving(d) \ {p} = Serving(d)
        BY <2>2
      <3>2. QED  BY <1>1, <3>1
    <2>4. Serving(c) # {} /\ Serving(c)' = {}
      <3>1. Serving(c) \ {p} = {}
        BY <2>1
      <3>2. QED  BY <1>1, <1>2, <3>1
    <2>5. c \in Up /\ c \notin Up'
      BY <2>4 DEF Up
    <2>6. \A d \in Cmds \ {c} : d \in Up' <=> d \in Up
      BY <2>3 DEF Up
    <2>7. Up \subseteq Cmds /\ Up' \subseteq Cmds
      BY DEF Up
    <2>8. QED  BY <2>5, <2>6, <2>7
  <1>3. ASSUME \A c \in Cmds : p \notin Serving(c) PROVE Up' = Up
    BY <1>1, <1>3 DEF Up
  <1>4. QED  BY <1>2, <1>3

\* A launched process serves its command, unless its pid is marked to die.
LEMMA OneComesUp ==
  ASSUME TypeOK, NEW c \in Cmds, NEW p \in Pids, owner[p] = Nobody,
         owner' = [owner EXCEPT ![p] = c], UNCHANGED <<zombie, killed>>
  PROVE  Up' = Up \/ Up' = Up \cup {c}
  <1>1. \A d \in Cmds \ {c} : Serving(d)' = Serving(d)
    BY ConstantsAssumption DEF Serving, Live, TypeOK
  <1>2. Serving(c)' = Serving(c) \/ Serving(c)' = Serving(c) \cup {p}
    BY ConstantsAssumption DEF Serving, Live, TypeOK
  <1>3. QED  BY <1>1, <1>2 DEF Up

\* Steps that go unseen: nothing of what Service looks at has changed.
LEMMA Unseen ==
  ASSUME Up' = Up, UNCHANGED <<op, conf, code>>,
         (pc'[Only] \in {"idle", "exited"}) <=> (pc[Only] \in {"idle", "exited"})
  PROVE  UNCHANGED Promise!vars
  BY DEF Promise!vars, Up

\* Every exit of an invocation that has begun is an answer.
LEMMA FinishAnswers ==
  ASSUME Alone, Kept, NEW i \in Invs, pc[i] \notin {"idle", "exited"},
         NEW a \in {0, 1, 3, 4}, Finish(i, a),
         UNCHANGED <<owner, zombie, killed, op, conf>>,
         Promise!Truthful(a)
  PROVE  Promise!Answer(a)
  <1>1. i = Only /\ Up' = Up
    BY OnlyOne, SameUp
  <1>2. pc'[i] = "exited" /\ code'[i] = a
    BY DEF Finish, Goto, Kept, TypeInv, TypeOK
  <1>3. QED  BY <1>1, <1>2 DEF Promise!Answer, Up

Implemented == Kept /\ NoCodeYet /\ OneInstance

\* The processes: exits take a command down, the rest goes unseen.
LEMMA ProcessesImplement ==
  ASSUME Implemented, NEW p \in Pids, ProcExits(p) \/ Reap(p) \/ ForeignStarts(p)
  PROVE  [Promise!Next]_Promise!vars
  <1>1. UNCHANGED <<op, conf, code, pc>>
    BY DEF ProcExits, Reap, ForeignStarts
  <1>2. CASE ProcExits(p)
    <2>1. Up' = Up \/ \E c \in Up : Up' = Up \ {c}
      <3>1. \A q \in Pids \ {p} : /\ q \in zombie' <=> q \in zombie
                                  /\ q \in killed' <=> q \in killed
        BY <1>2 DEF ProcExits
      <3>2. p \in zombie' \cup killed' /\ owner' = owner
        BY <1>2 DEF ProcExits
      <3>3. QED  BY <3>1, <3>2, OneGoesDown DEF Implemented
    <2>2. CASE Up' = Up
      BY <1>1, <2>2, Unseen
    <2>3. ASSUME NEW c \in Up, Up' = Up \ {c} PROVE Promise!GoesDown(c) /\ c \in Cmds
      BY <1>1, <2>3 DEF Promise!GoesDown, Up
    <2>4. QED  BY <2>1, <2>2, <2>3 DEF Promise!Next
  <1>3. CASE Reap(p) \/ ForeignStarts(p)
    <2>1. \A c \in Cmds : Serving(c)' = Serving(c)
      BY <1>3, ConstantsAssumption
      DEF Reap, ForeignStarts, Free, Serving, Live, Implemented, Kept, TypeInv, TypeOK
    <2>2. Up' = Up
      BY <2>1 DEF Up
    <2>3. QED  BY <1>1, <2>2, Unseen
  <1>4. QED  BY <1>2, <1>3

LEMMA BeginImplements ==
  ASSUME Alone, Implemented, NEW i \in Invs, NEW o \in Ops, Begin(i, o) \/ BeginFails(i, o)
  PROVE  [Promise!Next]_Promise!vars
  <1>1. i = Only /\ pc[i] \in {"idle", "exited"} /\ o \in {"start", "status", "stop"}
    BY OnlyOne DEF Begin, BeginFails, Ops
  <1>2. Up' = Up
    BY SameUp DEF Begin, BeginFails, procVars
  <1>3. CASE Begin(i, o)
    <2>1. PICK cmds \in Configs : conf' = [conf EXCEPT ![i] = cmds]
      BY <1>3 DEF Begin
    <2>2. pc'[i] = "check" /\ op'[i] = o /\ code'[i] = 0 /\ conf'[i] = cmds
      BY <1>3, <2>1 DEF Begin, Goto, Implemented, Kept, TypeInv, TypeOK
    <2>3. Promise!Request(o, cmds)
      BY <1>1, <1>2, <2>2 DEF Promise!Request, Up
    <2>4. QED  BY <1>1, <2>1, <2>3 DEF Promise!Next
  <1>4. CASE BeginFails(i, o)
    <2>1. PICK rc \in {1, 4} : Finish(i, rc)
      BY <1>4 DEF BeginFails, ErrorCode
    <2>2. pc'[i] = "exited" /\ op'[i] = o /\ code'[i] = rc /\ conf' = conf
      BY <1>4, <2>1 DEF BeginFails, Finish, Goto, Implemented, Kept, TypeInv, TypeOK
    <2>3. Promise!Refuse(o)
      BY <1>1, <1>2, <2>1, <2>2 DEF Promise!Refuse, Up
    <2>4. QED  BY <1>1, <2>3 DEF Promise!Next
  <1>5. QED  BY <1>3, <1>4

LEMMA CheckImplements ==
  ASSUME Alone, Implemented, NEW i \in Invs, Check(i) \/ Status(i)
  PROVE  [Promise!Next]_Promise!vars
  <1>1. i = Only /\ op[i] \in Ops
    BY OnlyOne DEF Implemented, Kept, TypeInv, TypeOK
  <1>2. CASE Probe(i) \/ \E c \in Cmds : ReadPidfile(i, c)
    <2>1. Up' = Up
      BY <1>2, SameUp DEF Probe, ReadPidfile, procVars
    <2>2. UNCHANGED <<op, conf, code>>
      BY <1>2 DEF Probe, ReadPidfile
    <2>3. pc[i] \in {"check", "probe"} /\ pc'[i] \in {"check", "probe"}
      BY <1>2 DEF Probe, ReadPidfile, Goto, Implemented, Kept, TypeInv, TypeOK
    <2>4. QED  BY <1>1, <2>1, <2>2, <2>3, Unseen
  <1>3. ASSUME NEW c \in Cmds, BadPidfile(i, c) PROVE [Promise!Next]_Promise!vars
    <2>1. /\ ErrorCode(op[i]) \in {0, 1, 3, 4} /\ Promise!Truthful(ErrorCode(op[i]))
      BY <1>1 DEF ErrorCode, Promise!Truthful, Ops
    <2>2. Promise!Answer(ErrorCode(op[i]))
      BY <1>3, <2>1, FinishAnswers DEF BadPidfile, Implemented
    <2>3. QED  BY <2>1, <2>2 DEF Promise!Next
  <1>4. CASE Status(i)
    <2>1. StatusCode(i) \in {0, 1, 3} /\ op[i] = "status"
      BY <1>4 DEF StatusCode, Status, AllChecked
    <2>2. conf[i] \subseteq Cmds
      BY DEF Implemented, Kept, TypeInv, TypeOK
    <2>3. Promise!Truthful(StatusCode(i))
      <3>1. StatusCode(i) = 3 => Up \cap conf[i] = {}
        BY <1>4, <2>2, StatusKnows DEF Implemented, Up
      <3>2. StatusCode(i) = 1 => ~(conf[i] \subseteq Up)
        BY <1>4, <2>2, StatusKnows DEF Implemented, Up
      <3>3. QED  BY <1>1, <2>1, <3>1, <3>2 DEF Promise!Truthful, Up
    <2>4. Promise!Answer(StatusCode(i))
      BY <1>4, <2>1, <2>3, FinishAnswers DEF Status, AllChecked, Implemented
    <2>5. QED  BY <2>1, <2>4 DEF Promise!Next
  <1>5. QED  BY <1>2, <1>3, <1>4 DEF Check

LEMMA StartImplements ==
  ASSUME Alone, Implemented, NEW i \in Invs, Start(i)
  PROVE  [Promise!Next]_Promise!vars
  <1>1. i = Only /\ op[i] = "start"
    BY OnlyOne
    DEF Start, StartService, AllChecked, StartFails, TruncatePidfile, Started, WritePid,
        StartCommand, Implemented, Kept, IInv, AtHand
  <1>2. CASE StartFails(i) \/ Started(i)
    <2>1. PICK a \in {0, 1} : Finish(i, a)
      BY <1>2 DEF StartFails, Started
    <2>2. Promise!Truthful(a) /\ a \in {0, 1, 3, 4}
      BY <1>1 DEF Promise!Truthful
    <2>3. Promise!Answer(a)
      BY <1>2, <2>1, <2>2, FinishAnswers DEF StartFails, Started, Implemented
    <2>4. QED  BY <2>2, <2>3 DEF Promise!Next
  <1>3. CASE StartService(i) \/ TruncatePidfile(i) \/ \E p \in Pids : WritePid(i, p)
    <2>1. Up' = Up
      BY <1>3, SameUp DEF StartService, TruncatePidfile, WritePid, procVars
    <2>2. UNCHANGED <<op, conf, code>>
      BY <1>3 DEF StartService, TruncatePidfile, WritePid
    <2>3. /\ pc[i] \in {"check", "record", "write"}
          /\ \E l \in {"launch", "write"} : pc' = [pc EXCEPT ![i] = l]
      BY <1>3 DEF StartService, AllChecked, TruncatePidfile, WritePid, Goto
    <2>4. pc'[i] \in {"launch", "write"}
      BY <2>3 DEF Implemented, Kept, TypeInv, TypeOK
    <2>5. QED  BY <1>1, <2>1, <2>2, <2>3, <2>4, Unseen
  <1>4. ASSUME NEW c \in Cmds, NEW p \in Pids, StartCommand(i, c, p)
        PROVE  [Promise!Next]_Promise!vars
    <2>1. UNCHANGED <<op, conf, code>> /\ pc[i] = "launch" /\ pc'[i] = "record"
      BY <1>4 DEF StartCommand, Goto, Implemented, Kept, TypeInv, TypeOK
    <2>2. Up' = Up \/ Up' = Up \cup {c}
      BY <1>4, OneComesUp DEF StartCommand, Free, Implemented, Kept, TypeInv
    <2>3. c \in conf[i] \ Up
      <3>1. c \in todo[i] /\ c \in conf[i]
        BY <1>4 DEF StartCommand, Implemented, Kept, IInv, AtHand
      <3>2. Serving(c) = {}
        BY <2>1, <3>1 DEF Implemented, Kept, IInv, Known, KnownConfigured
      <3>3. QED  BY <3>1, <3>2 DEF Up
    <2>4. CASE Up' = Up
      BY <1>1, <2>1, <2>4, Unseen
    <2>5. CASE Up' = Up \cup {c}
      <3>1. Promise!Launch(c)
        BY <1>1, <2>1, <2>3, <2>5 DEF Promise!Launch, Up
      <3>2. QED  BY <3>1 DEF Promise!Next
    <2>6. QED  BY <2>2, <2>4, <2>5
  <1>5. QED  BY <1>2, <1>3, <1>4 DEF Start

LEMMA StopImplements ==
  ASSUME Alone, Implemented, NEW i \in Invs, Stop(i)
  PROVE  [Promise!Next]_Promise!vars
  <1>1. i = Only /\ op[i] = "stop"
    BY OnlyOne
    DEF Stop, StopService, AllChecked, WaitForServiceToStop, TickerFires, PollDone, TimerFires,
        Kill, KillFails, ExpireDone, Stopped, Terminate, Poll, Expire, RemovePidfile,
        Implemented, Kept, IInv, AtHand
  <1>2. CASE KillFails(i)
    <2>1. Promise!Truthful(1)
      BY <1>1 DEF Promise!Truthful
    <2>2. Promise!Answer(1)
      BY <1>2, <2>1, FinishAnswers DEF KillFails, Implemented
    <2>3. QED  BY <2>2 DEF Promise!Next
  <1>3. CASE Stopped(i)
    <2>1. pc[i] = "remove" /\ Finish(i, 0)
      BY <1>3 DEF Stopped, Implemented, NoCodeYet
    <2>2. Promise!Truthful(0)
      BY <1>1, <1>3, StopKnows DEF Promise!Truthful, Implemented, Up
    <2>3. Promise!Answer(0)
      BY <1>3, <2>1, <2>2, FinishAnswers DEF Stopped, Implemented
    <2>4. QED  BY <2>3 DEF Promise!Next
  <1>4. CASE ~(KillFails(i) \/ Stopped(i))
    <2>1. UNCHANGED <<op, conf, code, owner, zombie>>
      BY <1>4
      DEF Stop, StopService, WaitForServiceToStop, TickerFires, PollDone, TimerFires, Kill,
          ExpireDone, Terminate, Poll, Expire, RemovePidfile, procVars
    <2>2. pc[i] \notin {"idle", "exited"} /\ pc'[i] \notin {"idle", "exited"}
      <3>1. /\ pc[i] \notin {"idle", "exited"}
            /\ \/ pc' = pc
               \/ \E l \in {"term", "wait", "poll", "expire", "sigkill", "remove"} :
                    pc' = [pc EXCEPT ![i] = l]
        BY <1>4
        DEF Stop, StopService, AllChecked, WaitForServiceToStop, TickerFires, PollDone,
            TimerFires, Kill, ExpireDone, Terminate, Poll, Expire, RemovePidfile, Goto
      <3>2. QED  BY <3>1 DEF Implemented, Kept, TypeInv, TypeOK
    <2>3. Up' = Up \/ \E c \in Up : Up' = Up \ {c}
      <3>1. CASE killed' = killed
        BY <2>1, <3>1, SameUp
      <3>2. CASE Kill(i) /\ killed' # killed
        <4>1. handle[i][cur[i]] \in Pids /\ killed' = killed \cup {handle[i][cur[i]]}
          BY <3>2, ConstantsAssumption
          DEF Kill, Live, IsProcRunning, Implemented, Kept, TypeInv, TypeOK, LoopOK
        <4>2. \A q \in Pids \ {handle[i][cur[i]]} : q \in killed' <=> q \in killed
          BY <4>1
        <4>3. QED  BY <2>1, <4>1, <4>2, OneGoesDown DEF Implemented
      <3>3. killed' = killed \/ Kill(i)
        BY <1>4
        DEF Stop, StopService, WaitForServiceToStop, TickerFires, PollDone, TimerFires,
            ExpireDone, Terminate, Poll, Expire, RemovePidfile, procVars
      <3>4. QED  BY <3>1, <3>2, <3>3
    <2>4. CASE Up' = Up
      BY <1>1, <2>1, <2>2, <2>4, Unseen
    <2>5. ASSUME NEW c \in Up, Up' = Up \ {c} PROVE Promise!GoesDown(c) /\ c \in Cmds
      BY <1>1, <2>1, <2>2, <2>5 DEF Promise!GoesDown, Up
    <2>6. QED  BY <2>3, <2>4, <2>5 DEF Promise!Next
  <1>5. QED  BY <1>2, <1>3, <1>4

\* go-init keeps its promise, whatever the configurations list and however processes exit
\* and pids are reused between the steps of start, status and stop.
THEOREM PromiseIsKept ==
  ASSUME Alone, NoLoss
  PROVE  Spec => KeepsPromise
  <1>1. Init => Promise!Init
    BY OnlyOne, ConstantsAssumption DEF Init, Promise!Init, Serving
  <1>2. ASSUME Implemented, [Next]_vars PROVE [Promise!Next]_Promise!vars
    <2>1. CASE \E i \in Invs : Run(i)
      BY <1>2, <2>1, CheckImplements, StartImplements, StopImplements DEF Run
    <2>2. ASSUME NEW i \in Invs, Fail(i) PROVE FALSE
      BY <2>2 DEF Fail, Crash, CheckFails, RecordFails, RemoveFails, NoLoss
    <2>3. CASE (\E i \in Invs : SecondPasses(i)) \/ UNCHANGED vars
      <3>1. UNCHANGED <<owner, zombie, killed, op, conf, code, pc>>
        BY <2>3 DEF SecondPasses, vars, procVars
      <3>2. QED  BY <3>1, SameUp, Unseen
    <2>4. CASE \E i \in Invs, o \in Ops : Begin(i, o) \/ BeginFails(i, o)
      BY <1>2, <2>4, BeginImplements
    <2>5. CASE \E p \in Pids : ProcExits(p) \/ Reap(p) \/ ForeignStarts(p)
      BY <1>2, <2>5, ProcessesImplement
    <2>6. QED  BY <1>2, <2>1, <2>2, <2>3, <2>4, <2>5 DEF Next
  <1>3. QED
    BY <1>1, <1>2, KeptHolds, NoCodeYetHolds, NothingRunsTwice, PTL
    DEF Spec, KeepsPromise, Promise!Spec, Implemented

=============================================================================
