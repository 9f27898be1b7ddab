---------------------------- MODULE GoInitProofs ----------------------------
(***************************************************************************)
(* Theorems about GoInit for every set of commands, invocations and pids,  *)
(* every WaitSeconds and every choice of Faults, with proofs for TLAPS.    *)
(***************************************************************************)
EXTENDS GoInit, TLAPS

USE DEF cmdVars

(* Type correctness.                                                       *)

\* A command at hand is one that is still to be visited, and the loops of stop visit only
\* commands for which it holds a process.  TypeOK alone is not inductive: it needs this.
LoopOK(i) ==
  /\ pc[i] \in {"probe", "record", "write", "sigkill"} => cur[i] \in todo[i]
  /\ pc[i] \in {"term", "poll", "expire", "sigkill"} =>
       \A c \in todo[i] : handle[i][c] # NoPid

TypeInv == TypeOK /\ \A i \in Invs : LoopOK(i)

LEMMA InitTypeInv == Init => TypeInv
  BY ConstantsAssumption DEF Init, TypeInv, TypeOK, LoopOK, Ops, Codes

\* Finish leaves every variable that it changes in its type.
LEMMA FinishTypeOK ==
  ASSUME TypeOK, NEW i \in Invs, NEW rc \in Codes, Finish(i, rc),
         NEW o \in Ops, op' = op \/ op' = [op EXCEPT ![i] = o],
         UNCHANGED <<owner, zombie, termed, killed, pidfile, conf>>
  PROVE  TypeOK'
  <1> USE DEF TypeOK, Finish, Goto
  <1>1. parent' \in [Pids -> Invs \cup {InitProc}]
    OBVIOUS
  <1>2. op' \in [Invs -> Ops] /\ conf' \in [Invs -> SUBSET Cmds]
    OBVIOUS
  <1>3. /\ pc' \in [Invs -> {"idle", "check", "probe", "launch", "record", "write", "term",
                            "wait", "poll", "expire", "sigkill", "remove", "exited"}]
        /\ code' \in [Invs -> Codes]
    OBVIOUS
  <1>4. /\ todo' \in [Invs -> SUBSET Cmds]
        /\ cur' \in [Invs -> Cmds \cup {NoCmd}]
        /\ written' \in [Invs -> SUBSET Cmds]
    OBVIOUS
  <1>5. handle' \in [Invs -> [Cmds -> Pids \cup {NoPid}]]
    <2>1. [c \in Cmds |-> NoPid] \in [Cmds -> Pids \cup {NoPid}]
      OBVIOUS
    <2>2. handle' = [handle EXCEPT ![i] = [c \in Cmds |-> NoPid]]
      OBVIOUS
    <2>3. handle \in [Invs -> [Cmds -> Pids \cup {NoPid}]]
      OBVIOUS
    <2>4. QED  BY <2>1, <2>2, <2>3
  <1>6. elapsed' \in [Invs -> 0..WaitSeconds] /\ tick' \in [Invs -> BOOLEAN]
    BY ConstantsAssumption
  <1>7. QED  BY <1>1, <1>2, <1>3, <1>4, <1>5, <1>6

LEMMA ErrorCodes == \A o \in Ops : ErrorCode(o) \in Codes
  BY DEF Ops, ErrorCode, Codes

LEMMA ProcessesTypeOK ==
  ASSUME TypeInv, NEW p \in Pids, ProcExits(p) \/ Reap(p) \/ ForeignStarts(p)
  PROVE  TypeOK'
  <1>1. CASE ProcExits(p)
    BY <1>1 DEF TypeInv, TypeOK, ProcExits, fileVars, loopVars, timerVars
  <1>2. CASE Reap(p)
    BY <1>2 DEF TypeInv, TypeOK, Reap, fileVars, loopVars, timerVars
  <1>3. CASE ForeignStarts(p)
    BY <1>3 DEF TypeInv, TypeOK, ForeignStarts, fileVars, loopVars, timerVars
  <1>4. QED  BY <1>1, <1>2, <1>3

LEMMA BeginTypeOK ==
  ASSUME TypeInv, NEW i \in Invs, NEW o \in Ops, Begin(i, o) \/ BeginFails(i, o)
  PROVE  TypeOK'
  <1>1. CASE Begin(i, o)
    <2>1. PICK cmds \in SUBSET Cmds : /\ conf' = [conf EXCEPT ![i] = cmds]
                                     /\ todo' = [todo EXCEPT ![i] = cmds]
      BY <1>1, ConstantsAssumption DEF Begin
    <2>2. QED
      BY <1>1, <2>1 DEF TypeInv, TypeOK, Begin, Goto, Codes, procVars, fileVars, timerVars
  <1>2. CASE BeginFails(i, o)
    <2>1. PICK rc \in Codes : Finish(i, rc)
      BY <1>2, ErrorCodes DEF BeginFails, Codes
    <2>2. QED
      BY <1>2, <2>1, FinishTypeOK DEF TypeInv, BeginFails
  <1>3. QED  BY <1>1, <1>2

LEMMA CheckTypeOK ==
  ASSUME TypeInv, NEW i \in Invs, Check(i)
  PROVE  TypeOK'
  <1>1. CASE Probe(i)
    BY <1>1, ConstantsAssumption
    DEF TypeInv, TypeOK, LoopOK, Probe, Goto, Visited, procVars, fileVars, timerVars
  <1>2. ASSUME NEW c \in Cmds, ReadPidfile(i, c) PROVE TypeOK'
    <2>1. CASE pidfile[c] = Absent
      <3>1. todo' = [todo EXCEPT ![i] = @ \ {c}] /\ UNCHANGED <<pc, cur, handle>>
        BY <1>2, <2>1, ConstantsAssumption DEF ReadPidfile, Visited
      <3>2. QED
        BY <1>2, <3>1 DEF TypeInv, TypeOK, ReadPidfile, procVars, fileVars, timerVars
    <2>2. CASE pidfile[c] \in Pids
      <3>1. handle' = [handle EXCEPT ![i][c] = pidfile[c]]
        BY <1>2, <2>2, ConstantsAssumption DEF ReadPidfile
      <3>2. handle' \in [Invs -> [Cmds -> Pids \cup {NoPid}]]
        BY <2>2, <3>1 DEF TypeInv, TypeOK
      <3>3. /\ cur' = [cur EXCEPT ![i] = c] /\ todo' = todo
            /\ pc' = [pc EXCEPT ![i] = "probe"]
        BY <1>2, <2>2, ConstantsAssumption DEF ReadPidfile, Goto
      <3>4. QED
        BY <1>2, <3>2, <3>3
        DEF TypeInv, TypeOK, ReadPidfile, procVars, fileVars, timerVars
    <2>3. QED  BY <1>2, <2>1, <2>2 DEF ReadPidfile
  <1>3. ASSUME NEW c \in Cmds, BadPidfile(i, c) PROVE TypeOK'
    <2>1. op[i] \in Ops
      BY DEF TypeInv, TypeOK
    <2>2. QED
      BY <1>3, <2>1, ErrorCodes, FinishTypeOK DEF TypeInv, BadPidfile
  <1>4. QED  BY <1>1, <1>2, <1>3 DEF Check

LEMMA StatusTypeOK ==
  ASSUME TypeInv, NEW i \in Invs, Status(i)
  PROVE  TypeOK'
  <1>1. StatusCode(i) \in Codes
    BY DEF StatusCode, Codes
  <1>2. QED
    BY <1>1, FinishTypeOK DEF TypeInv, Status, Ops

LEMMA StartTypeOK ==
  ASSUME TypeInv, NEW i \in Invs, Start(i)
  PROVE  TypeOK'
  <1>1. CASE StartService(i)
    BY <1>1 DEF TypeInv, TypeOK, StartService, NotRunningCmds, Goto, procVars, fileVars, timerVars
  <1>2. CASE StartFails(i)
    BY <1>2, FinishTypeOK DEF TypeInv, StartFails, Ops, Codes
  <1>3. CASE TruncatePidfile(i)
    BY <1>3 DEF TypeInv, TypeOK, TruncatePidfile, Goto, procVars, loopVars, timerVars
  <1>4. CASE Started(i)
    BY <1>4, FinishTypeOK DEF TypeInv, Started, Ops, Codes
  <1>5. ASSUME NEW p \in Pids, WritePid(i, p) PROVE TypeOK'
    BY <1>5 DEF TypeInv, TypeOK, WritePid, Goto, Visited, procVars, timerVars
  <1>6. ASSUME NEW p \in Pids, NEW c \in Cmds, StartCommand(i, c, p) PROVE TypeOK'
    BY <1>6 DEF TypeInv, TypeOK, StartCommand, Goto, fileVars, timerVars
  <1>7. QED  BY <1>1, <1>2, <1>3, <1>4, <1>5, <1>6 DEF Start

LEMMA StopTypeOK ==
  ASSUME TypeInv, NEW i \in Invs, Stop(i)
  PROVE  TypeOK'
  <1> USE DEF Goto, Visited, procVars, fileVars, loopVars, timerVars
  <1>1. CASE StopService(i)
    BY <1>1 DEF TypeInv, TypeOK, StopService, RunningCmds
  <1>2. CASE WaitForServiceToStop(i)
    BY <1>2 DEF TypeInv, TypeOK, WaitForServiceToStop
  <1>3. CASE TickerFires(i)
    BY <1>3 DEF TypeInv, TypeOK, TickerFires, RunningCmds
  <1>4. CASE PollDone(i)
    <2>1. conf[i] \subseteq Cmds
      BY DEF TypeInv, TypeOK
    <2>2. /\ pc' = [pc EXCEPT ![i] = "remove"] \/ pc' = [pc EXCEPT ![i] = "wait"]
          /\ todo' = [todo EXCEPT ![i] = conf[i]] \/ todo' = todo
      BY <1>4 DEF PollDone
    <2>3. QED  BY <1>4, <2>1, <2>2 DEF TypeInv, TypeOK, PollDone
  <1>5. CASE TimerFires(i)
    BY <1>5 DEF TypeInv, TypeOK, TimerFires, RunningCmds
  <1>6. CASE Kill(i)
    <2>1. handle[i][cur[i]] \in Pids
      BY <1>6 DEF TypeInv, TypeOK, LoopOK, Kill
    <2>2. QED  BY <1>6, <2>1 DEF TypeInv, TypeOK, Kill
  <1>7. CASE KillFails(i)
    BY <1>7, FinishTypeOK DEF TypeInv, KillFails, Ops, Codes
  <1>8. CASE ExpireDone(i)
    BY <1>8 DEF TypeInv, TypeOK, ExpireDone
  <1>9. CASE Stopped(i)
    <2>1. code[i] \in Codes
      BY DEF TypeInv, TypeOK
    <2>2. QED  BY <1>9, <2>1, FinishTypeOK DEF TypeInv, Stopped, Ops
  <1>10. ASSUME NEW c \in Cmds, Terminate(i, c) PROVE TypeOK'
    <2>1. handle[i][c] \in Pids
      BY <1>10 DEF TypeInv, TypeOK, LoopOK, Terminate
    <2>2. QED  BY <1>10, <2>1 DEF TypeInv, TypeOK, Terminate
  <1>11. ASSUME NEW c \in Cmds, Poll(i, c) PROVE TypeOK'
    <2>1. handle' \in [Invs -> [Cmds -> Pids \cup {NoPid}]]
      <3>1. CASE IsProcRunning(handle[i][c])
        BY <1>11, <3>1 DEF TypeInv, TypeOK, Poll
      <3>2. CASE ~IsProcRunning(handle[i][c])
        BY <1>11, <3>2 DEF TypeInv, TypeOK, Poll
      <3>3. QED  BY <3>1, <3>2
    <2>2. QED  BY <1>11, <2>1 DEF TypeInv, TypeOK, Poll
  <1>12. ASSUME NEW c \in Cmds, Expire(i, c) PROVE TypeOK'
    <2>1. CASE IsProcRunning(handle[i][c])
      BY <1>12, <2>1 DEF TypeInv, TypeOK, Expire
    <2>2. CASE ~IsProcRunning(handle[i][c])
      <3>1. todo' = [todo EXCEPT ![i] = @ \ {c}] /\ UNCHANGED <<pc, cur>>
        BY <1>12, <2>2 DEF Expire
      <3>2. UNCHANGED <<procVars, fileVars, cmdVars, code, handle, written, timerVars>>
        BY <1>12 DEF Expire
      <3>3. QED  BY <3>1, <3>2 DEF TypeInv, TypeOK
    <2>3. QED  BY <2>1, <2>2
  <1>13. ASSUME NEW c \in Cmds, RemovePidfile(i, c) PROVE TypeOK'
    BY <1>13 DEF TypeInv, TypeOK, RemovePidfile
  <1>14. QED
    BY <1>1, <1>2, <1>3, <1>4, <1>5, <1>6, <1>7, <1>8, <1>9, <1>10, <1>11, <1>12, <1>13
    DEF Stop

LEMMA FailTypeOK ==
  ASSUME TypeInv, NEW i \in Invs, Fail(i)
  PROVE  TypeOK'
  <1>1. op[i] \in Ops
    BY DEF TypeInv, TypeOK
  <1>2. CASE Crash(i)
    BY <1>2, FinishTypeOK DEF TypeInv, Crash, Crashed, Codes, Ops
  <1>3. CASE CheckFails(i)
    BY <1>1, <1>3, ErrorCodes, FinishTypeOK DEF TypeInv, CheckFails
  <1>4. CASE RecordFails(i)
    BY <1>4, FinishTypeOK DEF TypeInv, RecordFails, Codes, Ops
  <1>5. ASSUME NEW c \in Cmds, RemoveFails(i, c) PROVE TypeOK'
    BY <1>5 DEF TypeInv, TypeOK, RemoveFails, Visited, Codes, procVars, fileVars, timerVars
  <1>6. QED  BY <1>2, <1>3, <1>4, <1>5 DEF Fail

LEMMA SecondTypeOK ==
  ASSUME TypeInv, NEW i \in Invs, SecondPasses(i)
  PROVE  TypeOK'
  BY ConstantsAssumption DEF TypeInv, TypeOK, SecondPasses, procVars, fileVars, loopVars

LEMMA FinishLoopOK ==
  ASSUME TypeInv, NEW i \in Invs, NEW rc \in Codes, Finish(i, rc), NEW j \in Invs
  PROVE  LoopOK(j)'
  BY DEF TypeInv, TypeOK, LoopOK, Finish, Goto

LEMMA StartLoopOK ==
  ASSUME TypeInv, NEW i \in Invs, Check(i) \/ Start(i), NEW j \in Invs
  PROVE  LoopOK(j)'
  <1> USE DEF TypeInv, TypeOK, LoopOK, Goto, Visited, loopVars
  <1>0. op[i] \in Ops /\ LoopOK(i) /\ LoopOK(j)
    OBVIOUS
  <1>1. CASE Probe(i)
    BY <1>0, <1>1 DEF Probe
  <1>2. ASSUME NEW c \in Cmds, ReadPidfile(i, c) PROVE LoopOK(j)'
    BY <1>0, <1>2 DEF ReadPidfile
  <1>3. ASSUME NEW c \in Cmds, BadPidfile(i, c) PROVE LoopOK(j)'
    BY <1>0, <1>3, ErrorCodes, FinishLoopOK DEF BadPidfile
  <1>4. CASE StartService(i)
    BY <1>0, <1>4 DEF StartService
  <1>5. CASE StartFails(i) \/ Started(i)
    BY <1>0, <1>5, FinishLoopOK DEF StartFails, Started, Codes
  <1>6. CASE TruncatePidfile(i)
    BY <1>0, <1>6 DEF TruncatePidfile
  <1>7. ASSUME NEW p \in Pids, WritePid(i, p) PROVE LoopOK(j)'
    BY <1>0, <1>7 DEF WritePid
  <1>8. ASSUME NEW p \in Pids, NEW c \in Cmds, StartCommand(i, c, p) PROVE LoopOK(j)'
    BY <1>0, <1>8 DEF StartCommand
  <1>9. QED
    BY <1>1, <1>2, <1>3, <1>4, <1>5, <1>6, <1>7, <1>8 DEF Check, Start

LEMMA StopLoopOK ==
  ASSUME TypeInv, NEW i \in Invs, Stop(i), NEW j \in Invs
  PROVE  LoopOK(j)'
  <1> USE DEF TypeInv, TypeOK, LoopOK, Goto, Visited, loopVars
  <1>0. code[i] \in Codes /\ LoopOK(i) /\ LoopOK(j)
    OBVIOUS
  <1>1. CASE StopService(i)
    BY <1>0, <1>1 DEF StopService, RunningCmds
  <1>2. CASE WaitForServiceToStop(i)
    BY <1>0, <1>2 DEF WaitForServiceToStop
  <1>3. CASE TickerFires(i) \/ TimerFires(i)
    BY <1>0, <1>3 DEF TickerFires, TimerFires, RunningCmds
  <1>4. CASE PollDone(i) \/ ExpireDone(i)
    BY <1>0, <1>4 DEF PollDone, ExpireDone
  <1>5. CASE Kill(i)
    BY <1>0, <1>5 DEF Kill
  <1>6. CASE KillFails(i) \/ Stopped(i)
    BY <1>0, <1>6, FinishLoopOK DEF KillFails, Stopped, Codes
  <1>7. ASSUME NEW c \in Cmds, Terminate(i, c) PROVE LoopOK(j)'
    BY <1>0, <1>7 DEF Terminate
  <1>8. ASSUME NEW c \in Cmds, Poll(i, c) PROVE LoopOK(j)'
    BY <1>0, <1>8 DEF Poll
  <1>9. ASSUME NEW c \in Cmds, Expire(i, c) PROVE LoopOK(j)'
    BY <1>0, <1>9 DEF Expire
  <1>10. ASSUME NEW c \in Cmds, RemovePidfile(i, c) PROVE LoopOK(j)'
    BY <1>0, <1>10 DEF RemovePidfile
  <1>11. QED
    BY <1>1, <1>2, <1>3, <1>4, <1>5, <1>6, <1>7, <1>8, <1>9, <1>10 DEF Stop

LEMMA FailLoopOK ==
  ASSUME TypeInv, NEW i \in Invs, Fail(i), NEW j \in Invs
  PROVE  LoopOK(j)'
  <1>1. op[i] \in Ops
    BY DEF TypeInv, TypeOK
  <1>2. CASE Crash(i) \/ RecordFails(i)
    BY <1>2, FinishLoopOK DEF Crash, Crashed, RecordFails, Codes
  <1>3. CASE CheckFails(i)
    BY <1>1, <1>3, ErrorCodes, FinishLoopOK DEF CheckFails
  <1>4. ASSUME NEW c \in Cmds, RemoveFails(i, c) PROVE LoopOK(j)'
    BY <1>4 DEF TypeInv, TypeOK, LoopOK, RemoveFails, Visited
  <1>5. QED  BY <1>2, <1>3, <1>4 DEF Fail

LEMMA BeginLoopOK ==
  ASSUME TypeInv, NEW i \in Invs, NEW o \in Ops, Begin(i, o) \/ BeginFails(i, o),
         NEW j \in Invs
  PROVE  LoopOK(j)'
  <1>1. CASE Begin(i, o)
    BY <1>1 DEF TypeInv, TypeOK, LoopOK, Begin, Goto
  <1>2. CASE BeginFails(i, o)
    BY <1>2, ErrorCodes, FinishLoopOK DEF BeginFails, Codes
  <1>3. QED  BY <1>1, <1>2

LEMMA TypeInvStep == TypeInv /\ [Next]_vars => TypeInv'
  <1> SUFFICES ASSUME TypeInv, [Next]_vars
               PROVE  TypeOK' /\ \A j \in Invs : LoopOK(j)'
    BY DEF TypeInv
  <1>1. CASE UNCHANGED vars
    BY <1>1 DEF TypeInv, TypeOK, LoopOK, vars
  <1>2. ASSUME NEW i \in Invs, Run(i) PROVE TypeOK' /\ \A j \in Invs : LoopOK(j)'
    <2>1. CASE Status(i)
      <3>1. StatusCode(i) \in Codes
        BY DEF StatusCode, Codes
      <3>2. QED  BY <2>1, <3>1, StatusTypeOK, FinishLoopOK DEF Status
    <2>2. QED
      BY <1>2, <2>1, CheckTypeOK, StartTypeOK, StopTypeOK, StartLoopOK, StopLoopOK DEF Run
  <1>3. ASSUME NEW i \in Invs, Fail(i) PROVE TypeOK' /\ \A j \in Invs : LoopOK(j)'
    BY <1>3, FailTypeOK, FailLoopOK
  <1>4. ASSUME NEW i \in Invs, SecondPasses(i)
        PROVE  TypeOK' /\ \A j \in Invs : LoopOK(j)'
    BY <1>4, SecondTypeOK DEF SecondPasses, TypeInv, LoopOK, loopVars
  <1>5. ASSUME NEW i \in Invs, NEW o \in Ops, Begin(i, o) \/ BeginFails(i, o)
        PROVE  TypeOK' /\ \A j \in Invs : LoopOK(j)'
    BY <1>5, BeginTypeOK, BeginLoopOK
  <1>6. ASSUME NEW p \in Pids, ProcExits(p) \/ Reap(p) \/ ForeignStarts(p)
        PROVE  TypeOK' /\ \A j \in Invs : LoopOK(j)'
    BY <1>6, ProcessesTypeOK
    DEF TypeInv, LoopOK, ProcExits, Reap, ForeignStarts, loopVars
  <1>7. QED  BY <1>1, <1>2, <1>3, <1>4, <1>5, <1>6 DEF Next

LEMMA TypeInvHolds == Spec => []TypeInv
  BY InitTypeInv, TypeInvStep, PTL DEF Spec

\* Every variable keeps its type, whatever fails and however many invocations overlap.
THEOREM TypeCorrect == Spec => []TypeOK
  <1>1. TypeInv => TypeOK
    BY DEF TypeInv
  <1>2. QED  BY <1>1, TypeInvHolds, PTL

-----------------------------------------------------------------------------
(* One invocation at a time, that is not killed and whose file operations  *)
(* succeed: the pidfiles and what the invocation knows lead to every       *)
(* process that serves.                                                    *)

\* The commands are run one after the other, as the script of an init system runs them.
Alone == \E i : Invs = {i}

\* No pid gets lost between the launch of a process and its pidfile.
NoLoss == "crash" \notin Faults /\ "io" \notin Faults

USE DEF KnownConfigured, RunningCmds

\* What IInv says of the only invocation.
Book(i) ==
  /\ unlinked = {}
  /\ AtHand(i)
  /\ \A c \in Cmds, p \in Pids : p \in Serving(c) => Known(i, c, p)

LEMMA BookIsIInv ==
  ASSUME Alone, NEW i \in Invs
  PROVE  IInv <=> TypeOK /\ Book(i)
  BY DEF Alone, IInv, Book, Serving

\* A step that ends the invocation keeps the book if each serving process is in its pidfile,
\* or if nothing serves.
LEMMA FinishBook ==
  ASSUME TypeInv, NEW i \in Invs, Book(i), NEW rc \in Codes, Finish(i, rc),
         UNCHANGED <<owner, zombie, killed, pidfile, conf>>,
         NEW o \in Ops, op'[i] = o,
         \A c \in Cmds, p \in Pids : p \in Serving(c) =>
           pidfile[c] = p /\ ~(c \in conf[i] /\ o = "stop" /\ rc = 0)
  PROVE  Book(i)'
  <1>1. unlinked' = {}
    BY DEF Book, Finish
  <1>2. pc'[i] = "exited" /\ code'[i] = rc
    BY DEF TypeInv, TypeOK, Finish, Goto
  <1>3. todo'[i] = {} /\ \A c \in Cmds : handle'[i][c] = NoPid
    BY DEF TypeInv, TypeOK, Finish
  <1>4. AtHand(i)'
    BY <1>2, <1>3 DEF AtHand
  <1>5. ASSUME NEW c \in Cmds, NEW p \in Pids, p \in Serving(c)' PROVE Known(i, c, p)'
    <2>1. p \in Serving(c)
      BY <1>5 DEF Serving, Live
    <2>2. QED  BY <1>2, <2>1 DEF Known, Exited, Recording
  <1>6. QED  BY <1>1, <1>4, <1>5 DEF Book

LEMMA ProcessesBook ==
  ASSUME TypeInv, NEW i \in Invs, Book(i),
         NEW q \in Pids, ProcExits(q) \/ Reap(q) \/ ForeignStarts(q)
  PROVE  Book(i)'
  <1>1. UNCHANGED <<pidfile, unlinked, op, conf, pc, code, todo, cur, handle>>
    BY DEF ProcExits, Reap, ForeignStarts, fileVars, loopVars
  <1>2. ASSUME NEW c \in Cmds, NEW p \in Pids, p \in Serving(c)' PROVE p \in Serving(c)
    BY <1>2, ConstantsAssumption
    DEF TypeInv, TypeOK, Serving, Live, ProcExits, Reap, ForeignStarts
  <1>3. QED
    BY <1>1, <1>2 DEF Book, AtHand, Known, Exited, Recording

LEMMA BeginBook ==
  ASSUME TypeInv, NEW i \in Invs, Book(i), NEW o \in Ops, Begin(i, o) \/ BeginFails(i, o)
  PROVE  Book(i)'
  <1>1. CASE Begin(i, o)
    <2>1. todo'[i] = conf'[i] /\ pc'[i] = "check" /\ pc[i] \in {"idle", "exited"}
      BY <1>1 DEF TypeInv, TypeOK, Begin, Goto
    <2>2. UNCHANGED <<owner, zombie, killed, pidfile, unlinked, handle>>
      BY <1>1 DEF Begin, procVars, fileVars
    <2>3. \A c \in Cmds : handle[i][c] = NoPid
      BY <2>1 DEF Book, AtHand
    <2>4. AtHand(i)'
      BY <2>1, <2>2, <2>3 DEF AtHand
    <2>5. ASSUME NEW c \in Cmds, NEW p \in Pids, p \in Serving(c)' PROVE Known(i, c, p)'
      <3>1. pidfile[c] = p
        BY <2>1, <2>2, <2>5 DEF Book, Known, Serving, Live
      <3>2. QED  BY <2>1, <2>2, <3>1 DEF Known, Exited, Recording
    <2>6. QED  BY <2>2, <2>4, <2>5 DEF Book
  <1>2. CASE BeginFails(i, o)
    <2>1. PICK rc \in {1, 4} : Finish(i, rc)
      BY <1>2 DEF BeginFails, ErrorCode
    <2>2. op'[i] = o
      BY <1>2 DEF BeginFails, TypeInv, TypeOK
    <2>3. \A c \in Cmds, p \in Pids : p \in Serving(c) => pidfile[c] = p
      BY <1>2 DEF Book, Known, BeginFails
    <2>4. QED
      BY <1>2, <2>1, <2>2, <2>3, FinishBook DEF BeginFails, Codes
  <1>3. QED  BY <1>1, <1>2

LEMMA CheckBook ==
  ASSUME TypeInv, NEW i \in Invs, Book(i), Check(i)
  PROVE  Book(i)'
  <1>1. CASE Probe(i)
    BY <1>1, ConstantsAssumption
    DEF Probe, Goto, Visited, IsProcRunning, procVars, fileVars,
        TypeInv, TypeOK, LoopOK, Book, AtHand, Known, Exited, Recording, Serving, Live
  <1>2. ASSUME NEW c \in Cmds, ReadPidfile(i, c) PROVE Book(i)'
    BY <1>2, ConstantsAssumption
    DEF ReadPidfile, Goto, Visited, procVars, fileVars,
        TypeInv, TypeOK, Book, AtHand, Known, Exited, Recording, Serving, Live
  <1>3. ASSUME NEW c \in Cmds, BadPidfile(i, c) PROVE Book(i)'
    <2>1. op[i] \in Ops /\ op' = op /\ ErrorCode(op[i]) \in {1, 4}
      BY <1>3 DEF ErrorCode, BadPidfile, TypeInv, TypeOK
    <2>2. \A d \in Cmds, p \in Pids : p \in Serving(d) => pidfile[d] = p
      BY <1>3 DEF BadPidfile, Book, Known
    <2>3. ErrorCode(op[i]) \in Codes /\ ErrorCode(op[i]) # 0
      BY <2>1 DEF Codes
    <2>4. QED
      BY <1>3, <2>1, <2>2, <2>3, FinishBook DEF BadPidfile
  <1>4. QED  BY <1>1, <1>2, <1>3 DEF Check

LEMMA StatusBook ==
  ASSUME TypeInv, NEW i \in Invs, Book(i), Status(i)
  PROVE  Book(i)'
  <1>1. op'[i] = "status" /\ "status" \in Ops /\ StatusCode(i) \in Codes
    BY DEF Status, AllChecked, Ops, StatusCode, Codes
  <1>2. \A c \in Cmds, p \in Pids : p \in Serving(c) => pidfile[c] = p
    BY DEF Status, AllChecked, Book, Known
  <1>3. QED
    BY <1>1, <1>2, FinishBook DEF Status

LEMMA StartBook ==
  ASSUME TypeInv, NEW i \in Invs, Book(i), Start(i), NoLoss
  PROVE  Book(i)'
  <1>1. CASE StartService(i)
    BY <1>1, ConstantsAssumption
    DEF StartService, AllChecked, NotRunningCmds, RunningCmds, Goto, procVars, fileVars,
        TypeInv, TypeOK, Book, AtHand, Known, Exited, Recording, Serving, Live
  <1>2. CASE StartFails(i) \/ Started(i)
    <2>1. op[i] = "start" /\ op' = op /\ "start" \in Ops
      BY <1>2 DEF StartFails, Started, Book, AtHand, Ops
    <2>2. \A c \in Cmds, p \in Pids : p \in Serving(c) => pidfile[c] = p
      BY <1>2 DEF StartFails, Started, Book, Known
    <2>3. PICK rc \in Codes : Finish(i, rc)
      BY <1>2 DEF StartFails, Started, Codes
    <2>4. QED
      BY <1>2, <2>1, <2>2, <2>3, FinishBook DEF StartFails, Started
  <1>3. CASE TruncatePidfile(i)
    BY <1>3
    DEF TruncatePidfile, Goto, procVars, loopVars,
        TypeInv, TypeOK, LoopOK, Book, AtHand, Known, Exited, Recording, Serving, Live
  <1>4. ASSUME NEW q \in Pids, WritePid(i, q) PROVE Book(i)'
    <2>1. q = handle[i][cur[i]] /\ i \notin unlinked /\ cur[i] \in Cmds
      BY <1>4, ConstantsAssumption DEF WritePid, TypeInv, TypeOK, LoopOK, Book, AtHand
    <2>2. QED
      BY <1>4, <2>1
      DEF WritePid, Goto, Visited, procVars,
          TypeInv, TypeOK, LoopOK, Book, AtHand, Known, Exited, Recording, Serving, Live
  <1>5. ASSUME NEW q \in Pids, NEW d \in Cmds, StartCommand(i, d, q) PROVE Book(i)'
    <2>1. /\ pc[i] = "launch" /\ pc'[i] = "record" /\ cur'[i] = d /\ handle'[i][d] = q
          /\ d \in todo[i] /\ UNCHANGED <<pidfile, unlinked, op, conf, todo>>
          /\ \A c \in Cmds \ {d} : handle'[i][c] = handle[i][c]
      BY <1>5 DEF StartCommand, Goto, fileVars, TypeInv, TypeOK
    <2>2. ASSUME NEW c \in Cmds, NEW p \in Pids, p \in Serving(c)', ~(c = d /\ p = q)
          PROVE  c # d /\ pidfile[c] = p /\ c \notin todo[i]
      <3>1. p \in Serving(c)
        BY <1>5, <2>2, ConstantsAssumption
        DEF StartCommand, Free, Serving, Live, TypeInv, TypeOK
      <3>2. QED  BY <2>1, <3>1 DEF Book, AtHand, Known
    <2>3. AtHand(i)'
      BY <2>1 DEF Book, AtHand
    <2>4. ASSUME NEW c \in Cmds, NEW p \in Pids, p \in Serving(c)' PROVE Known(i, c, p)'
      <3>1. CASE c = d /\ p = q
        <4>1. c \in conf'[i]
          BY <2>1, <3>1 DEF Book, AtHand
        <4>2. QED  BY <2>1, <3>1, <4>1 DEF Known, Exited, Recording
      <3>2. CASE ~(c = d /\ p = q)
        BY <2>1, <2>2, <2>4, <3>2 DEF Known, Exited, Recording
      <3>3. QED  BY <3>1, <3>2
    <2>5. QED  BY <2>1, <2>3, <2>4 DEF Book
  <1>6. QED  BY <1>1, <1>2, <1>3, <1>4, <1>5 DEF Start

LEMMA StopBook ==
  ASSUME TypeInv, NEW i \in Invs, Book(i), Stop(i), Alone
  PROVE  Book(i)'
  <1>1. CASE StopService(i)
    BY <1>1, ConstantsAssumption
    DEF StopService, AllChecked, RunningCmds, Goto, procVars, fileVars,
        TypeInv, TypeOK, Book, AtHand, Known, Exited, Recording, Serving, Live
  <1>2. CASE WaitForServiceToStop(i)
    BY <1>2
    DEF WaitForServiceToStop, Goto, procVars, fileVars, loopVars,
        TypeInv, TypeOK, Book, AtHand, Known, Exited, Recording, Serving, Live
  <1>3. CASE TickerFires(i) \/ TimerFires(i)
    BY <1>3, ConstantsAssumption
    DEF TickerFires, TimerFires, RunningCmds, Goto, procVars, fileVars,
        TypeInv, TypeOK, Book, AtHand, Known, Exited, Recording, Serving, Live
  <1>4. CASE PollDone(i)
    BY <1>4, ConstantsAssumption
    DEF PollDone, RunningCmds, Goto, procVars, fileVars,
        TypeInv, TypeOK, Book, AtHand, Known, Exited, Recording, Serving, Live
  <1>5. CASE Kill(i)
    BY <1>5
    DEF Kill, Goto, Visited, fileVars,
        TypeInv, TypeOK, LoopOK, Book, AtHand, Known, Exited, Recording, Serving, Live
  <1>6. CASE KillFails(i)
    <2>1. op' = op /\ op[i] \in Ops /\ 1 \in Codes
      BY <1>6 DEF KillFails, TypeInv, TypeOK, Codes
    <2>2. \A c \in Cmds, p \in Pids : p \in Serving(c) => pidfile[c] = p
      BY <1>6 DEF KillFails, Book, Known
    <2>3. QED
      BY <1>6, <2>1, <2>2, FinishBook DEF KillFails
  <1>7. CASE ExpireDone(i)
    BY <1>7
    DEF ExpireDone, Goto, procVars, fileVars,
        TypeInv, TypeOK, Book, AtHand, Known, Exited, Recording, Serving, Live
  <1>8. CASE Stopped(i)
    <2>1. op' = op /\ op[i] \in Ops /\ code[i] \in Codes
      BY <1>8 DEF Stopped, TypeInv, TypeOK
    <2>2. \A c \in Cmds, p \in Pids : p \in Serving(c) => pidfile[c] = p /\ c \notin conf[i]
      BY <1>8 DEF Stopped, Book, Known
    <2>3. QED
      BY <1>8, <2>1, <2>2, FinishBook DEF Stopped
  <1>9. ASSUME NEW c \in Cmds, Terminate(i, c) PROVE Book(i)'
    BY <1>9
    DEF Terminate, Visited, fileVars,
        TypeInv, TypeOK, Book, AtHand, Known, Exited, Recording, Serving, Live
  <1>10. ASSUME NEW c \in Cmds, Poll(i, c) PROVE Book(i)'
    BY <1>10
    DEF Poll, Visited, IsProcRunning, procVars, fileVars, timerVars,
        TypeInv, TypeOK, Book, AtHand, Known, Exited, Recording, Serving, Live
  <1>11. ASSUME NEW c \in Cmds, Expire(i, c) PROVE Book(i)'
    BY <1>11
    DEF Expire, Goto, Visited, IsProcRunning, procVars, fileVars,
        TypeInv, TypeOK, Book, AtHand, Known, Exited, Recording, Serving, Live
  <1>12. ASSUME NEW c \in Cmds, RemovePidfile(i, c) PROVE Book(i)'
    <2>1. unlinked' = {}
      BY <1>12 DEF RemovePidfile, Alone, Book
    <2>2. QED
      BY <1>12, <2>1
      DEF RemovePidfile, Visited, procVars,
          TypeInv, TypeOK, Book, AtHand, Known, Exited, Recording, Serving, Live
  <1>13. QED
    BY <1>1, <1>2, <1>3, <1>4, <1>5, <1>6, <1>7, <1>8, <1>9, <1>10, <1>11, <1>12 DEF Stop

LEMMA SecondBook ==
  ASSUME TypeInv, NEW i \in Invs, Book(i), SecondPasses(i)
  PROVE  Book(i)'
  BY DEF SecondPasses, procVars, fileVars, loopVars,
         Book, AtHand, Known, Exited, Recording, Serving, Live

\* One invocation at a time, no crash and no failing file operation: the book is kept.
THEOREM BookIsKept ==
  ASSUME Alone, NoLoss
  PROVE  Spec => []IInv
  <1>1. Init => IInv
    BY InitTypeInv DEF Init, IInv, TypeInv, AtHand, Known, Exited, Recording, Serving, Live
  <1>2. TypeInv /\ TypeInv' /\ IInv /\ [Next]_vars => IInv'
    <2> SUFFICES ASSUME TypeInv, TypeInv', IInv, [Next]_vars PROVE IInv'
      OBVIOUS
    <2>1. CASE UNCHANGED vars
      BY <2>1, TypeInvStep
      DEF vars, IInv, TypeInv, AtHand, Known, Exited, Recording, Serving, Live
    <2>2. ASSUME Next, NEW i \in Invs PROVE Book(i)'
      <3>1. Book(i)
        BY BookIsIInv
      <3>2. ASSUME NEW j \in Invs PROVE j = i
        BY DEF Alone
      <3>3. CASE \E j \in Invs : Run(j) \/ Fail(j) \/ SecondPasses(j)
        <4>1. Run(i) \/ Fail(i) \/ SecondPasses(i)
          BY <3>2, <3>3
        <4>2. ~Fail(i)
          BY DEF Fail, Crash, CheckFails, RecordFails, RemoveFails, NoLoss
        <4>3. QED
          BY <3>1, <4>1, <4>2, CheckBook, StatusBook, StartBook, StopBook, SecondBook DEF Run
      <3>4. CASE \E j \in Invs, o \in Ops : Begin(j, o) \/ BeginFails(j, o)
        BY <3>1, <3>2, <3>4, BeginBook
      <3>5. CASE \E p \in Pids : ProcExits(p) \/ Reap(p) \/ ForeignStarts(p)
        BY <3>1, <3>5, ProcessesBook
      <3>6. QED  BY <2>2, <3>3, <3>4, <3>5 DEF Next
    <2>3. ASSUME Next PROVE IInv'
      BY <2>2, <2>3 DEF Alone, IInv, Book, TypeInv, Serving
    <2>4. QED  BY <2>1, <2>3
  <1>3. QED  BY <1>1, <1>2, TypeInvHolds, PTL DEF Spec

\* Every process that serves a command can be found through its pidfile.
THEOREM NothingIsOrphaned ==
  ASSUME Alone, NoLoss
  PROVE  Spec => []NoOrphan
  <1>1. IInv => NoOrphan
    BY DEF Alone, IInv, TypeOK, NoOrphan, Known, Recording, Serving
  <1>2. QED  BY <1>1, BookIsKept, PTL

\* A command is never served by two processes.
THEOREM NothingRunsTwice ==
  ASSUME Alone, NoLoss
  PROVE  Spec => []OneInstance
  <1>1. IInv => OneInstance
    BY DEF Alone, IInv, TypeOK, OneInstance, Known, Recording, Serving
  <1>2. QED  BY <1>1, BookIsKept, PTL

\* A stop that exits 0 leaves no process of the service alive, but those it has killed.
THEOREM StopStops ==
  ASSUME Alone, NoLoss
  PROVE  Spec => []StopMeansStopped
  <1>1. IInv => StopMeansStopped
    BY DEF IInv, TypeOK, StopMeansStopped, Known, Serving
  <1>2. QED  BY <1>1, BookIsKept, PTL

=============================================================================
