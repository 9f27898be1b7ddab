----------------------------- MODULE StartupLog -----------------------------
(***************************************************************************)
(* var/log/startup.log, or the startup.log of a subProcess: how go-init    *)
(* rotates, truncates and appends to it (init/cli/logging.go, cli.go), and *)
(* where its messages and the output of the process end up.  The logs have *)
(* nothing to do with one another, and a behaviour is that of one of them. *)
(*                                                                         *)
(* Files are inodes, numbered in the order of their creation: a file that  *)
(* is open stays the same file when it is renamed.  Place 0 is the log and *)
(* place k + 1 is its number k.  What is written at once is one entry.     *)
(***************************************************************************)
EXTENDS Integers, Sequences

CONSTANTS
  Limit,   \* the highest number of an old log (limit, 5 in the code)
  Invs,    \* go-init invocations that may run at the same time
  MaxLogs, \* bound: logs that are ever created
  MaxLen   \* bound: entries of a log that the model remembers, the first ones

ASSUME ConstantsAssumption ==
  /\ Limit \in Nat
  /\ MaxLogs \in Nat /\ MaxLen \in Nat

NoFile == 0
Inodes == 1..MaxLogs
Files  == Inodes \cup {NoFile}
Places == 0..(Limit + 1)
Ops    == {"start", "status", "stop"}

\* A message of go-init, the log of compiling a command, output of the service, or nothing
\* where an entry was skipped.
Entries == {"msg", "compile", "out", "hole"}

VARIABLES
  log,     \* whose log it is, which never changes
  dir,     \* dir[k]: the file at place k
  data,    \* data[f]: the entries of file f
  newest,  \* the file created last
  service, \* the file the running service or subProcess writes to, or NoFile
  op,      \* op[i]: the command invocation i executes
  pc,      \* pc[i]: where it is
  at,      \* at[i]: the place whose file its rotation moves next
  out,     \* out[i]: its file: ctx.App.Stdout, or the compilation log of the subProcess
  off      \* off[i]: the position at which it writes, if not opened for appending

fileVars == <<dir, data, newest>>
vars == <<log, dir, data, newest, service, op, pc, at, out, off>>

TypeOK ==
  /\ log \in {"primary", "sub"}
  /\ dir \in [Places -> Files]
  /\ data \in [Inodes -> Seq(Entries)]
  /\ newest \in Files
  /\ service \in Files
  /\ op \in [Invs -> Ops]
  /\ pc \in [Invs -> {"idle", "rotate", "open", "config", "launch", "end", "close"}]
  /\ at \in [Invs -> Places]
  /\ out \in [Invs -> Files]
  /\ off \in [Invs -> Nat]

Init ==
  /\ log \in {"primary", "sub"}
  /\ dir = [k \in Places |-> NoFile]
  /\ data = [f \in Inodes |-> <<>>]
  /\ newest = NoFile
  /\ service = NoFile
  /\ op = [i \in Invs |-> "status"]
  /\ pc = [i \in Invs |-> "idle"]
  /\ at = [i \in Invs |-> Limit + 1]
  /\ out = [i \in Invs |-> NoFile]
  /\ off = [i \in Invs |-> 0]

-----------------------------------------------------------------------------
(* Files.                                                                  *)

\* One os.OpenFile with O_CREATE: f is the file at place 0, created if there was none.
OpenStartupLog(f) ==
  \/ /\ dir[0] # NoFile /\ f = dir[0]
     /\ UNCHANGED <<dir, newest>>
  \/ /\ dir[0] = NoFile /\ f = newest + 1
     /\ dir' = [dir EXCEPT ![0] = f]
     /\ newest' = f

Appended(f, e) ==
  data' = IF Len(data[f]) < MaxLen THEN [data EXCEPT ![f] = Append(@, e)] ELSE data

\* The positions of a log after a write at position n + 1.
Positions(f, n) ==
  1..(IF n < Len(data[f]) THEN Len(data[f]) ELSE IF n < MaxLen THEN n + 1 ELSE MaxLen)

\* A write at position n + 1: over what is there, or beyond the end.
WrittenAt(f, n, e) ==
  data' = [data EXCEPT ![f] =
             [k \in Positions(f, n) |->
                IF k = n + 1 THEN e ELSE IF k <= Len(@) THEN @[k] ELSE "hole"]]

-----------------------------------------------------------------------------
(* One invocation.                                                         *)

Goto(i, l) == pc' = [pc EXCEPT ![i] = l]

\* The process is gone, and its files are closed.
Close(i) ==
  /\ Goto(i, "idle")
  /\ at' = [at EXCEPT ![i] = Limit + 1]
  /\ out' = [out EXCEPT ![i] = NoFile]
  /\ off' = [off EXCEPT ![i] = 0]

\* status opens no log of a subProcess; the others do not before its compilation.
Begin(i, o) ==
  /\ pc[i] = "idle"
  /\ op' = [op EXCEPT ![i] = o]
  /\ Goto(i, IF o = "start" THEN "rotate"
             ELSE IF o = "stop" \/ log = "primary" THEN "open" ELSE "close")
  /\ UNCHANGED <<log, fileVars, service, at, out, off>>

\* rotate: the oldest log is removed, then each is renamed to the next number.  Errors, which
\* a missing file also is, are ignored.
RemoveOldest(i) ==
  /\ pc[i] = "rotate" /\ at[i] = Limit + 1
  /\ dir' = [dir EXCEPT ![Limit + 1] = NoFile]
  /\ at' = [at EXCEPT ![i] = Limit]
  /\ UNCHANGED <<data, newest, service, log, op, pc, out, off>>

\* Mutant: two old logs change places instead of moving up.
RenameSwapping(i) ==
  /\ pc[i] = "rotate" /\ at[i] <= Limit
  /\ dir' = [dir EXCEPT ![at[i]] = dir[at[i] + 1], ![at[i] + 1] = dir[at[i]]]
  /\ IF at[i] = 0 THEN Goto(i, "open") /\ UNCHANGED at
     ELSE at' = [at EXCEPT ![i] = @ - 1] /\ UNCHANGED pc
  /\ UNCHANGED <<data, newest, service, log, op, out, off>>

\* Mutant: the loop counts upwards.
RenameUpwards(i) ==
  /\ pc[i] = "rotate" /\ at[i] <= Limit
  /\ LET k == Limit - at[i] IN
       dir' = IF dir[k] = NoFile THEN dir
              ELSE [dir EXCEPT ![k] = NoFile, ![k + 1] = dir[k]]
  /\ IF at[i] = 0 THEN Goto(i, "open") /\ UNCHANGED at
     ELSE at' = [at EXCEPT ![i] = @ - 1] /\ UNCHANGED pc
  /\ UNCHANGED <<data, newest, service, log, op, out, off>>

\* Mutant: the loop ends one step too late.
RenamePastZero(i) ==
  /\ pc[i] = "rotate" /\ at[i] <= Limit
  /\ dir' = IF dir[at[i]] = NoFile THEN dir
            ELSE [dir EXCEPT ![at[i]] = NoFile, ![at[i] + 1] = dir[at[i]]]
  /\ at' = [at EXCEPT ![i] = @ - 1]
  /\ UNCHANGED <<data, newest, service, log, op, pc, out, off>>

Rename(i) ==
  /\ pc[i] = "rotate" /\ at[i] <= Limit
  /\ dir' = IF dir[at[i]] = NoFile THEN dir
            ELSE [dir EXCEPT ![at[i]] = NoFile, ![at[i] + 1] = dir[at[i]]]
  /\ IF at[i] = 0 THEN Goto(i, "open") /\ UNCHANGED at
     ELSE at' = [at EXCEPT ![i] = @ - 1] /\ UNCHANGED pc
  /\ UNCHANGED <<data, newest, service, log, op, out, off>>

\* Mutant: status and stop truncate the log, too.
OpenOutputTruncating(i) ==
  /\ pc[i] = "open"
  /\ Goto(i, "config")
  /\ \E f \in Inodes :
       /\ OpenStartupLog(f)
       /\ out' = [out EXCEPT ![i] = f]
       /\ data' = [data EXCEPT ![f] = <<>>]
  /\ off' = [off EXCEPT ![i] = 0]
  /\ UNCHANGED <<service, log, op, at>>

\* The first OpenFile of the invocation: start truncates, status and stop append.
OpenOutput(i) ==
  /\ pc[i] = "open"
  /\ Goto(i, "config")
  /\ \E f \in Inodes :
       /\ OpenStartupLog(f)
       /\ out' = [out EXCEPT ![i] = f]
       /\ data' = IF op[i] = "start" THEN [data EXCEPT ![f] = <<>>] ELSE data
  /\ off' = [off EXCEPT ![i] = 0]
  /\ UNCHANGED <<service, log, op, at>>

\* A message to ctx.App.Stdout: start has not opened it for appending.
Message(i) ==
  /\ log = "primary"
  /\ IF op[i] = "start" THEN WrittenAt(out[i], off[i], "msg") ELSE Appended(out[i], "msg")
  /\ off' = IF off[i] < MaxLen THEN [off EXCEPT ![i] = @ + 1] ELSE off

\* "Failed to read custom config file, assuming no custom config": it goes on.
ConfigMessage(i) ==
  /\ pc[i] = "config"
  /\ Message(i)
  /\ UNCHANGED <<dir, newest, service, log, op, pc, at, out>>

\* compileCmdFromConfig: start and stop open the log once more, to append; status does not.
CompileCmds(i) ==
  /\ log = "primary" /\ pc[i] = "config"
  /\ Goto(i, IF op[i] = "start" THEN "launch" ELSE "end")
  /\ IF op[i] = "status"
     THEN UNCHANGED fileVars
     ELSE \E f \in Inodes : OpenStartupLog(f) /\ Appended(f, "compile")
  /\ UNCHANGED <<service, log, op, at, out, off>>

\* The same for a subProcess, whose log has just been opened for it and is closed again.
CompileSub(i) ==
  /\ log = "sub" /\ pc[i] = "config"
  /\ IF op[i] = "start" THEN WrittenAt(out[i], off[i], "compile") ELSE Appended(out[i], "compile")
  /\ Goto(i, IF op[i] = "start" THEN "launch" ELSE "close")
  /\ out' = [out EXCEPT ![i] = NoFile]
  /\ UNCHANGED <<dir, newest, service, log, op, at, off>>

\* startCommand: MkDirs prints each directory it creates.
CreateDirectory(i) ==
  /\ pc[i] = "launch" /\ service = NoFile
  /\ Message(i)
  /\ UNCHANGED <<dir, newest, service, log, op, pc, at, out>>

StartCommand(i) ==
  /\ pc[i] = "launch" /\ service = NoFile
  /\ \E f \in Inodes : OpenStartupLog(f) /\ service' = f
  /\ Goto(i, "end")
  /\ UNCHANGED <<data, log, op, at, out, off>>

\* The service runs already.
NothingToStart(i) ==
  /\ pc[i] = "launch" /\ service # NoFile
  /\ Goto(i, "end")
  /\ UNCHANGED <<fileVars, service, log, op, at, out, off>>

\* An error, or what status and stop have found, is told at the end.
LastMessage(i) ==
  /\ pc[i] \in {"config", "launch", "end"}
  /\ Message(i)
  /\ Goto(i, "close")
  /\ UNCHANGED <<dir, newest, service, log, op, at, out>>

\* All is well, or the invocation has been killed.
End(i) ==
  /\ pc[i] # "idle"
  /\ Close(i)
  /\ UNCHANGED <<fileVars, service, log, op>>

ServiceWrites ==
  /\ service # NoFile
  /\ Appended(service, "out")
  /\ UNCHANGED <<dir, newest, service, log, op, pc, at, out, off>>

ServiceExits ==
  /\ service # NoFile
  /\ service' = NoFile
  /\ UNCHANGED <<fileVars, log, op, pc, at, out, off>>

Next ==
  \/ ServiceWrites \/ ServiceExits
  \/ \E i \in Invs :
       \/ \E o \in Ops : Begin(i, o)
       \/ RemoveOldest(i) \/ Rename(i) \/ OpenOutput(i) \/ ConfigMessage(i)
       \/ CompileCmds(i) \/ CompileSub(i) \/ CreateDirectory(i) \/ StartCommand(i)
       \/ NothingToStart(i) \/ LastMessage(i) \/ End(i)

Spec == Init /\ [][Next]_vars

-----------------------------------------------------------------------------
(* Properties.                                                             *)

InDir(f) == \E k \in Places : dir[k] = f

\* A log with a higher number is older, even if rotations overlap or are cut short (rotate).
LogsInOrder ==
  \A k, l \in Places :
    (k < l /\ dir[k] # NoFile /\ dir[l] # NoFile) => dir[k] > dir[l]

\* Alone: what a rotation has not moved yet it will not overwrite: the next place is empty.
NextPlaceEmpty ==
  \A i \in Invs :
    /\ pc[i] = "rotate" /\ at[i] <= Limit => dir[at[i] + 1] = NoFile
    /\ pc[i] = "idle" => at[i] = Limit + 1

\* Alone: start opens a new log, which is empty while only start writes to it.
StartsAnew ==
  /\ service <= newest /\ \A i \in Invs : out[i] <= newest
  /\ \A f \in Inodes : f > newest => data[f] = <<>>
  /\ \A i \in Invs : op[i] = "start" =>
       /\ pc[i] = "open" => dir[0] = NoFile
       /\ pc[i] = "config" /\ log = "sub" => data[out[i]] = <<>> /\ service # out[i]

\* Alone: the inductive invariant behind OnlyOldestLost and OldLogsKept; without
\* NextPlaceEmpty and StartsAnew it is the one behind LogsInOrder, whoever runs.
RotationIInv ==
  /\ TypeOK
  /\ LogsInOrder
  /\ \A k \in Places : dir[k] <= newest
  /\ NextPlaceEmpty
  /\ StartsAnew

\* Alone: a rotation makes only the oldest log disappear, even after rotations that were cut
\* short by a crash and have left gaps.
OnlyOldestLost ==
  [][\A f \in Inodes : InDir(f) /\ ~InDir(f)' =>
       \A g \in Inodes : InDir(g) => g >= f]_vars

\* All that was written to file f is still there after the step.
Kept(f) == Len(data'[f]) >= Len(data[f]) /\ \A k \in 1..Len(data[f]) : data'[f][k] = data[f][k]

\* Alone: old logs and the log of a running process lose nothing; only a start may write over
\* entries, and only in the startup.log that it has created itself (TestInitStatus and
\* TestInitStop check one truncation each).  The log of a subProcess, in which start writes
\* without O_APPEND, too, loses nothing at all: it is closed before others append to it.
OldLogsKept ==
  [][\A f \in Inodes : Kept(f) \/
       \E i \in Invs : /\ log = "primary" /\ op[i] = "start" /\ out[i] = f
                       /\ pc[i] \in {"config", "launch", "end"}]_vars

\* README.md:191, "outputs its own logging and that of the primary process to
\* `var/log/startup.log`": start has opened the log at the beginning and without O_APPEND, and
\* its later messages go over what the compilation or the service has appended meanwhile.
EntriesKept == [][\A f \in Inodes : Kept(f)]_vars

=============================================================================
