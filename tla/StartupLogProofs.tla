-------------------------- MODULE StartupLogProofs --------------------------
(***************************************************************************)
(* Theorems about StartupLog for every Limit, any number of invocations    *)
(* and logs of any number and length, with proofs for TLAPS.               *)
(***************************************************************************)
EXTENDS StartupLog, SequenceTheorems, TLAPS

(* Type correctness.                                                       *)

LEMMA PlaceFacts ==
  /\ 0 \in Places /\ Limit + 1 \in Places /\ Limit \in Places
  /\ \A k \in Places : k <= Limit => k + 1 \in Places
  /\ \A k \in Places : k <= Limit /\ k # 0 => k - 1 \in Places
  /\ Places \subseteq Nat /\ Inodes \subseteq Nat /\ Files \subseteq Nat
  /\ NoFile \in Files /\ \A f \in Inodes : f \in Files /\ f # NoFile
  BY ConstantsAssumption DEF Places, Inodes, Files, NoFile

\* A write at the end keeps the contents of a log a sequence.
LEMMA AppendedType ==
  ASSUME data \in [Inodes -> Seq(Entries)], NEW f \in Inodes, NEW e \in Entries,
         Appended(f, e)
  PROVE  data' \in [Inodes -> Seq(Entries)]
  <1>1. Append(data[f], e) \in Seq(Entries)
    OBVIOUS
  <1>2. QED  BY <1>1 DEF Appended

\* So does a write anywhere else.
LEMMA WrittenType ==
  ASSUME data \in [Inodes -> Seq(Entries)], NEW f \in Inodes, NEW n \in Nat,
         NEW e \in Entries, WrittenAt(f, n, e)
  PROVE  data' \in [Inodes -> Seq(Entries)]
  <1> DEFINE old == data[f]
             len == IF n < Len(old) THEN Len(old) ELSE IF n < MaxLen THEN n + 1 ELSE MaxLen
             new == [k \in 1..len |->
                       IF k = n + 1 THEN e ELSE IF k <= Len(old) THEN old[k] ELSE "hole"]
  <1>1. old \in Seq(Entries) /\ Len(old) \in Nat
    OBVIOUS
  <1>2. len \in Nat
    BY <1>1, ConstantsAssumption
  <1>3. \A k \in 1..len : k <= Len(old) => old[k] \in Entries
    BY <1>1, <1>2
  <1>4. "hole" \in Entries
    BY DEF Entries
  <1>5. new \in [1..len -> Entries]
    BY <1>3, <1>4
  <1>6. new \in Seq(Entries)
    <2> HIDE DEF new, len
    <2>1. QED  BY <1>2, <1>5, SeqDef
  <1>7. data' = [data EXCEPT ![f] = new]
    BY DEF WrittenAt, Positions
  <1>8. QED
    <2> HIDE DEF new
    <2>1. QED  BY <1>6, <1>7

\* A message is written to a file that is open.
LEMMA MessageType ==
  ASSUME TypeOK, NEW i \in Invs, Message(i), out[i] # NoFile
  PROVE  /\ data' \in [Inodes -> Seq(Entries)]
         /\ off' \in [Invs -> Nat]
  <1>1. out[i] \in Inodes /\ "msg" \in Entries /\ off[i] \in Nat
    BY DEF TypeOK, Files, Entries
  <1>2. data' \in [Inodes -> Seq(Entries)]
    BY <1>1, AppendedType, WrittenType DEF TypeOK, Message
  <1>3. off' \in [Invs -> Nat]
    BY DEF TypeOK, Message
  <1>4. QED  BY <1>2, <1>3

\* An invocation that may write has its output file open.
OutputOpen ==
  \A i \in Invs :
    pc[i] = "config" \/ (log = "primary" /\ pc[i] \in {"launch", "end"}) => out[i] # NoFile

TypeInv == TypeOK /\ OutputOpen

LEMMA OpenType ==
  ASSUME TypeOK, NEW f \in Inodes, OpenStartupLog(f)
  PROVE  dir' \in [Places -> Files] /\ newest' \in Files
  BY PlaceFacts DEF TypeOK, OpenStartupLog

LEMMA InitType == Init => TypeInv
  BY PlaceFacts, EmptySeq DEF Init, TypeInv, TypeOK, OutputOpen, Ops

LEMMA RotateType ==
  ASSUME TypeInv, log' = log, NEW i \in Invs, RemoveOldest(i) \/ Rename(i)
  PROVE  TypeInv'
  <1>1. CASE RemoveOldest(i)
    BY <1>1, PlaceFacts DEF RemoveOldest, TypeInv, TypeOK, OutputOpen
  <1>2. CASE Rename(i)
    <2>1. at[i] \in Places /\ at[i] + 1 \in Places /\ (at[i] # 0 => at[i] - 1 \in Places)
      BY <1>2, PlaceFacts DEF Rename, TypeInv, TypeOK
    <2>2. dir' \in [Places -> Files]
      BY <1>2, <2>1, PlaceFacts DEF Rename, TypeInv, TypeOK
    <2>3. at' \in [Invs -> Places]
      BY <1>2, <2>1 DEF Rename, TypeInv, TypeOK
    <2>4. pc' = pc \/ pc' = [pc EXCEPT ![i] = "open"]
      BY <1>2 DEF Rename, Goto
    <2>5. UNCHANGED <<data, newest, service, log, op, out, off>>
      BY <1>2 DEF Rename
    <2>6. QED
      BY <2>2, <2>3, <2>4, <2>5 DEF TypeInv, TypeOK, OutputOpen
  <1>3. QED  BY <1>1, <1>2

LEMMA OpenOutputType ==
  ASSUME TypeInv, log' = log, NEW i \in Invs, OpenOutput(i)
  PROVE  TypeInv'
  <1>1. PICK f \in Inodes :
          /\ OpenStartupLog(f)
          /\ out' = [out EXCEPT ![i] = f]
          /\ data' = IF op[i] = "start" THEN [data EXCEPT ![f] = <<>>] ELSE data
    BY DEF OpenOutput
  <1>2. dir' \in [Places -> Files] /\ newest' \in Files
    BY <1>1, OpenType DEF TypeInv
  <1>3. data' \in [Inodes -> Seq(Entries)]
    BY <1>1, EmptySeq DEF TypeInv, TypeOK
  <1>4. out' \in [Invs -> Files] /\ f # NoFile
    BY <1>1, PlaceFacts DEF TypeInv, TypeOK
  <1>5. QED
    BY <1>1, <1>2, <1>3, <1>4 DEF OpenOutput, Goto, TypeInv, TypeOK, OutputOpen

LEMMA WriteType ==
  ASSUME TypeInv, log' = log, NEW i \in Invs,
         ConfigMessage(i) \/ CreateDirectory(i) \/ LastMessage(i)
  PROVE  TypeInv'
  <1>0. log = "primary" /\ Message(i)
    BY DEF Message, ConfigMessage, CreateDirectory, LastMessage
  <1>1. out[i] # NoFile
    BY <1>0 DEF TypeInv, OutputOpen, ConfigMessage, CreateDirectory, LastMessage
  <1>2. data' \in [Inodes -> Seq(Entries)] /\ off' \in [Invs -> Nat]
    BY <1>0, <1>1, MessageType DEF TypeInv
  <1>3. QED
    BY <1>2 DEF ConfigMessage, CreateDirectory, LastMessage, Goto, TypeInv, TypeOK, OutputOpen

LEMMA CompileType ==
  ASSUME TypeInv, log' = log, NEW i \in Invs, CompileCmds(i)
  PROVE  TypeInv'
  <1>1. dir' \in [Places -> Files] /\ newest' \in Files
        /\ data' \in [Inodes -> Seq(Entries)]
    <2>1. CASE op[i] = "status"
      BY <2>1 DEF CompileCmds, fileVars, TypeInv, TypeOK
    <2>2. CASE op[i] # "status"
      <3>1. PICK f \in Inodes : OpenStartupLog(f) /\ Appended(f, "compile")
        BY <2>2 DEF CompileCmds
      <3>2. "compile" \in Entries
        BY DEF Entries
      <3>3. QED  BY <3>1, <3>2, OpenType, AppendedType DEF TypeInv, TypeOK
    <2>3. QED  BY <2>1, <2>2
  <1>2. QED  BY <1>1 DEF CompileCmds, Goto, TypeInv, TypeOK, OutputOpen

LEMMA CompileSubType ==
  ASSUME TypeInv, log' = log, NEW i \in Invs, CompileSub(i)
  PROVE  TypeInv'
  <1>1. out[i] \in Inodes /\ off[i] \in Nat /\ "compile" \in Entries
    BY DEF CompileSub, TypeInv, TypeOK, OutputOpen, Files, Entries
  <1>2. data' \in [Inodes -> Seq(Entries)]
    BY <1>1, AppendedType, WrittenType DEF CompileSub, TypeInv, TypeOK
  <1>3. out' \in [Invs -> Files]
    BY PlaceFacts DEF CompileSub, TypeInv, TypeOK
  <1>4. QED  BY <1>2, <1>3 DEF CompileSub, Goto, TypeInv, TypeOK, OutputOpen

LEMMA StartType ==
  ASSUME TypeInv, log' = log, NEW i \in Invs, StartCommand(i) \/ NothingToStart(i)
  PROVE  TypeInv'
  <1>1. CASE StartCommand(i)
    <2>1. PICK f \in Inodes : OpenStartupLog(f) /\ service' = f
      BY <1>1 DEF StartCommand
    <2>2. QED
      BY <1>1, <2>1, OpenType, PlaceFacts
      DEF StartCommand, Goto, TypeInv, TypeOK, OutputOpen
  <1>2. CASE NothingToStart(i)
    BY <1>2 DEF NothingToStart, Goto, fileVars, TypeInv, TypeOK, OutputOpen
  <1>3. QED  BY <1>1, <1>2

LEMMA BeginEndType ==
  ASSUME TypeInv, log' = log, NEW i \in Invs, End(i) \/ \E o \in Ops : Begin(i, o)
  PROVE  TypeInv'
  <1> USE PlaceFacts DEF TypeInv, TypeOK, Goto, fileVars
  <1>1. CASE End(i)
    <2>1. /\ pc' \in [Invs -> {"idle", "rotate", "open", "config", "launch", "end", "close"}]
          /\ at' \in [Invs -> Places] /\ out' \in [Invs -> Files] /\ off' \in [Invs -> Nat]
      BY <1>1 DEF End, Close
    <2>2. UNCHANGED <<dir, data, newest, service, op>>
      BY <1>1 DEF End
    <2>3. OutputOpen'
      BY <1>1 DEF End, Close, OutputOpen
    <2>4. QED  BY <2>1, <2>2, <2>3
  <1>2. CASE \E o \in Ops : Begin(i, o)
    <2>1. PICK o \in Ops : Begin(i, o)
      BY <1>2
    <2>2. /\ pc' \in [Invs -> {"idle", "rotate", "open", "config", "launch", "end", "close"}]
          /\ op' \in [Invs -> Ops]
      BY <2>1 DEF Begin
    <2>3. UNCHANGED <<dir, data, newest, service, at, out, off>>
      BY <2>1 DEF Begin
    <2>4. OutputOpen'
      BY <2>1 DEF Begin, OutputOpen
    <2>5. QED  BY <2>2, <2>3, <2>4
  <1>3. QED  BY <1>1, <1>2

LEMMA ServiceType ==
  ASSUME TypeInv, log' = log, ServiceWrites \/ ServiceExits
  PROVE  TypeInv'
  <1>1. CASE ServiceWrites
    <2>1. service \in Inodes /\ "out" \in Entries /\ Appended(service, "out")
      BY <1>1 DEF ServiceWrites, TypeInv, TypeOK, Files, Entries
    <2>2. data' \in [Inodes -> Seq(Entries)]
      BY <2>1, AppendedType DEF TypeInv, TypeOK
    <2>3. QED  BY <1>1, <2>2 DEF ServiceWrites, TypeInv, TypeOK, OutputOpen
  <1>2. CASE ServiceExits
    BY <1>2, PlaceFacts DEF ServiceExits, fileVars, TypeInv, TypeOK, OutputOpen
  <1>3. QED  BY <1>1, <1>2

\* The log in question is always the same.
LEMMA LogStays == [Next]_vars => log' = log
  BY DEF Next, vars, RemoveOldest, Rename, Begin, OpenOutput, ConfigMessage, CompileCmds, CompileSub,
         CreateDirectory, StartCommand, NothingToStart, LastMessage, End, ServiceWrites, ServiceExits

LEMMA TypeStep == TypeInv /\ [Next]_vars => TypeInv'
  <1>1. TypeInv /\ UNCHANGED vars => TypeInv'
    BY DEF vars, TypeInv, TypeOK, OutputOpen
  <1>2. TypeInv /\ Next => TypeInv'
    BY LogStays, RotateType, OpenOutputType, WriteType, CompileType, CompileSubType, StartType,
       BeginEndType, ServiceType DEF Next
  <1>3. QED  BY <1>1, <1>2

LEMMA TypeInvHolds == Spec => []TypeInv
  BY InitType, TypeStep, PTL DEF Spec

\* Every variable keeps its type; no log is written to that is not open.
THEOREM TypeCorrect == Spec => []TypeOK
  <1>1. TypeInv => TypeOK
    BY DEF TypeInv
  <1>2. QED  BY <1>1, TypeInvHolds, PTL

-----------------------------------------------------------------------------
(* The order of the logs, whoever runs.                                    *)

Order ==
  /\ LogsInOrder
  /\ \A k \in Places : dir[k] <= newest

\* Opening startup.log makes at most a new file, which is younger than all the others.
LEMMA OpenOrder ==
  ASSUME TypeOK, Order, NEW f \in Inodes, OpenStartupLog(f)
  PROVE  Order'
  <1>1. CASE UNCHANGED <<dir, newest>>
    BY <1>1 DEF Order, LogsInOrder
  <1>2. CASE dir' = [dir EXCEPT ![0] = f] /\ newest' = f /\ f = newest + 1
    <2>1. \A k \in Places : dir[k] \in Nat /\ newest \in Nat /\ f \in Nat
      BY PlaceFacts DEF TypeOK
    <2>2. \A k \in Places : dir'[k] = IF k = 0 THEN f ELSE dir[k]
      BY <1>2, PlaceFacts DEF TypeOK
    <2>3. \A k \in Places : dir[k] < f /\ dir'[k] <= newest'
      BY <1>2, <2>1, <2>2 DEF Order
    <2>4. ASSUME NEW k \in Places, NEW l \in Places, k < l,
                 dir'[k] # NoFile, dir'[l] # NoFile
          PROVE  dir'[k] > dir'[l]
      <3>1. l # 0
        BY <2>4 DEF Places
      <3>2. QED  BY <2>1, <2>2, <2>3, <2>4, <3>1 DEF Order, LogsInOrder
    <2>5. QED  BY <2>3, <2>4 DEF Order, LogsInOrder
  <1>3. QED  BY <1>1, <1>2 DEF OpenStartupLog

\* Moving a log to the next place keeps it between its neighbours, whatever was there.
LEMMA RenameOrder ==
  ASSUME TypeOK, Order, NEW i \in Invs, Rename(i)
  PROVE  Order'
  <1>1. CASE UNCHANGED dir
    BY <1>1 DEF Rename, Order, LogsInOrder
  <1>2. CASE dir' = [dir EXCEPT ![at[i]] = NoFile, ![at[i] + 1] = dir[at[i]]]
    <2> DEFINE k == at[i]
    <2>1. k \in Places /\ k + 1 \in Places /\ k \in Nat
      BY PlaceFacts DEF Rename, TypeOK
    <2>2. \A l \in Places :
            dir'[l] = IF l = k + 1 THEN dir[k] ELSE IF l = k THEN NoFile ELSE dir[l]
      BY <1>2, <2>1 DEF TypeOK
    <2>3. newest' = newest /\ newest \in Nat /\ NoFile = 0
      BY PlaceFacts DEF Rename, TypeOK, NoFile
    <2>4. \A l \in Places : dir'[l] <= newest'
      BY <2>1, <2>2, <2>3 DEF Order
    <2>5. ASSUME NEW l \in Places, NEW m \in Places, l < m,
                 dir'[l] # NoFile, dir'[m] # NoFile
          PROVE  dir'[l] > dir'[m]
      <3> HIDE DEF k
      <3>1. l \in Nat /\ m \in Nat /\ l # k /\ m # k
        BY <2>2, <2>5, PlaceFacts, <2>1
      <3>2. CASE l = k + 1
        BY <2>1, <2>2, <2>5, <3>1, <3>2 DEF Order, LogsInOrder
      <3>3. CASE m = k + 1
        <4>1. l < k
          BY <2>1, <2>5, <3>1, <3>3
        <4>2. QED  BY <2>1, <2>2, <2>5, <3>1, <3>3, <4>1 DEF Order, LogsInOrder
      <3>4. CASE l # k + 1 /\ m # k + 1
        BY <2>2, <2>5, <3>1, <3>4 DEF Order, LogsInOrder
      <3>5. QED  BY <3>2, <3>3, <3>4
    <2>6. QED  BY <2>4, <2>5 DEF Order, LogsInOrder
  <1>3. QED  BY <1>1, <1>2 DEF Rename

LEMMA RemoveOrder ==
  ASSUME TypeOK, Order, NEW i \in Invs, RemoveOldest(i)
  PROVE  Order'
  <1>1. \A l \in Places : dir'[l] = IF l = Limit + 1 THEN NoFile ELSE dir[l]
    BY PlaceFacts DEF RemoveOldest, TypeOK
  <1>2. newest' = newest /\ newest >= NoFile
    BY PlaceFacts DEF RemoveOldest, TypeOK, NoFile
  <1>3. QED  BY <1>1, <1>2 DEF Order, LogsInOrder

LEMMA OrderStep == TypeInv /\ Order /\ [Next]_vars => Order'
  <1> SUFFICES ASSUME TypeInv, Order, [Next]_vars PROVE Order'
    OBVIOUS
  <1> USE DEF TypeInv
  <1>1. CASE UNCHANGED <<dir, newest>>
    BY <1>1 DEF Order, LogsInOrder
  <1>2. CASE \E f \in Inodes : OpenStartupLog(f)
    BY <1>2, OpenOrder
  <1>3. CASE \E i \in Invs : RemoveOldest(i) \/ Rename(i)
    BY <1>3, RemoveOrder, RenameOrder
  <1>4. CASE UNCHANGED vars
    BY <1>1, <1>4 DEF vars
  <1>5. ASSUME NEW i \in Invs,
               OpenOutput(i) \/ CompileCmds(i) \/ StartCommand(i)
        PROVE  Order'
    BY <1>1, <1>2, <1>5 DEF OpenOutput, CompileCmds, StartCommand, fileVars
  <1>6. ASSUME NEW i \in Invs,
               \/ ConfigMessage(i) \/ CompileSub(i) \/ CreateDirectory(i) \/ NothingToStart(i)
               \/ LastMessage(i) \/ End(i) \/ \E o \in Ops : Begin(i, o)
        PROVE  Order'
    BY <1>1, <1>6
    DEF ConfigMessage, CompileSub, CreateDirectory, NothingToStart, LastMessage, End, Begin, fileVars
  <1>7. CASE ServiceWrites \/ ServiceExits
    BY <1>1, <1>7 DEF ServiceWrites, ServiceExits, fileVars
  <1>8. QED  BY <1>3, <1>4, <1>5, <1>6, <1>7 DEF Next

LEMMA OrderHolds == Spec => []Order
  <1>1. Init => Order
    BY DEF Init, Order, LogsInOrder, NoFile
  <1>2. QED  BY <1>1, OrderStep, TypeInvHolds, PTL DEF Spec

\* However many rotations overlap, and wherever they are cut short, a log with a higher
\* number is older.
THEOREM HigherIsOlder == Spec => []LogsInOrder
  <1>1. Order => LogsInOrder
    BY DEF Order
  <1>2. QED  BY <1>1, OrderHolds, PTL

-----------------------------------------------------------------------------
(* One invocation at a time.                                               *)

Alone == \E i : Invs = {i}

LEMMA EmptyStep ==
  ASSUME Alone, TypeInv, NextPlaceEmpty, [Next]_vars
  PROVE  NextPlaceEmpty'
  <1>1. PICK i : Invs = {i}
    BY DEF Alone
  <1>2. pc'[i] = "idle" => at'[i] = Limit + 1
    BY <1>1
    DEF NextPlaceEmpty, TypeInv, TypeOK, Next, vars, fileVars, Goto, Close, RemoveOldest,
        Rename, Begin, OpenOutput, ConfigMessage, CompileCmds, CompileSub, CreateDirectory,
        StartCommand, NothingToStart, LastMessage, End, ServiceWrites, ServiceExits
  <1>3. SUFFICES ASSUME pc'[i] = "rotate", at'[i] <= Limit
                 PROVE  dir'[at'[i] + 1] = NoFile
    BY <1>1, <1>2 DEF NextPlaceEmpty
  <1> USE DEF TypeInv, TypeOK, NextPlaceEmpty
  <1>4. CASE UNCHANGED <<dir, pc, at>>
    BY <1>1, <1>3, <1>4
  <1>5. CASE RemoveOldest(i)
    <2>1. at'[i] = Limit /\ dir'[Limit + 1] = NoFile
      BY <1>1, <1>5, PlaceFacts DEF RemoveOldest
    <2>2. QED  BY <2>1
  <1>6. CASE Rename(i)
    <2>1. at[i] \in Nat /\ at[i] \in Places /\ at[i] # 0 /\ at'[i] = at[i] - 1
      BY <1>1, <1>3, <1>6, PlaceFacts DEF Rename, Goto
    <2>2. at'[i] + 1 = at[i]
      BY <2>1
    <2>3. dir'[at[i]] = NoFile
      BY <1>6, <2>1, PlaceFacts DEF Rename
    <2>4. QED  BY <2>2, <2>3
  <1>7. CASE \E o \in Ops : Begin(i, o)
    <2>1. at'[i] = Limit + 1
      BY <1>1, <1>7 DEF Begin
    <2>2. QED  BY <1>3, <2>1, ConstantsAssumption
  <1>8. QED
    BY <1>1, <1>3, <1>4, <1>5, <1>6, <1>7
    DEF Next, vars, fileVars, Goto, Close, OpenOutput, ConfigMessage, CompileCmds, CompileSub,
        CreateDirectory, StartCommand, NothingToStart, LastMessage, End,
        ServiceWrites, ServiceExits

\* Opening a log changes no file, and a file it creates is empty and nobody writes to it.
LEMMA OpenAnew ==
  ASSUME TypeInv, Order, StartsAnew, NEW f \in Inodes, OpenStartupLog(f)
  PROVE  /\ newest <= newest' /\ f <= newest'
         /\ dir[0] = NoFile => data[f] = <<>> /\ service # f
  <1>1. newest \in Nat /\ service \in Nat /\ f \in Nat /\ 0 \in Places
    BY PlaceFacts DEF TypeInv, TypeOK
  <1>2. f # NoFile
    BY PlaceFacts
  <1>3. CASE dir[0] # NoFile /\ f = dir[0] /\ newest' = newest
    BY <1>1, <1>3 DEF Order
  <1>4. CASE dir[0] = NoFile /\ f = newest + 1 /\ newest' = f
    BY <1>1, <1>4 DEF StartsAnew
  <1>5. QED  BY <1>3, <1>4 DEF OpenStartupLog

\* A write at the end of a log leaves all others alone.
LEMMA AppendedElsewhere ==
  ASSUME TypeInv, NEW f \in Inodes, NEW e, Appended(f, e)
  PROVE  \A g \in Inodes \ {f} : data'[g] = data[g]
  BY DEF Appended, TypeInv, TypeOK

LEMMA WrittenElsewhere ==
  ASSUME TypeInv, NEW f \in Inodes, NEW n, NEW e, WrittenAt(f, n, e)
  PROVE  \A g \in Inodes \ {f} : data'[g] = data[g]
  BY DEF WrittenAt, TypeInv, TypeOK

LEMMA MessageElsewhere ==
  ASSUME TypeInv, NEW i \in Invs, Message(i), out[i] \in Inodes
  PROVE  \A g \in Inodes \ {out[i]} : data'[g] = data[g]
  BY AppendedElsewhere, WrittenElsewhere DEF Message

\* Whatever is written to files that exist, those that do not exist yet stay empty.
LEMMA StillEmpty ==
  ASSUME TypeInv, StartsAnew, newest \in Nat, newest' \in Nat, newest <= newest',
         NEW f \in Nat, f <= newest', \A g \in Inodes \ {f} : data'[g] = data[g]
  PROVE  \A g \in Inodes : g > newest' => data'[g] = <<>>
  <1>1. TAKE g \in Inodes
  <1>2. g \in Nat
    BY PlaceFacts
  <1>3. QED  BY <1>2 DEF StartsAnew

LEMMA AnewStep ==
  ASSUME Alone, TypeInv, TypeInv', Order, StartsAnew, [Next]_vars
  PROVE  StartsAnew'
  <1>1. PICK i : Invs = {i}
    BY DEF Alone
  <1>2. /\ newest \in Nat /\ newest' \in Nat /\ service \in Nat /\ out[i] \in Nat
        /\ i \in Invs /\ NoFile \in Nat /\ NoFile <= newest /\ NoFile <= newest'
        /\ op[i] \in Ops /\ out \in [Invs -> Files]
    <2>1. i \in Invs
      BY <1>1
    <2>2. /\ newest \in Files /\ newest' \in Files /\ service \in Files
          /\ out \in [Invs -> Files] /\ op[i] \in Ops
      BY <2>1 DEF TypeInv, TypeOK
    <2>3. \A f \in Files : f \in Nat /\ NoFile <= f
      BY PlaceFacts DEF NoFile
    <2>4. QED  BY <2>1, <2>2, <2>3, PlaceFacts
  <1>0. \A l : [pc EXCEPT ![i] = l][i] = l
    BY <1>2 DEF TypeInv, TypeOK
  <1> DEFINE Anew == /\ op'[i] = "start" /\ pc'[i] = "open" => dir'[0] = NoFile
                     /\ op'[i] = "start" /\ pc'[i] = "config" /\ log' = "sub" =>
                          data'[out'[i]] = <<>> /\ service' # out'[i]
             Bounds == /\ service' <= newest' /\ out'[i] <= newest'
                       /\ \A g \in Inodes : g > newest' => data'[g] = <<>>
  <1>3. SUFFICES Anew /\ Bounds
    BY <1>1 DEF StartsAnew
  <1>4. CASE UNCHANGED vars
    BY <1>1, <1>4 DEF vars, StartsAnew
  <1>5. ASSUME NEW o \in Ops, Begin(i, o) PROVE Anew /\ Bounds
    <2>1. op'[i] = o /\ (o = "start" => pc'[i] = "rotate")
      BY <1>0, <1>2, <1>5 DEF Begin, Goto, TypeInv, TypeOK
    <2>2. UNCHANGED <<data, newest, service, out>>
      BY <1>5 DEF Begin, fileVars
    <2>3. QED  BY <1>1, <2>1, <2>2 DEF StartsAnew
  <1>6. CASE RemoveOldest(i)
    BY <1>1, <1>6 DEF RemoveOldest, StartsAnew
  <1>7. CASE Rename(i)
    <2>1. UNCHANGED <<data, newest, service, out, op>> /\ pc'[i] # "config"
      BY <1>0, <1>2, <1>7 DEF Rename, Goto, TypeInv, TypeOK
    <2>2. pc'[i] = "open" => dir'[0] = NoFile
      <3>1. SUFFICES ASSUME pc'[i] = "open" PROVE dir'[0] = NoFile
        OBVIOUS
      <3>2. at[i] = 0
        BY <1>7, <3>1 DEF Rename
      <3>3. 0 \in Places /\ dir \in [Places -> Files]
        BY PlaceFacts DEF TypeInv, TypeOK
      <3>4. QED  BY <1>7, <3>2, <3>3 DEF Rename
    <2>3. QED  BY <1>1, <2>1, <2>2 DEF StartsAnew
  <1>8. CASE OpenOutput(i)
    <2>1. PICK f \in Inodes :
            /\ OpenStartupLog(f)
            /\ out' = [out EXCEPT ![i] = f]
            /\ data' = IF op[i] = "start" THEN [data EXCEPT ![f] = <<>>] ELSE data
      BY <1>8 DEF OpenOutput
    <2>2. /\ newest <= newest' /\ f <= newest' /\ f \in Nat
          /\ dir[0] = NoFile => data[f] = <<>> /\ service # f
      BY <2>1, OpenAnew, PlaceFacts
    <2>3. out'[i] = f /\ service' = service /\ op' = op /\ pc'[i] = "config"
      BY <1>0, <1>2, <1>8, <2>1 DEF OpenOutput, Goto
    <2>4. \A g \in Inodes \ {f} : data'[g] = data[g]
      BY <2>1 DEF TypeInv, TypeOK
    <2>5. op[i] = "start" => data'[f] = <<>> /\ dir[0] = NoFile
      BY <1>1, <1>8, <2>1 DEF OpenOutput, StartsAnew, TypeInv, TypeOK
    <2>6. Bounds
      <3>1. \A g \in Inodes : g > newest' => data'[g] = <<>>
        BY <1>2, <2>2, <2>4, StillEmpty
      <3>2. service <= newest
        BY DEF StartsAnew
      <3>3. QED  BY <1>2, <2>2, <2>3, <3>1, <3>2
    <2>7. QED  BY <2>2, <2>3, <2>5, <2>6
  <1>9. CASE ConfigMessage(i) \/ CreateDirectory(i) \/ LastMessage(i)
    <2>1. /\ log = "primary" /\ log' = log /\ Message(i)
          /\ UNCHANGED <<newest, service, out, op>> /\ pc'[i] # "open"
      BY <1>0, <1>1, <1>2, <1>9
      DEF ConfigMessage, CreateDirectory, LastMessage, Message, Goto, Next, vars, TypeInv, TypeOK
    <2>2. out[i] \in Inodes
      BY <1>2, <1>9, <2>1
      DEF ConfigMessage, CreateDirectory, LastMessage, TypeInv, OutputOpen, Files
    <2>3. Bounds
      BY <1>1, <1>2, <2>1, <2>2, MessageElsewhere, StillEmpty DEF StartsAnew
    <2>4. QED  BY <2>1, <2>3
  <1>10. CASE CompileCmds(i)
    <2>1. /\ log = "primary" /\ log' = log
          /\ UNCHANGED <<service, out, op>> /\ pc'[i] # "open"
      BY <1>0, <1>1, <1>2, <1>10 DEF CompileCmds, Goto, Next, vars, TypeInv, TypeOK
    <2>2. CASE UNCHANGED <<data, newest>>
      BY <1>1, <2>1, <2>2 DEF StartsAnew
    <2>3. ASSUME NEW f \in Inodes, OpenStartupLog(f), Appended(f, "compile") PROVE Bounds
      <3>1. newest <= newest' /\ f <= newest' /\ f \in Nat
        BY <2>3, OpenAnew, PlaceFacts
      <3>2. \A g \in Inodes \ {f} : data'[g] = data[g]
        BY <2>3, AppendedElsewhere
      <3>3. \A g \in Inodes : g > newest' => data'[g] = <<>>
        BY <1>2, <3>1, <3>2, StillEmpty
      <3>4. service <= newest /\ out[i] <= newest
        BY <1>1 DEF StartsAnew
      <3>5. service <= newest' /\ out[i] <= newest'
        BY <1>2, <3>1, <3>4
      <3>6. QED  BY <2>1, <3>3, <3>5
    <2>4. \/ UNCHANGED <<data, newest>>
          \/ \E f \in Inodes : OpenStartupLog(f) /\ Appended(f, "compile")
      BY <1>10 DEF CompileCmds, fileVars
    <2>5. Bounds
      <3> HIDE DEF Bounds
      <3>1. QED  BY <2>2, <2>3, <2>4
    <2>6. QED  BY <2>1, <2>5
  <1>11. CASE CompileSub(i)
    <2>1. /\ out'[i] = NoFile /\ pc'[i] \in {"launch", "close"}
          /\ UNCHANGED <<newest, service, op>>
      BY <1>0, <1>2, <1>11 DEF CompileSub, Goto
    <2>2. out[i] \in Inodes
      BY <1>0, <1>2, <1>11 DEF CompileSub, TypeInv, OutputOpen, Files
    <2>3. \A g \in Inodes \ {out[i]} : data'[g] = data[g]
      BY <1>11, <2>2, AppendedElsewhere, WrittenElsewhere DEF CompileSub
    <2>4. out[i] <= newest /\ service <= newest
      BY <1>1 DEF StartsAnew
    <2>5. Bounds
      BY <1>2, <2>1, <2>3, <2>4, StillEmpty
    <2>6. QED  BY <2>1, <2>5
  <1>12. CASE StartCommand(i)
    <2>1. PICK f \in Inodes : OpenStartupLog(f) /\ service' = f
      BY <1>12 DEF StartCommand
    <2>2. UNCHANGED <<data, out>> /\ pc'[i] = "end"
      BY <1>0, <1>2, <1>12 DEF StartCommand, Goto
    <2>3. newest <= newest' /\ f <= newest' /\ f \in Nat
      BY <2>1, OpenAnew, PlaceFacts
    <2>4. Bounds
      BY <1>1, <1>2, <2>1, <2>2, <2>3, PlaceFacts DEF StartsAnew
    <2>5. QED  BY <2>2, <2>4
  <1>13. CASE NothingToStart(i) \/ End(i)
    <2>1. UNCHANGED <<data, newest, service>> /\ out'[i] \in {out[i], NoFile}
      BY <1>0, <1>2, <1>13 DEF NothingToStart, End, Close, fileVars
    <2>2. pc'[i] \in {"end", "idle"}
      BY <1>0, <1>2, <1>13 DEF NothingToStart, End, Close, Goto
    <2>3. QED  BY <1>1, <1>2, <2>1, <2>2 DEF StartsAnew
  <1>14. CASE ServiceWrites
    <2>1. /\ service \in Inodes /\ Appended(service, "out")
          /\ UNCHANGED <<dir, newest, service, op, pc, out>> /\ log' = log
      BY <1>14 DEF ServiceWrites, TypeInv, TypeOK, Files, Next, vars
    <2>2. \A g \in Inodes \ {service} : data'[g] = data[g]
      BY <2>1, AppendedElsewhere
    <2>3. Bounds
      BY <1>1, <1>2, <2>1, <2>2, StillEmpty DEF StartsAnew
    <2>4. pc[i] = "config" => out[i] \in Inodes
      BY <1>2 DEF TypeInv, OutputOpen, Files
    <2>5. QED  BY <1>1, <2>1, <2>2, <2>3, <2>4 DEF StartsAnew
  <1>15. CASE ServiceExits
    <2>1. pc[i] = "config" => out[i] # NoFile
      BY <1>2 DEF TypeInv, OutputOpen
    <2>2. QED  BY <1>1, <1>2, <1>15, <2>1 DEF ServiceExits, fileVars, Next, vars, StartsAnew
  <1>16. QED
    BY <1>1, <1>4, <1>5, <1>6, <1>7, <1>8, <1>9, <1>10, <1>11, <1>12, <1>13, <1>14, <1>15
    DEF Next

\* The inductive invariant of rotations that do not overlap.
THEOREM RotationIsKept ==
  ASSUME Alone
  PROVE  Spec => []RotationIInv
  <1>1. Init => NextPlaceEmpty /\ StartsAnew
    BY DEF Init, NextPlaceEmpty, StartsAnew, NoFile
  <1>2. TypeInv /\ NextPlaceEmpty /\ [Next]_vars => NextPlaceEmpty'
    BY EmptyStep
  <1>3. TypeInv /\ TypeInv' /\ Order /\ StartsAnew /\ [Next]_vars => StartsAnew'
    BY AnewStep
  <1>4. TypeInv /\ Order /\ NextPlaceEmpty /\ StartsAnew => RotationIInv
    BY DEF TypeInv, Order, RotationIInv
  <1>5. QED  BY <1>1, <1>2, <1>3, <1>4, TypeInvHolds, OrderHolds, PTL DEF Spec

\* What one step takes out of the directory: nothing but the file at the last place.
LEMMA LostFile ==
  ASSUME Alone, RotationIInv, [Next]_vars, NEW f \in Inodes, InDir(f), ~InDir(f)'
  PROVE  dir[Limit + 1] = f
  <1>1. PICK i : Invs = {i}
    BY DEF Alone
  <1>2. PICK k \in Places : dir[k] = f
    BY DEF InDir
  <1>3. \A l \in Places : dir'[l] # f
    BY DEF InDir
  <1>4. f # NoFile
    BY PlaceFacts
  <1> USE DEF RotationIInv, TypeOK
  <1>5. ASSUME NEW g \in Inodes, OpenStartupLog(g) PROVE FALSE
    BY <1>2, <1>3, <1>4, <1>5, PlaceFacts DEF OpenStartupLog
  <1>6. CASE UNCHANGED dir
    BY <1>2, <1>3, <1>6
  <1>7. CASE RemoveOldest(i)
    BY <1>2, <1>3, <1>7 DEF RemoveOldest
  <1>8. CASE Rename(i)
    <2>0. i \in Invs /\ pc[i] = "rotate" /\ at[i] <= Limit /\ at[i] \in Places
      BY <1>1, <1>8 DEF Rename
    <2>1. /\ at[i] \in Places /\ at[i] + 1 \in Places /\ dir[at[i] + 1] = NoFile
          /\ at[i] # at[i] + 1
      <3>1. dir[at[i] + 1] = NoFile
        BY <2>0 DEF NextPlaceEmpty
      <3>2. at[i] \in Places /\ at[i] + 1 \in Places /\ at[i] \in Nat
        BY <2>0, PlaceFacts
      <3>3. QED  BY <3>1, <3>2
    <2>2. dir' = [dir EXCEPT ![at[i]] = NoFile, ![at[i] + 1] = dir[at[i]]]
      BY <1>2, <1>3, <1>8 DEF Rename
    <2>3. k # at[i] + 1 /\ k # at[i]
      BY <1>2, <1>3, <1>4, <2>1, <2>2
    <2>4. QED  BY <1>2, <1>3, <2>1, <2>2, <2>3
  <1>9. QED
    BY <1>1, <1>5, <1>6, <1>7, <1>8
    DEF Next, vars, fileVars, OpenOutput, ConfigMessage, CompileCmds, CompileSub, CreateDirectory,
        StartCommand, NothingToStart, LastMessage, End, Begin, ServiceWrites, ServiceExits

\* One invocation at a time: only the oldest of all logs is ever lost, even if rotations were
\* cut short before.
THEOREM OldestGoesFirst ==
  ASSUME Alone
  PROVE  Spec => OnlyOldestLost
  <1>1. ASSUME RotationIInv, [Next]_vars, NEW f \in Inodes, InDir(f), ~InDir(f)',
               NEW g \in Inodes, InDir(g)
        PROVE  g >= f
    <2>1. dir[Limit + 1] = f
      BY <1>1, LostFile
    <2>2. PICK k \in Places : dir[k] = g
      BY <1>1 DEF InDir
    <2>3. k = Limit + 1 \/ k < Limit + 1
      BY ConstantsAssumption DEF Places
    <2>4. QED
      BY <1>1, <2>1, <2>2, <2>3, PlaceFacts DEF RotationIInv, LogsInOrder
  <1>2. RotationIInv /\ [Next]_vars =>
          [\A f \in Inodes : InDir(f) /\ ~InDir(f)' =>
             \A g \in Inodes : InDir(g) => g >= f]_vars
    BY <1>1
  <1>3. QED  BY <1>2, RotationIsKept, PTL DEF Spec, OnlyOldestLost

-----------------------------------------------------------------------------
(* One invocation at a time: what is written over.                         *)

LEMMA SameKept ==
  ASSUME TypeInv, NEW f \in Inodes, data'[f] = data[f]
  PROVE  Kept(f)
  BY DEF Kept, TypeInv, TypeOK

\* A write at the end keeps what is there.
LEMMA AppendedKept ==
  ASSUME TypeInv, NEW f \in Inodes, NEW e \in Entries, Appended(f, e), NEW g \in Inodes
  PROVE  Kept(g)
  <1>1. CASE data'[g] = data[g]
    BY <1>1, SameKept
  <1>2. CASE g = f /\ data'[g] = Append(data[g], e)
    <2>1. data[g] \in Seq(Entries)
      BY DEF TypeInv, TypeOK
    <2>2. Len(data'[g]) = Len(data[g]) + 1 /\ Len(data[g]) \in Nat
      BY <1>2, <2>1
    <2>3. \A k \in 1..Len(data[g]) : data'[g][k] = data[g][k]
      BY <1>2, <2>1
    <2>4. QED  BY <2>2, <2>3 DEF Kept
  <1>3. QED
    BY <1>1, <1>2 DEF Appended, TypeInv, TypeOK

\* So does any first entry.
LEMMA EmptyKept ==
  ASSUME TypeInv, TypeInv', NEW f \in Inodes, data[f] = <<>>
  PROVE  Kept(f)
  <1>1. data'[f] \in Seq(Entries) /\ Len(data[f]) = 0
    BY DEF TypeInv, TypeOK
  <1>2. Len(data'[f]) \in Nat
    BY <1>1
  <1>3. QED  BY <1>1, <1>2 DEF Kept

\* A start may write over entries in the startup.log it has created.
Overwrites(i, f) ==
  log = "primary" /\ op[i] = "start" /\ out[i] = f /\ pc[i] \in {"config", "launch", "end"}

LEMMA MessageKept ==
  ASSUME TypeInv, NEW i \in Invs, NEW f \in Inodes,
         ConfigMessage(i) \/ CreateDirectory(i) \/ LastMessage(i)
  PROVE  Kept(f) \/ Overwrites(i, f)
  <1>1. Message(i) /\ log = "primary" /\ pc[i] \in {"config", "launch", "end"}
    BY DEF ConfigMessage, CreateDirectory, LastMessage, Message
  <1>2. out[i] \in Inodes
    BY <1>1 DEF TypeInv, TypeOK, OutputOpen, Files
  <1>3. CASE f # out[i]
    BY <1>1, <1>2, <1>3, MessageElsewhere, SameKept
  <1>4. CASE op[i] # "start"
    <2>1. Appended(out[i], "msg") /\ "msg" \in Entries
      BY <1>1, <1>4 DEF Message, Entries
    <2>2. QED  BY <1>2, <2>1, AppendedKept
  <1>5. QED  BY <1>1, <1>3, <1>4 DEF Overwrites

LEMMA KeptStep ==
  ASSUME Alone, TypeInv, TypeInv', RotationIInv, [Next]_vars, NEW f \in Inodes
  PROVE  Kept(f) \/ \E i \in Invs : Overwrites(i, f)
  <1>1. PICK i : Invs = {i}
    BY DEF Alone
  <1>2. CASE UNCHANGED data
    BY <1>2, SameKept
  <1>3. CASE OpenOutput(i)
    <2>1. PICK g \in Inodes :
            /\ OpenStartupLog(g)
            /\ data' = IF op[i] = "start" THEN [data EXCEPT ![g] = <<>>] ELSE data
      BY <1>3 DEF OpenOutput
    <2>2. CASE op[i] # "start" \/ f # g
      BY <2>1, <2>2, SameKept DEF TypeInv, TypeOK
    <2>3. CASE op[i] = "start" /\ f = g
      <3>1. dir[0] = NoFile
        BY <1>1, <1>3, <2>3 DEF OpenOutput, RotationIInv, StartsAnew
      <3>2. data[f] = <<>>
        BY <2>1, <2>3, <3>1, OpenAnew DEF RotationIInv, Order
      <3>3. QED  BY <3>2, EmptyKept
    <2>4. QED  BY <2>2, <2>3
  <1>4. CASE ConfigMessage(i) \/ CreateDirectory(i) \/ LastMessage(i)
    BY <1>1, <1>4, MessageKept
  <1>5. CASE CompileCmds(i)
    <2>1. UNCHANGED data \/ \E g \in Inodes : Appended(g, "compile")
      BY <1>5 DEF CompileCmds, fileVars
    <2>2. QED  BY <1>2, <2>1, AppendedKept DEF Entries
  <1>6. CASE CompileSub(i)
    <2>1. out[i] \in Inodes /\ "compile" \in Entries
      BY <1>1, <1>6 DEF CompileSub, TypeInv, TypeOK, OutputOpen, Files, Entries
    <2>2. CASE op[i] # "start"
      BY <1>6, <2>1, <2>2, AppendedKept DEF CompileSub
    <2>3. CASE op[i] = "start" /\ f # out[i]
      BY <1>6, <2>1, <2>3, WrittenElsewhere, SameKept DEF CompileSub
    <2>4. CASE op[i] = "start" /\ f = out[i]
      <3>1. data[f] = <<>>
        BY <1>1, <1>6, <2>4 DEF CompileSub, RotationIInv, StartsAnew
      <3>2. QED  BY <3>1, EmptyKept
    <2>5. QED  BY <2>2, <2>3, <2>4
  <1>7. CASE ServiceWrites
    <2>1. service \in Inodes /\ Appended(service, "out") /\ "out" \in Entries
      BY <1>7 DEF ServiceWrites, TypeInv, TypeOK, Files, Entries
    <2>2. QED  BY <2>1, AppendedKept
  <1>8. QED
    BY <1>1, <1>2, <1>3, <1>4, <1>5, <1>6, <1>7
    DEF Next, vars, fileVars, RemoveOldest, Rename, Begin, StartCommand, NothingToStart, End,
        ServiceExits

\* One invocation at a time: nothing is written over in an old log, in the log of a
\* subProcess, or by anybody but a start in the startup.log it has created.
THEOREM OldLogsStay ==
  ASSUME Alone
  PROVE  Spec => OldLogsKept
  <1>1. ASSUME TypeInv, TypeInv', RotationIInv, [Next]_vars
        PROVE  \A f \in Inodes : Kept(f) \/
                 \E i \in Invs : /\ log = "primary" /\ op[i] = "start" /\ out[i] = f
                                 /\ pc[i] \in {"config", "launch", "end"}
    BY <1>1, KeptStep DEF Overwrites
  <1>2. TypeInv /\ TypeInv' /\ RotationIInv /\ [Next]_vars =>
          [\A f \in Inodes : Kept(f) \/
             \E i \in Invs : /\ log = "primary" /\ op[i] = "start" /\ out[i] = f
                             /\ pc[i] \in {"config", "launch", "end"}]_vars
    BY <1>1
  <1>3. QED  BY <1>2, TypeInvHolds, RotationIsKept, PTL DEF Spec, OldLogsKept

=============================================================================
