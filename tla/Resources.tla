------------------------------ MODULE Resources ------------------------------
(***************************************************************************)
(* What a container grants: launchlib/cgroup.go, memory.go, processors.go  *)
(* and ComputeJVMHeapSizeInBytes of launcher.go, as operators on a host    *)
(*   [cgroups |-> the entries of /proc/self/cgroup,                        *)
(*    mounts  |-> the entries of /proc/self/mountinfo,                     *)
(*    files   |-> path |-> contents, <<n>> for a number, <<>> for anything *)
(*                else,                                                    *)
(*    cpus    |-> runtime.NumCPU()].                                       *)
(* Lines with too few fields are no entries, and a file of /proc that      *)
(* cannot be opened has none.  A result is <<v>>, or <<>> for an error.    *)
(***************************************************************************)
EXTENDS Integers, Sequences

CONSTANTS
  BytesInMebibyte, \* 2^20
  MaxLimit,        \* the largest limit taken seriously: 10^6 MiB
  Word             \* number of values of a uint64

ASSUME ResourcesAssumption ==
  /\ BytesInMebibyte \in Nat \ {0}
  /\ MaxLimit \in Nat
  /\ Word \in Nat
  /\ 2 * MaxLimit < Word

\* What an int may hold.
Ints == {n \in Int : -Word <= 2 * n /\ 2 * n < Word}

-----------------------------------------------------------------------------
(* Paths of cgroups (cgroup.go). *)

\* Where a loop that looks for one of the places K returns.
First(K) == CHOOSE k \in K : \A j \in K : k <= j

\* The entries [names, path] of a controller; the first one counts.
GetCGroupPath(host, name) ==
  LET hits == {k \in DOMAIN host.cgroups : name \in host.cgroups[k].names}
  IN  IF hits = {} THEN <<>> ELSE <<host.cgroups[First(hits)].path>>

\* A mount [root, dir, bases, options] is at dir/bases, where the last element is
\* a list such as "cpu,cpuacct"; of such a list the link to one element is taken.
MountPoint(m, name) ==
  <<m.dir, IF \E b \in m.bases : m.bases = {b} THEN CHOOSE b \in m.bases : TRUE ELSE name>>

\* A mount of the controller's cgroup, whose directory is named after it.
Fits(host, m, name) ==
  /\ <<m.root>> = GetCGroupPath(host, name)
  /\ name \in m.options
  /\ \/ \E b \in m.bases : m.bases = {b}
     \/ name \in m.bases

CGroupPath(host, name) ==
  LET hits == {k \in DOMAIN host.mounts : Fits(host, host.mounts[k], name)}
  IN  IF hits = {} THEN <<>> ELSE <<MountPoint(host.mounts[First(hits)], name)>>

\* The number in a file of the controller's directory.
ReadNumber(host, name, file) ==
  LET dir == CGroupPath(host, name)
      path == <<dir[1][1], dir[1][2], file>>
  IN  IF dir # <<>> /\ path \in DOMAIN host.files THEN host.files[path] ELSE <<>>

-----------------------------------------------------------------------------
(* Memory (memory.go, launcher.go). *)

\* Mutant: a limit that is negative stays so.
MemoryLimitSigned(host) == ReadNumber(host, "memory", "memory.limit_in_bytes")

\* The number is an int, and converted to uint64: a negative one becomes huge.
MemoryLimitInBytes(host) ==
  LET limit == ReadNumber(host, "memory", "memory.limit_in_bytes")
  IN  IF limit = <<>> THEN <<>> ELSE <<limit[1] % Word>>

\* Mutant: the minimum of the two candidates.
HeapSizeLower(cpus, limit) ==
  IF limit > MaxLimit THEN <<>>
  ELSE LET most == 3 * limit - 4 * (3 * BytesInMebibyte * cpus)
           least == 2 * limit
       IN  <<(IF most > least THEN least ELSE most) \div 4>>

\* 75 % of the limit less 3 MiB per processor, but at least 50 %.  The floating-point
\* numbers are exact at this size, so the sum is done in quarters of a byte.
ComputeJVMHeapSizeInBytes(cpus, limit) ==
  IF limit > MaxLimit THEN <<>>
  ELSE LET most == 3 * limit - 4 * (3 * BytesInMebibyte * cpus)
           least == 2 * limit
       IN  <<(IF most > least THEN most ELSE least) \div 4>>

-----------------------------------------------------------------------------
(* Processors (processors.go); nothing in the launcher calls it any more. *)

\* One processor if the host has one, otherwise a share of 1024 each, at least two.
ProcessorCount(host) ==
  LET shares == ReadNumber(host, "cpu", "cpu.shares")
      share == shares[1] \div 1024
      most == IF share < host.cpus THEN share ELSE host.cpus
  IN  IF shares = <<>> THEN <<>>
      ELSE <<IF host.cpus = 1 THEN 1 ELSE IF most < 2 THEN 2 ELSE most>>
=============================================================================
