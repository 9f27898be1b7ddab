---------------------------- MODULE CompileProofs ----------------------------
(***************************************************************************)
(* Proofs about Compile and the operators of Resources: no surprise after  *)
(* validation, nothing ignored, and the bounds of heap and processors.     *)
(***************************************************************************)
EXTENDS Compile, FiniteSetTheorems, FunctionTheorems, WellFoundedInduction, TLAPS

-----------------------------------------------------------------------------
(* Loops.  A set of numbers has a least element, which stands in for an    *)
(* induction: of the steps of a loop at which a claim fails there would be *)
(* a first one.                                                            *)

LEMMA LeastNumber ==
  ASSUME NEW K \in SUBSET Nat, K # {}
  PROVE  First(K) \in K /\ \A j \in K : First(K) <= j
<1>1. PICK m \in K : \A j \in K : <<j, m>> \notin OpToRel(<, Nat)
  BY WFMin, NatLessThanWellFounded, Zenon
<1>2. \A j \in K : ~(j < m)
  BY <1>1, Zenon DEF OpToRel
<1>3. \A j \in K : m <= j
  BY <1>2
<1> QED
  BY <1>3 DEF First

\* A set of numbers that has 0, and with each number below n the next one, has all up to n.
LEMMA UpTo ==
  ASSUME NEW n \in Nat, NEW K, 0 \in K, \A k \in 0..n : k \in K /\ k < n => k + 1 \in K
  PROVE  0..n \subseteq K
<1> DEFINE Missing == (0..n) \ K
<1> SUFFICES ASSUME Missing # {} PROVE FALSE
  OBVIOUS
<1>1. PICK m \in Missing : \A j \in Missing : m <= j
  <2>1. Missing \in SUBSET Nat
    OBVIOUS
  <2> HIDE DEF Missing
  <2> QED  BY <2>1, LeastNumber
<1>2. m # 0 /\ m \in 0..n
  BY <1>1
<1>3. m - 1 \in 0..n /\ m - 1 < n /\ ~(m <= m - 1) /\ (m - 1) + 1 = m
  BY <1>2
<1>4. m - 1 \in K
  BY <1>1, <1>3
<1> QED
  BY <1>1, <1>3, <1>4

-----------------------------------------------------------------------------
(* The filter of the options. *)

Body(opts, f) ==
  [n \in 0..Len(opts) |->
     IF n = 0 THEN <<>>
     ELSE IF IsHeapSizeArg(opts[n]) THEN f[n - 1] ELSE Append(f[n - 1], opts[n])]

\* The loop is defined: there is what it has kept after each of its steps.
LEMMA KeptIsDefined ==
  ASSUME NEW opts, Len(opts) \in Nat
  PROVE  Kept(opts) = Body(opts, Kept(opts))
<1> DEFINE L == Len(opts)
           step(f, n) == IF n = 0 THEN <<>>
                         ELSE IF IsHeapSizeArg(opts[n]) THEN f[n - 1] ELSE Append(f[n - 1], opts[n])
           upTo(f, m) == \A n \in 0..m : f[n] = step(f, n)
           K == {m \in 0..L : \E f : upTo(f, m)}
<1>1. 0 \in K
  <2>1. upTo([n \in {0} |-> <<>>], 0)
    OBVIOUS
  <2>2. \E f : upTo(f, 0)
    <3> HIDE DEF upTo
    <3> QED  BY <2>1
  <2> QED  BY <2>2
<1>2. ASSUME NEW m \in 0..L, m \in K, m < L PROVE m + 1 \in K
  <2>1. PICK f : upTo(f, m)
    BY <1>2
  <2> DEFINE g == [n \in 0..(m + 1) |-> IF n <= m THEN f[n] ELSE step(f, n)]
  <2>2. ASSUME NEW n \in 0..(m + 1) PROVE g[n] = step(f, n)
    <3>1. n <= m => f[n] = step(f, n)
      BY <2>1
    <3> HIDE DEF step
    <3> QED  BY <3>1
  <2>3. ASSUME NEW n \in 0..(m + 1) PROVE step(g, n) = step(f, n)
    <3>1. n # 0 => n - 1 \in 0..(m + 1) /\ n - 1 <= m
      OBVIOUS
    <3>2. n # 0 => g[n - 1] = f[n - 1]
      BY <3>1
    <3> HIDE DEF g
    <3> QED  BY <3>2
  <2>4. upTo(g, m + 1)
    <3> HIDE DEF g, step
    <3> QED  BY <2>2, <2>3
  <2>5. \E e : upTo(e, m + 1)
    <3> HIDE DEF g, upTo
    <3> QED  BY <2>4
  <2>6. m + 1 \in 0..L
    BY <1>2
  <2> HIDE DEF upTo
  <2> QED  BY <2>5, <2>6
<1>3. L \in K
  <2>1. \A m \in 0..L : m \in K /\ m < L => m + 1 \in K
    <3> HIDE DEF K
    <3> QED  BY <1>2
  <2> HIDE DEF K
  <2>2. 0..L \subseteq K
    BY <1>1, <2>1, UpTo
  <2> QED  BY <2>2
<1>4. PICK f : upTo(f, L)
  BY <1>3
<1> DEFINE h == [n \in 0..L |-> f[n]]
<1>5. h = Body(opts, h)
  <2>1. ASSUME NEW n \in 0..L PROVE h[n] = step(h, n)
    <3>1. n # 0 => n - 1 \in 0..L
      OBVIOUS
    <3>2. h[n] = f[n] /\ (n # 0 => h[n - 1] = f[n - 1])
      BY <3>1
    <3>3. f[n] = step(f, n)
      BY <1>4
    <3> HIDE DEF h
    <3> QED  BY <3>2, <3>3
  <2>2. Body(opts, h) = [n \in 0..L |-> step(h, n)]
    BY DEF Body
  <2>3. h = [n \in 0..L |-> h[n]]
    OBVIOUS
  <2> HIDE DEF h, step
  <2> QED  BY <2>1, <2>2, <2>3
<1>6. Kept(opts) = CHOOSE g : g = Body(opts, g)
  BY DEF Kept, Body
<1> QED
  <2> HIDE DEF h
  <2> QED  BY <1>5, <1>6

LEMMA KeptStep ==
  ASSUME NEW opts \in Seq(Opts)
  PROVE  /\ Kept(opts)[0] = <<>>
         /\ \A n \in 0..Len(opts) : n < Len(opts) =>
              Kept(opts)[n + 1] = IF IsHeapSizeArg(opts[n + 1]) THEN Kept(opts)[n]
                                  ELSE Append(Kept(opts)[n], opts[n + 1])
<1>1. Len(opts) \in Nat /\ Kept(opts) = Body(opts, Kept(opts))
  BY KeptIsDefined
<1>2. \A n \in 0..Len(opts) :
        Kept(opts)[n] = IF n = 0 THEN <<>>
                        ELSE IF IsHeapSizeArg(opts[n]) THEN Kept(opts)[n - 1]
                             ELSE Append(Kept(opts)[n - 1], opts[n])
  BY <1>1 DEF Body
<1>3. Kept(opts)[0] = <<>>
  BY <1>1, <1>2
<1>4. ASSUME NEW n \in 0..Len(opts), n < Len(opts)
      PROVE  Kept(opts)[n + 1] = IF IsHeapSizeArg(opts[n + 1]) THEN Kept(opts)[n]
                                 ELSE Append(Kept(opts)[n], opts[n + 1])
  <2>1. n + 1 \in 0..Len(opts) /\ n + 1 # 0 /\ (n + 1) - 1 = n
    BY <1>1, <1>4
  <2> QED  BY <1>2, <2>1
<1> QED
  BY <1>3, <1>4

\* The places up to n of what is no heap size.
Places(opts, n) == {k \in 1..n : ~IsHeapSizeArg(opts[k])}

\* f says where the options q come from: from each place in K once, in its order.
Enumerates(f, q, opts, K) ==
  /\ f \in [1..Len(q) -> K]
  /\ \A i, j \in 1..Len(q) : i < j => f[i] < f[j]
  /\ \A k \in K : \E i \in 1..Len(q) : f[i] = k
  /\ \A i \in 1..Len(q) : q[i] = opts[f[i]]

\* The loop keeps what is no heap size, in the order in which it is given.
LEMMA FilterKeeps ==
  ASSUME NEW opts \in Seq(Opts)
  PROVE  /\ WithoutHeapSize(opts) \in Seq(Opts)
         /\ \E f : Enumerates(f, WithoutHeapSize(opts), opts, Places(opts, Len(opts)))
<1> DEFINE kept(n) == Kept(opts)[n]
           L == Len(opts)
           K == {n \in 0..L : /\ kept(n) \in Seq(Opts)
                               /\ \E f : Enumerates(f, kept(n), opts, Places(opts, n))}
<1>1. L \in Nat /\ \A k \in 1..L : opts[k] \in Opts
  OBVIOUS
<1>2. 0 \in K
  <2>1. kept(0) = <<>> /\ kept(0) \in Seq(Opts) /\ Len(kept(0)) = 0
    <3>1. kept(0) = <<>>
      BY KeptStep
    <3>2. <<>> \in Seq(Opts) /\ Len(<<>>) = 0
      OBVIOUS
    <3> HIDE DEF kept
    <3> QED  BY <3>1, <3>2
  <2>2. Places(opts, 0) = {} /\ 1..0 = {}
    BY DEF Places
  <2>3. Enumerates([i \in {} |-> 0], kept(0), opts, Places(opts, 0))
    <3> HIDE DEF kept
    <3> QED  BY <2>1, <2>2 DEF Enumerates
  <2>4. \E f : Enumerates(f, kept(0), opts, Places(opts, 0))
    BY <2>3
  <2>5. 0 \in 0..L
    BY <1>1
  <2> HIDE DEF kept
  <2> QED  BY <2>1, <2>4, <2>5
<1>3. ASSUME NEW n \in 0..L, n \in K, n < L PROVE n + 1 \in K
  <2> DEFINE q == kept(n)
             o == opts[n + 1]
  <2>1. PICK f : Enumerates(f, q, opts, Places(opts, n))
    BY <1>3
  <2>2. q \in Seq(Opts) /\ n + 1 \in 1..L /\ n + 1 \in 0..L /\ o \in Opts
    BY <1>1, <1>3
  <2>3. kept(n + 1) = IF IsHeapSizeArg(o) THEN q ELSE Append(q, o)
    BY <1>3, KeptStep
  <2>4. 1..(n + 1) = (1..n) \cup {n + 1} /\ n + 1 \notin 1..n
    OBVIOUS
  <2>5. Places(opts, n + 1) = Places(opts, n) \cup (IF IsHeapSizeArg(o) THEN {} ELSE {n + 1})
    BY <2>4 DEF Places
  <2>6. CASE IsHeapSizeArg(o)
    <3>1. kept(n + 1) \in Seq(Opts) /\ Enumerates(f, kept(n + 1), opts, Places(opts, n + 1))
      <4>1. kept(n + 1) = q /\ Places(opts, n + 1) = Places(opts, n)
        BY <2>3, <2>5, <2>6
      <4> QED  BY <2>1, <2>2, <4>1
    <3> HIDE DEF kept
    <3> QED  BY <2>2, <3>1
  <2>7. CASE ~IsHeapSizeArg(o)
    <3> DEFINE r == Append(q, o)
               m == Len(q)
               g == [i \in 1..(m + 1) |-> IF i <= m THEN f[i] ELSE n + 1]
               P == Places(opts, n)
    <3>1. kept(n + 1) = r /\ Places(opts, n + 1) = P \cup {n + 1}
      BY <2>3, <2>5, <2>7
    <3> HIDE DEF q
    <3>2. /\ m \in Nat /\ r \in Seq(Opts) /\ Len(r) = m + 1 /\ r[m + 1] = o
          /\ \A i \in 1..m : r[i] = q[i]
      BY <2>2
    <3>3. \A k \in P : k \in Nat /\ k <= n
      BY DEF Places
    <3>4. /\ f \in [1..m -> P]
          /\ \A i, j \in 1..m : i < j => f[i] < f[j]
          /\ \A k \in P : \E i \in 1..m : f[i] = k
          /\ \A i \in 1..m : q[i] = opts[f[i]]
      BY <2>1 DEF Enumerates
    <3> HIDE DEF r, m, P, o
    <3>5. g \in [1..(m + 1) -> P \cup {n + 1}]
      <4>1. \A i \in 1..(m + 1) : i <= m => i \in 1..m
        BY <3>2
      <4> QED  BY <3>4, <4>1
    <3>6. (\A i \in 1..m : g[i] = f[i]) /\ g[m + 1] = n + 1
      BY <3>2
    <3>7. \A i \in 1..(m + 1) : i \in 1..m \/ i = m + 1
      BY <3>2
    <3>8. \A i \in 1..m : i \in 1..(m + 1) /\ ~(m + 1 < i)
      BY <3>2
    <3> HIDE DEF g
    <3>9. \A i, j \in 1..(m + 1) : i < j => g[i] < g[j]
      <4> SUFFICES ASSUME NEW i \in 1..(m + 1), NEW j \in 1..(m + 1), i < j PROVE g[i] < g[j]
        OBVIOUS
      <4>1. i \in 1..m
        BY <3>2
      <4>2. CASE j \in 1..m
        BY <3>4, <3>6, <4>1, <4>2
      <4>3. CASE j = m + 1
        <5>1. f[i] \in P
          BY <3>4, <4>1
        <5>2. f[i] < n + 1
          BY <3>3, <5>1
        <5> QED  BY <3>6, <4>1, <4>3, <5>2
      <4> QED  BY <3>7, <4>2, <4>3
    <3>10. \A k \in P \cup {n + 1} : \E i \in 1..(m + 1) : g[i] = k
      <4>1. m + 1 \in 1..(m + 1)
        BY <3>2
      <4> QED  BY <3>4, <3>6, <3>8, <4>1
    <3>11. \A i \in 1..(m + 1) : r[i] = opts[g[i]]
      BY <3>2, <3>4, <3>6, <3>7 DEF o
    <3>12. Enumerates(g, r, opts, P \cup {n + 1})
      BY <3>2, <3>5, <3>9, <3>10, <3>11 DEF Enumerates
    <3>13. kept(n + 1) \in Seq(Opts) /\ Enumerates(g, kept(n + 1), opts, Places(opts, n + 1))
      <4> HIDE DEF kept
      <4> QED  BY <3>1, <3>2, <3>12 DEF P
    <3> HIDE DEF kept
    <3> QED  BY <2>2, <3>13
  <2> QED  BY <2>6, <2>7
<1>4. L \in K
  <2>1. \A n \in 0..L : n \in K /\ n < L => n + 1 \in K
    <3> HIDE DEF K
    <3> QED  BY <1>3
  <2> HIDE DEF K
  <2>2. 0..L \subseteq K
    BY <1>1, <1>2, <2>1, UpTo
  <2> QED  BY <1>1, <2>2
<1> QED
  BY <1>4 DEF WithoutHeapSize

-----------------------------------------------------------------------------
(* Numbers. *)

\* The heap size is the largest number of bytes within three quarters of the limit less three
\* mebibytes per processor, or within its half (launcher.go:387), for any number of processors.
THEOREM HeapBounds ==
  ASSUME NEW cpus \in Nat, NEW limit \in Nat, limit <= MaxLimit
  PROVE  \E h \in Nat : ComputeJVMHeapSizeInBytes(cpus, limit) = <<h>> /\ IsShare(h, limit, cpus)
<1> DEFINE adjustment == 3 * BytesInMebibyte * cpus
           most == 3 * limit - 4 * adjustment
           least == 2 * limit
           quarters == IF most > least THEN most ELSE least
           h == quarters \div 4
<1>1. adjustment \in Nat
  BY ResourcesAssumption, SMT
<1>2. /\ most \in Int /\ quarters \in Nat /\ least <= quarters /\ most <= quarters
      /\ quarters = most \/ quarters = least
  <2> HIDE DEF adjustment
  <2> QED  BY <1>1, SMT
<1>3. h \in Nat /\ 4 * h <= quarters /\ quarters < 4 * h + 4
  <2> HIDE DEF quarters
  <2> QED  BY <1>2, SMT
<1>4. limit \in Int /\ MaxLimit \in Int /\ ~(limit > MaxLimit)
  BY ResourcesAssumption, SMT
<1>5. ComputeJVMHeapSizeInBytes(cpus, limit) = <<h>>
  BY <1>4 DEF ComputeJVMHeapSizeInBytes
<1>6. (4 * h <= most \/ 2 * h <= limit) /\ most < 4 * h + 4 /\ limit < 2 * h + 2
  <2> HIDE DEF h, quarters, most
  <2> QED  BY <1>2, <1>3, SMT DEF least
<1>7. IsShare(h, limit, cpus)
  <2> HIDE DEF h
  <2> QED  BY <1>6 DEF IsShare
<1> QED
  BY <1>3, <1>5, <1>7

\* A limit that is written as a negative number (no limit) becomes a number of 64 bits that is too
\* high for a heap size (memory.go:70, launcher.go:390).
THEOREM NegativeIsTooHigh ==
  ASSUME NEW cpus \in Nat, NEW n \in Ints, n < 0
  PROVE  ComputeJVMHeapSizeInBytes(cpus, n % Word) = <<>>
<1>1. Word \in Nat /\ Word > 0 /\ n \in Int /\ -Word <= 2 * n /\ MaxLimit \in Nat /\ 2 * MaxLimit < Word
  BY ResourcesAssumption DEF Ints
<1>2. n + Word \in 0 .. (Word - 1)
  BY <1>1
<1>3. n % Word = n + Word
  <2>1. n = (Word * (n \div Word)) + (n % Word) /\ n % Word \in 0 .. (Word - 1) /\ n \div Word \in Int
    BY <1>1, SMT
  <2>2. n \div Word = -1
    BY <1>1, SMT
  <2> QED  BY <2>1, <2>2, <1>1, SMT
<1>4. n % Word > MaxLimit
  BY <1>1, <1>3
<1> QED
  BY <1>4 DEF ComputeJVMHeapSizeInBytes

\* The number of processors is one on a host that has one, and otherwise at least two and at most
\* what the host has, whatever the shares say (processors.go:78).
THEOREM ProcessorBounds ==
  ASSUME NEW host, host.cpus \in Nat \ {0}, NEW n \in Int,
         ReadNumber(host, "cpu", "cpu.shares") = <<n>>
  PROVE  \E count \in 1 .. host.cpus :
           /\ ProcessorCount(host) = <<count>>
           /\ host.cpus > 1 => count > 1
<1> DEFINE share == n \div 1024
           most == IF share < host.cpus THEN share ELSE host.cpus
           count == IF host.cpus = 1 THEN 1 ELSE IF most < 2 THEN 2 ELSE most
<1>1. share \in Int
  BY SMT
<1>2. count \in 1 .. host.cpus /\ (host.cpus > 1 => count > 1)
  <2> HIDE DEF share
  <2> QED  BY <1>1, SMT
<1>3. ReadNumber(host, "cpu", "cpu.shares") # <<>> /\ ReadNumber(host, "cpu", "cpu.shares")[1] = n
  BY SMT
<1>4. ProcessorCount(host) = <<count>>
  BY <1>3 DEF ProcessorCount
<1> QED
  BY <1>2, <1>4

-----------------------------------------------------------------------------
(* The launch. *)

\* A step of a launch that fails for a reason other than a surprise keeps the invariant.
LEMMA Failing ==
  ASSUME StageInv, NEW why, why \notin {"type", "noCustom"}, Fail(why)
  PROVE  StageInv'
BY DEF StageInv, Fail, Stages, ConfigErrorsComeFirst, ValidateType

\* Compiling a configuration whose type has been validated fails for other reasons only.
LEMMA NoSurprise ==
  ASSUME NEW w, NEW s, ValidateType(s)
  PROVE  CompileError(w, s) \notin {"type", "noCustom"}
BY DEF CompileError, ValidateType, ConfigTypes

\* What each stage leaves to the next.
LEMMA StageInvHolds == Spec => []StageInv
<1>1. Init => StageInv
  BY WorldsAssumption DEF Init, StageInv, Stages, ConfigErrorsComeFirst, NoSubs, NoConfig, EmptyCustom
<1>2. StageInv /\ [Next]_vars => StageInv'
  <2> SUFFICES ASSUME StageInv, [Next]_vars PROVE StageInv'
    OBVIOUS
  <2>1. CASE ReadStatic
    BY <2>1 DEF ReadStatic, StageInv, Stages, ConfigErrorsComeFirst, ParsesAsStatic, ValidateStatic
  <2>2. CASE ReadStaticFails
    BY <2>2, Failing DEF ReadStaticFails
  <2>3. CASE ReadCustom
    BY <2>3 DEF ReadCustom, StageInv, Stages, ConfigErrorsComeFirst, PrimarySection
  <2>4. CASE ReadCustomFails
    BY <2>4, Failing DEF ReadCustomFails
  <2>5. CASE Verify
    BY <2>5 DEF Verify, StageInv, Stages, ConfigErrorsComeFirst, WithDefaults, VerifyStaticWithCustom,
           PrimarySection, EmptyCustom, WorldOK
  <2>6. CASE CompilePrimary
    BY <2>6 DEF CompilePrimary, StageInv, Stages, ConfigErrorsComeFirst
  <2>7. CASE CompilePrimaryFails
    <3>1. ValidateType(static)
      BY <2>7 DEF CompilePrimaryFails, StageInv
    <3> QED  BY <2>7, <3>1, Failing, NoSurprise DEF CompilePrimaryFails
  <2>8. ASSUME NEW name \in DOMAIN static.subs, CompileSub(name) PROVE StageInv'
    BY <2>8 DEF CompileSub, StageInv, Stages, ConfigErrorsComeFirst
  <2>9. ASSUME NEW name \in DOMAIN static.subs, CompileSubFails(name) PROVE StageInv'
    <3>1. ValidateType(static.subs[name]) /\ name \in DOMAIN custom.subs
      BY <2>9 DEF CompileSubFails, StageInv
    <3>2. SubError(name) \notin {"type", "noCustom"}
      BY <3>1, NoSurprise DEF SubError
    <3> QED  BY <2>9, <3>2, Failing DEF CompileSubFails
  <2>10. CASE CreateLoggerFails
    BY <2>10, Failing DEF CreateLoggerFails
  <2>11. CASE Finish
    BY <2>11 DEF Finish, StageInv, Stages, ConfigErrorsComeFirst
  <2>12. CASE UNCHANGED vars
    BY <2>12 DEF vars, StageInv, ConfigErrorsComeFirst, ValidateType, PrimarySection, WorldOK
  <2> QED
    BY <2>1, <2>2, <2>3, <2>4, <2>5, <2>6, <2>7, <2>8, <2>9, <2>10, <2>11, <2>12 DEF Next
<1> QED
  BY <1>1, <1>2, PTL DEF Spec

\* What defaults make of the custom configuration, for the primary and for each subProcess.
LEMMA DefaultsAreOwn ==
  ASSUME StageInv, Verify, pc' = "primary"
  PROVE  /\ custom'.opts = PrimarySection.opts /\ custom'.env = PrimarySection.env
         /\ custom'.disabled = PrimarySection.disabled /\ custom'.cgroups = PrimarySection.cgroups
         /\ \A name \in DOMAIN static.subs : custom'.subs[name] = CustomSection(name)
<1> DEFINE c == PrimarySection
<1>1. c = custom /\ static = world.static.config
  BY DEF Verify, StageInv
<1>2. {"subs", "opts", "env", "disabled", "cgroups"} \subseteq DOMAIN c
  BY DEF StageInv, WorldOK, PrimarySection, EmptyCustom
<1>3. custom' = WithDefaults(static, c)
  BY <1>1 DEF Verify
<1>4. /\ custom'.opts = c.opts /\ custom'.env = c.env
      /\ custom'.disabled = c.disabled /\ custom'.cgroups = c.cgroups
  <2> HIDE DEF c
  <2> QED  BY <1>2, <1>3 DEF WithDefaults
<1>5. \A name \in DOMAIN static.subs :
        custom'.subs[name] = IF name \in DOMAIN c.subs THEN c.subs[name]
                             ELSE DefaultCustom(static.subs[name].type)
  <2> HIDE DEF c
  <2> QED  BY <1>2, <1>3 DEF WithDefaults
<1>6. \A name : (name \in DOMAIN c.subs) =
                 (world.custom.state = "yaml" /\ name \in DOMAIN world.custom.config.subs)
  BY DEF PrimarySection, EmptyCustom, NoSubs
<1>7. \A name \in DOMAIN static.subs : custom'.subs[name] = CustomSection(name)
  BY <1>1, <1>5, <1>6 DEF CustomSection, PrimarySection
<1> QED
  BY <1>4, <1>7

\* A command depends on nothing but the fields that defaults leave alone.
LEMMA SameCommand ==
  ASSUME NEW w, NEW s, NEW c, NEW d, NEW g,
         c.opts = d.opts, c.env = d.env, c.disabled = d.disabled
  PROVE  Command(w, s, c, g) = Command(w, s, d, g)
BY DEF Command, Environment

\* The commands one by one.
MadeOfOwn ==
  /\ primary # <<>> =>
       primary[1] = Command(world, world.static.config, PrimarySection, PrimarySection.cgroups)
  /\ \A name \in DOMAIN subs :
       subs[name] = Command(world, world.static.config.subs[name], CustomSection(name),
                            PrimarySection.cgroups)

LEMMA OneByOne ==
  (\A x \in Compiled : x.cmd = Command(world, x.s, x.c, PrimarySection.cgroups)) <=> MadeOfOwn
<1> DEFINE G == PrimarySection.cgroups
           P == [cmd |-> primary[1], s |-> world.static.config, c |-> PrimarySection]
           S(name) == [cmd |-> subs[name], s |-> world.static.config.subs[name],
                       c |-> CustomSection(name)]
<1>1. \A x : x \in Compiled <=> (primary # <<>> /\ x = P) \/ \E name \in DOMAIN subs : x = S(name)
  BY DEF Compiled
<1>2. P.cmd = primary[1] /\ P.s = world.static.config /\ P.c = PrimarySection
  OBVIOUS
<1>3. \A name : /\ S(name).cmd = subs[name] /\ S(name).s = world.static.config.subs[name]
                /\ S(name).c = CustomSection(name)
  OBVIOUS
<1> HIDE DEF P, S
<1> QED
  BY <1>1, <1>2, <1>3 DEF MadeOfOwn

\* What is compiled is made of the sections that the files have for it.
LEMMA SectionStep ==
  ASSUME StageInv, StageInv', SectionInv, [Next]_vars
  PROVE  SectionInv'
<1> DEFINE Passed ==
      /\ custom.opts = PrimarySection.opts /\ custom.env = PrimarySection.env
      /\ custom.disabled = PrimarySection.disabled /\ custom.cgroups = PrimarySection.cgroups
      /\ \A name \in DOMAIN static.subs : custom.subs[name] = CustomSection(name)
    Later == pc \in {"primary", "subs", "done"} => Passed
<1>1. Later /\ MadeOfOwn
  BY OneByOne DEF SectionInv
<1>2. SUFFICES Later' /\ MadeOfOwn'
  BY OneByOne, PTL DEF SectionInv
<1>3. world' = world
  BY DEF Next, vars, ReadStatic, ReadStaticFails, ReadCustom, ReadCustomFails, Verify, Fail,
         CompilePrimary, CompilePrimaryFails, CompileSub, CompileSubFails, CreateLoggerFails, Finish
<1>4. PrimarySection' = PrimarySection /\ \A name : CustomSection(name)' = CustomSection(name)
  BY <1>3 DEF PrimarySection, CustomSection
<1>5. ASSUME UNCHANGED <<primary, subs>> PROVE MadeOfOwn'
  BY <1>1, <1>3, <1>4, <1>5 DEF MadeOfOwn
<1>6. ASSUME UNCHANGED <<static, custom>>, pc \in {"primary", "subs", "done"} PROVE Later'
  BY <1>1, <1>4, <1>6
<1>7. CASE ReadStatic \/ ReadCustom
  BY <1>5, <1>7 DEF ReadStatic, ReadCustom
<1>8. CASE Verify
  <2>1. pc' = "primary" => Passed'
    BY <1>4, <1>8, DefaultsAreOwn DEF Verify
  <2>2. pc' \in {"primary", "failed"} /\ UNCHANGED <<primary, subs>>
    BY <1>8 DEF Verify
  <2> QED  BY <1>5, <2>1, <2>2
<1>9. CASE CompilePrimary
  <2>1. /\ primary' = <<Command(world, static, custom, custom.cgroups)>>
        /\ static = world.static.config /\ Passed /\ UNCHANGED <<static, custom, subs>>
        /\ pc = "primary"
    BY <1>1, <1>9 DEF CompilePrimary, StageInv
  <2>2. primary'[1] = Command(world, static, custom, custom.cgroups)
    BY <2>1
  <2>3. primary'[1] = Command(world, static, PrimarySection, PrimarySection.cgroups)
    BY <2>1, <2>2, SameCommand
  <2>4. MadeOfOwn'
    BY <1>1, <1>3, <1>4, <2>1, <2>3 DEF MadeOfOwn
  <2> QED  BY <1>6, <2>1, <2>4
<1>10. ASSUME NEW name \in DOMAIN static.subs, CompileSub(name) PROVE Later' /\ MadeOfOwn'
  <2>1. /\ static = world.static.config /\ Passed /\ UNCHANGED <<static, custom, primary>>
        /\ pc = "subs"
    BY <1>1, <1>10 DEF CompileSub, StageInv
  <2>2. subs' = [n \in DOMAIN subs \cup {name} |->
                  IF n = name
                  THEN Command(world, static.subs[name], CustomSection(name), PrimarySection.cgroups)
                  ELSE subs[n]]
    BY <1>10, <2>1 DEF CompileSub
  <2>3. MadeOfOwn'
    BY <1>1, <1>3, <1>4, <2>1, <2>2 DEF MadeOfOwn
  <2> QED  BY <1>6, <2>1, <2>3
<1>11. ASSUME NEW why, Fail(why) PROVE Later' /\ MadeOfOwn'
  BY <1>5, <1>11 DEF Fail
<1>12. CASE Finish
  BY <1>5, <1>6, <1>12 DEF Finish
<1>13. CASE UNCHANGED vars
  BY <1>1, <1>4, <1>5, <1>13 DEF vars
<1> QED
  BY <1>7, <1>8, <1>9, <1>10, <1>11, <1>12, <1>13
  DEF Next, ReadStaticFails, ReadCustomFails, CompilePrimaryFails, CompileSubFails, CreateLoggerFails

\* The inductive invariant of a launch.
THEOREM StagesAreKept == Spec => []CInv
<1>1. ASSUME Init PROVE SectionInv
  <2>1. MadeOfOwn
    BY <1>1 DEF Init, MadeOfOwn, NoSubs
  <2> QED  BY <1>1, <2>1, OneByOne DEF Init, SectionInv
<1>2. StageInv /\ StageInv' /\ SectionInv /\ [Next]_vars => SectionInv'
  BY SectionStep
<1>3. StageInv /\ SectionInv => CInv
  BY DEF CInv
<1> QED
  BY <1>1, <1>2, <1>3, StageInvHolds, PTL DEF Spec

\* Validation, defaults and cross-checks leave nothing for compilation to refuse (launcher.go:57, 121).
THEOREM ErrorsComeFirst == Spec => []ConfigErrorsComeFirst
<1>1. CInv => ConfigErrorsComeFirst
  BY DEF CInv, StageInv
<1> QED
  BY <1>1, StagesAreKept, PTL

\* No process of the static file is left out, and no subProcess of the custom file is passed over
\* (config.go:218, launcher.go:54).
THEOREM NothingIsIgnored == Spec => []NothingIgnored
<1>1. CInv => NothingIgnored
  BY DEF CInv, StageInv, NothingIgnored
<1> QED
  BY <1>1, StagesAreKept, PTL

LEMMA EnvironmentOfCommand ==
  ASSUME NEW w, NEW s, NEW c, NEW g
  PROVE  Command(w, s, c, g).env = Environment(w, s, c)
<1> DEFINE p == IF g = {} THEN Executable(w, s) ELSE <<"/bin", "cgexec">>
           e == Executable(w, s)
           o == IF s.type = "java" THEN CreateJvmOpts(w, s.opts \o c.opts, c.disabled) ELSE <<>>
           v == Environment(w, s, c)
<1>1. Command(w, s, c, g) = [path |-> p, groups |-> g, exe |-> e, opts |-> o, env |-> v]
  BY DEF Command
<1> HIDE DEF p, e, o, v
<1>2. Command(w, s, c, g).env = v
  BY <1>1
<1> QED
  BY <1>2 DEF v

\* Every command has the environment of its own two sections, with no placeholder left.
THEOREM EnvironmentIsOwn == Spec => []OwnEnvironment
<1>1. ASSUME CInv, NEW x \in Compiled
      PROVE  /\ DOMAIN x.cmd.env = DOMAIN x.s.env \cup DOMAIN x.c.env
             /\ \A key \in DOMAIN x.cmd.env :
                  LET given == IF key \in DOMAIN x.c.env THEN x.c.env[key] ELSE x.s.env[key]
                  IN  /\ x.cmd.env[key] # Placeholder
                      /\ given # Placeholder => x.cmd.env[key] = given
  <2>1. x.cmd = Command(world, x.s, x.c, PrimarySection.cgroups) /\ world.cwd # Placeholder
    BY <1>1 DEF CInv, SectionInv, StageInv, WorldOK
  <2>2. x.cmd.env = Environment(world, x.s, x.c)
    BY <2>1, EnvironmentOfCommand
  <2>3. DOMAIN x.cmd.env = DOMAIN x.s.env \cup DOMAIN x.c.env
    BY <2>2 DEF Environment
  <2>4. ASSUME NEW key \in DOMAIN x.cmd.env
        PROVE  LET given == IF key \in DOMAIN x.c.env THEN x.c.env[key] ELSE x.s.env[key]
               IN  x.cmd.env[key] = IF given = Placeholder THEN world.cwd ELSE given
    BY <2>2, <2>3, <2>4 DEF Environment
  <2> QED  BY <2>1, <2>3, <2>4
<1>2. CInv => OwnEnvironment
  BY <1>1 DEF OwnEnvironment
<1> QED
  BY <1>2, StagesAreKept, PTL

-----------------------------------------------------------------------------
(* The options of a command. *)

LEMMA CountOfPlaces ==
  ASSUME NEW S, NEW q \in Seq(S), NEW opts, NEW K, NEW f, Enumerates(f, q, opts, K), K \subseteq Nat
  PROVE  Cardinality(K) = Len(q)
<1>1. Len(q) \in Nat /\ f \in [1..Len(q) -> K]
  BY DEF Enumerates
<1>2. \A i, j \in 1..Len(q) : f[i] = f[j] => i = j
  <2> SUFFICES ASSUME NEW i \in 1..Len(q), NEW j \in 1..Len(q), f[i] = f[j], i # j PROVE FALSE
    OBVIOUS
  <2>1. f[i] \in Nat /\ f[j] \in Nat
    BY <1>1
  <2>2. i < j \/ j < i
    BY <1>1
  <2>3. f[i] < f[j] \/ f[j] < f[i]
    BY <2>2 DEF Enumerates
  <2> QED  BY <2>1, <2>3
<1>3. f \in Bijection(1..Len(q), K)
  BY <1>1, <1>2, Fun_IsBij DEF Enumerates
<1>4. ExistsBijection(1..Len(q), K)
  BY <1>3 DEF ExistsBijection
<1> QED
  BY <1>1, <1>4, FS_CountingElements

LimitFile(dir) == <<dir[1][1], dir[1][2], "memory.limit_in_bytes">>

\* The directory that is found is one of the process's own cgroup.
LEMMA PathIsOwn ==
  ASSUME NEW host, HostOK(host), CGroupPath(host, "memory") # <<>>
  PROVE  IsOwnFile(host, LimitFile(CGroupPath(host, "memory")))
<1> DEFINE name == "memory"
           dir == CGroupPath(host, name)
           mounts == {k \in DOMAIN host.mounts : Fits(host, host.mounts[k], name)}
           entries == {k \in DOMAIN host.cgroups : name \in host.cgroups[k].names}
           m == host.mounts[First(mounts)]
           e == host.cgroups[First(entries)]
           base == IF \E b \in m.bases : m.bases = {b} THEN CHOOSE b \in m.bases : TRUE ELSE name
<1> HIDE DEF name
<1>1. dir # <<>>
  BY DEF name
<1>2. mounts # {} /\ dir = <<MountPoint(m, name)>>
  BY <1>1 DEF CGroupPath
<1>3. First(mounts) \in mounts
  <2>1. mounts \in SUBSET Nat
    BY DEF HostOK
  <2> HIDE DEF mounts
  <2> QED  BY <1>2, <2>1, LeastNumber
<1>4. First(mounts) \in DOMAIN host.mounts /\ Fits(host, m, name)
  BY <1>3
<1>5. GetCGroupPath(host, name) = <<m.root>>
  BY <1>4 DEF Fits
<1>6. entries # {} /\ GetCGroupPath(host, name) = <<e.path>>
  BY <1>5 DEF GetCGroupPath
<1>7. First(entries) \in entries
  <2>1. entries \in SUBSET Nat
    BY DEF HostOK
  <2> HIDE DEF entries
  <2> QED  BY <1>6, <2>1, LeastNumber
<1>8. First(entries) \in DOMAIN host.cgroups /\ name \in e.names /\ m.root = e.path
  <2>1. <<m.root>>[1] = <<e.path>>[1]
    BY <1>5, <1>6
  <2> QED  BY <1>7, <2>1
<1>9. base \in m.bases /\ (m.bases = {base} \/ base = name) /\ name \in m.options
  <2>1. ASSUME NEW b \in m.bases, m.bases = {b} PROVE base = b
    BY <2>1
  <2>2. (\E b \in m.bases : m.bases = {b}) \/ name \in m.bases
    BY <1>4 DEF Fits
  <2>3. CASE \E b \in m.bases : m.bases = {b}
    <3>1. PICK b \in m.bases : m.bases = {b}
      BY <2>3
    <3>2. base = b
      BY <2>1, <3>1
    <3> HIDE DEF base, m
    <3> QED  BY <1>4, <3>1, <3>2 DEF Fits
  <2>4. CASE ~\E b \in m.bases : m.bases = {b}
    BY <1>4, <2>2, <2>4 DEF Fits
  <2> QED  BY <2>3, <2>4
<1>10. dir[1] = <<m.dir, base>>
  <2>1. MountPoint(m, name) = <<m.dir, base>>
    BY DEF MountPoint
  <2> HIDE DEF dir, m, base
  <2> QED  BY <1>2, <2>1
<1> HIDE DEF dir, mounts, entries, base
<1>11. LimitFile(dir) = <<m.dir, base, "memory.limit_in_bytes">>
  <2> HIDE DEF m
  <2> QED  BY <1>10 DEF LimitFile
<1> QED
  BY <1>4, <1>8, <1>9, <1>11 DEF IsOwnFile, name, dir

\* A directory of the process's own cgroup does not remain unfound.
LEMMA OwnIsFound ==
  ASSUME NEW host, HostOK(host), NEW p, IsOwnFile(host, p)
  PROVE  CGroupPath(host, "memory") # <<>>
<1> DEFINE name == "memory"
           mounts == {k \in DOMAIN host.mounts : Fits(host, host.mounts[k], name)}
           entries == {k \in DOMAIN host.cgroups : name \in host.cgroups[k].names}
<1> HIDE DEF name
<1>1. PICK e \in DOMAIN host.cgroups, m \in DOMAIN host.mounts :
        /\ name \in host.cgroups[e].names /\ host.mounts[m].root = host.cgroups[e].path
        /\ name \in host.mounts[m].options
        /\ \E base \in host.mounts[m].bases : host.mounts[m].bases = {base} \/ base = name
  BY DEF IsOwnFile, name
<1>2. First(entries) \in entries
  <2>1. entries \in SUBSET Nat /\ entries # {}
    BY <1>1 DEF HostOK
  <2> HIDE DEF entries
  <2> QED  BY <2>1, LeastNumber
<1>3. First(entries) = e
  <2>1. name \in host.cgroups[First(entries)].names \cap host.cgroups[e].names
    BY <1>1, <1>2
  <2> HIDE DEF entries
  <2>2. First(entries) \in DOMAIN host.cgroups
    BY <1>2 DEF entries
  <2> QED  BY <1>1, <2>1, <2>2 DEF HostOK
<1>4. GetCGroupPath(host, name) = <<host.mounts[m].root>>
  BY <1>1, <1>2, <1>3 DEF GetCGroupPath
<1>5. m \in mounts
  BY <1>1, <1>4 DEF Fits
<1>6. CGroupPath(host, name) = <<MountPoint(host.mounts[First(mounts)], name)>>
  BY <1>5 DEF CGroupPath
<1> HIDE DEF mounts
<1>7. CGroupPath(host, name) # <<>>
  BY <1>6
<1> QED
  BY <1>7 DEF name

\* The limit that is read, if one is, is in a file of the process's own cgroup.
LEMMA LimitIsOwn ==
  ASSUME NEW host, HostOK(host),
         ReadNumber(host, "memory", "memory.limit_in_bytes") # <<>>
  PROVE  \E p \in DOMAIN host.files :
           /\ IsOwnFile(host, p) /\ host.files[p] # <<>>
           /\ ReadNumber(host, "memory", "memory.limit_in_bytes") = <<host.files[p][1]>>
           /\ host.files[p][1] \in Ints
<1> DEFINE p == LimitFile(CGroupPath(host, "memory"))
<1>1. /\ CGroupPath(host, "memory") # <<>> /\ p \in DOMAIN host.files
      /\ ReadNumber(host, "memory", "memory.limit_in_bytes") = host.files[p]
  BY DEF ReadNumber, LimitFile
<1>2. IsOwnFile(host, p)
  BY <1>1, PathIsOwn
<1> HIDE DEF p
<1>3. host.files[p] = <<host.files[p][1]>> /\ host.files[p][1] \in Ints
  BY <1>1 DEF HostOK
<1> QED
  BY <1>1, <1>2, <1>3

\* From the number that is read to the heap size.
LEMMA HeapOfNumber ==
  ASSUME NEW host, NEW n, ReadNumber(host, "memory", "memory.limit_in_bytes") = <<n>>
  PROVE  HeapSize(host) = ComputeJVMHeapSizeInBytes(host.cpus, n % Word)
<1>1. <<n>>[1] = n /\ <<n>> # <<>> /\ <<n % Word>>[1] = n % Word /\ <<n % Word>> # <<>>
  OBVIOUS
<1>2. MemoryLimitInBytes(host) = <<n % Word>>
  BY <1>1 DEF MemoryLimitInBytes
<1> QED
  BY <1>1, <1>2 DEF HeapSize

\* A heap size is the share of the limit in a file of the process's own cgroup.
LEMMA HeapFromOwnLimit ==
  ASSUME NEW host, HostOK(host), HeapSize(host) # <<>>
  PROVE  \E h \in Nat, p \in DOMAIN host.files :
           /\ HeapSize(host) = <<h>>
           /\ IsOwnFile(host, p) /\ HasLimit(host, p)
           /\ IsShare(h, host.files[p][1], host.cpus)
<1>1. ReadNumber(host, "memory", "memory.limit_in_bytes") # <<>>
  BY DEF HeapSize, MemoryLimitInBytes
<1>2. PICK p \in DOMAIN host.files :
        /\ IsOwnFile(host, p) /\ host.files[p] # <<>>
        /\ ReadNumber(host, "memory", "memory.limit_in_bytes") = <<host.files[p][1]>>
        /\ host.files[p][1] \in Ints
  BY <1>1, LimitIsOwn
<1> DEFINE n == host.files[p][1]
<1>3. HeapSize(host) = ComputeJVMHeapSizeInBytes(host.cpus, n % Word)
  BY <1>2, HeapOfNumber
<1>4. n \in Ints
  BY <1>2
<1> HIDE DEF n
<1>5. host.cpus \in Nat /\ n \in Int /\ 2 * n < Word /\ Word \in Nat /\ MaxLimit \in Nat
  BY <1>4, ResourcesAssumption DEF HostOK, Ints
<1>6. n \in Nat
  BY <1>3, <1>4, <1>5, NegativeIsTooHigh
<1>7. n % Word = n
  BY <1>5, <1>6
<1>8. n <= MaxLimit
  BY <1>3, <1>5, <1>6, <1>7 DEF ComputeJVMHeapSizeInBytes
<1>9. PICK h \in Nat : ComputeJVMHeapSizeInBytes(host.cpus, n) = <<h>> /\ IsShare(h, n, host.cpus)
  BY <1>5, <1>6, <1>8, HeapBounds
<1>10. HasLimit(host, p)
  BY <1>2, <1>5, <1>6, <1>8 DEF HasLimit, n
<1> QED
  BY <1>2, <1>3, <1>7, <1>9, <1>10 DEF n

\* There is no heap size only if there is no limit to go by.
LEMMA NoHeapIfUnlimited ==
  ASSUME NEW host, HostOK(host), HeapSize(host) = <<>>
  PROVE  IsUnlimited(host)
<1> DEFINE dirs == {host.mounts[m].dir : m \in DOMAIN host.mounts}
           bases == UNION {host.mounts[m].bases : m \in DOMAIN host.mounts}
           own == {p \in dirs \X bases \X {"memory.limit_in_bytes"} : IsOwnFile(host, p)}
<1> SUFFICES ASSUME own # {}, \A p \in own : HasLimit(host, p) PROVE FALSE
  BY DEF IsUnlimited
<1>1. CGroupPath(host, "memory") # <<>>
  BY OwnIsFound
<1> DEFINE p == LimitFile(CGroupPath(host, "memory"))
<1>2. IsOwnFile(host, p)
  BY <1>1, PathIsOwn
<1>3. /\ p \in DOMAIN host.files => ReadNumber(host, "memory", "memory.limit_in_bytes") = host.files[p]
  BY <1>1 DEF ReadNumber, LimitFile
<1> HIDE DEF p
<1>4. p \in own
  BY <1>2 DEF IsOwnFile
<1>5. p \in DOMAIN host.files /\ host.files[p] # <<>> /\ host.files[p][1] \in 0..MaxLimit
  BY <1>4 DEF HasLimit
<1> DEFINE n == host.files[p][1]
<1>6. ReadNumber(host, "memory", "memory.limit_in_bytes") = <<n>>
  BY <1>3, <1>5 DEF HostOK
<1>7. n \in 0..MaxLimit
  BY <1>5
<1> HIDE DEF n, own
<1>8. n \in Nat /\ n <= MaxLimit /\ n % Word = n /\ host.cpus \in Nat
  BY <1>7, ResourcesAssumption DEF HostOK
<1>9. PICK h \in Nat : ComputeJVMHeapSizeInBytes(host.cpus, n) = <<h>>
  BY <1>8, HeapBounds
<1>10. HeapSize(host) = <<h>>
  BY <1>6, <1>8, <1>9, HeapOfNumber
<1> QED
  BY <1>10

InContainer(w, opts, disabled) == w.container /\ ~disabled /\ ~HasMaxRAMOverride(opts)

\* What is appended to the options that are kept: nothing if percentages are given, otherwise two
\* percentages on a host without a limit to go by, or two equal heap sizes.
Appended(host, opts, tail) ==
  \/ HasPercentage(opts) /\ tail = <<>>
  \/ /\ ~HasPercentage(opts) /\ IsUnlimited(host)
     /\ tail = <<[kind |-> "InitialRAMPercentage", val |-> 75], [kind |-> "MaxRAMPercentage", val |-> 75]>>
  \/ /\ ~HasPercentage(opts)
     /\ \E h \in Nat, p \in DOMAIN host.files :
          /\ tail = <<[kind |-> "Xms", val |-> h], [kind |-> "Xmx", val |-> h]>>
          /\ IsOwnFile(host, p) /\ HasLimit(host, p)
          /\ IsShare(h, host.files[p][1], host.cpus)

LEMMA OptsInContainer ==
  ASSUME NEW w, HostOK(w.host), NEW opts \in Seq(Opts), NEW disabled, InContainer(w, opts, disabled)
  PROVE  \E tail \in Seq(Opts) : /\ CreateJvmOpts(w, opts, disabled) = WithoutHeapSize(opts) \o tail
                                 /\ Appended(w.host, opts, tail)
<1> DEFINE heap == HeapSize(w.host)
           W == WithoutHeapSize(opts)
           Percents == <<[kind |-> "InitialRAMPercentage", val |-> 75], [kind |-> "MaxRAMPercentage", val |-> 75]>>
           Sizes(h) == <<[kind |-> "Xms", val |-> h], [kind |-> "Xmx", val |-> h]>>
           Result == CreateJvmOpts(w, opts, disabled)
<1>1. W \in Seq(Opts)
  BY FilterKeeps
<1>2. Percents \in Seq(Opts) /\ \A h \in Nat : Sizes(h) \in Seq(Opts)
  <2>1. /\ [kind |-> "InitialRAMPercentage", val |-> 75] \in Opts
        /\ [kind |-> "MaxRAMPercentage", val |-> 75] \in Opts
    BY DEF Opts, HeapKinds, PercentageKinds
  <2>2. \A h \in Nat : [kind |-> "Xms", val |-> h] \in Opts /\ [kind |-> "Xmx", val |-> h] \in Opts
    BY DEF Opts, HeapKinds, PercentageKinds
  <2> HIDE DEF W, Result
  <2> QED  BY <2>1, <2>2
<1>3. Result = IF HasPercentage(opts) THEN W
               ELSE IF heap = <<>> THEN FilterHeapSizeArgs(opts) ELSE W \o Sizes(heap[1])
  BY DEF CreateJvmOpts, InContainer
<1> HIDE DEF Result
<1>4. CASE HasPercentage(opts)
  <2>1. W = W \o <<>> /\ <<>> \in Seq(Opts)
    <3> HIDE DEF W
    <3> QED  BY <1>1
  <2>2. Result = W \o <<>> /\ Appended(w.host, opts, <<>>)
    BY <1>3, <1>4, <2>1 DEF Appended
  <2> QED  BY <2>1, <2>2 DEF Result
<1>5. CASE ~HasPercentage(opts) /\ heap = <<>>
  <2>1. Result = W \o Percents
    BY <1>3, <1>5 DEF FilterHeapSizeArgs
  <2>2. Appended(w.host, opts, Percents)
    BY <1>5, NoHeapIfUnlimited DEF Appended
  <2> HIDE DEF Percents, W
  <2> QED  BY <1>2, <2>1, <2>2 DEF Result, W
<1>6. CASE ~HasPercentage(opts) /\ heap # <<>>
  <2>1. PICK h \in Nat, p \in DOMAIN w.host.files :
          /\ heap = <<h>> /\ IsOwnFile(w.host, p) /\ HasLimit(w.host, p)
          /\ IsShare(h, w.host.files[p][1], w.host.cpus)
    BY <1>6, HeapFromOwnLimit
  <2>2. heap[1] = h
    <3> HIDE DEF heap
    <3> QED  BY <2>1
  <2>3. Result = W \o Sizes(h)
    BY <1>3, <1>6, <2>2
  <2>4. Appended(w.host, opts, Sizes(h))
    BY <1>6, <2>1 DEF Appended
  <2>5. Sizes(h) \in Seq(Opts)
    BY <1>2
  <2> HIDE DEF Sizes, W
  <2> QED  BY <2>3, <2>4, <2>5 DEF Result, W
<1> QED
  BY <1>4, <1>5, <1>6

LEMMA OptsOutside ==
  ASSUME NEW w, NEW opts, NEW disabled, ~InContainer(w, opts, disabled)
  PROVE  CreateJvmOpts(w, opts, disabled) = opts
BY DEF CreateJvmOpts, InContainer

LEMMA OptsOfCommand ==
  ASSUME NEW w, NEW s, NEW c, NEW g
  PROVE  /\ DOMAIN Command(w, s, c, g) = {"path", "groups", "exe", "opts", "env"}
         /\ Command(w, s, c, g).opts =
              IF s.type = "java" THEN CreateJvmOpts(w, s.opts \o c.opts, c.disabled) ELSE <<>>
<1> DEFINE p == IF g = {} THEN Executable(w, s) ELSE <<"/bin", "cgexec">>
           e == Executable(w, s)
           o == IF s.type = "java" THEN CreateJvmOpts(w, s.opts \o c.opts, c.disabled) ELSE <<>>
           v == Environment(w, s, c)
<1>1. Command(w, s, c, g) = [path |-> p, groups |-> g, exe |-> e, opts |-> o, env |-> v]
  BY DEF Command
<1> HIDE DEF p, e, o, v
<1>2. Command(w, s, c, g).opts = o /\ DOMAIN Command(w, s, c, g) = {"path", "groups", "exe", "opts", "env"}
  BY <1>1
<1> QED
  BY <1>2 DEF o

\* The sections that a command is made of have options, and the command is made of them.
LEMMA SectionsOfCommand ==
  ASSUME CInv, NEW x \in Compiled
  PROVE  /\ x.s.opts \in Seq(Opts) /\ x.c.opts \in Seq(Opts)
         /\ x.cmd = Command(world, x.s, x.c, PrimarySection.cgroups)
         /\ HostOK(world.host)
<1>1. /\ OptsOK(world.static.config) /\ OptsOK(world.custom.config) /\ HostOK(world.host)
      /\ DOMAIN subs \subseteq DOMAIN world.static.config.subs
  BY DEF CInv, StageInv, WorldOK
<1>2. <<>> \in Seq(Opts)
  OBVIOUS
<1>3. PrimarySection.opts \in Seq(Opts)
  BY <1>1, <1>2 DEF PrimarySection, EmptyCustom, OptsOK
<1>4. \A name \in DOMAIN subs : /\ world.static.config.subs[name].opts \in Seq(Opts)
                                /\ CustomSection(name).opts \in Seq(Opts)
  BY <1>1, <1>2 DEF CustomSection, DefaultCustom, OptsOK
<1>5. \/ x = [cmd |-> primary[1], s |-> world.static.config, c |-> PrimarySection]
      \/ \E name \in DOMAIN subs :
           x = [cmd |-> subs[name], s |-> world.static.config.subs[name], c |-> CustomSection(name)]
  BY DEF Compiled
<1>6. x.s.opts \in Seq(Opts) /\ x.c.opts \in Seq(Opts)
  <2>1. CASE x.s = world.static.config /\ x.c = PrimarySection
    BY <1>1, <1>3, <2>1 DEF OptsOK
  <2>2. ASSUME NEW name \in DOMAIN subs, x.s = world.static.config.subs[name], x.c = CustomSection(name)
        PROVE  x.s.opts \in Seq(Opts) /\ x.c.opts \in Seq(Opts)
    BY <1>4, <2>2
  <2> QED  BY <1>5, <2>1, <2>2
<1> QED
  BY <1>1, <1>6 DEF CInv, SectionInv

\* The options of a java command, from the options given in its two sections.
LEMMA OptsOfCompiled ==
  ASSUME CInv, NEW x \in Compiled, x.s.type = "java"
  PROVE  /\ x.s.opts \o x.c.opts \in Seq(Opts)
         /\ x.cmd.opts = CreateJvmOpts(world, x.s.opts \o x.c.opts, x.c.disabled)
         /\ HostOK(world.host)
         /\ Supported(x) <=> InContainer(world, x.s.opts \o x.c.opts, x.c.disabled)
<1>1. /\ x.s.opts \in Seq(Opts) /\ x.c.opts \in Seq(Opts) /\ HostOK(world.host)
      /\ x.cmd = Command(world, x.s, x.c, PrimarySection.cgroups)
  BY SectionsOfCommand
<1>2. x.cmd.opts = CreateJvmOpts(world, x.s.opts \o x.c.opts, x.c.disabled)
  BY <1>1, OptsOfCommand
<1>3. x.s.opts \o x.c.opts \in Seq(Opts)
  BY <1>1
<1>4. Supported(x) <=> InContainer(world, x.s.opts \o x.c.opts, x.c.disabled)
  BY DEF Supported, InContainer, HasMaxRAMOverride
<1> QED
  BY <1>1, <1>2, <1>3, <1>4

\* Every option of the two files reaches the JVM in its place, the static ones before the custom
\* ones, apart from heap sizes in a container (launcher.go:313), for files of any length.
THEOREM OptionsAreKept == Spec => []OptionsKept
<1>1. ASSUME CInv, NEW x \in Compiled, x.s.type = "java"
      PROVE  LET given == x.s.opts \o x.c.opts
                 kept == {k \in DOMAIN given : Supported(x) => given[k].kind \notin HeapKinds}
                 n == Cardinality(kept)
             IN  /\ n <= Len(x.cmd.opts)
                 /\ \E f \in [1..n -> kept] :
                      /\ \A i, j \in 1..n : i < j => f[i] < f[j]
                      /\ \A k \in 1..n : x.cmd.opts[k] = given[f[k]]
  <2> DEFINE given == x.s.opts \o x.c.opts
             kept == {k \in DOMAIN given : Supported(x) => given[k].kind \notin HeapKinds}
             n == Cardinality(kept)
             opts == x.cmd.opts
  <2> SUFFICES /\ n <= Len(opts)
               /\ \E f \in [1..n -> kept] :
                    /\ \A i, j \in 1..n : i < j => f[i] < f[j]
                    /\ \A k \in 1..n : opts[k] = given[f[k]]
    OBVIOUS
  <2>1. /\ given \in Seq(Opts) /\ HostOK(world.host)
        /\ opts = CreateJvmOpts(world, given, x.c.disabled)
        /\ Supported(x) <=> InContainer(world, given, x.c.disabled)
    BY <1>1, OptsOfCompiled
  <2> HIDE DEF given, opts
  <2>2. DOMAIN given = 1..Len(given) /\ Len(given) \in Nat /\ kept \subseteq Nat
    BY <2>1
  <2>3. ASSUME NEW q \in Seq(Opts), NEW tail \in Seq(Opts), opts = q \o tail,
               NEW f, Enumerates(f, q, given, kept)
        PROVE  /\ n <= Len(opts)
               /\ \E e \in [1..n -> kept] :
                    /\ \A i, j \in 1..n : i < j => e[i] < e[j]
                    /\ \A k \in 1..n : opts[k] = given[e[k]]
    <3>1. n = Len(q)
      <4> HIDE DEF kept
      <4> QED  BY <2>2, <2>3, CountOfPlaces
    <3>2. Len(q) \in Nat /\ Len(q) <= Len(opts) /\ \A k \in 1..Len(q) : opts[k] = q[k]
      BY <2>3
    <3> HIDE DEF n, kept
    <3>3. f \in [1..n -> kept] /\ \A i, j \in 1..n : i < j => f[i] < f[j]
      BY <2>3, <3>1 DEF Enumerates
    <3>4. \A k \in 1..n : opts[k] = given[f[k]]
      BY <2>3, <3>1, <3>2 DEF Enumerates
    <3> QED  BY <3>1, <3>2, <3>3, <3>4
  <2>4. CASE Supported(x)
    <3> DEFINE W == WithoutHeapSize(given)
    <3>1. PICK f : Enumerates(f, W, given, Places(given, Len(given)))
      BY <2>1, FilterKeeps
    <3>2. PICK tail \in Seq(Opts) : opts = W \o tail
      BY <2>1, <2>4, OptsInContainer
    <3>3. kept = Places(given, Len(given))
      BY <2>2, <2>4 DEF Places, IsHeapSizeArg, HeapKinds
    <3>4. W \in Seq(Opts)
      BY <2>1, FilterKeeps
    <3> HIDE DEF W, n, kept
    <3> QED  BY <2>3, <3>1, <3>2, <3>3, <3>4
  <2>5. CASE ~Supported(x)
    <3>1. opts = given
      BY <2>1, <2>5, OptsOutside
    <3>2. kept = 1..Len(given)
      BY <2>2, <2>5
    <3>3. <<>> \in Seq(Opts) /\ given = given \o <<>>
      BY <2>1
    <3>4. Enumerates([i \in 1..Len(given) |-> i], given, given, 1..Len(given))
      BY <2>2 DEF Enumerates
    <3> HIDE DEF n, kept
    <3> QED  BY <2>1, <2>3, <3>1, <3>2, <3>3, <3>4
  <2> QED  BY <2>4, <2>5
<1>2. CInv => OptionsKept
  BY <1>1 DEF OptionsKept
<1> QED
  BY <1>2, StagesAreKept, PTL

\* In a container the heap of a java process is given by percentages, if the files have some or
\* there is no limit to go by, and otherwise by one size for both ends, the share that is left to
\* it of the limit of its own cgroup (launcher.go:284, 332, 387), for any options and any host.
THEOREM HeapFits == Spec => []HeapFitsContainer
<1>1. ASSUME CInv, NEW x \in Compiled, x.s.type = "java", Supported(x)
      PROVE  LET opts == x.cmd.opts
                 sizes == {k \in DOMAIN opts : opts[k].kind \in HeapKinds}
                 Percentages == \E k \in DOMAIN opts : opts[k].kind \in PercentageKinds
             IN  IF sizes = {}
                 THEN Percentages /\ (HasPercentage(x.s.opts \o x.c.opts) \/ IsUnlimited(world.host))
                 ELSE /\ ~Percentages
                      /\ {opts[k].kind : k \in sizes} = HeapKinds
                      /\ \E h \in {opts[k].val : k \in sizes}, p \in DOMAIN world.host.files :
                           /\ \A k \in sizes : opts[k].val = h
                           /\ IsOwnFile(world.host, p) /\ HasLimit(world.host, p)
                           /\ IsShare(h, world.host.files[p][1], world.host.cpus)
  <2> DEFINE given == x.s.opts \o x.c.opts
             opts == x.cmd.opts
             sizes == {k \in DOMAIN opts : opts[k].kind \in HeapKinds}
             Percentages == \E k \in DOMAIN opts : opts[k].kind \in PercentageKinds
             W == WithoutHeapSize(given)
             m == Len(W)
             OfLimit(h, p) == /\ IsOwnFile(world.host, p) /\ HasLimit(world.host, p)
                              /\ IsShare(h, world.host.files[p][1], world.host.cpus)
  <2> SUFFICES IF sizes = {} THEN Percentages /\ (HasPercentage(given) \/ IsUnlimited(world.host))
               ELSE /\ ~Percentages
                    /\ {opts[k].kind : k \in sizes} = HeapKinds
                    /\ \E h \in {opts[k].val : k \in sizes}, p \in DOMAIN world.host.files :
                         (\A k \in sizes : opts[k].val = h) /\ OfLimit(h, p)
    OBVIOUS
  <2>1. given \in Seq(Opts) /\ \E tail \in Seq(Opts) : opts = W \o tail /\ Appended(world.host, given, tail)
    BY <1>1, OptsOfCompiled, OptsInContainer
  <2>2. PICK tail \in Seq(Opts) : opts = W \o tail /\ Appended(world.host, given, tail)
    BY <2>1
  <2>3. W \in Seq(Opts) /\ \E f : Enumerates(f, W, given, Places(given, Len(given)))
    BY <2>1, FilterKeeps
  <2>4. PICK f : Enumerates(f, W, given, Places(given, Len(given)))
    BY <2>3
  <2> HIDE DEF given, opts, W
  <2>5. /\ m \in Nat /\ Len(tail) \in Nat /\ DOMAIN opts = 1..(m + Len(tail))
        /\ \A k \in 1..m : opts[k] = W[k]
        /\ \A k \in 1..Len(tail) : opts[m + k] = tail[k]
    BY <2>2, <2>3
  <2>6. \A k \in 1..m : \E j \in 1..Len(given) : opts[k] = given[j] /\ ~IsHeapSizeArg(given[j])
    BY <2>4, <2>5 DEF Enumerates, Places
  <2>7. \A j \in 1..Len(given) : ~IsHeapSizeArg(given[j]) => \E k \in 1..m : opts[k] = given[j]
    BY <2>4, <2>5 DEF Enumerates, Places
  <2>8. DOMAIN given = 1..Len(given)
    BY <2>1
  <2>9. HasPercentage(given) <=> \E k \in 1..m : opts[k].kind \in PercentageKinds
    <3>1. HasPercentage(given) <=> \E j \in 1..Len(given) : given[j].kind \in PercentageKinds
      BY <2>8 DEF HasPercentage, PercentageKinds
    <3>2. \A j \in 1..Len(given) : given[j].kind \in PercentageKinds => ~IsHeapSizeArg(given[j])
      BY DEF IsHeapSizeArg, PercentageKinds
    <3> QED  BY <2>6, <2>7, <3>1, <3>2
  <2>10. \A k \in 1..m : opts[k].kind \notin HeapKinds
    BY <2>6 DEF IsHeapSizeArg, HeapKinds
  <2> HIDE DEF m
  <2>11. CASE tail = <<>> /\ HasPercentage(given)
    <3>1. DOMAIN opts = 1..m
      BY <2>5, <2>11
    <3>2. sizes = {} /\ Percentages
      BY <2>9, <2>10, <2>11, <3>1
    <3> QED  BY <2>11, <3>2
  <2>12. ASSUME NEW a \in Opts, NEW b \in Opts, tail = <<a, b>>
         PROVE  /\ DOMAIN opts = (1..m) \cup {m + 1, m + 2}
                /\ opts[m + 1] = a /\ opts[m + 2] = b
    <3>1. Len(tail) = 2 /\ tail[1] = a /\ tail[2] = b /\ 1 \in 1..Len(tail) /\ 2 \in 1..Len(tail)
      BY <2>12
    <3>2. 1..(m + 2) = (1..m) \cup {m + 1, m + 2}
      BY <2>5
    <3> QED  BY <2>5, <3>1, <3>2
  <2> DEFINE Opt(kind, val) == [kind |-> kind, val |-> val]
  <2>13. /\ \A v \in Nat : \A kind \in HeapKinds \cup PercentageKinds : Opt(kind, v) \in Opts
         /\ \A v \in Nat : \A kind \in HeapKinds \cup PercentageKinds :
              Opt(kind, v).kind = kind /\ Opt(kind, v).val = v
    BY DEF Opts
  <2>14. CASE /\ tail = <<Opt("InitialRAMPercentage", 75), Opt("MaxRAMPercentage", 75)>>
              /\ IsUnlimited(world.host)
    <3> DEFINE a == Opt("InitialRAMPercentage", 75)
               b == Opt("MaxRAMPercentage", 75)
    <3>1. a \in Opts /\ b \in Opts /\ a.kind \in PercentageKinds /\ b.kind \in PercentageKinds
      BY <2>13 DEF PercentageKinds
    <3> HIDE DEF a, b
    <3>2. /\ DOMAIN opts = (1..m) \cup {m + 1, m + 2}
          /\ opts[m + 1] = a /\ opts[m + 2] = b
      BY <2>12, <2>14, <3>1 DEF a, b
    <3>3. \A kind \in PercentageKinds : kind \notin HeapKinds
      BY DEF PercentageKinds, HeapKinds
    <3>4. sizes = {} /\ Percentages
      BY <2>10, <3>1, <3>2, <3>3
    <3> QED  BY <2>14, <3>4
  <2>15. ASSUME ~HasPercentage(given), NEW h \in Nat, tail = <<Opt("Xms", h), Opt("Xmx", h)>>
         PROVE  /\ sizes # {} /\ ~Percentages
                /\ {opts[k].kind : k \in sizes} = HeapKinds
                /\ h \in {opts[k].val : k \in sizes}
                /\ \A k \in sizes : opts[k].val = h
    <3> DEFINE a == Opt("Xms", h)
               b == Opt("Xmx", h)
    <3>1. /\ a \in Opts /\ b \in Opts
          /\ a.kind = "Xms" /\ b.kind = "Xmx" /\ a.val = h /\ b.val = h
      BY <2>13 DEF HeapKinds
    <3> HIDE DEF a, b
    <3>2. /\ DOMAIN opts = (1..m) \cup {m + 1, m + 2}
          /\ opts[m + 1] = a /\ opts[m + 2] = b
      BY <2>12, <2>15, <3>1 DEF a, b
    <3>3. HeapKinds = {"Xms", "Xmx"} /\ \A kind \in HeapKinds : kind \notin PercentageKinds
      BY DEF PercentageKinds, HeapKinds
    <3>4. sizes = {m + 1, m + 2}
      BY <2>10, <3>1, <3>2, <3>3
    <3>5. ~Percentages
      BY <2>9, <2>15, <3>1, <3>2, <3>3
    <3>6. \A k \in sizes : opts[k].val = h
      BY <3>1, <3>2, <3>4
    <3> HIDE DEF sizes, Percentages
    <3> QED  BY <3>1, <3>2, <3>3, <3>4, <3>5, <3>6
  <2>16. \/ HasPercentage(given) /\ tail = <<>>
         \/ /\ tail = <<Opt("InitialRAMPercentage", 75), Opt("MaxRAMPercentage", 75)>>
            /\ IsUnlimited(world.host)
         \/ /\ ~HasPercentage(given)
            /\ \E h \in Nat, p \in DOMAIN world.host.files :
                 tail = <<Opt("Xms", h), Opt("Xmx", h)>> /\ OfLimit(h, p)
    BY <2>2 DEF Appended
  <2>17. CASE /\ ~HasPercentage(given)
              /\ \E h \in Nat, p \in DOMAIN world.host.files :
                   tail = <<Opt("Xms", h), Opt("Xmx", h)>> /\ OfLimit(h, p)
    <3> HIDE DEF sizes, Percentages, Opt, OfLimit
    <3> QED  BY <2>15, <2>17
  <2> QED  BY <2>11, <2>14, <2>16, <2>17
<1>2. CInv => HeapFitsContainer
  BY <1>1 DEF HeapFitsContainer
<1> QED
  BY <1>2, StagesAreKept, PTL

\* The reasons for which a command cannot be compiled.
LEMMA ErrorsOfCompilation ==
  ASSUME NEW w, NEW s
  PROVE  CompileError(w, s) \in {"", "type", "javaHome", "path"}
BY DEF CompileError

LEMMA ListOfOptsOK ==
  ASSUME NEW w, NEW s, NEW c, NEW g,
         HostOK(w.host), s.opts \in Seq(Opts), c.opts \in Seq(Opts)
  PROVE  CommandOK(Command(w, s, c, g))
<1> DEFINE given == s.opts \o c.opts
           cmd == Command(w, s, c, g)
<1>1. given \in Seq(Opts)
  OBVIOUS
<1>2. CreateJvmOpts(w, given, c.disabled) \in Seq(Opts)
  <2>1. CASE InContainer(w, given, c.disabled)
    <3> HIDE DEF given
    <3>1. \E tail \in Seq(Opts) : CreateJvmOpts(w, given, c.disabled) = WithoutHeapSize(given) \o tail
      BY <1>1, <2>1, OptsInContainer
    <3>2. WithoutHeapSize(given) \in Seq(Opts)
      BY <1>1, FilterKeeps
    <3> QED  BY <3>1, <3>2
  <2>2. CASE ~InContainer(w, given, c.disabled)
    BY <1>1, <2>2, OptsOutside
  <2> QED  BY <2>1, <2>2
<1>3. cmd.opts \in Seq(Opts) /\ DOMAIN cmd = {"path", "groups", "exe", "opts", "env"}
  <2>1. <<>> \in Seq(Opts)
    OBVIOUS
  <2> HIDE DEF given
  <2> QED  BY <1>2, <2>1, OptsOfCommand DEF given
<1> HIDE DEF cmd
<1>4. \A k \in DOMAIN cmd.opts : cmd.opts[k] \in Opts
  BY <1>3
<1> QED
  BY <1>3, <1>4 DEF CommandOK, cmd

\* A launch fails with one of the reasons there are, and only then has one.
Reasons == {"", "static", "custom", "verify", "javaHome", "path", "logger", "type", "noCustom"}

ErrorOK == pc \in Stages /\ err \in Reasons /\ (err = "" <=> pc # "failed")

LEMMA ErrorStep ==
  ASSUME ErrorOK, [Next]_vars
  PROVE  ErrorOK'
<1>1. ASSUME NEW why, why \in Reasons, why # "", Fail(why) PROVE ErrorOK'
  BY <1>1 DEF ErrorOK, Fail, Stages
<1>2. CASE ReadStatic \/ ReadCustom \/ CompilePrimary \/ Finish
  BY <1>2 DEF ReadStatic, ReadCustom, CompilePrimary, Finish, ErrorOK, Stages
<1>3. CASE ReadStaticFails \/ ReadCustomFails \/ CreateLoggerFails
  BY <1>1, <1>3 DEF ReadStaticFails, ReadCustomFails, CreateLoggerFails, Reasons
<1>4. CASE Verify
  <2>1. pc = "verify" /\ err = ""
    BY <1>4 DEF Verify, ErrorOK
  <2>2. (pc' = "primary" /\ err' = err) \/ (pc' = "failed" /\ err' = "verify")
    BY <1>4 DEF Verify
  <2> QED  BY <2>1, <2>2 DEF ErrorOK, Stages, Reasons
<1>5. CASE CompilePrimaryFails
  <2>1. CompileError(world, static) \in Reasons
    BY ErrorsOfCompilation DEF Reasons
  <2> QED  BY <1>1, <1>5, <2>1 DEF CompilePrimaryFails
<1>6. ASSUME NEW name \in DOMAIN static.subs, CompileSub(name) PROVE ErrorOK'
  BY <1>6 DEF CompileSub, ErrorOK
<1>7. ASSUME NEW name \in DOMAIN static.subs, CompileSubFails(name) PROVE ErrorOK'
  <2>1. SubError(name) \in Reasons
    BY ErrorsOfCompilation DEF SubError, Reasons
  <2> QED  BY <1>1, <1>7, <2>1 DEF CompileSubFails
<1>8. CASE UNCHANGED vars
  BY <1>8 DEF vars, ErrorOK
<1> QED
  BY <1>2, <1>3, <1>4, <1>5, <1>6, <1>7, <1>8 DEF Next

\* A launch keeps to its stages, has a reason exactly when it fails, and every option it compiles
\* can be written down: no heap size is negative (launcher.go:356), whatever the limit file says.
THEOREM TypeCorrect == Spec => []TypeOK
<1>1. Init => ErrorOK
  BY DEF Init, ErrorOK, Stages, Reasons
<1>2. ASSUME CInv PROVE /\ primary # <<>> => CommandOK(primary[1])
                        /\ \A name \in DOMAIN subs : CommandOK(subs[name])
  <2>1. ASSUME NEW x \in Compiled PROVE CommandOK(x.cmd)
    <3>1. /\ x.s.opts \in Seq(Opts) /\ x.c.opts \in Seq(Opts)
          /\ x.cmd = Command(world, x.s, x.c, PrimarySection.cgroups)
          /\ HostOK(world.host)
      BY <1>2, SectionsOfCommand
    <3> QED  BY <3>1, ListOfOptsOK
  <2>2. ASSUME primary # <<>> PROVE CommandOK(primary[1])
    <3> DEFINE x == [cmd |-> primary[1], s |-> world.static.config, c |-> PrimarySection]
    <3>1. x \in Compiled /\ x.cmd = primary[1]
      BY <2>2 DEF Compiled
    <3> HIDE DEF x
    <3> QED  BY <2>1, <3>1
  <2>3. ASSUME NEW name \in DOMAIN subs PROVE CommandOK(subs[name])
    <3> DEFINE x == [cmd |-> subs[name], s |-> world.static.config.subs[name], c |-> CustomSection(name)]
    <3>1. x \in Compiled /\ x.cmd = subs[name]
      BY DEF Compiled
    <3> HIDE DEF x
    <3> QED  BY <2>1, <3>1
  <2> QED  BY <2>2, <2>3
<1>3. CInv /\ ErrorOK => TypeOK
  BY <1>2 DEF TypeOK, ErrorOK, Reasons
<1> QED
  BY <1>1, <1>3, ErrorStep, StagesAreKept, PTL DEF Spec
=============================================================================
