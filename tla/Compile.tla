------------------------------- MODULE Compile -------------------------------
(***************************************************************************)
(* From the configuration files to the commands of a service: main of      *)
(* launcher/main up to the first process (without its directories), and    *)
(* launchlib/launcher.go.  go-init takes the same way in getConfiguredCmds.*)
(*                                                                         *)
(* One launch in one world:                                                *)
(*   [static, custom |-> the files (Config),                               *)
(*    container |-> whether CONTAINER is set,                              *)
(*    vars |-> JAVA_HOME and another variable ("" when not set), cwd,      *)
(*    launchable |-> the paths that are safe for exec and exist,           *)
(*    host |-> what the container grants (Resources)].                     *)
(* A JVM option is [kind, val], its prefix and the number after it.        *)
(***************************************************************************)
EXTENDS Resources, Config

CONSTANT Worlds

\* What a value of the environment may hold for the working directory.
Placeholder == "{{CWD}}"

HeapKinds == {"Xmx", "Xms"}
PercentageKinds == {"MaxRAMPercentage", "InitialRAMPercentage"}
Opts == [kind : HeapKinds \cup PercentageKinds \cup {"MaxRAM", "Xmn", "other"}, val : Nat]

\* The options of a configuration and of its subProcesses.
OptsOK(c) ==
  /\ c.opts \in Seq(Opts)
  /\ \A name \in DOMAIN c.subs : c.subs[name].opts \in Seq(Opts)

\* A host has a processor, its entries are lists, of which only one names a controller, and the
\* number in a file is an int.
HostOK(host) ==
  /\ host.cpus \in Nat \ {0}
  /\ DOMAIN host.cgroups \subseteq Nat /\ DOMAIN host.mounts \subseteq Nat
  /\ \A j, k \in DOMAIN host.cgroups :
       host.cgroups[j].names \cap host.cgroups[k].names # {} => j = k
  /\ \A p \in DOMAIN host.files : host.files[p] # <<>> =>
       host.files[p] = <<host.files[p][1]>> /\ host.files[p][1] \in Ints

\* A custom configuration has its fields, and a working directory is no placeholder.
WorldOK(w) ==
  /\ {"subs", "opts", "env", "disabled", "cgroups"} \subseteq DOMAIN w.custom.config
  /\ OptsOK(w.static.config) /\ OptsOK(w.custom.config)
  /\ HostOK(w.host)
  /\ w.cwd # Placeholder

ASSUME WorldsAssumption == \A w \in Worlds : WorldOK(w)

VARIABLES
  world,
  pc,      \* the next thing to do, or "done", "failed"
  static,  \* the two configurations once they are read
  custom,
  primary, \* <<command>> once it is compiled
  subs,    \* name |-> command
  err      \* why the launch failed, "" otherwise

vars == <<world, pc, static, custom, primary, subs, err>>

Stages == {"static", "custom", "verify", "primary", "subs", "done", "failed"}

-----------------------------------------------------------------------------
(* JVM options. *)

\* Mutant: everything that begins with -Xm, the size of the young generation included.
IsHeapSizeArgLoose(o) == o.kind \in {"Xmx", "Xms", "Xmn"}

IsHeapSizeArg(o) == o.kind \in {"Xmx", "Xms"}

HasMaxRAMOverride(opts) == \E k \in DOMAIN opts : opts[k].kind = "MaxRAM"

HasPercentage(opts) ==
  \E k \in DOMAIN opts : opts[k].kind \in {"MaxRAMPercentage", "InitialRAMPercentage"}

\* What the loop over the options has kept after n of them.
Kept(opts) ==
  LET kept[n \in 0..Len(opts)] ==
        IF n = 0 THEN <<>>
        ELSE IF IsHeapSizeArg(opts[n]) THEN kept[n - 1] ELSE Append(kept[n - 1], opts[n])
  IN  kept

WithoutHeapSize(opts) == Kept(opts)[Len(opts)]

\* filterHeapSizeArgs
FilterHeapSizeArgs(opts) ==
  WithoutHeapSize(opts) \o
    IF HasPercentage(opts) THEN <<>>
    ELSE <<[kind |-> "InitialRAMPercentage", val |-> 75], [kind |-> "MaxRAMPercentage", val |-> 75]>>

\* The heap size from the memory limit, <<>> if there is none or it is too high.
HeapSize(host) ==
  LET limit == MemoryLimitInBytes(host)
  IN  IF limit = <<>> THEN <<>> ELSE ComputeJVMHeapSizeInBytes(host.cpus, limit[1])

\* createJvmOpts; filterHeapSizeArgsV2 first, and filterHeapSizeArgs when that fails.
CreateJvmOpts(w, opts, disabled) ==
  LET heap == HeapSize(w.host)
  IN  IF ~w.container \/ disabled \/ HasMaxRAMOverride(opts) THEN opts
      ELSE IF HasPercentage(opts) THEN WithoutHeapSize(opts)
      ELSE IF heap = <<>> THEN FilterHeapSizeArgs(opts)
      ELSE WithoutHeapSize(opts) \o
             <<[kind |-> "Xms", val |-> heap[1]], [kind |-> "Xmx", val |-> heap[1]]>>

-----------------------------------------------------------------------------
(* A command. *)

\* getJavaHome: "" for an error.  home is [kind, path].
GetJavaHome(w, home) ==
  CASE home.kind = "unset"    -> w.vars.JAVA_HOME
    [] home.kind = "dollar"   -> ""
    [] home.kind = "variable" -> IF w.vars.NAMED # "" THEN w.vars.NAMED ELSE w.vars.JAVA_HOME
    [] home.kind = "path"     -> home.path

Executable(w, s) == IF s.type = "java" THEN <<GetJavaHome(w, s.home), "java">> ELSE s.exe

\* Why the command of s cannot be compiled, "" if it can.
CompileError(w, s) ==
  CASE s.type \notin {"java", "executable"}                      -> "type"
    [] s.type = "java" /\ GetJavaHome(w, s.home) = ""            -> "javaHome"
    [] s.type = "java" /\ GetJavaHome(w, s.home) # ""
         /\ Executable(w, s) \notin w.launchable                 -> "path"
    [] s.type = "executable" /\ Executable(w, s) \notin w.launchable -> "path"
    [] OTHER                                                     -> ""

\* merge and replaceEnvironmentVariables: what is appended to the inherited environment.
Environment(w, s, c) ==
  [key \in DOMAIN s.env \cup DOMAIN c.env |->
     LET value == IF key \in DOMAIN c.env THEN c.env[key] ELSE s.env[key]
     IN  IF value = Placeholder THEN w.cwd ELSE value]

\* compileCmdFromConfig: with cgroups it is cgexec that is executed.
Command(w, s, c, cgroups) ==
  [path |-> IF cgroups = {} THEN Executable(w, s) ELSE <<"/bin", "cgexec">>,
   groups |-> cgroups,
   exe |-> Executable(w, s),
   opts |-> IF s.type = "java" THEN CreateJvmOpts(w, s.opts \o c.opts, c.disabled) ELSE <<>>,
   env |-> Environment(w, s, c)]

-----------------------------------------------------------------------------
NoConfig == EmptyCustom

Init ==
  /\ world \in Worlds
  /\ pc = "static" /\ err = ""
  /\ static = NoConfig /\ custom = NoConfig
  /\ primary = <<>> /\ subs = NoSubs

Fail(why) ==
  /\ pc' = "failed" /\ err' = why
  /\ UNCHANGED <<world, static, custom, primary, subs>>

\* getStaticConfigFromFile
ReadStatic ==
  /\ pc = "static"
  /\ world.static.state = "yaml" /\ ParsesAsStatic(world.static.config)
  /\ static' = world.static.config /\ pc' = "custom"
  /\ UNCHANGED <<world, custom, primary, subs, err>>

ReadStaticFails ==
  /\ pc = "static"
  /\ world.static.state # "yaml" \/ ~ParsesAsStatic(world.static.config)
  /\ Fail("static")

\* getCustomConfigFromFile: a file that cannot be read is an empty configuration.
ReadCustom ==
  /\ pc = "custom"
  /\ \/ world.custom.state = "absent" /\ custom' = EmptyCustom
     \/ /\ world.custom.state = "yaml" /\ ParsesAsCustom(world.custom.config)
        /\ custom' = world.custom.config
  /\ pc' = "verify"
  /\ UNCHANGED <<world, static, primary, subs, err>>

ReadCustomFails ==
  /\ pc = "custom" /\ world.custom.state # "absent"
  /\ world.custom.state # "yaml" \/ ~ParsesAsCustom(world.custom.config)
  /\ Fail("custom")

\* The rest of GetConfigsFromFiles.
Verify ==
  /\ pc = "verify"
  /\ custom' = WithDefaults(static, custom)
  /\ IF VerifyStaticWithCustom(static, custom')
     THEN pc' = "primary" /\ err' = err
     ELSE pc' = "failed" /\ err' = "verify"
  /\ UNCHANGED <<world, static, primary, subs>>

\* CompileCmdsFromConfig
CompilePrimary ==
  /\ pc = "primary" /\ CompileError(world, static) = ""
  /\ primary' = <<Command(world, static, custom, custom.cgroups)>> /\ pc' = "subs"
  /\ UNCHANGED <<world, static, custom, subs, err>>

CompilePrimaryFails ==
  /\ pc = "primary"
  /\ CompileError(world, static) # "" /\ Fail(CompileError(world, static))

SubError(name) ==
  IF name \notin DOMAIN custom.subs THEN "noCustom" ELSE CompileError(world, static.subs[name])

\* Mutant: each subProcess gets the section of the service.
CompileSubOfPrimary(name) ==
  /\ pc = "subs" /\ name \in DOMAIN static.subs \ DOMAIN subs
  /\ SubError(name) = ""
  /\ subs' = [n \in DOMAIN subs \cup {name} |->
                IF n = name THEN Command(world, static.subs[name], custom, custom.cgroups) ELSE subs[n]]
  /\ UNCHANGED <<world, pc, static, custom, primary, err>>

\* The loop over the subProcesses, in any order.
CompileSub(name) ==
  /\ pc = "subs" /\ name \in DOMAIN static.subs \ DOMAIN subs
  /\ SubError(name) = ""
  /\ subs' = [n \in DOMAIN subs \cup {name} |->
                IF n = name
                THEN Command(world, static.subs[name], custom.subs[name], custom.cgroups)
                ELSE subs[n]]
  /\ UNCHANGED <<world, pc, static, custom, primary, err>>

CompileSubFails(name) ==
  /\ pc = "subs" /\ name \in DOMAIN static.subs \ DOMAIN subs
  /\ SubError(name) # "" /\ Fail(SubError(name))

\* createLogger may fail for each of the commands (go-init opens a file).
CreateLoggerFails ==
  /\ \/ pc = "primary"
     \/ pc = "subs" /\ DOMAIN subs # DOMAIN static.subs
  /\ Fail("logger")

Finish ==
  /\ pc = "subs" /\ DOMAIN subs = DOMAIN static.subs
  /\ pc' = "done"
  /\ UNCHANGED <<world, static, custom, primary, subs, err>>

Next ==
  \/ ReadStatic \/ ReadStaticFails \/ ReadCustom \/ ReadCustomFails \/ Verify
  \/ CompilePrimary \/ CompilePrimaryFails
  \/ \E name \in DOMAIN static.subs : CompileSub(name) \/ CompileSubFails(name)
  \/ CreateLoggerFails \/ Finish

Spec == Init /\ [][Next]_vars

-----------------------------------------------------------------------------
(* Properties. *)

CommandOK(cmd) ==
  /\ DOMAIN cmd = {"path", "groups", "exe", "opts", "env"}
  /\ \A k \in DOMAIN cmd.opts : cmd.opts[k] \in Opts

\* A launch keeps to its stages, and every option it compiles is one that can be written down
\* (a heap size is no negative number).
TypeOK ==
  /\ pc \in Stages
  /\ err \in {"", "static", "custom", "verify", "javaHome", "path", "logger", "type", "noCustom"}
  /\ (err = "") = (pc # "failed")
  /\ primary # <<>> => CommandOK(primary[1])
  /\ \A name \in DOMAIN subs : CommandOK(subs[name])

\* The sections of the custom file, or what stands for one that is not there.
PrimarySection == IF world.custom.state = "yaml" THEN world.custom.config ELSE EmptyCustom

CustomSection(name) ==
  IF world.custom.state = "yaml" /\ name \in DOMAIN world.custom.config.subs
  THEN world.custom.config.subs[name]
  ELSE DefaultCustom(world.static.config.subs[name].type)

\* What has been compiled, each command with the sections of the files that it is made of.
Compiled ==
  (IF primary = <<>> THEN {}
   ELSE {[cmd |-> primary[1], s |-> world.static.config, c |-> PrimarySection]})
  \cup {[cmd |-> subs[name], s |-> world.static.config.subs[name], c |-> CustomSection(name)] :
          name \in DOMAIN subs}

\* Compilation never meets what validation should have refused: launcher.go:121 says of an
\* unknown type that "this should have errored in config validation", and a subProcess
\* without a custom configuration (launcher.go:57) has been given one.
ConfigErrorsComeFirst == err \notin {"type", "noCustom"}

\* A launch that succeeds has a command for each process of the static file and has looked at
\* every subProcess of the custom file: a misspelt name there does not go unnoticed.
NothingIgnored ==
  pc = "done" =>
    /\ primary # <<>>
    /\ DOMAIN subs = DOMAIN world.static.config.subs
    /\ world.custom.state = "yaml" => DOMAIN world.custom.config.subs \subseteq DOMAIN subs

\* What each stage leaves to the next.
StageInv ==
  /\ pc \in Stages /\ WorldOK(world)
  /\ ConfigErrorsComeFirst
  /\ DOMAIN subs \subseteq DOMAIN static.subs \cap DOMAIN world.static.config.subs
  /\ pc \notin {"subs", "done", "failed"} => DOMAIN subs = {}
  /\ pc \in {"custom", "verify", "primary", "subs", "done"} =>
       /\ static = world.static.config
       /\ ValidateType(static)
       /\ \A name \in DOMAIN static.subs : ValidateType(static.subs[name])
  /\ pc = "verify" => custom = PrimarySection
  /\ pc \in {"primary", "subs", "done"} =>
       /\ DOMAIN custom.subs = DOMAIN static.subs
       /\ world.custom.state = "yaml" => DOMAIN world.custom.config.subs \subseteq DOMAIN custom.subs
  /\ pc \in {"subs", "done"} => primary # <<>>
  /\ pc = "done" => DOMAIN subs = DOMAIN static.subs

\* What defaults leave to compilation, and what commands are made of.
SectionInv ==
  /\ pc \in {"primary", "subs", "done"} =>
       /\ custom.opts = PrimarySection.opts /\ custom.env = PrimarySection.env
       /\ custom.disabled = PrimarySection.disabled /\ custom.cgroups = PrimarySection.cgroups
       /\ \A name \in DOMAIN static.subs : custom.subs[name] = CustomSection(name)
  /\ \A x \in Compiled : x.cmd = Command(world, x.s, x.c, PrimarySection.cgroups)

\* Inductive: no stage finds what an earlier one should have refused, and each command is
\* compiled from its own two sections.
CInv == StageInv /\ SectionInv

\* README, "Disabling container support".
Supported(x) ==
  /\ world.container /\ ~x.c.disabled
  /\ ~\E k \in DOMAIN (x.s.opts \o x.c.opts) : (x.s.opts \o x.c.opts)[k].kind = "MaxRAM"

\* Where the limit of this process's own cgroup is to be found: below each mount of that cgroup
\* with the memory controller, in the only directory or in that with the controller's name.
IsOwnFile(host, p) ==
  \E e \in DOMAIN host.cgroups, m \in DOMAIN host.mounts :
    /\ "memory" \in host.cgroups[e].names /\ host.mounts[m].root = host.cgroups[e].path
    /\ "memory" \in host.mounts[m].options
    /\ \E base \in host.mounts[m].bases :
         /\ host.mounts[m].bases = {base} \/ base = "memory"
         /\ p = <<host.mounts[m].dir, base, "memory.limit_in_bytes">>

\* It holds a number that is a limit, and not one that stands for "unlimited".
HasLimit(host, p) ==
  p \in DOMAIN host.files /\ host.files[p] # <<>> /\ host.files[p][1] \in 0..MaxLimit

\* No mount is the cgroup's own, or one of them does not limit it.
IsUnlimited(host) ==
  LET dirs == {host.mounts[m].dir : m \in DOMAIN host.mounts}
      bases == UNION {host.mounts[m].bases : m \in DOMAIN host.mounts}
      own == {p \in dirs \X bases \X {"memory.limit_in_bytes"} : IsOwnFile(host, p)}
  IN  own = {} \/ \E p \in own : ~HasLimit(host, p)

\* h is the largest number of bytes that is within three quarters of the limit less three mebibytes
\* per processor, or within its half.
IsShare(h, limit, cpus) ==
  LET quarters == 3 * limit - 4 * (3 * BytesInMebibyte * cpus)
  IN  /\ 4 * h <= quarters \/ 2 * h <= limit
      /\ quarters < 4 * h + 4 /\ limit < 2 * h + 2

\* README, "Java heap and container support": in a container the heap sizes of the configuration
\* give way to percentages, if it has some or the container has no limit to go by, and otherwise
\* to one size for both ends of the heap, the share of the container's own limit that is
\* left to it (memory.go:70, launcher.go:284, 390).
HeapFitsContainer ==
  \A x \in Compiled : x.s.type = "java" /\ Supported(x) =>
    LET opts == x.cmd.opts
        sizes == {k \in DOMAIN opts : opts[k].kind \in HeapKinds}
        Percentages == \E k \in DOMAIN opts : opts[k].kind \in PercentageKinds
    IN  IF sizes = {}
        THEN Percentages /\ (HasPercentage(x.s.opts \o x.c.opts) \/ IsUnlimited(world.host))
        ELSE /\ ~Percentages
             /\ {opts[k].kind : k \in sizes} = HeapKinds
             /\ \E h \in {opts[k].val : k \in sizes}, p \in DOMAIN world.host.files :
                  /\ \A k \in sizes : opts[k].val = h
                  /\ IsOwnFile(world.host, p) /\ HasLimit(world.host, p)
                  /\ IsShare(h, world.host.files[p][1], world.host.cpus)

\* Apart from heap sizes in a container every option of the two files reaches the JVM, the static ones
\* before the custom ones, so that the latter take precedence.
OptionsKept ==
  \A x \in Compiled : x.s.type = "java" =>
    LET given == x.s.opts \o x.c.opts
        kept == {k \in DOMAIN given : Supported(x) => given[k].kind \notin HeapKinds}
        n == Cardinality(kept)
    IN  /\ n <= Len(x.cmd.opts)
        /\ \E f \in [1..n -> kept] :
             /\ \A i, j \in 1..n : i < j => f[i] < f[j]
             /\ \A k \in 1..n : x.cmd.opts[k] = given[f[k]]

\* Each process gets the environment of its own two sections, the custom value before the static one
\* (README: "will override defaults in static config"), with every placeholder expanded.
OwnEnvironment ==
  \A x \in Compiled :
    /\ DOMAIN x.cmd.env = DOMAIN x.s.env \cup DOMAIN x.c.env
    /\ \A key \in DOMAIN x.cmd.env :
         LET given == IF key \in DOMAIN x.c.env THEN x.c.env[key] ELSE x.s.env[key]
         IN  /\ x.cmd.env[key] # Placeholder
             /\ given # Placeholder => x.cmd.env[key] = given
=============================================================================
