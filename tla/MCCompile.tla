------------------------------ MODULE MCCompile ------------------------------
(***************************************************************************)
(* Worlds for Compile: every combination of options, switches and limits   *)
(* for a correct pair of files, and every kind of defect in the files.     *)
(***************************************************************************)
EXTENDS Compile

Opt(kind, val) == [kind |-> kind, val |-> val]
Home(kind) == [kind |-> kind, path |-> IF kind = "path" THEN "/jdk" ELSE ""]

-----------------------------------------------------------------------------
(* Hosts: the process is in cgroup /c; there is another mount of the root cgroup. *)

Mount(root, base) == [root |-> root, dir |-> root, bases |-> base, options |-> base]

Host(cpus, entries, mounts, limit) ==
  [cpus |-> cpus, cgroups |-> entries, mounts |-> mounts,
   files |-> [p \in {<<"/", "memory", "memory.limit_in_bytes">>,
                     <<"/c", "memory", "memory.limit_in_bytes">>} |->
                IF p[1] = "/c" THEN limit ELSE <<MaxLimit>>]]

Entries == <<[names |-> {"cpu", "cpuacct"}, path |-> "/c"], [names |-> {"memory"}, path |-> "/c"]>>
Mounts == <<Mount("/c", {"cpu", "cpuacct"}), Mount("/", {"memory"}), Mount("/c", {"memory"})>>
Joint == <<Mount("/", {"memory"}), Mount("/c", {"cpu", "memory"})>>

\* Around nothing, a quarter of the limit, the highest limit, and the ends of an int.
Limits == {<<n>> : n \in {0, 1, 23, 24, 25, 50, MaxLimit, MaxLimit + 1, -1,
                          Word \div 2 - 1, -(Word \div 2)}} \cup {<<>>}

Hosts ==
  {Host(cpus, Entries, mounts, limit) : cpus \in {1, 4}, mounts \in {Mounts, Joint}, limit \in Limits}
  \cup {Host(1, entries, mounts, <<50>>) : entries \in {<<>>, Entries}, mounts \in {<<>>, Mounts}}

-----------------------------------------------------------------------------
(* Files. *)

Yaml(c) == [state |-> "yaml", config |-> c]
NoFile(state) == [state |-> state, config |-> EmptyCustom]

Postgres == <<"/bin", "postgres">>

Java(opts) == [type |-> "java", exe |-> <<"", "">>, main |-> TRUE, home |-> Home("path"),
               opts |-> opts, env |-> NoEnv]
Exec(exe) == [Java(<<>>) EXCEPT !.type = "executable", !.exe = exe, !.main = FALSE]

Process(c, cs) ==
  [type |-> c.type, exe |-> c.exe, main |-> c.main, home |-> c.home, opts |-> c.opts, env |-> c.env,
   version |-> 1, service |-> "main", subs |-> cs]
Custom(opts, cs) ==
  [type |-> "java", opts |-> opts, env |-> NoEnv, disabled |-> FALSE, version |-> 1, subs |-> cs,
   cgroups |-> {}]
Section(c) == [type |-> c.type, opts |-> c.opts, env |-> c.env, disabled |-> c.disabled]

World(s, c) ==
  [static |-> s, custom |-> c, container |-> TRUE, vars |-> [JAVA_HOME |-> "/jre", NAMED |-> ""],
   cwd |-> "/cwd", launchable |-> {<<"/jdk", "java">>, <<"/jre", "java">>, Postgres},
   host |-> Host(1, Entries, Mounts, <<50>>)]

\* What options become, for a service and a subProcess.
StaticOpts == {<<>>, <<Opt("Xmx", 9), Opt("Xmn", 3)>>, <<Opt("other", 0), Opt("Xms", 8)>>,
               <<Opt("MaxRAM", 64)>>}
CustomOpts == {<<>>, <<Opt("Xmx", 7), Opt("other", 1)>>, <<Opt("InitialRAMPercentage", 60), Opt("Xmn", 2)>>,
               <<Opt("MaxRAMPercentage", 60)>>}

HeapWorlds ==
  {[World(Yaml(Process(Java(so), NoSubs)), Yaml([Custom(co, NoSubs) EXCEPT !.disabled = d]))
      EXCEPT !.container = b, !.host = h] :
     so \in StaticOpts, co \in CustomOpts, d \in BOOLEAN, b \in BOOLEAN, h \in Hosts}

\* Where java and executables are looked for.
PathWorlds ==
  {[World(Yaml(Process([Java(<<>>) EXCEPT !.home = Home(home)], [side |-> Exec(exe)])),
          NoFile("absent"))
      EXCEPT !.vars = [JAVA_HOME |-> jh, NAMED |-> other]] :
     home \in {"unset", "dollar", "variable", "path"}, jh \in {"", "/jre", "/none"}, other \in {"", "/jdk"},
     exe \in {Postgres, <<"/gone", "envoy">>}}

\* The two environments, of the service and of its subProcess, with and without cgroups.
Envs == {NoEnv, [A |-> "static"], [A |-> "custom", B |-> Placeholder]}

EnvWorlds ==
  {World(Yaml(Process([Java(<<>>) EXCEPT !.env = e1], [side |-> [Exec(Postgres) EXCEPT !.env = e2]])),
         Yaml([Custom(<<>>, [side |-> [type |-> "executable", opts |-> <<>>, env |-> e4, disabled |-> d]])
                 EXCEPT !.env = e3, !.cgroups = g])) :
     e1 \in Envs, e2 \in Envs, e3 \in Envs, e4 \in Envs, d \in BOOLEAN, g \in {{}, {<<"memory", "g">>}}}

\* Files with and without a defect.
StaticSubs ==
  {NoSubs, [side |-> Exec(Postgres)], [side |-> Java(<<Opt("Xmx", 6)>>)], [main |-> Exec(Postgres)],
   [Side |-> Exec(Postgres)], [side |-> Exec(<<"/bin", "bash">>)], [side |-> [Exec(Postgres) EXCEPT !.type = "python"]],
   [side |-> Exec(Postgres), other |-> Exec(Postgres)]}

StaticFiles ==
  {Yaml(Process(Java(<<>>), cs)) : cs \in StaticSubs}
  \cup {Yaml([Process(Java(<<>>), NoSubs) EXCEPT !.main = FALSE]),
        Yaml([Process(Java(<<>>), NoSubs) EXCEPT !.version = 2]),
        Yaml([Process(Java(<<>>), NoSubs) EXCEPT !.service = "Main"]),
        Yaml([Process(Java(<<>>), NoSubs) EXCEPT !.type = ""]),
        Yaml([Process(Exec(Postgres), NoSubs) EXCEPT !.type = "python"]),
        Yaml(Process(Exec(<<"/bin", "bash">>), NoSubs)), Yaml(Process(Exec(<<"", "">>), NoSubs)),
        Yaml(Process(Exec(Postgres), NoSubs)),
        NoFile("absent"), NoFile("garbage")}

CustomSubs ==
  {NoSubs, [side |-> Section(Custom(<<Opt("Xmx", 5)>>, NoSubs))],
   [side |-> Section([Custom(<<Opt("other", 4)>>, NoSubs) EXCEPT !.type = "executable"])],
   [side |-> Section([Custom(<<>>, NoSubs) EXCEPT !.type = "python"])],
   [sid |-> Section(Custom(<<>>, NoSubs))], [Side |-> Section(Custom(<<>>, NoSubs))],
   [side |-> Section(Custom(<<>>, NoSubs)), other |-> Section(Custom(<<>>, NoSubs))]}

CustomFiles ==
  {Yaml(Custom(<<>>, cs)) : cs \in CustomSubs}
  \cup {Yaml([Custom(<<>>, NoSubs) EXCEPT !.version = 0]), Yaml([Custom(<<>>, NoSubs) EXCEPT !.type = ""]),
        Yaml([Custom(<<Opt("Xmx", 5), Opt("other", 4)>>, NoSubs) EXCEPT !.type = "executable"]),
        NoFile("absent"), NoFile("garbage")}

FileWorlds == {World(s, c) : s \in StaticFiles, c \in CustomFiles}

MCWorlds == HeapWorlds \cup PathWorlds \cup EnvWorlds \cup FileWorlds
MCProcessNames == {"main", "side", "sid", "other"}
=============================================================================
