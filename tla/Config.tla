-------------------------------- MODULE Config --------------------------------
(***************************************************************************)
(* The two configuration files of a service: launchlib/config.go.          *)
(*                                                                         *)
(* A file is [state |-> "absent", "garbage" or "yaml", config |-> c].      *)
(* Static configuration of a process:                                      *)
(*   [type, exe, main, home, opts, env]                                    *)
(* where exe is <<directory, base>> and main says whether mainClass and    *)
(* classpath are given; custom configuration: [type, opts, env, disabled]. *)
(* The primary's have besides: version, subs (name |-> configuration of a  *)
(* subProcess), and service (static) or cgroups (custom).                  *)
(***************************************************************************)
EXTENDS Integers, FiniteSets

CONSTANT ProcessNames \* the names that match processNamePattern

ConfigTypes == {"java", "executable"}
ConfigVersions == {1}
Executables == {"java", "postgres", "influxd", "grafana-server", "envoy"}

ValidateType(c) == c.type \in ConfigTypes
ValidateVersion(c) == c.version \in ConfigVersions
ValidateSubProcessLimit(c) == Cardinality(DOMAIN c.subs) <= 1

\* Without an executable the base is "." or "/".
ValidateExecutable(exe) == exe[2] \in Executables

\* Mutant: the type of a static configuration is not looked at.
ValidateStaticAnyType(c) ==
  IF c.type = "java" THEN c.main ELSE ValidateExecutable(c.exe)

\* validateStaticConfig; the executable of a java configuration is set to "java".
ValidateStatic(c) ==
  /\ ValidateType(c)
  /\ IF c.type = "java" THEN c.main ELSE ValidateExecutable(c.exe)

\* parseStaticConfig
ParsesAsStatic(c) ==
  /\ ValidateVersion(c)
  /\ c.service \in ProcessNames
  /\ ValidateStatic(c)
  /\ ValidateSubProcessLimit(c)
  /\ \A name \in DOMAIN c.subs :
        name \in ProcessNames /\ name # c.service /\ ValidateStatic(c.subs[name])

\* parseCustomConfig
ParsesAsCustom(c) ==
  /\ ValidateVersion(c)
  /\ ValidateType(c)
  /\ ValidateSubProcessLimit(c)
  /\ \A name \in DOMAIN c.subs : name \in ProcessNames /\ ValidateType(c.subs[name])

NoSubs == [name \in {} |-> {}]
NoEnv == [key \in {} |-> ""]

\* What an unreadable custom file stands for: no field is set.
EmptyCustom == [version |-> 0, type |-> "", opts |-> <<>>, env |-> NoEnv, disabled |-> FALSE,
                subs |-> NoSubs, cgroups |-> {}]

DefaultCustom(type) == [type |-> type, opts |-> <<>>, env |-> NoEnv, disabled |-> FALSE]

\* Mutant: what the custom file says of a subProcess is replaced too.
WithDefaultsOnly(static, custom) ==
  [custom EXCEPT !.subs =
    [name \in DOMAIN static.subs \cup DOMAIN custom.subs |->
       IF name \in DOMAIN static.subs THEN DefaultCustom(static.subs[name].type)
                                      ELSE custom.subs[name]]]

\* A subProcess without custom configuration gets an empty one of its type.
WithDefaults(static, custom) ==
  [custom EXCEPT !.subs =
    [name \in DOMAIN static.subs \cup DOMAIN custom.subs |->
       IF name \in DOMAIN custom.subs THEN custom.subs[name]
                                      ELSE DefaultCustom(static.subs[name].type)]]

\* Mutant: custom subProcesses that the static file does not have are let through.
VerifyTypesOnly(static, custom) ==
  \A name \in DOMAIN static.subs :
     name \in DOMAIN custom.subs /\ static.subs[name].type = custom.subs[name].type

\* verifyStaticWithCustomConfig; the types of the primary are not compared.
VerifyStaticWithCustom(static, custom) ==
  /\ DOMAIN custom.subs \subseteq DOMAIN static.subs
  /\ \A name \in DOMAIN static.subs :
        name \in DOMAIN custom.subs /\ static.subs[name].type = custom.subs[name].type
=============================================================================
