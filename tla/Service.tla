------------------------------- MODULE Service -------------------------------
(***************************************************************************)
(* What go-init promises to the init system that runs it, one command line *)
(* after the other: which commands of the service are up, and what the     *)
(* exit codes of start, status and stop say about them.  Pids, pidfiles,   *)
(* signals and waiting do not appear here; GoInit has them.                *)
(***************************************************************************)
EXTENDS Naturals

CONSTANTS
  Cmds,     \* names of commands
  Configs   \* the sets of commands that the configuration may list

VARIABLES
  up,      \* the commands that are served
  busy,    \* go-init runs
  op,      \* its command line
  asked,   \* the commands that are configured for it
  answer   \* its exit code

vars == <<up, busy, op, asked, answer>>

Init ==
  /\ up = {}
  /\ busy = FALSE
  /\ op = "status"
  /\ asked = {}
  /\ answer = 0

Request(o, cmds) ==
  /\ ~busy
  /\ busy' = TRUE
  /\ op' = o
  /\ asked' = cmds
  /\ answer' = 0
  /\ UNCHANGED up

\* Without a configuration or a log there is nothing to be done, and nothing is said.
Refuse(o) ==
  /\ ~busy
  /\ op' = o
  /\ answer' \in {1, 4}
  /\ UNCHANGED <<up, busy, asked>>

\* Only start brings a command up, and only one that is down.
Launch(c) ==
  /\ busy /\ op = "start"
  /\ c \in asked \ up
  /\ up' = up \cup {c}
  /\ UNCHANGED <<busy, op, asked, answer>>

\* Commands go down when they like.
GoesDown(c) ==
  /\ c \in up
  /\ up' = up \ {c}
  /\ UNCHANGED <<busy, op, asked, answer>>

\* Success of stop, and "not running" and "dead" of status, are statements about the
\* service.  Nothing else is: a process that has just ended still counts as running.
Truthful(a) ==
  CASE op = "start"  -> a \in {0, 1}
    [] op = "stop"   -> a = 1 \/ (a = 0 /\ up \cap asked = {})
    [] op = "status" -> \/ a \in {0, 4}
                        \/ a = 3 /\ up \cap asked = {}
                        \/ a = 1 /\ ~(asked \subseteq up)

Answer(a) ==
  /\ busy
  /\ Truthful(a)
  /\ busy' = FALSE
  /\ answer' = a
  /\ UNCHANGED <<up, op, asked>>

Next ==
  \/ \E o \in {"start", "status", "stop"} : Refuse(o) \/ \E cmds \in Configs : Request(o, cmds)
  \/ \E c \in Cmds : Launch(c) \/ GoesDown(c)
  \/ \E a \in {0, 1, 3, 4} : Answer(a)

Spec == Init /\ [][Next]_vars

=============================================================================
