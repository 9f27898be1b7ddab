-------------------------------- MODULE Group --------------------------------
(***************************************************************************)
(* What go-java-launcher promises about the processes that it starts: they *)
(* come up together, with a keeper that outlives the primary process and   *)
(* ends the others after it, and who gives up leaves nobody behind.  Pids, *)
(* channels, ticks and lists do not appear here; Launcher has them.        *)
(***************************************************************************)

CONSTANTS
  Primary, \* the launcher, and the service that it becomes
  Subs,    \* the subProcesses
  MayDie   \* whether the keeper may be killed

VARIABLES
  stage,  \* of the primary process
  joined, \* subProcesses that have been started
  alive,  \* members of the group that live
  told,   \* members that were told to end
  asked,  \* somebody outside has asked the group to end
  keeper  \* what has become of the monitor

vars == <<stage, joined, alive, told, asked, keeper>>

Init ==
  /\ stage = "starting"
  /\ joined = {} /\ alive = {Primary} /\ told = {}
  /\ asked = FALSE
  /\ keeper = "none"

\* Each subProcess is started once, and none any more when there is a keeper.
Join(s) ==
  /\ stage = "starting" /\ keeper = "none"
  /\ s \in Subs \ joined
  /\ joined' = joined \cup {s} /\ alive' = alive \cup {s}
  /\ UNCHANGED <<stage, told, asked, keeper>>

\* The keeper knows all members.
Appoint ==
  /\ stage = "starting" /\ keeper = "none"
  /\ joined = Subs
  /\ keeper' = "coming"
  /\ UNCHANGED <<stage, joined, alive, told, asked>>

\* A service with subProcesses is up only after it has been given a keeper.
Up ==
  /\ stage = "starting" /\ (keeper = "none" => Subs = {})
  /\ stage' = "up"
  /\ UNCHANGED <<joined, alive, told, asked, keeper>>

Fails ==
  /\ stage = "starting" /\ stage' = "failing"
  /\ UNCHANGED <<joined, alive, told, asked, keeper>>

\* Nobody is left behind that has not been told.
GiveUp ==
  /\ stage \in {"starting", "failing"}
  /\ alive \cap Subs \subseteq told
  /\ stage' = "failed" /\ alive' = alive \ {Primary}
  /\ UNCHANGED <<joined, told, asked, keeper>>

\* A member ends when it likes.
Leave(x) ==
  /\ x \in alive
  /\ alive' = alive \ {x}
  /\ stage' = IF x = Primary THEN "over" ELSE stage
  /\ UNCHANGED <<joined, told, asked, keeper>>

\* Whoever asks before the keeper listens ends it instead.
Ask ==
  /\ asked' = TRUE
  /\ keeper' = keeper \/ (keeper = "coming" /\ keeper' = "gone")
  /\ UNCHANGED <<stage, joined, alive, told>>

\* Nobody is told to end without a reason.
Tell(x) ==
  /\ x \in alive
  /\ asked \/ stage = "failing" \/ keeper = "clearing"
  /\ told' = told \cup {x}
  /\ UNCHANGED <<stage, joined, alive, asked, keeper>>

\* The keeper takes up its work, or is too late for it.
Watch ==
  /\ keeper = "coming" /\ keeper' = "watching"
  /\ UNCHANGED <<stage, joined, alive, told, asked>>

ComeTooLate ==
  /\ keeper = "coming" /\ Primary \notin alive
  /\ keeper' = "gone"
  /\ UNCHANGED <<stage, joined, alive, told, asked>>

\* It acts only when the primary process is gone, and goes when there is nobody to be told any more.
Clear ==
  /\ keeper = "watching" /\ Primary \notin alive
  /\ keeper' = "clearing"
  /\ UNCHANGED <<stage, joined, alive, told, asked>>

Retire ==
  /\ keeper = "clearing" /\ alive \subseteq told
  /\ keeper' = "gone"
  /\ UNCHANGED <<stage, joined, alive, told, asked>>

KeeperDies ==
  /\ MayDie /\ keeper \in {"coming", "watching", "clearing"}
  /\ keeper' = "gone"
  /\ UNCHANGED <<stage, joined, alive, told, asked>>

Next ==
  \/ Appoint \/ Up \/ Fails \/ GiveUp \/ Ask
  \/ Watch \/ ComeTooLate \/ Clear \/ Retire \/ KeeperDies
  \/ \E s \in Subs : Join(s)
  \/ \E x \in Subs \cup {Primary} : Leave(x) \/ Tell(x)

Spec == Init /\ [][Next]_vars

=============================================================================
