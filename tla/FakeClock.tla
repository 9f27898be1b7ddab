------------------------------ MODULE FakeClock ------------------------------
(***************************************************************************)
(* The fake clock of init/cli/time as the tests of go-init use it: stops   *)
(* (waitForServiceToStop) that share the clock, each in a goroutine of its *)
(* own with a timer and a ticker, and the goroutine of the test, which     *)
(* waits until they are attached and then moves the clock.                 *)
(*                                                                         *)
(* Channels are unbuffered, so a send and its receipt are one step.        *)
(* Advance keeps the lock of the clock until all that is due is received   *)
(* or stopped; every other operation takes and releases it in one step.    *)
(***************************************************************************)
EXTENDS Integers, FiniteSets, Sequences

CONSTANTS
  Stops,         \* the goroutines that run waitForServiceToStop
  TimerSeconds,  \* duration of their timers (240 in the code); a ticker's is 1
  MaxTime        \* bound: the test does not move the clock beyond it

ASSUME ConstantsAssumption ==
  /\ IsFiniteSet(Stops)
  /\ TimerSeconds \in Nat \ {0}
  /\ MaxTime \in Nat

VARIABLES
  now,       \* time of the clock
  sleepers,  \* its sleepers, in their order
  blockers,  \* the numbers of sleepers that callers of BlockUntil wait for
  tokens,    \* the channels of a sleeper whose stop channel holds a token
  closed,    \* the channels that are closed
  pc,        \* pc[s]: where stop s is
  polls,     \* polls[s]: the ticks that stop s has received
  test,      \* where the goroutine of the test is; Advance holds the lock
  end,       \* Advance: the time it moves the clock to
  work,      \* Advance: sleepers its loop has still to visit
  again,     \* Advance: periodicSleepers
  later      \* Advance: newSleepers

clockVars   == <<now, sleepers, blockers>>
advanceVars == <<end, work, again, later>>
vars == <<now, sleepers, blockers, tokens, closed, pc, polls, test, end, work, again, later>>

Kinds    == {"timer", "ticker"}
Channels == Stops \X Kinds

\* chan stands for the channel done and for stop, which goes with it; held is whether the
\* sleeper is the one that the fakeTimer points to, or one that Advance has put in its place.
Sleepers == [chan : Channels, until : Nat, held : BOOLEAN]

IsPeriodic(x) == x.chan[2] = "ticker"

Locations == {"newtimer", "newticker", "select", "poll", "expire", "stopticker", "closeticker",
              "stoptimer", "closetimer", "done"}

TypeOK ==
  /\ now \in Nat /\ end \in Nat
  /\ sleepers \in Seq(Sleepers) /\ work \in Seq(Sleepers)
  /\ again \in Seq(Sleepers) /\ later \in Seq(Sleepers)
  /\ blockers \subseteq Nat
  /\ tokens \subseteq Channels /\ closed \subseteq Channels
  /\ pc \in [Stops -> Locations]
  /\ polls \in [Stops -> Nat]
  /\ test \in {"begin", "blocked", "idle", "advance", "panicked"}

Init ==
  /\ now = 0
  /\ sleepers = <<>>
  /\ blockers = {}
  /\ tokens = {} /\ closed = {}
  /\ pc = [s \in Stops |-> "newtimer"]
  /\ polls = [s \in Stops |-> 0]
  /\ test = "begin"
  /\ end = 0
  /\ work = <<>> /\ again = <<>> /\ later = <<>>

Locked == test = "advance"

\* A panic in any goroutine ends the whole program.
Alive == test # "panicked"

Goto(s, l) == pc' = [pc EXCEPT ![s] = l]

-----------------------------------------------------------------------------
(* The clock, for a stop.                                                  *)

\* Mutant: whoever waits for at most count sleepers goes on.
NotifyBlockersAtMost(count) == blockers' = {n \in blockers : n > count + 1}

\* Mutant: nobody is woken.
NotifyNobody(count) == UNCHANGED blockers

NotifyBlockers(count) == blockers' = blockers \ {count}

\* Mutant: the duration is taken off.
AttachBefore(s, kind, d) ==
  /\ ~Locked
  /\ sleepers' = Append(sleepers, [chan |-> <<s, kind>>, until |-> now - d, held |-> TRUE])
  /\ NotifyBlockers(Len(sleepers'))
  /\ UNCHANGED <<now, tokens, closed, polls, test, advanceVars>>

\* newTimerOrTicker: a sleeper joins the list.
Attach(s, kind, d) ==
  /\ ~Locked
  /\ sleepers' = Append(sleepers, [chan |-> <<s, kind>>, until |-> now + d, held |-> TRUE])
  /\ NotifyBlockers(Len(sleepers'))
  /\ UNCHANGED <<now, tokens, closed, polls, test, advanceVars>>

NewTimer(s) ==
  /\ Alive
  /\ pc[s] = "newtimer"
  /\ Attach(s, "timer", TimerSeconds)
  /\ Goto(s, "newticker")

NewTicker(s) ==
  /\ Alive
  /\ pc[s] = "newticker"
  /\ Attach(s, "ticker", 1)
  /\ Goto(s, "select")

\* Mutant: Advance is not told.
SignalNothing(s, kind) == UNCHANGED <<clockVars, tokens, closed, polls, test, advanceVars>>

\* fakeTimer.Stop before its lock: a token in the stop channel, which holds one.
SignalStop(s, kind) ==
  /\ <<s, kind>> \notin tokens
  /\ tokens' = tokens \cup {<<s, kind>>}
  /\ UNCHANGED <<clockVars, closed, polls, test, advanceVars>>

\* Mutant: the sleeper stays in the list.
CloseOnly(s, kind) ==
  /\ ~Locked
  /\ closed' = closed \cup {<<s, kind>>}
  /\ UNCHANGED <<clockVars, tokens, polls, test, advanceVars>>

\* Where the sleeper is that the fakeTimer points to: nowhere, once Advance has put another
\* one in its place.
Pointed(c) == {k \in 1..Len(sleepers) : sleepers[k].chan = c /\ sleepers[k].held}

\* A list without what is at place k.
Without(q, k) == [j \in 1..(Len(q) - 1) |-> IF j < k THEN q[j] ELSE q[j + 1]]

\* fakeTimer.Stop with the lock.  Only the sleeper that the fakeTimer points to is removed.
CloseStopped(s, kind) ==
  /\ ~Locked
  /\ closed' = closed \cup {<<s, kind>>}
  /\ IF Pointed(<<s, kind>>) = {}
     THEN UNCHANGED sleepers
     ELSE \E k \in Pointed(<<s, kind>>) : sleepers' = Without(sleepers, k)
  /\ NotifyBlockers(Len(sleepers'))
  /\ UNCHANGED <<now, tokens, polls, test, advanceVars>>

-----------------------------------------------------------------------------
(* waitForServiceToStop.  A tick or the timer is received in Deliver.      *)

\* The processes are looked at: some run still, or all are gone, or that cannot be told.
Poll(s) ==
  /\ Alive
  /\ pc[s] = "poll"
  /\ Goto(s, "select") \/ Goto(s, "stopticker")
  /\ UNCHANGED <<clockVars, tokens, closed, polls, test, advanceVars>>

\* What still runs is killed, and the wait is over.
Expire(s) ==
  /\ Alive
  /\ pc[s] = "expire"
  /\ Goto(s, "stopticker")
  /\ UNCHANGED <<clockVars, tokens, closed, polls, test, advanceVars>>

\* The deferred Stops, the last one first.
StopTicker(s) ==
  /\ Alive
  /\ \/ pc[s] = "stopticker" /\ SignalStop(s, "ticker") /\ Goto(s, "closeticker")
     \/ pc[s] = "closeticker" /\ CloseStopped(s, "ticker") /\ Goto(s, "stoptimer")

StopTimer(s) ==
  /\ Alive
  /\ \/ pc[s] = "stoptimer" /\ SignalStop(s, "timer") /\ Goto(s, "closetimer")
     \/ pc[s] = "closetimer" /\ CloseStopped(s, "timer") /\ Goto(s, "done")

-----------------------------------------------------------------------------
(* The test: BlockUntil once, then Advance any number of times.            *)

\* A timer and a ticker of each stop.
Expected == Cardinality(Channels)

BlockUntil ==
  /\ test = "begin"
  /\ IF Len(sleepers) = Expected
     THEN test' = "idle" /\ UNCHANGED blockers
     ELSE test' = "blocked" /\ blockers' = blockers \cup {Expected}
  /\ UNCHANGED <<now, sleepers, tokens, closed, pc, polls, advanceVars>>

\* The blocker's channel has been closed.
Woken ==
  /\ test = "blocked" /\ Expected \notin blockers
  /\ test' = "idle"
  /\ UNCHANGED <<clockVars, tokens, closed, pc, polls, advanceVars>>

Advance(d) ==
  /\ test = "idle"
  /\ now + d <= MaxTime
  /\ test' = "advance"
  /\ end' = now + d
  /\ work' = sleepers
  /\ again' = <<>> /\ later' = <<>>
  /\ UNCHANGED <<clockVars, tokens, closed, pc, polls>>

\* advanceTailRec has come to a sleeper that is due.
AtDue == Locked /\ work # <<>> /\ Head(work).until <= end

\* Mutant: what is due just now is left for the next time.
NotDueBefore ==
  /\ Locked /\ work # <<>> /\ Head(work).until >= end
  /\ later' = Append(later, Head(work))
  /\ work' = Tail(work)
  /\ UNCHANGED <<clockVars, tokens, closed, pc, polls, test, end, again>>

NotDue ==
  /\ Locked /\ work # <<>> /\ Head(work).until > end
  /\ later' = Append(later, Head(work))
  /\ work' = Tail(work)
  /\ UNCHANGED <<clockVars, tokens, closed, pc, polls, test, end, again>>

\* The sleeper that takes the place of x.
Successor(x, until) == [chan |-> x.chan, until |-> until, held |-> FALSE]

\* Mutant: the next tick is a second after the time the clock is moved to.
RescheduledAtEnd(x) == IF IsPeriodic(x) THEN Append(again, Successor(x, end + 1)) ELSE again

Rescheduled(x) == IF IsPeriodic(x) THEN Append(again, Successor(x, x.until + 1)) ELSE again

\* The stop is in its select and receives.
Deliver(s) ==
  /\ AtDue
  /\ Head(work).chan[1] = s
  /\ pc[s] = "select"
  /\ Head(work).chan \notin closed
  /\ IF IsPeriodic(Head(work))
     THEN Goto(s, "poll") /\ polls' = [polls EXCEPT ![s] = @ + 1]
     ELSE Goto(s, "expire") /\ UNCHANGED polls
  /\ again' = Rescheduled(Head(work))
  /\ work' = Tail(work)
  /\ UNCHANGED <<clockVars, tokens, closed, test, end, later>>

\* The channel was stopped instead: the sleeper is forgotten.
Forget ==
  /\ AtDue
  /\ Head(work).chan \in tokens
  /\ tokens' = tokens \ {Head(work).chan}
  /\ work' = Tail(work)
  /\ UNCHANGED <<clockVars, closed, pc, polls, test, end, again, later>>

\* A select with a send on a closed channel panics when it takes that case, and it takes
\* any of those that are ready.
SendOnClosed ==
  /\ AtDue
  /\ Head(work).chan \in closed
  /\ test' = "panicked"
  /\ UNCHANGED <<clockVars, tokens, closed, pc, polls, advanceVars>>

AdvanceTailRec ==
  /\ Locked /\ work = <<>> /\ again # <<>>
  /\ work' = again
  /\ again' = <<>>
  /\ UNCHANGED <<clockVars, tokens, closed, pc, polls, test, end, later>>

AdvanceReturns ==
  /\ Locked /\ work = <<>> /\ again = <<>>
  /\ sleepers' = later
  /\ now' = end
  /\ NotifyBlockers(Len(sleepers'))
  /\ test' = "idle"
  /\ later' = <<>>
  /\ UNCHANGED <<tokens, closed, pc, polls, end, work, again>>

-----------------------------------------------------------------------------

WaitForServiceToStop(s) ==
  NewTimer(s) \/ NewTicker(s) \/ Poll(s) \/ Expire(s) \/ StopTicker(s) \/ StopTimer(s)

AdvanceStep ==
  \/ NotDue \/ Forget \/ SendOnClosed \/ AdvanceTailRec \/ AdvanceReturns
  \/ \E s \in Stops : Deliver(s)

Next ==
  \/ \E s \in Stops : WaitForServiceToStop(s)
  \/ BlockUntil \/ Woken \/ AdvanceStep
  \/ \E d \in 1..MaxTime : Advance(d)

Spec == Init /\ [][Next]_vars

\* Every goroutine goes on; the test moves the clock when it likes.
Fairness ==
  /\ \A s \in Stops : WF_vars(WaitForServiceToStop(s))
  /\ WF_vars(BlockUntil) /\ WF_vars(Woken) /\ WF_vars(AdvanceStep)

FairSpec == Spec /\ Fairness

-----------------------------------------------------------------------------
(* Properties.                                                             *)

Waiting(s) == pc[s] \in {"select", "poll"}

Members(q) == {q[k] : k \in 1..Len(q)}

\* When BlockUntil has let the test go on (go_init_integration_test.go:941), every stop has
\* both its timer and its ticker on the clock, and waits.
Attached ==
  (test = "idle" /\ now = 0) => \A s \in Stops : Waiting(s)

\* Advance returns only when everything up to its time has been received: a stop that still
\* waits has had one tick for each second, however large the steps of the clock.
EveryTick ==
  ~Locked /\ Alive => \A s \in Stops : Waiting(s) => polls[s] = now

\* What the test of a stop that times out asserts (go_init_integration_test.go:942): no
\* stop gives up before its seconds are over, and none waits on after them.
DeadlineKept ==
  \A s \in Stops :
    /\ pc[s] = "expire" => end >= TimerSeconds
    /\ ~Locked /\ Alive /\ Waiting(s) => now < TimerSeconds

\* What remains of a stopped channel are sleepers that Advance has scheduled again: a timer
\* is gone for good once it was stopped, and no Advance panics on the channel of a timer.
OnlyTickersLinger ==
  \A x \in Members(sleepers) \cup Members(work) \cup Members(again) \cup Members(later) :
    x.chan \in closed => IsPeriodic(x) /\ ~x.held

ChansOf(X) == {x.chan : x \in X}

\* No channel has two sleepers in the list.
Once(q) == \A j, k \in 1..Len(q) : q[j].chan = q[k].chan => j = k

\* The sleepers there are, the three lists of Advance being what becomes of the clock's.
Advancing == test \in {"advance", "panicked"}

Live == IF Advancing THEN Members(work) \cup Members(again) \cup Members(later)
                     ELSE Members(sleepers)

\* A channel has one sleeper, and while Advance sorts them it is in one list only.
OneEach ==
  /\ Once(sleepers) /\ Once(work) /\ Once(again) /\ Once(later)
  /\ ChansOf(Members(work)) \cap ChansOf(Members(again)) = {}
  /\ ChansOf(Members(work)) \cap ChansOf(Members(later)) = {}
  /\ ChansOf(Members(again)) \cap ChansOf(Members(later)) = {}

\* When a sleeper is due: a ticker's a second after the last tick received, a timer's at its
\* deadline, where it stays the sleeper that Stop removes.
DueThen ==
  \A x \in Live : IF IsPeriodic(x) THEN x.until = polls[x.chan[1]] + 1
                                   ELSE x.until = TimerSeconds /\ x.held

\* What the time of the clock has left behind.
PastIsOver ==
  /\ \A s \in Stops : polls[s] <= end /\ (pc[s] = "expire" => end >= TimerSeconds)
  /\ \A x \in Members(later) : x.until > end
  /\ ~Advancing => now = end /\ \A x \in Members(sleepers) : x.until > end

\* The test and the stops in step: nothing is received before the clock moves, and the clock
\* does not move before everybody is attached.
InStep ==
  /\ ~Advancing => work = <<>> /\ again = <<>> /\ later = <<>>
  /\ test \in {"begin", "blocked"} => end = 0
  /\ Advancing => end > 0
  /\ end = 0 => \A s \in Stops : pc[s] \in {"newtimer", "newticker", "select"}
  /\ test \notin {"begin", "blocked"} \/ (test = "blocked" /\ Expected \notin blockers)
       => \A s \in Stops : pc[s] \notin {"newtimer", "newticker"}

\* What a stop has done with its two channels, and what of it is on the clock.
ChannelsOfStop ==
  \A s \in Stops :
    /\ <<s, "ticker">> \in tokens => pc[s] \in {"closeticker", "stoptimer", "closetimer", "done"}
    /\ <<s, "timer">> \in tokens => pc[s] \in {"closetimer", "done"}
    /\ <<s, "ticker">> \in closed => pc[s] \in {"stoptimer", "closetimer", "done"}
    /\ <<s, "timer">> \in closed => pc[s] = "done"
    /\ Waiting(s) \/ pc[s] = "newticker" => <<s, "timer">> \in ChansOf(Live)
    /\ Waiting(s) => <<s, "ticker">> \in ChansOf(Live)
    /\ pc[s] = "newtimer" => <<s, "timer">> \notin ChansOf(Live)
    /\ pc[s] \in {"newtimer", "newticker"} => <<s, "ticker">> \notin ChansOf(Live)

\* Inductive: the clock keeps one sleeper for each channel that somebody waits for, due one
\* second after its last tick, and leaves none behind that is due.
ClockIInv ==
  /\ TypeOK
  /\ OneEach /\ DueThen /\ PastIsOver /\ InStep /\ ChannelsOfStop
  /\ OnlyTickersLinger

\* Advance sends to a timer whose stop waits for the lock, in the Stop of its ticker: the
\* processes have ended at the last tick before the deadline.  Nobody can go on.
Stuck ==
  /\ AtDue
  /\ ~IsPeriodic(Head(work))
  /\ pc[Head(work).chan[1]] = "closeticker"

\* BlockUntil and Advance come back to the test, however the stops run in between, unless
\* Advance is Stuck or panics on a ticker that was stopped before.
TestGoesOn ==
  test \in {"blocked", "advance"} ~> (test \in {"idle", "panicked"} \/ Stuck)

\* The Stop of a ticker or timer does not block, also against an Advance that is just
\* sending to it (fakeTimer.Stop), unless Advance is Stuck or has panicked.
StopReturns ==
  \A s \in Stops : pc[s] = "stopticker" ~> (pc[s] = "done" \/ Stuck \/ ~Alive)

-----------------------------------------------------------------------------
(* What a comment says, and the code does not do.                          *)

\* clockwork.go:147, "Remove the sleeper (if it exists)": Stop leaves the sleeper of a
\* ticker that has ticked, which BlockUntil goes on counting and on which Advance panics.
StoppedIsRemoved ==
  ~Locked => \A k \in 1..Len(sleepers) : sleepers[k].chan \notin closed

=============================================================================
