--------------------------- MODULE FakeClockProofs ---------------------------
(***************************************************************************)
(* Proofs about FakeClock: its inductive invariant, and from it that the   *)
(* clock delivers every tick and every deadline when it is due.            *)
(***************************************************************************)
EXTENDS FakeClock, FiniteSetTheorems, FunctionTheorems, TLAPS

-----------------------------------------------------------------------------
(* Lists of sleepers: what is in them when one joins or leaves. *)

LEMMA EmptyList == Members(<<>>) = {} /\ Once(<<>>)
BY DEF Members, Once

LEMMA AppendList ==
  ASSUME NEW S, NEW q \in Seq(S), NEW x \in S
  PROVE  /\ Append(q, x) \in Seq(S)
         /\ Members(Append(q, x)) = Members(q) \cup {x}
         /\ Once(q) /\ x.chan \notin ChansOf(Members(q)) => Once(Append(q, x))
<1>1. Append(q, x) \in Seq(S) /\ Len(q) \in Nat /\ Len(Append(q, x)) = Len(q) + 1
  OBVIOUS
<1>2. /\ \A k \in 1..Len(q) : Append(q, x)[k] = q[k]
      /\ Append(q, x)[Len(q) + 1] = x
  OBVIOUS
<1>3. 1..(Len(q) + 1) = (1..Len(q)) \cup {Len(q) + 1} /\ Len(q) + 1 \notin 1..Len(q)
  BY <1>1
<1>4. Members(Append(q, x)) = Members(q) \cup {x}
  BY <1>1, <1>2, <1>3 DEF Members
<1>5. ASSUME Once(q), x.chan \notin ChansOf(Members(q)) PROVE Once(Append(q, x))
  <2>1. \A k \in 1..Len(q) : q[k].chan # x.chan
    BY <1>5 DEF ChansOf, Members
  <2> QED  BY <1>1, <1>2, <1>3, <1>5, <2>1 DEF Once
<1> QED
  BY <1>1, <1>4, <1>5

LEMMA TailList ==
  ASSUME NEW S, NEW q \in Seq(S), q # <<>>
  PROVE  /\ Head(q) \in S /\ Tail(q) \in Seq(S)
         /\ Members(q) = {Head(q)} \cup Members(Tail(q))
         /\ Once(q) => Once(Tail(q)) /\ Head(q).chan \notin ChansOf(Members(Tail(q)))
<1>1. /\ Head(q) \in S /\ Tail(q) \in Seq(S) /\ Len(q) \in Nat \ {0} /\ Len(Tail(q)) = Len(q) - 1
      /\ Head(q) = q[1]
      /\ \A k \in 1..(Len(q) - 1) : Tail(q)[k] = q[k + 1]
  OBVIOUS
<1>2. \A k : k \in 1..Len(q) <=> k = 1 \/ \E j \in 1..(Len(q) - 1) : k = j + 1
  <2>1. ASSUME NEW k \in 1..Len(q), k # 1 PROVE \E j \in 1..(Len(q) - 1) : k = j + 1
    <3>1. k - 1 \in 1..(Len(q) - 1) /\ k = (k - 1) + 1
      BY <1>1, <2>1
    <3> QED  BY <3>1
  <2>2. 1 \in 1..Len(q) /\ \A j \in 1..(Len(q) - 1) : j + 1 \in 1..Len(q)
    BY <1>1
  <2> QED  BY <2>1, <2>2
<1>3. Members(q) = {Head(q)} \cup Members(Tail(q))
  <2>1. ASSUME NEW x \in Members(q) PROVE x \in {Head(q)} \cup Members(Tail(q))
    <3>1. PICK k \in 1..Len(q) : x = q[k]
      BY DEF Members
    <3> QED  BY <1>1, <1>2, <3>1 DEF Members
  <2>2. ASSUME NEW x \in Members(Tail(q)) PROVE x \in Members(q)
    <3>1. PICK j \in 1..(Len(q) - 1) : x = q[j + 1]
      BY <1>1 DEF Members
    <3>2. j + 1 \in 1..Len(q)
      BY <1>1
    <3> QED  BY <3>1, <3>2 DEF Members
  <2>3. Head(q) \in Members(q)
    BY <1>1 DEF Members
  <2> QED  BY <2>1, <2>2, <2>3
<1>4. ASSUME Once(q) PROVE Once(Tail(q))
  BY <1>1, <1>4 DEF Once
<1>5. ASSUME Once(q) PROVE Head(q).chan \notin ChansOf(Members(Tail(q)))
  BY <1>1, <1>5 DEF Once, Members, ChansOf
<1> QED
  BY <1>1, <1>3, <1>4, <1>5

LEMMA ShorterList ==
  ASSUME NEW S, NEW q \in Seq(S), NEW k \in 1..Len(q)
  PROVE  /\ Without(q, k) \in Seq(S)
         /\ Members(Without(q, k)) \subseteq Members(q)
         /\ Members(q) \subseteq Members(Without(q, k)) \cup {q[k]}
         /\ Once(q) => Once(Without(q, k)) /\ q[k].chan \notin ChansOf(Members(Without(q, k)))
<1> DEFINE at(j) == IF j < k THEN j ELSE j + 1
           n == Len(q) - 1
           w == Without(q, k)
<1>1. Len(q) \in Nat /\ n \in Nat /\ k \in Nat /\ k <= Len(q) /\ 1 <= k
  OBVIOUS
<1>2. w = [j \in 1..n |-> q[at(j)]]
  BY DEF Without
<1>3. \A j \in 1..n : at(j) \in 1..Len(q) /\ at(j) # k
  BY <1>1
<1>4. \A i, j \in 1..n : at(i) = at(j) => i = j
  BY <1>1
<1>5. \A i \in 1..Len(q) : i # k => \E j \in 1..n : i = at(j)
  <2> SUFFICES ASSUME NEW i \in 1..Len(q), i # k PROVE \E j \in 1..n : i = at(j)
    OBVIOUS
  <2>1. CASE i < k
    BY <1>1, <2>1
  <2>2. CASE i > k
    <3>1. i - 1 \in 1..n /\ i = at(i - 1)
      BY <1>1, <2>2
    <3> QED  BY <3>1
  <2> QED  BY <1>1, <2>1, <2>2
<1> HIDE DEF at
<1>6. w \in Seq(S) /\ Len(w) = n
  <2>1. \A j \in 1..n : q[at(j)] \in S
    BY <1>3
  <2> HIDE DEF w, n
  <2> QED  BY <1>1, <1>2, <2>1
<1>7. \A j \in 1..n : w[j] = q[at(j)]
  BY <1>2
<1> HIDE DEF w, n
<1>8. Members(w) \subseteq Members(q)
  BY <1>3, <1>6, <1>7 DEF Members
<1>9. Members(q) \subseteq Members(w) \cup {q[k]}
  <2> SUFFICES ASSUME NEW i \in 1..Len(q), i # k PROVE q[i] \in Members(w)
    BY DEF Members
  <2>1. PICK j \in 1..n : i = at(j)
    BY <1>5
  <2> QED  BY <1>6, <1>7, <2>1 DEF Members
<1>10. ASSUME Once(q) PROVE Once(w) /\ q[k].chan \notin ChansOf(Members(w))
  <2>1. Once(w)
    BY <1>3, <1>4, <1>6, <1>7, <1>10 DEF Once
  <2>2. \A j \in 1..n : w[j].chan # q[k].chan
    BY <1>3, <1>7, <1>10 DEF Once
  <2> QED  BY <2>1, <2>2, <1>6 DEF Members, ChansOf
<1> QED
  BY <1>6, <1>8, <1>9, <1>10 DEF w

\* The test waits for a number that there is.
LEMMA ExpectedNumber == IsFiniteSet(Channels) /\ Expected \in Nat
<1>1. IsFiniteSet({"timer"}) /\ IsFiniteSet({"timer"} \cup {"ticker"})
  BY FS_AddElement, FS_Singleton
<1>2. Kinds = {"timer"} \cup {"ticker"}
  BY DEF Kinds
<1>3. IsFiniteSet(Channels)
  BY <1>1, <1>2, ConstantsAssumption, FS_Product DEF Channels
<1> QED
  BY <1>3, FS_CardinalityType DEF Expected

\* As many sleepers as there are channels: everybody is attached.
LEMMA FullList ==
  ASSUME NEW q \in Seq(Sleepers), Once(q), Len(q) = Expected
  PROVE  ChansOf(Members(q)) = Channels
<1> DEFINE C == ChansOf(Members(q))
           f == [k \in 1..Len(q) |-> q[k].chan]
<1>1. IsFiniteSet(Channels) /\ C \subseteq Channels
  <2>2. IsFiniteSet(Channels)
    BY ExpectedNumber
  <2>3. \A k \in 1..Len(q) : q[k] \in Sleepers
    OBVIOUS
  <2>4. \A k \in 1..Len(q) : q[k].chan \in Channels
    BY <2>3 DEF Sleepers
  <2> QED  BY <2>2, <2>4 DEF ChansOf, Members
<1>2. f \in Bijection(1..Len(q), C)
  <2>1. f \in [1..Len(q) -> C]
    BY DEF ChansOf, Members
  <2>2. \A y \in C : \E k \in 1..Len(q) : f[k] = y
    BY DEF ChansOf, Members
  <2>3. \A j, k \in 1..Len(q) : f[j] = f[k] => j = k
    BY DEF Once
  <2> HIDE DEF f, C
  <2> QED  BY <2>1, <2>2, <2>3, Fun_IsBij
<1>3. Cardinality(C) = Len(q)
  <2>1. ExistsBijection(1..Len(q), C)
    BY <1>2 DEF ExistsBijection
  <2> HIDE DEF f, C
  <2> QED  BY <2>1, FS_CountingElements
<1> QED
  <2> HIDE DEF C
  <2>1. C = Channels
    BY <1>1, <1>3, FS_Subset DEF Expected
  <2> QED  BY <2>1 DEF C

-----------------------------------------------------------------------------
(* Types. *)

\* What Advance puts in the place of a ticker is a sleeper.
LEMMA TickAgain ==
  ASSUME TypeOK, NEW x \in Sleepers
  PROVE  /\ Successor(x, x.until + 1) \in Sleepers
         /\ Rescheduled(x) \in Seq(Sleepers)
<1>1. Successor(x, x.until + 1) \in Sleepers
  BY DEF Successor, Sleepers
<1> QED
  BY <1>1 DEF Rescheduled, TypeOK

LEMMA AttachTypes ==
  ASSUME TypeOK, NEW s \in Stops, NEW kind \in Kinds, NEW d \in Nat, Attach(s, kind, d)
  PROVE  /\ sleepers' \in Seq(Sleepers)
         /\ [chan |-> <<s, kind>>, until |-> now + d, held |-> TRUE] \in Sleepers
<1>1. [chan |-> <<s, kind>>, until |-> now + d, held |-> TRUE] \in Sleepers
  BY DEF Sleepers, Channels, TypeOK
<1>2. sleepers' = Append(sleepers, [chan |-> <<s, kind>>, until |-> now + d, held |-> TRUE])
  BY DEF Attach
<1> QED
  BY <1>1, <1>2 DEF TypeOK

LEMMA InitTypes == Init => TypeOK
BY DEF Init, TypeOK, Locations

LEMMA GotoTypes ==
  ASSUME TypeOK, NEW s \in Stops, NEW l \in Locations, Goto(s, l)
  PROVE  pc' \in [Stops -> Locations]
BY DEF TypeOK, Goto

\* Each step keeps the types.
LEMMA TypeStep ==
  ASSUME TypeOK, [Next]_vars
  PROVE  TypeOK'
<1> USE DEF clockVars, advanceVars
<1>1. ASSUME NEW s \in Stops, NEW kind \in Kinds, SignalStop(s, kind)
      PROVE  tokens' \subseteq Channels /\ UNCHANGED <<clockVars, closed, polls, test, advanceVars>>
  BY <1>1 DEF SignalStop, TypeOK, Channels
<1>2. ASSUME NEW s \in Stops, NEW kind \in Kinds, CloseStopped(s, kind)
      PROVE  /\ sleepers' \in Seq(Sleepers) /\ closed' \subseteq Channels /\ blockers' \subseteq Nat
             /\ UNCHANGED <<now, tokens, polls, test, advanceVars>>
  <2>1. sleepers' \in Seq(Sleepers)
    <3>1. ASSUME NEW k \in Pointed(<<s, kind>>) PROVE Without(sleepers, k) \in Seq(Sleepers)
      BY <3>1, ShorterList DEF TypeOK, Pointed
    <3>2. \/ UNCHANGED sleepers
          \/ \E k \in Pointed(<<s, kind>>) : sleepers' = Without(sleepers, k)
      BY <1>2 DEF CloseStopped
    <3> QED  BY <3>1, <3>2 DEF TypeOK
  <2>2. closed' \subseteq Channels /\ blockers' \subseteq Nat
    <3>1. closed' = closed \cup {<<s, kind>>} /\ blockers' = blockers \ {Len(sleepers')}
      BY <1>2 DEF CloseStopped, NotifyBlockers
    <3>2. <<s, kind>> \in Channels
      BY DEF Channels
    <3>3. closed \subseteq Channels /\ blockers \subseteq Nat
      BY DEF TypeOK
    <3> QED  BY <3>1, <3>2, <3>3
  <2> QED  BY <1>2, <2>1, <2>2 DEF CloseStopped
<1>3. ASSUME NEW s \in Stops, NEW kind \in Kinds, NEW d \in Nat, Attach(s, kind, d)
      PROVE  /\ sleepers' \in Seq(Sleepers) /\ blockers' \subseteq Nat
             /\ UNCHANGED <<now, tokens, closed, polls, test, advanceVars>>
  BY <1>3, AttachTypes DEF Attach, TypeOK, NotifyBlockers
<1>4. {"timer", "ticker"} \subseteq Kinds /\ TimerSeconds \in Nat
  BY ConstantsAssumption DEF Kinds
<1>5. ASSUME NEW s \in Stops, WaitForServiceToStop(s) PROVE TypeOK'
  <2>1. CASE NewTimer(s)
    <3>1. pc' \in [Stops -> Locations]
      BY <2>1, GotoTypes DEF NewTimer, Locations
    <3> QED  BY <2>1, <3>1, <1>3, <1>4 DEF NewTimer, TypeOK
  <2>2. CASE NewTicker(s)
    <3>1. pc' \in [Stops -> Locations]
      BY <2>2, GotoTypes DEF NewTicker, Locations
    <3> QED  BY <2>2, <3>1, <1>3, <1>4 DEF NewTicker, TypeOK
  <2>3. CASE Poll(s)
    <3>1. pc' \in [Stops -> Locations]
      BY <2>3, GotoTypes DEF Poll, Locations
    <3> QED  BY <2>3, <3>1 DEF Poll, TypeOK
  <2>4. CASE Expire(s)
    <3>1. pc' \in [Stops -> Locations]
      BY <2>4, GotoTypes DEF Expire, Locations
    <3> QED  BY <2>4, <3>1 DEF Expire, TypeOK
  <2>5. CASE StopTicker(s)
    <3>1. pc' \in [Stops -> Locations]
      BY <2>5, GotoTypes DEF StopTicker, Locations
    <3>2. SignalStop(s, "ticker") \/ CloseStopped(s, "ticker")
      BY <2>5 DEF StopTicker
    <3> QED  BY <3>1, <3>2, <1>1, <1>2, <1>4 DEF TypeOK
  <2>6. CASE StopTimer(s)
    <3>1. pc' \in [Stops -> Locations]
      BY <2>6, GotoTypes DEF StopTimer, Locations
    <3>2. SignalStop(s, "timer") \/ CloseStopped(s, "timer")
      BY <2>6 DEF StopTimer
    <3> QED  BY <3>1, <3>2, <1>1, <1>2, <1>4 DEF TypeOK
  <2> QED  BY <1>5, <2>1, <2>2, <2>3, <2>4, <2>5, <2>6 DEF WaitForServiceToStop
<1>6. CASE BlockUntil
  BY <1>6, ExpectedNumber DEF BlockUntil, TypeOK
<1>7. CASE Woken
  BY <1>7 DEF Woken, TypeOK
<1>8. ASSUME NEW d \in 1..MaxTime, Advance(d) PROVE TypeOK'
  BY <1>8, ConstantsAssumption DEF Advance, TypeOK
<1>9. CASE AdvanceStep
  <2>1. work # <<>> => Head(work) \in Sleepers /\ Tail(work) \in Seq(Sleepers)
    BY DEF TypeOK
  <2>2. CASE NotDue
    BY <2>1, <2>2 DEF NotDue, TypeOK
  <2>3. CASE Forget
    BY <2>1, <2>3 DEF Forget, AtDue, TypeOK
  <2>4. CASE SendOnClosed
    BY <2>4 DEF SendOnClosed, TypeOK
  <2>5. CASE AdvanceTailRec
    BY <2>5 DEF AdvanceTailRec, TypeOK
  <2>6. CASE AdvanceReturns
    BY <2>6 DEF AdvanceReturns, TypeOK, NotifyBlockers
  <2>7. ASSUME NEW s \in Stops, Deliver(s) PROVE TypeOK'
    <3>1. pc' \in [Stops -> Locations]
      BY <2>7, GotoTypes DEF Deliver, Locations
    <3>2. again' \in Seq(Sleepers)
      BY <2>1, <2>7, TickAgain DEF Deliver, AtDue
    <3>3. polls' \in [Stops -> Nat]
      <4>1. polls' = polls \/ polls' = [polls EXCEPT ![s] = polls[s] + 1]
        BY <2>7 DEF Deliver
      <4>2. polls \in [Stops -> Nat]
        BY DEF TypeOK
      <4> QED  BY <4>1, <4>2
    <3> QED  BY <2>1, <2>7, <3>1, <3>2, <3>3 DEF Deliver, AtDue, TypeOK
  <2> QED  BY <1>9, <2>2, <2>3, <2>4, <2>5, <2>6, <2>7 DEF AdvanceStep
<1>10. CASE UNCHANGED vars
  BY <1>10 DEF vars, TypeOK
<1> QED
  BY <1>5, <1>6, <1>7, <1>8, <1>9, <1>10 DEF Next

-----------------------------------------------------------------------------
(* The inductive invariant, one lemma for each kind of step. *)

LEMMA InitInv == Init => ClockIInv
<1> SUFFICES ASSUME Init PROVE ClockIInv
  OBVIOUS
<1>1. TypeOK /\ Members(<<>>) = {} /\ Once(<<>>) /\ ~Advancing
  BY InitTypes, EmptyList DEF Init, Advancing
<1>2. sleepers = <<>> /\ work = <<>> /\ again = <<>> /\ later = <<>> /\ Live = {}
  BY <1>1 DEF Init, Live
<1>3. OneEach /\ DueThen /\ OnlyTickersLinger
  BY <1>1, <1>2 DEF OneEach, DueThen, OnlyTickersLinger, ChansOf
<1>4. PastIsOver /\ InStep
  BY <1>1, <1>2 DEF PastIsOver, InStep, Init
<1>5. ChannelsOfStop
  BY <1>2 DEF ChannelsOfStop, Init, ChansOf, Waiting
<1> QED
  BY <1>1, <1>3, <1>4, <1>5 DEF ClockIInv

\* Where the stops are after one has moved.
LEMMA Moved ==
  ASSUME TypeOK, NEW s \in Stops, NEW l, Goto(s, l)
  PROVE  \A t \in Stops : pc'[t] = IF t = s THEN l ELSE pc[t]
BY DEF TypeOK, Goto

\* The lists stay, and what is said of them.
LEMMA SameLists ==
  ASSUME ClockIInv, UNCHANGED <<sleepers, work, again, later, polls>>, Advancing' = Advancing
  PROVE  OneEach' /\ DueThen' /\ Live' = Live
<1>1. Live' = Live
  BY DEF Live
<1> QED
  BY <1>1 DEF ClockIInv, OneEach, DueThen

\* A stop looks at its processes, or its time is over.
LEMMA PollStep ==
  ASSUME ClockIInv, TypeOK', NEW s \in Stops, Poll(s) \/ Expire(s)
  PROVE  ClockIInv'
<1>1. PICK l \in {"select", "stopticker"} :
        /\ Goto(s, l)
        /\ l = "select" => pc[s] = "poll"
        /\ pc[s] \in {"poll", "expire"}
  BY DEF Poll, Expire
<1>2. UNCHANGED <<clockVars, tokens, closed, polls, test, advanceVars>>
  BY DEF Poll, Expire
<1>3. \A t \in Stops : pc'[t] = IF t = s THEN l ELSE pc[t]
  BY <1>1, Moved DEF ClockIInv
<1>4. Advancing' = Advancing
  BY <1>2 DEF Advancing
<1>5. OneEach' /\ DueThen' /\ Live' = Live
  BY <1>2, <1>4, SameLists DEF clockVars, advanceVars
<1>6. OnlyTickersLinger'
  BY <1>2 DEF ClockIInv, OnlyTickersLinger, clockVars, advanceVars
<1>7. PastIsOver'
  BY <1>1, <1>2, <1>3, <1>4 DEF ClockIInv, PastIsOver, clockVars, advanceVars
<1>8. InStep'
  BY <1>1, <1>2, <1>3, <1>4 DEF ClockIInv, InStep, clockVars, advanceVars, Expected
<1>9. ChannelsOfStop'
  BY <1>1, <1>2, <1>3, <1>5 DEF ClockIInv, ChannelsOfStop, Waiting
<1> QED
  BY <1>5, <1>6, <1>7, <1>8, <1>9 DEF ClockIInv

\* The first half of Stop.
LEMMA SignalStep ==
  ASSUME ClockIInv, TypeOK', NEW s \in Stops,
         \/ pc[s] = "stopticker" /\ SignalStop(s, "ticker") /\ Goto(s, "closeticker")
         \/ pc[s] = "stoptimer" /\ SignalStop(s, "timer") /\ Goto(s, "closetimer")
  PROVE  ClockIInv'
<1>1. PICK l, kind :
        /\ Goto(s, l) /\ SignalStop(s, kind)
        /\ \/ pc[s] = "stopticker" /\ kind = "ticker" /\ l = "closeticker"
           \/ pc[s] = "stoptimer" /\ kind = "timer" /\ l = "closetimer"
  OBVIOUS
<1>2. tokens' = tokens \cup {<<s, kind>>} /\ UNCHANGED <<clockVars, closed, polls, test, advanceVars>>
  BY <1>1 DEF SignalStop
<1>3. \A t \in Stops : pc'[t] = IF t = s THEN l ELSE pc[t]
  BY <1>1, Moved DEF ClockIInv
<1>4. Advancing' = Advancing
  BY <1>2 DEF Advancing
<1>5. OneEach' /\ DueThen' /\ Live' = Live
  BY <1>2, <1>4, SameLists DEF clockVars, advanceVars
<1>6. OnlyTickersLinger'
  BY <1>2 DEF ClockIInv, OnlyTickersLinger, clockVars, advanceVars
<1>7. PastIsOver'
  BY <1>1, <1>2, <1>3, <1>4 DEF ClockIInv, PastIsOver, clockVars, advanceVars
<1>8. InStep'
  BY <1>1, <1>2, <1>3, <1>4 DEF ClockIInv, InStep, clockVars, advanceVars, Expected
<1>9. ChannelsOfStop'
  BY <1>1, <1>2, <1>3, <1>5 DEF ClockIInv, ChannelsOfStop, Waiting
<1> QED
  BY <1>5, <1>6, <1>7, <1>8, <1>9 DEF ClockIInv

\* When the clock counts as many sleepers as there are channels, nobody is still on the way.
LEMMA AllAttached ==
  ASSUME ClockIInv, ~Advancing, Len(sleepers) = Expected
  PROVE  \A s \in Stops : pc[s] \notin {"newtimer", "newticker"}
<1>1. ChansOf(Live) = Channels
  BY FullList DEF ClockIInv, TypeOK, OneEach, Live
<1>2. \A s \in Stops : <<s, "ticker">> \in Channels
  BY DEF Channels, Kinds
<1> QED
  BY <1>1, <1>2 DEF ClockIInv, ChannelsOfStop

\* The test waits until everybody is attached.
LEMMA BlockStep ==
  ASSUME ClockIInv, TypeOK', BlockUntil \/ Woken
  PROVE  ClockIInv'
<1>1. /\ UNCHANGED <<now, sleepers, tokens, closed, pc, polls, advanceVars>>
      /\ test \in {"begin", "blocked"} /\ test' \in {"idle", "blocked"}
      /\ ~Advancing /\ Advancing' = Advancing
  BY DEF BlockUntil, Woken, clockVars, Advancing
<1>2. OneEach' /\ DueThen' /\ Live' = Live
  BY <1>1, SameLists DEF advanceVars
<1>3. OnlyTickersLinger' /\ PastIsOver'
  BY <1>1 DEF ClockIInv, OnlyTickersLinger, PastIsOver, advanceVars
<1>4. test' = "idle" \/ Expected \notin blockers' => \A s \in Stops : pc[s] \notin {"newtimer", "newticker"}
  <2>1. CASE BlockUntil
    <3>1. test' = "idle" \/ Expected \notin blockers' => Len(sleepers) = Expected
      BY <2>1 DEF BlockUntil
    <3> QED  BY <1>1, <3>1, AllAttached
  <2>2. CASE Woken
    BY <2>2 DEF Woken, ClockIInv, InStep
  <2> QED  BY <2>1, <2>2
<1>5. InStep'
  BY <1>1, <1>4 DEF ClockIInv, InStep, advanceVars, Expected
<1>6. ChannelsOfStop'
  BY <1>1, <1>2 DEF ClockIInv, ChannelsOfStop, Waiting
<1> QED
  BY <1>2, <1>3, <1>5, <1>6 DEF ClockIInv

\* A timer or a ticker joins the list, while the clock stands at its beginning.
LEMMA AttachStep ==
  ASSUME ClockIInv, TypeOK', NEW s \in Stops, NewTimer(s) \/ NewTicker(s)
  PROVE  ClockIInv'
<1>1. PICK kind, l, d :
        /\ Attach(s, kind, d) /\ Goto(s, l)
        /\ \/ pc[s] = "newtimer" /\ kind = "timer" /\ d = TimerSeconds /\ l = "newticker"
           \/ pc[s] = "newticker" /\ kind = "ticker" /\ d = 1 /\ l = "select"
  BY DEF NewTimer, NewTicker
<1> DEFINE c == <<s, kind>>
           x == [chan |-> c, until |-> now + d, held |-> TRUE]
<1>2. /\ sleepers' = Append(sleepers, x) /\ NotifyBlockers(Len(sleepers'))
      /\ UNCHANGED <<now, tokens, closed, polls, test, advanceVars>>
  BY <1>1 DEF Attach
<1>3. \A t \in Stops : pc'[t] = IF t = s THEN l ELSE pc[t]
  BY <1>1, Moved DEF ClockIInv
<1>4. /\ test \in {"begin", "blocked"} /\ ~Advancing /\ Advancing' = Advancing /\ end = 0 /\ now = 0
      /\ test = "blocked" => Expected \in blockers
  BY <1>1, <1>2 DEF ClockIInv, InStep, PastIsOver, TypeOK, Advancing
<1>5. c \in Channels /\ d \in Nat \ {0} /\ now \in Nat /\ end \in Nat
  BY <1>1, ConstantsAssumption DEF Channels, Kinds, ClockIInv, TypeOK
<1>6. x \in Sleepers /\ x.chan = c /\ x.until = now + d /\ x.held
  BY <1>5 DEF Sleepers
<1>7. c \notin ChansOf(Live) /\ Live = Members(sleepers)
  BY <1>1, <1>4 DEF ClockIInv, ChannelsOfStop, Live
<1> HIDE DEF x, c
<1>8. Members(sleepers') = Members(sleepers) \cup {x} /\ Once(sleepers')
  BY <1>2, <1>6, <1>7, AppendList DEF ClockIInv, TypeOK, OneEach
<1>9. Live' = Live \cup {x}
  BY <1>4, <1>7, <1>8 DEF Live
<1>10. OneEach'
  BY <1>2, <1>8 DEF ClockIInv, OneEach, advanceVars
<1>11. \A t \in Stops : polls[t] = 0
  BY <1>4 DEF ClockIInv, PastIsOver, TypeOK
<1>12. DueThen'
  <2>1. IsPeriodic(x) => x.until = polls[x.chan[1]] + 1
    BY <1>1, <1>4, <1>6, <1>11 DEF IsPeriodic, c
  <2>2. ~IsPeriodic(x) => x.until = TimerSeconds /\ x.held
    BY <1>1, <1>4, <1>6, ConstantsAssumption DEF IsPeriodic, c
  <2> QED  BY <2>1, <2>2, <1>2, <1>9 DEF ClockIInv, DueThen
<1>13. PastIsOver'
  <2>1. x.until > end
    BY <1>4, <1>5, <1>6
  <2> QED  BY <2>1, <1>1, <1>2, <1>3, <1>4, <1>8 DEF ClockIInv, PastIsOver, advanceVars
<1>14. ChannelsOfStop'
  <2>1. ChansOf(Live') = ChansOf(Live) \cup {c}
    BY <1>6, <1>9 DEF ChansOf
  <2>2. ASSUME NEW t \in Stops, t # s
        PROVE  <<t, "ticker">> # c /\ <<t, "timer">> # c /\ pc'[t] = pc[t]
    BY <1>3, <2>2 DEF c
  <2>3. "timer" # "ticker"
    OBVIOUS
  <2> QED  BY <2>1, <2>2, <2>3, <1>1, <1>2, <1>3 DEF ClockIInv, ChannelsOfStop, Waiting, c
<1>15. OnlyTickersLinger'
  <2>1. x.chan \notin closed
    BY <1>1, <1>6 DEF ClockIInv, ChannelsOfStop, c
  <2> QED  BY <2>1, <1>2, <1>8 DEF ClockIInv, OnlyTickersLinger, advanceVars
<1>16. test = "blocked" /\ Expected \notin blockers' => \A t \in Stops : pc'[t] \notin {"newtimer", "newticker"}
  <2> SUFFICES ASSUME test = "blocked", Expected \notin blockers'
               PROVE  \A t \in Stops : pc'[t] \notin {"newtimer", "newticker"}
    OBVIOUS
  <2>1. Len(sleepers') = Expected
    BY <1>2, <1>4 DEF NotifyBlockers
  <2>2. ChansOf(Live') = Channels
    BY <2>1, <1>7, <1>8, <1>9, FullList DEF TypeOK
  <2>3. \A t \in Stops : <<t, "ticker">> \in Channels
    BY DEF Channels, Kinds
  <2> QED  BY <2>2, <2>3, <1>14 DEF ChannelsOfStop
<1>17. InStep'
  BY <1>1, <1>2, <1>3, <1>4, <1>16 DEF ClockIInv, InStep, advanceVars, Expected
<1> QED
  BY <1>10, <1>12, <1>13, <1>14, <1>15, <1>17 DEF ClockIInv

\* The second half of Stop.
LEMMA CloseStep ==
  ASSUME ClockIInv, TypeOK', Alive, NEW s \in Stops,
         \/ pc[s] = "closeticker" /\ CloseStopped(s, "ticker") /\ Goto(s, "stoptimer")
         \/ pc[s] = "closetimer" /\ CloseStopped(s, "timer") /\ Goto(s, "done")
  PROVE  ClockIInv'
<1>1. PICK kind, l :
        /\ CloseStopped(s, kind) /\ Goto(s, l)
        /\ \/ pc[s] = "closeticker" /\ kind = "ticker" /\ l = "stoptimer"
           \/ pc[s] = "closetimer" /\ kind = "timer" /\ l = "done"
  OBVIOUS
<1> DEFINE c == <<s, kind>>
<1>2. /\ closed' = closed \cup {c} /\ UNCHANGED <<now, tokens, polls, test, advanceVars>>
      /\ NotifyBlockers(Len(sleepers'))
      /\ \/ Pointed(c) = {} /\ UNCHANGED sleepers
         \/ \E k \in Pointed(c) : sleepers' = Without(sleepers, k)
  BY <1>1 DEF CloseStopped
<1>3. \A t \in Stops : pc'[t] = IF t = s THEN l ELSE pc[t]
  BY <1>1, Moved DEF ClockIInv
<1>4. ~Advancing /\ Advancing' = Advancing /\ Live = Members(sleepers) /\ Live' = Members(sleepers')
  BY <1>1, <1>2 DEF CloseStopped, Locked, Alive, Advancing, Live
<1> HIDE DEF c
<1>5. /\ Members(sleepers') \subseteq Members(sleepers)
      /\ Once(sleepers')
      /\ \A x \in Members(sleepers) \ Members(sleepers') : x.chan = c
      /\ \A x \in Members(sleepers') : x.chan = c => ~x.held
  <2>1. CASE Pointed(c) = {} /\ UNCHANGED sleepers
    <3>1. \A x \in Members(sleepers) : x.chan = c => ~x.held
      BY <2>1 DEF Pointed, Members
    <3> QED  BY <2>1, <3>1 DEF ClockIInv, OneEach
  <2>2. ASSUME NEW k \in Pointed(c), sleepers' = Without(sleepers, k)
        PROVE  /\ Members(sleepers') \subseteq Members(sleepers)
               /\ Once(sleepers')
               /\ \A x \in Members(sleepers) \ Members(sleepers') : x.chan = c
               /\ \A x \in Members(sleepers') : x.chan = c => ~x.held
    <3>1. k \in 1..Len(sleepers) /\ sleepers[k].chan = c
      BY DEF Pointed
    <3>2. sleepers \in Seq(Sleepers) /\ Once(sleepers)
      BY DEF ClockIInv, TypeOK, OneEach
    <3>3. /\ Members(sleepers') \subseteq Members(sleepers)
          /\ Members(sleepers) \subseteq Members(sleepers') \cup {sleepers[k]}
          /\ Once(sleepers') /\ c \notin ChansOf(Members(sleepers'))
      BY <2>2, <3>1, <3>2, ShorterList
    <3> QED  BY <3>1, <3>3 DEF ChansOf
  <2> QED  BY <1>2, <2>1, <2>2
<1>6. OneEach'
  BY <1>2, <1>5 DEF ClockIInv, OneEach, advanceVars
<1>7. DueThen'
  BY <1>2, <1>4, <1>5 DEF ClockIInv, DueThen
<1>8. PastIsOver'
  BY <1>1, <1>2, <1>3, <1>4, <1>5 DEF ClockIInv, PastIsOver, advanceVars
<1>9. InStep'
  <2>1. end > 0
    BY <1>1 DEF ClockIInv, InStep, TypeOK
  <2>2. test \notin {"begin", "blocked"}
    BY <2>1 DEF ClockIInv, InStep
  <2>3. \A t \in Stops : pc'[t] \notin {"newtimer", "newticker"}
    BY <1>1, <1>3, <2>2 DEF ClockIInv, InStep
  <2> QED  BY <1>2, <1>4, <2>1, <2>2, <2>3 DEF ClockIInv, InStep, advanceVars, TypeOK
<1>10. ChannelsOfStop'
  <2>1. /\ ChansOf(Live') \subseteq ChansOf(Live)
        /\ ChansOf(Live) \subseteq ChansOf(Live') \cup {c}
    BY <1>4, <1>5 DEF ChansOf
  <2>2. ASSUME NEW t \in Stops, t # s
        PROVE  <<t, "ticker">> # c /\ <<t, "timer">> # c /\ pc'[t] = pc[t]
    BY <1>3, <2>2 DEF c
  <2>3. ~Waiting(s)' /\ pc'[s] \notin {"newtimer", "newticker"}
    BY <1>1, <1>3 DEF Waiting
  <2>4. \A t \in Stops : t # s => Waiting(t)' = Waiting(t)
    BY <2>2 DEF Waiting
  <2>5. \A t \in Stops : <<t, "ticker">> \in closed' => pc'[t] \in {"stoptimer", "closetimer", "done"}
    BY <1>1, <1>2, <1>3, <2>2 DEF ClockIInv, ChannelsOfStop, c
  <2>6. \A t \in Stops : <<t, "timer">> \in closed' => pc'[t] = "done"
    BY <1>1, <1>2, <1>3, <2>2 DEF ClockIInv, ChannelsOfStop, c
  <2>7. \A t \in Stops :
          /\ <<t, "ticker">> \in tokens' => pc'[t] \in {"closeticker", "stoptimer", "closetimer", "done"}
          /\ <<t, "timer">> \in tokens' => pc'[t] \in {"closetimer", "done"}
    BY <1>1, <1>2, <1>3 DEF ClockIInv, ChannelsOfStop
  <2>8. \A t \in Stops :
          /\ Waiting(t)' \/ pc'[t] = "newticker" => <<t, "timer">> \in ChansOf(Live')
          /\ Waiting(t)' => <<t, "ticker">> \in ChansOf(Live')
          /\ pc'[t] = "newtimer" => <<t, "timer">> \notin ChansOf(Live')
          /\ pc'[t] \in {"newtimer", "newticker"} => <<t, "ticker">> \notin ChansOf(Live')
    BY <2>1, <2>2, <2>3, <2>4 DEF ClockIInv, ChannelsOfStop
  <2> QED  BY <2>5, <2>6, <2>7, <2>8 DEF ChannelsOfStop, ChansOf
<1>11. OnlyTickersLinger'
  <2>1. Members(work) = {} /\ Members(again) = {} /\ Members(later) = {}
    BY <1>4, EmptyList DEF ClockIInv, InStep
  <2>2. \A x \in Members(sleepers') : x.chan = c => IsPeriodic(x) /\ ~x.held
    BY <1>4, <1>5 DEF ClockIInv, DueThen
  <2> QED  BY <1>2, <1>5, <2>1, <2>2 DEF ClockIInv, OnlyTickersLinger, advanceVars
<1> QED
  BY <1>6, <1>7, <1>8, <1>9, <1>10, <1>11 DEF ClockIInv

\* Advance begins: the time it moves to is later, and its lists are those of the clock.
LEMMA AdvanceStarts ==
  ASSUME ClockIInv, TypeOK', NEW d \in 1..MaxTime, Advance(d)
  PROVE  ClockIInv'
<1>1. /\ test = "idle" /\ test' = "advance" /\ end' = now + d
      /\ work' = sleepers /\ again' = <<>> /\ later' = <<>>
      /\ UNCHANGED <<clockVars, tokens, closed, pc, polls>>
  BY DEF Advance
<1>2. ~Advancing /\ Advancing' /\ Members(<<>>) = {} /\ Once(<<>>)
  BY <1>1, EmptyList DEF Advancing
<1>3. end' > end /\ end' > 0 /\ end \in Nat /\ end' \in Nat
  <2>1. now = end /\ now \in Nat /\ d \in Nat /\ d > 0
    BY <1>2, ConstantsAssumption DEF ClockIInv, PastIsOver, TypeOK
  <2> QED  BY <1>1, <2>1
<1>4. Live' = Live /\ Members(work') = Members(sleepers)
  BY <1>1, <1>2 DEF Live
<1>5. OneEach'
  BY <1>1, <1>2 DEF ClockIInv, OneEach, clockVars, ChansOf
<1>6. DueThen' /\ OnlyTickersLinger'
  BY <1>1, <1>2, <1>4 DEF ClockIInv, DueThen, OnlyTickersLinger, clockVars
<1>7. PastIsOver'
  <2>1. \A s \in Stops : polls[s] \in Nat
    BY DEF ClockIInv, TypeOK
  <2> QED  BY <1>1, <1>2, <1>3, <2>1, ConstantsAssumption DEF ClockIInv, PastIsOver
<1>8. InStep'
  BY <1>1, <1>2, <1>3 DEF ClockIInv, InStep
<1>9. ChannelsOfStop'
  BY <1>1, <1>4 DEF ClockIInv, ChannelsOfStop, Waiting
<1> QED
  BY <1>5, <1>6, <1>7, <1>8, <1>9 DEF ClockIInv

\* What Advance leaves as it is, whichever of its steps is taken.
LEMMA WhileAdvancing ==
  ASSUME ClockIInv, Advancing, Advancing', UNCHANGED <<closed, end, blockers>>,
         ~(test' \in {"begin", "blocked"})
  PROVE  /\ end > 0
         /\ \A s \in Stops : pc[s] \notin {"newtimer", "newticker"}
         /\ (\A s \in Stops : pc'[s] \notin {"newtimer", "newticker"}) => InStep'
<1>1. test \notin {"begin", "blocked"}
  BY DEF Advancing
<1> QED
  BY <1>1 DEF ClockIInv, InStep

\* Advance passes over a sleeper that is not due.
LEMMA NotDueStep ==
  ASSUME ClockIInv, TypeOK', NotDue
  PROVE  ClockIInv'
<1> DEFINE x == Head(work)
<1>1. /\ test = "advance" /\ work # <<>> /\ x.until > end
      /\ later' = Append(later, x) /\ work' = Tail(work)
      /\ UNCHANGED <<clockVars, tokens, closed, pc, polls, test, end, again>>
  BY DEF NotDue, Locked
<1>2. Advancing /\ Advancing'
  BY <1>1 DEF Advancing
<1> HIDE DEF x
<1>3. /\ x \in Sleepers /\ Members(work) = {x} \cup Members(work')
      /\ Once(work') /\ x.chan \notin ChansOf(Members(work'))
  BY <1>1, TailList DEF ClockIInv, TypeOK, OneEach, x
<1>4. x.chan \notin ChansOf(Members(later)) /\ x.chan \notin ChansOf(Members(again))
  BY <1>3 DEF ClockIInv, OneEach, ChansOf
<1>5. Members(later') = Members(later) \cup {x} /\ Once(later')
  BY <1>1, <1>3, <1>4, AppendList DEF ClockIInv, TypeOK, OneEach
<1>6. Live' = Live
  BY <1>1, <1>2, <1>3, <1>5 DEF Live
<1>7. OneEach'
  <2>1. /\ ChansOf(Members(work)) = {x.chan} \cup ChansOf(Members(work'))
        /\ ChansOf(Members(later')) = ChansOf(Members(later)) \cup {x.chan}
    BY <1>3, <1>5 DEF ChansOf
  <2> QED  BY <2>1, <1>1, <1>3, <1>4, <1>5 DEF ClockIInv, OneEach, clockVars
<1>8. DueThen' /\ ChannelsOfStop'
  BY <1>1, <1>6 DEF ClockIInv, DueThen, ChannelsOfStop, Waiting
<1>9. OnlyTickersLinger'
  BY <1>1, <1>3, <1>5 DEF ClockIInv, OnlyTickersLinger, clockVars
<1>10. PastIsOver'
  BY <1>1, <1>2, <1>5 DEF ClockIInv, PastIsOver, clockVars
<1>11. InStep'
  BY <1>1, <1>2, WhileAdvancing DEF clockVars
<1> QED
  BY <1>7, <1>8, <1>9, <1>10, <1>11 DEF ClockIInv

\* Advance forgets a sleeper whose channel was stopped.
LEMMA ForgetStep ==
  ASSUME ClockIInv, TypeOK', Forget
  PROVE  ClockIInv'
<1> DEFINE x == Head(work)
<1>1. /\ test = "advance" /\ work # <<>> /\ x.chan \in tokens
      /\ tokens' = tokens \ {x.chan} /\ work' = Tail(work)
      /\ UNCHANGED <<clockVars, closed, pc, polls, test, end, again, later>>
  BY DEF Forget, AtDue, Locked
<1>2. Advancing /\ Advancing'
  BY <1>1 DEF Advancing
<1> HIDE DEF x
<1>3. /\ x \in Sleepers /\ Members(work) = {x} \cup Members(work') /\ Once(work')
  BY <1>1, TailList DEF ClockIInv, TypeOK, OneEach, x
<1>4. Live = Live' \cup {x}
  BY <1>1, <1>2, <1>3 DEF Live
<1>5. OneEach'
  BY <1>1, <1>3 DEF ClockIInv, OneEach, clockVars, ChansOf
<1>6. DueThen'
  BY <1>1, <1>4 DEF ClockIInv, DueThen
<1>7. ChannelsOfStop'
  <2>1. ChansOf(Live) = ChansOf(Live') \cup {x.chan}
    BY <1>4 DEF ChansOf
  <2>2. \A s \in Stops : pc[s] \notin {"newtimer", "newticker"}
    BY <1>1, <1>2, WhileAdvancing DEF clockVars
  <2>3. ASSUME NEW s \in Stops, Waiting(s) PROVE x.chan # <<s, "ticker">> /\ x.chan # <<s, "timer">>
    BY <1>1, <2>3 DEF ClockIInv, ChannelsOfStop, Waiting
  <2>4. \A s \in Stops : Waiting(s)' = Waiting(s) /\ pc'[s] = pc[s]
    BY <1>1 DEF Waiting
  <2> QED  BY <1>1, <2>1, <2>2, <2>3, <2>4 DEF ClockIInv, ChannelsOfStop, ChansOf
<1>8. OnlyTickersLinger'
  BY <1>1, <1>3 DEF ClockIInv, OnlyTickersLinger, clockVars
<1>9. PastIsOver'
  BY <1>1, <1>2 DEF ClockIInv, PastIsOver, clockVars
<1>10. InStep'
  BY <1>1, <1>2, WhileAdvancing DEF clockVars
<1> QED
  BY <1>5, <1>6, <1>7, <1>8, <1>9, <1>10 DEF ClockIInv

\* Advance panics, or goes on with the sleepers it has scheduled again.
LEMMA PassStep ==
  ASSUME ClockIInv, TypeOK', SendOnClosed \/ AdvanceTailRec
  PROVE  ClockIInv'
<1>1. /\ test = "advance" /\ test' \in {"advance", "panicked"}
      /\ UNCHANGED <<clockVars, tokens, closed, pc, polls, end, later>>
      /\ \/ UNCHANGED <<work, again>>
         \/ work = <<>> /\ work' = again /\ again' = <<>>
  BY DEF SendOnClosed, AdvanceTailRec, AtDue, Locked, advanceVars
<1>2. Advancing /\ Advancing'
  BY <1>1 DEF Advancing
<1>3. Members(<<>>) = {} /\ Once(<<>>)
  BY EmptyList
<1>4. Live' = Live /\ Members(work') \cup Members(again') = Members(work) \cup Members(again)
  BY <1>1, <1>2, <1>3 DEF Live
<1>5. OneEach'
  BY <1>1, <1>3 DEF ClockIInv, OneEach, clockVars, ChansOf
<1>6. DueThen' /\ ChannelsOfStop'
  BY <1>1, <1>4 DEF ClockIInv, DueThen, ChannelsOfStop, Waiting
<1>7. OnlyTickersLinger'
  BY <1>1, <1>4 DEF ClockIInv, OnlyTickersLinger, clockVars
<1>8. PastIsOver'
  BY <1>1, <1>2 DEF ClockIInv, PastIsOver, clockVars
<1>9. InStep'
  BY <1>1, <1>2, WhileAdvancing DEF clockVars
<1> QED
  BY <1>5, <1>6, <1>7, <1>8, <1>9 DEF ClockIInv

\* Advance is done: what is left is due later.
LEMMA ReturnStep ==
  ASSUME ClockIInv, TypeOK', AdvanceReturns
  PROVE  ClockIInv'
<1>1. /\ test = "advance" /\ test' = "idle" /\ work = <<>> /\ again = <<>>
      /\ sleepers' = later /\ now' = end /\ later' = <<>>
      /\ UNCHANGED <<tokens, closed, pc, polls, end, work, again>>
  BY DEF AdvanceReturns, Locked
<1>2. Advancing /\ ~Advancing' /\ Members(<<>>) = {} /\ Once(<<>>)
  BY <1>1, EmptyList DEF Advancing
<1>3. Live' = Live
  BY <1>1, <1>2 DEF Live
<1>4. OneEach'
  BY <1>1, <1>2 DEF ClockIInv, OneEach, ChansOf
<1>5. DueThen' /\ ChannelsOfStop'
  BY <1>1, <1>3 DEF ClockIInv, DueThen, ChannelsOfStop, Waiting
<1>6. OnlyTickersLinger' /\ PastIsOver'
  BY <1>1, <1>2 DEF ClockIInv, OnlyTickersLinger, PastIsOver
<1>7. InStep'
  BY <1>1, <1>2 DEF ClockIInv, InStep, Advancing
<1> QED
  BY <1>4, <1>5, <1>6, <1>7 DEF ClockIInv

\* A stop receives a tick or its deadline.
LEMMA DeliverStep ==
  ASSUME ClockIInv, TypeOK', NEW s \in Stops, Deliver(s)
  PROVE  ClockIInv'
<1> DEFINE x == Head(work)
           y == Successor(x, x.until + 1)
<1>1. /\ test = "advance" /\ work # <<>> /\ x.until <= end
      /\ x.chan[1] = s /\ pc[s] = "select" /\ x.chan \notin closed
      /\ again' = Rescheduled(x) /\ work' = Tail(work)
      /\ UNCHANGED <<clockVars, tokens, closed, test, end, later>>
      /\ IF IsPeriodic(x) THEN Goto(s, "poll") /\ polls' = [polls EXCEPT ![s] = @ + 1]
                          ELSE Goto(s, "expire") /\ UNCHANGED polls
  BY DEF Deliver, AtDue, Locked
<1>2. Advancing /\ Advancing'
  BY <1>1 DEF Advancing
<1>3. y.chan = x.chan /\ y.until = x.until + 1 /\ ~y.held
  BY DEF Successor
<1>4. again' = IF IsPeriodic(x) THEN Append(again, y) ELSE again
  BY <1>1 DEF Rescheduled
<1>5. x \in Sleepers => y \in Sleepers
  BY DEF Successor, Sleepers
<1>6. IsPeriodic(y) = IsPeriodic(x)
  BY <1>3 DEF IsPeriodic
<1> HIDE DEF x, y
<1>7. /\ x \in Sleepers /\ Members(work) = {x} \cup Members(work')
      /\ Once(work') /\ x.chan \notin ChansOf(Members(work'))
  BY <1>1, TailList DEF ClockIInv, TypeOK, OneEach, x
<1>8. x.chan \notin ChansOf(Members(again)) /\ x.chan \notin ChansOf(Members(later))
  BY <1>7 DEF ClockIInv, OneEach, ChansOf
<1>9. x.until \in Nat /\ x.chan = <<s, x.chan[2]>> /\ x.chan[2] \in Kinds
  BY <1>1, <1>7 DEF Sleepers, Channels
<1>10. IsPeriodic(x) => x.chan = <<s, "ticker">>
  BY <1>9 DEF IsPeriodic
<1>11. ~IsPeriodic(x) => x.chan = <<s, "timer">>
  BY <1>9 DEF IsPeriodic, Kinds
<1>12. x \in Live
  BY <1>2, <1>7 DEF Live
<1>13. polls \in [Stops -> Nat] /\ end \in Nat /\ pc \in [Stops -> Locations]
  BY DEF ClockIInv, TypeOK
<1>14. CASE IsPeriodic(x)
  <2>1. Members(again') = Members(again) \cup {y} /\ Once(again')
    BY <1>3, <1>4, <1>5, <1>7, <1>8, <1>14, AppendList DEF ClockIInv, TypeOK, OneEach
  <2>2. polls' = [polls EXCEPT ![s] = @ + 1] /\ Goto(s, "poll")
    BY <1>1, <1>14
  <2>3. \A t \in Stops : pc'[t] = IF t = s THEN "poll" ELSE pc[t]
    BY <2>2, Moved DEF ClockIInv
  <2>4. \A t \in Stops : polls'[t] = IF t = s THEN polls[t] + 1 ELSE polls[t]
    BY <2>2, <1>13
  <2>5. Live' = Members(work') \cup Members(again) \cup Members(later) \cup {y}
    BY <1>1, <1>2, <2>1 DEF Live
  <2>6. Live = Members(work') \cup Members(again) \cup Members(later) \cup {x}
    BY <1>2, <1>7 DEF Live
  <2>7. ChansOf(Live') = ChansOf(Live)
    BY <1>3, <2>5, <2>6 DEF ChansOf
  <2>8. x.until = polls[s] + 1
    BY <1>1, <1>12, <1>14 DEF ClockIInv, DueThen
  <2>9. OneEach'
    <3>1. /\ ChansOf(Members(work)) = ChansOf(Members(work')) \cup {x.chan}
          /\ ChansOf(Members(again')) = ChansOf(Members(again)) \cup {x.chan}
      BY <1>3, <1>7, <2>1 DEF ChansOf
    <3> QED  BY <3>1, <1>1, <1>7, <1>8, <2>1 DEF ClockIInv, OneEach, clockVars
  <2>10. DueThen'
    <3>1. y.until = polls'[y.chan[1]] + 1
      BY <1>1, <1>3, <1>9, <1>13, <2>4, <2>8
    <3>2. ASSUME NEW z \in Live, z # x, z \in Members(work') \cup Members(again) \cup Members(later)
          PROVE  IF IsPeriodic(z) THEN z.until = polls'[z.chan[1]] + 1
                                  ELSE z.until = TimerSeconds /\ z.held
      <4>1. z.chan # x.chan
        BY <1>7, <1>8, <3>2 DEF ChansOf
      <4>2. z \in Sleepers
        <5>1. /\ work' \in Seq(Sleepers) /\ again \in Seq(Sleepers) /\ later \in Seq(Sleepers)
          BY DEF ClockIInv, TypeOK
        <5>2. \A q \in Seq(Sleepers) : Members(q) \subseteq Sleepers
          BY DEF Members
        <5> QED  BY <3>2, <5>1, <5>2
      <4>3. z.chan \in Channels /\ z.chan = <<z.chan[1], z.chan[2]>> /\ z.chan[1] \in Stops
        BY <4>2 DEF Sleepers, Channels
      <4>4. IsPeriodic(z) => z.chan[1] # s
        BY <1>10, <1>14, <4>1, <4>3 DEF IsPeriodic
      <4>5. IF IsPeriodic(z) THEN z.until = polls[z.chan[1]] + 1
                             ELSE z.until = TimerSeconds /\ z.held
        BY <3>2 DEF ClockIInv, DueThen
      <4> QED  BY <2>4, <4>3, <4>4, <4>5
    <3>3. x \notin Members(work') \cup Members(again) \cup Members(later)
      BY <1>7, <1>8 DEF ChansOf
    <3>4. IsPeriodic(y)
      BY <1>6, <1>14
    <3> QED  BY <2>5, <2>6, <3>1, <3>2, <3>3, <3>4 DEF DueThen
  <2>11. PastIsOver'
    <3>1. \A t \in Stops : polls'[t] <= end
      BY <1>1, <1>13, <2>4, <2>8 DEF ClockIInv, PastIsOver
    <3> QED  BY <3>1, <1>1, <1>2, <2>3 DEF ClockIInv, PastIsOver
  <2>12. InStep'
    BY <1>1, <1>2, <2>3, WhileAdvancing DEF clockVars
  <2>13. ChannelsOfStop'
    BY <1>1, <2>3, <2>7 DEF ClockIInv, ChannelsOfStop, Waiting
  <2>14. OnlyTickersLinger'
    BY <1>1, <1>3, <1>7, <2>1 DEF ClockIInv, OnlyTickersLinger, clockVars
  <2> QED  BY <2>9, <2>10, <2>11, <2>12, <2>13, <2>14 DEF ClockIInv
<1>15. CASE ~IsPeriodic(x)
  <2>1. again' = again /\ polls' = polls /\ Goto(s, "expire")
    BY <1>1, <1>4, <1>15
  <2>2. \A t \in Stops : pc'[t] = IF t = s THEN "expire" ELSE pc[t]
    BY <2>1, Moved DEF ClockIInv
  <2>3. Live = Live' \cup {x}
    BY <1>1, <1>2, <1>7, <2>1 DEF Live
  <2>4. OneEach'
    BY <1>1, <1>7, <2>1 DEF ClockIInv, OneEach, clockVars, ChansOf
  <2>5. DueThen'
    BY <2>1, <2>3 DEF ClockIInv, DueThen
  <2>6. PastIsOver'
    <3>1. end >= TimerSeconds
      BY <1>1, <1>12, <1>13, <1>15, ConstantsAssumption DEF ClockIInv, DueThen
    <3> QED  BY <3>1, <1>1, <1>2, <2>1, <2>2 DEF ClockIInv, PastIsOver
  <2>7. InStep'
    BY <1>1, <1>2, <2>2, WhileAdvancing DEF clockVars
  <2>8. ChannelsOfStop'
    <3>1. ChansOf(Live) = ChansOf(Live') \cup {x.chan}
      BY <2>3 DEF ChansOf
    <3>2. \A t \in Stops : pc[t] \notin {"newtimer", "newticker"}
      BY <1>1, <1>2, WhileAdvancing DEF clockVars
    <3>3. ASSUME NEW t \in Stops, t # s PROVE x.chan # <<t, "ticker">> /\ x.chan # <<t, "timer">>
      BY <1>9, <3>3
    <3> QED  BY <1>1, <2>2, <3>1, <3>2, <3>3 DEF ClockIInv, ChannelsOfStop, Waiting, ChansOf
  <2>9. OnlyTickersLinger'
    BY <1>1, <1>7, <2>1 DEF ClockIInv, OnlyTickersLinger, clockVars
  <2> QED  BY <2>4, <2>5, <2>6, <2>7, <2>8, <2>9 DEF ClockIInv
<1> QED
  BY <1>14, <1>15

-----------------------------------------------------------------------------
(* The theorems. *)

\* The inductive invariant: whatever the stops and the clock do, each channel that a stop waits
\* for has one sleeper, due a second after the last tick, and none is left behind that is due.
THEOREM ClockIsKept == Spec => []ClockIInv
<1>1. ClockIInv /\ [Next]_vars => ClockIInv'
  <2> SUFFICES ASSUME ClockIInv, [Next]_vars PROVE ClockIInv'
    OBVIOUS
  <2>1. TypeOK'
    BY TypeStep DEF ClockIInv
  <2>2. ASSUME NEW s \in Stops, WaitForServiceToStop(s) PROVE ClockIInv'
    <3>1. CASE NewTimer(s) \/ NewTicker(s)
      BY <2>1, <3>1, AttachStep
    <3>2. CASE Poll(s) \/ Expire(s)
      BY <2>1, <3>2, PollStep
    <3>3. CASE StopTicker(s) \/ StopTimer(s)
      BY <2>1, <3>3, SignalStep, CloseStep DEF StopTicker, StopTimer
    <3> QED  BY <2>2, <3>1, <3>2, <3>3 DEF WaitForServiceToStop
  <2>3. CASE BlockUntil \/ Woken
    BY <2>1, <2>3, BlockStep
  <2>4. ASSUME NEW d \in 1..MaxTime, Advance(d) PROVE ClockIInv'
    BY <2>1, <2>4, AdvanceStarts
  <2>5. CASE AdvanceStep
    BY <2>1, <2>5, NotDueStep, ForgetStep, PassStep, ReturnStep, DeliverStep DEF AdvanceStep
  <2>6. CASE UNCHANGED vars
    <3>1. Advancing' = Advancing /\ UNCHANGED <<sleepers, work, again, later, polls>>
      BY <2>6 DEF vars, Advancing
    <3>2. OneEach' /\ DueThen' /\ Live' = Live
      BY <3>1, SameLists
    <3>3. PastIsOver' /\ InStep' /\ OnlyTickersLinger'
      BY <2>6, <3>1 DEF vars, ClockIInv, PastIsOver, InStep, OnlyTickersLinger, Expected
    <3>4. ChannelsOfStop'
      BY <2>6, <3>2 DEF vars, ClockIInv, ChannelsOfStop, Waiting
    <3> QED  BY <2>1, <3>2, <3>3, <3>4 DEF ClockIInv
  <2> QED  BY <2>2, <2>3, <2>4, <2>5, <2>6 DEF Next
<1> QED
  BY <1>1, InitInv, PTL DEF Spec

\* BlockUntil lets the test go on only when every stop has its timer and its ticker on the clock
\* and waits (go_init_integration_test.go:941), for any number of stops.
THEOREM AllAreAttached == Spec => []Attached
<1>1. ClockIInv => Attached
  <2> SUFFICES ASSUME ClockIInv, test = "idle", now = 0, NEW s \in Stops PROVE Waiting(s)
    BY DEF Attached
  <2>1. ~Advancing /\ end = 0
    BY DEF ClockIInv, PastIsOver, Advancing
  <2> QED  BY <2>1 DEF ClockIInv, InStep, Waiting
<1> QED
  BY <1>1, ClockIsKept, PTL

\* Advance returns only when a stop that still waits has had one tick for each second
\* (clockwork.go:235), for any steps of the clock.
THEOREM TicksAreDelivered == Spec => []EveryTick
<1>1. ClockIInv => EveryTick
  <2> SUFFICES ASSUME ClockIInv, ~Locked, Alive, NEW s \in Stops, Waiting(s) PROVE polls[s] = now
    BY DEF EveryTick
  <2>1. ~Advancing
    BY DEF Locked, Alive, Advancing
  <2>2. PICK x \in Members(sleepers) : x.chan = <<s, "ticker">>
    BY <2>1 DEF ClockIInv, ChannelsOfStop, Live, ChansOf
  <2>3. IsPeriodic(x) /\ x.until = polls[s] + 1
    BY <2>1, <2>2 DEF ClockIInv, DueThen, Live, IsPeriodic
  <2>4. now = end /\ x.until > end /\ polls[s] <= end
    BY <2>1, <2>2 DEF ClockIInv, PastIsOver
  <2>5. polls[s] \in Nat /\ end \in Nat
    BY DEF ClockIInv, TypeOK
  <2> QED  BY <2>3, <2>4, <2>5
<1> QED
  BY <1>1, ClockIsKept, PTL

\* No stop gives up before its seconds are over, and none waits on after them
\* (go_init_integration_test.go:942).
THEOREM DeadlineIsKept == Spec => []DeadlineKept
<1>1. ClockIInv => DeadlineKept
  <2> SUFFICES ASSUME ClockIInv, NEW s \in Stops
               PROVE  /\ pc[s] = "expire" => end >= TimerSeconds
                      /\ ~Locked /\ Alive /\ Waiting(s) => now < TimerSeconds
    BY DEF DeadlineKept
  <2>1. pc[s] = "expire" => end >= TimerSeconds
    BY DEF ClockIInv, PastIsOver
  <2>2. ASSUME ~Locked, Alive, Waiting(s) PROVE now < TimerSeconds
    <3>1. ~Advancing
      BY <2>2 DEF Locked, Alive, Advancing
    <3>2. PICK x \in Members(sleepers) : x.chan = <<s, "timer">>
      BY <2>2, <3>1 DEF ClockIInv, ChannelsOfStop, Live, ChansOf
    <3>3. x.until = TimerSeconds
      BY <3>1, <3>2 DEF ClockIInv, DueThen, Live, IsPeriodic
    <3>4. now = end /\ x.until > end /\ end \in Nat
      BY <3>1, <3>2 DEF ClockIInv, PastIsOver, TypeOK
    <3> QED  BY <3>3, <3>4, ConstantsAssumption
  <2> QED  BY <2>1, <2>2
<1> QED
  BY <1>1, ClockIsKept, PTL

\* Of a stopped channel only sleepers remain that Advance has scheduled again (clockwork.go:149).
THEOREM TimersDoNotLinger == Spec => []OnlyTickersLinger
<1>1. ClockIInv => OnlyTickersLinger
  BY DEF ClockIInv
<1> QED
  BY <1>1, ClockIsKept, PTL

\* The first half of Stop never blocks: the stop channel has room for its token
\* (clockwork.go:140, "This should not block since we give it a buffer of 1").
StopHasRoom ==
  \A s \in Stops : /\ pc[s] = "stopticker" => <<s, "ticker">> \notin tokens
                   /\ pc[s] = "stoptimer" => <<s, "timer">> \notin tokens

THEOREM StopDoesNotBlock == Spec => []StopHasRoom
<1>1. ClockIInv => StopHasRoom
  BY DEF ClockIInv, ChannelsOfStop, StopHasRoom
<1> QED
  BY <1>1, ClockIsKept, PTL

\* Advance panics only on the channel of a ticker that has ticked before it was stopped, never on
\* that of a timer or of a ticker that has not ticked (clockwork.go:145).
THEOREM OnlyOldTickersPanic ==
  Spec => [][SendOnClosed => IsPeriodic(Head(work)) /\ ~Head(work).held]_vars
<1>1. ClockIInv => (SendOnClosed => IsPeriodic(Head(work)) /\ ~Head(work).held)
  <2> SUFFICES ASSUME ClockIInv, SendOnClosed PROVE IsPeriodic(Head(work)) /\ ~Head(work).held
    OBVIOUS
  <2>1. work # <<>> /\ Head(work).chan \in closed
    BY DEF SendOnClosed, AtDue
  <2>2. Head(work) \in Members(work)
    BY <2>1, TailList DEF ClockIInv, TypeOK
  <2> QED  BY <2>1, <2>2 DEF ClockIInv, OnlyTickersLinger
<1> QED
  BY <1>1, ClockIsKept, PTL
=============================================================================
