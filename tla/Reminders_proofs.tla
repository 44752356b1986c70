--------------------------- MODULE Reminders_proofs ---------------------------
(****************************************************************************)
(* Proofs about Snoozes and CalendarReminders, for any number of users,      *)
(* conversations, changes and failures, and for any intervals and limits:    *)
(* the loops never sleep past what they have to remind of.                   *)
(****************************************************************************)
EXTENDS Snoozes, CalendarReminders, FiniteSetTheorems, WellFoundedInduction, TLAPS

-----------------------------------------------------------------------------
(* What the loops share. *)

Moments == Times \cup {Never}

LEMMA MomentsFacts ==
    /\ Horizon \in Nat /\ IdleInterval \in Nat \ {0} /\ ErrorBackoff \in Nat \ {0} /\ Never \in Nat
    /\ ProcessLimit \in Nat \ {0} /\ MaxChanges \in Nat /\ MaxFailures \in Nat
    /\ Horizon < Never /\ Moments \subseteq 0 .. Never /\ 0 \in Times /\ Never \in Moments
    /\ \A t \in Times : t + IdleInterval <= Never /\ t + ErrorBackoff <= Never
BY ReminderAssumption DEF Moments, Times, Never

LEMMA LeastMoment ==
    ASSUME NEW S, S \subseteq Nat, S # {}
    PROVE  \E x \in S : \A n \in S : x <= n
<1> DEFINE Less == {p \in Nat \X Nat : p[1] < p[2]}
<1>1. IsWellFoundedOn(Less, Nat)
  BY NatLessThanWellFounded, Zenon DEF OpToRel
<1>2. PICK x \in S : \A n \in S : <<n, x>> \notin Less
  <2> HIDE DEF Less
  <2> QED  BY <1>1, WFMin
<1>3. ASSUME NEW n \in S PROVE x <= n
  <2>1. n \in Nat /\ x \in Nat /\ <<n, x>> \notin Less
    BY <1>2
  <2>2. ~(n < x)
    BY <2>1
  <2> QED  BY <2>1, <2>2
<1> QED  BY <1>3

LEMMA EarliestIsLeast ==
    ASSUME NEW S, S \subseteq Moments
    PROVE  /\ Earliest(S) \in Moments /\ Earliest(S) \in Nat
           /\ \A s \in S : Earliest(S) <= s
<1> DEFINE T == S \cup {Never}
<1>1. T \subseteq Nat /\ T # {} /\ T \subseteq Moments
  BY MomentsFacts
<1>2. \E x \in T : \A n \in T : x <= n
  <2> HIDE DEF T
  <2> QED  BY <1>1, LeastMoment
<1>3. Earliest(S) = CHOOSE x \in T : \A n \in T : x <= n
  BY DEF Earliest
<1> HIDE DEF T
<1>4. Earliest(S) \in T /\ \A n \in T : Earliest(S) <= n
  BY <1>2, <1>3
<1> QED  BY <1>1, <1>4 DEF T

LEMMA LoopFields ==
    ASSUME NEW l \in LoopType
    PROVE  /\ l.pc \in {"down", "asleep", "pass"} /\ l.timer \in 0 .. Never /\ l.timer \in Nat
           /\ l.todo \subseteq Users /\ l.ahead \in Moments /\ l.ahead \in Nat /\ l.failed \in BOOLEAN
BY MomentsFacts DEF LoopType, Moments

LEMMA DownFields ==
    /\ Down \in LoopType /\ Down.pc = "down" /\ Down.todo = {} /\ Down.failed = FALSE
    /\ Down.timer = 0 /\ Down.ahead = Never
BY MomentsFacts DEF Down, LoopType, Moments

LEMMA StartedFields ==
    ASSUME NEW t \in 0 .. Never
    PROVE  /\ Started(t) \in LoopType /\ Started(t).pc = "asleep" /\ Started(t).timer = t
           /\ Started(t).todo = {} /\ Started(t).failed = FALSE
BY DownFields DEF Started, LoopType

LEMMA PassOverFields ==
    ASSUME NEW users \in SUBSET Users, NEW failed \in BOOLEAN
    PROVE  /\ PassOver(users, failed) \in LoopType /\ PassOver(users, failed).pc = "pass"
           /\ PassOver(users, failed).todo = users /\ PassOver(users, failed).failed = failed
BY DownFields DEF PassOver, LoopType

LEMMA DoneFields ==
    ASSUME NEW l \in LoopType, NEW u, NEW t \in Moments
    PROVE  /\ Done(l, u, t) \in LoopType /\ Done(l, u, t).pc = l.pc /\ Done(l, u, t).timer = l.timer
           /\ Done(l, u, t).todo = l.todo \ {u} /\ Done(l, u, t).failed = l.failed
           /\ Done(l, u, t).ahead \in Nat /\ Done(l, u, t).ahead <= l.ahead /\ Done(l, u, t).ahead <= t
<1> DEFINE a == Earliest({l.ahead, t})
<1>1. a \in Moments /\ a \in Nat /\ a <= l.ahead /\ a <= t
  BY EarliestIsLeast, LoopFields
<1>2. Done(l, u, t) = [l EXCEPT !.todo = l.todo \ {u}, !.ahead = a]
  BY DEF Done, LoopType
<1> HIDE DEF a
<1> QED  BY <1>1, <1>2 DEF LoopType, Moments

LEMMA FailedFields ==
    ASSUME NEW l \in LoopType, NEW u
    PROVE  /\ Failed(l, u) \in LoopType /\ Failed(l, u).pc = l.pc /\ Failed(l, u).timer = l.timer
           /\ Failed(l, u).todo = l.todo \ {u} /\ Failed(l, u).failed = TRUE
           /\ Failed(l, u).ahead = l.ahead
BY DEF Failed, LoopType

LEMMA SleepsFields ==
    ASSUME NEW l \in LoopType, NEW t \in 0 .. Never
    PROVE  /\ SleepsTill(l, t) \in LoopType /\ SleepsTill(l, t).pc = "asleep"
           /\ SleepsTill(l, t).timer = t /\ SleepsTill(l, t).todo = {}
           /\ SleepsTill(l, t).failed = l.failed
<1> DEFINE q == Started(t)
<1>1. q \in LoopType /\ q.pc = "asleep" /\ q.timer = t /\ q.todo = {}
  BY StartedFields
<1>2. SleepsTill(l, t) = [q EXCEPT !.failed = l.failed] /\ l.failed \in BOOLEAN
  BY LoopFields DEF SleepsTill
<1> HIDE DEF q
<1> QED  BY <1>1, <1>2 DEF LoopType

-----------------------------------------------------------------------------
(* What is left of a user's snoozes lies at b or later. *)
SnoozedFrom(u, b) == \A i \in Of(u) : snoozed[i] >= b

(* Unless a wake is coming, or the loop tries again after an error, the timer *)
(* is no later than any snooze a handler has told of; in a pass, what the     *)
(* pass remembers is no later than those of the users it has done.            *)
SnoozesCovered ==
    \A u \in Users \ telling :
        /\ snoozer.pc = "asleep" /\ ~snoozeWake /\ ~snoozer.failed =>
               snoozer.timer <= today \/ SnoozedFrom(u, snoozer.timer)
        /\ snoozer.pc = "pass" /\ ~snoozeWake /\ ~snoozer.failed /\ u \notin snoozer.todo =>
               SnoozedFrom(u, snoozer.ahead)

SnoozesInv ==
    /\ SnoozesTypeOK /\ SnoozesCovered
    /\ snoozer.pc = "asleep" /\ snoozer.failed => snoozer.timer <= today + ErrorBackoff

LEMMA SnoozeFacts ==
    ASSUME SnoozesInv
    PROVE  /\ today \in Nat /\ today \in Times /\ snoozer \in LoopType
           /\ \A i \in Items : snoozed[i] \in Moments /\ snoozed[i] \in Nat
           /\ SnoozeFault => snoozeFailures' \in 0 .. MaxFailures
           /\ snoozeFailures \in 0 .. MaxFailures /\ snoozeChanges \in 0 .. MaxChanges
           /\ ErrorBackoff \in Nat
BY MomentsFacts DEF SnoozesInv, SnoozesTypeOK, SnoozeFault, Times, Moments

LEMMA ChangeSnoozeStep ==
    ASSUME SnoozesInv, NEW i \in Items, NEW t \in Times \cup {Never}, ChangeSnooze(i, t)
    PROVE  SnoozesInv'
<1>1. /\ telling' = telling \cup {i[1]} /\ snoozed' = [snoozed EXCEPT ![i] = t]
      /\ UNCHANGED <<today, snoozer, snoozeWake, snoozeFailures>>
      /\ snoozeChanges' \in 0 .. MaxChanges /\ i[1] \in Users
  BY MomentsFacts DEF ChangeSnooze, SnoozesInv, SnoozesTypeOK, Items
<1>2. SnoozesTypeOK'
  BY <1>1 DEF SnoozesInv, SnoozesTypeOK
<1>3. \A u \in Users \ telling' : \A j \in Of(u) : snoozed'[j] = snoozed[j]
  BY <1>1 DEF Of, SnoozesInv, SnoozesTypeOK
<1>4. SnoozesCovered'
  BY <1>1, <1>3 DEF SnoozesInv, SnoozesCovered, SnoozedFrom
<1> QED  BY <1>1, <1>2, <1>4 DEF SnoozesInv

LEMMA TellSnoozerStep ==
    ASSUME SnoozesInv, NEW u \in Users, TellSnoozer(u)
    PROVE  SnoozesInv'
BY DEF TellSnoozer, SnoozesInv, SnoozesTypeOK, SnoozesCovered

LEMMA BeginSnoozeStep ==
    ASSUME SnoozesInv, BeginSnoozePass
    PROVE  SnoozesInv'
<1>1. /\ UNCHANGED <<today, snoozed, telling, snoozeChanges>> /\ snoozeWake' \in BOOLEAN
      /\ snoozeFailures' \in 0 .. MaxFailures
  BY SnoozeFacts DEF BeginSnoozePass, SnoozesInv, SnoozesTypeOK
<1>2. /\ snoozer' \in LoopType /\ snoozer'.pc = "pass"
      /\ snoozer'.failed \/ snoozer'.todo = Users
  <2>1. CASE snoozer' = PassOver(Users, FALSE)
    BY <2>1, PassOverFields
  <2>2. CASE snoozer' = PassOver({}, TRUE)
    BY <2>2, PassOverFields
  <2> QED  BY <2>1, <2>2 DEF BeginSnoozePass
<1>3. SnoozesTypeOK'
  BY <1>1, <1>2 DEF SnoozesInv, SnoozesTypeOK
<1>4. SnoozesCovered'
  BY <1>2 DEF SnoozesCovered
<1> QED  BY <1>2, <1>3, <1>4 DEF SnoozesInv

(* The pass is done with a user, and remembers the earliest of what is left. *)
LEMMA RecordSnoozesStep ==
    ASSUME SnoozesInv, NEW u \in Users, RecordSnoozes(u) \/ RecordSnoozesFails(u)
    PROVE  SnoozesInv'
<1>1. /\ snoozer.pc = "pass" /\ u \in snoozer.todo
      /\ UNCHANGED <<today, snoozeWake, telling, snoozeChanges>>
      /\ snoozeFailures' \in 0 .. MaxFailures
  BY SnoozeFacts DEF RecordSnoozes, RecordSnoozesFails
<1>2. /\ snoozed' \in [Items -> Times \cup {Never}]
      /\ \A i \in Items : i \notin Of(u) => snoozed'[i] = snoozed[i]
  <2>1. CASE snoozed' = snoozed
    BY <2>1 DEF SnoozesInv, SnoozesTypeOK
  <2>2. ASSUME NEW B \in Batches(DueSnoozes(u)),
               snoozed' = [i \in Items |-> IF i \in B THEN Never ELSE snoozed[i]]
        PROVE  /\ snoozed' \in [Items -> Times \cup {Never}]
               /\ \A i \in Items : i \notin Of(u) => snoozed'[i] = snoozed[i]
    <3>1. B \subseteq Of(u)
      BY DEF Batches, DueSnoozes
    <3> QED  BY <2>2, <3>1 DEF SnoozesInv, SnoozesTypeOK
  <2> QED  BY <2>1, <2>2 DEF RecordSnoozes, RecordSnoozesFails
<1> DEFINE t == Earliest({snoozed'[i] : i \in Of(u)})
<1>3. /\ t \in Moments /\ \A i \in Of(u) : t <= snoozed'[i]
  <2>1. {snoozed'[i] : i \in Of(u)} \subseteq Moments
    BY <1>2 DEF Of, Moments
  <2> QED  BY <2>1, EarliestIsLeast
<1>4. snoozer' = Failed(snoozer, u) \/ snoozer' = Done(snoozer, u, t)
  BY DEF RecordSnoozes, RecordSnoozesFails
<1> HIDE DEF t
<1>5. /\ snoozer' \in LoopType /\ snoozer'.pc = "pass" /\ snoozer'.todo = snoozer.todo \ {u}
      /\ ~snoozer'.failed => /\ ~snoozer.failed /\ snoozer'.ahead \in Nat
                             /\ snoozer'.ahead <= snoozer.ahead /\ snoozer'.ahead <= t
  <2>1. CASE snoozer' = Failed(snoozer, u)
    BY <1>1, <2>1, FailedFields, SnoozeFacts
  <2>2. CASE snoozer' = Done(snoozer, u, t)
    BY <1>1, <1>3, <2>2, DoneFields, SnoozeFacts
  <2> QED  BY <1>4, <2>1, <2>2
<1>6. SnoozesTypeOK'
  BY <1>1, <1>2, <1>5 DEF SnoozesInv, SnoozesTypeOK
<1>7. ASSUME NEW v \in Users \ telling, ~snoozeWake, ~snoozer'.failed, v \notin snoozer'.todo, NEW i \in Of(v)
      PROVE  snoozed'[i] >= snoozer'.ahead
  <2>1. i \in Items /\ snoozed'[i] \in Nat /\ snoozed[i] \in Nat /\ snoozer.ahead \in Nat /\ t \in Nat
    BY <1>2, <1>3, SnoozeFacts, MomentsFacts, LoopFields DEF Of, Moments
  <2>2. CASE v = u
    BY <1>3, <1>5, <1>7, <2>1, <2>2
  <2>3. CASE v # u
    <3>1. snoozed'[i] = snoozed[i]
      BY <1>2, <2>1, <2>3 DEF Of
    <3>2. snoozed[i] >= snoozer.ahead
      BY <1>1, <1>5, <1>7, <2>3 DEF SnoozesInv, SnoozesCovered, SnoozedFrom
    <3> QED  BY <1>5, <1>7, <2>1, <3>1, <3>2
  <2> QED  BY <2>2, <2>3
<1>8. SnoozesCovered'
  BY <1>1, <1>5, <1>7 DEF SnoozesCovered, SnoozedFrom
<1> QED  BY <1>5, <1>6, <1>8 DEF SnoozesInv

(* The sleep ends no later than what the pass left ahead. *)
LEMMA EndSnoozeStep ==
    ASSUME SnoozesInv, EndSnoozePass
    PROVE  SnoozesInv'
<1> DEFINE t == today + SnoozeDelay(snoozer)
<1>1. /\ snoozer.pc = "pass" /\ snoozer.todo = {} /\ snoozer' = SleepsTill(snoozer, t)
      /\ UNCHANGED <<today, snoozed, snoozeWake, telling, snoozeChanges, snoozeFailures>>
  BY DEF EndSnoozePass
<1>2. /\ today \in Times /\ today \in Nat /\ snoozer.ahead \in Moments /\ snoozer.ahead \in 0 .. Never
      /\ snoozer.failed \in BOOLEAN /\ snoozer.ahead \in Nat
  BY SnoozeFacts, LoopFields, MomentsFacts
<1>3. /\ t \in 0 .. Never
      /\ snoozer.failed => t <= today + ErrorBackoff
      /\ ~snoozer.failed => t <= today \/ t <= snoozer.ahead
  <2>1. CASE snoozer.failed
    BY <1>2, <2>1, MomentsFacts DEF SnoozeDelay
  <2>2. CASE ~snoozer.failed /\ snoozer.ahead # Never /\ snoozer.ahead > today
    BY <1>2, <2>2, MomentsFacts DEF SnoozeDelay
  <2>3. CASE ~snoozer.failed /\ snoozer.ahead # Never /\ ~(snoozer.ahead > today)
    BY <1>2, <2>3, MomentsFacts DEF SnoozeDelay, Times
  <2>4. CASE ~snoozer.failed /\ snoozer.ahead = Never
    BY <1>2, <2>4, MomentsFacts DEF SnoozeDelay
  <2> QED  BY <2>1, <2>2, <2>3, <2>4
<1> HIDE DEF t
<1>4. /\ snoozer' \in LoopType /\ snoozer'.pc = "asleep" /\ snoozer'.timer = t /\ snoozer'.todo = {}
      /\ snoozer'.failed = snoozer.failed
  BY <1>1, <1>3, SleepsFields, SnoozeFacts
<1>5. SnoozesTypeOK'
  BY <1>1, <1>4 DEF SnoozesInv, SnoozesTypeOK
<1>6. ASSUME NEW u \in Users \ telling, ~snoozeWake, ~snoozer.failed
      PROVE  t <= today \/ SnoozedFrom(u, t)
  <2>1. SnoozedFrom(u, snoozer.ahead)
    BY <1>1, <1>6 DEF SnoozesInv, SnoozesCovered
  <2>2. \A i \in Of(u) : snoozed[i] \in Nat
    BY SnoozeFacts DEF Of
  <2> QED  BY <1>2, <1>3, <1>6, <2>1, <2>2 DEF SnoozedFrom
<1>7. SnoozesCovered'
  BY <1>1, <1>4, <1>6 DEF SnoozesCovered, SnoozedFrom
<1> QED  BY <1>1, <1>3, <1>4, <1>5, <1>7 DEF SnoozesInv

LEMMA SnoozerRunsStep ==
    ASSUME SnoozesInv, StopSnoozer \/ StartSnoozer
    PROVE  SnoozesInv'
<1>1. CASE StopSnoozer
  <2>1. /\ snoozer' = Down /\ UNCHANGED <<today, snoozed, snoozeChanges>> /\ snoozeWake' = FALSE
        /\ telling' = {} /\ snoozeFailures' \in 0 .. MaxFailures
    BY <1>1, SnoozeFacts DEF StopSnoozer
  <2> QED  BY <2>1, DownFields DEF SnoozesInv, SnoozesTypeOK, SnoozesCovered
<1>2. CASE StartSnoozer
  <2>1. snoozer' = Started(today) /\ UNCHANGED <<today, snoozed, snoozeWake, telling, snoozeChanges, snoozeFailures>>
    BY <1>2 DEF StartSnoozer
  <2>2. today \in 0 .. Never /\ today \in Nat
    BY SnoozeFacts, MomentsFacts DEF Moments
  <2>3. /\ snoozer' \in LoopType /\ snoozer'.pc = "asleep" /\ snoozer'.timer = today
        /\ snoozer'.todo = {} /\ ~snoozer'.failed
    BY <2>1, <2>2, StartedFields
  <2>4. SnoozesTypeOK'
    BY <2>1, <2>3 DEF SnoozesInv, SnoozesTypeOK
  <2>5. SnoozesCovered'
    BY <2>1, <2>2, <2>3 DEF SnoozesCovered
  <2> QED  BY <2>3, <2>4, <2>5 DEF SnoozesInv
<1> QED  BY <1>1, <1>2

LEMMA SnoozeTimeStep ==
    ASSUME SnoozesInv, SnoozeTimePasses
    PROVE  SnoozesInv'
<1>1. /\ today < Horizon /\ today' = today + 1
      /\ snoozer.pc = "down" \/ (snoozer.pc = "asleep" /\ snoozer.timer > today)
      /\ UNCHANGED <<snoozed, snoozer, snoozeWake, telling, snoozeChanges, snoozeFailures>>
  BY DEF SnoozeTimePasses, Quiet
<1>2. today \in Nat /\ snoozer.timer \in Nat /\ today' \in Times /\ ErrorBackoff \in Nat
  BY <1>1, SnoozeFacts, LoopFields, MomentsFacts DEF Times
<1>3. SnoozesTypeOK'
  BY <1>1, <1>2 DEF SnoozesInv, SnoozesTypeOK
<1>4. SnoozesCovered'
  BY <1>1, <1>2 DEF SnoozesInv, SnoozesCovered, SnoozedFrom
<1> QED  BY <1>1, <1>2, <1>3, <1>4 DEF SnoozesInv

LEMMA SnoozesInitInv == SnoozesInit => SnoozesInv
<1> SUFFICES ASSUME SnoozesInit PROVE SnoozesInv
  OBVIOUS
<1>1. /\ snoozer = Started(0) /\ today = 0 /\ 0 \in 0 .. Never
  BY MomentsFacts DEF SnoozesInit
<1>2. snoozer \in LoopType /\ snoozer.timer = 0 /\ snoozer.todo = {} /\ snoozer.failed = FALSE /\ snoozer.pc = "asleep"
  BY <1>1, StartedFields
<1>3. SnoozesTypeOK
  <2>1. snoozed \in [Items -> Times \cup {Never}]
    BY DEF SnoozesInit
  <2>2. today \in Times /\ snoozeChanges \in 0 .. MaxChanges /\ snoozeFailures \in 0 .. MaxFailures
    BY MomentsFacts DEF SnoozesInit
  <2>3. snoozeWake \in BOOLEAN /\ telling = {}
    BY DEF SnoozesInit
  <2> QED  BY <1>2, <2>1, <2>2, <2>3 DEF SnoozesTypeOK
<1> QED  BY <1>1, <1>2, <1>3 DEF SnoozesInv, SnoozesCovered

LEMMA SnoozesStep == SnoozesInv /\ [SnoozesNext]_snoozeVars => SnoozesInv'
<1> SUFFICES ASSUME SnoozesInv, [SnoozesNext]_snoozeVars PROVE SnoozesInv'
  OBVIOUS
<1>1. CASE UNCHANGED snoozeVars
  BY <1>1 DEF snoozeVars, SnoozesInv, SnoozesTypeOK, SnoozesCovered, SnoozedFrom
<1> QED  BY <1>1, ChangeSnoozeStep, TellSnoozerStep, BeginSnoozeStep, RecordSnoozesStep, EndSnoozeStep,
            SnoozerRunsStep, SnoozeTimeStep DEF SnoozesNext

LEMMA SnoozesInvHolds == SnoozesSpec => []SnoozesInv
BY SnoozesInitInv, SnoozesStep, PTL DEF SnoozesSpec

(* Type correctness of the snoozes and their loop. *)
THEOREM SnoozesTyped == SnoozesSpec => []SnoozesTypeOK
<1>1. SnoozesInv => SnoozesTypeOK
  BY DEF SnoozesInv
<1> QED  BY <1>1, SnoozesInvHolds, PTL

(* The loop never sleeps while a conversation whose snooze a handler has told *)
(* of is due, unless it is about to try again after an error.                 *)
THEOREM SnoozesRemindedOnTime == SnoozesSpec => SnoozesOnTime
<1>1. ASSUME SnoozesInv, [SnoozesNext]_snoozeVars
      PROVE  [ today' # today /\ snoozer.pc # "down" =>
                 \/ TriesAgain(snoozer, today)
                 \/ \A u \in Users \ telling : DueSnoozes(u) = {} ]_snoozeVars
  <2> SUFFICES ASSUME today' # today, snoozer.pc # "down", ~TriesAgain(snoozer, today),
                      NEW u \in Users \ telling, NEW i \in Of(u), snoozed[i] <= today
               PROVE  FALSE
    BY DEF DueSnoozes
  <2>1. SnoozeTimePasses
    BY <1>1 DEF SnoozesNext, snoozeVars, ChangeSnooze, TellSnoozer, RecordSnoozes, RecordSnoozesFails,
                BeginSnoozePass, EndSnoozePass, StopSnoozer, StartSnoozer
  <2>2. snoozer.pc = "asleep" /\ ~snoozeWake /\ snoozer.timer > today
    BY <2>1 DEF SnoozeTimePasses, Quiet
  <2>3. today \in Nat /\ snoozer.timer \in Nat /\ snoozed[i] \in Nat
    BY <1>1, SnoozeFacts, LoopFields DEF Of
  <2>4. ~snoozer.failed
    BY <1>1, <2>2 DEF TriesAgain, SnoozesInv
  <2>5. snoozed[i] >= snoozer.timer
    BY <1>1, <2>2, <2>3, <2>4 DEF SnoozesInv, SnoozesCovered, SnoozedFrom
  <2> QED  BY <2>2, <2>3, <2>5
<1> QED  BY <1>1, SnoozesInvHolds, PTL DEF SnoozesSpec, SnoozesOnTime

-----------------------------------------------------------------------------
(* What is left of a user's reminders lies at b or later, or b has come: the  *)
(* loop looks again at once.                                                  *)
Passed(i) == <<i, fires[i]>> \in recorded \/ fires[i] < now - LateWindow
RemindersFrom(u, b) ==
    b <= now \/ \A i \in Of(u) : waits[i] >= b /\ (fires[i] >= b \/ Passed(i))

(* A user whose last pass went through and whose changes have been handed to  *)
(* the loop, or will not be: nothing has changed since.                       *)
Settled(u) == u \in seen /\ u \notin dirty /\ notifying[u] # "changed"

RemindersCovered ==
    \A u \in Users : Settled(u) =>
        /\ loop.pc # "pass" => RemindersFrom(u, next)
        /\ loop.pc = "pass" /\ full /\ u \notin loop.todo => RemindersFrom(u, loop.ahead)
        /\ loop.pc = "pass" /\ ~full /\ u \notin loop.todo =>
               RemindersFrom(u, next) \/ RemindersFrom(u, loop.ahead)

(* Who is marked and has told the loop so has left it a wake. *)
WakesCome == \A u \in dirty : notifying[u] = "no" => wake

TimerInv ==
    /\ loop.pc = "asleep" /\ loop.failed => loop.timer <= now + ErrorBackoff
    /\ loop.pc = "asleep" /\ ~loop.failed => loop.timer <= now \/ loop.timer <= next

CalendarInv == CalendarTypeOK /\ RemindersCovered /\ WakesCome /\ TimerInv

LEMMA CalendarFacts ==
    ASSUME CalendarInv
    PROVE  /\ now \in Nat /\ now \in Times /\ loop \in LoopType /\ next \in Moments /\ next \in Nat
           /\ \A i \in Items : fires[i] \in Nat /\ waits[i] \in Nat /\ fires[i] \in Moments /\ waits[i] \in Moments
           /\ CalendarFault => failures' \in 0 .. MaxFailures
           /\ failures \in 0 .. MaxFailures /\ changes \in 0 .. MaxChanges
           /\ ErrorBackoff \in Nat /\ LateWindow \in Nat
BY MomentsFacts, LateAssumption DEF CalendarInv, CalendarTypeOK, CalendarFault, Times, Moments

LEMMA OfItems == \A u \in Users : \A i \in Of(u) : i \in Items /\ i[1] = u
BY DEF Of, Items

(* An earlier time is as good a bound. *)
LEMMA FromEarlier ==
    ASSUME CalendarInv, NEW u \in Users, NEW b \in Nat, NEW a \in Nat, a <= b, RemindersFrom(u, b)
    PROVE  RemindersFrom(u, a)
<1>1. now \in Nat /\ \A i \in Of(u) : fires[i] \in Nat /\ waits[i] \in Nat
  BY CalendarFacts, OfItems
<1> QED  BY <1>1 DEF RemindersFrom

LEMMA ChangeCalendarStep ==
    ASSUME CalendarInv, NEW i \in Items, NEW t \in Times \cup {Never}, ChangeCalendar(i, t)
    PROVE  CalendarInv'
<1>1. /\ notifying' = [notifying EXCEPT ![i[1]] = "changed"] /\ i[1] \in Users
      /\ UNCHANGED <<now, recorded, loop, next, full, wake, dirty, failures, seen>>
      /\ changes' \in 0 .. MaxChanges
  BY MomentsFacts DEF ChangeCalendar, CalendarInv, CalendarTypeOK, Items
<1>2. /\ fires' \in [Items -> Times \cup {Never}] /\ waits' \in [Items -> Times \cup {Never}]
      /\ \A j \in Items : j # i => fires'[j] = fires[j] /\ waits'[j] = waits[j]
  BY DEF ChangeCalendar, ChangeEvent, PutOff, CalendarInv, CalendarTypeOK
<1>3. /\ notifying'[i[1]] = "changed"
      /\ \A u \in Users : u # i[1] => notifying'[u] = notifying[u]
      /\ notifying' \in [Users -> {"no", "changed", "marked"}]
  BY <1>1 DEF CalendarInv, CalendarTypeOK
<1>4. CalendarTypeOK'
  BY <1>1, <1>2, <1>3 DEF CalendarInv, CalendarTypeOK
<1>5. ASSUME NEW u \in Users, u # i[1], NEW b, RemindersFrom(u, b) PROVE RemindersFrom(u, b)'
  BY <1>1, <1>2, <1>5, OfItems DEF RemindersFrom, Passed
<1>6. RemindersCovered'
  BY <1>1, <1>3, <1>5 DEF CalendarInv, RemindersCovered, Settled
<1>7. WakesCome'
  BY <1>1, <1>3 DEF CalendarInv, WakesCome
<1>8. TimerInv'
  BY <1>1 DEF CalendarInv, TimerInv
<1> QED  BY <1>4, <1>6, <1>7, <1>8 DEF CalendarInv

(* What is left of the reminders stays as it is. *)
LEMMA SameReminders ==
    ASSUME UNCHANGED <<now, calendar>>, NEW u, NEW b, RemindersFrom(u, b)
    PROVE  RemindersFrom(u, b)'
BY DEF RemindersFrom, Passed, calendar

LEMMA TellStep ==
    ASSUME CalendarInv, NEW u \in Users, MarkDirty(u) \/ Wake(u)
    PROVE  CalendarInv'
<1>1. /\ UNCHANGED <<now, calendar, loop, next, full, changes, failures, seen>>
      /\ fires' = fires /\ waits' = waits /\ recorded' = recorded
  BY DEF MarkDirty, Wake, calendar
<1>2. CASE MarkDirty(u)
  <2>1. /\ notifying' = [notifying EXCEPT ![u] = "marked"] /\ dirty' = dirty \cup {u} /\ wake' = wake
    BY <1>2 DEF MarkDirty
  <2>2. /\ notifying'[u] = "marked" /\ notifying' \in [Users -> {"no", "changed", "marked"}]
        /\ \A v \in Users : v # u => notifying'[v] = notifying[v]
    BY <2>1 DEF CalendarInv, CalendarTypeOK
  <2>3. CalendarTypeOK'
    BY <1>1, <2>1, <2>2 DEF CalendarInv, CalendarTypeOK
  <2>4. RemindersCovered'
    BY <1>1, <2>1, <2>2, SameReminders DEF CalendarInv, RemindersCovered, Settled
  <2>5. WakesCome' /\ TimerInv'
    BY <1>1, <2>1, <2>2 DEF CalendarInv, CalendarTypeOK, WakesCome, TimerInv
  <2> QED  BY <2>3, <2>4, <2>5 DEF CalendarInv
<1>3. CASE Wake(u)
  <2>1. notifying[u] = "marked" /\ notifying' = [notifying EXCEPT ![u] = "no"] /\ dirty' = dirty /\ wake' = TRUE
    BY <1>3 DEF Wake
  <2>2. /\ notifying'[u] = "no" /\ notifying' \in [Users -> {"no", "changed", "marked"}]
        /\ \A v \in Users : v # u => notifying'[v] = notifying[v]
    BY <2>1 DEF CalendarInv, CalendarTypeOK
  <2>3. CalendarTypeOK'
    BY <1>1, <2>1, <2>2 DEF CalendarInv, CalendarTypeOK
  <2>4. RemindersCovered'
    BY <1>1, <2>1, <2>2, SameReminders DEF CalendarInv, RemindersCovered, Settled
  <2>5. WakesCome' /\ TimerInv'
    BY <1>1, <2>1 DEF CalendarInv, WakesCome, TimerInv
  <2> QED  BY <2>3, <2>4, <2>5 DEF CalendarInv
<1> QED  BY <1>2, <1>3

(* A full pass has everybody ahead of it, or forgets everybody; a partial one *)
(* has those who were marked.                                                 *)
LEMMA BeginFullStep ==
    ASSUME CalendarInv, BeginFullPass
    PROVE  CalendarInv'
<1>1. /\ UNCHANGED <<now, calendar, next, told, changes>> /\ full' = TRUE
      /\ failures' \in 0 .. MaxFailures
      /\ \/ loop' = PassOver(Users, FALSE) /\ seen' = seen
         \/ loop' = PassOver({}, TRUE) /\ seen' = {}
  BY CalendarFacts DEF BeginFullPass
<1>2. /\ loop' \in LoopType /\ loop'.pc = "pass" /\ (loop'.todo = Users \/ seen' = {}) /\ seen' \subseteq Users
  <2>1. CASE loop' = PassOver(Users, FALSE) /\ seen' = seen
    BY <2>1, PassOverFields DEF CalendarInv, CalendarTypeOK
  <2>2. CASE loop' = PassOver({}, TRUE) /\ seen' = {}
    BY <2>2, PassOverFields
  <2> QED  BY <1>1, <2>1, <2>2
<1>3. CalendarTypeOK'
  BY <1>1, <1>2 DEF CalendarInv, CalendarTypeOK, calendar, told
<1>4. RemindersCovered'
  BY <1>1, <1>2 DEF RemindersCovered, Settled
<1>5. WakesCome' /\ TimerInv'
  BY <1>1, <1>2 DEF CalendarInv, WakesCome, TimerInv, told
<1> QED  BY <1>3, <1>4, <1>5 DEF CalendarInv

LEMMA BeginPartialStep ==
    ASSUME CalendarInv, BeginPartialPass
    PROVE  CalendarInv'
<1>1. /\ loop.pc = "asleep" /\ wake' = FALSE /\ dirty' = {} /\ full' = FALSE /\ loop' = PassOver(dirty, FALSE)
      /\ UNCHANGED <<now, calendar, next, notifying, changes, failures, seen>>
  BY DEF BeginPartialPass
<1>2. loop' \in LoopType /\ loop'.pc = "pass" /\ loop'.todo = dirty
  BY <1>1, PassOverFields DEF CalendarInv, CalendarTypeOK
<1>3. CalendarTypeOK'
  BY <1>1, <1>2 DEF CalendarInv, CalendarTypeOK, calendar
<1>4. ASSUME NEW u \in Users, Settled(u)', u \notin dirty PROVE RemindersFrom(u, next)'
  <2>1. RemindersFrom(u, next)
    BY <1>1, <1>4 DEF CalendarInv, RemindersCovered, Settled
  <2> QED  BY <1>1, <2>1, SameReminders
<1>5. RemindersCovered'
  BY <1>1, <1>2, <1>4 DEF RemindersCovered
<1>6. WakesCome' /\ TimerInv'
  BY <1>1, <1>2 DEF WakesCome, TimerInv
<1> QED  BY <1>3, <1>5, <1>6 DEF CalendarInv

(* A user's reminders are finitely many; a batch within the limit is all of   *)
(* what is due.                                                               *)
LEMMA OfIsFinite == ASSUME NEW u, NEW S, S \subseteq Of(u) PROVE IsFiniteSet(S)
<1>1. IsFiniteSet(Conversations) /\ IsFiniteSet({u})
  BY ReminderAssumption, FS_Singleton
<1>2. IsFiniteSet({u} \X Conversations)
  BY <1>1, FS_Product
<1>3. S \subseteq {u} \X Conversations
  BY DEF Of, Items
<1> QED  BY <1>2, <1>3, FS_Subset

LEMMA BatchIsAll ==
    ASSUME NEW S, IsFiniteSet(S), NEW B \in Batches(S)
    PROVE  /\ B \subseteq S /\ Cardinality(B) \in Nat /\ Cardinality(B) <= ProcessLimit
           /\ Cardinality(B) # ProcessLimit => B = S
<1>1. B \subseteq S /\ Cardinality(B) = AtMost(ProcessLimit, S)
  BY DEF Batches
<1>2. /\ Cardinality(S) \in Nat /\ Cardinality(B) \in Nat /\ ProcessLimit \in Nat
      /\ Cardinality(B) = Cardinality(S) => B = S
  BY <1>1, FS_CardinalityType, FS_Subset, MomentsFacts
<1> QED  BY <1>1, <1>2 DEF AtMost

(* What a pass over user u records is only added, and what it takes of the    *)
(* reminders put off was due.                                                 *)
RecordsFor(u) ==
    /\ fires' = fires /\ now' = now
    /\ recorded \subseteq recorded' /\ recorded' \subseteq Items \X Times
    /\ waits' \in [Items -> Times \cup {Never}]
    /\ \A i \in Items : waits'[i] = waits[i] \/ i \in Of(u)

LEMMA Recording ==
    ASSUME CalendarInv, NEW u \in Users, NEW B, B \subseteq DueReminders(u), NEW W, W \subseteq DueWaits(u),
           Records(B), waits' = [i \in Items |-> IF i \in W THEN Never ELSE waits[i]],
           fires' = fires, now' = now
    PROVE  RecordsFor(u)
<1>1. ASSUME NEW i \in B PROVE i \in Items /\ fires[i] \in Times
  <2>1. i \in Items /\ fires[i] <= now /\ fires[i] \in Moments /\ now \in Times /\ fires[i] \in Nat
    BY CalendarFacts, OfItems DEF DueReminders
  <2> QED  BY <2>1, MomentsFacts DEF Moments, Times
<1>2. recorded' \subseteq Items \X Times
  BY <1>1 DEF Records, CalendarInv, CalendarTypeOK
<1>3. W \subseteq Of(u)
  BY DEF DueWaits
<1> QED  BY <1>2, <1>3 DEF RecordsFor, Records, CalendarInv, CalendarTypeOK

LEMMA OthersKept ==
    ASSUME CalendarInv, NEW u \in Users, RecordsFor(u), NEW v \in Users, v # u, NEW b, RemindersFrom(v, b)
    PROVE  RemindersFrom(v, b)'
<1>1. \A i \in Of(v) : i \in Items /\ i \notin Of(u)
  BY OfItems
<1>2. \A i \in Of(v) : waits'[i] = waits[i] /\ fires'[i] = fires[i] /\ (Passed(i) => Passed(i)')
  BY <1>1 DEF RecordsFor, Passed
<1> QED  BY <1>2 DEF RemindersFrom, RecordsFor

(* The pass goes on with user u done; t is now the earliest time ahead. *)
LEMMA PassGoesOn ==
    ASSUME CalendarInv, NEW u \in Users, loop.pc = "pass", u \in loop.todo, RecordsFor(u),
           UNCHANGED <<next, full, told, changes>>, failures' \in 0 .. MaxFailures,
           loop' \in LoopType, loop'.pc = "pass", loop'.todo = loop.todo \ {u}, seen' \subseteq seen \cup {u},
           NEW t \in Nat, loop'.ahead = t, t <= loop.ahead, u \in seen' => RemindersFrom(u, t)'
    PROVE  CalendarInv'
<1>1. CalendarTypeOK'
  BY DEF CalendarInv, CalendarTypeOK, RecordsFor, told
<1>2. ASSUME NEW v \in Users, v # u, v \notin loop'.todo, Settled(v)'
      PROVE  \/ RemindersFrom(v, t)'
             \/ ~full /\ RemindersFrom(v, next)'
  <2>1. Settled(v) /\ v \notin loop.todo
    BY <1>2 DEF Settled, told
  <2>2. RemindersFrom(v, loop.ahead) \/ (~full /\ RemindersFrom(v, next))
    BY <2>1 DEF CalendarInv, RemindersCovered, CalendarTypeOK
  <2>3. loop.ahead \in Nat
    BY LoopFields, CalendarFacts
  <2>4. RemindersFrom(v, t) \/ (~full /\ RemindersFrom(v, next))
    BY <2>2, <2>3, FromEarlier
  <2>5. RemindersFrom(v, t) => RemindersFrom(v, t)'
    BY <1>2, OthersKept
  <2>6. RemindersFrom(v, next) => RemindersFrom(v, next)'
    <3> SUFFICES ASSUME RemindersFrom(v, next) PROVE RemindersFrom(v, next)'
      OBVIOUS
    <3>1. PICK c : c = next
      OBVIOUS
    <3>2. RemindersFrom(v, c)'
      BY <1>2, <3>1, OthersKept
    <3> QED  BY <3>1, <3>2 DEF RemindersFrom
  <2> QED  BY <2>4, <2>5, <2>6
<1>3. full \in BOOLEAN /\ full' = full
  BY DEF CalendarInv, CalendarTypeOK
<1>4. ASSUME NEW v \in Users, v \notin loop'.todo, Settled(v)'
      PROVE  \/ RemindersFrom(v, loop.ahead)'
             \/ ~full /\ RemindersFrom(v, next)'
  <2>1. RemindersFrom(v, t)' \/ (~full /\ RemindersFrom(v, next)')
    BY <1>2, <1>4 DEF Settled
  <2>2. RemindersFrom(v, t)' => RemindersFrom(v, loop.ahead)'
    BY DEF RemindersFrom
  <2> QED  BY <2>1, <2>2
<1>5. RemindersCovered'
  BY <1>3, <1>4 DEF RemindersCovered
<1>6. WakesCome' /\ TimerInv'
  BY DEF CalendarInv, WakesCome, TimerInv, told
<1> QED  BY <1>1, <1>5, <1>6 DEF CalendarInv

LEMMA AheadOfMoments ==
    ASSUME CalendarInv, NEW u \in Users
    PROVE  AheadOf(u) \subseteq Moments
BY CalendarFacts, OfItems DEF AheadOf

(* A pass that has gone through leaves nothing before the earliest time it    *)
(* has seen ahead.                                                            *)
LEMMA RecordsAll ==
    ASSUME CalendarInv, NEW u \in Users, Records(DueReminders(u)), fires' = fires, now' = now,
           waits' = [i \in Items |-> IF i \in DueWaits(u) THEN Never ELSE waits[i]],
           NEW t \in Nat, t <= Earliest(AheadOf(u))
    PROVE  RemindersFrom(u, t)'
<1> SUFFICES ASSUME NEW i \in Of(u) PROVE waits'[i] >= t /\ (fires[i] >= t \/ Passed(i)')
  BY DEF RemindersFrom
<1> DEFINE e == Earliest(AheadOf(u))
<1>1. e \in Nat /\ e <= Never /\ \A a \in AheadOf(u) : e <= a
  <2>1. e \in Moments /\ e \in Nat /\ \A a \in AheadOf(u) : e <= a
    BY AheadOfMoments, EarliestIsLeast
  <2> QED  BY <2>1, MomentsFacts
<1>2. t <= e
  OBVIOUS
<1> HIDE DEF e
<1>3. i \in Items /\ waits[i] \in Nat /\ fires[i] \in Nat /\ now \in Nat /\ LateWindow \in Nat /\ Never \in Nat
  BY CalendarFacts, OfItems, MomentsFacts
<1>4. waits'[i] >= t
  <2>1. CASE waits[i] <= now
    BY <1>1, <1>2, <1>3, <2>1 DEF DueWaits
  <2>2. CASE waits[i] > now
    <3>1. waits[i] \in AheadOf(u) /\ i \notin DueWaits(u)
      BY <1>3, <2>2 DEF AheadOf, DueWaits
    <3> QED  BY <1>1, <1>2, <1>3, <3>1
  <2> QED  BY <1>3, <2>1, <2>2
<1>5. fires[i] >= t \/ Passed(i)'
  <2>1. CASE fires[i] > now
    <3>1. fires[i] \in AheadOf(u)
      BY <1>3, <2>1 DEF AheadOf
    <3> QED  BY <1>1, <1>2, <1>3, <3>1
  <2>2. CASE fires[i] <= now
    <3>1. CASE i \in DueReminders(u)
      BY <3>1 DEF Records, Passed
    <3>2. CASE i \notin DueReminders(u)
      <4>1. fires[i] < now - LateWindow \/ <<i, fires[i]>> \in recorded
        BY <1>3, <2>2, <3>2 DEF DueReminders
      <4> QED  BY <4>1 DEF Records, Passed
    <3> QED  BY <3>1, <3>2
  <2> QED  BY <1>3, <2>1, <2>2
<1> QED  BY <1>4, <1>5

LEMMA RecordRemindersStep ==
    ASSUME CalendarInv, NEW u \in Users, RecordReminders(u)
    PROVE  CalendarInv'
<1> DEFINE due == DueReminders(u)
<1>1. PICK B \in Batches(due), W \in SUBSET DueWaits(u) :
          LET left == ProcessLimit - Cardinality(B)
              t    == IF left = 0 THEN now ELSE Earliest(AheadOf(u))
          IN /\ Records(B) /\ Cardinality(W) = AtMost(left, DueWaits(u))
             /\ waits' = [i \in Items |-> IF i \in W THEN Never ELSE waits[i]]
             /\ loop' = Done(loop, u, t)
             /\ seen' = IF left = 0 \/ W = DueWaits(u) THEN seen \cup {u} ELSE seen \ {u}
  BY DEF RecordReminders
<1>2. /\ loop.pc = "pass" /\ u \in loop.todo /\ fires' = fires /\ now' = now
      /\ UNCHANGED <<next, full, told, changes, failures>>
  BY DEF RecordReminders
<1>3. /\ B \subseteq due /\ Cardinality(B) \in Nat /\ ProcessLimit \in Nat
      /\ Cardinality(B) # ProcessLimit => B = due
  <2>1. IsFiniteSet(due)
    BY OfIsFinite DEF DueReminders
  <2> HIDE DEF due
  <2> QED  BY <2>1, BatchIsAll, MomentsFacts
<1> DEFINE left == ProcessLimit - Cardinality(B)
           e    == IF left = 0 THEN now ELSE Earliest(AheadOf(u))
<1>4. RecordsFor(u)
  BY <1>1, <1>2, <1>3, Recording
<1>5. e \in Moments /\ (left = 0 => e = now) /\ (left # 0 => e = Earliest(AheadOf(u)))
  <2>1. now \in Moments
    BY CalendarFacts DEF Moments
  <2>2. Earliest(AheadOf(u)) \in Moments
    BY AheadOfMoments, EarliestIsLeast
  <2> QED  BY <2>1, <2>2
<1>6. loop' = Done(loop, u, e) /\ (left # 0 => B = due)
      /\ seen' \subseteq seen \cup {u} /\ (u \in seen' => left = 0 \/ W = DueWaits(u))
  BY <1>1, <1>3
<1> HIDE DEF left, e
<1> DEFINE t == Done(loop, u, e).ahead
<1>7. /\ loop' \in LoopType /\ loop'.pc = "pass" /\ loop'.todo = loop.todo \ {u}
      /\ t \in Nat /\ loop'.ahead = t /\ t <= loop.ahead /\ t <= e
  BY <1>2, <1>5, <1>6, DoneFields, CalendarFacts
<1>8. PICK a : a = t
  OBVIOUS
<1> HIDE DEF t
<1>9. ASSUME u \in seen' PROVE RemindersFrom(u, a)'
  <2>1. CASE left = 0
    BY <1>2, <1>5, <1>7, <1>8, <2>1, CalendarFacts DEF RemindersFrom
  <2>2. CASE left # 0
    <3>1. Records(DueReminders(u)) /\ W = DueWaits(u)
      BY <1>1, <1>6, <1>9, <2>2
    <3>2. a \in Nat /\ a <= Earliest(AheadOf(u))
      BY <1>5, <1>7, <1>8, <2>2
    <3>3. waits' = [i \in Items |-> IF i \in DueWaits(u) THEN Never ELSE waits[i]]
      BY <1>1, <3>1
    <3> QED  BY <1>2, <3>1, <3>2, <3>3, RecordsAll
  <2> QED  BY <2>1, <2>2
<1>10. failures' \in 0 .. MaxFailures
  BY <1>2, CalendarFacts
<1> QED  BY <1>2, <1>4, <1>6, <1>7, <1>8, <1>9, <1>10, PassGoesOn

LEMMA RecordRemindersFailsStep ==
    ASSUME CalendarInv, NEW u \in Users, RecordRemindersFails(u)
    PROVE  CalendarInv'
<1>1. PICK B \in SUBSET DueReminders(u), W \in SUBSET DueWaits(u) :
          Records(B) /\ waits' = [i \in Items |-> IF i \in W THEN Never ELSE waits[i]]
  BY DEF RecordRemindersFails
<1>2. /\ loop.pc = "pass" /\ u \in loop.todo /\ loop' = Failed(loop, u) /\ seen' = seen \ {u}
      /\ UNCHANGED <<now, fires, next, full, told, changes>> /\ failures' \in 0 .. MaxFailures
  BY CalendarFacts DEF RecordRemindersFails
<1>3. RecordsFor(u)
  BY <1>1, <1>2, Recording
<1>4. /\ loop' \in LoopType /\ loop'.pc = "pass" /\ loop'.todo = loop.todo \ {u}
      /\ loop'.ahead = loop.ahead /\ loop.ahead \in Nat
  BY <1>2, FailedFields, LoopFields, CalendarFacts
<1>5. PICK a : a = loop.ahead
  OBVIOUS
<1> QED  BY <1>2, <1>3, <1>4, <1>5, PassGoesOn

LEMMA ReminderDelayBound ==
    ASSUME CalendarInv, NEW t \in Moments
    PROVE  /\ now + ReminderDelay(t) \in 0 .. Never
           /\ loop.failed => now + ReminderDelay(t) <= now + ErrorBackoff
           /\ ~loop.failed => now + ReminderDelay(t) <= now \/ now + ReminderDelay(t) <= t
<1>1. /\ now \in Times /\ now \in Nat /\ t \in Nat /\ t \in 0 .. Never /\ Never \in Nat
      /\ IdleInterval \in Nat /\ ErrorBackoff \in Nat
      /\ now + IdleInterval <= Never /\ now + ErrorBackoff <= Never
  BY CalendarFacts, MomentsFacts
<1>2. Never \in Nat
  BY MomentsFacts
<1> DEFINE n == Never
<1>3. t = n => now + IdleInterval <= t
  BY <1>1
<1>4. ReminderDelay(t) = IF loop.failed THEN ErrorBackoff
                         ELSE IF t = n \/ t > now + IdleInterval THEN IdleInterval
                         ELSE IF t > now THEN t - now ELSE 0
  BY DEF ReminderDelay
<1>5. t <= n /\ n \in Nat /\ now + IdleInterval <= n /\ now + ErrorBackoff <= n
  BY <1>1
<1> HIDE DEF n
<1>6. now + ReminderDelay(t) \in 0 .. n
  BY <1>1, <1>4, <1>5
<1>7. loop.failed => now + ReminderDelay(t) <= now + ErrorBackoff
  BY <1>1, <1>4
<1>8. ~loop.failed => now + ReminderDelay(t) <= now \/ now + ReminderDelay(t) <= t
  BY <1>1, <1>3, <1>4
<1> QED  BY <1>6, <1>7, <1>8 DEF n

LEMMA NextAfterBound ==
    ASSUME CalendarInv
    PROVE  /\ NextAfter \in Moments /\ NextAfter \in Nat /\ NextAfter <= loop.ahead
           /\ ~full => NextAfter <= next
<1>1. loop.ahead \in Moments /\ next \in Moments /\ loop.ahead \in Nat
  BY CalendarFacts, LoopFields
<1> DEFINE e == Earliest({next, loop.ahead})
<1>2. e \in Moments /\ e \in Nat /\ e <= next /\ e <= loop.ahead
  BY <1>1, EarliestIsLeast
<1> HIDE DEF e
<1>3. NextAfter = IF full THEN loop.ahead ELSE e
  BY DEF NextAfter, e
<1> QED  BY <1>1, <1>2, <1>3

LEMMA EndReminderPassStep ==
    ASSUME CalendarInv, EndReminderPass
    PROVE  CalendarInv'
<1>1. /\ loop.pc = "pass" /\ loop.todo = {} /\ next' = NextAfter /\ full' = FALSE
      /\ UNCHANGED <<now, calendar, told, changes, failures, seen>>
  BY DEF EndReminderPass
<1> DEFINE n == NextAfter
           d == now + ReminderDelay(n)
<1>2. n \in Moments /\ n \in Nat /\ n <= loop.ahead /\ (~full => n <= next) /\ next' = n
  BY <1>1, NextAfterBound
<1>3. /\ d \in 0 .. Never /\ (loop.failed => d <= now + ErrorBackoff)
      /\ (~loop.failed => d <= now \/ d <= n)
  <2> HIDE DEF n
  <2> QED  BY <1>2, ReminderDelayBound
<1>4. loop' = SleepsTill(loop, d)
  BY <1>1, <1>2 DEF EndReminderPass, ReminderDelay
<1> HIDE DEF n, d
<1>5. /\ loop' \in LoopType /\ loop'.pc = "asleep" /\ loop'.timer = d /\ loop'.failed = loop.failed
  BY <1>3, <1>4, SleepsFields, CalendarFacts
<1>6. CalendarTypeOK'
  BY <1>1, <1>2, <1>5 DEF CalendarInv, CalendarTypeOK, calendar, told, Moments
<1>7. ASSUME NEW u \in Users, Settled(u)' PROVE RemindersFrom(u, next)'
  <2>1. Settled(u) /\ u \notin loop.todo
    BY <1>1, <1>7 DEF Settled, told
  <2>2. RemindersFrom(u, loop.ahead) \/ (~full /\ RemindersFrom(u, next))
    BY <1>1, <2>1 DEF CalendarInv, RemindersCovered, CalendarTypeOK
  <2>3. loop.ahead \in Nat /\ next \in Nat
    BY LoopFields, CalendarFacts
  <2>4. RemindersFrom(u, n)
    BY <1>2, <2>2, <2>3, FromEarlier
  <2>5. PICK c : c = n
    OBVIOUS
  <2>6. RemindersFrom(u, c)'
    BY <1>1, <2>4, <2>5, SameReminders
  <2> QED  BY <1>2, <2>5, <2>6 DEF RemindersFrom
<1>8. RemindersCovered'
  BY <1>5, <1>7 DEF RemindersCovered
<1>9. WakesCome' /\ TimerInv'
  BY <1>1, <1>2, <1>3, <1>5 DEF CalendarInv, WakesCome, TimerInv, told
<1> QED  BY <1>6, <1>8, <1>9 DEF CalendarInv

LEMMA LoopRunsStep ==
    ASSUME CalendarInv, StopReminders \/ StartReminders
    PROVE  CalendarInv'
<1>1. CASE StopReminders
  <2>1. /\ loop' = Down /\ next' = Never /\ full' = FALSE /\ wake' = FALSE /\ dirty' = {} /\ seen' = {}
        /\ notifying' = [u \in Users |-> "no"] /\ UNCHANGED <<now, calendar, changes>>
        /\ failures' \in 0 .. MaxFailures
    BY <1>1, CalendarFacts DEF StopReminders
  <2>2. loop' \in LoopType /\ loop'.pc = "down" /\ next' \in Moments
    BY <2>1, DownFields, MomentsFacts
  <2>3. CalendarTypeOK'
    BY <2>1, <2>2 DEF CalendarInv, CalendarTypeOK, calendar, Moments
  <2>4. RemindersCovered' /\ WakesCome' /\ TimerInv'
    BY <2>1, <2>2 DEF RemindersCovered, Settled, WakesCome, TimerInv
  <2> QED  BY <2>3, <2>4 DEF CalendarInv
<1>2. CASE StartReminders
  <2>1. /\ loop.pc = "down" /\ loop' = Started(now)
        /\ UNCHANGED <<now, calendar, next, full, told, changes, failures, seen>>
    BY <1>2 DEF StartReminders
  <2>2. now \in 0 .. Never /\ now \in Nat
    BY CalendarFacts, MomentsFacts DEF Moments
  <2>3. loop' \in LoopType /\ loop'.pc = "asleep" /\ loop'.timer = now /\ loop'.failed = FALSE
    BY <2>1, <2>2, StartedFields
  <2>4. CalendarTypeOK'
    BY <2>1, <2>3 DEF CalendarInv, CalendarTypeOK, calendar, told
  <2>5. ASSUME NEW u \in Users, Settled(u)' PROVE RemindersFrom(u, next)'
    <3>1. RemindersFrom(u, next)
      BY <2>1, <2>5 DEF CalendarInv, RemindersCovered, Settled, told
    <3> QED  BY <2>1, <3>1 DEF RemindersFrom, Passed, calendar
  <2>6. RemindersCovered'
    BY <2>3, <2>5 DEF RemindersCovered
  <2>7. WakesCome' /\ TimerInv'
    BY <2>1, <2>2, <2>3 DEF CalendarInv, WakesCome, TimerInv, told
  <2> QED  BY <2>4, <2>6, <2>7 DEF CalendarInv
<1> QED  BY <1>1, <1>2

LEMMA ReminderTimeStep ==
    ASSUME CalendarInv, ReminderTimePasses
    PROVE  CalendarInv'
<1>1. /\ now < Horizon /\ now' = now + 1 /\ loop.pc # "pass"
      /\ UNCHANGED <<calendar, loop, next, full, told, changes, failures, seen>>
  BY DEF ReminderTimePasses, Quiet
<1>2. now \in Nat /\ now' \in Times /\ next \in Nat /\ LateWindow \in Nat /\ ErrorBackoff \in Nat
  BY <1>1, CalendarFacts, MomentsFacts DEF Times
<1>3. CalendarTypeOK'
  BY <1>1, <1>2 DEF CalendarInv, CalendarTypeOK, calendar, told
<1>4. ASSUME NEW u \in Users, Settled(u)' PROVE RemindersFrom(u, next)'
  <2>1. RemindersFrom(u, next)
    BY <1>1, <1>4 DEF CalendarInv, RemindersCovered, Settled, told
  <2>2. \A i \in Of(u) : fires[i] \in Nat
    BY CalendarFacts, OfItems
  <2>3. \A i \in Of(u) : Passed(i) => Passed(i)'
    BY <1>1, <1>2, <2>2 DEF Passed, calendar
  <2> QED  BY <1>1, <1>2, <2>1, <2>3 DEF RemindersFrom, calendar
<1>5. RemindersCovered'
  BY <1>1, <1>4 DEF RemindersCovered
<1>6. loop.timer \in Nat
  BY CalendarFacts, LoopFields
<1>7. WakesCome' /\ TimerInv'
  BY <1>1, <1>2, <1>6 DEF CalendarInv, WakesCome, TimerInv, told
<1> QED  BY <1>3, <1>5, <1>7 DEF CalendarInv

LEMMA CalendarInitInv == CalendarInit => CalendarInv
<1> SUFFICES ASSUME CalendarInit PROVE CalendarInv
  OBVIOUS
<1>1. 0 \in Times /\ 0 \in 0 .. Never /\ MaxChanges \in Nat /\ MaxFailures \in Nat
  BY MomentsFacts DEF Moments
<1> DEFINE z == 0
<1>2. z \in 0 .. Never
  BY <1>1
<1>3. loop = Started(z)
  BY DEF CalendarInit
<1> HIDE DEF z
<1>4. loop \in LoopType /\ loop.pc = "asleep" /\ loop.timer = z /\ loop.failed = FALSE
  BY <1>2, <1>3, StartedFields
<1>5. notifying \in [Users -> {"no", "changed", "marked"}]
  BY DEF CalendarInit
<1>6. fires \in [Items -> Times \cup {Never}] /\ waits \in [Items -> Times \cup {Never}]
  BY DEF CalendarInit
<1>7. CalendarTypeOK
  <2>1. now \in Times /\ changes \in 0 .. MaxChanges /\ failures \in 0 .. MaxFailures
    BY <1>1 DEF CalendarInit
  <2>2. /\ recorded = {} /\ next = Never /\ full = FALSE /\ wake = FALSE /\ dirty = {} /\ seen = {}
    BY DEF CalendarInit
  <2> QED  BY <1>4, <1>5, <1>6, <2>1, <2>2 DEF CalendarTypeOK
<1>8. RemindersCovered /\ WakesCome /\ TimerInv
  BY <1>4 DEF CalendarInit, RemindersCovered, Settled, WakesCome, TimerInv, z
<1> QED  BY <1>7, <1>8 DEF CalendarInv

LEMMA CalendarStep == CalendarInv /\ [CalendarNext]_calendarVars => CalendarInv'
<1> SUFFICES ASSUME CalendarInv, [CalendarNext]_calendarVars PROVE CalendarInv'
  OBVIOUS
<1>1. CASE UNCHANGED calendarVars
  BY <1>1 DEF calendarVars, calendar, told, CalendarInv, CalendarTypeOK, RemindersCovered, RemindersFrom,
              Settled, Passed, WakesCome, TimerInv
<1> QED  BY <1>1, ChangeCalendarStep, TellStep, BeginFullStep, BeginPartialStep, RecordRemindersStep,
            RecordRemindersFailsStep, EndReminderPassStep, LoopRunsStep, ReminderTimeStep DEF CalendarNext

LEMMA CalendarInvHolds == CalendarSpec => []CalendarInv
BY CalendarInitInv, CalendarStep, PTL DEF CalendarSpec

(* Type correctness of the calendar reminders and their loop. *)
THEOREM CalendarTyped == CalendarSpec => []CalendarTypeOK
<1>1. CalendarInv => CalendarTypeOK
  BY DEF CalendarInv
<1> QED  BY <1>1, CalendarInvHolds, PTL

(* The loop never sleeps past a reminder of a user whose last pass went       *)
(* through, whatever wakes, partial passes and failed passes of other users   *)
(* have come between, unless it is about to try again after an error.         *)
THEOREM RemindersOnTime == CalendarSpec => RemindedOnTime
<1>1. ASSUME CalendarInv, [CalendarNext]_calendarVars
      PROVE  [NotOverslept(seen)]_calendarVars
  <2> SUFFICES ASSUME now' # now, loop.pc # "down", ~TriesAgain(loop, now),
                      NEW u \in seen, notifying[u] = "no"
               PROVE  DueReminders(u) = {} /\ DueWaits(u) = {}
    BY DEF NotOverslept
  <2>1. ReminderTimePasses
    BY <1>1 DEF CalendarNext, calendarVars, ChangeCalendar, MarkDirty, Wake, RecordReminders,
                RecordRemindersFails, BeginFullPass, BeginPartialPass, EndReminderPass, StopReminders, StartReminders
  <2>2. loop.pc = "asleep" /\ ~wake /\ loop.timer > now
    BY <2>1 DEF ReminderTimePasses, Quiet
  <2>3. now \in Nat /\ loop.timer \in Nat /\ next \in Nat /\ u \in Users
    BY <1>1, CalendarFacts, LoopFields DEF CalendarInv, CalendarTypeOK
  <2>4. loop.timer <= next
    BY <1>1, <2>2, <2>3 DEF TriesAgain, CalendarInv, TimerInv
  <2>5. Settled(u)
    BY <1>1, <2>2 DEF Settled, CalendarInv, WakesCome
  <2>6. RemindersFrom(u, next)
    BY <1>1, <2>2, <2>3, <2>5 DEF CalendarInv, RemindersCovered
  <2>7. ASSUME NEW i \in Of(u) PROVE i \notin DueReminders(u) /\ i \notin DueWaits(u)
    <3>1. fires[i] \in Nat /\ waits[i] \in Nat /\ LateWindow \in Nat
      BY <1>1, <2>3, CalendarFacts, OfItems
    <3>2. waits[i] >= next /\ (fires[i] >= next \/ Passed(i))
      BY <2>2, <2>3, <2>4, <2>6 DEF RemindersFrom
    <3> QED  BY <2>2, <2>3, <2>4, <3>1, <3>2 DEF DueReminders, DueWaits, Passed
  <2> QED  BY <2>7 DEF DueReminders, DueWaits
<1> QED  BY <1>1, CalendarInvHolds, PTL DEF CalendarSpec, RemindedOnTime
=============================================================================
