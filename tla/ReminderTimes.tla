----------------------------- MODULE ReminderTimes -----------------------------
(****************************************************************************)
(* What the loops of web/snooze_scheduler.go and                             *)
(* web/calendar_reminder_scheduler.go share: a goroutine that sleeps until a *)
(* timer or a wake, and then makes a pass over users, one after the other.   *)
(* Time is counted in ticks, and a pass takes less than one.                 *)
(****************************************************************************)
EXTENDS Integers, FiniteSets

CONSTANTS
    Users,
    Conversations,  \* those a user snoozes, or the events a user is reminded of
    Horizon,        \* bound: the last tick
    IdleInterval,   \* snoozeSchedulerIdleInterval, calendarReminderIdleInterval
    ErrorBackoff,   \* snoozeSchedulerErrorBackoff, calendarReminderErrorBackoff
    ProcessLimit,   \* snoozeSchedulerProcessLimit, calendarReminderProcessLimit
    MaxChanges,     \* bound: changes to what users are reminded of
    MaxFailures,    \* bound: failed reads and writes, and stops of the server
    MayStop         \* whether the server may be stopped and started again

ASSUME ReminderAssumption ==
    /\ {Horizon, MaxChanges, MaxFailures} \subseteq Nat
    /\ MayStop \in BOOLEAN
    /\ {IdleInterval, ErrorBackoff, ProcessLimit} \subseteq Nat \ {0}
    /\ IsFiniteSet(Conversations)

Times == 0 .. Horizon
Never == Horizon + IdleInterval + ErrorBackoff   \* the zero time.Time

Items == Users \X Conversations
Of(u) == {i \in Items : i[1] = u}

Earliest(S) == CHOOSE t \in S \cup {Never} : \A s \in S \cup {Never} : t <= s

LoopType == [pc : {"down", "asleep", "pass"}, timer : 0 .. Never, todo : SUBSET Users,
             ahead : Times \cup {Never}, failed : BOOLEAN]

Down == [pc |-> "down", timer |-> 0, todo |-> {}, ahead |-> Never, failed |-> FALSE]

(* The loop starts with a timer that fires at once.                           *)
Started(t) == [Down EXCEPT !.pc = "asleep", !.timer = t]

PassOver(users, failed) ==
    [Down EXCEPT !.pc = "pass", !.todo = users, !.failed = failed]

(* The pass has dealt with user u; t is the earliest reminder u has ahead.    *)
Done(loop, u, t)   == [loop EXCEPT !.todo = @ \ {u}, !.ahead = Earliest({@, t})]
Failed(loop, u)    == [loop EXCEPT !.todo = @ \ {u}, !.failed = TRUE]
SleepsTill(loop, t) == [Started(t) EXCEPT !.failed = loop.failed]

(* Some of S, as many as one pass records for a user.                         *)
AtMost(n, S) == IF Cardinality(S) < n THEN Cardinality(S) ELSE n
Batches(S)   == {B \in SUBSET S : Cardinality(B) = AtMost(ProcessLimit, S)}

(* After an error it tries again soon.                                        *)
TriesAgain(loop, t) == loop.failed /\ loop.timer <= t + ErrorBackoff

(* Nothing keeps the loop from sleeping until the next tick.                  *)
Quiet(loop, wake, t) == loop.pc = "down" \/ (loop.pc = "asleep" /\ ~wake /\ loop.timer > t)
===============================================================================
