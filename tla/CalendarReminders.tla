--------------------------- MODULE CalendarReminders ---------------------------
(****************************************************************************)
(* store/calendar_reminders.go and web/calendar_reminder_scheduler.go.  The  *)
(* timer makes the loop look at every user; a wake makes it look only at the *)
(* users whose calendars changed, and the sleep that follows rests on what   *)
(* it remembers of the others.                                               *)
(****************************************************************************)
EXTENDS ReminderTimes

CONSTANT LateWindow     \* calendarReminderLateWindow

ASSUME LateAssumption == LateWindow \in Nat

VARIABLES
    now,
    fires,         \* of each event, when its reminder fires: its start and reminders
    recorded,      \* calendar_reminder_events: reminders by event and time
    waits,         \* calendar_reminder_snoozes: when a reminder put off fires
    loop,          \* the goroutine
    next,          \* runCalendarReminderScheduler's next
    full,          \* the pass is over every user
    wake,          \* calendarReminderWake holds a wake
    dirty,         \* calendarReminderDirty
    notifying,     \* of each user, how far a notifyCalendarChanged has come
    changes, failures,
    seen           \* auxiliary: users whose last pass went through

told         == <<wake, dirty, notifying>>
calendar     == <<fires, recorded, waits>>
calendarVars == <<now, calendar, loop, next, full, told, changes, failures, seen>>

CalendarTypeOK ==
    /\ now \in Times
    /\ fires \in [Items -> Times \cup {Never}] /\ waits \in [Items -> Times \cup {Never}]
    /\ recorded \subseteq Items \X Times
    /\ loop \in LoopType /\ next \in Times \cup {Never} /\ full \in BOOLEAN
    /\ wake \in BOOLEAN /\ dirty \subseteq Users /\ seen \subseteq Users
    /\ notifying \in [Users -> {"no", "changed", "marked"}]
    /\ changes \in 0 .. MaxChanges /\ failures \in 0 .. MaxFailures

CalendarInit ==
    /\ now = 0 /\ fires = [i \in Items |-> Never] /\ waits = [i \in Items |-> Never]
    /\ recorded = {} /\ loop = Started(0) /\ next = Never /\ full = FALSE
    /\ wake = FALSE /\ dirty = {} /\ notifying = [u \in Users |-> "no"]
    /\ changes = 0 /\ failures = 0 /\ seen = {}

CalendarFault == failures < MaxFailures /\ failures' = failures + 1

(* Reminders that a pass would record: not yet recorded, and not too late.    *)
DueReminders(u) ==
    {i \in Of(u) : fires[i] <= now /\ fires[i] >= now - LateWindow /\ <<i, fires[i]>> \notin recorded}
DueWaits(u) == {i \in Of(u) : waits[i] <= now}
AheadOf(u)  == {t \in {fires[i] : i \in Of(u)} \cup {waits[i] : i \in Of(u)} : t > now}

-----------------------------------------------------------------------------
(* A calendar changes *)

(* A sync or a handler enters, moves or deletes an event.                     *)
ChangeEvent(i, t) ==
    /\ t # fires[i]
    /\ fires' = [fires EXCEPT ![i] = t]
    /\ waits' = IF t = Never THEN [waits EXCEPT ![i] = Never] ELSE waits

(* SnoozeCalendarReminder; one wait per event.                                *)
PutOff(i, t) ==
    /\ fires[i] # Never /\ t > now /\ t # Never
    /\ waits' = [waits EXCEPT ![i] = t]
    /\ UNCHANGED fires

ChangeCalendar(i, t) ==
    /\ loop.pc # "down" /\ notifying[i[1]] = "no"
    /\ changes < MaxChanges /\ changes' = changes + 1
    /\ ChangeEvent(i, t) \/ PutOff(i, t)
    /\ notifying' = [notifying EXCEPT ![i[1]] = "changed"]
    /\ UNCHANGED <<now, recorded, loop, next, full, wake, dirty, failures, seen>>

(* notifyCalendarChanged: the user is marked under the mutex, and then the    *)
(* loop is woken.                                                             *)
MarkDirty(u) ==
    /\ notifying[u] = "changed"
    /\ notifying' = [notifying EXCEPT ![u] = "marked"] /\ dirty' = dirty \cup {u}
    /\ UNCHANGED <<now, calendar, loop, next, full, wake, changes, failures, seen>>

Wake(u) ==
    /\ notifying[u] = "marked"
    /\ notifying' = [notifying EXCEPT ![u] = "no"] /\ wake' = TRUE
    /\ UNCHANGED <<now, calendar, loop, next, full, dirty, changes, failures, seen>>

-----------------------------------------------------------------------------
(* The loop *)

(* The timer: processDueCalendarReminders, over every user if they can be     *)
(* listed.                                                                    *)
BeginFullPass ==
    /\ loop.pc = "asleep" /\ loop.timer <= now
    /\ full' = TRUE
    /\ \/ /\ loop' = PassOver(Users, FALSE)
          /\ UNCHANGED <<seen, failures>>
       \/ /\ loop' = PassOver({}, TRUE)
          /\ seen' = {} /\ CalendarFault
    /\ UNCHANGED <<now, calendar, next, told, changes>>

(* A wake: the timer is stopped, also if it has just fired, and the pass is   *)
(* over the users takeCalendarReminderDirty hands out.                        *)
BeginPartialPass ==
    /\ loop.pc = "asleep" /\ wake
    /\ wake' = FALSE /\ dirty' = {} /\ full' = FALSE
    /\ loop' = PassOver(dirty, FALSE)
    /\ UNCHANGED <<now, calendar, next, notifying, changes, failures, seen>>

Records(B) == recorded' = recorded \cup {<<i, fires[i]>> : i \in B}

(* RecordDueCalendarReminderEvents for one user: what is due, up to the       *)
(* limit, then the reminders put off that are due, up to what is left of it.  *)
RecordReminders(u) ==
    LET due == DueReminders(u) IN
    /\ loop.pc = "pass" /\ u \in loop.todo
    /\ \E B \in Batches(due) :
          /\ Records(B)
          /\ \E W \in SUBSET DueWaits(u) :
                LET left == ProcessLimit - Cardinality(B)
                    t    == IF left = 0 THEN now ELSE Earliest(AheadOf(u))
                IN /\ Cardinality(W) = AtMost(left, DueWaits(u))
                   /\ waits' = [i \in Items |-> IF i \in W THEN Never ELSE waits[i]]
                   /\ loop' = Done(loop, u, t)
                   /\ seen' = IF left = 0 \/ W = DueWaits(u) THEN seen \cup {u} ELSE seen \ {u}
    /\ UNCHANGED <<now, fires, next, full, told, changes, failures>>

(* A statement of it fails: what it has recorded stays, what it has read of   *)
(* the times ahead is lost.                                                   *)
RecordRemindersFails(u) ==
    /\ loop.pc = "pass" /\ u \in loop.todo /\ CalendarFault
    /\ \E B \in SUBSET DueReminders(u), W \in SUBSET DueWaits(u) :
          /\ Cardinality(B) + Cardinality(W) <= ProcessLimit
          /\ W # {} => B = DueReminders(u)
          /\ Records(B)
          /\ waits' = [i \in Items |-> IF i \in W THEN Never ELSE waits[i]]
    /\ loop' = Failed(loop, u) /\ seen' = seen \ {u}
    /\ UNCHANGED <<now, fires, next, full, told, changes>>

(* Mutated: a partial pass replaces what the last full pass left ahead.        *)
NextAfterMutant == loop.ahead

(* Only a full pass moves next later.                                         *)
NextAfter == IF full THEN loop.ahead ELSE Earliest({next, loop.ahead})

(* How long the loop sleeps with t the next reminder; less than a tick is     *)
(* none.                                                                      *)
ReminderDelay(t) ==
    IF loop.failed THEN ErrorBackoff
    ELSE IF t = Never \/ t > now + IdleInterval THEN IdleInterval
    ELSE IF t > now THEN t - now
    ELSE 0

EndReminderPass ==
    /\ loop.pc = "pass" /\ loop.todo = {}
    /\ next' = NextAfter
    /\ loop' = SleepsTill(loop, now + ReminderDelay(next'))
    /\ full' = FALSE
    /\ UNCHANGED <<now, calendar, told, changes, failures, seen>>

StopReminders ==
    /\ MayStop /\ loop.pc # "down" /\ CalendarFault
    /\ loop' = Down /\ next' = Never /\ full' = FALSE /\ wake' = FALSE /\ dirty' = {} /\ seen' = {}
    /\ notifying' = [u \in Users |-> "no"]
    /\ UNCHANGED <<now, calendar, changes>>

StartReminders ==
    /\ loop.pc = "down"
    /\ loop' = Started(now)
    /\ UNCHANGED <<now, calendar, next, full, told, changes, failures, seen>>

ReminderTimePasses ==
    /\ now < Horizon /\ Quiet(loop, wake, now)
    /\ now' = now + 1
    /\ UNCHANGED <<calendar, loop, next, full, told, changes, failures, seen>>

CalendarNext ==
    \/ \E i \in Items, t \in Times \cup {Never} : ChangeCalendar(i, t)
    \/ \E u \in Users :
          MarkDirty(u) \/ Wake(u) \/ RecordReminders(u) \/ RecordRemindersFails(u)
    \/ BeginFullPass \/ BeginPartialPass \/ EndReminderPass
    \/ StopReminders \/ StartReminders \/ ReminderTimePasses

CalendarSpec == CalendarInit /\ [][CalendarNext]_calendarVars

-----------------------------------------------------------------------------
(* The loop does not sleep past a reminder of users U: time passes only when  *)
(* none is due, but for users whose handler has yet to tell of a change.      *)
NotOverslept(U) ==
    now' # now /\ loop.pc # "down" =>
        \/ TriesAgain(loop, now)
        \/ \A u \in U : notifying[u] = "no" => DueReminders(u) = {} /\ DueWaits(u) = {}

(* A user whose last pass went through is reminded on time, whatever wakes,   *)
(* partial passes and failed passes of others come between                    *)
(* (runCalendarReminderScheduler, takeCalendarReminderDirty).                 *)
RemindedOnTime == [][NotOverslept(seen)]_calendarVars

(* Every user is: a wake's pass "can only pull the timer earlier".            *)
ReminderKept == [][NotOverslept(Users)]_calendarVars
===============================================================================
