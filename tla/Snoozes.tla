-------------------------------- MODULE Snoozes --------------------------------
(****************************************************************************)
(* store/snoozes.go and web/snooze_scheduler.go: a conversation snoozed      *)
(* until a time is turned into a reminder when that time has come.  The loop *)
(* looks at every user at each turn; a handler that changed a snooze wakes   *)
(* it by a channel that holds one wake.                                      *)
(****************************************************************************)
EXTENDS ReminderTimes

VARIABLES
    today,         \* the time
    snoozed,       \* message_snoozes not reminded yet: when they are due
    snoozer,       \* the loop
    snoozeWake,    \* snoozeSchedulerWake holds a wake
    telling,       \* users whose snoozes changed and whose handler has not woken the loop
    snoozeChanges, snoozeFailures

snoozeVars == <<today, snoozed, snoozer, snoozeWake, telling, snoozeChanges, snoozeFailures>>

SnoozesTypeOK ==
    /\ today \in Times
    /\ snoozed \in [Items -> Times \cup {Never}]
    /\ snoozer \in LoopType /\ snoozeWake \in BOOLEAN
    /\ telling \subseteq Users
    /\ snoozer.todo # {} => snoozer.pc = "pass"
    /\ snoozeChanges \in 0 .. MaxChanges /\ snoozeFailures \in 0 .. MaxFailures

SnoozesInit ==
    /\ today = 0 /\ snoozed = [i \in Items |-> Never]
    /\ snoozer = Started(0) /\ snoozeWake = FALSE /\ telling = {}
    /\ snoozeChanges = 0 /\ snoozeFailures = 0

SnoozeFault == snoozeFailures < MaxFailures /\ snoozeFailures' = snoozeFailures + 1

DueSnoozes(u) == {i \in Of(u) : snoozed[i] <= today}

-----------------------------------------------------------------------------
(* Handlers *)

(* SnoozeMessage, UnsnoozeMessage and AcknowledgeDueSnoozeForUser change what *)
(* a conversation is snoozed until; a rebuilt folder restores it, maybe late. *)
ChangeSnooze(i, t) ==
    /\ snoozer.pc # "down" /\ i[1] \notin telling
    /\ snoozeChanges < MaxChanges /\ snoozeChanges' = snoozeChanges + 1
    /\ t # snoozed[i]
    /\ snoozed' = [snoozed EXCEPT ![i] = t]
    /\ telling' = telling \cup {i[1]}
    /\ UNCHANGED <<today, snoozer, snoozeWake, snoozeFailures>>

(* Mutated: a wake is lost on a loop that does not listen.                    *)
TellSnoozerMutant(u) ==
    /\ u \in telling
    /\ telling' = telling \ {u}
    /\ snoozeWake' = (snoozer.pc = "asleep")
    /\ UNCHANGED <<today, snoozed, snoozer, snoozeChanges, snoozeFailures>>

(* notifySnoozeStateChanged: a wake that is pending already is as good.       *)
TellSnoozer(u) ==
    /\ u \in telling
    /\ telling' = telling \ {u}
    /\ snoozeWake' = TRUE
    /\ UNCHANGED <<today, snoozed, snoozer, snoozeChanges, snoozeFailures>>

-----------------------------------------------------------------------------
(* The loop *)

(* The timer fires, or a wake is taken, which stops the timer.  The pass is   *)
(* over every user, if they can be listed.                                    *)
BeginSnoozePass ==
    /\ snoozer.pc = "asleep"
    /\ \/ snoozer.timer <= today /\ UNCHANGED snoozeWake
       \/ snoozeWake /\ snoozeWake' = FALSE
    /\ \/ snoozer' = PassOver(Users, FALSE) /\ UNCHANGED snoozeFailures
       \/ snoozer' = PassOver({}, TRUE) /\ SnoozeFault
    /\ UNCHANGED <<today, snoozed, telling, snoozeChanges>>

(* RecordDueSnoozeReminderEvents in one transaction, earliest first, and then *)
(* NextPendingSnoozeDue, which may have been overtaken by a handler.          *)
RecordSnoozes(u) ==
    /\ snoozer.pc = "pass" /\ u \in snoozer.todo
    /\ \E B \in Batches(DueSnoozes(u)) :
          /\ \A i \in B, j \in DueSnoozes(u) \ B : snoozed[i] <= snoozed[j]
          /\ snoozed' = [i \in Items |-> IF i \in B THEN Never ELSE snoozed[i]]
    /\ \/ /\ snoozer' = Done(snoozer, u, Earliest({snoozed'[i] : i \in Of(u)}))
          /\ UNCHANGED snoozeFailures
       \/ snoozer' = Failed(snoozer, u) /\ SnoozeFault
    /\ UNCHANGED <<today, snoozeWake, telling, snoozeChanges>>

RecordSnoozesFails(u) ==
    /\ snoozer.pc = "pass" /\ u \in snoozer.todo
    /\ snoozer' = Failed(snoozer, u) /\ SnoozeFault
    /\ UNCHANGED <<today, snoozed, snoozeWake, telling, snoozeChanges>>

(* How long the loop sleeps after a pass; less than a tick is none.           *)
SnoozeDelay(loop) ==
    IF loop.failed THEN ErrorBackoff
    ELSE IF loop.ahead # Never /\ loop.ahead > today THEN loop.ahead - today
    ELSE IF loop.ahead # Never THEN 0
    ELSE IdleInterval

EndSnoozePass ==
    /\ snoozer.pc = "pass" /\ snoozer.todo = {}
    /\ snoozer' = SleepsTill(snoozer, today + SnoozeDelay(snoozer))
    /\ UNCHANGED <<today, snoozed, snoozeWake, telling, snoozeChanges, snoozeFailures>>

(* Nothing of the loop survives the process.                                  *)
StopSnoozer ==
    /\ MayStop /\ snoozer.pc # "down" /\ SnoozeFault
    /\ snoozer' = Down /\ snoozeWake' = FALSE /\ telling' = {}
    /\ UNCHANGED <<today, snoozed, snoozeChanges>>

StartSnoozer ==
    /\ snoozer.pc = "down"
    /\ snoozer' = Started(today)
    /\ UNCHANGED <<today, snoozed, snoozeWake, telling, snoozeChanges, snoozeFailures>>

SnoozeTimePasses ==
    /\ today < Horizon /\ Quiet(snoozer, snoozeWake, today)
    /\ today' = today + 1
    /\ UNCHANGED <<snoozed, snoozer, snoozeWake, telling, snoozeChanges, snoozeFailures>>

SnoozesNext ==
    \/ \E i \in Items, t \in Times \cup {Never} : ChangeSnooze(i, t)
    \/ \E u \in Users : TellSnoozer(u) \/ RecordSnoozes(u) \/ RecordSnoozesFails(u)
    \/ BeginSnoozePass \/ EndSnoozePass
    \/ StopSnoozer \/ StartSnoozer \/ SnoozeTimePasses

SnoozesSpec == SnoozesInit /\ [][SnoozesNext]_snoozeVars

-----------------------------------------------------------------------------
(* While the server runs, no snoozed conversation is due and not reminded of  *)
(* for longer than it takes to try again after an error, unless the handler   *)
(* that changed it has not told the loop: no wake is lost on a loop at work,  *)
(* and the sleep is computed from what the pass left (snooze_scheduler.go).   *)
SnoozesOnTime ==
    [][ today' # today /\ snoozer.pc # "down" =>
            \/ TriesAgain(snoozer, today)
            \/ \A u \in Users \ telling : DueSnoozes(u) = {} ]_snoozeVars
===============================================================================
