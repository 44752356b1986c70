---------------------------- MODULE InboxArrivals ----------------------------
(****************************************************************************)
(* backend/syncer/arrival.go, arrival_scheduler.go and                       *)
(* backend/store/inbox_arrivals.go, one account: whether a message found in  *)
(* the Inbox is new mail, to be announced, or was moved there from another   *)
(* folder.  A fetched message is held for ten seconds as a pending row; a    *)
(* timer then runs a finalizer that asks the server whether the source of a  *)
(* move is gone, defers what it could not ask about, and turns the rest into *)
(* events.  Evidence of a move is an expunge fingerprint, which lives for    *)
(* fifteen seconds, and for as long as a pending row of its age.             *)
(*                                                                          *)
(* Rows, evidence and the rebuild marker survive a crash; the timer, the     *)
(* finalizer and the sync turn do not.  A transaction is one step.  Time is  *)
(* counted in ticks of five seconds, as what is left until a deadline: timers*)
(* fire on time, and a finalization takes less than a tick.                  *)
(****************************************************************************)
EXTENDS Integers, FiniteSets, FiniteSetsExt

CONSTANTS
    Messages,        \* the Inbox messages, numbered by UID
    Moves,           \* those another client moves in from a folder we mirror
    HoldTime,        \* inboxArrivalHoldDuration in ticks
    EvidenceTime,    \* expungedFingerprintTTL in ticks
    RetryTime,       \* inboxArrivalRetryDelay in ticks
    Batch,           \* maxDueInboxArrivalBatch
    EarlyReconcile,  \* may the source folder be reconciled before the Inbox?
    MaxUncertain,    \* bound: probes that give no answer, in histories without a rebuild
    MaxFaults,       \* bound: database errors in a finalization
    MaxCrashes,      \* bound: crashes of the process
    MaxRebuilds      \* bound: folders that change their UIDVALIDITY, if every probe is answered

ASSUME MessagesAssumption == Messages \subseteq Nat /\ IsFiniteSet(Messages) /\ Moves \subseteq Messages
ASSUME TimesAssumption ==
    /\ {HoldTime, EvidenceTime, RetryTime, Batch} \subseteq Nat \ {0}
    /\ HoldTime < EvidenceTime /\ EvidenceTime < RetryTime
ASSUME LimitsAssumption ==
    EarlyReconcile \in BOOLEAN /\ {MaxUncertain, MaxFaults, MaxCrashes, MaxRebuilds} \subseteq Nat

VARIABLES
    up,          \* the process runs
    turn,        \* of each message: how far the Inbox turn has brought it
    source,      \* of each move: the source's UID is "gone", its row "reconciled"
    row,         \* pending_inbox_arrivals.classification
    left,        \* ticks until available_at
    age,         \* ticks since created_at, up to one beyond EvidenceTime
    evidence,    \* the expunged_message_fingerprints row of the source
    evidenceLeft,\* ticks until its expires_at
    lapsed,      \* moves whose evidence expired before it was used
    due,         \* ticks until the schedule entry's due, Never without entry
    fin,         \* the finalizer
    marker,      \* mailbox_generation_rebuilds: the folder being rebuilt
    restored,    \* rows below the rebuilt Inbox's arrival floor
    rebuilt,     \* a rebuild has ended and not yet rescheduled the timer
    uncertain, faults, crashes, rebuilds

syncVars == <<turn, source>>
rowVars  == <<row, left, age, evidence, evidenceLeft, lapsed>>
rebuildVars == <<marker, restored, rebuilt>>
bounds == <<uncertain, faults, crashes, rebuilds>>
vars == <<up, syncVars, rowVars, due, fin, rebuildVars, bounds>>

Never == RetryTime + 1
Sooner(s, t) == IF s < t THEN s ELSE t
(* Mutated: a countdown runs below zero. *)
CountdownMutant(n) == n - 1

Countdown(n) == IF n > 0 THEN n - 1 ELSE 0
Idle == [pc |-> "idle", cutoff |-> {}, listed |-> {}, absent |-> {},
         unsure |-> {}, next |-> Never, failed |-> FALSE]

Init ==
    /\ up = TRUE
    /\ turn = [m \in Messages |-> "remote"]
    /\ source = [m \in Messages |-> IF m \in Moves THEN "gone" ELSE "none"]
    /\ row = [m \in Messages |-> "none"]
    /\ left = [m \in Messages |-> 0]
    /\ age = [m \in Messages |-> 0]
    /\ evidence = [m \in Messages |-> "none"]
    /\ evidenceLeft = [m \in Messages |-> 0]
    /\ lapsed = {}
    /\ due = Never
    /\ fin = Idle
    /\ marker = "none" /\ restored = {} /\ rebuilt = FALSE
    /\ uncertain = 0 /\ faults = 0 /\ crashes = 0 /\ rebuilds = 0

----------------------------------------------------------------------------
(* pendingInboxArrivalRebuildEligibility: a rebuild of any folder of the     *)
(* account holds the rows back, except new ones of a rebuilt Inbox.          *)
Pending == {m \in Messages : row[m] = "pending"}
Eligible == {m \in Pending : marker = "none" \/ (marker = "inbox" /\ m \notin restored)}

(* ORDER BY available_at, id LIMIT: overdue rows, in the order of their ids. *)
FirstBatch(S) == {m \in S : Cardinality({n \in S : n < m}) < Batch}

(* NextPendingInboxArrivalDue *)
NextDue == Min({Never} \cup {left[m] : m \in Eligible})

(* matchExpungedFingerprintTx: evidence that is fresh, or of the same age as *)
(* the pending row it explains.                                              *)
Explained(m) == evidence[m] \in {"near", "fresh"}

(* pruneArrivalCorrelationRows *)
Pruned(ev) == [m \in Messages |-> IF ev[m] = "expired" THEN "none" ELSE ev[m]]

(* recordExpungedMessageFingerprintTx: a row already there, even an expired  *)
(* one, is left as it is (ON CONFLICT DO NOTHING).                           *)
Recorded(S) ==
    LET new == {m \in S : evidence[m] = "none"} IN
    /\ evidence' = [m \in Messages |->
         IF m \notin new THEN evidence[m]
         ELSE IF row[m] = "pending" /\ age[m] <= EvidenceTime THEN "near" ELSE "fresh"]
    /\ evidenceLeft' = [m \in Messages |-> IF m \in new THEN EvidenceTime ELSE evidenceLeft[m]]
    /\ UNCHANGED lapsed

----------------------------------------------------------------------------
(* The Inbox turn takes the messages in the order of their UIDs.  Its        *)
(* checkpoint moves past a message only after its arrival was recorded, so   *)
(* that a turn cut short meets the message again (and finds it stored).      *)
Store(m) ==
    /\ up /\ turn[m] = "remote"
    /\ \A n \in Messages : n < m => turn[n] = "done"
    /\ turn' = [turn EXCEPT ![m] = "stored"]
    /\ UNCHANGED <<up, source, rowVars, due, fin, rebuildVars, bounds>>

(* Mutated: the upsert resets the classification without its CASE. *)
HoldMutant(m) ==
    /\ up /\ turn[m] = "stored"
    /\ LET moved == Explained(m)
       IN /\ row' = [row EXCEPT ![m] = IF moved THEN "moved" ELSE "pending"]
          /\ evidence' = IF moved THEN [Pruned(evidence) EXCEPT ![m] = "used"] ELSE Pruned(evidence)
    /\ left' = [left EXCEPT ![m] = IF row[m] = "none" THEN HoldTime ELSE @]
    /\ turn' = [turn EXCEPT ![m] = IF row'[m] = "pending" THEN "held" ELSE "recorded"]
    /\ UNCHANGED <<up, source, age, evidenceLeft, lapsed, due, fin, rebuildVars, bounds>>

(* HoldOrClassifyInboxArrival: one transaction prunes, matches the evidence, *)
(* and inserts the row or refreshes it if it is still pending.               *)
Hold(m) ==
    /\ up /\ turn[m] = "stored"
    /\ LET open == row[m] \in {"none", "pending"}
           moved == open /\ Explained(m)
       IN /\ row' = [row EXCEPT ![m] = IF moved THEN "moved" ELSE IF open THEN "pending" ELSE @]
          /\ evidence' = IF moved THEN [Pruned(evidence) EXCEPT ![m] = "used"] ELSE Pruned(evidence)
    /\ left' = [left EXCEPT ![m] = IF row[m] = "none" THEN HoldTime ELSE @]
    /\ turn' = [turn EXCEPT ![m] = IF row'[m] = "pending" THEN "held" ELSE "recorded"]
    /\ UNCHANGED <<up, source, age, evidenceLeft, lapsed, due, fin, rebuildVars, bounds>>

(* Runner.ScheduleInboxArrival: the entry keeps its earliest deadline.  While*)
(* the finalizer runs only the deadline is noted, and armed when it is done. *)
ScheduleInboxArrival(m) ==
    /\ up /\ turn[m] = "held"
    /\ due' = Sooner(left[m], due)
    /\ turn' = [turn EXCEPT ![m] = "recorded"]
    /\ UNCHANGED <<up, source, rowVars, fin, rebuildVars, bounds>>

(* UpdateMailboxLastUIDForGeneration, *)
Checkpoint(m) ==
    /\ up /\ turn[m] = "recorded"
    /\ turn' = [turn EXCEPT ![m] = "done"]
    /\ UNCHANGED <<up, source, rowVars, due, fin, rebuildVars, bounds>>

(* or the turn ends before it (an error, a pause, a shutdown of the turn).   *)
CutShort(m) ==
    /\ up /\ turn[m] = "recorded" /\ faults < MaxFaults
    /\ turn' = [turn EXCEPT ![m] = "stored"]
    /\ faults' = faults + 1
    /\ UNCHANGED <<up, source, rowVars, due, fin, rebuildVars, uncertain, crashes, rebuilds>>

(* DeleteMessagesMissingUIDsAndRecordExpunges in a turn of the source folder.*)
Reconcile(m) ==
    /\ up /\ source[m] = "gone"
    /\ EarlyReconcile \/ row[m] # "none"
    /\ source' = [source EXCEPT ![m] = "reconciled"]
    /\ Recorded({m})
    /\ UNCHANGED <<up, turn, row, left, age, due, fin, rebuildVars, bounds>>

----------------------------------------------------------------------------
(* inboxArrivalScheduler.fire, up to the call of the finalizer.              *)
Fire ==
    /\ up /\ due = 0 /\ fin.pc = "idle"
    /\ due' = Never
    /\ fin' = [Idle EXCEPT !.pc = "list", !.cutoff = {m \in Pending : left[m] = 0}]
    /\ UNCHANGED <<up, syncVars, rowVars, rebuildVars, bounds>>

(* ListDueInboxArrivals *)
ListDue ==
    /\ fin.pc = "list"
    /\ LET listed == FirstBatch(Eligible \cap fin.cutoff)
       IN fin' = [fin EXCEPT !.listed = listed, !.pc = IF listed = {} THEN "commit" ELSE "probe"]
    /\ UNCHANGED <<up, syncVars, rowVars, due, rebuildVars, bounds>>

(* probeExternalInboxMoves: ListPotentialMoveSources, then one question per  *)
(* folder.  A source whose row is gone is no candidate; any question, and    *)
(* the whole probe, may go without answer.                                   *)
ProbeMoves ==
    /\ fin.pc = "probe"
    /\ \E unsure \in SUBSET fin.listed :
         /\ uncertain + Cardinality(unsure) <= MaxUncertain
         /\ unsure # {} => rebuilds = 0
         /\ uncertain' = uncertain + Cardinality(unsure)
         /\ fin' = [fin EXCEPT !.unsure = unsure, !.pc = "record",
                      !.absent = {m \in fin.listed \ unsure : source[m] = "gone"}]
    /\ UNCHANGED <<up, syncVars, rowVars, due, rebuildVars, faults, crashes, rebuilds>>

(* RecordExpungedMessageFingerprint for each absent source in turn.  It      *)
(* fails on a source whose row the reconciliation has deleted meanwhile.     *)
RecordAbsent ==
    /\ fin.pc = "record"
    /\ LET missing == {m \in fin.absent : source[m] = "reconciled"} IN
       /\ Recorded({m \in fin.absent : \A n \in missing : m < n})
       /\ fin' = IF missing = {} THEN [fin EXCEPT !.pc = "defer"]
                                 ELSE [fin EXCEPT !.pc = "end", !.failed = TRUE]
    /\ UNCHANGED <<up, syncVars, row, left, age, due, rebuildVars, bounds>>

(* DeferPendingInboxArrivalProbes *)
DeferUnsure ==
    /\ fin.pc = "defer"
    /\ left' = [m \in Messages |-> IF m \in fin.unsure \cap Pending THEN RetryTime ELSE left[m]]
    /\ fin' = [fin EXCEPT !.pc = "commit"]
    /\ UNCHANGED <<up, syncVars, row, age, evidence, evidenceLeft, lapsed, due, rebuildVars, bounds>>

(* Mutated: the due rows are announced without the recheck. *)
FinalizeDueMutant ==
    /\ fin.pc = "commit"
    /\ LET now == FirstBatch({m \in Eligible \cap fin.cutoff : left[m] = 0})
       IN row' = [m \in Messages |-> IF m \in now THEN "delivery" ELSE row[m]]
    /\ evidence' = Pruned(evidence)
    /\ fin' = [fin EXCEPT !.pc = "next"]
    /\ UNCHANGED <<up, syncVars, left, age, evidenceLeft, lapsed, due, rebuildVars, bounds>>

(* FinalizeDueInboxArrivals: prunes, selects the due rows again, and decides *)
(* each; a row nothing explains becomes a delivery with its event.           *)
FinalizeDue ==
    /\ fin.pc = "commit"
    /\ LET now == FirstBatch({m \in Eligible \cap fin.cutoff : left[m] = 0})
           moved == {m \in now : Explained(m)}
       IN /\ row' = [m \in Messages |-> IF m \in moved THEN "moved"
                                        ELSE IF m \in now THEN "delivery" ELSE row[m]]
          /\ evidence' = [m \in Messages |-> IF m \in moved THEN "used" ELSE Pruned(evidence)[m]]
    /\ fin' = [fin EXCEPT !.pc = "next"]
    /\ UNCHANGED <<up, syncVars, left, age, evidenceLeft, lapsed, due, rebuildVars, bounds>>

(* NextPendingInboxArrivalDue at the end of the finalization. *)
ReadNext ==
    /\ fin.pc = "next"
    /\ fin' = [fin EXCEPT !.pc = "end", !.next = NextDue]
    /\ UNCHANGED <<up, syncVars, rowVars, due, rebuildVars, bounds>>

(* Any of the transactions may fail, and ends the finalization.              *)
Fail ==
    /\ fin.pc \in {"list", "record", "defer", "commit", "next"} /\ faults < MaxFaults
    /\ faults' = faults + 1
    /\ fin' = [fin EXCEPT !.pc = "end", !.failed = TRUE]
    /\ UNCHANGED <<up, syncVars, rowVars, due, rebuildVars, uncertain, crashes, rebuilds>>

(* Mutated: a deadline scheduled during the finalization is overwritten. *)
RearmMutant ==
    /\ fin.pc = "end"
    /\ due' = IF fin.failed THEN RetryTime ELSE fin.next
    /\ fin' = [Idle EXCEPT !.failed = fin.failed]
    /\ UNCHANGED <<up, syncVars, rowVars, rebuildVars, bounds>>

(* The rest of fire: the sooner of what was scheduled meanwhile and of the   *)
(* next deadline (of a retry after an error) is armed.                       *)
Rearm ==
    /\ fin.pc = "end"
    /\ due' = Sooner(due, IF fin.failed THEN RetryTime ELSE fin.next)
    /\ fin' = [Idle EXCEPT !.failed = fin.failed]
    /\ UNCHANGED <<up, syncVars, rowVars, rebuildVars, bounds>>

----------------------------------------------------------------------------
(* A folder's UIDVALIDITY changes between two turns: its messages are fetched*)
(* again, and the states of those known before are restored.                 *)
StartRebuild ==
    /\ up /\ marker = "none" /\ ~rebuilt /\ rebuilds < MaxRebuilds /\ uncertain = 0
    /\ \A m \in Messages : turn[m] \in {"remote", "done"}
    /\ marker' \in {"inbox", "source"}
    /\ restored' = {m \in Messages : row[m] # "none"}
    /\ rebuilds' = rebuilds + 1
    /\ UNCHANGED <<up, syncVars, rowVars, due, fin, rebuilt, uncertain, faults, crashes>>

(* FinalizeMailboxGenerationRebuild, *)
FinishRebuild ==
    /\ up /\ marker # "none"
    /\ marker' = "none" /\ restored' = {} /\ rebuilt' = TRUE
    /\ UNCHANGED <<up, syncVars, rowVars, due, fin, bounds>>

(* Mutated: only an entry that exists is brought forward. *)
ScheduleRestoredMutant ==
    /\ up /\ rebuilt
    /\ due' = IF due = Never THEN due ELSE Sooner(due, NextDue)
    /\ rebuilt' = FALSE
    /\ UNCHANGED <<up, syncVars, rowVars, fin, marker, restored, bounds>>

(* and the schedule of the rows it held back.                                *)
ScheduleRestored ==
    /\ up /\ rebuilt
    /\ due' = Sooner(due, NextDue)
    /\ rebuilt' = FALSE
    /\ UNCHANGED <<up, syncVars, rowVars, fin, marker, restored, bounds>>

----------------------------------------------------------------------------
Crash ==
    /\ up /\ crashes < MaxCrashes
    /\ up' = FALSE /\ due' = Never /\ fin' = Idle /\ rebuilt' = FALSE
    /\ turn' = [m \in Messages |-> IF turn[m] \in {"held", "recorded"} THEN "stored" ELSE turn[m]]
    /\ crashes' = crashes + 1
    /\ UNCHANGED <<source, rowVars, marker, restored, uncertain, faults, rebuilds>>

(* RecoverPendingInboxArrivals *)
Restart ==
    /\ ~up
    /\ up' = TRUE /\ due' = NextDue
    /\ UNCHANGED <<syncVars, rowVars, fin, rebuildVars, bounds>>

(* Five seconds pass. *)
Tick ==
    /\ due # 0 /\ fin.pc = "idle" /\ ~rebuilt
    /\ \A m \in Messages : turn[m] # "held"
    /\ left' = [m \in Messages |-> Countdown(left[m])]
    /\ age' = [m \in Messages |-> IF row[m] # "none" /\ age[m] <= EvidenceTime THEN age[m] + 1 ELSE age[m]]
    /\ evidenceLeft' = [m \in Messages |-> Countdown(evidenceLeft[m])]
    /\ LET expiring == {m \in Messages : evidence[m] = "fresh" /\ evidenceLeft[m] = 1}
       IN /\ evidence' = [m \in Messages |-> IF m \in expiring THEN "expired" ELSE evidence[m]]
          /\ lapsed' = lapsed \cup expiring
    /\ due' = IF due = Never THEN Never ELSE due - 1
    /\ UNCHANGED <<up, syncVars, row, fin, rebuildVars, bounds>>

Finalizer == Fire \/ ListDue \/ ProbeMoves \/ RecordAbsent \/ DeferUnsure
             \/ FinalizeDue \/ ReadNext \/ Fail \/ Rearm

Next ==
    \/ \E m \in Messages : Store(m) \/ Hold(m) \/ ScheduleInboxArrival(m)
                           \/ Checkpoint(m) \/ CutShort(m) \/ Reconcile(m)
    \/ Finalizer
    \/ StartRebuild \/ FinishRebuild \/ ScheduleRestored
    \/ Crash \/ Restart \/ Tick

Spec == Init /\ [][Next]_vars

(* Timers fire, goroutines run on, the process is restarted, and recovery    *)
(* takes up an unfinished rebuild every thirty seconds until it is done.     *)
Fairness ==
    /\ WF_vars(Finalizer) /\ WF_vars(Tick) /\ WF_vars(Restart)
    /\ WF_vars(FinishRebuild) /\ WF_vars(ScheduleRestored)
    /\ \A m \in Messages : WF_vars(ScheduleInboxArrival(m))
FairSpec == Spec /\ Fairness

----------------------------------------------------------------------------
FinalizerType ==
    [pc : {"idle", "list", "probe", "record", "defer", "commit", "next", "end"},
     cutoff : SUBSET Messages, listed : SUBSET Messages, absent : SUBSET Messages,
     unsure : SUBSET Messages, next : 0..Never, failed : BOOLEAN]

(* The variables have the types their comments say. *)
TypeOK ==
    /\ up \in BOOLEAN
    /\ turn \in [Messages -> {"remote", "stored", "held", "recorded", "done"}]
    /\ source \in [Messages -> {"none", "gone", "reconciled"}]
    /\ row \in [Messages -> {"none", "pending", "moved", "delivery"}]
    /\ left \in [Messages -> 0..RetryTime]
    /\ age \in [Messages -> 0..EvidenceTime + 1]
    /\ evidence \in [Messages -> {"none", "near", "fresh", "expired", "used"}]
    /\ evidenceLeft \in [Messages -> 0..EvidenceTime]
    /\ lapsed \subseteq Moves
    /\ due \in 0..Never
    /\ fin \in FinalizerType
    /\ marker \in {"none", "inbox", "source"}
    /\ restored \subseteq Messages
    /\ rebuilt \in BOOLEAN
    /\ uncertain \in 0..MaxUncertain /\ faults \in 0..MaxFaults
    /\ crashes \in 0..MaxCrashes /\ rebuilds \in 0..MaxRebuilds

(* FinalizePendingInboxArrivals proves a move before it announces the rest:  *)
(* a moved message is announced only if its expunge fingerprint had expired. *)
(* Whatever fails or crashes in between, no row is announced while its       *)
(* source could still have been asked about, or while its evidence stands.   *)
(* A rebuild that ends between the listing and the decision breaks it in the *)
(* way the full batch of run arrivals_batch does.                            *)
AnnouncedUnproved == rebuilds = 0 => \A m \in Moves : row[m] = "delivery" => m \in lapsed

(* No message moved into the Inbox is announced as new mail.                 *)
MovesNotAnnounced == \A m \in Moves : row[m] # "delivery"

(* A decision is final: a message fetched again after a crash or a turn cut  *)
(* short before its checkpoint keeps what it was classified as.              *)
DecidedOnce ==
    [][\A m \in Messages : row[m] \in {"moved", "delivery"} => row'[m] = row[m]]_vars

(* A pending row is always watched: the account's timer is due no later than *)
(* the row (or a retry, if the last finalization failed), or the finalizer,  *)
(* the fetch or the rebuild that will schedule it is still at work.          *)
Watched ==
    \A m \in Eligible :
        \/ ~up \/ rebuilt \/ fin.pc # "idle" \/ turn[m] \in {"stored", "held"}
        \/ due <= left[m]
        \/ fin.failed /\ due <= RetryTime

(* Every message that is held is decided, whatever crashes, fails or is      *)
(* deferred on the way.                                                      *)
Decided == \A m \in Messages : row[m] = "pending" ~> row[m] # "pending"
=============================================================================
