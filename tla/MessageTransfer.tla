--------------------------- MODULE MessageTransfer ---------------------------
(****************************************************************************)
(* backend/syncer/move.go, copy.go, transfer_dispatch.go and                 *)
(* backend/store/message_arrival_fingerprints.go: one message, moved or      *)
(* copied by requests of the user to one folder of the IMAP server.  The     *)
(* command is journalled: a row of message_transfers is staged, the dispatch *)
(* is claimed by one caller, and the claim is settled by what the server     *)
(* answered.  An answer that was lost leaves the row pending; the next       *)
(* request asks the server what became of the command before it sends one.   *)
(*                                                                          *)
(* Beside the requests run the sync of the source folder, which drops the    *)
(* local row of a message that has left it, and, when the destination is the *)
(* Inbox, the classification of what arrives there (InboxArrivals).  Each    *)
(* step is a transaction, a question to the server or its answer.            *)
(****************************************************************************)
EXTENDS Integers, Sequences, FiniteSets

CONSTANTS
    Callers,       \* goroutines that serve the user's requests
    LateCommands,  \* may a command nobody waits for run after a later question?
    MaxEvents,     \* bound: lost answers, refusals, panics, crashes, errors, and
                   \* moves of the message by another client
    MaxRows        \* bound: transfers staged, each after the failure of the last

ASSUME LimitsAssumption ==
    LateCommands \in BOOLEAN /\ {MaxEvents, MaxRows} \subseteq Nat

VARIABLES
    kind,      \* "move" or "copy"
    inbox,     \* the destination is the Inbox
    rewrites,  \* the server stores a copy with other bytes than were sent; in the
               \* Inbox, where such a copy is not recognised as one, it does not
    rows,      \* message_transfers rows of this source and destination
    process,   \* processMessageTransferOwner, changed by a restart
    caller,    \* of each caller: where it is, its row, its snapshot, its answer
    mirror,    \* the local row of the source message exists
    here,      \* the server has the message in the source folder
    there,     \* copies of it in the destination, of UIDs 1 .. there
    orphans,   \* commands sent whose caller no longer waits: <<row, attempt>>
    arrival,   \* pending_inbox_arrivals of the message in the Inbox
    evidence,  \* an expunged_message_fingerprints row of the source
    probing,   \* the finalizer has probed the source of the pending arrival
    done,      \* auxiliary: rows whose own command took effect
    faults, others

rowVars     == <<kind, inbox, rewrites, rows>>
serverVars  == <<here, there, orphans, done, others>>
arrivalVars == <<arrival, evidence, probing>>
vars == <<rowVars, process, caller, mirror, serverVars, arrivalVars, faults>>

(* A row of message_transfers and what a caller keeps. *)
TransferRow == [state : {"pending", "succeeded", "consumed", "failed"}, dispatched : BOOLEAN,
                owner : Nat, attempt : Nat, finished : BOOLEAN, stale : BOOLEAN, uid : BOOLEAN,
                next : Nat] \* the destination's UIDNEXT before a copy was dispatched, or 0
Claimed     == {"claimed", "sent", "executed", "settle"}
Request     == [pc : Claimed \cup {"idle", "staged", "surveyed", "bounded", "looked", "reopened",
                                   "complete", "cleanup"},
                id : Nat, seen : TransferRow,
                answer : {"none", "unsent", "refused", "unknown", "moved", "placed", "applied"}]

Staged == [state |-> "pending", dispatched |-> FALSE, owner |-> 0, attempt |-> 0,
           finished |-> FALSE, stale |-> FALSE, uid |-> FALSE, next |-> 0]
AtRest == [pc |-> "idle", id |-> 0, seen |-> Staged, answer |-> "none"]

TypeOK ==
    /\ kind \in {"move", "copy"} /\ inbox \in BOOLEAN /\ rewrites \in {FALSE, kind = "copy" /\ ~inbox}
    /\ rows \in Seq(TransferRow) /\ Len(rows) <= MaxRows
    /\ \A i \in DOMAIN rows : rows[i].finished \/ rows[i].stale => rows[i].dispatched
    /\ process \in Nat \ {0}
    /\ caller \in [Callers -> Request]
    /\ \A c \in Callers : caller[c].pc # "idle" => caller[c].id \in DOMAIN rows
    /\ mirror \in BOOLEAN /\ here \in BOOLEAN /\ there \in Nat
    /\ orphans \subseteq (DOMAIN rows) \X Nat
    /\ arrival \in {"none", "pending", "localMove", "localCopy", "externalMove", "delivery"}
    /\ evidence \in {"none", "live", "used"} /\ probing \in BOOLEAN
    /\ done \subseteq DOMAIN rows
    /\ faults \in Nat /\ others \in Nat /\ faults + others <= MaxEvents

Init ==
    /\ kind \in {"move", "copy"} /\ inbox \in BOOLEAN /\ rewrites \in {FALSE, kind = "copy" /\ ~inbox}
    /\ rows = <<>> /\ process = 1
    /\ caller = [c \in Callers |-> AtRest]
    /\ mirror = TRUE /\ here = TRUE /\ there = 0 /\ orphans = {} /\ done = {}
    /\ arrival = "none" /\ evidence = "none" /\ probing = FALSE
    /\ faults = 0 /\ others = 0

Fault == faults + others < MaxEvents /\ faults' = faults + 1

Goes(c, pc) == caller' = [caller EXCEPT ![c].pc = pc]
Ends(c)     == caller' = [caller EXCEPT ![c] = AtRest]
Completes(c) == caller' = [caller EXCEPT ![c] = [AtRest EXCEPT !.pc = "complete", !.id = caller[c].id]]
Row(c)      == rows[caller[c].id]
Write(i, r) == rows' = [rows EXCEPT ![i] = r]

-----------------------------------------------------------------------------
(* The journal, backend/store/message_arrival_fingerprints.go *)

(* StageMessageTransfer: a row that is pending or succeeded, or consumed and *)
(* not expired, is taken up again; only after a failed one a new row begins. *)
Reusable == {i \in DOMAIN rows : rows[i].state # "failed"}

(* Mutated: the number of the attempt is not compared. *)
HoldsClaimMutant(c) ==
    /\ Row(c).state = "pending" /\ Row(c).dispatched
    /\ Row(c).owner = caller[c].seen.owner

(* The claim of caller c is still the one the row carries. *)
HoldsClaim(c) ==
    /\ Row(c).state = "pending" /\ Row(c).dispatched
    /\ Row(c).owner = caller[c].seen.owner /\ Row(c).attempt = caller[c].seen.attempt

(* messageTransferClaim: owner and attempt, what is kept of a row once read.  *)
ClaimOf(r) == [Staged EXCEPT !.owner = r.owner, !.attempt = r.attempt]

(* Mutated: an active claim may be taken over. *)
InactiveMutant(r) == r.dispatched

(* Mutated: a claim never settled by this process is never given up. *)
InactiveMutantStale(r) == r.dispatched /\ (r.finished \/ r.owner # process)

(* messageTransferCanReconcile, and the same condition in                    *)
(* ReopenMessageTransferDispatchAfterProof.                                  *)
Inactive(r) == r.dispatched /\ (r.finished \/ r.owner # process \/ r.stale)

(* Mutated: the row keeps the mark of the attempt that has ended. *)
ReopenedMutant(r) == [r EXCEPT !.dispatched = FALSE, !.owner = 0, !.stale = FALSE]

Reopened(r) == [r EXCEPT !.dispatched = FALSE, !.owner = 0, !.finished = FALSE, !.stale = FALSE]

(* ClaimMessageTransferDispatchForOwner: a new attempt, of this process. *)
ClaimedNow(r) == [r EXCEPT !.dispatched = TRUE, !.owner = process, !.attempt = @ + 1,
                           !.finished = FALSE, !.stale = FALSE]

(* MarkMessageTransferSucceeded *)
Succeeded(r, uid) == [r EXCEPT !.state = IF @ = "consumed" THEN @ ELSE "succeeded", !.uid = @ \/ uid]

-----------------------------------------------------------------------------
(* A request: stage, and what the staged row calls for. *)

Stage(c) ==
    /\ caller[c].pc = "idle" /\ mirror
    /\ \/ /\ Reusable = {} /\ Len(rows) < MaxRows
          /\ rows' = Append(rows, Staged)
          /\ caller' = [caller EXCEPT ![c] = [AtRest EXCEPT !.pc = "staged", !.id = Len(rows) + 1]]
       \/ \E i \in Reusable :
          /\ UNCHANGED rows
          /\ caller' = [caller EXCEPT ![c] = [AtRest EXCEPT !.pc = "staged", !.id = i, !.seen = rows[i]]]
    /\ UNCHANGED <<kind, inbox, rewrites, process, mirror, serverVars, arrivalVars, faults>>

-----------------------------------------------------------------------------
(* What the server's mailboxes prove of the command of row r.  A move was    *)
(* applied if the source UID is gone.  A copy was if exactly one message of  *)
(* the destination is exactly the source's and its UID is not below the      *)
(* boundary; it was not if none is, and nothing at or beyond the boundary    *)
(* has its Message-ID.  Anything else is ambiguous and proves nothing.       *)
Exact == IF rewrites THEN {} ELSE 1 .. there

(* Mutated: the UID's existence is not looked at, *)
AppliedMutant(r) == kind = "move" \/ \E uid \in Exact : Exact = {uid} /\ uid >= r.next

(* an exact match of before the dispatch counts, *)
AppliedMutantBoundary(r) == IF kind = "move" THEN ~here ELSE Cardinality(Exact) = 1

(* or the row is reopened whatever the server says. *)
AbsentMutant(r) == TRUE

Applied(r) == IF kind = "move" THEN ~here ELSE \E uid \in Exact : Exact = {uid} /\ uid >= r.next
Absent(r)  == IF kind = "move" THEN here ELSE Exact = {} /\ there < r.next

(* The row is already settled: what is left is the local state.              *)
(* resolveSucceededCopyDestination finds the copy's UID if it is unknown.    *)
TakeUpSettled(c) ==
    /\ caller[c].pc = "staged" /\ caller[c].seen.state # "pending"
    /\ IF kind = "move" THEN Completes(c) /\ UNCHANGED rows
       ELSE IF caller[c].seen.state = "consumed" \/ inbox THEN Ends(c) /\ UNCHANGED rows
       ELSE IF caller[c].seen.uid THEN Completes(c) /\ UNCHANGED rows
       ELSE IF Applied(caller[c].seen) THEN Completes(c) /\ Write(caller[c].id, Succeeded(Row(c), TRUE))
       ELSE Ends(c) /\ UNCHANGED rows
    /\ UNCHANGED <<kind, inbox, rewrites, process, mirror, serverVars, arrivalVars, faults>>

(* SnapshotMailboxAppendBoundary: a copy that was never dispatched asks for  *)
(* the destination's UIDNEXT,                                                *)
Unbounded(r) == kind = "copy" /\ r.next = 0 /\ ~r.dispatched

Survey(c) ==
    /\ caller[c].pc = "staged" /\ caller[c].seen.state = "pending" /\ Unbounded(caller[c].seen)
    /\ caller' = [caller EXCEPT ![c].pc = "surveyed", ![c].seen.next = there + 1]
    /\ UNCHANGED <<rowVars, process, mirror, serverVars, arrivalVars, faults>>

(* SetMessageTransferDestinationSnapshot: of concurrent callers the first    *)
(* sets the boundary, and the row is read again.                             *)
Bounded(r, next) == IF r.state = "pending" /\ Unbounded(r) THEN [r EXCEPT !.next = next] ELSE r

SetBoundary(c) ==
    /\ caller[c].pc = "surveyed"
    /\ LET row == Bounded(Row(c), caller[c].seen.next)
       IN /\ Write(caller[c].id, row)
          /\ IF row.next = 0 THEN Ends(c)
             ELSE caller' = [caller EXCEPT ![c].pc = "bounded", ![c].seen = row]
    /\ UNCHANGED <<kind, inbox, rewrites, process, mirror, serverVars, arrivalVars, faults>>

(* The row, as the caller knows it, may be dispatched or reconciled. *)
Ready(c) ==
    \/ caller[c].pc = "bounded"
    \/ caller[c].pc = "staged" /\ caller[c].seen.state = "pending" /\ ~Unbounded(caller[c].seen)

(* An earlier dispatch is reconciled: another caller's active claim ends the *)
(* request, otherwise the server is asked what became of the command.        *)
Refuse(c) ==
    /\ Ready(c) /\ caller[c].seen.dispatched /\ ~Inactive(caller[c].seen)
    /\ Ends(c)
    /\ UNCHANGED <<rowVars, process, mirror, serverVars, arrivalVars, faults>>

Look(c) ==
    /\ Ready(c) /\ Inactive(caller[c].seen)
    /\ LateCommands \/ orphans = {}
    /\ IF Applied(caller[c].seen)
       THEN caller' = [caller EXCEPT ![c] = [AtRest EXCEPT !.pc = "looked", !.id = caller[c].id,
                                                           !.answer = "applied"]]
       ELSE IF Absent(caller[c].seen)
       THEN caller' = [caller EXCEPT ![c] = [AtRest EXCEPT !.pc = "looked", !.id = caller[c].id,
                                                           !.seen = ClaimOf(caller[c].seen)]]
       ELSE Ends(c)
    /\ UNCHANGED <<rowVars, process, mirror, serverVars, arrivalVars, faults>>

(* The server does not answer, or its answer is no good; or the boundary is  *)
(* not written.                                                              *)
LookFails(c) ==
    /\ \/ Ready(c) /\ Inactive(caller[c].seen)
       \/ caller[c].pc = "staged" /\ caller[c].seen.state = "pending" /\ Unbounded(caller[c].seen)
       \/ caller[c].pc = "surveyed"
    /\ Fault /\ Ends(c)
    /\ UNCHANGED <<rowVars, process, mirror, serverVars, arrivalVars>>

(* MarkMessageTransferSucceeded on the proof; a row that failed meanwhile is *)
(* not found.                                                                *)
Confirm(c) ==
    /\ caller[c].pc = "looked" /\ caller[c].answer = "applied"
    /\ IF Row(c).state = "failed" THEN Ends(c) /\ UNCHANGED rows
       ELSE Completes(c) /\ Write(caller[c].id, Succeeded(Row(c), kind = "copy"))
    /\ UNCHANGED <<kind, inbox, rewrites, process, mirror, serverVars, arrivalVars, faults>>

(* ReopenMessageTransferDispatchAfterProof *)
Reopen(c) ==
    /\ caller[c].pc = "looked" /\ caller[c].answer = "none"
    /\ IF HoldsClaim(c) /\ Inactive(Row(c))
       THEN Goes(c, "reopened") /\ Write(caller[c].id, Reopened(Row(c)))
       ELSE Ends(c) /\ UNCHANGED rows
    /\ UNCHANGED <<kind, inbox, rewrites, process, mirror, serverVars, arrivalVars, faults>>

Claim(c) ==
    /\ caller[c].pc = "reopened" \/ (Ready(c) /\ ~caller[c].seen.dispatched)
    /\ IF Row(c).state = "pending" /\ ~Row(c).dispatched
       THEN /\ Write(caller[c].id, ClaimedNow(Row(c)))
            /\ caller' = [caller EXCEPT ![c].pc = "claimed", ![c].seen = ClaimOf(ClaimedNow(Row(c)))]
       ELSE Ends(c) /\ UNCHANGED rows
    /\ UNCHANGED <<kind, inbox, rewrites, process, mirror, serverVars, arrivalVars, faults>>

-----------------------------------------------------------------------------
(* The command.  MOVE is preceded by a search for the UID.                   *)

Done == {"moved", "placed"}

Answered(c, answer) == caller' = [caller EXCEPT ![c].pc = "settle", ![c].answer = answer]

Send(c) ==
    /\ caller[c].pc = "claimed"
    /\ IF kind = "move" /\ ~here THEN Answered(c, "refused") ELSE Goes(c, "sent")
    /\ UNCHANGED <<rowVars, process, mirror, serverVars, arrivalVars, faults>>

(* The request was cancelled before the command went out, or the connection, *)
(* the folder or the server refused it.                                      *)
NotSent(c) ==
    /\ caller[c].pc = "claimed" /\ Fault
    /\ \/ kind = "move" /\ Answered(c, "unsent")
       \/ Answered(c, "refused")
    /\ UNCHANGED <<rowVars, process, mirror, serverVars, arrivalVars>>

(* The server runs a command; MOVE of a UID that is gone does nothing.       *)
Effect(id) ==
    IF kind = "move" /\ ~here THEN UNCHANGED <<here, there, done>>
    ELSE /\ here' = (kind = "copy" /\ here)
         /\ there' = there + 1
         /\ done' = done \cup {id}

Execute(c) ==
    /\ caller[c].pc = "sent"
    /\ Effect(caller[c].id)
    /\ Goes(c, "executed")
    /\ UNCHANGED <<rowVars, process, mirror, orphans, others, arrivalVars, faults>>

(* OK, without the destination's UID ("moved") or with it ("placed"); a copy *)
(* may also be accepted and then fail to be confirmed, as one does that is   *)
(* stored with other bytes and whose UID is not told.                        *)
Answer(c) ==
    /\ caller[c].pc = "executed"
    /\ \/ \E answer \in Done : (answer = "moved" => ~rewrites) /\ Answered(c, answer)
       \/ kind = "copy" /\ Answered(c, "applied")
    /\ UNCHANGED <<rowVars, process, mirror, serverVars, arrivalVars, faults>>

(* NO: the command had no effect. *)
Decline(c) ==
    /\ caller[c].pc = "sent" /\ Fault
    /\ Answered(c, "refused")
    /\ UNCHANGED <<rowVars, process, mirror, serverVars, arrivalVars>>

Abandoned(c) ==
    IF caller[c].pc = "sent" THEN orphans \cup {<<caller[c].id, caller[c].seen.attempt>>} ELSE orphans

(* The connection is lost while the command is in flight. *)
LoseAnswer(c) ==
    /\ caller[c].pc \in {"sent", "executed"} /\ Fault
    /\ orphans' = Abandoned(c)
    /\ Answered(c, "unknown")
    /\ UNCHANGED <<rowVars, process, mirror, here, there, done, others, arrivalVars>>

(* A command nobody waits for is run after all, or dropped.                  *)
RunOrphan ==
    \E o \in orphans :
      /\ orphans' = orphans \ {o}
      /\ \/ Effect(o[1])
         \/ UNCHANGED <<here, there, done>>
      /\ UNCHANGED <<rowVars, process, caller, mirror, others, arrivalVars, faults>>

-----------------------------------------------------------------------------
(* applyMoveOutcome, and the end of CopyMessage: the answer settles the      *)
(* claim, by an update that must find the row as it expects it.  Only a      *)
(* release and a finish are for this attempt alone.                          *)
Found(c) ==
    \/ caller[c].answer \in {"moved", "placed", "applied"} /\ Row(c).state # "failed"
    \/ caller[c].answer = "refused" /\ Row(c).state = "pending"
    \/ caller[c].answer = "unsent" /\ HoldsClaim(c) /\ ~Row(c).finished
    \/ caller[c].answer = "unknown" /\ HoldsClaim(c)

Outcome(c) ==
    CASE caller[c].answer \in {"moved", "applied"} -> Succeeded(Row(c), FALSE)
      [] caller[c].answer = "placed"  -> Succeeded(Row(c), TRUE)
      [] caller[c].answer = "refused" -> [Row(c) EXCEPT !.state = "failed"]
      [] caller[c].answer = "unsent"  -> Reopened(Row(c))
      [] caller[c].answer = "unknown" -> [Row(c) EXCEPT !.finished = TRUE]

Settle(c) ==
    /\ caller[c].pc = "settle"
    /\ IF Found(c) THEN Write(caller[c].id, Outcome(c)) ELSE UNCHANGED rows
    /\ IF Found(c) /\ caller[c].answer \in Done THEN Completes(c) ELSE Ends(c)
    /\ UNCHANGED <<kind, inbox, rewrites, process, mirror, serverVars, arrivalVars, faults>>

(* The transaction fails: a success is then recorded as unknown, anything    *)
(* else leaves the claim as it is.                                           *)
SettleFails(c) ==
    /\ caller[c].pc = "settle" /\ Fault
    /\ IF caller[c].answer \in Done THEN Answered(c, "unknown") ELSE Ends(c)
    /\ UNCHANGED <<rowVars, process, mirror, serverVars, arrivalVars>>

(* completeMovedMessageLocally, completeCopiedMessageLocally: unless an      *)
(* arrival in the Inbox is to consume it, the row is terminalised;           *)
Complete(c) ==
    /\ caller[c].pc = "complete"
    /\ IF ~inbox /\ Row(c).state \in {"succeeded", "consumed"}
       THEN Write(caller[c].id, [Row(c) EXCEPT !.state = "consumed"])
       ELSE UNCHANGED rows
    /\ IF kind = "move" /\ (inbox \/ Row(c).state \in {"succeeded", "consumed"})
       THEN Goes(c, "cleanup") ELSE Ends(c)
    /\ UNCHANGED <<kind, inbox, rewrites, process, mirror, serverVars, arrivalVars, faults>>

(* cleanupMovedMessage: then the local row of a moved message goes.          *)
Cleanup(c) ==
    /\ caller[c].pc = "cleanup"
    /\ mirror' = FALSE
    /\ Ends(c)
    /\ UNCHANGED <<rowVars, process, serverVars, arrivalVars, faults>>

CompleteFails(c) ==
    /\ caller[c].pc \in {"complete", "cleanup"} /\ Fault /\ Ends(c)
    /\ UNCHANGED <<rowVars, process, mirror, serverVars, arrivalVars>>

-----------------------------------------------------------------------------
(* A goroutine dies without settling its claim, *)
Panic(c) ==
    /\ caller[c].pc # "idle" /\ Fault
    /\ orphans' = Abandoned(c)
    /\ Ends(c)
    /\ UNCHANGED <<rowVars, process, mirror, here, there, done, others, arrivalVars>>

(* or the process stops and starts again under a new owner token.            *)
Restart ==
    /\ Fault
    /\ orphans' = UNION {Abandoned(c) : c \in Callers}
    /\ caller' = [c \in Callers |-> AtRest]
    /\ process' = process + 1
    /\ probing' = FALSE
    /\ UNCHANGED <<rowVars, mirror, here, there, done, others, arrival, evidence>>

(* messageTransferStaleClaimAge passes; only a pending row is asked for its   *)
(* age.  No command takes that long, so the claim's caller is gone.          *)
Age ==
    \E i \in DOMAIN rows :
      /\ rows[i].state = "pending" /\ rows[i].dispatched /\ ~rows[i].stale
      /\ \A c \in Callers : ~(caller[c].pc \in Claimed /\ caller[c].id = i
                              /\ caller[c].seen.attempt = rows[i].attempt)
      /\ Write(i, [rows[i] EXCEPT !.stale = TRUE])
      /\ UNCHANGED <<kind, inbox, rewrites, process, caller, mirror, serverVars, arrivalVars, faults>>

(* Another client moves the message to the same folder, or copies it there   *)
(* as the user does.                                                         *)
OtherClient ==
    /\ here /\ faults + others < MaxEvents
    /\ here' \in {FALSE, kind = "copy"} /\ there' = there + 1 /\ others' = others + 1
    /\ UNCHANGED <<rowVars, process, caller, mirror, orphans, done, arrivalVars, faults>>

-----------------------------------------------------------------------------
(* recordExpungedMessageFingerprintTx: the source's disappearance settles a  *)
(* dispatched move, and is evidence of its own if there is none.             *)
MoveRows(S) == {i \in DOMAIN rows : kind = "move" /\ rows[i].state \in S}
Dispatched  == {i \in MoveRows({"pending"}) : rows[i].dispatched}

(* Mutated: the source of a move under way leaves no trace. *)
RecordExpungeMutant ==
    /\ evidence' = IF MoveRows({"pending", "succeeded", "consumed"}) = {} /\ evidence = "none"
                   THEN "live" ELSE evidence
    /\ UNCHANGED rows

RecordExpunge ==
    IF MoveRows({"succeeded", "consumed"}) # {} THEN UNCHANGED <<rows, evidence>>
    ELSE IF Dispatched # {}
    THEN /\ rows' = [i \in DOMAIN rows |->
                       IF i \in Dispatched
                       THEN [rows[i] EXCEPT !.state = IF inbox THEN "succeeded" ELSE "consumed"]
                       ELSE rows[i]]
         /\ UNCHANGED evidence
    ELSE /\ evidence' = IF evidence = "none" THEN "live" ELSE evidence
         /\ UNCHANGED rows

(* DeleteMessagesMissingUIDsAndRecordExpunges in a turn of the source.       *)
Reconcile ==
    /\ mirror /\ ~here
    /\ mirror' = FALSE
    /\ RecordExpunge
    /\ UNCHANGED <<kind, inbox, rewrites, process, caller, serverVars, arrival, probing, faults>>

(* classifyArrivalWithoutDelivery: a succeeded transfer explains an arrival  *)
(* and is consumed, with the evidence of its source; then the evidence, with *)
(* the pending move it proves; otherwise nothing does.                       *)
Classify(unexplained) ==
    LET matching == {i \in DOMAIN rows : rows[i].state = "succeeded"}
        proven   == Dispatched
        consume(S) == rows' = [i \in DOMAIN rows |->
                                 IF i \in S THEN [rows[i] EXCEPT !.state = "consumed"] ELSE rows[i]]
    IN IF matching # {}
       THEN /\ consume(matching)
            /\ arrival' = IF kind = "move" THEN "localMove" ELSE "localCopy"
            /\ evidence' = IF kind = "move" /\ evidence = "live" THEN "used" ELSE evidence
       ELSE IF evidence = "live"
       THEN /\ consume(proven)
            /\ arrival' = IF proven # {} THEN "localMove" ELSE "externalMove"
            /\ evidence' = "used"
       ELSE arrival' = unexplained /\ UNCHANGED <<rows, evidence>>

(* HoldOrClassifyInboxArrival, by a sync of the Inbox or for a copy that has *)
(* just been completed.                                                      *)
Hold ==
    /\ inbox /\ there > 0 /\ arrival \in {"none", "pending"}
    /\ Classify("pending")
    /\ arrival' # arrival
    /\ UNCHANGED <<kind, inbox, rewrites, process, caller, mirror, serverVars, probing, faults>>

(* FinalizePendingInboxArrivals when the hold has passed: a source that is   *)
(* listed and gone is recorded as expunged,                                  *)
Probe ==
    /\ arrival = "pending" /\ ~probing
    /\ probing' = TRUE
    /\ IF mirror /\ ~here THEN RecordExpunge ELSE UNCHANGED <<rows, evidence>>
    /\ UNCHANGED <<kind, inbox, rewrites, process, caller, mirror, serverVars, arrival, faults>>

(* and what nothing explains is announced. *)
Finalize ==
    /\ probing /\ probing' = FALSE
    /\ IF arrival = "pending" THEN Classify("delivery") ELSE UNCHANGED <<rows, arrival, evidence>>
    /\ UNCHANGED <<kind, inbox, rewrites, process, caller, mirror, serverVars, faults>>

-----------------------------------------------------------------------------
Serve(c)   == Stage(c) \/ TakeUpSettled(c) \/ Survey(c) \/ SetBoundary(c) \/ Refuse(c)
              \/ Look(c) \/ Confirm(c) \/ Reopen(c) \/ Claim(c) \/ Send(c) \/ Execute(c)
              \/ Answer(c) \/ Settle(c) \/ Complete(c) \/ Cleanup(c)
Failure(c) == LookFails(c) \/ NotSent(c) \/ Decline(c) \/ LoseAnswer(c) \/ SettleFails(c)
              \/ CompleteFails(c) \/ Panic(c)

Next ==
    \/ \E c \in Callers : Serve(c) \/ Failure(c)
    \/ RunOrphan \/ Restart \/ Age \/ OtherClient
    \/ Reconcile \/ Hold \/ Probe \/ Finalize

(* The user repeats a request that ended in an error; the server answers,    *)
(* and decides about a command it still has; ten minutes pass.               *)
Fairness == (\A c \in Callers : WF_vars(Serve(c))) /\ WF_vars(RunOrphan) /\ WF_vars(Age)

Spec == Init /\ [][Next]_vars /\ Fairness

-----------------------------------------------------------------------------
(* Properties *)

(* However answers are lost and requests repeated, a copy is made once: never *)
(* again, and one that is recorded as made is there, beyond the boundary of   *)
(* before its dispatch, where the copies of others do not pass for it.        *)
CopiedOnce ==
    kind = "copy" =>
        /\ there <= 1 + others
        /\ \A i \in DOMAIN rows : rows[i].state \in {"succeeded", "consumed"} => there >= rows[i].next

(* At most one command is on its way to the server.                          *)
OneCommand ==
    Cardinality({c \in Callers : caller[c].pc = "sent"}) + Cardinality(orphans) <= 1

(* A transfer recorded as failed had no effect: a later delivery is not      *)
(* mistaken for it, and a new attempt does not repeat it.                    *)
FailedMeansUndone == \A i \in DOMAIN rows : rows[i].state = "failed" => i \notin done

(* The local row of the source is dropped only after the server's.           *)
MirrorHonest == here => mirror

(* A moved message is never announced as new mail.                           *)
MovesNotAnnounced == kind = "move" => arrival # "delivery"

(* The destination cannot tell what became of the copy of row i: it held the  *)
(* message before the dispatch, or holds it twice since, or holds one with    *)
(* its Message-ID and other bytes.                                            *)
Ambiguous(i) ==
    /\ kind = "copy" /\ i \in DOMAIN rows
    /\ IF rewrites THEN there >= rows[i].next ELSE there > 1 \/ there \in 1 .. rows[i].next - 1

(* A dispatched transfer does not stay undecided while its request is         *)
(* repeated, unless its source has left the local folder or what is in the    *)
(* destination is ambiguous: then it stays pending, and is not sent again.    *)
Undecided(i) == i \in DOMAIN rows /\ rows[i].state = "pending" /\ rows[i].dispatched
DispatchSettles ==
    \A i \in 1..MaxRows : Undecided(i) ~> (~Undecided(i) \/ ~mirror \/ Ambiguous(i))
=============================================================================
