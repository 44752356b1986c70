------------------------ MODULE MessageTransfer_proofs ------------------------
(****************************************************************************)
(* Proofs about MessageTransfer, for any number of callers, requests and     *)
(* faults: what holds even if commands run late, and what holds if none does.*)
(****************************************************************************)
EXTENDS MessageTransfer, SequenceTheorems, FiniteSetTheorems, TLAPS

-----------------------------------------------------------------------------
(* Records: what an update of a row or of a caller leaves of its type. *)

States  == {"pending", "succeeded", "consumed", "failed"}
Places  == Claimed \cup {"idle", "staged", "surveyed", "bounded", "looked", "reopened",
                       "complete", "cleanup"}
Answers == {"none", "unsent", "refused", "unknown", "moved", "placed", "applied"}

(* Only a claimed row carries the marks of a claim. *)
Marked(r) == r.finished \/ r.stale => r.dispatched

(* What was decided stays decided; a success may be consumed. *)
Later(s, t) == s = "pending" \/ t = s \/ (s = "succeeded" /\ t = "consumed")

(* r may stand where q stood. *)
Follows(q, r) == r \in TransferRow /\ Marked(r) /\ Later(q.state, r.state)

LEMMA RestTyped == Staged \in TransferRow /\ AtRest \in Request
BY DEF Staged, TransferRow, AtRest, Request, Claimed

LEMMA RowFields ==
  ASSUME NEW r \in TransferRow
  PROVE  /\ r.state \in States
         /\ r.dispatched \in BOOLEAN /\ r.finished \in BOOLEAN
         /\ r.stale \in BOOLEAN /\ r.uid \in BOOLEAN
         /\ r.owner \in Nat /\ r.attempt \in Nat /\ r.next \in Nat
BY DEF TransferRow, States

LEMMA RequestFields ==
  ASSUME NEW q \in Request
  PROVE  q.pc \in Places /\ q.id \in Nat /\ q.seen \in TransferRow /\ q.answer \in Answers
BY DEF Request, Places, Answers

LEMMA SetState ==
  ASSUME NEW r \in TransferRow, NEW s \in States, Marked(r), Later(r.state, s)
  PROVE  Follows(r, [r EXCEPT !.state = s])
<1>1. [r EXCEPT !.state = s] \in TransferRow
  BY DEF TransferRow, States
<1>2. [r EXCEPT !.state = s].state = s
  BY DEF TransferRow
<1>3. Marked([r EXCEPT !.state = s])
  BY DEF TransferRow, Marked
<1>4. QED BY <1>1, <1>2, <1>3 DEF Follows

LEMMA SucceededFollows ==
  ASSUME NEW r \in TransferRow, NEW u \in BOOLEAN, Marked(r), r.state # "failed"
  PROVE  Follows(r, Succeeded(r, u)) /\ Succeeded(r, u).state \in {"succeeded", "consumed"}
<1>1. Succeeded(r, u) \in TransferRow
  BY DEF TransferRow, Succeeded
<1>2. Succeeded(r, u).state = IF r.state = "consumed" THEN "consumed" ELSE "succeeded"
  BY DEF TransferRow, Succeeded
<1>3. Marked(Succeeded(r, u))
  BY DEF TransferRow, Succeeded, Marked
<1>4. QED BY <1>1, <1>2, <1>3, RowFields DEF Follows, Later, States

LEMMA ReopenedFollows ==
  ASSUME NEW r \in TransferRow
  PROVE  Follows(r, Reopened(r)) /\ Reopened(r).state = r.state
<1>1. Reopened(r) \in TransferRow
  BY DEF TransferRow, Reopened
<1>2. Reopened(r).state = r.state
  BY DEF TransferRow, Reopened
<1>3. Marked(Reopened(r))
  BY DEF TransferRow, Reopened, Marked
<1>4. QED BY <1>1, <1>2, <1>3 DEF Follows, Later

LEMMA ClaimFollows ==
  ASSUME NEW r \in TransferRow, process \in Nat
  PROVE  Follows(r, ClaimedNow(r)) /\ ClaimedNow(r).state = r.state
<1> DEFINE q == [r EXCEPT !.attempt = r.attempt + 1]
<1>1. q \in TransferRow
  BY DEF TransferRow
<1>2. ClaimedNow(r) = [q EXCEPT !.dispatched = TRUE, !.owner = process, !.finished = FALSE, !.stale = FALSE]
  BY DEF TransferRow, ClaimedNow
<1>3. q.state = r.state
  BY DEF TransferRow
<1> HIDE DEF q
<1>4. ClaimedNow(r) \in TransferRow
  BY <1>1, <1>2 DEF TransferRow
<1>5. ClaimedNow(r).state = q.state
  BY <1>1, <1>2 DEF TransferRow
<1>6. Marked(ClaimedNow(r))
  BY <1>1, <1>2 DEF TransferRow, Marked
<1>7. QED BY <1>3, <1>4, <1>5, <1>6 DEF Follows, Later

LEMMA MarkFollows ==
  ASSUME NEW r \in TransferRow, r.dispatched
  PROVE  Follows(r, [r EXCEPT !.finished = TRUE]) /\ Follows(r, [r EXCEPT !.stale = TRUE])
<1>1. [r EXCEPT !.finished = TRUE] \in TransferRow
  BY DEF TransferRow
<1>2. [r EXCEPT !.finished = TRUE].state = r.state /\ Marked([r EXCEPT !.finished = TRUE])
  BY DEF TransferRow, Marked
<1>3. [r EXCEPT !.stale = TRUE] \in TransferRow
  BY DEF TransferRow
<1>4. [r EXCEPT !.stale = TRUE].state = r.state /\ Marked([r EXCEPT !.stale = TRUE])
  BY DEF TransferRow, Marked
<1>5. QED BY <1>1, <1>2, <1>3, <1>4 DEF Follows, Later

LEMMA BoundedFollows ==
  ASSUME NEW r \in TransferRow, Marked(r), NEW n \in Nat
  PROVE  Follows(r, Bounded(r, n)) /\ Bounded(r, n).state = r.state
<1>1. [r EXCEPT !.next = n] \in TransferRow
  BY DEF TransferRow
<1>2. [r EXCEPT !.next = n].state = r.state /\ Marked([r EXCEPT !.next = n])
  BY DEF TransferRow, Marked
<1>3. QED BY <1>1, <1>2 DEF Bounded, Follows, Later

LEMMA ClaimOfTyped ==
  ASSUME NEW r \in TransferRow
  PROVE  ClaimOf(r) \in TransferRow /\ ClaimOf(r).state = "pending"
BY DEF TransferRow, ClaimOf, Staged

-----------------------------------------------------------------------------
(* The rows: they are only added to, and each follows what it replaces. *)

RowsTyped == rows \in Seq(TransferRow) /\ Len(rows) <= MaxRows
             /\ \A i \in DOMAIN rows : Marked(rows[i])

Grow == /\ RowsTyped' /\ DOMAIN rows \subseteq DOMAIN rows'
        /\ \A i \in DOMAIN rows : Later(rows[i].state, rows'[i].state)

LEMMA WriteGrows ==
  ASSUME RowsTyped, NEW i \in DOMAIN rows, NEW r, Follows(rows[i], r), Write(i, r)
  PROVE  Grow /\ rows'[i] = r /\ \A j \in DOMAIN rows : j # i => rows'[j] = rows[j]
<1>1. rows' = [rows EXCEPT ![i] = r] /\ r \in TransferRow
  BY DEF Write, Follows
<1>2. rows' \in Seq(TransferRow) /\ Len(rows') = Len(rows) /\ DOMAIN rows' = DOMAIN rows
  BY <1>1, ExceptSeq DEF RowsTyped
<1>3. rows'[i] = r /\ \A j \in DOMAIN rows : j # i => rows'[j] = rows[j]
  BY <1>1, ExceptSeq DEF RowsTyped
<1>4. \A j \in DOMAIN rows' : Marked(rows'[j])
  BY <1>2, <1>3 DEF RowsTyped, Follows
<1>5. \A j \in DOMAIN rows : Later(rows[j].state, rows'[j].state)
  BY <1>3 DEF Follows, Later
<1>6. QED BY <1>2, <1>3, <1>4, <1>5 DEF Grow, RowsTyped

LEMMA AppendGrows ==
  ASSUME RowsTyped, Len(rows) < MaxRows, rows' = Append(rows, Staged), MaxRows \in Nat
  PROVE  /\ Grow /\ Len(rows) + 1 \in DOMAIN rows'
         /\ \A i \in DOMAIN rows : rows'[i] = rows[i]
         /\ rows'[Len(rows) + 1] = Staged
         /\ DOMAIN rows' = DOMAIN rows \cup {Len(rows) + 1}
<1>0. Staged \in TransferRow /\ rows \in Seq(TransferRow) /\ Len(rows) \in Nat
  BY RestTyped, LenProperties DEF RowsTyped
<1>1. rows' \in Seq(TransferRow) /\ Len(rows') = Len(rows) + 1
  BY <1>0, AppendProperties
<1>2. /\ \A i \in 1..Len(rows) : rows'[i] = rows[i]
      /\ rows'[Len(rows) + 1] = Staged
  BY <1>0, AppendProperties
<1>3. DOMAIN rows = 1..Len(rows) /\ DOMAIN rows' = 1..(Len(rows) + 1)
  BY <1>0, <1>1, LenProperties
<1>4. Marked(Staged)
  BY DEF Marked, Staged
<1>5. DOMAIN rows' = DOMAIN rows \cup {Len(rows) + 1}
  BY <1>0, <1>3
<1>6. \A i \in DOMAIN rows' : Marked(rows'[i])
  BY <1>2, <1>3, <1>4, <1>5 DEF RowsTyped
<1>7. Len(rows') <= MaxRows
  BY <1>0, <1>1
<1>8. QED BY <1>1, <1>2, <1>3, <1>5, <1>6, <1>7 DEF Grow, RowsTyped, Later

(* All rows of a set are given a state that may follow theirs. *)
LEMMA MapGrows ==
  ASSUME RowsTyped, NEW S, NEW s \in States,
         \A i \in DOMAIN rows : i \in S => Later(rows[i].state, s),
         rows' = [i \in DOMAIN rows |-> IF i \in S THEN [rows[i] EXCEPT !.state = s] ELSE rows[i]]
  PROVE  /\ Grow /\ DOMAIN rows' = DOMAIN rows
         /\ \A i \in DOMAIN rows : rows'[i].state = IF i \in S THEN s ELSE rows[i].state
<1>1. rows \in Seq(TransferRow) /\ Len(rows) \in Nat /\ DOMAIN rows = 1..Len(rows)
  BY LenProperties DEF RowsTyped
<1>2. \A i \in DOMAIN rows : rows[i] \in TransferRow
  BY <1>1, ElementOfSeq
<1>3. \A i \in DOMAIN rows : Follows(rows[i], rows'[i])
  <2> SUFFICES ASSUME NEW i \in DOMAIN rows PROVE Follows(rows[i], rows'[i])
    OBVIOUS
  <2>1. CASE i \in S
    <3>1. Follows(rows[i], [rows[i] EXCEPT !.state = s])
      BY <1>2, <2>1, SetState DEF RowsTyped
    <3>2. QED BY <2>1, <3>1
  <2>2. CASE i \notin S
    <3>1. rows'[i] = rows[i]
      BY <2>2
    <3>2. QED BY <1>2, <3>1 DEF Follows, RowsTyped, Later
  <2>3. QED BY <2>1, <2>2
<1>4. \A i \in DOMAIN rows : rows'[i].state = IF i \in S THEN s ELSE rows[i].state
  BY <1>2 DEF TransferRow
<1>5. DOMAIN rows' = DOMAIN rows
  OBVIOUS
<1>6. rows' \in Seq(TransferRow) /\ Len(rows') = Len(rows)
  <2>1. rows' \in [1..Len(rows) -> TransferRow]
    BY <1>1, <1>3 DEF Follows
  <2>2. rows' \in Seq(TransferRow)
    BY <1>1, <2>1, IsASeq
  <2>3. QED BY <1>1, <2>1, <2>2, LenProperties
<1>7. QED BY <1>3, <1>4, <1>5, <1>6 DEF Grow, RowsTyped, Follows

-----------------------------------------------------------------------------
(* The callers: a step moves one of them. *)

CallersTyped == /\ caller \in [Callers -> Request]
                /\ \A c \in Callers : caller[c].pc # "idle" => caller[c].id \in DOMAIN rows

(* Caller c has become q, and no other caller has moved. *)
Becomes(c, p, i, s, a) ==
  /\ CallersTyped'
  /\ caller'[c].pc = p /\ caller'[c].id = i /\ caller'[c].seen = s /\ caller'[c].answer = a
  /\ \A d \in Callers : d # c => caller'[d] = caller[d]

Rests(c) == Becomes(c, "idle", 0, Staged, "none")

LEMMA CallerMoves ==
  ASSUME CallersTyped, DOMAIN rows \subseteq DOMAIN rows', NEW c \in Callers, NEW q \in Request,
         q.pc # "idle" => q.id \in DOMAIN rows', caller' = [caller EXCEPT ![c] = q]
  PROVE  Becomes(c, q.pc, q.id, q.seen, q.answer)
<1>1. caller' \in [Callers -> Request]
  BY DEF CallersTyped
<1>2. caller'[c] = q /\ \A d \in Callers : d # c => caller'[d] = caller[d]
  BY DEF CallersTyped
<1>3. \A d \in Callers : caller'[d].pc # "idle" => caller'[d].id \in DOMAIN rows'
  BY <1>2 DEF CallersTyped
<1>4. QED BY <1>1, <1>2, <1>3 DEF Becomes, CallersTyped

LEMMA CallerGoes ==
  ASSUME CallersTyped, DOMAIN rows \subseteq DOMAIN rows', NEW c \in Callers, NEW p \in Places,
         caller[c].pc # "idle", Goes(c, p)
  PROVE  Becomes(c, p, caller[c].id, caller[c].seen, caller[c].answer)
<1> DEFINE q == [caller[c] EXCEPT !.pc = p]
<1>1. caller[c] \in Request /\ caller[c].id \in DOMAIN rows
  BY DEF CallersTyped
<1>2. q \in Request
  BY <1>1 DEF Request, Places
<1>3. q.pc = p /\ q.id = caller[c].id /\ q.seen = caller[c].seen /\ q.answer = caller[c].answer
  BY <1>1 DEF Request
<1>4. caller' = [caller EXCEPT ![c] = q]
  BY DEF Goes
<1> HIDE DEF q
<1>5. Becomes(c, q.pc, q.id, q.seen, q.answer)
  BY <1>1, <1>2, <1>3, <1>4, CallerMoves
<1>6. QED BY <1>3, <1>5

LEMMA CallerEnds ==
  ASSUME CallersTyped, DOMAIN rows \subseteq DOMAIN rows', NEW c \in Callers, Ends(c)
  PROVE  Rests(c)
<1>1. AtRest.pc = "idle" /\ AtRest.id = 0 /\ AtRest.seen = Staged /\ AtRest.answer = "none"
  BY DEF AtRest
<1>2. Becomes(c, AtRest.pc, AtRest.id, AtRest.seen, AtRest.answer)
  BY <1>1, RestTyped, CallerMoves DEF Ends
<1>3. QED BY <1>1, <1>2 DEF Rests

LEMMA CallerAnswered ==
  ASSUME CallersTyped, DOMAIN rows \subseteq DOMAIN rows', NEW c \in Callers, NEW a \in Answers,
         caller[c].pc # "idle", Answered(c, a)
  PROVE  Becomes(c, "settle", caller[c].id, caller[c].seen, a)
<1> DEFINE q == [caller[c] EXCEPT !.pc = "settle", !.answer = a]
<1>1. caller[c] \in Request /\ caller[c].id \in DOMAIN rows
  BY DEF CallersTyped
<1>2. q \in Request
  BY <1>1 DEF Request, Answers, Claimed
<1>3. q.pc = "settle" /\ q.id = caller[c].id /\ q.seen = caller[c].seen /\ q.answer = a
  BY <1>1 DEF Request
<1>4. caller' = [caller EXCEPT ![c] = q]
  BY DEF Answered, CallersTyped
<1> HIDE DEF q
<1>5. Becomes(c, q.pc, q.id, q.seen, q.answer)
  BY <1>1, <1>2, <1>3, <1>4, CallerMoves
<1>6. QED BY <1>3, <1>5

(* A caller that starts over: everything but p, i, s and a is as at rest. *)
LEMMA CallerRestarts ==
  ASSUME CallersTyped, DOMAIN rows \subseteq DOMAIN rows', NEW c \in Callers, NEW p \in Places,
         NEW i \in DOMAIN rows', i \in Nat, NEW s \in TransferRow, NEW a \in Answers,
         \/ caller' = [caller EXCEPT ![c] = [AtRest EXCEPT !.pc = p, !.id = i]] /\ s = Staged /\ a = "none"
         \/ caller' = [caller EXCEPT ![c] = [AtRest EXCEPT !.pc = p, !.id = i, !.seen = s]] /\ a = "none"
         \/ caller' = [caller EXCEPT ![c] = [AtRest EXCEPT !.pc = p, !.id = i, !.answer = a]] /\ s = Staged
  PROVE  Becomes(c, p, i, s, a)
<1> DEFINE q == [pc |-> p, id |-> i, seen |-> s, answer |-> a]
<1>1. q \in Request
  BY DEF Request, Places, Answers
<1>2. caller' = [caller EXCEPT ![c] = q]
  BY DEF AtRest
<1>3. q.pc = p /\ q.id = i /\ q.seen = s /\ q.answer = a
  OBVIOUS
<1> HIDE DEF q
<1>4. Becomes(c, q.pc, q.id, q.seen, q.answer)
  BY <1>1, <1>2, <1>3, CallerMoves
<1>5. QED BY <1>3, <1>4

LEMMA CallerCompletes ==
  ASSUME CallersTyped, DOMAIN rows \subseteq DOMAIN rows', NEW c \in Callers, caller[c].pc # "idle",
         Completes(c)
  PROVE  Becomes(c, "complete", caller[c].id, Staged, "none")
<1>1. caller[c].id \in DOMAIN rows' /\ caller[c].id \in Nat
  BY RequestFields DEF CallersTyped
<1>2. "complete" \in Places /\ "none" \in Answers
  BY DEF Places, Answers
<1>3. QED BY <1>1, <1>2, RestTyped, CallerRestarts DEF Completes

(* A caller that goes on with another record of its row. *)
LEMMA CallerKnows ==
  ASSUME CallersTyped, DOMAIN rows \subseteq DOMAIN rows', NEW c \in Callers, NEW p \in Places,
         NEW s \in TransferRow, caller[c].pc # "idle",
         caller' = [caller EXCEPT ![c].pc = p, ![c].seen = s]
  PROVE  Becomes(c, p, caller[c].id, s, caller[c].answer)
<1> DEFINE q == [caller[c] EXCEPT !.pc = p, !.seen = s]
<1>1. caller[c] \in Request /\ caller[c].id \in DOMAIN rows
  BY DEF CallersTyped
<1>2. q \in Request
  BY <1>1 DEF Request, Places
<1>3. q.pc = p /\ q.id = caller[c].id /\ q.seen = s /\ q.answer = caller[c].answer
  BY <1>1 DEF Request
<1>4. caller' = [caller EXCEPT ![c] = q]
  BY DEF CallersTyped
<1> HIDE DEF q
<1>5. Becomes(c, q.pc, q.id, q.seen, q.answer)
  BY <1>1, <1>2, <1>3, <1>4, CallerMoves
<1>6. QED BY <1>3, <1>5

-----------------------------------------------------------------------------
(* What each step of a request does to the rows and to its caller. *)

Settled == {"succeeded", "consumed"}

RestTypedOK ==
    /\ kind \in {"move", "copy"} /\ inbox \in BOOLEAN /\ rewrites \in {FALSE, kind = "copy" /\ ~inbox}
    /\ process \in Nat \ {0}
    /\ mirror \in BOOLEAN /\ here \in BOOLEAN /\ there \in Nat
    /\ orphans \subseteq (DOMAIN rows) \X Nat
    /\ arrival \in {"none", "pending", "localMove", "localCopy", "externalMove", "delivery"}
    /\ evidence \in {"none", "live", "used"} /\ probing \in BOOLEAN
    /\ done \subseteq DOMAIN rows
    /\ faults \in Nat /\ others \in Nat /\ faults + others <= MaxEvents

LEMMA TypeParts == TypeOK <=> RowsTyped /\ CallersTyped /\ RestTypedOK
BY DEF TypeOK, RowsTyped, CallersTyped, RestTypedOK, Marked

(* A row in place, and the row and the record of a caller that is not idle. *)
LEMMA RowTyped ==
  ASSUME RowsTyped, NEW i \in DOMAIN rows
  PROVE  rows[i] \in TransferRow /\ Marked(rows[i]) /\ i \in Nat
<1>1. rows \in Seq(TransferRow) /\ DOMAIN rows = 1..Len(rows) /\ Len(rows) \in Nat
  BY LenProperties DEF RowsTyped
<1>2. QED BY <1>1, ElementOfSeq DEF RowsTyped

LEMMA CallerTyped ==
  ASSUME TypeOK, NEW c \in Callers, caller[c].pc # "idle"
  PROVE  /\ caller[c] \in Request /\ caller[c].id \in DOMAIN rows /\ caller[c].id \in Nat
         /\ Row(c) \in TransferRow /\ Marked(Row(c))
<1>1. RowsTyped /\ CallersTyped
  BY TypeParts
<1>2. caller[c] \in Request /\ caller[c].id \in DOMAIN rows
  BY <1>1 DEF CallersTyped
<1>3. QED BY <1>1, <1>2, RowTyped DEF Row

LEMMA SameRows ==
  ASSUME RowsTyped, UNCHANGED rows
  PROVE  Grow /\ DOMAIN rows' = DOMAIN rows /\ \A i \in DOMAIN rows : rows'[i] = rows[i]
BY DEF RowsTyped, Grow, Later

LEMMA StageStep ==
  ASSUME TypeOK, NEW c \in Callers, Stage(c)
  PROVE  /\ Grow
         /\ \A i \in DOMAIN rows : rows'[i] = rows[i]
         /\ \A i \in DOMAIN rows' : i \notin DOMAIN rows => rows'[i].state = "pending"
         /\ \E i \in DOMAIN rows', s \in TransferRow :
              /\ Becomes(c, "staged", i, s, "none")
              /\ rows'[i].state = s.state /\ s.state # "failed"
<1>1. RowsTyped /\ CallersTyped /\ MaxRows \in Nat
  BY TypeParts, LimitsAssumption
<1>2. "staged" \in Places /\ "none" \in Answers /\ Staged \in TransferRow /\ Staged.state = "pending"
  BY RestTyped DEF Places, Answers, Staged
<1>3. CASE /\ Reusable = {} /\ Len(rows) < MaxRows
           /\ rows' = Append(rows, Staged)
           /\ caller' = [caller EXCEPT ![c] = [AtRest EXCEPT !.pc = "staged", !.id = Len(rows) + 1]]
  <2> DEFINE n == Len(rows) + 1
  <2>1. /\ Grow /\ n \in DOMAIN rows' /\ \A i \in DOMAIN rows : rows'[i] = rows[i]
        /\ rows'[n] = Staged /\ DOMAIN rows' = DOMAIN rows \cup {n}
    BY <1>1, <1>3, AppendGrows
  <2>2. n \in Nat
    BY <1>1, LenProperties DEF RowsTyped
  <2>3. caller' = [caller EXCEPT ![c] = [AtRest EXCEPT !.pc = "staged", !.id = n]]
    BY <1>3
  <2> HIDE DEF n
  <2>4. Becomes(c, "staged", n, Staged, "none")
    BY <1>1, <1>2, <2>1, <2>2, <2>3, CallerRestarts DEF Grow
  <2>5. \E i \in DOMAIN rows', s \in TransferRow :
              /\ Becomes(c, "staged", i, s, "none")
              /\ rows'[i].state = s.state /\ s.state # "failed"
    BY <1>2, <2>1, <2>4
  <2>6. QED BY <1>2, <2>1, <2>5
<1>4. CASE \E i \in Reusable :
          /\ UNCHANGED rows
          /\ caller' = [caller EXCEPT ![c] = [AtRest EXCEPT !.pc = "staged", !.id = i, !.seen = rows[i]]]
  <2>1. PICK i \in Reusable :
          /\ UNCHANGED rows
          /\ caller' = [caller EXCEPT ![c] = [AtRest EXCEPT !.pc = "staged", !.id = i, !.seen = rows[i]]]
    BY <1>4
  <2>2. i \in DOMAIN rows /\ rows[i] \in TransferRow /\ rows[i].state # "failed" /\ i \in Nat
    BY <1>1, RowTyped DEF Reusable
  <2>3. Grow /\ DOMAIN rows' = DOMAIN rows /\ \A j \in DOMAIN rows : rows'[j] = rows[j]
    BY <1>1, <2>1, SameRows
  <2>4. Becomes(c, "staged", i, rows[i], "none")
    BY <1>1, <1>2, <2>1, <2>2, <2>3, CallerRestarts
  <2>5. QED BY <2>2, <2>3, <2>4
<1>5. QED BY <1>3, <1>4 DEF Stage

(* A step of caller c that may write its own row. *)
WritesOwn(c) == Grow /\ DOMAIN rows' = DOMAIN rows
                /\ \A i \in DOMAIN rows : i # caller[c].id => rows'[i] = rows[i]
Unwritten(c) == WritesOwn(c) /\ rows'[caller[c].id] = Row(c)

LEMMA KeepsOwn ==
  ASSUME TypeOK, NEW c \in Callers, caller[c].pc # "idle", UNCHANGED rows
  PROVE  Unwritten(c)
<1>1. RowsTyped /\ caller[c].id \in DOMAIN rows
  BY TypeParts, CallerTyped
<1>2. QED BY <1>1, SameRows DEF Unwritten, WritesOwn, Row

LEMMA WriteOwn ==
  ASSUME TypeOK, NEW c \in Callers, caller[c].pc # "idle", NEW r, Follows(Row(c), r), Write(caller[c].id, r)
  PROVE  WritesOwn(c) /\ rows'[caller[c].id] = r
<1>1. RowsTyped /\ caller[c].id \in DOMAIN rows
  BY TypeParts, CallerTyped
<1>2. Grow /\ rows'[caller[c].id] = r /\ \A j \in DOMAIN rows : j # caller[c].id => rows'[j] = rows[j]
  BY <1>1, WriteGrows DEF Row
<1>3. DOMAIN rows' = DOMAIN rows
  BY DEF Write
<1>4. QED BY <1>2, <1>3 DEF WritesOwn

LEMMA EndsOwn ==
  ASSUME TypeOK, NEW c \in Callers, WritesOwn(c), Ends(c)
  PROVE  Rests(c)
BY TypeParts, CallerEnds DEF WritesOwn

LEMMA CompletesOwn ==
  ASSUME TypeOK, NEW c \in Callers, caller[c].pc # "idle", WritesOwn(c), Completes(c)
  PROVE  Becomes(c, "complete", caller[c].id, Staged, "none")
BY TypeParts, CallerCompletes DEF WritesOwn

LEMMA GoesOwn ==
  ASSUME TypeOK, NEW c \in Callers, caller[c].pc # "idle", WritesOwn(c), NEW p \in Places, Goes(c, p)
  PROVE  Becomes(c, p, caller[c].id, caller[c].seen, caller[c].answer)
BY TypeParts, CallerGoes DEF WritesOwn

LEMMA AnsweredOwn ==
  ASSUME TypeOK, NEW c \in Callers, caller[c].pc # "idle", WritesOwn(c), NEW a \in Answers, Answered(c, a)
  PROVE  Becomes(c, "settle", caller[c].id, caller[c].seen, a)
BY TypeParts, CallerAnswered DEF WritesOwn

-----------------------------------------------------------------------------
(* The inductive invariant. *)

(* Until the source has left its folder, no move has succeeded, for nobody.  *)
UntilMoved == kind = "move" /\ here =>
   /\ mirror /\ there = 0
   /\ \A i \in DOMAIN rows : rows[i].state \notin Settled
   /\ \A c \in Callers : /\ caller[c].pc \notin {"executed", "complete", "cleanup"}
                         /\ caller[c].answer \notin {"moved", "placed", "applied"}
                         /\ caller[c].seen.state \notin Settled

CopyKeeps == kind = "copy" /\ here => mirror

(* A caller that completes a transfer, or has taken up a settled one, has a  *)
(* settled row.                                                              *)
KnowsSettled == \A c \in Callers :
   /\ caller[c].pc \in {"complete", "cleanup"} => Row(c).state \in Settled
   /\ caller[c].pc = "cleanup" => kind = "move"
   /\ caller[c].pc = "staged" /\ caller[c].seen.state # "pending" => Row(c).state \in Settled

(* A moved message that lies undecided in the Inbox, and whose source row is *)
(* gone or has been probed, is explained by a transfer or by evidence.       *)
Explained == evidence = "live" \/ \E i \in DOMAIN rows : rows[i].state = "succeeded"
Undisclosed ==
   /\ ~inbox => arrival = "none"
   /\ arrival # "none" => there > 0
   /\ probing => arrival # "none"
   /\ inbox /\ kind = "move" /\ arrival \in {"none", "pending"} =>
        /\ evidence # "used" /\ \A i \in DOMAIN rows : rows[i].state # "consumed"
        /\ ~mirror \/ (probing /\ arrival = "pending") => Explained
   /\ kind = "move" => arrival # "delivery"

Inv == TypeOK /\ UntilMoved /\ CopyKeeps /\ KnowsSettled /\ Undisclosed

(* What a step of a request does: to the rows, *)
RowsStep ==
   /\ Grow
   /\ kind = "move" /\ here' =>
        \A i \in DOMAIN rows' : rows'[i].state \in Settled => i \in DOMAIN rows /\ rows[i].state \in Settled
   /\ inbox /\ kind = "move" =>
        \A i \in DOMAIN rows' : rows'[i].state = "consumed" => i \in DOMAIN rows /\ rows[i].state = "consumed"

(* to the message, *)
MessageStep ==
   /\ RestTypedOK' /\ UNCHANGED <<kind, inbox, rewrites, arrival, evidence>> /\ (probing' => probing)
   /\ there' >= there
   /\ here' => here
   /\ kind = "move" /\ here' => there' = there
   /\ mirror' # mirror => /\ ~mirror' /\ kind = "move" /\ ~here'
                          /\ \E i \in DOMAIN rows' : rows'[i].state \in Settled

(* and to its caller. *)
CallerStep(c) ==
   \E p, i, s, a :
     /\ Becomes(c, p, i, s, a)
     /\ p \in {"complete", "cleanup"} => rows'[i].state \in Settled
     /\ p = "cleanup" => kind = "move"
     /\ p = "staged" /\ s.state # "pending" => rows'[i].state \in Settled
     /\ kind = "move" /\ here' => /\ p \notin {"executed", "complete", "cleanup"}
                                  /\ a \notin {"moved", "placed", "applied"}
                                  /\ s.state \notin Settled

(* Taken together: the callers that have moved know what they must.          *)
Sound(q) ==
   /\ q.pc \in {"complete", "cleanup"} => rows'[q.id].state \in Settled
   /\ q.pc = "cleanup" => kind = "move"
   /\ q.pc = "staged" /\ q.seen.state # "pending" => rows'[q.id].state \in Settled
   /\ kind = "move" /\ here' => /\ q.pc \notin {"executed", "complete", "cleanup"}
                                /\ q.answer \notin {"moved", "placed", "applied"}
                                /\ q.seen.state \notin Settled
CallersStep == CallersTyped' /\ \A d \in Callers : caller'[d] = caller[d] \/ Sound(caller'[d])

LEMMA UnwrittenStep ==
  ASSUME TypeOK, NEW c \in Callers, Unwritten(c)
  PROVE  RowsStep /\ \A i \in DOMAIN rows : rows'[i] = rows[i]
<1>1. Grow /\ DOMAIN rows' = DOMAIN rows /\ \A i \in DOMAIN rows : rows'[i] = rows[i]
  BY DEF Unwritten, WritesOwn, Row
<1>2. QED BY <1>1 DEF RowsStep

LEMMA WrittenStep ==
  ASSUME TypeOK, NEW c \in Callers, caller[c].pc # "idle", WritesOwn(c),
         kind = "move" /\ here' /\ rows'[caller[c].id].state \in Settled => Row(c).state \in Settled,
         inbox /\ kind = "move" /\ rows'[caller[c].id].state = "consumed" => Row(c).state = "consumed"
  PROVE  RowsStep
<1>1. /\ Grow /\ DOMAIN rows' = DOMAIN rows
      /\ \A i \in DOMAIN rows : i # caller[c].id => rows'[i] = rows[i]
  BY DEF WritesOwn
<1>2. QED BY <1>1 DEF RowsStep, Row

LEMMA RestKept ==
  ASSUME RestTypedOK, Grow,
         UNCHANGED <<kind, inbox, rewrites, process, mirror>>, UNCHANGED <<arrivalVars, others>>,
         here' \in BOOLEAN, there' \in Nat, orphans' \subseteq (DOMAIN rows) \X Nat, done' \subseteq DOMAIN rows,
         UNCHANGED faults \/ Fault
  PROVE  RestTypedOK'
<1>1. DOMAIN rows \subseteq DOMAIN rows'
  BY DEF Grow
<1>2. done' \subseteq DOMAIN rows'
  BY <1>1
<1>3. orphans' \subseteq (DOMAIN rows') \X Nat
  <2>1. (DOMAIN rows) \X Nat \subseteq (DOMAIN rows') \X Nat
    BY <1>1, Zenon
  <2>2. QED BY <2>1, Zenon
<1>4. faults' \in Nat /\ faults' + others' <= MaxEvents
  BY LimitsAssumption DEF Fault, RestTypedOK
<1>5. kind' = kind /\ inbox' = inbox /\ rewrites' = rewrites /\ process' = process /\ mirror' = mirror
      /\ arrival' = arrival /\ evidence' = evidence /\ probing' = probing /\ others' = others
  BY DEF arrivalVars
<1>6. /\ kind' \in {"move", "copy"} /\ inbox' \in BOOLEAN /\ process' \in Nat \ {0}
      /\ mirror' \in BOOLEAN /\ others' \in Nat
      /\ arrival' \in {"none", "pending", "localMove", "localCopy", "externalMove", "delivery"}
      /\ evidence' \in {"none", "live", "used"} /\ probing' \in BOOLEAN
  BY <1>5 DEF RestTypedOK
<1>7. QED BY <1>2, <1>3, <1>4, <1>6, Zenon DEF RestTypedOK

(* A step that leaves the message and the server alone. *)
LEMMA StillStep ==
  ASSUME TypeOK, Grow, UNCHANGED <<kind, inbox, rewrites, process, mirror>>, UNCHANGED arrivalVars,
         UNCHANGED <<here, there, done, others>>, orphans' \subseteq (DOMAIN rows) \X Nat,
         UNCHANGED faults \/ Fault
  PROVE  MessageStep
<1>1. RestTypedOK
  BY TypeParts
<1>2. here' \in BOOLEAN /\ there' \in Nat /\ done' \subseteq DOMAIN rows
  BY <1>1 DEF RestTypedOK
<1>3. RestTypedOK'
  BY <1>1, <1>2, RestKept
<1>4. there' >= there
  BY <1>1 DEF RestTypedOK
<1>5. QED BY <1>3, <1>4 DEF MessageStep, arrivalVars

LEMMA StillUnwritten ==
  ASSUME TypeOK, NEW c \in Callers, caller[c].pc # "idle",
         UNCHANGED rowVars, UNCHANGED <<process, mirror>>, UNCHANGED arrivalVars,
         UNCHANGED <<here, there, done, others>>, orphans' \subseteq (DOMAIN rows) \X Nat,
         UNCHANGED faults \/ Fault
  PROVE  Unwritten(c) /\ RowsStep /\ MessageStep
<1>1. UNCHANGED <<kind, inbox, rewrites, process, mirror>> /\ UNCHANGED rows
  BY DEF rowVars
<1>2. Unwritten(c)
  BY <1>1, KeepsOwn
<1>3. Grow
  BY <1>2 DEF Unwritten, WritesOwn
<1>4. MessageStep
  BY <1>1, <1>3, StillStep
<1>5. QED BY <1>2, <1>4, UnwrittenStep

LEMMA RestStep ==
  ASSUME NEW c \in Callers, Rests(c)
  PROVE  CallerStep(c)
<1>1. "idle" \notin {"executed", "complete", "cleanup", "staged"} /\ "none" \notin {"moved", "placed", "applied"}
      /\ Staged.state \notin Settled /\ Staged.state = "pending"
  BY DEF Staged, Settled
<1>2. QED BY <1>1 DEF Rests, CallerStep

(* A caller that goes on with what it has. *)
LEMMA OnStep ==
  ASSUME Inv, NEW c \in Callers, MessageStep, NEW s \in TransferRow, NEW a,
         NEW p \in {"surveyed", "bounded", "reopened", "claimed", "sent", "executed", "settle", "looked"},
         s.state \in {caller[c].seen.state, "pending"} \/ (caller[c].pc # "idle" /\ s.state = Row(c).state),
         kind = "move" /\ here' => p # "executed" /\ a \notin {"moved", "placed", "applied"},
         Becomes(c, p, caller[c].id, s, a)
  PROVE  CallerStep(c)
<1>1. p \notin {"complete", "cleanup", "staged"}
  OBVIOUS
<1>2. kind = "move" /\ here' => s.state \notin Settled
  <2>1. caller[c].pc # "idle" => caller[c].id \in DOMAIN rows
    BY DEF Inv, TypeOK
  <2>2. QED BY <2>1 DEF Inv, UntilMoved, MessageStep, Settled, Row
<1>3. QED BY <1>1, <1>2 DEF CallerStep

(* Nothing is sent, and nothing but the caller changes. *)
LEMMA IdleStep ==
  ASSUME Inv, NEW c \in Callers, Refuse(c) \/ LookFails(c) \/ CompleteFails(c)
  PROVE  RowsStep /\ MessageStep /\ CallerStep(c)
<1>1. TypeOK /\ caller[c].pc # "idle" /\ Ends(c)
  BY DEF Inv, Refuse, LookFails, CompleteFails, Ready
<1>2. /\ UNCHANGED rowVars /\ UNCHANGED <<process, mirror>> /\ UNCHANGED arrivalVars
      /\ UNCHANGED <<here, there, done, others, orphans>> /\ (UNCHANGED faults \/ Fault)
  BY DEF Refuse, LookFails, CompleteFails, serverVars
<1>3. orphans' \subseteq (DOMAIN rows) \X Nat
  BY <1>1, <1>2 DEF TypeOK
<1>4. Unwritten(c) /\ RowsStep /\ MessageStep
  BY <1>1, <1>2, <1>3, StillUnwritten
<1>5. QED BY <1>1, <1>4, EndsOwn, RestStep DEF Unwritten

LEMMA LookStep ==
  ASSUME Inv, NEW c \in Callers, Look(c)
  PROVE  RowsStep /\ MessageStep /\ CallerStep(c)
<1>1. TypeOK /\ caller[c].pc # "idle"
  BY DEF Inv, Look, Ready
<1>2. /\ UNCHANGED rowVars /\ UNCHANGED <<process, mirror>> /\ UNCHANGED arrivalVars
      /\ UNCHANGED <<here, there, done, others, orphans>> /\ UNCHANGED faults
  BY DEF Look, serverVars
<1>3. orphans' \subseteq (DOMAIN rows) \X Nat
  BY <1>1, <1>2 DEF TypeOK
<1>4. Unwritten(c) /\ RowsStep /\ MessageStep
  BY <1>1, <1>2, <1>3, StillUnwritten
<1>5. /\ CallersTyped /\ DOMAIN rows \subseteq DOMAIN rows' /\ caller[c].id \in DOMAIN rows'
      /\ caller[c].id \in Nat /\ caller[c].seen \in TransferRow
  BY <1>1, <1>4, TypeParts, CallerTyped, RequestFields DEF RowsStep, Grow
<1>6. "looked" \in Places /\ "none" \in Answers /\ "applied" \in Answers /\ Staged \in TransferRow
      /\ Staged.state = "pending"
  BY RestTyped DEF Places, Answers, Staged
<1>7. CASE /\ Applied(caller[c].seen)
           /\ caller' = [caller EXCEPT ![c] = [AtRest EXCEPT !.pc = "looked", !.id = caller[c].id,
                                                             !.answer = "applied"]]
  <2>1. Becomes(c, "looked", caller[c].id, Staged, "applied")
    BY <1>5, <1>6, <1>7, CallerRestarts
  <2>2. kind = "move" => ~here'
    BY <1>2, <1>7 DEF Applied
  <2>3. QED BY <1>4, <1>6, <2>1, <2>2, OnStep
<1>8. CASE caller' = [caller EXCEPT ![c] = [AtRest EXCEPT !.pc = "looked", !.id = caller[c].id,
                                                               !.seen = ClaimOf(caller[c].seen)]]
  <2>1. ClaimOf(caller[c].seen) \in TransferRow /\ ClaimOf(caller[c].seen).state = "pending"
    BY <1>5, ClaimOfTyped
  <2>2. Becomes(c, "looked", caller[c].id, ClaimOf(caller[c].seen), "none")
    BY <1>5, <1>6, <1>8, <2>1, CallerRestarts
  <2>3. QED BY <1>4, <2>1, <2>2, OnStep
<1>9. CASE Ends(c)
  BY <1>1, <1>4, <1>9, EndsOwn, RestStep DEF Unwritten
<1>10. QED BY <1>7, <1>8, <1>9 DEF Look

(* A step that may write the caller's row and leaves the message alone. *)
LEMMA WriteStep ==
  ASSUME Inv, NEW c \in Callers, caller[c].pc # "idle", WritesOwn(c),
         kind = "move" /\ here' /\ rows'[caller[c].id].state \in Settled => Row(c).state \in Settled,
         inbox /\ kind = "move" /\ rows'[caller[c].id].state = "consumed" => Row(c).state = "consumed",
         UNCHANGED <<kind, inbox, rewrites, process, mirror>>, UNCHANGED serverVars, UNCHANGED arrivalVars,
         UNCHANGED faults
  PROVE  RowsStep /\ MessageStep
<1>1. TypeOK /\ UNCHANGED <<here, there, done, others>> /\ orphans' \subseteq (DOMAIN rows) \X Nat
  BY DEF Inv, TypeOK, serverVars
<1>2. RowsStep
  BY <1>1, WrittenStep
<1>3. QED BY <1>1, <1>2, StillStep DEF RowsStep

LEMMA ConfirmStep ==
  ASSUME Inv, NEW c \in Callers, Confirm(c)
  PROVE  RowsStep /\ MessageStep /\ CallerStep(c)
<1>1. TypeOK /\ caller[c].pc # "idle" /\ caller[c].answer = "applied"
  BY DEF Inv, Confirm
<1>2. UNCHANGED <<kind, inbox, rewrites, process, mirror>> /\ UNCHANGED serverVars /\ UNCHANGED arrivalVars
      /\ UNCHANGED faults /\ (kind = "move" => ~here) /\ here' = here
  BY <1>1 DEF Confirm, Inv, UntilMoved, serverVars
<1>3. CASE Row(c).state = "failed"
  <2>1. Ends(c) /\ UNCHANGED rows
    BY <1>3 DEF Confirm
  <2>2. WritesOwn(c) /\ rows'[caller[c].id] = Row(c)
    BY <1>1, <2>1, KeepsOwn DEF Unwritten
  <2>3. RowsStep /\ MessageStep
    BY <1>1, <1>2, <2>2, WriteStep
  <2>4. QED BY <1>1, <2>1, <2>2, <2>3, EndsOwn, RestStep
<1>4. CASE Row(c).state # "failed"
  <2>1. Completes(c) /\ Write(caller[c].id, Succeeded(Row(c), kind = "copy"))
    BY <1>4 DEF Confirm
  <2> DEFINE r == Succeeded(Row(c), kind = "copy")
  <2>2. Follows(Row(c), r) /\ r.state \in Settled /\ (r.state = "consumed" => Row(c).state = "consumed")
    <3>1. Row(c) \in TransferRow /\ Marked(Row(c)) /\ (kind = "copy") \in BOOLEAN
      BY <1>1, CallerTyped
    <3>2. Follows(Row(c), r) /\ r.state \in Settled
      BY <1>4, <3>1, SucceededFollows DEF Settled
    <3>3. r.state = "consumed" => Row(c).state = "consumed"
      BY <3>1 DEF TransferRow, Succeeded
    <3>4. QED BY <3>2, <3>3
  <2> HIDE DEF r
  <2>3. WritesOwn(c) /\ rows'[caller[c].id] = r
    BY <1>1, <2>1, <2>2, WriteOwn DEF r
  <2>4. RowsStep /\ MessageStep
    BY <1>1, <1>2, <2>2, <2>3, WriteStep
  <2>5. Becomes(c, "complete", caller[c].id, Staged, "none")
    BY <1>1, <2>1, <2>3, CompletesOwn
  <2>6. "complete" \notin {"cleanup", "staged"} /\ (kind = "move" => ~here')
    BY <1>2
  <2>7. QED BY <2>2, <2>3, <2>4, <2>5, <2>6 DEF CallerStep
<1>5. QED BY <1>3, <1>4

LEMMA ReopenStep ==
  ASSUME Inv, NEW c \in Callers, Reopen(c)
  PROVE  RowsStep /\ MessageStep /\ CallerStep(c)
<1>1. TypeOK /\ caller[c].pc # "idle" /\ caller[c].answer = "none" /\ Row(c) \in TransferRow
      /\ caller[c].seen \in TransferRow
  BY CallerTyped, RequestFields DEF Inv, Reopen
<1>2. UNCHANGED <<kind, inbox, rewrites, process, mirror>> /\ UNCHANGED serverVars /\ UNCHANGED arrivalVars
      /\ UNCHANGED faults
  BY DEF Reopen
<1>3. CASE HoldsClaim(c) /\ Inactive(Row(c))
  <2>1. Goes(c, "reopened") /\ Write(caller[c].id, Reopened(Row(c)))
    BY <1>3 DEF Reopen
  <2>2. Follows(Row(c), Reopened(Row(c))) /\ Reopened(Row(c)).state = Row(c).state
    BY <1>1, ReopenedFollows
  <2>3. WritesOwn(c) /\ rows'[caller[c].id].state = Row(c).state
    BY <1>1, <2>1, <2>2, WriteOwn
  <2>4. RowsStep /\ MessageStep
    BY <1>1, <1>2, <2>3, WriteStep
  <2>5. Becomes(c, "reopened", caller[c].id, caller[c].seen, caller[c].answer)
    BY <1>1, <2>1, <2>3, GoesOwn DEF Places
  <2>6. QED BY <1>1, <2>4, <2>5, OnStep
<1>4. CASE ~(HoldsClaim(c) /\ Inactive(Row(c)))
  <2>1. Ends(c) /\ UNCHANGED rows
    BY <1>4 DEF Reopen
  <2>2. WritesOwn(c) /\ rows'[caller[c].id] = Row(c)
    BY <1>1, <2>1, KeepsOwn DEF Unwritten
  <2>3. RowsStep /\ MessageStep
    BY <1>1, <1>2, <2>2, WriteStep
  <2>4. QED BY <1>1, <2>1, <2>2, <2>3, EndsOwn, RestStep
<1>5. QED BY <1>3, <1>4

LEMMA ClaimStep ==
  ASSUME Inv, NEW c \in Callers, Claim(c)
  PROVE  RowsStep /\ MessageStep /\ CallerStep(c)
<1>1. TypeOK /\ caller[c].pc # "idle" /\ Row(c) \in TransferRow /\ process \in Nat
  BY CallerTyped DEF Inv, Claim, Ready, TypeOK
<1>2. UNCHANGED <<kind, inbox, rewrites, process, mirror>> /\ UNCHANGED serverVars /\ UNCHANGED arrivalVars
      /\ UNCHANGED faults /\ here' = here
  BY DEF Claim, serverVars
<1>3. CASE Row(c).state = "pending" /\ ~Row(c).dispatched
  <2>1. /\ Write(caller[c].id, ClaimedNow(Row(c)))
        /\ caller' = [caller EXCEPT ![c].pc = "claimed", ![c].seen = ClaimOf(ClaimedNow(Row(c)))]
    BY <1>3 DEF Claim
  <2>2. Follows(Row(c), ClaimedNow(Row(c))) /\ ClaimedNow(Row(c)).state = Row(c).state
    BY <1>1, ClaimFollows
  <2>3. WritesOwn(c) /\ rows'[caller[c].id].state = Row(c).state
    BY <1>1, <2>1, <2>2, WriteOwn
  <2>4. RowsStep /\ MessageStep
    BY <1>1, <1>2, <2>3, WriteStep
  <2>5. ClaimOf(ClaimedNow(Row(c))) \in TransferRow /\ ClaimOf(ClaimedNow(Row(c))).state = "pending"
    BY <2>2, ClaimOfTyped DEF Follows
  <2>6. Becomes(c, "claimed", caller[c].id, ClaimOf(ClaimedNow(Row(c))), caller[c].answer)
    BY <1>1, <2>1, <2>3, <2>5, TypeParts, CallerKnows DEF WritesOwn, Places, Claimed
  <2>7. kind = "move" /\ here' => caller[c].answer \notin {"moved", "placed", "applied"}
    BY <1>2 DEF Inv, UntilMoved
  <2>8. QED BY <2>4, <2>5, <2>6, <2>7, OnStep
<1>4. CASE ~(Row(c).state = "pending" /\ ~Row(c).dispatched)
  <2>1. Ends(c) /\ UNCHANGED rows
    BY <1>4 DEF Claim
  <2>2. WritesOwn(c) /\ rows'[caller[c].id] = Row(c)
    BY <1>1, <2>1, KeepsOwn DEF Unwritten
  <2>3. RowsStep /\ MessageStep
    BY <1>1, <1>2, <2>2, WriteStep
  <2>4. QED BY <1>1, <2>1, <2>2, <2>3, EndsOwn, RestStep
<1>5. QED BY <1>3, <1>4

(* What is answered, or goes on its way, without a change to the journal. *)
LEMMA SendStep ==
  ASSUME Inv, NEW c \in Callers, Send(c) \/ NotSent(c) \/ Decline(c)
  PROVE  RowsStep /\ MessageStep /\ CallerStep(c)
<1>1. TypeOK /\ caller[c].pc # "idle" /\ caller[c].seen \in TransferRow
  BY CallerTyped, RequestFields DEF Inv, Send, NotSent, Decline
<1>2. /\ UNCHANGED rowVars /\ UNCHANGED <<process, mirror>> /\ UNCHANGED arrivalVars
      /\ UNCHANGED <<here, there, done, others, orphans>> /\ (UNCHANGED faults \/ Fault)
  BY DEF Send, NotSent, Decline, serverVars
<1>3. orphans' \subseteq (DOMAIN rows) \X Nat
  BY <1>1, <1>2 DEF TypeOK
<1>4. Unwritten(c) /\ RowsStep /\ MessageStep
  BY <1>1, <1>2, <1>3, StillUnwritten
<1>5. CASE Answered(c, "refused") \/ Answered(c, "unsent")
  <2>1. PICK a \in {"refused", "unsent"} : Answered(c, a)
    BY <1>5
  <2>2. Becomes(c, "settle", caller[c].id, caller[c].seen, a)
    BY <1>1, <1>4, <2>1, AnsweredOwn DEF Unwritten, Answers
  <2>3. QED BY <1>1, <1>4, <2>2, OnStep
<1>6. CASE Goes(c, "sent")
  <2>1. Becomes(c, "sent", caller[c].id, caller[c].seen, caller[c].answer)
    BY <1>1, <1>4, <1>6, GoesOwn DEF Unwritten, Places, Claimed
  <2>2. kind = "move" /\ here' => caller[c].answer \notin {"moved", "placed", "applied"}
    BY <1>2 DEF Inv, UntilMoved
  <2>3. QED BY <1>1, <1>4, <2>1, <2>2, OnStep
<1>7. QED BY <1>5, <1>6 DEF Send, NotSent, Decline

LEMMA AnswerStep ==
  ASSUME Inv, NEW c \in Callers, Answer(c)
  PROVE  RowsStep /\ MessageStep /\ CallerStep(c)
<1>1. TypeOK /\ caller[c].pc # "idle" /\ caller[c].seen \in TransferRow
  BY CallerTyped, RequestFields DEF Inv, Answer
<1>2. /\ UNCHANGED rowVars /\ UNCHANGED <<process, mirror>> /\ UNCHANGED arrivalVars
      /\ UNCHANGED <<here, there, done, others, orphans>> /\ UNCHANGED faults
  BY DEF Answer, serverVars
<1>3. orphans' \subseteq (DOMAIN rows) \X Nat
  BY <1>1, <1>2 DEF TypeOK
<1>4. Unwritten(c) /\ RowsStep /\ MessageStep
  BY <1>1, <1>2, <1>3, StillUnwritten
<1>5. PICK a \in {"moved", "placed", "applied"} : Answered(c, a)
  BY DEF Answer, Done
<1>6. Becomes(c, "settle", caller[c].id, caller[c].seen, a)
  BY <1>1, <1>4, <1>5, AnsweredOwn DEF Unwritten, Answers
<1>7. kind = "move" => ~here'
  BY <1>2 DEF Inv, UntilMoved, Answer
<1>8. QED BY <1>1, <1>4, <1>6, <1>7, OnStep

(* The server runs a command. *)
LEMMA EffectStep ==
  ASSUME Inv, Grow, NEW i \in DOMAIN rows, Effect(i), orphans' \subseteq (DOMAIN rows) \X Nat,
         UNCHANGED <<kind, inbox, rewrites, process, mirror>>, UNCHANGED <<arrivalVars, others>>, UNCHANGED faults
  PROVE  MessageStep /\ (kind = "move" => ~here')
<1>1. TypeOK /\ RestTypedOK
  BY TypeParts DEF Inv
<1>2. CASE kind = "move" /\ ~here
  <2>1. UNCHANGED <<here, there, done>>
    BY <1>2 DEF Effect
  <2>2. QED BY <1>1, <1>2, <2>1, StillStep
<1>3. CASE ~(kind = "move" /\ ~here)
  <2>1. here' = (kind = "copy" /\ here) /\ there' = there + 1 /\ done' = done \cup {i}
    BY <1>3 DEF Effect
  <2>2. here' \in BOOLEAN /\ there' \in Nat /\ done' \subseteq DOMAIN rows /\ there' >= there
    BY <1>1, <2>1 DEF RestTypedOK
  <2>3. RestTypedOK'
    BY <1>1, <2>2, RestKept
  <2>4. (kind = "move" => ~here') /\ (here' => here)
    BY <2>1
  <2>5. QED BY <2>2, <2>3, <2>4 DEF MessageStep, arrivalVars
<1>4. QED BY <1>2, <1>3

LEMMA ExecuteStep ==
  ASSUME Inv, NEW c \in Callers, Execute(c)
  PROVE  RowsStep /\ MessageStep /\ CallerStep(c)
<1>1. TypeOK /\ caller[c].pc # "idle" /\ caller[c].seen \in TransferRow /\ caller[c].id \in DOMAIN rows
  BY CallerTyped, RequestFields DEF Inv, Execute
<1>2. /\ UNCHANGED rows /\ UNCHANGED <<kind, inbox, rewrites, process, mirror>>
      /\ UNCHANGED <<arrivalVars, others>> /\ UNCHANGED faults /\ UNCHANGED orphans
  BY DEF Execute, rowVars
<1>3. Unwritten(c) /\ Grow
  BY <1>1, <1>2, KeepsOwn DEF Unwritten, WritesOwn
<1>4. orphans' \subseteq (DOMAIN rows) \X Nat
  BY <1>1, <1>2 DEF TypeOK
<1>5. MessageStep /\ (kind = "move" => ~here')
  BY <1>1, <1>2, <1>3, <1>4, EffectStep DEF Execute
<1>6. Becomes(c, "executed", caller[c].id, caller[c].seen, caller[c].answer)
  BY <1>1, <1>3, GoesOwn DEF Execute, Unwritten, Places, Claimed
<1>7. QED BY <1>1, <1>3, <1>5, <1>6, OnStep, UnwrittenStep

LEMMA AbandonedTyped ==
  ASSUME TypeOK, NEW c \in Callers
  PROVE  Abandoned(c) \subseteq (DOMAIN rows) \X Nat
<1>1. orphans \subseteq (DOMAIN rows) \X Nat
  BY DEF TypeOK
<1>2. CASE caller[c].pc = "sent"
  <2>1. caller[c].id \in DOMAIN rows /\ caller[c].seen \in TransferRow
    BY <1>2, CallerTyped, RequestFields
  <2>2. caller[c].seen.attempt \in Nat
    BY <2>1, RowFields
  <2>3. QED BY <1>1, <1>2, <2>1, <2>2 DEF Abandoned
<1>3. QED BY <1>1, <1>2 DEF Abandoned

LEMMA LoseStep ==
  ASSUME Inv, NEW c \in Callers, LoseAnswer(c) \/ Panic(c)
  PROVE  RowsStep /\ MessageStep /\ CallerStep(c)
<1>1. TypeOK /\ caller[c].pc # "idle" /\ caller[c].seen \in TransferRow
  BY CallerTyped, RequestFields DEF Inv, LoseAnswer, Panic
<1>2. /\ UNCHANGED rowVars /\ UNCHANGED <<process, mirror>> /\ UNCHANGED arrivalVars
      /\ UNCHANGED <<here, there, done, others>> /\ Fault /\ orphans' = Abandoned(c)
  BY DEF LoseAnswer, Panic, serverVars
<1>3. orphans' \subseteq (DOMAIN rows) \X Nat
  BY <1>1, <1>2, AbandonedTyped
<1>4. Unwritten(c) /\ RowsStep /\ MessageStep
  BY <1>1, <1>2, <1>3, StillUnwritten
<1>5. CASE Answered(c, "unknown")
  <2>1. Becomes(c, "settle", caller[c].id, caller[c].seen, "unknown")
    BY <1>1, <1>4, <1>5, AnsweredOwn DEF Unwritten, Answers
  <2>2. QED BY <1>1, <1>4, <2>1, OnStep
<1>6. CASE Ends(c)
  BY <1>1, <1>4, <1>6, EndsOwn, RestStep DEF Unwritten
<1>7. QED BY <1>5, <1>6 DEF LoseAnswer, Panic

(* What Outcome makes of the row that Found describes. *)
LEMMA OutcomeFollows ==
  ASSUME Inv, NEW c \in Callers, caller[c].pc = "settle", Found(c)
  PROVE  /\ Follows(Row(c), Outcome(c))
         /\ Outcome(c).state \in Settled =>
              Row(c).state \in Settled \/ caller[c].answer \in {"moved", "placed", "applied"}
         /\ caller[c].answer \in Done => Outcome(c).state \in Settled
         /\ Outcome(c).state = "consumed" => Row(c).state = "consumed"
<1> DEFINE a == caller[c].answer
           r == Row(c)
<1>1. r \in TransferRow /\ Marked(r) /\ FALSE \in BOOLEAN /\ TRUE \in BOOLEAN
  BY CallerTyped DEF Inv
<1>2. CASE a \in {"moved", "applied", "placed"} /\ r.state # "failed"
  <2>1. PICK u \in BOOLEAN : Outcome(c) = Succeeded(r, u)
    BY <1>2 DEF Outcome
  <2>2. Follows(r, Succeeded(r, u)) /\ Succeeded(r, u).state \in Settled
    BY <1>1, <1>2, SucceededFollows DEF Settled
  <2>3. Succeeded(r, u).state = "consumed" => r.state = "consumed"
    BY <1>1 DEF TransferRow, Succeeded
  <2>4. QED BY <1>2, <2>1, <2>2, <2>3
<1>3. CASE a = "refused" /\ r.state = "pending"
  <2>1. Outcome(c) = [r EXCEPT !.state = "failed"]
    BY <1>3 DEF Outcome
  <2>2. Follows(r, [r EXCEPT !.state = "failed"])
    BY <1>1, <1>3, SetState DEF Later, States
  <2>3. [r EXCEPT !.state = "failed"].state = "failed"
    BY <1>1 DEF TransferRow
  <2>4. QED BY <1>3, <2>1, <2>2, <2>3 DEF Settled, Done
<1>4. CASE a = "unsent" /\ HoldsClaim(c)
  <2>1. Outcome(c) = Reopened(r)
    BY <1>4 DEF Outcome
  <2>2. Follows(r, Reopened(r)) /\ Reopened(r).state = r.state
    BY <1>1, ReopenedFollows
  <2>3. QED BY <1>4, <2>1, <2>2 DEF Done
<1>5. CASE a = "unknown" /\ HoldsClaim(c)
  <2>1. Outcome(c) = [r EXCEPT !.finished = TRUE]
    BY <1>5 DEF Outcome
  <2>2. Follows(r, [r EXCEPT !.finished = TRUE])
    BY <1>1, <1>5, MarkFollows DEF HoldsClaim
  <2>3. [r EXCEPT !.finished = TRUE].state = r.state
    BY <1>1 DEF TransferRow
  <2>4. QED BY <1>5, <2>1, <2>2, <2>3 DEF Done
<1>6. QED BY <1>2, <1>3, <1>4, <1>5 DEF Found

LEMMA SettleStep ==
  ASSUME Inv, NEW c \in Callers, Settle(c)
  PROVE  RowsStep /\ MessageStep /\ CallerStep(c)
<1>1. TypeOK /\ caller[c].pc # "idle" /\ caller[c].pc = "settle"
  BY DEF Inv, Settle
<1>2. UNCHANGED <<kind, inbox, rewrites, process, mirror>> /\ UNCHANGED serverVars /\ UNCHANGED arrivalVars
      /\ UNCHANGED faults /\ here' = here
  BY DEF Settle, serverVars
<1>3. kind = "move" /\ here' => caller[c].answer \notin {"moved", "placed", "applied"}
  BY <1>2 DEF Inv, UntilMoved
<1>4. CASE Found(c)
  <2> DEFINE r == Outcome(c)
  <2>1. /\ Follows(Row(c), r)
        /\ r.state \in Settled => Row(c).state \in Settled \/ caller[c].answer \in {"moved", "placed", "applied"}
        /\ caller[c].answer \in Done => r.state \in Settled
        /\ r.state = "consumed" => Row(c).state = "consumed"
    BY <1>1, <1>4, OutcomeFollows
  <2>2. Write(caller[c].id, r)
    BY <1>4 DEF Settle
  <2> HIDE DEF r
  <2>3. WritesOwn(c) /\ rows'[caller[c].id] = r
    BY <1>1, <2>1, <2>2, WriteOwn
  <2>4. RowsStep /\ MessageStep
    BY <1>1, <1>2, <1>3, <2>1, <2>3, WriteStep
  <2>5. CASE caller[c].answer \in Done
    <3>1. Completes(c)
      BY <1>4, <2>5 DEF Settle
    <3>2. Becomes(c, "complete", caller[c].id, Staged, "none")
      BY <1>1, <2>3, <3>1, CompletesOwn
    <3>3. "complete" \notin {"cleanup", "staged"} /\ ~(kind = "move" /\ here')
      BY <1>3, <2>5 DEF Done
    <3>4. QED BY <2>1, <2>3, <2>4, <2>5, <3>2, <3>3 DEF CallerStep
  <2>6. CASE caller[c].answer \notin Done
    <3>1. Ends(c)
      BY <2>6 DEF Settle
    <3>2. QED BY <1>1, <2>3, <2>4, <3>1, EndsOwn, RestStep
  <2>7. QED BY <2>5, <2>6
<1>5. CASE ~Found(c)
  <2>1. Ends(c) /\ UNCHANGED rows
    BY <1>5 DEF Settle
  <2>2. WritesOwn(c) /\ rows'[caller[c].id] = Row(c)
    BY <1>1, <2>1, KeepsOwn DEF Unwritten
  <2>3. RowsStep /\ MessageStep
    BY <1>1, <1>2, <2>2, WriteStep
  <2>4. QED BY <1>1, <2>1, <2>2, <2>3, EndsOwn, RestStep
<1>6. QED BY <1>4, <1>5

LEMMA SettleFailsStep ==
  ASSUME Inv, NEW c \in Callers, SettleFails(c)
  PROVE  RowsStep /\ MessageStep /\ CallerStep(c)
<1>1. TypeOK /\ caller[c].pc # "idle" /\ caller[c].seen \in TransferRow
  BY CallerTyped, RequestFields DEF Inv, SettleFails
<1>2. /\ UNCHANGED rowVars /\ UNCHANGED <<process, mirror>> /\ UNCHANGED arrivalVars
      /\ UNCHANGED <<here, there, done, others, orphans>> /\ Fault
  BY DEF SettleFails, serverVars
<1>3. orphans' \subseteq (DOMAIN rows) \X Nat
  BY <1>1, <1>2 DEF TypeOK
<1>4. Unwritten(c) /\ RowsStep /\ MessageStep
  BY <1>1, <1>2, <1>3, StillUnwritten
<1>5. CASE Answered(c, "unknown")
  <2>1. Becomes(c, "settle", caller[c].id, caller[c].seen, "unknown")
    BY <1>1, <1>4, <1>5, AnsweredOwn DEF Unwritten, Answers
  <2>2. QED BY <1>1, <1>4, <2>1, OnStep
<1>6. CASE Ends(c)
  BY <1>1, <1>4, <1>6, EndsOwn, RestStep DEF Unwritten
<1>7. QED BY <1>5, <1>6 DEF SettleFails

LEMMA CompleteStep ==
  ASSUME Inv, NEW c \in Callers, Complete(c)
  PROVE  RowsStep /\ MessageStep /\ CallerStep(c)
<1>1. TypeOK /\ caller[c].pc # "idle" /\ caller[c].pc = "complete" /\ Row(c) \in TransferRow /\ Marked(Row(c))
  BY CallerTyped DEF Inv, Complete
<1>2. UNCHANGED <<kind, inbox, rewrites, process, mirror>> /\ UNCHANGED serverVars /\ UNCHANGED arrivalVars
      /\ UNCHANGED faults /\ here' = here
  BY DEF Complete, serverVars
<1>3. Row(c).state \in Settled /\ ~(kind = "move" /\ here')
  BY <1>1, <1>2 DEF Inv, KnowsSettled, UntilMoved
<1>4. /\ WritesOwn(c) /\ rows'[caller[c].id].state \in Settled
      /\ inbox => rows'[caller[c].id] = Row(c)
  <2>1. CASE ~inbox /\ Row(c).state \in {"succeeded", "consumed"}
    <3> DEFINE r == [Row(c) EXCEPT !.state = "consumed"]
    <3>1. Follows(Row(c), r)
      BY <1>1, <2>1, SetState DEF Later, States
    <3>2. r.state = "consumed"
      BY <1>1 DEF TransferRow
    <3>3. Write(caller[c].id, r)
      BY <2>1 DEF Complete
    <3> HIDE DEF r
    <3>4. QED BY <1>1, <2>1, <3>1, <3>2, <3>3, WriteOwn DEF Settled
  <2>2. CASE ~(~inbox /\ Row(c).state \in {"succeeded", "consumed"})
    <3>1. UNCHANGED rows
      BY <2>2 DEF Complete
    <3>2. QED BY <1>1, <1>3, <3>1, KeepsOwn DEF Unwritten
  <2>3. QED BY <2>1, <2>2
<1>5. RowsStep /\ MessageStep
  BY <1>1, <1>2, <1>3, <1>4, WriteStep
<1>6. CASE kind = "move" /\ Goes(c, "cleanup")
  <2>1. Becomes(c, "cleanup", caller[c].id, caller[c].seen, caller[c].answer)
    BY <1>1, <1>4, <1>6, GoesOwn DEF Places
  <2>2. "cleanup" # "staged"
    OBVIOUS
  <2>3. QED BY <1>3, <1>4, <1>5, <1>6, <2>1, <2>2 DEF CallerStep
<1>7. CASE Ends(c)
  BY <1>1, <1>4, <1>5, <1>7, EndsOwn, RestStep
<1>8. QED BY <1>6, <1>7 DEF Complete

(* The one step of a request that drops the local row: its move is settled,  *)
(* so the server no longer has the message.                                  *)
LEMMA CleanupStep ==
  ASSUME Inv, NEW c \in Callers, Cleanup(c)
  PROVE  RowsStep /\ MessageStep /\ CallerStep(c)
<1>1. TypeOK /\ RestTypedOK /\ caller[c].pc = "cleanup" /\ caller[c].pc # "idle" /\ caller[c].id \in DOMAIN rows
  BY CallerTyped, TypeParts DEF Inv, Cleanup
<1>2. UNCHANGED rows /\ ~mirror' /\ Ends(c)
  BY DEF Cleanup, rowVars
<1>3. Unwritten(c) /\ RowsStep /\ WritesOwn(c)
  BY <1>1, <1>2, KeepsOwn, UnwrittenStep DEF Unwritten
<1>4. kind = "move" /\ Row(c).state \in Settled /\ ~here
  BY <1>1 DEF Inv, KnowsSettled, UntilMoved
<1>5. kind' = kind /\ inbox' = inbox /\ rewrites' = rewrites /\ process' = process /\ UNCHANGED arrivalVars
      /\ here' = here /\ there' = there /\ orphans' = orphans /\ done' = done /\ others' = others
      /\ faults' = faults
  BY DEF Cleanup, rowVars, serverVars
<1>6. RestTypedOK'
  <2>1. mirror' \in BOOLEAN
    BY DEF Cleanup
  <2>2. DOMAIN rows' = DOMAIN rows
    BY <1>2
  <2>3. arrival' = arrival /\ evidence' = evidence /\ probing' = probing
    BY <1>5 DEF arrivalVars
  <2>4. QED BY <1>1, <1>5, <2>1, <2>2, <2>3 DEF RestTypedOK
<1>7. there' >= there /\ ~here'
  BY <1>1, <1>4, <1>5 DEF RestTypedOK
<1>8. \E i \in DOMAIN rows' : rows'[i].state \in Settled
  BY <1>1, <1>3, <1>4 DEF Unwritten, WritesOwn
<1>9. MessageStep
  BY <1>2, <1>4, <1>5, <1>6, <1>7, <1>8 DEF MessageStep, arrivalVars
<1>10. QED BY <1>1, <1>2, <1>3, <1>9, EndsOwn, RestStep

LEMMA TakeUpStep ==
  ASSUME Inv, NEW c \in Callers, TakeUpSettled(c)
  PROVE  RowsStep /\ MessageStep /\ CallerStep(c)
<1>1. TypeOK /\ caller[c].pc = "staged" /\ caller[c].pc # "idle" /\ Row(c) \in TransferRow /\ Marked(Row(c))
      /\ caller[c] \in Request
  BY CallerTyped DEF Inv, TakeUpSettled
<1>2. UNCHANGED <<kind, inbox, rewrites, process, mirror>> /\ UNCHANGED serverVars /\ UNCHANGED arrivalVars
      /\ UNCHANGED faults /\ here' = here
  BY DEF TakeUpSettled, serverVars
<1>3. caller[c].seen.state # "pending" /\ Row(c).state \in Settled
  BY <1>1 DEF Inv, KnowsSettled, TakeUpSettled
<1>4. WritesOwn(c) /\ rows'[caller[c].id].state \in Settled
      /\ (kind = "move" => rows'[caller[c].id] = Row(c))
  <2>1. CASE UNCHANGED rows
    BY <1>1, <1>3, <2>1, KeepsOwn DEF Unwritten
  <2>2. CASE kind # "move" /\ Write(caller[c].id, Succeeded(Row(c), TRUE))
    <3>1. Row(c).state # "failed" /\ TRUE \in BOOLEAN
      BY <1>3 DEF Settled
    <3>2. Follows(Row(c), Succeeded(Row(c), TRUE)) /\ Succeeded(Row(c), TRUE).state \in Settled
      BY <1>1, <3>1, SucceededFollows DEF Settled
    <3>3. QED BY <1>1, <2>2, <3>2, WriteOwn
  <2>3. QED BY <2>1, <2>2 DEF TakeUpSettled
<1>5. RowsStep /\ MessageStep
  BY <1>1, <1>2, <1>3, <1>4, WriteStep
<1>6. CASE Completes(c)
  <2>1. Becomes(c, "complete", caller[c].id, Staged, "none")
    BY <1>1, <1>4, <1>6, CompletesOwn
  <2>2. ~(kind = "move" /\ here')
    <3>1. caller[c].id \in DOMAIN rows
      BY <1>1, CallerTyped
    <3>2. QED BY <1>2, <1>3, <3>1 DEF Inv, UntilMoved, Row
  <2>3. "complete" \notin {"cleanup", "staged"}
    OBVIOUS
  <2>4. QED BY <1>4, <1>5, <2>1, <2>2, <2>3 DEF CallerStep
<1>7. CASE Ends(c)
  BY <1>1, <1>4, <1>5, <1>7, EndsOwn, RestStep
<1>8. QED BY <1>6, <1>7 DEF TakeUpSettled

LEMMA StagingStep ==
  ASSUME Inv, NEW c \in Callers, Stage(c)
  PROVE  RowsStep /\ MessageStep /\ CallerStep(c)
<1>1. TypeOK /\ CallersTyped
  BY TypeParts DEF Inv
<1>2. /\ Grow
      /\ \A i \in DOMAIN rows : rows'[i] = rows[i]
      /\ \A i \in DOMAIN rows' : i \notin DOMAIN rows => rows'[i].state = "pending"
  BY <1>1, StageStep
<1>3. PICK i \in DOMAIN rows', s \in TransferRow :
              /\ Becomes(c, "staged", i, s, "none")
              /\ rows'[i].state = s.state /\ s.state # "failed"
  BY <1>1, StageStep
<1>4. UNCHANGED <<kind, inbox, rewrites, process, mirror>> /\ UNCHANGED arrivalVars
      /\ UNCHANGED <<here, there, done, others, orphans>> /\ UNCHANGED faults
  BY DEF Stage, serverVars
<1>5. orphans' \subseteq (DOMAIN rows) \X Nat
  BY <1>1, <1>4 DEF TypeOK
<1>6. MessageStep
  BY <1>1, <1>2, <1>4, <1>5, StillStep
<1>7. RowsStep
  BY <1>2 DEF RowsStep, Settled
<1>8. s.state # "pending" => rows'[i].state \in Settled
  BY <1>3, RowFields DEF Settled, States
<1>9. kind = "move" /\ here' => s.state \notin Settled
  <2>1. SUFFICES ASSUME kind = "move", here', rows'[i].state \in Settled PROVE FALSE
    BY <1>3
  <2>2. i \in DOMAIN rows /\ rows[i].state \in Settled
    BY <1>7, <2>1 DEF RowsStep
  <2>3. QED BY <1>4, <2>1, <2>2 DEF Inv, UntilMoved
<1>10. "staged" \notin {"executed", "complete", "cleanup"} /\ "none" \notin {"moved", "placed", "applied"}
  OBVIOUS
<1>11. CallerStep(c)
  BY <1>3, <1>8, <1>9, <1>10 DEF CallerStep
<1>12. QED BY <1>6, <1>7, <1>11

(* The boundary of a copy is asked for, *)
LEMMA SurveyStep ==
  ASSUME Inv, NEW c \in Callers, Survey(c)
  PROVE  RowsStep /\ MessageStep /\ CallerStep(c)
<1> DEFINE s == [caller[c].seen EXCEPT !.next = there + 1]
<1>1. TypeOK /\ caller[c].pc # "idle" /\ caller[c].seen \in TransferRow /\ there + 1 \in Nat
  <2>1. TypeOK /\ caller[c].pc # "idle" /\ there \in Nat
    BY DEF Inv, Survey, TypeOK
  <2>2. QED BY <2>1, CallerTyped, RequestFields
<1>2. /\ UNCHANGED rowVars /\ UNCHANGED <<process, mirror>> /\ UNCHANGED arrivalVars
      /\ UNCHANGED <<here, there, done, others, orphans>> /\ UNCHANGED faults
  BY DEF Survey, serverVars
<1>3. orphans' \subseteq (DOMAIN rows) \X Nat
  BY <1>1, <1>2 DEF TypeOK
<1>4. Unwritten(c) /\ RowsStep /\ MessageStep
  BY <1>1, <1>2, <1>3, StillUnwritten
<1>5. s \in TransferRow /\ s.state = caller[c].seen.state
  BY <1>1 DEF TransferRow
<1>6. caller' = [caller EXCEPT ![c].pc = "surveyed", ![c].seen = s]
  <2>1. caller \in [Callers -> Request]
    BY <1>1 DEF TypeOK
  <2>2. QED BY <2>1 DEF Survey, Request
<1> HIDE DEF s
<1>7. CallersTyped /\ DOMAIN rows \subseteq DOMAIN rows' /\ "surveyed" \in Places
  BY <1>1, <1>4, TypeParts DEF RowsStep, Grow, Places
<1>8. Becomes(c, "surveyed", caller[c].id, s, caller[c].answer)
  BY <1>1, <1>5, <1>6, <1>7, CallerKnows
<1>9. kind = "move" /\ here' => caller[c].answer \notin {"moved", "placed", "applied"}
  BY <1>2 DEF Inv, UntilMoved
<1>10. QED BY <1>4, <1>5, <1>8, <1>9, OnStep

(* and written to the row, unless it has one, which is then the caller's.    *)
LEMMA SetBoundaryStep ==
  ASSUME Inv, NEW c \in Callers, SetBoundary(c)
  PROVE  RowsStep /\ MessageStep /\ CallerStep(c)
<1> DEFINE r == Bounded(Row(c), caller[c].seen.next)
<1>1. TypeOK /\ caller[c].pc # "idle" /\ Row(c) \in TransferRow /\ Marked(Row(c))
      /\ caller[c].seen.next \in Nat
  BY CallerTyped, RequestFields, RowFields DEF Inv, SetBoundary
<1>2. UNCHANGED <<kind, inbox, rewrites, process, mirror>> /\ UNCHANGED serverVars /\ UNCHANGED arrivalVars
      /\ UNCHANGED faults /\ here' = here
  BY DEF SetBoundary, serverVars
<1>3. Follows(Row(c), r) /\ r.state = Row(c).state /\ r \in TransferRow
  BY <1>1, BoundedFollows DEF Follows
<1>4. /\ Write(caller[c].id, r)
      /\ Ends(c) \/ caller' = [caller EXCEPT ![c].pc = "bounded", ![c].seen = r]
  BY DEF SetBoundary
<1> HIDE DEF r
<1>5. WritesOwn(c) /\ rows'[caller[c].id] = r
  BY <1>1, <1>3, <1>4, WriteOwn
<1>6. RowsStep /\ MessageStep
  BY <1>1, <1>2, <1>3, <1>5, WriteStep
<1>7. CASE Ends(c)
  BY <1>1, <1>5, <1>6, <1>7, EndsOwn, RestStep
<1>8. CASE caller' = [caller EXCEPT ![c].pc = "bounded", ![c].seen = r]
  <2>1. CallersTyped /\ DOMAIN rows \subseteq DOMAIN rows' /\ "bounded" \in Places
    BY <1>1, <1>5, TypeParts DEF WritesOwn, Places
  <2>2. Becomes(c, "bounded", caller[c].id, r, caller[c].answer)
    BY <1>1, <1>3, <1>8, <2>1, CallerKnows
  <2>3. kind = "move" /\ here' => caller[c].answer \notin {"moved", "placed", "applied"}
    BY <1>2 DEF Inv, UntilMoved
  <2>4. QED BY <1>1, <1>3, <1>6, <2>2, <2>3, OnStep
<1>9. QED BY <1>4, <1>7, <1>8

LEMMA RequestStep ==
  ASSUME Inv, NEW c \in Callers, Serve(c) \/ Failure(c)
  PROVE  RowsStep /\ MessageStep /\ CallerStep(c)
BY StagingStep, TakeUpStep, SurveyStep, SetBoundaryStep, IdleStep, LookStep, ConfirmStep, ReopenStep,
   ClaimStep, SendStep, ExecuteStep, AnswerStep, SettleStep, CompleteStep, CleanupStep, LoseStep, SettleFailsStep
   DEF Serve, Failure

-----------------------------------------------------------------------------
(* Each part of the invariant survives a step of that kind, *)

LEMMA CallersMove ==
  ASSUME NEW c \in Callers, CallerStep(c)
  PROVE  CallersStep
<1>1. PICK p, i, s, a :
     /\ Becomes(c, p, i, s, a)
     /\ p \in {"complete", "cleanup"} => rows'[i].state \in Settled
     /\ p = "cleanup" => kind = "move"
     /\ p = "staged" /\ s.state # "pending" => rows'[i].state \in Settled
     /\ kind = "move" /\ here' => /\ p \notin {"executed", "complete", "cleanup"}
                                  /\ a \notin {"moved", "placed", "applied"}
                                  /\ s.state \notin Settled
  BY DEF CallerStep
<1>2. /\ CallersTyped' /\ caller'[c].pc = p /\ caller'[c].id = i /\ caller'[c].seen = s /\ caller'[c].answer = a
      /\ \A d \in Callers : d # c => caller'[d] = caller[d]
  BY <1>1 DEF Becomes
<1>3. Sound(caller'[c])
  BY <1>1, <1>2 DEF Sound
<1>4. QED BY <1>2, <1>3 DEF CallersStep

LEMMA QuietCallers ==
  ASSUME Inv, RowsStep, UNCHANGED caller
  PROVE  CallersStep
<1>1. CallersTyped
  BY TypeParts DEF Inv
<1>2. QED BY <1>1 DEF CallersTyped, CallersStep, RowsStep, Grow

LEMMA StepKeeps ==
  ASSUME Inv, RowsStep, MessageStep, CallersStep
  PROVE  Inv'
<1>2. CallersTyped' /\ \A d \in Callers : caller'[d] = caller[d] \/ Sound(caller'[d])
  BY DEF CallersStep
<1>3. TypeOK'
  BY <1>2, TypeParts DEF RowsStep, Grow, MessageStep, TypeOK, RowsTyped, CallersTyped, RestTypedOK, Marked
<1>4. kind' = kind /\ inbox' = inbox /\ rewrites' = rewrites
      /\ arrival' = arrival /\ evidence' = evidence /\ (probing' => probing)
  BY DEF MessageStep
<1>5. UntilMoved'
  <2>1. SUFFICES ASSUME kind = "move", here'
        PROVE /\ mirror' /\ there' = 0
              /\ \A j \in DOMAIN rows' : rows'[j].state \notin Settled
              /\ \A d \in Callers : /\ caller'[d].pc \notin {"executed", "complete", "cleanup"}
                                    /\ caller'[d].answer \notin {"moved", "placed", "applied"}
                                    /\ caller'[d].seen.state \notin Settled
    BY <1>4 DEF UntilMoved
  <2>2. here /\ there' = there /\ mirror' = mirror
    BY <2>1 DEF MessageStep
  <2>3. mirror' /\ there' = 0
    BY <2>1, <2>2 DEF Inv, UntilMoved
  <2>4. \A j \in DOMAIN rows' : rows'[j].state \notin Settled
    BY <2>1, <2>2 DEF RowsStep, Inv, UntilMoved
  <2>5. ASSUME NEW d \in Callers
        PROVE  /\ caller'[d].pc \notin {"executed", "complete", "cleanup"}
               /\ caller'[d].answer \notin {"moved", "placed", "applied"}
               /\ caller'[d].seen.state \notin Settled
    <3>1. CASE Sound(caller'[d])
      BY <2>1, <3>1 DEF Sound
    <3>2. CASE caller'[d] = caller[d]
      BY <2>1, <2>2, <3>2 DEF Inv, UntilMoved
    <3>3. QED BY <1>2, <3>1, <3>2
  <2>6. QED BY <2>3, <2>4, <2>5
<1>6. CopyKeeps'
  <2>1. SUFFICES ASSUME kind = "copy", here' PROVE mirror'
    BY <1>4 DEF CopyKeeps
  <2>2. here /\ mirror
    BY <2>1 DEF MessageStep, Inv, CopyKeeps
  <2>3. mirror' = mirror
    BY <2>1 DEF MessageStep
  <2>4. QED BY <2>2, <2>3
<1>7. KnowsSettled'
  <2>1. SUFFICES ASSUME NEW d \in Callers
        PROVE /\ caller'[d].pc \in {"complete", "cleanup"} => rows'[caller'[d].id].state \in Settled
              /\ caller'[d].pc = "cleanup" => kind = "move"
              /\ caller'[d].pc = "staged" /\ caller'[d].seen.state # "pending"
                   => rows'[caller'[d].id].state \in Settled
    BY <1>4 DEF KnowsSettled, Row
  <2>2. CASE Sound(caller'[d])
    BY <2>2 DEF Sound
  <2>3. CASE caller'[d] = caller[d]
    <3>2. caller[d].pc # "idle" => caller[d].id \in DOMAIN rows
      BY CallerTyped DEF Inv
    <3>3. caller[d].pc # "idle" /\ Row(d).state \in Settled => rows'[caller[d].id].state \in Settled
      BY <3>2 DEF RowsStep, Grow, Later, Settled, Row
    <3>4. QED BY <2>3, <3>3 DEF Inv, KnowsSettled
  <2>4. QED BY <1>2, <2>2, <2>3
<1>8. Undisclosed'
  <2>1. /\ ~inbox => arrival = "none"
        /\ probing => arrival # "none"
        /\ kind = "move" => arrival # "delivery"
    BY DEF Inv, Undisclosed
  <2>2. arrival # "none" => there' > 0
    <3>1. there \in Nat /\ there' \in Nat /\ there' >= there
      BY DEF MessageStep, RestTypedOK, Inv, TypeOK
    <3>2. QED BY <3>1 DEF Inv, Undisclosed
  <2>3. ASSUME inbox, kind = "move", arrival \in {"none", "pending"}
        PROVE  /\ evidence # "used" /\ \A j \in DOMAIN rows' : rows'[j].state # "consumed"
               /\ ~mirror' \/ (probing /\ arrival = "pending")
                    => evidence = "live" \/ \E j \in DOMAIN rows' : rows'[j].state = "succeeded"
    <3>1. evidence # "used" /\ \A j \in DOMAIN rows : rows[j].state # "consumed"
      BY <2>3 DEF Inv, Undisclosed
    <3>2. \A j \in DOMAIN rows' : rows'[j].state # "consumed"
      BY <2>3, <3>1 DEF RowsStep
    <3>3. ASSUME Explained
          PROVE  evidence = "live" \/ \E j \in DOMAIN rows' : rows'[j].state = "succeeded"
      BY <3>2, <3>3 DEF Explained, RowsStep, Grow, Later
    <3>4. ~mirror' /\ mirror => \E j \in DOMAIN rows' : rows'[j].state = "succeeded"
      BY <3>2 DEF MessageStep, Settled
    <3>5. ~mirror' /\ mirror # mirror' => mirror
      BY DEF MessageStep, RestTypedOK, Inv, TypeOK
    <3>6. ~mirror \/ (probing /\ arrival = "pending") => Explained
      BY <2>3 DEF Inv, Undisclosed
    <3>7. QED BY <3>1, <3>2, <3>3, <3>4, <3>5, <3>6
  <2>4. QED BY <1>4, <2>1, <2>2, <2>3 DEF Undisclosed, Explained
<1>9. QED BY <1>3, <1>5, <1>6, <1>7, <1>8 DEF Inv

-----------------------------------------------------------------------------
(* and every other step. *)

(* The server and the clock act: no row is decided, no caller moves but to   *)
(* its rest.                                                                 *)
LEMMA OrphanStep ==
  ASSUME Inv, RunOrphan
  PROVE  RowsStep /\ MessageStep /\ UNCHANGED <<rows, caller>>
<1>1. PICK o \in orphans :
      /\ orphans' = orphans \ {o}
      /\ Effect(o[1]) \/ UNCHANGED <<here, there, done>>
      /\ UNCHANGED <<rowVars, process, caller, mirror, others, arrivalVars, faults>>
  BY DEF RunOrphan
<1>2. TypeOK /\ RowsTyped /\ orphans \subseteq (DOMAIN rows) \X Nat
  BY TypeParts DEF Inv, TypeOK
<1>3. UNCHANGED <<rows, caller>> /\ UNCHANGED <<kind, inbox, rewrites, process, mirror>>
      /\ UNCHANGED <<arrivalVars, others>> /\ UNCHANGED faults
  BY <1>1 DEF rowVars
<1>4. Grow /\ DOMAIN rows' = DOMAIN rows /\ \A i \in DOMAIN rows : rows'[i] = rows[i]
  BY <1>2, <1>3, SameRows
<1>5. RowsStep
  BY <1>4 DEF RowsStep
<1>6. orphans' \subseteq (DOMAIN rows) \X Nat /\ o[1] \in DOMAIN rows
  BY <1>1, <1>2
<1>7. CASE Effect(o[1])
  BY <1>3, <1>4, <1>5, <1>6, <1>7, EffectStep
<1>8. CASE UNCHANGED <<here, there, done>>
  BY <1>2, <1>3, <1>4, <1>5, <1>6, <1>8, StillStep
<1>9. QED BY <1>1, <1>7, <1>8

LEMMA OtherClientStep ==
  ASSUME Inv, OtherClient
  PROVE  RowsStep /\ MessageStep /\ UNCHANGED <<rows, caller>>
<1>1. TypeOK /\ RowsTyped /\ RestTypedOK
  BY TypeParts DEF Inv
<1>2. /\ here /\ here' \in {FALSE, kind = "copy"} /\ there' = there + 1
      /\ others' = others + 1 /\ faults + others < MaxEvents
      /\ UNCHANGED <<rows, caller>> /\ UNCHANGED <<kind, inbox, rewrites, process, mirror>>
      /\ UNCHANGED arrivalVars /\ UNCHANGED <<orphans, done, faults>>
  BY DEF OtherClient, rowVars
<1>3. Grow /\ DOMAIN rows' = DOMAIN rows /\ \A i \in DOMAIN rows : rows'[i] = rows[i]
  BY <1>1, <1>2, SameRows
<1>4. RestTypedOK'
  <2>0. MaxEvents \in Nat /\ faults \in Nat /\ others \in Nat /\ there \in Nat
    BY <1>1, LimitsAssumption DEF RestTypedOK
  <2>1. here' \in BOOLEAN /\ there' \in Nat /\ faults' \in Nat /\ others' \in Nat
        /\ faults' + others' <= MaxEvents
    <3>1. here' \in BOOLEAN
      BY <1>2
    <3>2. there' = there + 1 /\ others' = others + 1 /\ faults' = faults /\ faults + others < MaxEvents
      BY <1>2
    <3>3. QED BY <2>0, <3>1, <3>2
  <2>2. /\ arrival' = arrival /\ evidence' = evidence /\ probing' = probing /\ kind' = kind
        /\ inbox' = inbox /\ rewrites' = rewrites /\ process' = process /\ mirror' = mirror
        /\ orphans' = orphans /\ done' = done
    BY <1>2 DEF arrivalVars
  <2>3. QED BY <1>1, <1>3, <2>1, <2>2 DEF RestTypedOK
<1>5. RowsStep
  BY <1>3 DEF RowsStep
<1>6. there' >= there
  BY <1>1, <1>2 DEF RestTypedOK
<1>7. kind = "move" => ~here'
  BY <1>2
<1>8. QED BY <1>2, <1>4, <1>5, <1>6, <1>7 DEF MessageStep, arrivalVars

LEMMA AgeStep ==
  ASSUME Inv, Age
  PROVE  RowsStep /\ MessageStep /\ UNCHANGED caller
<1>1. PICK i \in DOMAIN rows :
      /\ rows[i].dispatched /\ Write(i, [rows[i] EXCEPT !.stale = TRUE])
      /\ UNCHANGED <<kind, inbox, rewrites, process, caller, mirror, serverVars, arrivalVars, faults>>
  BY DEF Age
<1>2. TypeOK /\ RowsTyped /\ rows[i] \in TransferRow
  BY TypeParts, RowTyped DEF Inv
<1> DEFINE r == [rows[i] EXCEPT !.stale = TRUE]
<1>3. Follows(rows[i], r)
  BY <1>1, <1>2, MarkFollows
<1>4. r.state = rows[i].state
  BY <1>2 DEF TransferRow
<1>5. Write(i, r) /\ DOMAIN rows' = DOMAIN rows
  BY <1>1 DEF Write
<1> HIDE DEF r
<1>6. Grow /\ rows'[i] = r /\ \A j \in DOMAIN rows : j # i => rows'[j] = rows[j]
  BY <1>2, <1>3, <1>5, WriteGrows
<1>7. RowsStep
  BY <1>4, <1>5, <1>6 DEF RowsStep
<1>8. UNCHANGED <<kind, inbox, rewrites, process, mirror>> /\ UNCHANGED arrivalVars
      /\ UNCHANGED <<here, there, done, others, orphans>> /\ UNCHANGED faults /\ UNCHANGED caller
  BY <1>1 DEF serverVars
<1>9. orphans' \subseteq (DOMAIN rows) \X Nat
  BY <1>2, <1>8 DEF TypeOK
<1>10. QED BY <1>2, <1>6, <1>7, <1>8, <1>9, StillStep

LEMMA RestartStep ==
  ASSUME Inv, Restart
  PROVE  RowsStep /\ MessageStep /\ CallersStep
<1>1. TypeOK /\ RowsTyped /\ RestTypedOK
  BY TypeParts DEF Inv
<1>2. /\ caller' = [c \in Callers |-> AtRest] /\ process' = process + 1 /\ probing' = FALSE /\ Fault
      /\ orphans' = UNION {Abandoned(c) : c \in Callers}
      /\ UNCHANGED <<rows, kind, inbox, rewrites, mirror, here, there, done, others, arrival, evidence>>
  BY DEF Restart, rowVars
<1>3. Grow /\ DOMAIN rows' = DOMAIN rows /\ \A i \in DOMAIN rows : rows'[i] = rows[i]
  BY <1>1, <1>2, SameRows
<1>4. RowsStep
  BY <1>3 DEF RowsStep
<1>5. orphans' \subseteq (DOMAIN rows') \X Nat
  <2>1. \A c \in Callers : Abandoned(c) \subseteq (DOMAIN rows) \X Nat
    BY <1>1, AbandonedTyped
  <2>2. UNION {Abandoned(c) : c \in Callers} \subseteq (DOMAIN rows) \X Nat
    BY <2>1, Zenon
  <2>3. QED BY <1>2, <1>3, <2>2
<1>6. RestTypedOK'
  <2>1. process' \in Nat \ {0} /\ probing' \in BOOLEAN
    <3>1. process \in Nat \ {0} /\ process' = process + 1
      BY <1>1, <1>2 DEF RestTypedOK
    <3>2. probing' = FALSE
      BY <1>2
    <3>3. probing' \in BOOLEAN
      BY <3>2
    <3>4. process' \in Nat \ {0}
      BY <3>1
    <3>5. QED BY <3>3, <3>4
  <2>2. faults' \in Nat /\ faults' + others' <= MaxEvents
    BY <1>1, <1>2, LimitsAssumption DEF RestTypedOK, Fault
  <2>3. QED BY <1>1, <1>2, <1>3, <1>5, <2>1, <2>2 DEF RestTypedOK
<1>7. there' >= there
  BY <1>1, <1>2 DEF RestTypedOK
<1>8. MessageStep
  BY <1>2, <1>6, <1>7 DEF MessageStep
<1>9. CallersStep
  <2>1. AtRest \in Request /\ AtRest.pc = "idle" /\ AtRest.answer = "none" /\ AtRest.seen = Staged
        /\ Staged.state = "pending"
    BY RestTyped DEF AtRest, Staged
  <2>2. \A d \in Callers : caller'[d] = AtRest
    BY <1>2
  <2>3. CallersTyped'
    BY <1>2, <2>1, <2>2 DEF CallersTyped
  <2>4. \A d \in Callers : Sound(caller'[d])
    BY <2>1, <2>2 DEF Sound, Settled
  <2>5. QED BY <2>3, <2>4 DEF CallersStep
<1>10. QED BY <1>4, <1>8, <1>9

-----------------------------------------------------------------------------
(* The arrivals: no caller moves, and the message stays where it is. *)

LEMMA ArrivalKeeps ==
  ASSUME Inv, Grow, UNCHANGED <<kind, inbox, rewrites, process, caller, faults>>, UNCHANGED serverVars,
         mirror' \in BOOLEAN, probing' \in BOOLEAN, evidence' \in {"none", "live", "used"},
         arrival' \in {"none", "pending", "localMove", "localCopy", "externalMove", "delivery"},
         kind = "move" /\ here => UNCHANGED rows,
         here => mirror' = mirror, Undisclosed'
  PROVE  Inv'
<1>1. TypeOK /\ RowsTyped' /\ CallersTyped /\ RestTypedOK /\ DOMAIN rows \subseteq DOMAIN rows'
  BY TypeParts DEF Inv, Grow
<1>2. /\ here' = here /\ there' = there /\ orphans' = orphans /\ done' = done /\ others' = others
      /\ kind' = kind /\ inbox' = inbox /\ rewrites' = rewrites
      /\ process' = process /\ caller' = caller /\ faults' = faults
  BY DEF serverVars
<1>3. CallersTyped'
  BY <1>1, <1>2 DEF CallersTyped
<1>4. RestTypedOK'
  <2>1. done' \subseteq DOMAIN rows' /\ orphans' \subseteq (DOMAIN rows') \X Nat
    <3>1. (DOMAIN rows) \X Nat \subseteq (DOMAIN rows') \X Nat
      BY <1>1, Zenon
    <3>2. QED BY <1>1, <1>2, <3>1 DEF RestTypedOK
  <2>2. QED BY <1>1, <1>2, <2>1 DEF RestTypedOK
<1>5. TypeOK'
  BY <1>1, <1>3, <1>4, TypeParts DEF TypeOK, RowsTyped, CallersTyped, RestTypedOK, Marked
<1>6. UntilMoved'
  BY <1>2 DEF UntilMoved, Inv
<1>7. CopyKeeps'
  BY <1>2 DEF CopyKeeps, Inv
<1>8. KnowsSettled'
  <2>1. SUFFICES ASSUME NEW d \in Callers
        PROVE /\ caller[d].pc \in {"complete", "cleanup"} => rows'[caller[d].id].state \in Settled
              /\ caller[d].pc = "cleanup" => kind = "move"
              /\ caller[d].pc = "staged" /\ caller[d].seen.state # "pending"
                   => rows'[caller[d].id].state \in Settled
    BY <1>2 DEF KnowsSettled, Row
  <2>2. caller[d].pc # "idle" => caller[d].id \in DOMAIN rows
    BY <1>1 DEF CallersTyped
  <2>3. caller[d].pc # "idle" /\ Row(d).state \in Settled => rows'[caller[d].id].state \in Settled
    BY <2>2 DEF Grow, Later, Settled, Row
  <2>4. QED BY <2>3 DEF Inv, KnowsSettled
<1>9. QED BY <1>5, <1>6, <1>7, <1>8 DEF Inv

(* The source is gone: either a move has succeeded, or there is evidence.    *)
LEMMA ExpungeRecorded ==
  ASSUME Inv, RecordExpunge, UNCHANGED <<kind, inbox, rewrites>>
  PROVE  /\ Grow /\ evidence' \in {"none", "live", "used"}
         /\ evidence' = "used" => evidence = "used"
         /\ inbox => \A i \in DOMAIN rows' : rows'[i].state = "consumed" => \E j \in DOMAIN rows : rows[j].state = "consumed"
         /\ kind = "move" /\ evidence # "used" /\ (\A i \in DOMAIN rows' : rows'[i].state # "consumed") => Explained'
<1>1. TypeOK /\ RowsTyped /\ evidence \in {"none", "live", "used"} /\ inbox \in BOOLEAN
  BY TypeParts DEF Inv, TypeOK
<1>2. CASE MoveRows({"succeeded", "consumed"}) # {}
  <2>1. UNCHANGED <<rows, evidence>>
    BY <1>2 DEF RecordExpunge
  <2>2. Grow
    BY <1>1, <2>1, SameRows
  <2>3. \E i \in DOMAIN rows : rows[i].state \in {"succeeded", "consumed"}
    BY <1>2 DEF MoveRows
  <2>4. QED BY <1>1, <2>1, <2>2, <2>3 DEF Explained
<1>3. CASE MoveRows({"succeeded", "consumed"}) = {} /\ Dispatched # {}
  <2> DEFINE t == IF inbox THEN "succeeded" ELSE "consumed"
  <2>1. rows' = [i \in DOMAIN rows |-> IF i \in Dispatched THEN [rows[i] EXCEPT !.state = t] ELSE rows[i]]
        /\ evidence' = evidence
    BY <1>3 DEF RecordExpunge
  <2>2. t \in States /\ \A i \in DOMAIN rows : i \in Dispatched => Later(rows[i].state, t)
    BY DEF States, Later, Dispatched, MoveRows
  <2>3. inbox => t = "succeeded"
    OBVIOUS
  <2> HIDE DEF t
  <2>4. /\ Grow /\ DOMAIN rows' = DOMAIN rows
        /\ \A i \in DOMAIN rows : rows'[i].state = IF i \in Dispatched THEN t ELSE rows[i].state
    BY <1>1, <2>1, <2>2, MapGrows
  <2>5. \E i \in DOMAIN rows : i \in Dispatched
    BY <1>3 DEF Dispatched, MoveRows
  <2>6. t \in {"succeeded", "consumed"}
    BY DEF t
  <2>7. inbox => \A i \in DOMAIN rows' : rows'[i].state = "consumed" => \E j \in DOMAIN rows : rows[j].state = "consumed"
    BY <2>3, <2>4
  <2>8. (\A i \in DOMAIN rows' : rows'[i].state # "consumed") => \E i \in DOMAIN rows' : rows'[i].state = "succeeded"
    BY <2>4, <2>5, <2>6
  <2>9. QED BY <1>1, <2>1, <2>4, <2>7, <2>8 DEF Explained
<1>4. CASE MoveRows({"succeeded", "consumed"}) = {} /\ Dispatched = {}
  <2>1. UNCHANGED rows /\ evidence' = IF evidence = "none" THEN "live" ELSE evidence
    BY <1>4 DEF RecordExpunge
  <2>2. Grow
    BY <1>1, <2>1, SameRows
  <2>3. QED BY <1>1, <2>1, <2>2 DEF Explained
<1>5. QED BY <1>2, <1>3, <1>4

(* Classify explains an arrival, or finds nothing to explain it.             *)
LEMMA Classified ==
  ASSUME Inv, NEW u \in {"pending", "delivery"}, Classify(u), UNCHANGED <<kind, inbox, rewrites>>
  PROVE  /\ Grow /\ evidence' \in {"none", "live", "used"}
         /\ \/ arrival' \in {"localMove", "localCopy", "externalMove"}
            \/ /\ arrival' = u /\ UNCHANGED <<rows, evidence>> /\ ~Explained
<1>1. TypeOK /\ RowsTyped /\ evidence \in {"none", "live", "used"}
  BY TypeParts DEF Inv, TypeOK
<1> DEFINE matching == {i \in DOMAIN rows : rows[i].state = "succeeded"}
<1>2. ASSUME NEW S, \A i \in DOMAIN rows : i \in S => Later(rows[i].state, "consumed"),
             rows' = [i \in DOMAIN rows |-> IF i \in S THEN [rows[i] EXCEPT !.state = "consumed"] ELSE rows[i]]
      PROVE  Grow
  BY <1>1, <1>2, MapGrows DEF States
<1>3. CASE matching # {}
  <2>1. /\ rows' = [i \in DOMAIN rows |->
                      IF i \in matching THEN [rows[i] EXCEPT !.state = "consumed"] ELSE rows[i]]
        /\ arrival' \in {"localMove", "localCopy"}
        /\ evidence' \in {evidence, "used"}
    BY <1>3 DEF Classify
  <2>2. \A i \in DOMAIN rows : i \in matching => Later(rows[i].state, "consumed")
    BY DEF Later
  <2> HIDE DEF matching
  <2>3. Grow
    BY <1>2, <2>1, <2>2
  <2>4. QED BY <1>1, <2>1, <2>3
<1>4. CASE matching = {} /\ evidence = "live"
  <2>1. /\ rows' = [i \in DOMAIN rows |->
                      IF i \in Dispatched THEN [rows[i] EXCEPT !.state = "consumed"] ELSE rows[i]]
        /\ arrival' \in {"localMove", "externalMove"} /\ evidence' = "used"
    BY <1>4 DEF Classify
  <2>2. \A i \in DOMAIN rows : i \in Dispatched => Later(rows[i].state, "consumed")
    BY DEF Later, Dispatched, MoveRows
  <2>3. Grow
    BY <1>2, <2>1, <2>2
  <2>4. QED BY <2>1, <2>3
<1>5. CASE matching = {} /\ evidence # "live"
  <2>1. arrival' = u /\ UNCHANGED <<rows, evidence>>
    BY <1>5 DEF Classify
  <2>2. Grow
    BY <1>1, <2>1, SameRows
  <2>3. ~Explained
    BY <1>5 DEF Explained
  <2>4. QED BY <1>1, <2>1, <2>2, <2>3
<1>6. QED BY <1>3, <1>4, <1>5

LEMMA ReconcileStep ==
  ASSUME Inv, Reconcile
  PROVE  Inv'
<1>1. /\ mirror /\ ~here /\ mirror' = FALSE /\ RecordExpunge
      /\ UNCHANGED <<kind, inbox, rewrites, process, caller, faults, arrival, probing>> /\ UNCHANGED serverVars
      /\ there' = there
  BY DEF Reconcile, serverVars
<1>2. /\ arrival \in {"none", "pending", "localMove", "localCopy", "externalMove", "delivery"}
      /\ probing \in BOOLEAN
  BY DEF Inv, TypeOK
<1>3. /\ Grow /\ evidence' \in {"none", "live", "used"}
      /\ evidence' = "used" => evidence = "used"
      /\ inbox => \A i \in DOMAIN rows' : rows'[i].state = "consumed" => \E j \in DOMAIN rows : rows[j].state = "consumed"
      /\ kind = "move" /\ evidence # "used" /\ (\A i \in DOMAIN rows' : rows'[i].state # "consumed") => Explained'
  BY <1>1, ExpungeRecorded
<1>4. Undisclosed'
  BY <1>1, <1>3 DEF Inv, Undisclosed
<1>5. QED BY <1>1, <1>2, <1>3, <1>4, ArrivalKeeps

LEMMA HoldStep ==
  ASSUME Inv, Hold
  PROVE  Inv'
<1>1. /\ inbox /\ there > 0 /\ arrival \in {"none", "pending"} /\ Classify("pending") /\ arrival' # arrival
      /\ UNCHANGED <<kind, inbox, rewrites, process, caller, faults, mirror, probing>> /\ UNCHANGED serverVars
      /\ there' = there
  BY DEF Hold, serverVars
<1>2. mirror \in BOOLEAN /\ probing \in BOOLEAN
  BY DEF Inv, TypeOK
<1>3. /\ Grow /\ evidence' \in {"none", "live", "used"}
      /\ \/ arrival' \in {"localMove", "localCopy", "externalMove"}
         \/ /\ arrival' = "pending" /\ UNCHANGED <<rows, evidence>> /\ ~Explained
  BY <1>1, Classified
<1>4. Undisclosed'
  <2>1. CASE arrival' \in {"localMove", "localCopy", "externalMove"}
    BY <1>1, <2>1 DEF Inv, Undisclosed
  <2>2. CASE /\ arrival' = "pending" /\ UNCHANGED <<rows, evidence>> /\ ~Explained
    <3>1. arrival = "none" /\ ~probing
      BY <1>1, <2>2 DEF Inv, Undisclosed
    <3>2. QED BY <1>1, <2>2, <3>1 DEF Inv, Undisclosed
  <2>3. QED BY <1>3, <2>1, <2>2
<1>5. ~(kind = "move" /\ here)
  BY <1>1 DEF Inv, UntilMoved
<1>6. QED BY <1>1, <1>2, <1>3, <1>4, <1>5, ArrivalKeeps

LEMMA ProbeStep ==
  ASSUME Inv, Probe
  PROVE  Inv'
<1>1. /\ arrival = "pending" /\ ~probing /\ probing' = TRUE
      /\ IF mirror /\ ~here THEN RecordExpunge ELSE UNCHANGED <<rows, evidence>>
      /\ UNCHANGED <<kind, inbox, rewrites, process, caller, faults, mirror, arrival>> /\ UNCHANGED serverVars
      /\ there' = there
  BY DEF Probe, serverVars
<1>2. mirror \in BOOLEAN /\ RowsTyped /\ evidence \in {"none", "live", "used"} /\ inbox
      /\ ~(kind = "move" /\ here)
  <2>1. TypeOK
    BY DEF Inv
  <2>2. mirror \in BOOLEAN /\ evidence \in {"none", "live", "used"}
    BY <2>1 DEF TypeOK
  <2>3. inbox /\ there > 0
    BY <1>1, <2>1 DEF Inv, Undisclosed, TypeOK
  <2>4. QED BY <2>1, <2>2, <2>3, TypeParts DEF Inv, UntilMoved
<1>3. CASE mirror /\ ~here
  <2>1. /\ Grow /\ evidence' \in {"none", "live", "used"}
        /\ evidence' = "used" => evidence = "used"
        /\ inbox => \A i \in DOMAIN rows' : rows'[i].state = "consumed" => \E j \in DOMAIN rows : rows[j].state = "consumed"
        /\ kind = "move" /\ evidence # "used" /\ (\A i \in DOMAIN rows' : rows'[i].state # "consumed") => Explained'
    BY <1>1, <1>3, ExpungeRecorded
  <2>2. Undisclosed'
    BY <1>1, <1>2, <2>1 DEF Inv, Undisclosed
  <2>3. QED BY <1>1, <1>2, <2>1, <2>2, ArrivalKeeps
<1>4. CASE ~(mirror /\ ~here)
  <2>1. UNCHANGED <<rows, evidence>>
    BY <1>1, <1>4
  <2>2. Grow
    BY <1>2, <2>1, SameRows
  <2>3. kind = "move" => ~mirror
    BY <1>2, <1>4
  <2>4. Undisclosed'
    BY <1>1, <2>1, <2>3 DEF Inv, Undisclosed, Explained
  <2>5. QED BY <1>1, <1>2, <2>1, <2>2, <2>4, ArrivalKeeps
<1>5. QED BY <1>3, <1>4

LEMMA FinalizeStep ==
  ASSUME Inv, Finalize
  PROVE  Inv'
<1>1. /\ probing /\ probing' = FALSE
      /\ IF arrival = "pending" THEN Classify("delivery") ELSE UNCHANGED <<rows, arrival, evidence>>
      /\ UNCHANGED <<kind, inbox, rewrites, process, caller, faults, mirror>> /\ UNCHANGED serverVars
      /\ there' = there
  BY DEF Finalize, serverVars
<1>2. /\ mirror \in BOOLEAN /\ RowsTyped /\ evidence \in {"none", "live", "used"}
      /\ arrival \in {"none", "pending", "localMove", "localCopy", "externalMove", "delivery"}
      /\ inbox \in BOOLEAN
  BY TypeParts DEF Inv, TypeOK
<1>3. CASE arrival = "pending"
  <2>1. /\ Grow /\ evidence' \in {"none", "live", "used"}
        /\ \/ arrival' \in {"localMove", "localCopy", "externalMove"}
           \/ /\ arrival' = "delivery" /\ UNCHANGED <<rows, evidence>> /\ ~Explained
    BY <1>1, <1>3, Classified
  <2>2. inbox /\ there > 0 /\ (kind = "move" => Explained)
    BY <1>1, <1>2, <1>3 DEF Inv, Undisclosed
  <2>3. ~(kind = "move" /\ here)
    BY <2>2 DEF Inv, UntilMoved
  <2>4. Undisclosed'
    BY <1>1, <2>1, <2>2 DEF Undisclosed
  <2>5. QED BY <1>1, <1>2, <2>1, <2>3, <2>4, ArrivalKeeps
<1>4. CASE arrival # "pending"
  <2>1. UNCHANGED <<rows, arrival, evidence>>
    BY <1>1, <1>4
  <2>2. Grow
    BY <1>2, <2>1, SameRows
  <2>3. Undisclosed'
    BY <1>1, <1>4, <2>1 DEF Inv, Undisclosed, Explained
  <2>4. QED BY <1>1, <1>2, <2>1, <2>2, <2>3, ArrivalKeeps
<1>5. QED BY <1>3, <1>4

-----------------------------------------------------------------------------
LEMMA InvInit == Init => Inv
<1> SUFFICES ASSUME Init PROVE Inv
  OBVIOUS
<1>1. rows = <<>> /\ DOMAIN rows = {} /\ rows \in Seq(TransferRow) /\ Len(rows) = 0
  BY EmptySeq DEF Init
<1>2. /\ kind \in {"move", "copy"} /\ inbox \in BOOLEAN /\ rewrites \in {FALSE, kind = "copy" /\ ~inbox}
      /\ process = 1
      /\ caller = [c \in Callers |-> AtRest]
      /\ mirror = TRUE /\ here = TRUE /\ there = 0 /\ orphans = {} /\ done = {}
      /\ arrival = "none" /\ evidence = "none" /\ probing = FALSE
      /\ faults = 0 /\ others = 0
  BY DEF Init
<1>3. AtRest \in Request /\ AtRest.pc = "idle" /\ AtRest.answer = "none" /\ AtRest.seen.state = "pending"
  BY RestTyped DEF AtRest, Staged
<1>4. MaxRows \in Nat /\ MaxEvents \in Nat
  BY LimitsAssumption
<1>5. RowsTyped
  BY <1>1, <1>4 DEF RowsTyped
<1>6. CallersTyped
  BY <1>2, <1>3 DEF CallersTyped
<1>7. RestTypedOK
  <2>1. /\ kind \in {"move", "copy"} /\ inbox \in BOOLEAN /\ rewrites \in {FALSE, kind = "copy" /\ ~inbox}
        /\ mirror \in BOOLEAN /\ here \in BOOLEAN /\ probing \in BOOLEAN
        /\ arrival \in {"none", "pending", "localMove", "localCopy", "externalMove", "delivery"}
        /\ evidence \in {"none", "live", "used"}
        /\ orphans \subseteq (DOMAIN rows) \X Nat /\ done \subseteq DOMAIN rows
    BY <1>2
  <2>2. process = 1 /\ there = 0 /\ faults = 0 /\ others = 0
    BY <1>2
  <2>3. process \in Nat \ {0} /\ there \in Nat /\ faults \in Nat /\ others \in Nat
        /\ faults + others <= MaxEvents
    BY <1>4, <2>2
  <2>4. QED BY <2>1, <2>3 DEF RestTypedOK
<1>8. \A c \in Callers : caller[c] = AtRest
  BY <1>2
<1>9. UntilMoved /\ CopyKeeps /\ KnowsSettled
  BY <1>1, <1>2, <1>3, <1>8 DEF UntilMoved, CopyKeeps, KnowsSettled, Settled
<1>10. Undisclosed
  BY <1>1, <1>2 DEF Undisclosed
<1>11. QED BY <1>5, <1>6, <1>7, <1>9, <1>10, TypeParts DEF Inv

LEMMA InvStep == Inv /\ [Next]_vars => Inv'
<1> SUFFICES ASSUME Inv, [Next]_vars PROVE Inv'
  OBVIOUS
<1>1. CASE \E c \in Callers : Serve(c) \/ Failure(c)
  BY <1>1, RequestStep, CallersMove, StepKeeps
<1>2. CASE RunOrphan \/ OtherClient \/ Age
  BY <1>2, OrphanStep, OtherClientStep, AgeStep, QuietCallers, StepKeeps
<1>3. CASE Restart
  BY <1>3, RestartStep, StepKeeps
<1>4. CASE Reconcile \/ Hold \/ Probe \/ Finalize
  BY <1>4, ReconcileStep, HoldStep, ProbeStep, FinalizeStep
<1>5. CASE UNCHANGED vars
  BY <1>5 DEF vars, rowVars, serverVars, arrivalVars, Inv, TypeOK, UntilMoved, CopyKeeps, KnowsSettled,
              Undisclosed, Explained, Row
<1>6. QED BY <1>1, <1>2, <1>3, <1>4, <1>5 DEF Next

LEMMA InvHolds == Spec => []Inv
<1>1. Init => Inv
  BY InvInit
<1>2. Inv /\ [Next]_vars => Inv'
  BY InvStep
<1>3. QED BY <1>1, <1>2, PTL DEF Spec

(* Every row, claim, request and arrival keeps its type, and only a claimed  *)
(* row carries the marks of a claim (StageMessageTransfer to                 *)
(* TerminalizeMessageTransfer).                                              *)
THEOREM TypeCorrect == Spec => []TypeOK
<1>1. Inv => TypeOK
  BY DEF Inv
<1>2. QED BY <1>1, InvHolds, PTL

(* However often commands are lost, repeated or run late, the local row of   *)
(* the source is there as long as the server has the message                 *)
(* (cleanupMovedMessage, DeleteMessagesMissingUIDsAndRecordExpunges).        *)
THEOREM SourceMirrored == Spec => []MirrorHonest
<1>1. Inv => MirrorHonest
  <2>1. TypeOK => kind \in {"move", "copy"}
    BY DEF TypeOK
  <2>2. QED BY <2>1 DEF Inv, UntilMoved, CopyKeeps, MirrorHonest
<1>2. QED BY <1>1, InvHolds, PTL

(* A message the user has moved to the Inbox is never announced as new mail, *)
(* whatever becomes of the command's answer                                  *)
(* (finalizeDueInboxArrivalsOnce after probeExternalInboxMoves).             *)
THEOREM MovesSilent == Spec => []MovesNotAnnounced
<1>1. Inv => MovesNotAnnounced
  BY DEF Inv, Undisclosed, MovesNotAnnounced
<1>2. QED BY <1>1, InvHolds, PTL

-----------------------------------------------------------------------------
(* The boundary of a copy.  It is set before the dispatch, never beyond the   *)
(* next UID and once only; and whoever takes the copy for made has seen, or   *)
(* made, a message that is not below it.                                      *)
Reached(next, n) == next # 0 /\ n >= next
Success == {"moved", "placed", "applied"}

Knows(p, s, a, next, n) ==
    /\ p = "surveyed" => s.next <= n + 1
    /\ p \in {"staged", "bounded"} => /\ s.next # 0 => next = s.next
                                      /\ s.dispatched => s.next # 0
    /\ p = "bounded" => s.next # 0
    /\ p \in Claimed \cup {"reopened"} => next # 0
    /\ p = "executed" \/ (p \in {"settle", "looked"} /\ a \in Success) => Reached(next, n)

CallerBounded(q) == Knows(q.pc, q.seen, q.answer, rows[q.id].next, there)

RowBounded(r, n) ==
    /\ r.next <= n + 1
    /\ r.dispatched => r.next # 0
    /\ r.state \in Settled => Reached(r.next, n)

Boundaries == kind = "copy" =>
    /\ \A i \in DOMAIN rows : RowBounded(rows[i], there)
    /\ \A i \in done : Reached(rows[i].next, there)
    /\ \A o \in orphans : rows[o[1]].next # 0
    /\ \A c \in Callers : CallerBounded(caller[c])

(* A set boundary stays, and no row is written that the next one lacks.       *)
RowsBound ==
    /\ DOMAIN rows \subseteq DOMAIN rows' /\ there' >= there
    /\ \A i \in DOMAIN rows : rows[i].next # 0 => rows'[i].next = rows[i].next
    /\ \A i \in DOMAIN rows' : RowBounded(rows'[i], there')

(* r stands for q, with the boundary of q. *)
KeepsBound(q, r) ==
    /\ r.next = q.next
    /\ r.dispatched => q.dispatched \/ q.next # 0
    /\ r.state \in Settled => q.state \in Settled \/ (q.next # 0 /\ there >= q.next)

LEMMA WritesKeepBounds ==
  ASSUME NEW r \in TransferRow
  PROVE  /\ \A u \in BOOLEAN : /\ Succeeded(r, u).next = r.next
                               /\ Succeeded(r, u).dispatched = r.dispatched
         /\ Reopened(r).next = r.next /\ ~Reopened(r).dispatched /\ Reopened(r).state = r.state
         /\ ClaimedNow(r).next = r.next /\ ClaimedNow(r).state = r.state
         /\ \A s : /\ [r EXCEPT !.state = s].next = r.next
                   /\ [r EXCEPT !.state = s].dispatched = r.dispatched
                   /\ [r EXCEPT !.state = s].state = s
         /\ KeepsBound(r, [r EXCEPT !.finished = TRUE]) /\ KeepsBound(r, [r EXCEPT !.stale = TRUE])
BY DEF TransferRow, Succeeded, Reopened, ClaimedNow, KeepsBound

LEMMA CopyTyped ==
  ASSUME TypeOK
  PROVE  /\ there \in Nat /\ done \subseteq DOMAIN rows
         /\ \A i \in DOMAIN rows : rows[i] \in TransferRow /\ rows[i].next \in Nat
         /\ \A o \in orphans : o[1] \in DOMAIN rows
         /\ \A c \in Callers : /\ caller[c].pc # "idle" => caller[c].id \in DOMAIN rows
                               /\ caller[c].seen \in TransferRow /\ caller[c].seen.next \in Nat
<1>1. RowsTyped /\ CallersTyped
  BY TypeParts
<1>2. \A i \in DOMAIN rows : rows[i] \in TransferRow /\ rows[i].next \in Nat
  BY <1>1, RowTyped, RowFields
<1>3. \A c \in Callers : caller[c].seen \in TransferRow /\ caller[c].seen.next \in Nat
  BY <1>1, RequestFields, RowFields DEF CallersTyped
<1> QED  BY <1>1, <1>2, <1>3 DEF TypeOK, CallersTyped

LEMMA KeptBound ==
  ASSUME TypeOK, TypeOK', kind = "copy", Boundaries, DOMAIN rows' = DOMAIN rows, there' >= there,
         \A i \in DOMAIN rows : KeepsBound(rows[i], rows'[i])
  PROVE  RowsBound
<1>1. there \in Nat /\ there' \in Nat /\ \A i \in DOMAIN rows : rows[i].next \in Nat
  BY CopyTyped DEF TypeOK
<1>2. ASSUME NEW i \in DOMAIN rows PROVE RowBounded(rows'[i], there')
  <2>1. RowBounded(rows[i], there) /\ KeepsBound(rows[i], rows'[i]) /\ rows[i].next \in Nat
    BY <1>1 DEF Boundaries
  <2>2. rows'[i].next = rows[i].next
    BY <2>1 DEF KeepsBound
  <2>3. rows'[i].next <= there' + 1
    BY <1>1, <2>1, <2>2 DEF RowBounded
  <2>4. rows'[i].dispatched => rows'[i].next # 0
    BY <2>1, <2>2 DEF RowBounded, KeepsBound
  <2>5. rows'[i].state \in Settled => rows'[i].next # 0 /\ there' >= rows'[i].next
    BY <1>1, <2>1, <2>2 DEF RowBounded, KeepsBound, Reached
  <2> QED  BY <2>3, <2>4, <2>5 DEF RowBounded, Reached
<1> QED  BY <1>2 DEF RowsBound, KeepsBound

LEMMA SameBound ==
  ASSUME TypeOK, TypeOK', kind = "copy", Boundaries, rows' = rows, there' >= there
  PROVE  RowsBound
BY KeptBound DEF KeepsBound

LEMMA WrittenBound ==
  ASSUME TypeOK, TypeOK', kind = "copy", Boundaries, there' = there,
         NEW i \in DOMAIN rows, NEW r, Write(i, r), KeepsBound(rows[i], r)
  PROVE  RowsBound
<1>1. DOMAIN rows' = DOMAIN rows /\ rows'[i] = r /\ \A j \in DOMAIN rows : j # i => rows'[j] = rows[j]
  BY DEF Write
<1>2. \A j \in DOMAIN rows : KeepsBound(rows[j], rows'[j])
  BY <1>1 DEF KeepsBound
<1>3. there' >= there
  BY CopyTyped
<1> QED  BY <1>1, <1>2, <1>3, KeptBound

(* What a caller knows of the boundary stays true. *)
LEMMA KnownKept ==
  ASSUME TypeOK, TypeOK', RowsBound, NEW p, NEW i, NEW s, NEW a, Knows(p, s, a, rows[i].next, there),
         p # "idle" => i \in DOMAIN rows, s.next \in Nat
  PROVE  Knows(p, s, a, rows'[i].next, there')
<1>1. there \in Nat /\ there' \in Nat /\ there' >= there
  BY CopyTyped DEF TypeOK, RowsBound
<1> SUFFICES ASSUME p # "idle" PROVE Knows(p, s, a, rows'[i].next, there')
  BY DEF Knows, Claimed
<1>2. i \in DOMAIN rows /\ rows[i].next \in Nat /\ (rows[i].next # 0 => rows'[i].next = rows[i].next)
  BY CopyTyped DEF RowsBound
<1>3. Reached(rows[i].next, there) => Reached(rows'[i].next, there')
  BY <1>1, <1>2 DEF Reached
<1>4. p = "surveyed" => s.next <= there' + 1
  BY <1>1 DEF Knows
<1> QED  BY <1>2, <1>3, <1>4 DEF Knows

(* A step of any kind. *)
LEMMA BoundariesKept ==
  ASSUME TypeOK, TypeOK', kind = "copy", Boundaries, RowsBound,
         \A i \in done' : i \in done \/ Reached(rows'[i].next, there'),
         \A o \in orphans' : o \in orphans \/ (o[1] \in DOMAIN rows /\ rows[o[1]].next # 0),
         \A c \in Callers : \/ caller'[c] = caller[c]
                            \/ CallerBounded(caller[c])'
  PROVE  Boundaries'
<1>1. /\ there \in Nat /\ there' \in Nat /\ there' >= there
      /\ \A i \in DOMAIN rows : rows[i].next \in Nat /\ (rows[i].next # 0 => rows'[i].next = rows[i].next)
  BY CopyTyped DEF TypeOK, RowsBound
<1>2. \A i \in DOMAIN rows' : RowBounded(rows'[i], there')
  BY DEF RowsBound
<1>3. \A i \in done' : Reached(rows'[i].next, there')
  <2>1. \A i \in done : i \in DOMAIN rows /\ Reached(rows[i].next, there)
    BY CopyTyped DEF Boundaries
  <2> QED  BY <1>1, <2>1 DEF Reached
<1>4. \A o \in orphans' : rows'[o[1]].next # 0
  <2>1. \A o \in orphans : o[1] \in DOMAIN rows /\ rows[o[1]].next # 0
    BY CopyTyped DEF Boundaries
  <2> QED  BY <1>1, <2>1
<1>5. ASSUME NEW c \in Callers
      PROVE  CallerBounded(caller[c])'
  <2>1. CASE caller'[c] = caller[c]
    <3>1. PICK q : q = caller[c]
      OBVIOUS
    <3>2. /\ Knows(q.pc, q.seen, q.answer, rows[q.id].next, there) /\ q.seen.next \in Nat
          /\ q.pc # "idle" => q.id \in DOMAIN rows
      BY <3>1, CopyTyped DEF Boundaries, CallerBounded
    <3>3. Knows(q.pc, q.seen, q.answer, rows'[q.id].next, there')
      BY <3>2, KnownKept
    <3> QED  BY <2>1, <3>1, <3>3 DEF CallerBounded
  <2> QED  BY <2>1
<1> QED  BY <1>2, <1>3, <1>4, <1>5 DEF Boundaries

(* A step of one caller, from which no command becomes nobody's. *)
LEMMA CallerBoundaries ==
  ASSUME TypeOK, TypeOK', kind = "copy", Boundaries, RowsBound, NEW c \in Callers,
         UNCHANGED <<done, orphans>>, NEW p, NEW i, NEW s, NEW a, Becomes(c, p, i, s, a),
         Knows(p, s, a, rows'[i].next, there')
  PROVE  Boundaries'
<1>1. \A d \in Callers : d # c => caller'[d] = caller[d]
  BY DEF Becomes
<1>2. CallerBounded(caller[c])'
  BY DEF Becomes, CallerBounded
<1> QED  BY <1>1, <1>2, BoundariesKept

(* The caller goes to its rest, or on to the local state. *)
LEMMA RestBoundaries ==
  ASSUME TypeOK, TypeOK', kind = "copy", Boundaries, RowsBound, NEW c \in Callers, caller[c].pc # "idle",
         UNCHANGED <<done, orphans>>, Ends(c) \/ Completes(c)
  PROVE  Boundaries'
<1>1. CallersTyped /\ DOMAIN rows \subseteq DOMAIN rows'
  BY TypeParts DEF RowsBound
<1>2. CASE Ends(c)
  <2>1. Becomes(c, "idle", 0, Staged, "none")
    BY <1>1, <1>2, CallerEnds DEF Rests
  <2>2. Knows("idle", Staged, "none", rows'[0].next, there')
    BY DEF Knows, Claimed
  <2> QED  BY <2>1, <2>2, CallerBoundaries
<1>3. CASE Completes(c)
  <2>1. Becomes(c, "complete", caller[c].id, Staged, "none")
    BY <1>1, <1>3, CallerCompletes
  <2>2. Knows("complete", Staged, "none", rows'[caller[c].id].next, there')
    BY DEF Knows, Claimed
  <2> QED  BY <2>1, <2>2, CallerBoundaries
<1> QED  BY <1>2, <1>3

LEMMA StageBounds ==
  ASSUME TypeOK, TypeOK', kind = "copy", Boundaries, NEW c \in Callers, Stage(c)
  PROVE  Boundaries'
<1>1. /\ RowsTyped /\ CallersTyped /\ MaxRows \in Nat /\ there \in Nat /\ there' = there
      /\ UNCHANGED <<done, orphans>>
  BY TypeParts, LimitsAssumption, CopyTyped DEF Stage, serverVars
<1>2. "staged" \in Places /\ "none" \in Answers /\ Staged \in TransferRow
      /\ Staged.next = 0 /\ ~Staged.dispatched /\ Staged.state \notin Settled
  BY RestTyped DEF Places, Answers, Staged, Settled
<1>3. CASE /\ Reusable = {} /\ Len(rows) < MaxRows
           /\ rows' = Append(rows, Staged)
           /\ caller' = [caller EXCEPT ![c] = [AtRest EXCEPT !.pc = "staged", !.id = Len(rows) + 1]]
  <2> DEFINE n == Len(rows) + 1
  <2>1. /\ Grow /\ n \in DOMAIN rows' /\ \A i \in DOMAIN rows : rows'[i] = rows[i]
        /\ rows'[n] = Staged /\ DOMAIN rows' = DOMAIN rows \cup {n}
    BY <1>1, <1>3, AppendGrows
  <2>2. n \in Nat
    BY <1>1, LenProperties DEF RowsTyped
  <2>3. caller' = [caller EXCEPT ![c] = [AtRest EXCEPT !.pc = "staged", !.id = n]]
    BY <1>3
  <2> HIDE DEF n
  <2>4. Becomes(c, "staged", n, Staged, "none")
    BY <1>1, <1>2, <2>1, <2>2, <2>3, CallerRestarts DEF Grow
  <2>5. RowsBound
    <3>1. \A i \in DOMAIN rows : RowBounded(rows'[i], there')
      BY <1>1, <2>1 DEF Boundaries, RowBounded, Reached
    <3>2. RowBounded(rows'[n], there')
      BY <1>1, <1>2, <2>1 DEF RowBounded
    <3> QED  BY <1>1, <2>1, <3>1, <3>2 DEF RowsBound
  <2>6. Knows("staged", Staged, "none", rows'[n].next, there')
    BY <1>2 DEF Knows, Claimed
  <2> QED  BY <1>1, <2>4, <2>5, <2>6, CallerBoundaries
<1>4. CASE \E i \in Reusable :
          /\ UNCHANGED rows
          /\ caller' = [caller EXCEPT ![c] = [AtRest EXCEPT !.pc = "staged", !.id = i, !.seen = rows[i]]]
  <2>1. PICK i \in Reusable :
          /\ UNCHANGED rows
          /\ caller' = [caller EXCEPT ![c] = [AtRest EXCEPT !.pc = "staged", !.id = i, !.seen = rows[i]]]
    BY <1>4
  <2>2. i \in DOMAIN rows /\ rows[i] \in TransferRow /\ i \in Nat
    BY <1>1, RowTyped DEF Reusable
  <2>3. Becomes(c, "staged", i, rows[i], "none")
    BY <1>1, <1>2, <2>1, <2>2, CallerRestarts
  <2>4. RowsBound
    BY <1>1, <2>1, SameBound
  <2>5. Knows("staged", rows[i], "none", rows'[i].next, there')
    BY <2>1, <2>2 DEF Knows, Claimed, Boundaries, RowBounded
  <2> QED  BY <1>1, <2>3, <2>4, <2>5, CallerBoundaries
<1> QED  BY <1>3, <1>4 DEF Stage

(* The boundary is asked for and set. *)
LEMMA SurveyBounds ==
  ASSUME TypeOK, TypeOK', kind = "copy", Boundaries, NEW c \in Callers, Survey(c)
  PROVE  Boundaries'
<1> DEFINE s == [caller[c].seen EXCEPT !.next = there + 1]
<1>1. /\ caller[c].pc # "idle" /\ rows' = rows /\ there' = there /\ UNCHANGED <<done, orphans>>
      /\ CallersTyped /\ caller[c].seen \in TransferRow /\ there \in Nat
  BY TypeParts, CopyTyped DEF Survey, rowVars, serverVars
<1>2. s \in TransferRow /\ s.next = there + 1
  BY <1>1 DEF TransferRow
<1>3. caller' = [caller EXCEPT ![c].pc = "surveyed", ![c].seen = s]
  <2>1. caller \in [Callers -> Request]
    BY <1>1 DEF CallersTyped
  <2> QED  BY <2>1 DEF Survey, Request
<1> HIDE DEF s
<1>4. Becomes(c, "surveyed", caller[c].id, s, caller[c].answer)
  BY <1>1, <1>2, <1>3, CallerKnows DEF Places
<1>5. RowsBound
  BY <1>1, SameBound
<1>6. Knows("surveyed", s, caller[c].answer, rows'[caller[c].id].next, there')
  BY <1>1, <1>2 DEF Knows, Claimed
<1> QED  BY <1>1, <1>4, <1>5, <1>6, CallerBoundaries

LEMMA SetBounds ==
  ASSUME TypeOK, TypeOK', kind = "copy", Boundaries, NEW c \in Callers, SetBoundary(c)
  PROVE  Boundaries'
<1> DEFINE n == caller[c].seen.next
           i == caller[c].id
           r == Bounded(rows[i], n)
<1>1. /\ caller[c].pc = "surveyed" /\ caller[c].pc # "idle" /\ there' = there
      /\ UNCHANGED <<done, orphans>> /\ Row(c) = rows[i]
  BY DEF SetBoundary, serverVars, Row
<1>2. /\ i \in DOMAIN rows /\ rows[i] \in TransferRow /\ rows[i].next \in Nat /\ n \in Nat /\ there \in Nat
      /\ RowsTyped /\ CallersTyped /\ Marked(rows[i])
  BY <1>1, TypeParts, CopyTyped, CallerTyped
<1>3. n <= there + 1 /\ RowBounded(rows[i], there)
  BY <1>1, <1>2 DEF Boundaries, CallerBounded, Knows
<1>4. /\ Write(i, r)
      /\ IF r.next = 0 THEN Ends(c) ELSE caller' = [caller EXCEPT ![c].pc = "bounded", ![c].seen = r]
  BY <1>1 DEF SetBoundary
<1>5. /\ r \in TransferRow
      /\ r = rows[i] \/ (/\ r.next = n /\ ~r.dispatched /\ r.state \notin Settled /\ rows[i].next = 0)
  <2>1. r \in TransferRow
    BY <1>2, BoundedFollows DEF Follows
  <2>2. CASE rows[i].state = "pending" /\ Unbounded(rows[i])
    <3>1. r = [rows[i] EXCEPT !.next = n]
      BY <2>2 DEF Bounded
    <3> QED  BY <1>2, <2>1, <2>2, <3>1 DEF TransferRow, Unbounded, Settled
  <2> QED  BY <2>1, <2>2 DEF Bounded
<1> HIDE DEF r
<1>6. DOMAIN rows' = DOMAIN rows /\ rows'[i] = r /\ \A j \in DOMAIN rows : j # i => rows'[j] = rows[j]
  BY <1>2, <1>4 DEF Write
<1>7. RowBounded(rows'[i], there')
  BY <1>1, <1>2, <1>3, <1>5, <1>6 DEF RowBounded, Reached
<1>8. ASSUME NEW j \in DOMAIN rows PROVE RowBounded(rows'[j], there')
  BY <1>1, <1>6, <1>7 DEF Boundaries, RowBounded, Reached
<1>9. RowsBound
  BY <1>1, <1>2, <1>5, <1>6, <1>8 DEF RowsBound
<1>10. CASE Ends(c)
  BY <1>1, <1>9, <1>10, RestBoundaries
<1>11. CASE r.next # 0 /\ caller' = [caller EXCEPT ![c].pc = "bounded", ![c].seen = r]
  <2>1. Becomes(c, "bounded", i, r, caller[c].answer)
    BY <1>1, <1>2, <1>5, <1>6, <1>11, CallerKnows DEF Places
  <2>2. Knows("bounded", r, caller[c].answer, rows'[i].next, there')
    BY <1>6, <1>11 DEF Knows, Claimed
  <2> QED  BY <1>1, <1>9, <2>1, <2>2, CallerBoundaries
<1> QED  BY <1>4, <1>10, <1>11

(* What is found of a copy lies at the boundary or beyond. *)
LEMMA LookBounds ==
  ASSUME TypeOK, TypeOK', kind = "copy", Boundaries, NEW c \in Callers, Look(c)
  PROVE  Boundaries'
<1>1. /\ caller[c].pc \in {"staged", "bounded"} /\ caller[c].pc # "idle" /\ Inactive(caller[c].seen)
      /\ rows' = rows /\ there' = there /\ UNCHANGED <<done, orphans>>
  BY DEF Look, Ready, rowVars, serverVars
<1>2. /\ CallersTyped /\ caller[c].id \in DOMAIN rows /\ caller[c].id \in Nat /\ there \in Nat
      /\ caller[c].seen \in TransferRow /\ caller[c].seen.next \in Nat
  BY <1>1, TypeParts, CopyTyped, CallerTyped
<1>3. caller[c].seen.next # 0 /\ rows[caller[c].id].next = caller[c].seen.next
  BY <1>1 DEF Boundaries, CallerBounded, Knows, Inactive
<1>4. RowsBound
  BY <1>1, <1>2, SameBound
<1>5. "looked" \in Places /\ "none" \in Answers /\ "applied" \in Answers /\ Staged \in TransferRow
  BY RestTyped DEF Places, Answers
<1>6. CASE /\ Applied(caller[c].seen)
           /\ caller' = [caller EXCEPT ![c] = [AtRest EXCEPT !.pc = "looked", !.id = caller[c].id,
                                                             !.answer = "applied"]]
  <2>1. Becomes(c, "looked", caller[c].id, Staged, "applied")
    BY <1>1, <1>2, <1>5, <1>6, CallerRestarts
  <2>2. there >= caller[c].seen.next
    BY <1>2, <1>6 DEF Applied, Exact
  <2>3. Knows("looked", Staged, "applied", rows'[caller[c].id].next, there')
    BY <1>1, <1>3, <2>2 DEF Knows, Claimed, Reached
  <2> QED  BY <1>1, <1>4, <2>1, <2>3, CallerBoundaries
<1>7. CASE caller' = [caller EXCEPT ![c] = [AtRest EXCEPT !.pc = "looked", !.id = caller[c].id,
                                                          !.seen = ClaimOf(caller[c].seen)]]
  <2>1. Becomes(c, "looked", caller[c].id, ClaimOf(caller[c].seen), "none")
    BY <1>1, <1>2, <1>5, <1>7, ClaimOfTyped, CallerRestarts
  <2>2. Knows("looked", ClaimOf(caller[c].seen), "none", rows'[caller[c].id].next, there')
    BY DEF Knows, Claimed, Success
  <2> QED  BY <1>1, <1>4, <2>1, <2>2, CallerBoundaries
<1>8. CASE Ends(c)
  BY <1>1, <1>4, <1>8, RestBoundaries
<1> QED  BY <1>6, <1>7, <1>8 DEF Look

(* A step that ends a request and leaves the rows. *)
LEMMA IdleBounds ==
  ASSUME TypeOK, TypeOK', kind = "copy", Boundaries, NEW c \in Callers,
         Refuse(c) \/ LookFails(c) \/ CompleteFails(c) \/ Cleanup(c)
  PROVE  Boundaries'
<1>1. caller[c].pc # "idle" /\ Ends(c) /\ rows' = rows /\ UNCHANGED <<done, orphans, there>>
  BY DEF Refuse, LookFails, CompleteFails, Cleanup, Ready, rowVars, serverVars
<1>2. RowsBound
  BY <1>1, CopyTyped, SameBound
<1> QED  BY <1>1, <1>2, RestBoundaries

(* The row of a settled transfer, and one whose success is proven. *)
LEMMA SettledBounds ==
  ASSUME Inv, TypeOK', kind = "copy", Boundaries, NEW c \in Callers,
         TakeUpSettled(c) \/ Confirm(c) \/ Complete(c)
  PROVE  Boundaries'
<1>1. TypeOK /\ caller[c].pc # "idle" /\ UNCHANGED <<done, orphans, there>> /\ (Ends(c) \/ Completes(c))
  BY DEF Inv, TakeUpSettled, Confirm, Complete, serverVars
<1>2. /\ caller[c].id \in DOMAIN rows /\ Row(c) = rows[caller[c].id] /\ Row(c) \in TransferRow
  BY <1>1, CallerTyped DEF Row
<1>3. \/ rows' = rows
      \/ Row(c).state \in Settled \/ Reached(rows[caller[c].id].next, there)
  <2>1. CASE TakeUpSettled(c)
    BY <2>1 DEF TakeUpSettled, Inv, KnowsSettled
  <2>2. CASE Complete(c)
    BY <2>2 DEF Complete, Inv, KnowsSettled
  <2>3. CASE Confirm(c)
    BY <1>2, <2>3 DEF Confirm, Boundaries, CallerBounded, Knows, Success
  <2> QED  BY <2>1, <2>2, <2>3
<1>4. \/ rows' = rows
      \/ \E u \in BOOLEAN : Write(caller[c].id, Succeeded(Row(c), u))
      \/ Write(caller[c].id, [Row(c) EXCEPT !.state = "consumed"])
  BY DEF TakeUpSettled, Confirm, Complete
<1>5. RowsBound
  <2>1. CASE rows' = rows
    BY <1>1, <2>1, CopyTyped, SameBound
  <2>2. CASE rows' # rows
    <3>1. CASE \E u \in BOOLEAN : Write(caller[c].id, Succeeded(Row(c), u))
      <4>1. PICK u \in BOOLEAN : Write(caller[c].id, Succeeded(Row(c), u))
        BY <3>1
      <4>2. KeepsBound(Row(c), Succeeded(Row(c), u))
        BY <1>2, <1>3, <2>2, WritesKeepBounds DEF KeepsBound, Reached
      <4> QED  BY <1>1, <1>2, <4>1, <4>2, WrittenBound
    <3>2. CASE Write(caller[c].id, [Row(c) EXCEPT !.state = "consumed"])
      <4>1. KeepsBound(Row(c), [Row(c) EXCEPT !.state = "consumed"])
        BY <1>2, <1>3, <2>2, WritesKeepBounds DEF KeepsBound, Reached
      <4> QED  BY <1>1, <1>2, <3>2, <4>1, WrittenBound
    <3> QED  BY <1>4, <2>2, <3>1, <3>2
  <2> QED  BY <2>1, <2>2
<1> QED  BY <1>1, <1>5, RestBoundaries

(* A claim is given up, or made: only of a row that has its boundary. *)
LEMMA ReopenBounds ==
  ASSUME TypeOK, TypeOK', kind = "copy", Boundaries, NEW c \in Callers, Reopen(c)
  PROVE  Boundaries'
<1>1. caller[c].pc # "idle" /\ UNCHANGED <<done, orphans, there>>
  BY DEF Reopen, serverVars
<1>2. /\ caller[c].id \in DOMAIN rows /\ Row(c) = rows[caller[c].id] /\ Row(c) \in TransferRow
      /\ CallersTyped /\ RowBounded(rows[caller[c].id], there)
  BY <1>1, TypeParts, CallerTyped DEF Row, Boundaries
<1>3. CASE Goes(c, "reopened") /\ Write(caller[c].id, Reopened(Row(c))) /\ HoldsClaim(c)
  <2>1. KeepsBound(Row(c), Reopened(Row(c))) /\ Reopened(Row(c)).next = Row(c).next
    BY <1>2, WritesKeepBounds DEF KeepsBound
  <2>2. RowsBound
    BY <1>1, <1>2, <1>3, <2>1, WrittenBound
  <2>3. Becomes(c, "reopened", caller[c].id, caller[c].seen, caller[c].answer)
    BY <1>1, <1>2, <1>3, <2>2, CallerGoes DEF Places, RowsBound
  <2>4. rows'[caller[c].id].next # 0
    BY <1>2, <1>3, <2>2 DEF RowsBound, RowBounded, HoldsClaim
  <2>5. Knows("reopened", caller[c].seen, caller[c].answer, rows'[caller[c].id].next, there')
    BY <2>4 DEF Knows
  <2> QED  BY <1>1, <2>2, <2>3, <2>5, CallerBoundaries
<1>4. CASE Ends(c) /\ rows' = rows
  BY <1>1, <1>4, CopyTyped, SameBound, RestBoundaries
<1> QED  BY <1>3, <1>4 DEF Reopen

LEMMA ClaimBounds ==
  ASSUME TypeOK, TypeOK', kind = "copy", Boundaries, NEW c \in Callers, Claim(c)
  PROVE  Boundaries'
<1> DEFINE r == ClaimedNow(Row(c))
<1>1. caller[c].pc # "idle" /\ UNCHANGED <<done, orphans, there>> /\ process \in Nat
  BY DEF Claim, Ready, serverVars, TypeOK
<1>2. /\ caller[c].id \in DOMAIN rows /\ Row(c) = rows[caller[c].id] /\ Row(c) \in TransferRow
      /\ CallersTyped
  BY <1>1, TypeParts, CallerTyped DEF Row
<1>3. Row(c).next # 0
  <2>1. CallerBounded(caller[c])
    BY DEF Boundaries
  <2> QED  BY <1>2, <2>1 DEF Claim, Ready, Unbounded, CallerBounded, Knows
<1>4. r \in TransferRow /\ KeepsBound(Row(c), r) /\ r.next = Row(c).next
  BY <1>1, <1>2, <1>3, WritesKeepBounds, ClaimFollows DEF KeepsBound, Follows
<1> HIDE DEF r
<1>5. CASE /\ Write(caller[c].id, r)
           /\ caller' = [caller EXCEPT ![c].pc = "claimed", ![c].seen = ClaimOf(r)]
  <2>1. RowsBound
    BY <1>1, <1>2, <1>4, <1>5, WrittenBound
  <2>2. Becomes(c, "claimed", caller[c].id, ClaimOf(r), caller[c].answer)
    BY <1>1, <1>2, <1>4, <1>5, <2>1, ClaimOfTyped, CallerKnows DEF Places, Claimed, RowsBound
  <2>3. rows'[caller[c].id].next # 0
    BY <1>2, <1>3, <2>1 DEF RowsBound
  <2>4. Knows("claimed", ClaimOf(r), caller[c].answer, rows'[caller[c].id].next, there')
    BY <2>3 DEF Knows
  <2> QED  BY <1>1, <2>1, <2>2, <2>4, CallerBoundaries
<1>6. CASE Ends(c) /\ rows' = rows
  BY <1>1, <1>6, CopyTyped, SameBound, RestBoundaries
<1> QED  BY <1>5, <1>6 DEF Claim, r

(* The command and its answer. *)
LEMMA SendBounds ==
  ASSUME TypeOK, TypeOK', kind = "copy", Boundaries, NEW c \in Callers,
         Send(c) \/ NotSent(c) \/ Decline(c) \/ Answer(c) \/ SettleFails(c)
  PROVE  Boundaries'
<1>1. /\ caller[c].pc \in Claimed /\ caller[c].pc # "idle" /\ rows' = rows
      /\ UNCHANGED <<done, orphans, there>>
  BY DEF Send, NotSent, Decline, Answer, SettleFails, Claimed, rowVars, serverVars
<1>2. RowsBound /\ CallersTyped /\ DOMAIN rows \subseteq DOMAIN rows'
  BY <1>1, CopyTyped, SameBound, TypeParts DEF RowsBound
<1>3. rows'[caller[c].id].next # 0
  BY <1>1 DEF Boundaries, CallerBounded, Knows
<1>4. CASE \E a \in {"refused", "unsent", "unknown"} : Answered(c, a)
  <2>1. PICK a \in {"refused", "unsent", "unknown"} : Answered(c, a)
    BY <1>4
  <2>2. Becomes(c, "settle", caller[c].id, caller[c].seen, a)
    BY <1>1, <1>2, <2>1, CallerAnswered DEF Answers
  <2>3. Knows("settle", caller[c].seen, a, rows'[caller[c].id].next, there')
    BY <1>3 DEF Knows, Claimed, Success
  <2> QED  BY <1>1, <1>2, <2>2, <2>3, CallerBoundaries
<1>5. CASE Goes(c, "sent")
  <2>1. Becomes(c, "sent", caller[c].id, caller[c].seen, caller[c].answer)
    BY <1>1, <1>2, <1>5, CallerGoes DEF Places, Claimed
  <2>2. Knows("sent", caller[c].seen, caller[c].answer, rows'[caller[c].id].next, there')
    BY <1>3 DEF Knows
  <2> QED  BY <1>1, <1>2, <2>1, <2>2, CallerBoundaries
<1>6. CASE Answer(c)
  <2>1. PICK a \in Success : Answered(c, a)
    BY <1>6 DEF Answer, Done, Success
  <2>2. Becomes(c, "settle", caller[c].id, caller[c].seen, a)
    BY <1>1, <1>2, <2>1, CallerAnswered DEF Answers, Success
  <2>3. Reached(rows'[caller[c].id].next, there')
    BY <1>1, <1>6 DEF Answer, Boundaries, CallerBounded, Knows, Reached
  <2>4. Knows("settle", caller[c].seen, a, rows'[caller[c].id].next, there')
    BY <1>3, <2>3 DEF Knows
  <2> QED  BY <1>1, <1>2, <2>2, <2>4, CallerBoundaries
<1>7. CASE Ends(c)
  BY <1>1, <1>2, <1>7, RestBoundaries
<1> QED  BY <1>4, <1>5, <1>6, <1>7 DEF Send, NotSent, Decline, SettleFails

LEMMA ReachedByEffect ==
  ASSUME TypeOK, TypeOK', kind = "copy", Boundaries, rows' = rows, NEW i \in DOMAIN rows,
         rows[i].next # 0, Effect(i)
  PROVE  RowsBound /\ Reached(rows'[i].next, there') /\ \A j \in done' : j \in done \/ Reached(rows'[j].next, there')
<1>1. there \in Nat /\ rows[i].next \in Nat /\ there' = there + 1 /\ done' = done \cup {i}
  BY CopyTyped DEF Effect
<1>2. Reached(rows'[i].next, there')
  BY <1>1 DEF Boundaries, RowBounded, Reached
<1>3. RowsBound
  BY <1>1, SameBound
<1> QED  BY <1>1, <1>2, <1>3

LEMMA ExecuteBounds ==
  ASSUME TypeOK, TypeOK', kind = "copy", Boundaries, NEW c \in Callers, Execute(c)
  PROVE  Boundaries'
<1>1. /\ caller[c].pc = "sent" /\ caller[c].pc # "idle" /\ rows' = rows /\ orphans' = orphans
      /\ Effect(caller[c].id) /\ Goes(c, "executed")
  BY DEF Execute, rowVars
<1>2. caller[c].id \in DOMAIN rows /\ rows[caller[c].id].next # 0 /\ CallersTyped
  BY <1>1, CopyTyped, TypeParts DEF Boundaries, CallerBounded, Knows, Claimed
<1>3. RowsBound /\ Reached(rows'[caller[c].id].next, there') /\ \A j \in done' : j \in done \/ Reached(rows'[j].next, there')
  BY <1>1, <1>2, ReachedByEffect
<1>4. Becomes(c, "executed", caller[c].id, caller[c].seen, caller[c].answer)
  BY <1>1, <1>2, CallerGoes DEF Places, Claimed
<1>5. Knows("executed", caller[c].seen, caller[c].answer, rows'[caller[c].id].next, there')
  BY <1>3 DEF Knows, Claimed, Reached
<1>6. CallerBounded(caller[c])'
  BY <1>4, <1>5 DEF Becomes, CallerBounded
<1>7. \A d \in Callers : d # c => caller'[d] = caller[d]
  BY <1>4 DEF Becomes
<1> QED  BY <1>1, <1>3, <1>6, <1>7, BoundariesKept

(* A command becomes nobody's, and is run after all. *)
LEMMA LoseBounds ==
  ASSUME TypeOK, TypeOK', kind = "copy", Boundaries, NEW c \in Callers, LoseAnswer(c) \/ Panic(c)
  PROVE  Boundaries'
<1>1. /\ caller[c].pc # "idle" /\ rows' = rows /\ UNCHANGED <<done, there>>
      /\ orphans' = Abandoned(c) /\ (Ends(c) \/ (caller[c].pc \in Claimed /\ Answered(c, "unknown")))
  BY DEF LoseAnswer, Panic, rowVars, Claimed
<1>2. RowsBound /\ CallersTyped /\ DOMAIN rows \subseteq DOMAIN rows' /\ caller[c].id \in DOMAIN rows
  BY <1>1, CopyTyped, SameBound, TypeParts DEF RowsBound
<1>3. CallerBounded(caller[c])
  BY DEF Boundaries
<1>4. \A o \in orphans' : o \in orphans \/ (o[1] \in DOMAIN rows /\ rows[o[1]].next # 0)
  BY <1>1, <1>2, <1>3 DEF Abandoned, CallerBounded, Knows, Claimed
<1>5. CASE Ends(c)
  <2>1. Becomes(c, "idle", 0, Staged, "none")
    BY <1>2, <1>5, CallerEnds DEF Rests
  <2>2. CallerBounded(caller[c])'
    BY <2>1 DEF Becomes, CallerBounded, Knows, Claimed
  <2>3. \A d \in Callers : d # c => caller'[d] = caller[d]
    BY <2>1 DEF Becomes
  <2> QED  BY <1>1, <1>2, <1>4, <2>2, <2>3, BoundariesKept
<1>6. CASE caller[c].pc \in Claimed /\ Answered(c, "unknown")
  <2>1. Becomes(c, "settle", caller[c].id, caller[c].seen, "unknown")
    BY <1>1, <1>2, <1>6, CallerAnswered DEF Answers
  <2>2. rows'[caller[c].id].next # 0
    BY <1>1, <1>3, <1>6 DEF CallerBounded, Knows
  <2>3. CallerBounded(caller[c])'
    BY <2>1, <2>2 DEF Becomes, CallerBounded, Knows, Claimed, Success
  <2>4. \A d \in Callers : d # c => caller'[d] = caller[d]
    BY <2>1 DEF Becomes
  <2> QED  BY <1>1, <1>2, <1>4, <2>3, <2>4, BoundariesKept
<1> QED  BY <1>1, <1>5, <1>6

LEMMA OrphanBounds ==
  ASSUME TypeOK, TypeOK', kind = "copy", Boundaries, RunOrphan
  PROVE  Boundaries'
<1>1. PICK o \in orphans :
        /\ orphans' = orphans \ {o}
        /\ Effect(o[1]) \/ UNCHANGED <<here, there, done>>
        /\ rows' = rows /\ caller' = caller
  BY DEF RunOrphan, rowVars
<1>2. o[1] \in DOMAIN rows /\ rows[o[1]].next # 0
  BY <1>1, CopyTyped DEF Boundaries
<1>3. RowsBound /\ \A j \in done' : j \in done \/ Reached(rows'[j].next, there')
  <2>1. CASE Effect(o[1])
    BY <1>1, <1>2, <2>1, ReachedByEffect
  <2>2. CASE UNCHANGED <<here, there, done>>
    BY <1>1, <2>2, CopyTyped, SameBound
  <2> QED  BY <1>1, <2>1, <2>2
<1> QED  BY <1>1, <1>3, BoundariesKept

(* The answer settles the claim. *)
LEMMA SettleBounds ==
  ASSUME TypeOK, TypeOK', kind = "copy", Boundaries, NEW c \in Callers, Settle(c)
  PROVE  Boundaries'
<1>1. caller[c].pc = "settle" /\ caller[c].pc # "idle" /\ UNCHANGED <<done, orphans, there>>
      /\ (Ends(c) \/ Completes(c))
  BY DEF Settle, serverVars
<1>2. /\ caller[c].id \in DOMAIN rows /\ Row(c) = rows[caller[c].id] /\ Row(c) \in TransferRow
  BY <1>1, CallerTyped DEF Row
<1>3. CASE Found(c) /\ Write(caller[c].id, Outcome(c))
  <2>1. KeepsBound(Row(c), Outcome(c))
    <3>1. CASE caller[c].answer \in Success
      <4>1. Reached(rows[caller[c].id].next, there)
        BY <1>1, <3>1 DEF Boundaries, CallerBounded, Knows
      <4>2. \E u \in BOOLEAN : Outcome(c) = Succeeded(Row(c), u)
        BY <3>1 DEF Outcome, Success
      <4> QED  BY <1>2, <4>1, <4>2, WritesKeepBounds DEF KeepsBound, Reached
    <3>2. CASE caller[c].answer = "refused"
      <4>1. Outcome(c) = [Row(c) EXCEPT !.state = "failed"]
        BY <3>2 DEF Outcome
      <4>2. /\ Outcome(c).next = Row(c).next /\ Outcome(c).dispatched = Row(c).dispatched
            /\ Outcome(c).state = "failed"
        BY <1>2, <4>1, WritesKeepBounds
      <4> QED  BY <4>2 DEF KeepsBound, Settled
    <3>3. CASE caller[c].answer = "unsent"
      BY <1>2, <3>3, WritesKeepBounds DEF KeepsBound, Outcome
    <3>4. CASE caller[c].answer = "unknown"
      BY <1>2, <3>4, WritesKeepBounds DEF Outcome
    <3> QED  BY <1>3, <3>1, <3>2, <3>3, <3>4 DEF Found, Success
  <2>2. RowsBound
    BY <1>1, <1>2, <1>3, <2>1, WrittenBound
  <2> QED  BY <1>1, <2>2, RestBoundaries
<1>4. CASE rows' = rows
  BY <1>1, <1>4, CopyTyped, SameBound, RestBoundaries
<1> QED  BY <1>3, <1>4 DEF Settle

(* Beside the requests. *)
LEMMA AgeBounds ==
  ASSUME TypeOK, TypeOK', kind = "copy", Boundaries, Age
  PROVE  Boundaries'
<1>1. PICK i \in DOMAIN rows :
        /\ Write(i, [rows[i] EXCEPT !.stale = TRUE])
        /\ caller' = caller /\ UNCHANGED <<done, orphans, there>>
  BY DEF Age, serverVars
<1>2. KeepsBound(rows[i], [rows[i] EXCEPT !.stale = TRUE])
  BY CopyTyped, WritesKeepBounds
<1>3. RowsBound
  BY <1>1, <1>2, WrittenBound
<1> QED  BY <1>1, <1>3, BoundariesKept

LEMMA OtherBounds ==
  ASSUME TypeOK, TypeOK', kind = "copy", Boundaries, OtherClient
  PROVE  Boundaries'
<1>1. rows' = rows /\ caller' = caller /\ UNCHANGED <<done, orphans>> /\ there' = there + 1
  BY DEF OtherClient, rowVars
<1>2. RowsBound
  BY <1>1, CopyTyped, SameBound
<1> QED  BY <1>1, <1>2, BoundariesKept

LEMMA RestartBounds ==
  ASSUME TypeOK, TypeOK', kind = "copy", Boundaries, Restart
  PROVE  Boundaries'
<1>1. /\ orphans' = UNION {Abandoned(c) : c \in Callers} /\ caller' = [c \in Callers |-> AtRest]
      /\ rows' = rows /\ UNCHANGED <<done, there>>
  BY DEF Restart, rowVars
<1>2. RowsBound
  BY <1>1, CopyTyped, SameBound
<1>3. ASSUME NEW o \in orphans' PROVE o \in orphans \/ (o[1] \in DOMAIN rows /\ rows[o[1]].next # 0)
  <2>1. PICK c \in Callers : o \in Abandoned(c)
    BY <1>1
  <2>2. /\ CallerBounded(caller[c])
        /\ caller[c].pc # "idle" => caller[c].id \in DOMAIN rows
    BY CopyTyped DEF Boundaries
  <2> QED  BY <2>1, <2>2 DEF Abandoned, CallerBounded, Knows, Claimed
<1>4. ASSUME NEW c \in Callers
      PROVE  CallerBounded(caller[c])'
  <2>1. caller'[c] = AtRest /\ AtRest.pc = "idle"
    BY <1>1 DEF AtRest
  <2> QED  BY <2>1 DEF CallerBounded, Knows, Claimed
<1> QED  BY <1>1, <1>2, <1>3, <1>4, BoundariesKept

(* A copy that succeeded is consumed by its arrival; no other row changes. *)
LEMMA ArrivalBounds ==
  ASSUME TypeOK, TypeOK', kind = "copy", Boundaries, Reconcile \/ Hold \/ Probe \/ Finalize
  PROVE  Boundaries'
<1>1. caller' = caller /\ UNCHANGED <<done, orphans, there>>
  BY DEF Reconcile, Hold, Probe, Finalize, serverVars
<1>2. Dispatched = {}
  BY DEF Dispatched, MoveRows
<1>3. \/ rows' = rows
      \/ rows' = [i \in DOMAIN rows |-> IF rows[i].state = "succeeded"
                                        THEN [rows[i] EXCEPT !.state = "consumed"] ELSE rows[i]]
  <2>1. ASSUME NEW u, Classify(u)
        PROVE  \/ rows' = rows
               \/ rows' = [i \in DOMAIN rows |-> IF rows[i].state = "succeeded"
                                                 THEN [rows[i] EXCEPT !.state = "consumed"] ELSE rows[i]]
    <3> DEFINE matching == {i \in DOMAIN rows : rows[i].state = "succeeded"}
               consume(S) == rows' = [i \in DOMAIN rows |->
                                        IF i \in S THEN [rows[i] EXCEPT !.state = "consumed"] ELSE rows[i]]
    <3>1. rows' = rows \/ consume(matching) \/ consume({})
      BY <1>2, <2>1 DEF Classify
    <3>2. consume({}) => rows' = rows
      BY DEF TypeOK
    <3> QED  BY <3>1, <3>2
  <2>2. RecordExpunge => rows' = rows
    BY <1>2 DEF RecordExpunge
  <2> QED  BY <2>1, <2>2 DEF Reconcile, Hold, Probe, Finalize
<1>4. DOMAIN rows' = DOMAIN rows /\ \A i \in DOMAIN rows : KeepsBound(rows[i], rows'[i])
  <2>1. CASE rows' = rows
    BY <2>1 DEF KeepsBound
  <2>2. CASE rows' = [i \in DOMAIN rows |-> IF rows[i].state = "succeeded"
                                            THEN [rows[i] EXCEPT !.state = "consumed"] ELSE rows[i]]
    <3>1. ASSUME NEW i \in DOMAIN rows PROVE KeepsBound(rows[i], rows'[i])
      <4>1. rows[i] \in TransferRow
        BY CopyTyped
      <4>2. rows'[i] = IF rows[i].state = "succeeded" THEN [rows[i] EXCEPT !.state = "consumed"] ELSE rows[i]
        BY <2>2
      <4> QED  BY <4>1, <4>2, WritesKeepBounds DEF KeepsBound, Settled
    <3> QED  BY <2>2, <3>1
  <2> QED  BY <1>3, <2>1, <2>2
<1>5. RowsBound
  BY <1>1, <1>4, CopyTyped, KeptBound
<1> QED  BY <1>1, <1>5, BoundariesKept

LEMMA BoundariesInit == Init => Boundaries
<1> SUFFICES ASSUME Init PROVE Boundaries
  OBVIOUS
<1>1. DOMAIN rows = {} /\ done = {} /\ orphans = {} /\ caller = [c \in Callers |-> AtRest]
  BY EmptySeq DEF Init
<1>2. \A c \in Callers : caller[c].pc = "idle"
  BY <1>1 DEF AtRest
<1> QED  BY <1>1, <1>2 DEF Boundaries, CallerBounded, Knows, Claimed

LEMMA BoundariesStep ==
  ASSUME Inv, Boundaries, [Next]_vars
  PROVE  Boundaries'
<1>1. TypeOK /\ TypeOK'
  BY InvStep DEF Inv
<1>2. CASE kind # "copy"
  <2>1. \A c \in Callers : Serve(c) \/ Failure(c) => kind' = kind
    BY RequestStep DEF MessageStep
  <2>2. RunOrphan \/ OtherClient \/ Age \/ Restart => kind' = kind
    BY OrphanStep, OtherClientStep, AgeStep, RestartStep DEF MessageStep
  <2>3. Reconcile \/ Hold \/ Probe \/ Finalize => kind' = kind
    BY DEF Reconcile, Hold, Probe, Finalize
  <2>4. kind' = kind
    BY <2>1, <2>2, <2>3 DEF Next, vars, rowVars
  <2> QED  BY <1>2, <2>4 DEF Boundaries
<1>3. CASE kind = "copy"
  <2>1. ASSUME NEW c \in Callers, Serve(c) \/ Failure(c) PROVE Boundaries'
    BY <1>1, <1>3, <2>1, StageBounds, SurveyBounds, SetBounds, LookBounds, IdleBounds, SettledBounds,
       ReopenBounds, ClaimBounds, SendBounds, ExecuteBounds, LoseBounds, SettleBounds DEF Serve, Failure
  <2>2. CASE UNCHANGED vars
    BY <2>2 DEF vars, rowVars, serverVars, Boundaries, CallerBounded, RowBounded, Reached, Knows
  <2> QED  BY <1>1, <1>3, <2>1, <2>2, OrphanBounds, AgeBounds, OtherBounds, RestartBounds, ArrivalBounds
           DEF Next
<1> QED  BY <1>2, <1>3

LEMMA BoundariesHold == Spec => [](Inv /\ Boundaries)
<1>1. Init => Inv /\ Boundaries
  BY InvInit, BoundariesInit
<1>2. Inv /\ Boundaries /\ [Next]_vars => (Inv /\ Boundaries)'
  BY InvStep, BoundariesStep
<1> QED  BY <1>1, <1>2, PTL DEF Spec

(* The destination holds something at or beyond the boundary of each copy    *)
(* recorded as made.                                                         *)
MadeBeyondBoundary ==
    kind = "copy" => \A i \in DOMAIN rows : rows[i].state \in Settled => there >= rows[i].next

(* Even if commands run late and the user's message was in the destination    *)
(* before: a copy is recorded as made only once a message lies at or beyond   *)
(* the UIDNEXT of before its dispatch (CopyMessage and                        *)
(* resolveSucceededCopyDestination, which split the matches there, and        *)
(* SetMessageTransferDestinationSnapshot, which never moves it).              *)
THEOREM CopiesBeyondBoundary == Spec => []MadeBeyondBoundary
<1>1. Boundaries => MadeBeyondBoundary
  BY DEF Boundaries, RowBounded, Reached, MadeBeyondBoundary
<1> QED  BY <1>1, BoundariesHold, PTL

-----------------------------------------------------------------------------
(* One command at a time.  The rows that have not failed are one at most, and *)
(* whatever is under way -- a claim, a command nobody waits for, an effect -- *)
(* belongs to the attempt that row carries.                                   *)
OneOpenRow == \A i, j \in DOMAIN rows : rows[i].state # "failed" /\ rows[j].state # "failed" => i = j
OneClaim   == \A c, d \in Callers : caller[c].pc \in Claimed /\ caller[d].pc \in Claimed => c = d

Underway(i) == rows[i].state # "failed" /\ rows[i].dispatched

(* A claimed caller holds the claim its row carries.  While one of its own    *)
(* commands is abroad it has but to record that, and it fails or gives up no  *)
(* transfer that has taken effect.                                            *)
Effective == {"moved", "placed", "applied", "unknown"}
ClaimSound(q) == q.pc \in Claimed =>
    /\ Underway(q.id) /\ rows[q.id].attempt = q.seen.attempt /\ ~Inactive(rows[q.id])
    /\ orphans # {} => q.pc = "settle" /\ q.answer = "unknown"
    /\ done # {} => q.pc = "executed" \/ (q.pc = "settle" /\ q.answer \in Effective)

(* What a caller has read of an attempt stays true of it.                     *)
SnapshotSound(q) == q.pc \in {"staged", "bounded"} =>
    /\ q.seen.attempt <= rows[q.id].attempt
    /\ Inactive(q.seen) /\ rows[q.id].dispatched /\ rows[q.id].attempt = q.seen.attempt =>
           Inactive(rows[q.id])

(* The server's word that a command left no trace: as long as the row carries *)
(* its attempt, none is abroad, and none has taken effect.                    *)
Proven(q) == /\ q.pc = "looked" /\ q.answer = "none" /\ rows[q.id].state = "pending"
             /\ rows[q.id].dispatched /\ rows[q.id].attempt = q.seen.attempt
ProofSound(q) ==
    /\ q.pc = "looked" /\ q.answer = "none" => q.seen.attempt <= rows[q.id].attempt
    /\ Proven(q) => Inactive(rows[q.id]) /\ orphans = {} /\ done = {}

Coherent(q) == ClaimSound(q) /\ SnapshotSound(q) /\ ProofSound(q)

OrphansSound == /\ \A o \in orphans : Underway(o[1]) /\ rows[o[1]].attempt = o[2]
                /\ orphans # {} => done = {}
EffectsSound == \A i \in done : Underway(i)

(* What the server shows of the effects. *)
Counted ==
    /\ kind = "move" /\ done # {} => ~here
    /\ kind = "copy" => IF done = {} THEN there <= others ELSE 1 <= there /\ there <= 1 + others

OneAttempt ==
    /\ Inv /\ OneOpenRow /\ OneClaim /\ OrphansSound /\ EffectsSound /\ Counted
    /\ \A c \in Callers : Coherent(caller[c])

-----------------------------------------------------------------------------
(* What a step leaves of a claim: r stands where q stood, to those who have   *)
(* read q, and to those who hold q.                                           *)
Advances(q, r) ==
    /\ q.attempt <= r.attempt
    /\ r.dispatched /\ r.attempt = q.attempt =>
           q.dispatched /\ r.owner = q.owner /\ (q.finished => r.finished) /\ (q.stale => r.stale)
    /\ r.state = "pending" => q.state = "pending"

SameClaim(q, r) ==
    /\ r.dispatched = q.dispatched /\ r.owner = q.owner /\ r.attempt = q.attempt
    /\ r.finished = q.finished /\ r.stale = q.stale
    /\ (r.state = "failed") = (q.state = "failed")
    /\ r.state = "pending" => q.state = "pending"

RowsAdvance == DOMAIN rows \subseteq DOMAIN rows' /\ \A i \in DOMAIN rows : Advances(rows[i], rows'[i])
RowsSame    == DOMAIN rows' = DOMAIN rows /\ \A i \in DOMAIN rows : SameClaim(rows[i], rows'[i])

LEMMA SameAdvances ==
    ASSUME TypeOK, RowsSame
    PROVE  RowsAdvance
<1> SUFFICES ASSUME NEW i \in DOMAIN rows PROVE Advances(rows[i], rows'[i])
  BY DEF RowsAdvance, RowsSame
<1>1. rows[i].attempt \in Nat
  BY TypeParts, RowTyped, RowFields
<1>2. SameClaim(rows[i], rows'[i])
  BY DEF RowsSame
<1> QED  BY <1>1, <1>2 DEF SameClaim, Advances

LEMMA UnchangedSame == ASSUME rows' = rows PROVE RowsSame
BY DEF RowsSame, SameClaim

LEMMA Written ==
    ASSUME NEW i \in DOMAIN rows, NEW r, Write(i, r)
    PROVE  DOMAIN rows' = DOMAIN rows /\ rows'[i] = r /\ \A j \in DOMAIN rows : j # i => rows'[j] = rows[j]
BY DEF Write

LEMMA WrittenSame ==
    ASSUME NEW i \in DOMAIN rows, NEW r, Write(i, r), SameClaim(rows[i], r)
    PROVE  RowsSame
BY Written DEF RowsSame, SameClaim

LEMMA SucceededSame ==
    ASSUME NEW r \in TransferRow, NEW u \in BOOLEAN, r.state # "failed"
    PROVE  SameClaim(r, Succeeded(r, u))
BY DEF TransferRow, Succeeded, SameClaim

LEMMA StateSame ==
    ASSUME NEW r \in TransferRow, r.state # "failed", NEW s \in {"succeeded", "consumed"}
    PROVE  SameClaim(r, [r EXCEPT !.state = s])
BY DEF TransferRow, SameClaim

(* The rows of a set succeed or are consumed. *)
LEMMA MappedSame ==
    ASSUME TypeOK, NEW S, \A i \in DOMAIN rows : i \in S => rows[i].state # "failed",
           NEW s \in {"succeeded", "consumed"},
           rows' = [i \in DOMAIN rows |-> IF i \in S THEN [rows[i] EXCEPT !.state = s] ELSE rows[i]]
    PROVE  RowsSame
<1>1. ASSUME NEW i \in DOMAIN rows PROVE SameClaim(rows[i], rows'[i])
  <2>1. rows[i] \in TransferRow
    BY TypeParts, RowTyped
  <2>2. CASE i \in S
    BY <2>1, <2>2, StateSame
  <2>3. CASE i \notin S
    BY <2>3 DEF SameClaim
  <2> QED  BY <2>2, <2>3
<1> QED  BY <1>1 DEF RowsSame

-----------------------------------------------------------------------------
(* What a caller knows survives the steps of others. *)

LEMMA InactiveKept ==
    ASSUME NEW q, NEW r, Advances(q, r), r.dispatched, r.attempt = q.attempt, Inactive(q), process' = process
    PROVE  Inactive(r)'
BY DEF Advances, Inactive

LEMMA WaitingKept ==
    ASSUME TypeOK, TypeOK', RowsAdvance, process' = process,
           NEW q \in Request, q.pc # "idle" => q.id \in DOMAIN rows,
           SnapshotSound(q), ProofSound(q), Proven(q) => orphans' = {} /\ done' = {}
    PROVE  SnapshotSound(q)' /\ ProofSound(q)'
<1> SUFFICES ASSUME q.pc # "idle" PROVE SnapshotSound(q)' /\ ProofSound(q)'
  BY DEF SnapshotSound, ProofSound, Proven
<1>0. PICK r, n : r = rows[q.id] /\ n = rows'[q.id]
  OBVIOUS
<1>1. Advances(r, n) /\ r.attempt \in Nat /\ n.attempt \in Nat /\ q.seen.attempt \in Nat
  <2>1. q.id \in DOMAIN rows /\ Advances(r, n)
    BY <1>0 DEF RowsAdvance
  <2>2. r.attempt \in Nat /\ q.seen.attempt \in Nat
    BY <1>0, <2>1, TypeParts, RowTyped, RowFields, RequestFields
  <2>3. q.id \in DOMAIN rows'
    BY <2>1 DEF RowsAdvance
  <2>4. n \in TransferRow
    BY <1>0, <2>3, ElementOfSeq, LenProperties DEF TypeOK
  <2> QED  BY <2>1, <2>2, <2>4, RowFields
<1>2. r.attempt <= n.attempt
  BY <1>1 DEF Advances
<1>3. n.dispatched /\ n.attempt = q.seen.attempt /\ q.seen.attempt <= r.attempt =>
        r.attempt = q.seen.attempt /\ n.attempt = r.attempt /\ r.dispatched
  BY <1>1, <1>2 DEF Advances
<1>4. n.dispatched /\ n.attempt = r.attempt /\ Inactive(r) => Inactive(n)'
  BY <1>1, InactiveKept
<1>5. SnapshotSound(q)'
  <2>1. Inactive(q.seen)' => Inactive(q.seen)
    BY DEF Inactive
  <2>2. q.pc \in {"staged", "bounded"} =>
          /\ q.seen.attempt <= n.attempt
          /\ Inactive(q.seen)' /\ n.dispatched /\ n.attempt = q.seen.attempt => Inactive(n)'
    BY <1>0, <1>1, <1>2, <1>3, <1>4, <2>1 DEF SnapshotSound
  <2> QED  BY <1>0, <2>2 DEF SnapshotSound, Inactive
<1>6. ProofSound(q)'
  <2>1. Proven(q)' => Proven(q) /\ n.dispatched /\ n.attempt = r.attempt
    BY <1>0, <1>1, <1>3 DEF Proven, ProofSound, Advances
  <2>2. q.pc = "looked" /\ q.answer = "none" => q.seen.attempt <= n.attempt
    BY <1>0, <1>1, <1>2 DEF ProofSound
  <2>3. Proven(q)' => Inactive(n)'
    BY <1>0, <1>4, <2>1 DEF ProofSound
  <2> QED  BY <1>0, <2>1, <2>2, <2>3 DEF ProofSound, Inactive
<1> QED  BY <1>5, <1>6

LEMMA ClaimKept ==
    ASSUME RowsSame, UNCHANGED <<process, orphans, done>>, NEW q, q.pc # "idle" => q.id \in DOMAIN rows,
           ClaimSound(q)
    PROVE  ClaimSound(q)'
<1> SUFFICES ASSUME q.pc \in Claimed PROVE ClaimSound(q)'
  BY DEF ClaimSound
<1>1. q.pc # "idle" /\ SameClaim(rows[q.id], rows'[q.id])
  BY DEF Claimed, RowsSame
<1> QED  BY <1>1 DEF ClaimSound, Underway, SameClaim, Inactive

(* A caller that does none of it. *)
Rested(q) == q.pc \notin Claimed \cup {"staged", "bounded"} /\ (q.pc = "looked" => q.answer # "none")

LEMMA RestedCoherent == ASSUME NEW q, Rested(q) PROVE Coherent(q) /\ Coherent(q)'
BY DEF Rested, Coherent, ClaimSound, SnapshotSound, ProofSound, Proven

LEMMA CoherentCaller ==
    ASSUME NEW c, NEW q, caller'[c] = q, Coherent(q)'
    PROVE  Coherent(caller[c])'
BY DEF Coherent, ClaimSound, SnapshotSound, ProofSound, Proven, Underway, Inactive

LEMMA CallerKnown ==
    ASSUME OneAttempt, NEW c \in Callers
    PROVE  /\ TypeOK /\ caller[c] \in Request /\ (caller[c].pc # "idle" => caller[c].id \in DOMAIN rows)
           /\ Coherent(caller[c])
BY TypeParts DEF OneAttempt, Inv, CallersTyped

(* A claim leaves no room for another, nor for a proof that it has ended. *)
LEMMA ClaimAlone ==
    ASSUME OneAttempt, NEW c \in Callers, caller[c].pc \in Claimed, NEW d \in Callers
    PROVE  ~Proven(caller[d]) /\ (d # c => caller[d].pc \notin Claimed)
<1>1. /\ Coherent(caller[c]) /\ Coherent(caller[d]) /\ caller[c].id \in DOMAIN rows
      /\ caller[d].pc # "idle" => caller[d].id \in DOMAIN rows
  BY CallerKnown DEF Claimed
<1>2. Underway(caller[c].id) /\ ~Inactive(rows[caller[c].id])
  BY <1>1 DEF Coherent, ClaimSound
<1>3. ASSUME Proven(caller[d]) PROVE FALSE
  <2>1. Inactive(rows[caller[d].id]) /\ rows[caller[d].id].state = "pending" /\ caller[d].pc = "looked"
    BY <1>1, <1>3 DEF Coherent, ProofSound, Proven
  <2>2. caller[d].id = caller[c].id
    BY <1>1, <1>2, <2>1 DEF OneAttempt, OneOpenRow, Underway
  <2> QED  BY <1>2, <2>1, <2>2
<1> QED  BY <1>3 DEF OneAttempt, OneClaim

(* A step that leaves every claim as it is: its caller is at rest, goes on     *)
(* with its claim, or has none.                                               *)
GoesOnClaim(d) == /\ caller[d].pc \in Claimed /\ caller'[d].pc \in Claimed
                  /\ caller'[d].id \in DOMAIN rows /\ ClaimSound(caller'[d])

LEMMA QuietStep ==
    ASSUME OneAttempt, Inv', RowsSame, UNCHANGED <<process, orphans, done>>, Counted',
           \A d \in Callers : \/ caller'[d] = caller[d]
                              \/ Rested(caller'[d])
                              \/ GoesOnClaim(d)
                              \/ caller'[d].pc \notin Claimed /\ Coherent(caller[d])'
    PROVE  OneAttempt'
<1>1. TypeOK /\ TypeOK' /\ RowsAdvance
  BY SameAdvances DEF OneAttempt, Inv
<1>2. ASSUME NEW d \in Callers, ~Coherent(caller[d])' PROVE FALSE
  <2>1. PICK q : q = caller'[d]
    OBVIOUS
  <2>2. Coherent(q)'
    <3>1. CASE Rested(q)
      BY <3>1, RestedCoherent
    <3>2. CASE q = caller[d]
      <4>1. q \in Request /\ (q.pc # "idle" => q.id \in DOMAIN rows) /\ Coherent(q)
        BY <3>2, CallerKnown
      <4>2. Proven(q) => orphans' = {} /\ done' = {}
        BY <4>1 DEF Coherent, ProofSound
      <4> QED  BY <1>1, <4>1, <4>2, WaitingKept, ClaimKept DEF Coherent
    <3>3. CASE GoesOnClaim(d)
      <4>1. q.pc \in Claimed /\ q.id \in DOMAIN rows /\ ClaimSound(q)
        BY <2>1, <3>3 DEF GoesOnClaim, ClaimSound, Underway, Inactive
      <4>2. ClaimSound(q)'
        BY <4>1, ClaimKept
      <4> QED  BY <4>1, <4>2 DEF Coherent, SnapshotSound, ProofSound, Proven, Claimed
    <3> QED  BY <1>2, <2>1, <3>1, <3>2, <3>3
  <2> QED  BY <1>2, <2>1, <2>2, CoherentCaller
<1>3. OneOpenRow'
  BY DEF OneAttempt, OneOpenRow, RowsSame, SameClaim
<1>4. OneClaim'
  <2>1. \A d \in Callers : caller'[d].pc \in Claimed => caller[d].pc \in Claimed
    BY DEF Rested, GoesOnClaim
  <2> QED  BY <2>1 DEF OneAttempt, OneClaim
<1>5. OrphansSound'
  <2>1. \A o \in orphans : o[1] \in DOMAIN rows
    BY <1>1 DEF TypeOK
  <2> QED  BY <2>1 DEF OneAttempt, OrphansSound, Underway, RowsSame, SameClaim
<1>6. EffectsSound'
  <2>1. done \subseteq DOMAIN rows
    BY <1>1 DEF TypeOK
  <2> QED  BY <2>1 DEF OneAttempt, EffectsSound, Underway, RowsSame, SameClaim
<1> QED  BY <1>2, <1>3, <1>4, <1>5, <1>6 DEF OneAttempt

(* A step of caller c, when no other has a claim. *)
LEMMA MoverStep ==
    ASSUME OneAttempt, Inv', RowsAdvance, process' = process, NEW c \in Callers,
           \A d \in Callers : d # c => /\ caller'[d] = caller[d] /\ caller[d].pc \notin Claimed
                                      /\ (Proven(caller[d]) => orphans' = {} /\ done' = {}),
           Coherent(caller[c])', OneOpenRow', OrphansSound', EffectsSound', Counted'
    PROVE  OneAttempt'
<1>1. TypeOK /\ TypeOK'
  BY DEF OneAttempt, Inv
<1>2. ASSUME NEW d \in Callers, d # c PROVE Coherent(caller[d])'
  <2>1. PICK q : q = caller[d]
    OBVIOUS
  <2>2. q \in Request /\ (q.pc # "idle" => q.id \in DOMAIN rows) /\ Coherent(q) /\ q.pc \notin Claimed
        /\ (Proven(q) => orphans' = {} /\ done' = {}) /\ caller'[d] = q
    BY <1>2, <2>1, CallerKnown
  <2>3. SnapshotSound(q)' /\ ProofSound(q)'
    BY <1>1, <2>2, WaitingKept DEF Coherent
  <2>4. Coherent(q)'
    BY <2>2, <2>3 DEF Coherent, ClaimSound
  <2> QED  BY <2>2, <2>4, CoherentCaller
<1>3. OneClaim'
  <2>1. \A d \in Callers : d # c => caller'[d].pc \notin Claimed
    OBVIOUS
  <2> QED  BY <2>1 DEF OneClaim
<1>4. \A d \in Callers : Coherent(caller[d])'
  BY <1>2
<1> QED  BY <1>3, <1>4 DEF OneAttempt

-----------------------------------------------------------------------------
(* The steps of a request. *)

LEMMA SameCounts ==
    ASSUME OneAttempt, UNCHANGED <<kind, here, there, done, others>>
    PROVE  Counted'
BY DEF OneAttempt, Counted

LEMMA RestedMoves ==
    ASSUME NEW c, NEW p, NEW i, NEW s, NEW a, Becomes(c, p, i, s, a),
           p \notin Claimed \cup {"staged", "bounded"}, p = "looked" => a # "none"
    PROVE  \A d \in Callers : caller'[d] = caller[d] \/ Rested(caller'[d])
BY DEF Becomes, Rested

(* The caller goes to its rest, and no claim is touched. *)
LEMMA RestingStep ==
    ASSUME OneAttempt, Inv', NEW c \in Callers, caller[c].pc # "idle", RowsSame,
           UNCHANGED <<process, orphans, done, kind, here, there, others>>,
           Ends(c) \/ Completes(c) \/ Goes(c, "cleanup")
    PROVE  OneAttempt'
<1>1. CallersTyped /\ DOMAIN rows \subseteq DOMAIN rows'
  BY TypeParts DEF OneAttempt, Inv, RowsSame
<1>2. \A d \in Callers : caller'[d] = caller[d] \/ Rested(caller'[d])
  <2>1. CASE Ends(c)
    <3>1. Becomes(c, "idle", 0, Staged, "none")
      BY <1>1, <2>1, CallerEnds DEF Rests
    <3> QED  BY <3>1 DEF Becomes, Rested, Claimed
  <2>2. CASE Completes(c)
    <3>1. Becomes(c, "complete", caller[c].id, Staged, "none")
      BY <1>1, <2>2, CallerCompletes
    <3> QED  BY <3>1 DEF Becomes, Rested, Claimed
  <2>3. CASE Goes(c, "cleanup")
    <3>1. Becomes(c, "cleanup", caller[c].id, caller[c].seen, caller[c].answer)
      BY <1>1, <2>3, CallerGoes DEF Places
    <3> QED  BY <3>1 DEF Becomes, Rested, Claimed
  <2> QED  BY <2>1, <2>2, <2>3
<1> QED  BY <1>2, SameCounts, QuietStep

(* The caller goes on with its claim. *)
LEMMA OnwardStep ==
    ASSUME OneAttempt, Inv', NEW c \in Callers, caller[c].pc \in Claimed, rows' = rows,
           UNCHANGED <<process, orphans, done, kind, here, there, others>>,
           NEW p \in Claimed, NEW a, Becomes(c, p, caller[c].id, caller[c].seen, a),
           orphans # {} => p = "settle" /\ a = "unknown",
           done # {} => p = "executed" \/ (p = "settle" /\ a \in Effective)
    PROVE  OneAttempt'
<1>1. GoesOnClaim(c)
  <2>1. caller[c].id \in DOMAIN rows /\ ClaimSound(caller[c])
    BY CallerKnown DEF Claimed, Coherent
  <2> QED  BY <2>1 DEF GoesOnClaim, Becomes, ClaimSound
<1>2. \A d \in Callers : caller'[d] = caller[d] \/ GoesOnClaim(d)
  BY <1>1 DEF Becomes
<1> QED  BY <1>2, SameCounts, QuietStep, UnchangedSame

LEMMA IdleKeeps ==
    ASSUME OneAttempt, Inv', NEW c \in Callers, Refuse(c) \/ LookFails(c) \/ CompleteFails(c) \/ Cleanup(c)
    PROVE  OneAttempt'
<1>1. caller[c].pc # "idle" /\ Ends(c) /\ rows' = rows
      /\ UNCHANGED <<process, orphans, done, kind, here, there, others>>
  BY DEF Refuse, LookFails, CompleteFails, Cleanup, Ready, serverVars, rowVars
<1> QED  BY <1>1, RestingStep, UnchangedSame

LEMMA CallerRow ==
    ASSUME OneAttempt, NEW c \in Callers, caller[c].pc # "idle"
    PROVE  /\ caller[c] \in Request /\ caller[c].id \in DOMAIN rows /\ Row(c) \in TransferRow
           /\ Row(c) = rows[caller[c].id] /\ Coherent(caller[c]) /\ RowsTyped /\ CallersTyped
BY TypeParts, CallerTyped, CallerKnown DEF OneAttempt, Inv, Row

(* The row is written, and its claim stays as it is. *)
LEMMA RestingWrite ==
    ASSUME OneAttempt, Inv', NEW c \in Callers, caller[c].pc # "idle",
           NEW r, Write(caller[c].id, r), SameClaim(Row(c), r),
           UNCHANGED <<process, orphans, done, kind, here, there, others>>,
           Ends(c) \/ Completes(c) \/ Goes(c, "cleanup")
    PROVE  OneAttempt'
<1>1. caller[c].id \in DOMAIN rows /\ Row(c) = rows[caller[c].id]
  BY CallerRow
<1>2. RowsSame
  BY <1>1, WrittenSame
<1> QED  BY <1>2, RestingStep

LEMMA TakeUpKeeps ==
    ASSUME OneAttempt, Inv', NEW c \in Callers, TakeUpSettled(c)
    PROVE  OneAttempt'
<1>1. /\ caller[c].pc = "staged" /\ caller[c].seen.state # "pending" /\ (Ends(c) \/ Completes(c))
      /\ rows' = rows \/ Write(caller[c].id, Succeeded(Row(c), TRUE))
      /\ UNCHANGED <<process, orphans, done, kind, here, there, others>>
  BY DEF TakeUpSettled, serverVars
<1>2. Row(c) \in TransferRow /\ Row(c).state # "failed"
  BY <1>1, CallerRow DEF OneAttempt, Inv, KnowsSettled, Settled
<1>3. SameClaim(Row(c), Succeeded(Row(c), TRUE))
  BY <1>2, SucceededSame
<1>4. CASE rows' = rows
  BY <1>1, <1>4, RestingStep, UnchangedSame
<1>5. CASE Write(caller[c].id, Succeeded(Row(c), TRUE))
  BY <1>1, <1>3, <1>5, RestingWrite
<1> QED  BY <1>1, <1>4, <1>5

LEMMA ConfirmKeeps ==
    ASSUME OneAttempt, Inv', NEW c \in Callers, Confirm(c)
    PROVE  OneAttempt'
<1>1. /\ caller[c].pc = "looked"
      /\ UNCHANGED <<process, orphans, done, kind, here, there, others>>
  BY DEF Confirm, serverVars
<1>2. CASE Row(c).state = "failed"
  <2>1. Ends(c) /\ rows' = rows
    BY <1>2 DEF Confirm
  <2> QED  BY <1>1, <2>1, RestingStep, UnchangedSame
<1>3. CASE Row(c).state # "failed"
  <2>1. Completes(c) /\ Write(caller[c].id, Succeeded(Row(c), kind = "copy"))
    BY <1>3 DEF Confirm
  <2>2. Row(c) \in TransferRow /\ (kind = "copy") \in BOOLEAN
    BY <1>1, CallerRow
  <2>3. SameClaim(Row(c), Succeeded(Row(c), kind = "copy"))
    BY <1>3, <2>2, SucceededSame
  <2> QED  BY <1>1, <2>1, <2>3, RestingWrite
<1> QED  BY <1>2, <1>3

LEMMA CompleteKeeps ==
    ASSUME OneAttempt, Inv', NEW c \in Callers, Complete(c)
    PROVE  OneAttempt'
<1>1. /\ caller[c].pc = "complete" /\ (Ends(c) \/ Goes(c, "cleanup"))
      /\ rows' = rows \/ Write(caller[c].id, [Row(c) EXCEPT !.state = "consumed"])
      /\ UNCHANGED <<process, orphans, done, kind, here, there, others>>
  BY DEF Complete, serverVars
<1>2. Row(c) \in TransferRow /\ Row(c).state # "failed"
  BY <1>1, CallerRow DEF OneAttempt, Inv, KnowsSettled, Settled
<1>3. SameClaim(Row(c), [Row(c) EXCEPT !.state = "consumed"])
  BY <1>2, StateSame
<1>4. CASE rows' = rows
  BY <1>1, <1>4, RestingStep, UnchangedSame
<1>5. CASE Write(caller[c].id, [Row(c) EXCEPT !.state = "consumed"])
  BY <1>1, <1>3, <1>5, RestingWrite
<1> QED  BY <1>1, <1>4, <1>5

(* The boundary is asked for and set: no claim is touched, and the caller     *)
(* reads the row again.                                                       *)
LEMMA SurveyKeeps ==
    ASSUME OneAttempt, Inv', NEW c \in Callers, Survey(c)
    PROVE  OneAttempt'
<1> DEFINE s == [caller[c].seen EXCEPT !.next = there + 1]
<1>1. /\ caller[c].pc # "idle" /\ rows' = rows
      /\ UNCHANGED <<process, orphans, done, kind, here, there, others>>
  BY DEF Survey, serverVars, rowVars
<1>2. CallersTyped /\ DOMAIN rows \subseteq DOMAIN rows' /\ caller[c].seen \in TransferRow /\ there \in Nat
  BY <1>1, CallerRow, CallerKnown, RequestFields DEF TypeOK
<1>3. s \in TransferRow
  BY <1>2 DEF TransferRow
<1>4. caller' = [caller EXCEPT ![c].pc = "surveyed", ![c].seen = s]
  <2>1. caller \in [Callers -> Request]
    BY <1>2 DEF CallersTyped
  <2> QED  BY <2>1 DEF Survey, Request
<1> HIDE DEF s
<1>5. Becomes(c, "surveyed", caller[c].id, s, caller[c].answer)
  BY <1>1, <1>2, <1>3, <1>4, CallerKnows DEF Places
<1>6. \A d \in Callers : caller'[d] = caller[d] \/ Rested(caller'[d])
  BY <1>5, RestedMoves DEF Claimed
<1> QED  BY <1>1, <1>6, QuietStep, SameCounts, UnchangedSame

LEMMA BoundedSame ==
    ASSUME NEW r \in TransferRow, NEW n \in Nat
    PROVE  Bounded(r, n) \in TransferRow /\ SameClaim(r, Bounded(r, n))
BY DEF TransferRow, Bounded, SameClaim

LEMMA SetBoundaryKeeps ==
    ASSUME OneAttempt, Inv', NEW c \in Callers, SetBoundary(c)
    PROVE  OneAttempt'
<1> DEFINE i == caller[c].id
           r == Bounded(Row(c), caller[c].seen.next)
<1>1. /\ caller[c].pc # "idle" /\ UNCHANGED <<process, orphans, done, kind, here, there, others>>
      /\ Write(i, r)
      /\ Ends(c) \/ caller' = [caller EXCEPT ![c].pc = "bounded", ![c].seen = r]
  BY DEF SetBoundary, serverVars
<1>2. /\ i \in DOMAIN rows /\ Row(c) \in TransferRow /\ Row(c) = rows[i] /\ CallersTyped
      /\ caller[c].seen.next \in Nat
  BY <1>1, CallerRow, RequestFields, RowFields
<1>3. r \in TransferRow /\ SameClaim(rows[i], r)
  BY <1>2, BoundedSame
<1> HIDE DEF r
<1>4. RowsSame /\ rows'[i] = r
  BY <1>1, <1>2, <1>3, Written, WrittenSame
<1>5. CASE Ends(c)
  BY <1>1, <1>4, <1>5, RestingStep
<1>6. CASE caller' = [caller EXCEPT ![c].pc = "bounded", ![c].seen = r]
  <2>1. Becomes(c, "bounded", i, r, caller[c].answer)
    BY <1>1, <1>2, <1>3, <1>4, <1>6, CallerKnows DEF Places, RowsSame
  <2>2. PICK q : q = caller'[c]
    OBVIOUS
  <2>3. q.pc = "bounded" /\ q.id = i /\ q.seen = r /\ r.attempt \in Nat
    BY <1>3, <2>1, <2>2, RowFields DEF Becomes
  <2>4. Coherent(q)'
    BY <1>1, <1>4, <2>3 DEF Coherent, ClaimSound, SnapshotSound, ProofSound, Proven, Claimed, Inactive
  <2>5. Coherent(caller[c])' /\ caller'[c].pc \notin Claimed
    BY <2>2, <2>3, <2>4, CoherentCaller DEF Claimed
  <2>6. \A d \in Callers : caller'[d] = caller[d] \/ (caller'[d].pc \notin Claimed /\ Coherent(caller[d])')
    BY <2>1, <2>5 DEF Becomes
  <2> QED  BY <1>1, <1>4, <2>6, QuietStep, SameCounts
<1> QED  BY <1>1, <1>5, <1>6

(* No trace of a command, and none of an earlier caller on its way: the       *)
(* attempt has had no effect.  Its copy would lie beyond the boundary, and no *)
(* other row can have one.                                                    *)
LEMMA AbsentUndone ==
    ASSUME OneAttempt, Boundaries, NEW c \in Callers, caller[c].pc \in {"staged", "bounded"},
           Inactive(caller[c].seen), Absent(caller[c].seen), Row(c).state # "failed"
    PROVE  done = {}
<1>1. kind \in {"move", "copy"} /\ there \in Nat /\ done \subseteq DOMAIN rows
      /\ caller[c].id \in DOMAIN rows /\ Row(c) = rows[caller[c].id]
      /\ caller[c].seen.next \in Nat
  BY CallerRow, CopyTyped DEF OneAttempt, Inv, TypeOK
<1>2. CASE kind = "move"
  BY <1>2 DEF OneAttempt, Counted, Absent
<1>3. CASE kind = "copy"
  <2>1. rows[caller[c].id].next = caller[c].seen.next /\ there < caller[c].seen.next
    BY <1>3 DEF Boundaries, CallerBounded, Knows, Inactive, Absent
  <2>2. ASSUME NEW j \in done PROVE FALSE
    <3>1. j = caller[c].id
      BY <1>1, <2>2 DEF OneAttempt, EffectsSound, Underway, OneOpenRow
    <3>2. there >= rows[j].next
      BY <1>3, <2>2 DEF Boundaries, Reached
    <3> QED  BY <1>1, <2>1, <3>1, <3>2
  <2> QED  BY <2>2
<1> QED  BY <1>1, <1>2, <1>3

LEMMA LookKeeps ==
    ASSUME ~LateCommands, OneAttempt, Boundaries, Inv', NEW c \in Callers, Look(c)
    PROVE  OneAttempt'
<1>1. /\ caller[c].pc \in {"staged", "bounded"} /\ Inactive(caller[c].seen)
      /\ orphans = {} /\ rows' = rows
      /\ UNCHANGED <<process, orphans, done, kind, here, there, others>>
  BY DEF Look, Ready, serverVars, rowVars
<1>2. /\ CallersTyped /\ DOMAIN rows \subseteq DOMAIN rows' /\ caller[c].id \in DOMAIN rows'
      /\ caller[c].id \in Nat /\ caller[c].seen \in TransferRow /\ SnapshotSound(caller[c])
  BY <1>1, CallerRow, RowTyped, RequestFields DEF Coherent
<1>3. "looked" \in Places /\ "none" \in Answers /\ "applied" \in Answers /\ Staged \in TransferRow
  BY RestTyped DEF Places, Answers
<1>4. CASE caller' = [caller EXCEPT ![c] = [AtRest EXCEPT !.pc = "looked", !.id = caller[c].id,
                                                                !.answer = "applied"]]
  <2>1. Becomes(c, "looked", caller[c].id, Staged, "applied")
    BY <1>2, <1>3, <1>4, CallerRestarts
  <2>2. \A d \in Callers : caller'[d] = caller[d] \/ Rested(caller'[d])
    BY <2>1, RestedMoves DEF Claimed
  <2> QED  BY <1>1, <2>2, QuietStep, SameCounts, UnchangedSame
<1>5. CASE /\ Absent(caller[c].seen)
           /\ caller' = [caller EXCEPT ![c] = [AtRest EXCEPT !.pc = "looked", !.id = caller[c].id,
                                                             !.seen = ClaimOf(caller[c].seen)]]
  <2> DEFINE s == ClaimOf(caller[c].seen)
  <2>1. s \in TransferRow /\ s.attempt = caller[c].seen.attempt
    BY <1>2, ClaimOfTyped DEF ClaimOf, Staged, TransferRow
  <2>2. Becomes(c, "looked", caller[c].id, s, "none")
    BY <1>2, <1>3, <1>5, <2>1, CallerRestarts
  <2> HIDE DEF s
  <2>3. PICK q : q = caller'[c]
    OBVIOUS
  <2>4. q.pc = "looked" /\ q.id = caller[c].id /\ q.seen = s /\ q.answer = "none"
    BY <2>2, <2>3 DEF Becomes
  <2>5. rows[caller[c].id].state = "pending" => done = {}
    BY <1>1, <1>5, AbsentUndone DEF Row
  <2>6. ProofSound(q)'
    BY <1>1, <1>2, <2>1, <2>4, <2>5 DEF ProofSound, Proven, SnapshotSound, Inactive
  <2>7. Coherent(q)'
    BY <2>4, <2>6 DEF Coherent, ClaimSound, SnapshotSound, Claimed
  <2>8. Coherent(caller[c])' /\ caller'[c].pc \notin Claimed
    BY <2>3, <2>4, <2>7, CoherentCaller DEF Claimed
  <2>9. \A d \in Callers : caller'[d] = caller[d] \/ (caller'[d].pc \notin Claimed /\ Coherent(caller[d])')
    BY <2>2, <2>8 DEF Becomes
  <2> QED  BY <1>1, <2>9, QuietStep, SameCounts, UnchangedSame
<1>6. CASE Ends(c)
  BY <1>1, <1>6, RestingStep, UnchangedSame
<1> QED  BY <1>4, <1>5, <1>6 DEF Look

-----------------------------------------------------------------------------
(* The steps of a command that leave its claim as it is. *)

LEMMA SendKeeps ==
    ASSUME OneAttempt, Inv', NEW c \in Callers, Send(c) \/ NotSent(c) \/ Decline(c)
    PROVE  OneAttempt'
<1>1. /\ caller[c].pc \in {"claimed", "sent"} /\ rows' = rows
      /\ UNCHANGED <<process, orphans, done, kind, here, there, others>>
      /\ Answered(c, "refused") \/ Answered(c, "unsent") \/ Goes(c, "sent")
  BY DEF Send, NotSent, Decline, serverVars, rowVars
<1>2. CallersTyped /\ DOMAIN rows \subseteq DOMAIN rows' /\ orphans = {} /\ done = {}
  BY <1>1, CallerRow DEF Coherent, ClaimSound, Claimed
<1>3. "refused" \in Answers /\ "unsent" \in Answers /\ "sent" \in Places /\ {"settle", "sent"} \subseteq Claimed
  BY DEF Answers, Places, Claimed
<1>4. CASE Answered(c, "refused")
  <2>1. Becomes(c, "settle", caller[c].id, caller[c].seen, "refused")
    BY <1>1, <1>2, <1>3, <1>4, CallerAnswered
  <2> QED  BY <1>1, <1>2, <1>3, <2>1, OnwardStep DEF Claimed
<1>5. CASE Answered(c, "unsent")
  <2>1. Becomes(c, "settle", caller[c].id, caller[c].seen, "unsent")
    BY <1>1, <1>2, <1>3, <1>5, CallerAnswered
  <2> QED  BY <1>1, <1>2, <1>3, <2>1, OnwardStep DEF Claimed
<1>6. CASE Goes(c, "sent")
  <2>1. Becomes(c, "sent", caller[c].id, caller[c].seen, caller[c].answer)
    BY <1>1, <1>2, <1>3, <1>6, CallerGoes
  <2> QED  BY <1>1, <1>2, <1>3, <2>1, OnwardStep DEF Claimed
<1> QED  BY <1>1, <1>4, <1>5, <1>6

(* The command has run: an answer, or none. *)
LEMMA AnswerKeeps ==
    ASSUME OneAttempt, Inv', NEW c \in Callers,
           Answer(c) \/ (LoseAnswer(c) /\ caller[c].pc = "executed")
           \/ (SettleFails(c) /\ caller[c].answer \in Done)
    PROVE  OneAttempt'
<1>1. /\ caller[c].pc \in {"executed", "settle"} /\ rows' = rows
      /\ UNCHANGED <<process, orphans, done, kind, here, there, others>>
      /\ \E a \in Effective : Answered(c, a) /\ (a = "unknown" \/ caller[c].pc = "executed")
  BY DEF Answer, LoseAnswer, SettleFails, Abandoned, serverVars, rowVars, Effective, Done
<1>2. PICK a \in Effective : Answered(c, a) /\ (a = "unknown" \/ caller[c].pc = "executed")
  BY <1>1
<1>3. /\ CallersTyped /\ DOMAIN rows \subseteq DOMAIN rows'
      /\ orphans # {} => a = "unknown"
  BY <1>1, <1>2, CallerRow DEF Coherent, ClaimSound, Claimed
<1>4. a \in Answers /\ "settle" \in Claimed
  BY DEF Answers, Claimed, Effective
<1>5. Becomes(c, "settle", caller[c].id, caller[c].seen, a)
  BY <1>1, <1>2, <1>3, <1>4, CallerAnswered
<1> QED  BY <1>1, <1>3, <1>4, <1>5, OnwardStep DEF Claimed

LEMMA GivesUp ==
    ASSUME OneAttempt, Inv', NEW c \in Callers,
           (SettleFails(c) /\ caller[c].answer \notin Done) \/ (Panic(c) /\ caller[c].pc # "sent")
    PROVE  OneAttempt'
<1>1. caller[c].pc # "idle" /\ Ends(c) /\ rows' = rows
      /\ UNCHANGED <<process, orphans, done, kind, here, there, others>>
  BY DEF SettleFails, Panic, Abandoned, serverVars, rowVars
<1> QED  BY <1>1, RestingStep, UnchangedSame

-----------------------------------------------------------------------------
(* Beside the requests: another client, the sync and the Inbox. *)

LEMMA OtherClientKeeps ==
    ASSUME OneAttempt, Inv', OtherClient
    PROVE  OneAttempt'
<1>1. /\ here' \in {FALSE, kind = "copy"} /\ there' = there + 1 /\ others' = others + 1
      /\ rows' = rows /\ caller' = caller /\ UNCHANGED <<process, orphans, done, kind>>
  BY DEF OtherClient, rowVars
<1>2. there \in Nat /\ others \in Nat
  BY DEF OneAttempt, Inv, TypeOK
<1>3. kind = "move" => ~here'
  BY <1>1
<1>4. kind = "copy" => IF done' = {} THEN there' <= others' ELSE 1 <= there' /\ there' <= 1 + others'
  BY <1>1, <1>2 DEF OneAttempt, Counted
<1>5. Counted'
  BY <1>1, <1>3, <1>4 DEF Counted
<1> QED  BY <1>1, <1>5, QuietStep, UnchangedSame

LEMMA ExpungeSame ==
    ASSUME TypeOK, RecordExpunge
    PROVE  RowsSame
<1>1. CASE rows' = rows
  BY <1>1, UnchangedSame
<1>2. CASE rows' # rows
  <2> DEFINE t == IF inbox THEN "succeeded" ELSE "consumed"
  <2>1. rows' = [i \in DOMAIN rows |-> IF i \in Dispatched THEN [rows[i] EXCEPT !.state = t] ELSE rows[i]]
    BY <1>2 DEF RecordExpunge
  <2>2. t \in {"succeeded", "consumed"}
    OBVIOUS
  <2>3. \A i \in DOMAIN rows : i \in Dispatched => rows[i].state # "failed"
    BY DEF Dispatched, MoveRows
  <2> HIDE DEF t
  <2> QED  BY <2>1, <2>2, <2>3, MappedSame
<1> QED  BY <1>1, <1>2

LEMMA ClassifySame ==
    ASSUME TypeOK, NEW u, Classify(u)
    PROVE  RowsSame
<1>1. CASE rows' = rows
  BY <1>1, UnchangedSame
<1>2. CASE rows' # rows
  <2> DEFINE matching == {i \in DOMAIN rows : rows[i].state = "succeeded"}
             consume(S) == rows' = [i \in DOMAIN rows |->
                                      IF i \in S THEN [rows[i] EXCEPT !.state = "consumed"] ELSE rows[i]]
  <2>1. consume(matching) \/ consume(Dispatched)
    BY <1>2 DEF Classify
  <2>2. \A i \in DOMAIN rows : i \in matching \/ i \in Dispatched => rows[i].state # "failed"
    BY DEF Dispatched, MoveRows
  <2> HIDE DEF matching
  <2> QED  BY <2>1, <2>2, MappedSame
<1> QED  BY <1>1, <1>2

LEMMA ArrivalKeepsClaims ==
    ASSUME OneAttempt, Inv', Reconcile \/ Hold \/ Probe \/ Finalize
    PROVE  OneAttempt'
<1>1. TypeOK
  BY DEF OneAttempt, Inv
<1>2. /\ RecordExpunge \/ rows' = rows \/ (\E u \in {"pending", "delivery"} : Classify(u))
      /\ caller' = caller /\ UNCHANGED <<process, orphans, done, kind, here, there, others>>
  BY DEF Reconcile, Hold, Probe, Finalize, serverVars
<1>3. RowsSame
  BY <1>1, <1>2, ExpungeSame, ClassifySame, UnchangedSame
<1> QED  BY <1>2, <1>3, QuietStep, SameCounts

-----------------------------------------------------------------------------
(* The steps that begin, end or abandon an attempt. *)

(* A pending row that is not dispatched, or whose claim is proven to have     *)
(* ended: nothing is under way.                                               *)
LEMMA NothingUnderway ==
    ASSUME OneAttempt, NEW i \in DOMAIN rows, rows[i].state # "failed", ~rows[i].dispatched
    PROVE  /\ orphans = {} /\ done = {}
           /\ \A d \in Callers : caller[d].pc \notin Claimed /\ ~Proven(caller[d])
<1>1. ASSUME NEW j \in DOMAIN rows, rows[j].state # "failed", rows[j].dispatched PROVE FALSE
  BY <1>1 DEF OneAttempt, OneOpenRow
<1>2. \A j : j \in DOMAIN rows => ~Underway(j)
  BY <1>1 DEF Underway
<1>3. orphans \subseteq (DOMAIN rows) \X Nat /\ done \subseteq DOMAIN rows
  BY DEF OneAttempt, Inv, TypeOK
<1>4. orphans = {} /\ done = {}
  BY <1>2, <1>3 DEF OneAttempt, OrphansSound, EffectsSound
<1>5. ASSUME NEW d \in Callers PROVE caller[d].pc \notin Claimed /\ ~Proven(caller[d])
  <2>1. caller[d].pc # "idle" => caller[d].id \in DOMAIN rows /\ Coherent(caller[d])
    BY CallerRow
  <2> QED  BY <1>2, <2>1 DEF Coherent, ClaimSound, Proven, Underway, Claimed
<1> QED  BY <1>4, <1>5

(* The row of an attempt is written: r stands in its place. *)
LEMMA WrittenAdvance ==
    ASSUME OneAttempt, NEW i \in DOMAIN rows, NEW r, Write(i, r), Advances(rows[i], r),
           rows[i].state = "failed" => r.state = "failed"
    PROVE  /\ RowsAdvance /\ OneOpenRow' /\ rows'[i] = r /\ DOMAIN rows' = DOMAIN rows
           /\ \A j \in DOMAIN rows : j # i => rows'[j] = rows[j]
<1>1. DOMAIN rows' = DOMAIN rows /\ rows'[i] = r /\ \A j \in DOMAIN rows : j # i => rows'[j] = rows[j]
  BY Written
<1>2. ASSUME NEW j \in DOMAIN rows PROVE Advances(rows[j], rows'[j])
  <2>1. rows[j].attempt \in Nat
    BY TypeParts, RowTyped, RowFields DEF OneAttempt, Inv
  <2> QED  BY <1>1, <2>1 DEF Advances
<1>3. OneOpenRow'
  BY <1>1 DEF OneAttempt, OneOpenRow
<1> QED  BY <1>1, <1>2, <1>3 DEF RowsAdvance

LEMMA StageKeeps ==
    ASSUME OneAttempt, Inv', NEW c \in Callers, Stage(c)
    PROVE  OneAttempt'
<1>1. /\ caller[c].pc = "idle" /\ UNCHANGED <<process, orphans, done, kind, here, there, others>>
      /\ RowsTyped /\ CallersTyped /\ MaxRows \in Nat
  BY TypeParts, LimitsAssumption DEF Stage, serverVars, OneAttempt, Inv
<1>2. "staged" \in Places /\ "none" \in Answers /\ Staged \in TransferRow
      /\ Staged.attempt = 0 /\ Staged.state = "pending" /\ ~Staged.dispatched
  BY RestTyped DEF Places, Answers, Staged
<1>3. Counted'
  BY <1>1, SameCounts
<1>4. CASE /\ Reusable = {} /\ Len(rows) < MaxRows
           /\ rows' = Append(rows, Staged)
           /\ caller' = [caller EXCEPT ![c] = [AtRest EXCEPT !.pc = "staged", !.id = Len(rows) + 1]]
  <2> DEFINE n == Len(rows) + 1
  <2>1. /\ Grow /\ n \in DOMAIN rows' /\ \A i \in DOMAIN rows : rows'[i] = rows[i]
        /\ rows'[n] = Staged /\ DOMAIN rows' = DOMAIN rows \cup {n}
    BY <1>1, <1>4, AppendGrows
  <2>2. n \in Nat
    BY <1>1, LenProperties DEF RowsTyped
  <2>3. caller' = [caller EXCEPT ![c] = [AtRest EXCEPT !.pc = "staged", !.id = n]]
    BY <1>4
  <2> HIDE DEF n
  <2>4. Becomes(c, "staged", n, Staged, "none")
    BY <1>1, <1>2, <2>1, <2>2, <2>3, CallerRestarts DEF Grow
  <2>5. \A i \in DOMAIN rows : rows[i].state = "failed"
    BY <1>4 DEF Reusable
  <2>6. RowsAdvance
    <3>1. ASSUME NEW i \in DOMAIN rows PROVE Advances(rows[i], rows'[i])
      BY <1>1, <2>1, RowTyped, RowFields DEF Advances
    <3> QED  BY <2>1, <3>1 DEF RowsAdvance
  <2>7. OneOpenRow'
    BY <2>1, <2>5 DEF OneOpenRow
  <2>8. orphans = {} /\ done = {}
    <3>1. orphans \subseteq (DOMAIN rows) \X Nat /\ done \subseteq DOMAIN rows
      BY DEF OneAttempt, Inv, TypeOK
    <3> QED  BY <2>5, <3>1 DEF OneAttempt, OrphansSound, EffectsSound, Underway
  <2>9. \A d \in Callers : caller[d].pc \notin Claimed
    <3>1. \A d \in Callers : caller[d].pc \in Claimed => caller[d].id \in DOMAIN rows /\ ClaimSound(caller[d])
      BY CallerRow DEF Coherent, Claimed
    <3> QED  BY <2>5, <3>1 DEF ClaimSound, Underway
  <2>10. Coherent(caller[c])'
    <3>1. PICK q : q = caller'[c]
      OBVIOUS
    <3>2. q.pc = "staged" /\ q.id = n /\ q.seen = Staged
      BY <2>4, <3>1 DEF Becomes
    <3>3. Coherent(q)'
      BY <1>2, <2>1, <3>2 DEF Coherent, ClaimSound, SnapshotSound, ProofSound, Proven, Claimed, Inactive
    <3> QED  BY <3>1, <3>3, CoherentCaller
  <2>11. OrphansSound' /\ EffectsSound'
    BY <1>1, <2>8 DEF OrphansSound, EffectsSound
  <2>12. \A d \in Callers : d # c => caller'[d] = caller[d]
    BY <2>4 DEF Becomes
  <2> QED  BY <1>1, <1>3, <2>6, <2>7, <2>8, <2>9, <2>10, <2>11, <2>12, MoverStep
<1>5. CASE \E i \in Reusable :
          /\ UNCHANGED rows
          /\ caller' = [caller EXCEPT ![c] = [AtRest EXCEPT !.pc = "staged", !.id = i, !.seen = rows[i]]]
  <2>1. PICK i \in Reusable :
          /\ UNCHANGED rows
          /\ caller' = [caller EXCEPT ![c] = [AtRest EXCEPT !.pc = "staged", !.id = i, !.seen = rows[i]]]
    BY <1>5
  <2>2. i \in DOMAIN rows /\ rows[i] \in TransferRow /\ i \in Nat /\ rows[i].attempt \in Nat
    BY <1>1, RowTyped, RowFields DEF Reusable
  <2>3. Becomes(c, "staged", i, rows[i], "none")
    BY <1>1, <1>2, <2>1, <2>2, CallerRestarts
  <2>4. PICK q : q = caller'[c]
    OBVIOUS
  <2>5. q.pc = "staged" /\ q.id = i /\ q.seen = rows[i]
    BY <2>3, <2>4 DEF Becomes
  <2>6. Coherent(q)'
    BY <1>1, <2>1, <2>2, <2>5 DEF Coherent, ClaimSound, SnapshotSound, ProofSound, Proven, Claimed, Inactive
  <2>7. Coherent(caller[c])' /\ caller'[c].pc \notin Claimed
    BY <2>4, <2>5, <2>6, CoherentCaller DEF Claimed
  <2>8. \A d \in Callers : caller'[d] = caller[d] \/ (caller'[d].pc \notin Claimed /\ Coherent(caller[d])')
    BY <2>3, <2>7 DEF Becomes
  <2> QED  BY <1>1, <1>3, <2>1, <2>8, QuietStep, UnchangedSame
<1> QED  BY <1>4, <1>5 DEF Stage

LEMMA ClaimKeeps ==
    ASSUME OneAttempt, Inv', NEW c \in Callers, Claim(c)
    PROVE  OneAttempt'
<1>1. /\ caller[c].pc # "idle" /\ UNCHANGED <<process, orphans, done, kind, here, there, others>>
  BY DEF Claim, Ready, serverVars
<1>2. CASE ~(Row(c).state = "pending" /\ ~Row(c).dispatched)
  <2>1. Ends(c) /\ rows' = rows
    BY <1>2 DEF Claim
  <2> QED  BY <1>1, <2>1, RestingStep, UnchangedSame
<1>3. CASE Row(c).state = "pending" /\ ~Row(c).dispatched
  <2> DEFINE r == ClaimedNow(Row(c))
             i == caller[c].id
  <2>1. /\ Write(i, r)
        /\ caller' = [caller EXCEPT ![c].pc = "claimed", ![c].seen = ClaimOf(r)]
    BY <1>3 DEF Claim
  <2>2. /\ i \in DOMAIN rows /\ rows[i] = Row(c) /\ Row(c) \in TransferRow
        /\ RowsTyped /\ CallersTyped
    BY <1>1, CallerRow
  <2>3. process \in Nat
    BY DEF OneAttempt, Inv, TypeOK
  <2>4. r \in TransferRow /\ r.state = "pending"
    BY <1>3, <2>2, <2>3, ClaimFollows DEF Follows
  <2>5. /\ r.dispatched /\ r.owner = process /\ r.attempt = Row(c).attempt + 1 /\ ~r.finished /\ ~r.stale
    <3>1. Row(c).attempt \in Nat
      BY <2>2, RowFields
    <3> QED  BY <2>2, <3>1 DEF ClaimedNow, TransferRow
  <2>6. ClaimOf(r) \in TransferRow /\ ClaimOf(r).attempt = r.attempt
    BY <2>4, ClaimOfTyped DEF ClaimOf, Staged, TransferRow
  <2> HIDE DEF r
  <2>7. /\ orphans = {} /\ done = {}
        /\ \A d \in Callers : caller[d].pc \notin Claimed /\ ~Proven(caller[d])
    BY <1>3, <2>2, NothingUnderway
  <2>8. Advances(rows[i], r)
    BY <1>3, <2>2, <2>4, <2>5, RowFields DEF Advances
  <2>9. /\ RowsAdvance /\ OneOpenRow' /\ rows'[i] = r /\ DOMAIN rows' = DOMAIN rows
    BY <1>3, <2>1, <2>2, <2>8, WrittenAdvance
  <2>10. Becomes(c, "claimed", i, ClaimOf(r), caller[c].answer)
    BY <1>1, <2>1, <2>2, <2>6, <2>9, CallerKnows DEF Places, Claimed
  <2>11. Coherent(caller[c])'
    <3>1. PICK q : q = caller'[c]
      OBVIOUS
    <3>2. q.pc = "claimed" /\ q.id = i /\ q.seen.attempt = r.attempt
      BY <2>6, <2>10, <3>1 DEF Becomes
    <3>3. ClaimSound(q)'
      BY <1>1, <2>4, <2>5, <2>7, <2>9, <3>2 DEF ClaimSound, Underway, Inactive
    <3>4. Coherent(q)'
      BY <3>2, <3>3 DEF Coherent, SnapshotSound, ProofSound, Proven
    <3> QED  BY <3>1, <3>4, CoherentCaller
  <2>12. OrphansSound' /\ EffectsSound'
    BY <1>1, <2>7 DEF OrphansSound, EffectsSound
  <2>13. \A d \in Callers : d # c => caller'[d] = caller[d]
    BY <2>10 DEF Becomes
  <2> QED  BY <1>1, <2>7, <2>9, <2>11, <2>12, <2>13, MoverStep, SameCounts
<1> QED  BY <1>2, <1>3

(* The row of caller c is written as a step of its own; no other has a claim. *)
LEMMA OwnWrite ==
    ASSUME OneAttempt, Inv', NEW c \in Callers, caller[c].pc # "idle", Ends(c),
           NEW r, Write(caller[c].id, r), Advances(Row(c), r), Row(c).state = "failed" => r.state = "failed",
           UNCHANGED <<process, orphans, done, kind, here, there, others>>,
           \A d \in Callers : d # c => caller[d].pc \notin Claimed /\ ~Proven(caller[d]),
           orphans # {} \/ done # {} =>
               r.state # "failed" /\ r.dispatched /\ r.attempt = Row(c).attempt
    PROVE  OneAttempt'
<1> DEFINE i == caller[c].id
<1>1. i \in DOMAIN rows /\ rows[i] = Row(c) /\ CallersTyped
  BY CallerRow
<1>2. /\ RowsAdvance /\ OneOpenRow' /\ rows'[i] = r /\ DOMAIN rows' = DOMAIN rows
      /\ \A j \in DOMAIN rows : j # i => rows'[j] = rows[j]
  BY <1>1, WrittenAdvance
<1>3. /\ \A d \in Callers : d # c => caller'[d] = caller[d]
      /\ Rested(caller'[c])
  <2>1. Becomes(c, "idle", 0, Staged, "none")
    BY <1>1, <1>2, CallerEnds DEF Rests
  <2> QED  BY <2>1 DEF Becomes, Rested, Claimed
<1>4. Coherent(caller[c])'
  <2>1. PICK q : q = caller'[c]
    OBVIOUS
  <2> QED  BY <1>3, <2>1, RestedCoherent, CoherentCaller
<1>5. /\ orphans \subseteq (DOMAIN rows) \X Nat /\ done \subseteq DOMAIN rows
  BY DEF OneAttempt, Inv, TypeOK
<1>6. \A j \in DOMAIN rows : Underway(j) /\ (orphans # {} \/ done # {}) =>
          Underway(j)' /\ rows'[j].attempt = rows[j].attempt
  <2>1. ASSUME NEW j \in DOMAIN rows, Underway(j), orphans # {} \/ done # {}
        PROVE  Underway(j)' /\ rows'[j].attempt = rows[j].attempt
    <3>1. CASE j = i
      <4>1. rows'[j].state # "failed" /\ rows'[j].dispatched /\ rows'[j].attempt = rows[j].attempt
        BY <1>1, <1>2, <2>1, <3>1
      <4> QED  BY <4>1 DEF Underway
    <3>2. CASE j # i
      BY <1>2, <2>1, <3>2 DEF Underway
    <3> QED  BY <3>1, <3>2
  <2> QED  BY <2>1
<1>7. OrphansSound'
  <2>1. ASSUME NEW o \in orphans PROVE Underway(o[1])' /\ rows'[o[1]].attempt = o[2]
    <3>1. o[1] \in DOMAIN rows /\ Underway(o[1]) /\ rows[o[1]].attempt = o[2]
      BY <1>5 DEF OneAttempt, OrphansSound
    <3> QED  BY <1>6, <3>1
  <2>2. orphans # {} => done = {}
    BY DEF OneAttempt, OrphansSound
  <2> QED  BY <2>1, <2>2 DEF OrphansSound, Underway
<1>8. EffectsSound'
  <2>1. ASSUME NEW j \in done PROVE Underway(j)'
    BY <1>5, <1>6 DEF OneAttempt, EffectsSound
  <2> QED  BY <2>1 DEF EffectsSound, Underway
<1> QED  BY <1>2, <1>3, <1>4, <1>7, <1>8, MoverStep, SameCounts

LEMMA ReopenedFields ==
    ASSUME NEW r \in TransferRow
    PROVE  /\ Reopened(r).attempt = r.attempt /\ ~Reopened(r).dispatched
           /\ Reopened(r).state = r.state /\ Advances(r, Reopened(r))
BY DEF TransferRow, Reopened, Advances

LEMMA ReopenKeeps ==
    ASSUME OneAttempt, Inv', NEW c \in Callers, Reopen(c)
    PROVE  OneAttempt'
<1>1. /\ caller[c].pc = "looked" /\ caller[c].answer = "none"
      /\ UNCHANGED <<process, orphans, done, kind, here, there, others>>
  BY DEF Reopen, serverVars
<1>2. /\ caller[c].id \in DOMAIN rows /\ rows[caller[c].id] = Row(c) /\ Row(c) \in TransferRow
      /\ Coherent(caller[c])
  BY <1>1, CallerRow
<1>3. CASE HoldsClaim(c) /\ Inactive(Row(c))
  <2>1. Goes(c, "reopened") /\ Write(caller[c].id, Reopened(Row(c)))
    BY <1>3 DEF Reopen
  <2>2. Proven(caller[c])
    BY <1>1, <1>2, <1>3 DEF Proven, HoldsClaim
  <2>3. orphans = {} /\ done = {}
    BY <1>2, <2>2 DEF Coherent, ProofSound
  <2>4. \A d \in Callers : caller[d].pc \notin Claimed
    BY <2>2, ClaimAlone
  <2>5. /\ Advances(Row(c), Reopened(Row(c))) /\ Reopened(Row(c)).state = Row(c).state
    BY <1>2, ReopenedFields
  <2>6. ASSUME NEW d \in Callers, d # c PROVE Proven(caller[d]) => orphans' = {} /\ done' = {}
    BY <1>1, <2>3
  <2>7. /\ RowsAdvance /\ OneOpenRow' /\ DOMAIN rows' = DOMAIN rows
    BY <1>2, <2>1, <2>5, WrittenAdvance
  <2>8. Becomes(c, "reopened", caller[c].id, caller[c].seen, caller[c].answer)
    BY <1>1, <2>1, <2>7, CallerRow, CallerGoes DEF Places
  <2>9. /\ \A d \in Callers : d # c => caller'[d] = caller[d]
        /\ Rested(caller'[c])
    BY <2>8 DEF Becomes, Rested, Claimed
  <2>10. Coherent(caller[c])'
    <3>1. PICK q : q = caller'[c]
      OBVIOUS
    <3> QED  BY <2>9, <3>1, RestedCoherent, CoherentCaller
  <2>11. OrphansSound' /\ EffectsSound'
    BY <1>1, <2>3 DEF OrphansSound, EffectsSound
  <2> QED  BY <1>1, <2>4, <2>6, <2>7, <2>9, <2>10, <2>11, MoverStep, SameCounts
<1>4. CASE ~(HoldsClaim(c) /\ Inactive(Row(c)))
  <2>1. Ends(c) /\ rows' = rows
    BY <1>4 DEF Reopen
  <2> QED  BY <1>1, <2>1, RestingStep, UnchangedSame
<1> QED  BY <1>3, <1>4

LEMMA SettleKeeps ==
    ASSUME OneAttempt, Inv', NEW c \in Callers, Settle(c)
    PROVE  OneAttempt'
<1>1. /\ caller[c].pc = "settle" /\ caller[c].pc # "idle" /\ caller[c].pc \in Claimed
      /\ UNCHANGED <<process, orphans, done, kind, here, there, others>>
      /\ Ends(c) \/ Completes(c)
  BY DEF Settle, serverVars, Claimed
<1>2. /\ caller[c].id \in DOMAIN rows /\ rows[caller[c].id] = Row(c) /\ Row(c) \in TransferRow
      /\ ClaimSound(caller[c])
  BY <1>1, CallerRow DEF Coherent
<1>3. /\ Row(c).state # "failed" /\ Row(c).dispatched
      /\ orphans # {} => caller[c].answer = "unknown"
      /\ done # {} => caller[c].answer \in Effective
  BY <1>1, <1>2 DEF ClaimSound, Underway
<1>4. \A d \in Callers : d # c => caller[d].pc \notin Claimed /\ ~Proven(caller[d])
  BY <1>1, ClaimAlone
<1>5. CASE ~Found(c)
  <2>1. rows' = rows
    BY <1>5 DEF Settle
  <2> QED  BY <1>1, <2>1, RestingStep, UnchangedSame
<1>6. CASE Found(c)
  <2> DEFINE r == Outcome(c)
  <2>1. Write(caller[c].id, r)
    BY <1>6 DEF Settle
  <2>2. CASE caller[c].answer \in {"moved", "applied", "placed"}
    <3>1. \E u \in BOOLEAN : r = Succeeded(Row(c), u)
      BY <2>2 DEF Outcome
    <3>2. SameClaim(Row(c), r)
      BY <1>2, <1>3, <3>1, SucceededSame
    <3> QED  BY <1>1, <2>1, <3>2, RestingWrite
  <2>3. CASE caller[c].answer = "refused"
    <3>1. r = [Row(c) EXCEPT !.state = "failed"] /\ Ends(c) /\ orphans = {} /\ done = {}
      BY <1>3, <1>6, <2>3 DEF Outcome, Settle, Done, Effective
    <3>2. Advances(Row(c), r) /\ r.state = "failed"
      BY <1>2, <3>1 DEF TransferRow, Advances
    <3> HIDE DEF r
    <3> QED  BY <1>1, <1>4, <2>1, <3>1, <3>2, OwnWrite
  <2>4. CASE caller[c].answer = "unsent"
    <3>1. r = Reopened(Row(c)) /\ Ends(c) /\ orphans = {} /\ done = {}
      BY <1>3, <1>6, <2>4 DEF Outcome, Settle, Done, Effective
    <3>2. Advances(Row(c), r) /\ r.state = Row(c).state
      BY <1>2, <3>1, ReopenedFields
    <3> HIDE DEF r
    <3> QED  BY <1>1, <1>4, <2>1, <3>1, <3>2, OwnWrite
  <2>5. CASE caller[c].answer = "unknown"
    <3>1. r = [Row(c) EXCEPT !.finished = TRUE] /\ Ends(c)
      BY <1>6, <2>5 DEF Outcome, Settle, Done
    <3>2. Advances(Row(c), r) /\ r.state = Row(c).state /\ r.dispatched = Row(c).dispatched
          /\ r.attempt = Row(c).attempt
      BY <1>2, <3>1 DEF TransferRow, Advances
    <3> HIDE DEF r
    <3> QED  BY <1>1, <1>3, <1>4, <2>1, <3>1, <3>2, OwnWrite
  <2> QED  BY <1>6, <2>2, <2>3, <2>4, <2>5 DEF Found
<1> QED  BY <1>5, <1>6

(* The server runs the command of row i. *)
LEMMA EffectCounts ==
    ASSUME OneAttempt, done = {}, NEW i, Effect(i), UNCHANGED <<kind, others>>
    PROVE  Counted' /\ done' \subseteq {i}
<1>1. kind \in {"move", "copy"} /\ there \in Nat /\ others \in Nat
  BY DEF OneAttempt, Inv, TypeOK
<1>2. CASE kind = "move" /\ ~here
  BY <1>1, <1>2 DEF Effect, OneAttempt, Counted
<1>3. CASE ~(kind = "move" /\ ~here)
  <2>1. here' = (kind = "copy" /\ here) /\ there' = there + 1 /\ done' = {i}
    BY <1>3 DEF Effect
  <2>2. kind = "copy" => there <= others
    BY DEF OneAttempt, Counted
  <2>3. kind = "move" => ~here'
    BY <2>1
  <2>4. kind' = kind /\ others' = others /\ done' # {}
    BY <2>1
  <2>5. kind = "copy" => 1 <= there' /\ there' <= 1 + others'
    BY <1>1, <2>1, <2>2, <2>4
  <2>6. Counted'
    BY <2>3, <2>4, <2>5 DEF Counted
  <2> QED  BY <2>1, <2>6
<1> QED  BY <1>2, <1>3

LEMMA ExecuteKeeps ==
    ASSUME OneAttempt, Inv', NEW c \in Callers, Execute(c)
    PROVE  OneAttempt'
<1>1. /\ caller[c].pc = "sent" /\ caller[c].pc \in Claimed /\ caller[c].pc # "idle" /\ Effect(caller[c].id)
      /\ Goes(c, "executed") /\ rows' = rows /\ UNCHANGED <<process, orphans, kind, others>>
  BY DEF Execute, rowVars, Claimed
<1>2. CallersTyped /\ ClaimSound(caller[c])
  BY <1>1, CallerRow DEF Coherent
<1>3. /\ Underway(caller[c].id) /\ orphans = {} /\ done = {}
  BY <1>1, <1>2 DEF ClaimSound
<1>4. Counted' /\ done' \subseteq {caller[c].id}
  BY <1>1, <1>3, EffectCounts
<1>5. \A d \in Callers : d # c => caller[d].pc \notin Claimed /\ ~Proven(caller[d])
  BY <1>1, ClaimAlone
<1>6. Becomes(c, "executed", caller[c].id, caller[c].seen, caller[c].answer)
  BY <1>1, <1>2, CallerGoes DEF Places, Claimed
<1>7. Coherent(caller[c])'
  <2>1. PICK q : q = caller'[c]
    OBVIOUS
  <2>2. q.pc = "executed" /\ q.id = caller[c].id /\ q.seen = caller[c].seen
    BY <1>6, <2>1 DEF Becomes
  <2>3. ClaimSound(q)'
    BY <1>1, <1>2, <1>3, <2>2 DEF ClaimSound, Underway, Inactive
  <2>4. Coherent(q)'
    BY <2>2, <2>3 DEF Coherent, SnapshotSound, ProofSound, Proven
  <2> QED  BY <2>1, <2>4, CoherentCaller
<1>8. OrphansSound' /\ EffectsSound'
  BY <1>1, <1>3, <1>4 DEF OrphansSound, EffectsSound, Underway
<1>9. OneOpenRow' /\ RowsAdvance
  BY <1>1, UnchangedSame, SameAdvances DEF OneAttempt, OneOpenRow, Inv
<1>10. \A d \in Callers : d # c => caller'[d] = caller[d]
  BY <1>6 DEF Becomes
<1> QED  BY <1>1, <1>4, <1>5, <1>7, <1>8, <1>9, <1>10, MoverStep

(* The command of c is now nobody's. *)
LEMMA AbandonKeeps ==
    ASSUME OneAttempt, Inv', NEW c \in Callers, caller[c].pc = "sent", LoseAnswer(c) \/ Panic(c)
    PROVE  OneAttempt'
<1> DEFINE o == <<caller[c].id, caller[c].seen.attempt>>
<1>1. /\ caller[c].pc \in Claimed /\ caller[c].pc # "idle" /\ orphans' = orphans \cup {o}
      /\ Answered(c, "unknown") \/ Ends(c)
      /\ rows' = rows /\ UNCHANGED <<process, done, kind, here, there, others>>
  BY DEF LoseAnswer, Panic, Abandoned, rowVars, Claimed
<1>2. CallersTyped /\ ClaimSound(caller[c])
  BY <1>1, CallerRow DEF Coherent
<1>3. /\ Underway(caller[c].id) /\ rows[caller[c].id].attempt = caller[c].seen.attempt
      /\ orphans = {} /\ done = {} /\ ~Inactive(rows[caller[c].id])
  BY <1>1, <1>2 DEF ClaimSound
<1>4. \A d \in Callers : d # c => caller[d].pc \notin Claimed /\ ~Proven(caller[d])
  BY <1>1, ClaimAlone
<1>5. OrphansSound' /\ EffectsSound'
  <2>1. orphans' = {o} /\ o[1] = caller[c].id /\ o[2] = caller[c].seen.attempt
    BY <1>1, <1>3
  <2> QED  BY <1>1, <1>3, <2>1 DEF OrphansSound, EffectsSound, Underway
<1>6. OneOpenRow' /\ RowsAdvance /\ Counted'
  BY <1>1, UnchangedSame, SameAdvances, SameCounts DEF OneAttempt, OneOpenRow, Inv
<1>7. CASE Answered(c, "unknown")
  <2>1. Becomes(c, "settle", caller[c].id, caller[c].seen, "unknown")
    BY <1>1, <1>2, <1>7, CallerAnswered DEF Answers
  <2>2. PICK q : q = caller'[c]
    OBVIOUS
  <2>3. q.pc = "settle" /\ q.id = caller[c].id /\ q.seen = caller[c].seen /\ q.answer = "unknown"
    BY <2>1, <2>2 DEF Becomes
  <2>4. ClaimSound(q)'
    BY <1>1, <1>3, <2>3 DEF ClaimSound, Underway, Inactive
  <2>5. Coherent(q)'
    BY <2>3, <2>4 DEF Coherent, SnapshotSound, ProofSound, Proven
  <2>6. Coherent(caller[c])'
    BY <2>2, <2>5, CoherentCaller
  <2>7. \A d \in Callers : d # c => caller'[d] = caller[d]
    BY <2>1 DEF Becomes
  <2> QED  BY <1>1, <1>4, <1>5, <1>6, <2>6, <2>7, MoverStep
<1>8. CASE Ends(c)
  <2>1. Becomes(c, "idle", 0, Staged, "none")
    BY <1>1, <1>2, <1>8, CallerEnds DEF Rests
  <2>2. PICK q : q = caller'[c]
    OBVIOUS
  <2>3. Rested(q)
    BY <2>1, <2>2 DEF Becomes, Rested, Claimed
  <2>4. Coherent(caller[c])'
    BY <2>2, <2>3, RestedCoherent, CoherentCaller
  <2>5. \A d \in Callers : d # c => caller'[d] = caller[d]
    BY <2>1 DEF Becomes
  <2> QED  BY <1>1, <1>4, <1>5, <1>6, <2>4, <2>5, MoverStep
<1> QED  BY <1>1, <1>7, <1>8

(* One command at most is abroad. *)
LEMMA OneOrphan ==
    ASSUME OneAttempt, NEW o \in orphans
    PROVE  orphans = {o} /\ o[1] \in DOMAIN rows /\ Underway(o[1]) /\ done = {}
<1>1. orphans \subseteq (DOMAIN rows) \X Nat
  BY DEF OneAttempt, Inv, TypeOK
<1>2. \A p \in orphans : p = <<p[1], p[2]>> /\ p[1] \in DOMAIN rows /\ Underway(p[1]) /\ rows[p[1]].attempt = p[2]
  BY <1>1 DEF OneAttempt, OrphansSound
<1>3. \A p \in orphans : p[1] = o[1]
  BY <1>2 DEF OneAttempt, OneOpenRow, Underway
<1>4. \A p \in orphans : p = o
  BY <1>2, <1>3
<1> QED  BY <1>2, <1>4 DEF OneAttempt, OrphansSound

LEMMA RunOrphanKeeps ==
    ASSUME OneAttempt, Inv', RunOrphan
    PROVE  OneAttempt'
<1>1. PICK o \in orphans :
        /\ orphans' = orphans \ {o}
        /\ Effect(o[1]) \/ UNCHANGED <<here, there, done>>
        /\ rows' = rows /\ caller' = caller /\ UNCHANGED <<process, kind, others>>
  BY DEF RunOrphan, rowVars
<1>2. orphans = {o} /\ o[1] \in DOMAIN rows /\ Underway(o[1]) /\ done = {} /\ orphans' = {}
  BY <1>1, OneOrphan
<1>3. Counted' /\ done' \subseteq {o[1]}
  <2>1. CASE Effect(o[1])
    BY <1>1, <1>2, <2>1, EffectCounts
  <2>2. CASE UNCHANGED <<here, there, done>>
    BY <1>1, <1>2, <2>2, SameCounts
  <2> QED  BY <1>1, <2>1, <2>2
<1>4. TypeOK /\ TypeOK' /\ RowsAdvance
  BY <1>1, UnchangedSame, SameAdvances DEF OneAttempt, Inv
<1>5. ASSUME NEW d \in Callers PROVE Coherent(caller[d])'
  <2>1. PICK q : q = caller[d]
    OBVIOUS
  <2>2. q \in Request /\ (q.pc # "idle" => q.id \in DOMAIN rows) /\ Coherent(q) /\ caller'[d] = q
    BY <1>1, <2>1, CallerKnown
  <2>3. ~Proven(q)
    BY <1>2, <2>2 DEF Coherent, ProofSound
  <2>4. SnapshotSound(q)' /\ ProofSound(q)'
    BY <1>1, <1>4, <2>2, <2>3, WaitingKept DEF Coherent
  <2>5. ClaimSound(q)'
    BY <1>1, <1>2, <2>2 DEF Coherent, ClaimSound, Underway, Inactive, Effective
  <2> QED  BY <2>2, <2>4, <2>5, CoherentCaller DEF Coherent
<1>6. OneOpenRow' /\ OneClaim'
  BY <1>1 DEF OneAttempt, OneOpenRow, OneClaim
<1>7. OrphansSound' /\ EffectsSound'
  BY <1>1, <1>2, <1>3 DEF OrphansSound, EffectsSound, Underway
<1> QED  BY <1>3, <1>5, <1>6, <1>7 DEF OneAttempt

LEMMA AgeKeeps ==
    ASSUME OneAttempt, Inv', Age
    PROVE  OneAttempt'
<1>1. PICK i \in DOMAIN rows :
        /\ rows[i].dispatched
        /\ \A c \in Callers : ~(caller[c].pc \in Claimed /\ caller[c].id = i
                                /\ caller[c].seen.attempt = rows[i].attempt)
        /\ Write(i, [rows[i] EXCEPT !.stale = TRUE])
        /\ caller' = caller /\ UNCHANGED <<process, orphans, done, kind, here, there, others>>
  BY DEF Age, serverVars
<1> DEFINE r == [rows[i] EXCEPT !.stale = TRUE]
<1>2. rows[i] \in TransferRow
  BY TypeParts, RowTyped DEF OneAttempt, Inv
<1>3. /\ Advances(rows[i], r) /\ r.state = rows[i].state /\ r.dispatched = rows[i].dispatched
      /\ r.attempt = rows[i].attempt
  BY <1>2 DEF Advances, TransferRow
<1>4. Write(i, r)
  BY <1>1
<1> HIDE DEF r
<1>5. /\ RowsAdvance /\ OneOpenRow' /\ rows'[i] = r /\ DOMAIN rows' = DOMAIN rows
      /\ \A j \in DOMAIN rows : j # i => rows'[j] = rows[j]
  BY <1>3, <1>4, WrittenAdvance
<1>6. \A j \in DOMAIN rows : /\ rows'[j].state = rows[j].state /\ rows'[j].dispatched = rows[j].dispatched
                             /\ rows'[j].attempt = rows[j].attempt
  BY <1>3, <1>5
<1>7. TypeOK /\ TypeOK'
  BY DEF OneAttempt, Inv
<1>8. ASSUME NEW d \in Callers PROVE Coherent(caller[d])'
  <2>1. PICK q : q = caller[d]
    OBVIOUS
  <2>2. q \in Request /\ (q.pc # "idle" => q.id \in DOMAIN rows) /\ Coherent(q) /\ caller'[d] = q
    BY <1>1, <2>1, CallerKnown
  <2>3. Proven(q) => orphans' = {} /\ done' = {}
    BY <1>1, <2>2 DEF Coherent, ProofSound
  <2>4. SnapshotSound(q)' /\ ProofSound(q)'
    BY <1>1, <1>5, <1>7, <2>2, <2>3, WaitingKept DEF Coherent
  <2>5. ClaimSound(q)'
    <3>1. SUFFICES ASSUME q.pc \in Claimed PROVE ClaimSound(q)'
      BY DEF ClaimSound
    <3>2. ClaimSound(q) /\ q.id \in DOMAIN rows
      BY <2>2, <3>1 DEF Coherent, Claimed
    <3>3. q.id # i
      BY <1>1, <2>1, <3>1, <3>2 DEF ClaimSound
    <3>4. rows'[q.id] = rows[q.id]
      BY <1>5, <3>2, <3>3
    <3> QED  BY <1>1, <3>2, <3>4 DEF ClaimSound, Underway, Inactive
  <2> QED  BY <2>2, <2>4, <2>5, CoherentCaller DEF Coherent
<1>9. OneClaim'
  BY <1>1 DEF OneAttempt, OneClaim
<1>10. OrphansSound' /\ EffectsSound'
  <2>1. (\A o \in orphans : o[1] \in DOMAIN rows) /\ done \subseteq DOMAIN rows
    BY <1>7 DEF TypeOK
  <2> QED  BY <1>1, <1>6, <2>1 DEF OneAttempt, OrphansSound, EffectsSound, Underway
<1> QED  BY <1>1, <1>5, <1>8, <1>9, <1>10, SameCounts DEF OneAttempt

LEMMA RestartKeeps ==
    ASSUME OneAttempt, Inv', Restart
    PROVE  OneAttempt'
<1>1. /\ orphans' = UNION {Abandoned(c) : c \in Callers} /\ caller' = [c \in Callers |-> AtRest]
      /\ rows' = rows /\ UNCHANGED <<done, kind, here, there, others>>
  BY DEF Restart, rowVars
<1>2. \A d \in Callers : caller'[d] = AtRest
  BY <1>1
<1>3. Rested(AtRest) /\ AtRest.pc \notin Claimed
  BY DEF Rested, AtRest, Claimed
<1>4. ASSUME NEW d \in Callers PROVE Coherent(caller[d])'
  <2>1. PICK q : q = AtRest
    OBVIOUS
  <2> QED  BY <1>2, <1>3, <2>1, RestedCoherent, CoherentCaller
<1>5. OneClaim' /\ OneOpenRow' /\ EffectsSound' /\ Counted'
  BY <1>1, <1>2, <1>3, SameCounts DEF OneAttempt, OneClaim, OneOpenRow, EffectsSound, Underway
<1>6. ASSUME NEW o \in orphans' PROVE Underway(o[1]) /\ rows[o[1]].attempt = o[2] /\ done = {}
  <2>1. PICK c \in Callers : o \in Abandoned(c)
    BY <1>1
  <2>2. CASE o \in orphans
    BY <2>2 DEF OneAttempt, OrphansSound
  <2>3. CASE o \notin orphans
    <3>1. caller[c].pc = "sent" /\ o = <<caller[c].id, caller[c].seen.attempt>>
      BY <2>1, <2>3 DEF Abandoned
    <3>2. ClaimSound(caller[c])
      BY <3>1, CallerRow DEF Coherent
    <3> QED  BY <3>1, <3>2 DEF ClaimSound, Claimed
  <2> QED  BY <2>2, <2>3
<1>7. OrphansSound'
  BY <1>1, <1>6 DEF OrphansSound, Underway
<1> QED  BY <1>4, <1>5, <1>7 DEF OneAttempt

-----------------------------------------------------------------------------
LEMMA OneAttemptInit == Init => OneAttempt
<1> SUFFICES ASSUME Init PROVE OneAttempt
  OBVIOUS
<1>1. Inv
  BY InvInit
<1>2. rows = <<>> /\ DOMAIN rows = {}
  BY EmptySeq DEF Init
<1>3. /\ orphans = {} /\ done = {} /\ there = 0 /\ others = 0
      /\ caller = [c \in Callers |-> AtRest]
  BY DEF Init
<1>4. Rested(AtRest) /\ AtRest.pc \notin Claimed
  BY DEF Rested, AtRest, Claimed
<1>5. \A c \in Callers : caller[c] = AtRest
  BY <1>3
<1>6. \A c \in Callers : Coherent(caller[c])
  BY <1>4, <1>5, RestedCoherent
<1>7. OneOpenRow /\ OneClaim /\ OrphansSound /\ EffectsSound
  BY <1>2, <1>3, <1>4, <1>5 DEF OneOpenRow, OneClaim, OrphansSound, EffectsSound
<1>8. Counted
  BY <1>3 DEF Counted
<1> QED  BY <1>1, <1>6, <1>7, <1>8 DEF OneAttempt

LEMMA OneAttemptStep ==
    ASSUME ~LateCommands, OneAttempt, Boundaries, [Next]_vars
    PROVE  OneAttempt'
<1>1. Inv'
  BY InvStep DEF OneAttempt
<1>2. ASSUME NEW c \in Callers, Serve(c) PROVE OneAttempt'
  BY <1>1, <1>2, StageKeeps, TakeUpKeeps, SurveyKeeps, SetBoundaryKeeps, IdleKeeps, LookKeeps, ConfirmKeeps, ReopenKeeps, ClaimKeeps,
     SendKeeps, ExecuteKeeps, AnswerKeeps, SettleKeeps, CompleteKeeps DEF Serve
<1>3. ASSUME NEW c \in Callers, Failure(c) PROVE OneAttempt'
  <2>1. CASE LoseAnswer(c)
    <3>1. caller[c].pc \in {"sent", "executed"}
      BY <2>1 DEF LoseAnswer
    <3> QED  BY <1>1, <2>1, <3>1, AbandonKeeps, AnswerKeeps
  <2>2. CASE SettleFails(c)
    BY <1>1, <2>2, AnswerKeeps, GivesUp
  <2>3. CASE Panic(c)
    BY <1>1, <2>3, AbandonKeeps, GivesUp
  <2> QED  BY <1>1, <1>3, <2>1, <2>2, <2>3, IdleKeeps, SendKeeps DEF Failure
<1>4. CASE UNCHANGED vars
  <2>1. /\ rows' = rows /\ caller' = caller
        /\ UNCHANGED <<process, orphans, done, kind, here, there, others>>
    BY <1>4 DEF vars, rowVars, serverVars
  <2> QED  BY <1>1, <2>1, QuietStep, SameCounts, UnchangedSame
<1> QED  BY <1>1, <1>2, <1>3, <1>4, RunOrphanKeeps, RestartKeeps, AgeKeeps, OtherClientKeeps,
            ArrivalKeepsClaims DEF Next

LEMMA OneAttemptHolds ==
    ASSUME ~LateCommands
    PROVE  Spec => [](OneAttempt /\ Boundaries)
<1>1. Init => OneAttempt /\ Boundaries
  BY OneAttemptInit, BoundariesInit
<1>2. OneAttempt /\ Boundaries /\ [Next]_vars => (OneAttempt /\ Boundaries)'
  BY OneAttemptStep, BoundariesStep DEF OneAttempt
<1> QED  BY <1>1, <1>2, PTL DEF Spec

(* If no command runs after a later question, one at most is on its way to    *)
(* the server, of all the callers and of those that nobody waits for          *)
(* (ClaimMessageTransferDispatchForOwner,                                     *)
(* ReopenMessageTransferDispatchAfterProof).                                  *)
THEOREM CommandsOneAtATime ==
    ASSUME ~LateCommands
    PROVE  Spec => []OneCommand
<1>1. OneAttempt => OneCommand
  <2> SUFFICES ASSUME OneAttempt PROVE OneCommand
    OBVIOUS
  <2> DEFINE sent == {c \in Callers : caller[c].pc = "sent"}
  <2>1. \A c \in sent : orphans = {}
    BY CallerRow DEF Coherent, ClaimSound, Claimed
  <2>2. \A c, d \in sent : c = d
    BY DEF OneAttempt, OneClaim, Claimed
  <2>3. \A o \in orphans : orphans = {o}
    BY OneOrphan
  <2>4. sent = {} \/ \E c \in sent : sent = {c}
    BY <2>2
  <2>5. orphans = {} \/ \E o \in orphans : orphans = {o}
    BY <2>3
  <2>6. Cardinality({}) = 0 /\ \A x : Cardinality({x}) = 1
    BY FS_EmptySet, FS_Singleton
  <2> HIDE DEF sent
  <2>7. Cardinality(sent) + Cardinality(orphans) <= 1
    <3>1. CASE sent = {}
      <4>1. Cardinality(sent) = 0
        BY <2>6, <3>1
      <4>2. Cardinality(orphans) = 0 \/ Cardinality(orphans) = 1
        BY <2>5, <2>6
      <4> QED  BY <4>1, <4>2
    <3>2. CASE sent # {}
      <4>1. orphans = {}
        BY <2>1, <3>2
      <4>2. Cardinality(sent) = 1
        BY <2>4, <2>6, <3>2
      <4> QED  BY <2>6, <4>1, <4>2
    <3> QED  BY <3>1, <3>2
  <2> QED  BY <2>7 DEF OneCommand, sent
<1> QED  BY <1>1, OneAttemptHolds, PTL

(* If no command runs after a later question, a transfer recorded as failed   *)
(* has had no effect (MarkMessageTransferFailed after a refusal).             *)
THEOREM FailuresUndone ==
    ASSUME ~LateCommands
    PROVE  Spec => []FailedMeansUndone
<1>1. OneAttempt => FailedMeansUndone
  BY DEF OneAttempt, EffectsSound, Underway, FailedMeansUndone
<1> QED  BY <1>1, OneAttemptHolds, PTL

(* If no command runs after a later question, the user's copy is made once,   *)
(* however answers are lost, callers die and requests are repeated            *)
(* (the reconciliation in CopyMessage before another APPEND is sent); and     *)
(* what is recorded as made is not an older message of the destination.       *)
THEOREM CopiesMadeOnce ==
    ASSUME ~LateCommands
    PROVE  Spec => []CopiedOnce
<1>1. OneAttempt /\ Boundaries => CopiedOnce
  <2>1. OneAttempt => there \in Nat /\ others \in Nat
    BY DEF OneAttempt, Inv, TypeOK
  <2>2. OneAttempt /\ kind = "copy" => there <= 1 + others
    BY <2>1 DEF OneAttempt, Counted
  <2>3. Boundaries /\ kind = "copy" =>
          \A i \in DOMAIN rows : rows[i].state \in {"succeeded", "consumed"} => there >= rows[i].next
    BY DEF Boundaries, RowBounded, Reached, Settled
  <2> QED  BY <2>2, <2>3 DEF CopiedOnce
<1> QED  BY <1>1, OneAttemptHolds, PTL
=============================================================================
