------------------------- MODULE InboxArrivals_proofs -------------------------
(* What holds of the arrivals of an account for any set of messages, any      *)
(* durations and any number of faults, crashes and rebuilds.                  *)
EXTENDS InboxArrivals, TLAPS, FiniteSetTheorems, WellFoundedInduction

Turns    == {"remote", "stored", "held", "recorded", "done"}
Evidence == {"none", "near", "fresh", "expired", "used"}

LEMMA LeastNatural ==
    ASSUME NEW S, S \subseteq Nat, S # {}
    PROVE  Min(S) \in S /\ \A n \in S : Min(S) <= n
<1> DEFINE Less == {p \in Nat \X Nat : p[1] < p[2]}
<1>1. IsWellFoundedOn(Less, Nat)
  BY NatLessThanWellFounded, Zenon DEF OpToRel
<1>2. PICK x \in S : \A n \in S : <<n, x>> \notin Less
  <2> HIDE DEF Less
  <2> QED  BY <1>1, WFMin
<1>3. \A n \in S : x <= n
  <2> TAKE n \in S
  <2>1. n \in Nat /\ x \in Nat /\ <<n, x>> \notin Less
    BY <1>2
  <2>2. ~(n < x)
    BY <2>1
  <2> QED  BY <2>1, <2>2
<1> QED  BY <1>3 DEF Min

\* The next deadline of the account is the earliest of its eligible rows.
LEMMA NextDueLemma ==
    ASSUME left \in [Messages -> 0..RetryTime]
    PROVE  NextDue \in 0..Never /\ \A m \in Eligible : NextDue <= left[m]
<1> DEFINE Due == {Never} \cup {left[m] : m \in Eligible}
<1>1. Never \in Nat /\ \A m \in Eligible : left[m] \in 0..Never
  BY TimesAssumption DEF Never, Eligible, Pending
<1>2. Min(Due) \in Due /\ \A n \in Due : Min(Due) <= n
  <2>1. Due \subseteq Nat /\ Due # {}
    BY <1>1
  <2> HIDE DEF Due
  <2> QED  BY <2>1, LeastNatural
<1> QED  BY <1>1, <1>2 DEF NextDue

-----------------------------------------------------------------------------
(* The finalizer's record, one field at a time *)

Steps == {"idle", "list", "probe", "record", "defer", "commit", "next", "end"}

LEMMA FinalizerFields ==
    ASSUME NEW f \in FinalizerType
    PROVE  /\ f.pc \in Steps /\ f.cutoff \subseteq Messages /\ f.listed \subseteq Messages
           /\ f.absent \subseteq Messages /\ f.unsure \subseteq Messages
           /\ f.next \in 0..Never /\ f.failed \in BOOLEAN
  BY DEF FinalizerType, Steps

LEMMA FinalizerExcept ==
    ASSUME NEW f \in FinalizerType
    PROVE  /\ \A p \in Steps : [f EXCEPT !.pc = p] \in FinalizerType
           /\ \A S \in SUBSET Messages :
                /\ [f EXCEPT !.cutoff = S] \in FinalizerType
                /\ [f EXCEPT !.listed = S] \in FinalizerType
                /\ [f EXCEPT !.absent = S] \in FinalizerType
                /\ [f EXCEPT !.unsure = S] \in FinalizerType
           /\ \A t \in 0..Never : [f EXCEPT !.next = t] \in FinalizerType
           /\ \A b \in BOOLEAN : [f EXCEPT !.failed = b] \in FinalizerType
  BY DEF FinalizerType, Steps

LEMMA IdleType == Idle \in FinalizerType
  BY TimesAssumption DEF Idle, FinalizerType, Never

\* What a step of the finalizer makes of its record.
LEMMA FinalizerStep ==
    ASSUME TypeOK, Finalizer
    PROVE  fin' \in FinalizerType
<1> USE DEF Steps
<1>0. fin \in FinalizerType /\ left \in [Messages -> 0..RetryTime]
  BY DEF TypeOK
<1>1. CASE Fire
  <2>1. {m \in Pending : left[m] = 0} \subseteq Messages
    BY DEF Pending
  <2>2. [Idle EXCEPT !.pc = "list"] \in FinalizerType
    BY IdleType, FinalizerExcept
  <2>3. [[Idle EXCEPT !.pc = "list"] EXCEPT !.cutoff = {m \in Pending : left[m] = 0}] \in FinalizerType
    BY <2>1, <2>2, FinalizerExcept
  <2> QED  BY <1>1, <2>3 DEF Fire
<1>2. CASE ListDue
  <2> DEFINE L == FirstBatch(Eligible \cap fin.cutoff)
             p == IF L = {} THEN "commit" ELSE "probe"
  <2>1. L \subseteq Messages
    BY DEF FirstBatch, Eligible, Pending
  <2>2. fin' = [[fin EXCEPT !.listed = L] EXCEPT !.pc = p]
    BY <1>2 DEF ListDue
  <2> HIDE DEF L
  <2> QED  BY <1>0, <2>1, <2>2, FinalizerExcept
<1>3. CASE ProbeMoves
  <2>1. PICK unsure \in SUBSET fin.listed :
             fin' = [fin EXCEPT !.unsure = unsure, !.pc = "record",
                       !.absent = {m \in fin.listed \ unsure : source[m] = "gone"}]
    BY <1>3 DEF ProbeMoves
  <2> DEFINE gone == {m \in fin.listed \ unsure : source[m] = "gone"}
  <2>2. unsure \subseteq Messages /\ gone \subseteq Messages
    BY <1>0, FinalizerFields
  <2>3. fin' = [[[fin EXCEPT !.unsure = unsure] EXCEPT !.pc = "record"] EXCEPT !.absent = gone]
    BY <2>1
  <2> HIDE DEF gone
  <2>4. [[fin EXCEPT !.unsure = unsure] EXCEPT !.pc = "record"] \in FinalizerType
    BY <1>0, <2>2, FinalizerExcept
  <2> QED  BY <2>2, <2>3, <2>4, FinalizerExcept
<1>4. CASE RecordAbsent
  <2>1. \/ fin' = [fin EXCEPT !.pc = "defer"]
        \/ fin' = [[fin EXCEPT !.pc = "end"] EXCEPT !.failed = TRUE]
    BY <1>4 DEF RecordAbsent
  <2> QED  BY <1>0, <2>1, FinalizerExcept
<1>5. CASE DeferUnsure
  BY <1>0, <1>5, FinalizerExcept DEF DeferUnsure
<1>6. CASE FinalizeDue
  BY <1>0, <1>6, FinalizerExcept DEF FinalizeDue
<1>7. CASE ReadNext
  <2>1. fin' = [[fin EXCEPT !.pc = "end"] EXCEPT !.next = NextDue]
    BY <1>7 DEF ReadNext
  <2> QED  BY <1>0, <2>1, NextDueLemma, FinalizerExcept
<1>8. CASE Fail
  <2>1. fin' = [[fin EXCEPT !.pc = "end"] EXCEPT !.failed = TRUE]
    BY <1>8 DEF Fail
  <2> QED  BY <1>0, <2>1, FinalizerExcept
<1>9. CASE Rearm
  BY <1>0, <1>9, IdleType, FinalizerFields, FinalizerExcept DEF Rearm
<1> QED  BY <1>1, <1>2, <1>3, <1>4, <1>5, <1>6, <1>7, <1>8, <1>9 DEF Finalizer

-----------------------------------------------------------------------------
(* Types *)

\* A message nobody moved has no source, and so nothing to explain it.
Unmoved ==
    \A m \in Messages \ Moves :
        source[m] = "none" /\ evidence[m] = "none" /\ m \notin fin.absent

TypeInv == TypeOK /\ Unmoved

LEMMA InitTypeInv == Init => TypeInv
<1> SUFFICES ASSUME Init PROVE TypeInv
  OBVIOUS
<1> USE TimesAssumption, LimitsAssumption, MessagesAssumption
<1>1. fin \in FinalizerType /\ fin.absent = {}
  BY IdleType DEF Init, Idle
<1>2. source \in [Messages -> {"none", "gone", "reconciled"}]
  BY DEF Init
<1>3. due \in 0..Never
  BY DEF Init, Never
<1>4. 0 \in 0..RetryTime /\ 0 \in 0..EvidenceTime + 1 /\ 0 \in 0..EvidenceTime
  OBVIOUS
<1>5. /\ left \in [Messages -> 0..RetryTime]
      /\ age \in [Messages -> 0..EvidenceTime + 1]
      /\ evidenceLeft \in [Messages -> 0..EvidenceTime]
  BY <1>4, Zenon DEF Init
<1>6. /\ turn \in [Messages -> {"remote", "stored", "held", "recorded", "done"}]
      /\ row \in [Messages -> {"none", "pending", "moved", "delivery"}]
      /\ evidence \in [Messages -> {"none", "near", "fresh", "expired", "used"}]
  BY DEF Init
<1>7. /\ uncertain \in 0..MaxUncertain /\ faults \in 0..MaxFaults
      /\ crashes \in 0..MaxCrashes /\ rebuilds \in 0..MaxRebuilds
  BY DEF Init
<1>8. TypeOK
  BY <1>1, <1>2, <1>3, <1>5, <1>6, <1>7 DEF Init, TypeOK
<1> QED  BY <1>1, <1>8 DEF Init, TypeInv, Unmoved

\* What recording a fingerprint does.
LEMMA RecordedType ==
    ASSUME NEW S \in SUBSET Moves, Recorded(S), TypeInv
    PROVE  /\ evidence' \in [Messages -> Evidence]
           /\ evidenceLeft' \in [Messages -> 0..EvidenceTime]
           /\ lapsed' = lapsed
           /\ \A m \in Messages \ Moves : evidence'[m] = "none"
  BY TimesAssumption DEF Recorded, TypeInv, TypeOK, Unmoved, Evidence

LEMMA PrunedType ==
    ASSUME TypeInv
    PROVE  /\ Pruned(evidence) \in [Messages -> Evidence]
           /\ \A m \in Messages \ Moves : Pruned(evidence)[m] = "none" /\ ~Explained(m)
  BY DEF Pruned, Explained, TypeInv, TypeOK, Unmoved, Evidence

\* Only a source's absence is recorded.
LEMMA AbsentAreMoves ==
    ASSUME TypeInv
    PROVE  fin.absent \subseteq Moves
<1>1. fin.absent \subseteq Messages
  BY FinalizerFields DEF TypeInv, TypeOK
<1> QED  BY <1>1 DEF TypeInv, Unmoved

\* The Inbox turn and the reconciliation of the source.
LEMMA TurnTypeInv ==
    ASSUME TypeInv, NEW m \in Messages,
           \/ Store(m) \/ Hold(m) \/ ScheduleInboxArrival(m)
           \/ Checkpoint(m) \/ CutShort(m) \/ Reconcile(m)
    PROVE  TypeInv'
<1> USE TimesAssumption, LimitsAssumption DEF TypeInv, Evidence
<1>1. CASE Store(m)
  BY <1>1 DEF Store, TypeOK, Unmoved, rowVars, rebuildVars, bounds
<1>2. CASE Hold(m)
  <2> DEFINE open == row[m] \in {"none", "pending"}
             moved == open /\ Explained(m)
  <2>1. /\ row' = [row EXCEPT ![m] = IF moved THEN "moved" ELSE IF open THEN "pending" ELSE @]
        /\ evidence' = IF moved THEN [Pruned(evidence) EXCEPT ![m] = "used"] ELSE Pruned(evidence)
        /\ left' = [left EXCEPT ![m] = IF row[m] = "none" THEN HoldTime ELSE @]
    BY <1>2 DEF Hold
  <2>2. row' \in [Messages -> {"none", "pending", "moved", "delivery"}]
    BY <2>1 DEF TypeOK
  <2>3. left' \in [Messages -> 0..RetryTime]
    BY <2>1 DEF TypeOK
  <2>4. turn' \in [Messages -> {"remote", "stored", "held", "recorded", "done"}]
    BY <1>2 DEF TypeOK, Hold
  <2>5. evidence' \in [Messages -> Evidence] /\ \A x \in Messages \ Moves : evidence'[x] = "none"
    <3>1. moved => m \in Moves
      BY PrunedType
    <3> HIDE DEF moved
    <3> QED  BY <2>1, <3>1, PrunedType
  <2> QED  BY <1>2, <2>2, <2>3, <2>4, <2>5 DEF Hold, TypeOK, Unmoved, rebuildVars, bounds
<1>3. CASE ScheduleInboxArrival(m)
  <2>1. due' \in 0..Never
    BY <1>3 DEF ScheduleInboxArrival, Sooner, TypeOK, Never
  <2> QED  BY <1>3, <2>1 DEF ScheduleInboxArrival, TypeOK, Unmoved, rowVars, rebuildVars, bounds
<1>4. CASE Checkpoint(m)
  BY <1>4 DEF Checkpoint, TypeOK, Unmoved, rowVars, rebuildVars, bounds
<1>5. CASE CutShort(m)
  BY <1>5 DEF CutShort, TypeOK, Unmoved, rowVars, rebuildVars
<1>6. CASE Reconcile(m)
  <2>1. {m} \subseteq Moves /\ Recorded({m})
    BY <1>6 DEF Reconcile, Unmoved
  <2>2. source' \in [Messages -> {"none", "gone", "reconciled"}]
        /\ \A x \in Messages \ Moves : source'[x] = "none"
    BY <1>6, <2>1 DEF Reconcile, TypeOK, Unmoved
  <2> QED
    BY <1>6, <2>1, <2>2, RecordedType DEF Reconcile, TypeOK, Unmoved, rebuildVars, bounds
<1> QED  BY <1>1, <1>2, <1>3, <1>4, <1>5, <1>6

LEMMA FinalizerTypeInv ==
    ASSUME TypeInv, Finalizer
    PROVE  TypeInv'
<1> USE TimesAssumption, LimitsAssumption DEF TypeInv, Evidence
<1>1. fin' \in FinalizerType
  BY FinalizerStep
<1>2. CASE Fire
  <2>1. \A m \in Messages : m \notin fin'.absent
    BY <1>2 DEF Fire, Idle
  <2>2. due' \in 0..Never
    BY <1>2 DEF Fire, Never
  <2> QED
    BY <1>1, <1>2, <2>1, <2>2 DEF Fire, TypeOK, Unmoved, syncVars, rowVars, rebuildVars, bounds
<1>3. CASE ListDue
  <2>1. fin'.absent = fin.absent
    BY <1>3, FinalizerFields DEF ListDue, TypeOK, FinalizerType
  <2> QED
    BY <1>1, <1>3, <2>1 DEF ListDue, TypeOK, Unmoved, syncVars, rowVars, rebuildVars, bounds
<1>4. CASE ProbeMoves
  <2>1. PICK unsure \in SUBSET fin.listed :
          /\ uncertain + Cardinality(unsure) <= MaxUncertain
          /\ uncertain' = uncertain + Cardinality(unsure)
          /\ fin' = [fin EXCEPT !.unsure = unsure, !.pc = "record",
                        !.absent = {m \in fin.listed \ unsure : source[m] = "gone"}]
    BY <1>4 DEF ProbeMoves
  <2>2. fin'.absent = {m \in fin.listed \ unsure : source[m] = "gone"}
    BY <2>1 DEF TypeOK, FinalizerType
  <2>3. \A m \in Messages \ Moves : m \notin fin'.absent
    BY <2>2 DEF Unmoved
  <2>4. IsFiniteSet(unsure)
    BY MessagesAssumption, FinalizerFields, FS_Subset DEF TypeOK
  <2>5. Cardinality(unsure) \in Nat
    BY <2>4, FS_CardinalityType
  <2>6. uncertain' \in 0..MaxUncertain
    BY <2>1, <2>5 DEF TypeOK
  <2> QED
    BY <1>1, <1>4, <2>3, <2>6 DEF ProbeMoves, TypeOK, Unmoved, syncVars, rowVars, rebuildVars
<1>5. CASE RecordAbsent
  <2>1. fin'.absent = fin.absent
    BY <1>5 DEF RecordAbsent, TypeOK, FinalizerType
  <2>2. PICK S \in SUBSET Moves : Recorded(S)
    BY <1>5, AbsentAreMoves DEF RecordAbsent
  <2>3. /\ evidence' \in [Messages -> Evidence]
        /\ evidenceLeft' \in [Messages -> 0..EvidenceTime]
        /\ lapsed' = lapsed
        /\ \A m \in Messages \ Moves : evidence'[m] = "none"
    BY <2>2, RecordedType
  <2> QED
    BY <1>1, <1>5, <2>1, <2>3 DEF RecordAbsent, TypeOK, Unmoved, syncVars, rebuildVars, bounds
<1>6. CASE DeferUnsure
  <2>1. fin'.absent = fin.absent
    BY <1>6 DEF DeferUnsure, TypeOK, FinalizerType
  <2>2. left' \in [Messages -> 0..RetryTime]
    BY <1>6 DEF DeferUnsure, TypeOK
  <2> QED
    BY <1>1, <1>6, <2>1, <2>2 DEF DeferUnsure, TypeOK, Unmoved, syncVars, rebuildVars, bounds
<1>7. CASE FinalizeDue
  <2>1. fin'.absent = fin.absent
    BY <1>7 DEF FinalizeDue, TypeOK, FinalizerType
  <2> DEFINE now == FirstBatch({m \in Eligible \cap fin.cutoff : left[m] = 0})
             moved == {m \in now : Explained(m)}
  <2>2. /\ row' = [m \in Messages |-> IF m \in moved THEN "moved"
                                        ELSE IF m \in now THEN "delivery" ELSE row[m]]
        /\ evidence' = [m \in Messages |-> IF m \in moved THEN "used" ELSE Pruned(evidence)[m]]
    BY <1>7 DEF FinalizeDue
  <2> HIDE DEF now
  <2>3. row' \in [Messages -> {"none", "pending", "moved", "delivery"}]
    BY <2>2 DEF TypeOK
  <2>4. evidence' \in [Messages -> Evidence] /\ \A m \in Messages \ Moves : evidence'[m] = "none"
    BY <2>2, PrunedType
  <2> QED
    BY <1>1, <1>7, <2>1, <2>3, <2>4 DEF FinalizeDue, TypeOK, Unmoved, syncVars, rebuildVars, bounds
<1>8. CASE ReadNext
  <2>1. fin'.absent = fin.absent
    BY <1>8 DEF ReadNext, TypeOK, FinalizerType
  <2> QED
    BY <1>1, <1>8, <2>1 DEF ReadNext, TypeOK, Unmoved, syncVars, rowVars, rebuildVars, bounds
<1>9. CASE Fail
  <2>1. fin'.absent = fin.absent
    BY <1>9 DEF Fail, TypeOK, FinalizerType
  <2> QED
    BY <1>1, <1>9, <2>1 DEF Fail, TypeOK, Unmoved, syncVars, rowVars, rebuildVars
<1>10. CASE Rearm
  <2>1. fin'.absent = {}
    BY <1>10 DEF Rearm, Idle
  <2>2. due' \in 0..Never
    BY <1>10, FinalizerFields DEF Rearm, Sooner, Never, TypeOK
  <2> QED
    BY <1>1, <1>10, <2>1, <2>2 DEF Rearm, TypeOK, Unmoved, syncVars, rowVars, rebuildVars, bounds
<1> QED
  BY <1>2, <1>3, <1>4, <1>5, <1>6, <1>7, <1>8, <1>9, <1>10 DEF Finalizer

\* Rebuilds, crashes, and time.
LEMMA RebuildTypeInv ==
    ASSUME TypeInv, StartRebuild \/ FinishRebuild \/ ScheduleRestored
    PROVE  TypeInv'
<1> USE LimitsAssumption DEF TypeInv
<1>1. CASE StartRebuild
  <2>1. restored' \subseteq Messages /\ rebuilds' \in 0..MaxRebuilds
    BY <1>1 DEF StartRebuild, TypeOK
  <2> QED  BY <1>1, <2>1 DEF StartRebuild, TypeOK, Unmoved, syncVars, rowVars
<1>2. CASE FinishRebuild
  BY <1>2 DEF FinishRebuild, TypeOK, Unmoved, syncVars, rowVars, bounds
<1>3. CASE ScheduleRestored
  <2>1. NextDue \in 0..Never
    BY NextDueLemma DEF TypeOK
  <2>2. due' \in 0..Never
    BY <1>3, <2>1 DEF ScheduleRestored, Sooner, TypeOK
  <2> QED  BY <1>3, <2>2 DEF ScheduleRestored, TypeOK, Unmoved, syncVars, rowVars, bounds
<1> QED  BY <1>1, <1>2, <1>3

LEMMA TimeTypeInv ==
    ASSUME TypeInv, Crash \/ Restart \/ Tick
    PROVE  TypeInv'
<1> USE TimesAssumption, LimitsAssumption DEF TypeInv
<1>1. CASE Crash
  <2>1. fin' \in FinalizerType /\ fin'.absent = {}
    BY <1>1, IdleType DEF Crash, Idle
  <2>2. turn' \in [Messages -> {"remote", "stored", "held", "recorded", "done"}]
    BY <1>1 DEF Crash, TypeOK
  <2>3. due' \in 0..Never /\ crashes' \in 0..MaxCrashes
    BY <1>1 DEF Crash, TypeOK, Never
  <2> QED  BY <1>1, <2>1, <2>2, <2>3 DEF Crash, TypeOK, Unmoved, rowVars
<1>2. CASE Restart
  <2>1. NextDue \in 0..Never
    BY NextDueLemma DEF TypeOK
  <2> QED
    BY <1>2, <2>1 DEF Restart, TypeOK, Unmoved, syncVars, rowVars, rebuildVars, bounds
<1>3. CASE Tick
  <2>1. left' \in [Messages -> 0..RetryTime] /\ evidenceLeft' \in [Messages -> 0..EvidenceTime]
    BY <1>3 DEF Tick, TypeOK, Countdown
  <2>2. age' \in [Messages -> 0..EvidenceTime + 1]
    BY <1>3 DEF Tick, TypeOK
  <2> DEFINE expiring == {m \in Messages : evidence[m] = "fresh" /\ evidenceLeft[m] = 1}
  <2>3. expiring \subseteq Moves
    BY DEF Unmoved
  <2>4. /\ evidence' = [m \in Messages |-> IF m \in expiring THEN "expired" ELSE evidence[m]]
        /\ lapsed' = lapsed \cup expiring
    BY <1>3 DEF Tick
  <2>5. /\ evidence' \in [Messages -> {"none", "near", "fresh", "expired", "used"}]
        /\ lapsed' \subseteq Moves
        /\ \A m \in Messages \ Moves : evidence'[m] = "none"
    <3> HIDE DEF expiring
    <3> QED  BY <2>3, <2>4 DEF TypeOK, Unmoved
  <2>6. due' \in 0..Never
    BY <1>3 DEF Tick, TypeOK, Never
  <2> QED
    BY <1>3, <2>1, <2>2, <2>5, <2>6 DEF Tick, TypeOK, Unmoved, syncVars, rebuildVars, bounds
<1> QED  BY <1>1, <1>2, <1>3

LEMMA NextTypeInv == TypeInv /\ [Next]_vars => TypeInv'
<1> SUFFICES ASSUME TypeInv, [Next]_vars PROVE TypeInv'
  OBVIOUS
<1>1. CASE UNCHANGED vars
  BY <1>1 DEF TypeInv, TypeOK, Unmoved, vars, syncVars, rowVars, rebuildVars, bounds
<1> QED
  BY <1>1, TurnTypeInv, FinalizerTypeInv, RebuildTypeInv, TimeTypeInv DEF Next

\* Every variable keeps its type, and only moves ever have evidence that lapses.
THEOREM TypeCorrect == Spec => []TypeOK
<1>1. TypeInv => TypeOK
  BY DEF TypeInv
<1> QED  BY <1>1, InitTypeInv, NextTypeInv, PTL DEF Spec

-----------------------------------------------------------------------------
(* Decisions *)

LEMMA NextDecides ==
    ASSUME TypeInv, [Next]_vars, NEW m \in Messages, row[m] \in {"moved", "delivery"}
    PROVE  row'[m] = row[m]
<1>1. ASSUME NEW n \in Messages, Hold(n) PROVE row'[m] = row[m]
  BY <1>1 DEF Hold, TypeInv, TypeOK
<1>2. ASSUME FinalizeDue PROVE row'[m] = row[m]
  <2> DEFINE now == FirstBatch({n \in Eligible \cap fin.cutoff : left[n] = 0})
             moved == {n \in now : Explained(n)}
  <2>1. row' = [n \in Messages |-> IF n \in moved THEN "moved"
                                   ELSE IF n \in now THEN "delivery" ELSE row[n]]
    BY <1>2 DEF FinalizeDue
  <2>2. m \notin now
    BY DEF FirstBatch, Eligible, Pending
  <2> HIDE DEF now
  <2> QED  BY <2>1, <2>2
<1>3. CASE UNCHANGED row
  BY <1>3
<1>4. \/ UNCHANGED row \/ FinalizeDue \/ \E n \in Messages : Hold(n)
  BY DEF Next, Finalizer, Store, ScheduleInboxArrival, Checkpoint, CutShort, Reconcile, Fire,
         ListDue, ProbeMoves, RecordAbsent, DeferUnsure, ReadNext, Fail, Rearm, StartRebuild,
         FinishRebuild, ScheduleRestored, Crash, Restart, Tick, vars, rowVars
<1> QED  BY <1>1, <1>2, <1>3, <1>4

\* What an arrival was decided to be, a move or a delivery, it stays: no turn
\* that meets the message again and no later finalization changes it.
THEOREM DecisionsFinal == Spec => DecidedOnce
<1>1. TypeInv /\ [Next]_vars =>
        [\A m \in Messages : row[m] \in {"moved", "delivery"} => row'[m] = row[m]]_vars
  BY NextDecides
<1> QED  BY <1>1, InitTypeInv, NextTypeInv, PTL DEF Spec, DecidedOnce

-----------------------------------------------------------------------------
(* Nobody is forgotten *)

\* A row is watched without a timer: by the restart, the end of a rebuild, the
\* fetch of its message, or the finalizer.
Coming(m) == ~up \/ rebuilt \/ turn[m] \in {"stored", "held"}

\* The deadline the finalizer has read covers every row that no timer covers yet.
Rearmable ==
    fin.pc = "end" /\ ~fin.failed =>
        \A m \in Eligible : Coming(m) \/ due <= left[m] \/ fin.next <= left[m]

WatchInv == TypeInv /\ Watched /\ Rearmable

\* A row stays covered when neither it nor what covers it is worse off.
Kept(m) == m \in Eligible /\ ~Coming(m) /\ left'[m] = left[m] /\ due' <= due

LEMMA WatchKept ==
    ASSUME WatchInv, TypeInv', UNCHANGED fin,
           \A m \in Eligible' : Coming(m)' \/ due' <= left'[m] \/ Kept(m)
    PROVE  WatchInv'
<1>1. due \in Nat /\ due' \in Nat /\ fin.next \in Nat /\ RetryTime \in Nat
      /\ \A m \in Messages : left[m] \in Nat
  BY FinalizerFields, TimesAssumption DEF WatchInv, TypeInv, TypeOK, Never
<1>2. \A m \in Eligible : m \in Messages
  BY DEF Eligible, Pending
<1>3. Watched'
  <2> SUFFICES ASSUME NEW m \in Eligible', ~Coming(m)', fin.pc = "idle"
               PROVE  due' <= left'[m] \/ (fin.failed /\ due' <= RetryTime)
    BY DEF Watched, Coming
  <2>1. CASE Kept(m)
    <3>1. due <= left[m] \/ (fin.failed /\ due <= RetryTime)
      BY <2>1 DEF Kept, WatchInv, Watched, Coming
    <3> QED  BY <1>1, <1>2, <2>1, <3>1 DEF Kept
  <2> QED  BY <2>1
<1>4. Rearmable'
  <2> SUFFICES ASSUME fin.pc = "end", ~fin.failed, NEW m \in Eligible', ~Coming(m)'
               PROVE  due' <= left'[m] \/ fin.next <= left'[m]
    BY DEF Rearmable
  <2>1. CASE Kept(m)
    <3>1. due <= left[m] \/ fin.next <= left[m]
      BY <2>1 DEF Kept, WatchInv, Rearmable
    <3> QED  BY <1>1, <1>2, <2>1, <3>1 DEF Kept
  <2> QED  BY <2>1
<1> QED  BY <1>3, <1>4 DEF WatchInv

\* A step after which the finalizer is at work, or has failed, or the process is
\* down, needs no more than its types.
LEMMA WatchAtWork ==
    ASSUME TypeInv', \/ fin'.pc \notin {"idle", "end"}
                     \/ fin'.pc = "end" /\ fin'.failed
                     \/ fin'.pc = "idle" /\ ~up'
    PROVE  WatchInv'
  BY DEF WatchInv, Watched, Rearmable

LEMMA InitWatchInv == Init => WatchInv
<1>1. Init => Eligible = {}
  BY DEF Init, Eligible, Pending
<1> QED  BY <1>1, InitTypeInv DEF WatchInv, Watched, Rearmable

LEMMA SoonerLemma ==
    \A x, y \in Nat : Sooner(x, y) <= x /\ Sooner(x, y) <= y /\ Sooner(x, y) \in {x, y}
  BY DEF Sooner

\* The Inbox turn.
LEMMA TurnWatchInv ==
    ASSUME WatchInv, TypeInv', NEW m \in Messages,
           \/ Store(m) \/ Hold(m) \/ ScheduleInboxArrival(m)
           \/ Checkpoint(m) \/ CutShort(m) \/ Reconcile(m)
    PROVE  WatchInv'
<1> SUFFICES \A n \in Eligible' : Coming(n)' \/ due' <= left'[n] \/ Kept(n)
  BY WatchKept DEF Store, Hold, ScheduleInboxArrival, Checkpoint, CutShort, Reconcile
<1>1. /\ due \in Nat /\ \A n \in Messages : left[n] \in Nat
      /\ turn \in [Messages -> {"remote", "stored", "held", "recorded", "done"}]
      /\ row \in [Messages -> {"none", "pending", "moved", "delivery"}]
      /\ left \in [Messages -> 0..RetryTime]
  BY DEF WatchInv, TypeInv, TypeOK, Never
<1>2. \A n \in Eligible : n \in Messages
  BY DEF Eligible, Pending
<1>3. ASSUME NEW n \in Eligible', UNCHANGED <<up, rebuilt>>, Coming(n) => Coming(n)',
             n \in Eligible, left'[n] = left[n], due' = due
      PROVE  Coming(n)' \/ due' <= left'[n] \/ Kept(n)
  BY <1>1, <1>3 DEF Kept
<1>4. CASE Store(m) \/ Checkpoint(m) \/ CutShort(m) \/ Reconcile(m)
  <2>1. /\ UNCHANGED <<up, rebuilt, row, left, due, marker, restored>>
        /\ \/ turn' = turn
           \/ /\ turn[m] \in {"remote", "recorded"}
              /\ \E t \in {"stored", "done"} : turn' = [turn EXCEPT ![m] = t]
    BY <1>4 DEF Store, Checkpoint, CutShort, Reconcile, rowVars, rebuildVars
  <2>2. Eligible' = Eligible
    BY <2>1 DEF Eligible, Pending
  <2>3. \A n \in Eligible : Coming(n) => Coming(n)'
    BY <1>1, <1>2, <2>1 DEF Coming
  <2> QED  BY <1>3, <2>1, <2>2, <2>3
<1>5. CASE Hold(m)
  <2>1. /\ UNCHANGED <<up, rebuilt, due, marker, restored>>
        /\ row' = [row EXCEPT ![m] = row'[m]]
        /\ left' = [left EXCEPT ![m] = left'[m]]
        /\ turn' = [turn EXCEPT ![m] = IF row'[m] = "pending" THEN "held" ELSE "recorded"]
    BY <1>1, <1>5 DEF Hold, rebuildVars
  <2> SUFFICES ASSUME NEW n \in Eligible'
               PROVE  Coming(n)' \/ due' <= left'[n] \/ Kept(n)
    OBVIOUS
  <2>2. n \in Messages /\ row'[n] = "pending"
    BY DEF Eligible, Pending
  <2>3. CASE n = m
    BY <1>1, <2>1, <2>2, <2>3 DEF Coming
  <2>4. CASE n # m
    <3>1. row'[n] = row[n] /\ left'[n] = left[n] /\ turn'[n] = turn[n]
      BY <1>1, <2>1, <2>2, <2>4
    <3>2. n \in Eligible
      BY <2>1, <2>2, <3>1 DEF Eligible, Pending
    <3> QED  BY <1>3, <2>1, <3>1, <3>2 DEF Coming
  <2> QED  BY <2>3, <2>4
<1>6. CASE ScheduleInboxArrival(m)
  <2>1. /\ UNCHANGED <<up, rebuilt, row, left, marker, restored>>
        /\ turn' = [turn EXCEPT ![m] = "recorded"]
        /\ due' = Sooner(left[m], due)
    BY <1>6 DEF ScheduleInboxArrival, rowVars, rebuildVars
  <2>2. due' <= left[m] /\ due' <= due
    BY <1>1, <2>1, SoonerLemma
  <2> SUFFICES ASSUME NEW n \in Eligible'
               PROVE  Coming(n)' \/ due' <= left'[n] \/ Kept(n)
    OBVIOUS
  <2>3. n \in Eligible
    BY <2>1 DEF Eligible, Pending
  <2>4. CASE n = m
    BY <2>1, <2>2, <2>4
  <2>5. CASE n # m
    <3>1. Coming(n)' <=> Coming(n)
      BY <1>1, <1>2, <2>1, <2>3, <2>5 DEF Coming
    <3> QED  BY <2>1, <2>2, <2>3, <3>1 DEF Kept
  <2> QED  BY <2>4, <2>5
<1> QED  BY <1>4, <1>5, <1>6

\* The finalizer: it is answerable for every row until its last step, and that
\* one arms the timer for the earliest of what it has read and what came since.
LEMMA FinalizerWatchInv ==
    ASSUME WatchInv, TypeInv', Finalizer
    PROVE  WatchInv'
<1>0. fin \in FinalizerType
  BY DEF WatchInv, TypeInv, TypeOK
<1>1. CASE Fire
  <2>1. fin'.pc = "list"
    BY <1>1 DEF Fire, Idle
  <2> QED  BY <2>1, WatchAtWork
<1>2. CASE ListDue
  <2>1. fin'.pc \in {"commit", "probe"}
    BY <1>0, <1>2 DEF ListDue, FinalizerType
  <2> QED  BY <2>1, WatchAtWork
<1>3. CASE ProbeMoves
  <2>1. fin'.pc = "record"
    BY <1>0, <1>3 DEF ProbeMoves, FinalizerType
  <2> QED  BY <2>1, WatchAtWork
<1>4. CASE RecordAbsent
  <2>1. fin'.pc = "defer" \/ (fin'.pc = "end" /\ fin'.failed)
    BY <1>0, <1>4 DEF RecordAbsent, FinalizerType
  <2> QED  BY <2>1, WatchAtWork
<1>5. CASE DeferUnsure
  <2>1. fin'.pc = "commit"
    BY <1>0, <1>5 DEF DeferUnsure, FinalizerType
  <2> QED  BY <2>1, WatchAtWork
<1>6. CASE FinalizeDue
  <2>1. fin'.pc = "next"
    BY <1>0, <1>6 DEF FinalizeDue, FinalizerType
  <2> QED  BY <2>1, WatchAtWork
<1>7. CASE ReadNext
  <2>1. fin'.pc = "end" /\ fin'.next = NextDue
    BY <1>0, <1>7 DEF ReadNext, FinalizerType
  <2>2. UNCHANGED <<row, left, marker, restored>>
    BY <1>7 DEF ReadNext, rowVars, rebuildVars
  <2>3. Eligible' = Eligible
    BY <2>2 DEF Eligible, Pending
  <2>4. \A m \in Eligible : NextDue <= left[m]
    BY NextDueLemma DEF WatchInv, TypeInv, TypeOK
  <2> QED  BY <2>1, <2>2, <2>3, <2>4 DEF WatchInv, Watched, Rearmable
<1>8. CASE Fail
  <2>1. fin'.pc = "end" /\ fin'.failed
    BY <1>0, <1>8 DEF Fail, FinalizerType
  <2> QED  BY <2>1, WatchAtWork
<1>9. CASE Rearm
  <2> DEFINE armed == IF fin.failed THEN RetryTime ELSE fin.next
  <2>1. /\ fin.pc = "end" /\ due' = Sooner(due, armed)
        /\ fin'.pc = "idle" /\ fin'.failed = fin.failed
        /\ UNCHANGED <<up, rebuilt, turn, row, left, marker, restored>>
    BY <1>9 DEF Rearm, Idle, syncVars, rowVars, rebuildVars
  <2>2. due \in Nat /\ armed \in Nat /\ \A m \in Messages : left[m] \in Nat
    BY <1>0, FinalizerFields, TimesAssumption DEF WatchInv, TypeInv, TypeOK, Never
  <2>3. due' \in Nat /\ due' <= due /\ due' <= armed
    BY <2>1, <2>2, SoonerLemma
  <2>4. Eligible' = Eligible /\ Eligible \subseteq Messages
    BY <2>1 DEF Eligible, Pending
  <2>5. Watched'
    <3>1. CASE fin.failed
      BY <2>1, <2>3, <3>1 DEF Watched
    <3>2. CASE ~fin.failed
      <4> SUFFICES ASSUME NEW m \in Eligible, ~Coming(m) PROVE due' <= left[m]
        BY <2>1, <2>4 DEF Watched, Coming
      <4>1. due <= left[m] \/ fin.next <= left[m]
        BY <2>1, <3>2 DEF WatchInv, Rearmable
      <4>2. fin.next \in Nat /\ due' <= fin.next
        BY <2>2, <2>3, <3>2
      <4> QED  BY <2>2, <2>3, <2>4, <4>1, <4>2
    <3> QED  BY <3>1, <3>2
  <2> QED  BY <2>1, <2>5 DEF WatchInv, Rearmable
<1> QED  BY <1>1, <1>2, <1>3, <1>4, <1>5, <1>6, <1>7, <1>8, <1>9 DEF Finalizer

\* Rebuilds and a restart arm the timer for every row they set free.
LEMMA RebuildWatchInv ==
    ASSUME WatchInv, TypeInv', StartRebuild \/ FinishRebuild \/ ScheduleRestored \/ Restart
    PROVE  WatchInv'
<1> SUFFICES \A m \in Eligible' : Coming(m)' \/ due' <= left'[m] \/ Kept(m)
  BY WatchKept DEF StartRebuild, FinishRebuild, ScheduleRestored, Restart
<1>0. due \in Nat /\ NextDue \in Nat /\ \A m \in Eligible : left[m] \in Nat /\ NextDue <= left[m]
  <2>1. left \in [Messages -> 0..RetryTime] /\ due \in Nat
    BY DEF WatchInv, TypeInv, TypeOK
  <2> QED  BY <2>1, NextDueLemma DEF Eligible, Pending
<1>1. CASE StartRebuild
  <2>1. /\ marker = "none" /\ UNCHANGED <<up, rebuilt, turn, row, left, due>>
    BY <1>1 DEF StartRebuild, syncVars, rowVars
  <2>2. Eligible' \subseteq Eligible
    BY <2>1 DEF Eligible, Pending
  <2> QED  BY <1>0, <2>1, <2>2 DEF Kept, Coming
<1>2. CASE FinishRebuild
  BY <1>2 DEF FinishRebuild, Coming
<1>3. CASE ScheduleRestored \/ Restart
  <2>1. due' = Sooner(due, NextDue) \/ due' = NextDue
    BY <1>3 DEF ScheduleRestored, Restart
  <2>2. due' \in Nat /\ due' <= NextDue
    BY <1>0, <2>1, SoonerLemma
  <2>3. UNCHANGED <<row, left, marker, restored>>
    BY <1>3 DEF ScheduleRestored, Restart, rowVars, rebuildVars
  <2>4. Eligible' = Eligible
    BY <2>3 DEF Eligible, Pending
  <2> QED  BY <1>0, <2>2, <2>3, <2>4
<1> QED  BY <1>1, <1>2, <1>3

\* Time: a row and the timer that covers it come nearer together.
LEMMA TickWatchInv ==
    ASSUME WatchInv, TypeInv', Tick
    PROVE  WatchInv'
<1>1. /\ due # 0 /\ due' = (IF due = Never THEN Never ELSE due - 1)
      /\ left' = [m \in Messages |-> Countdown(left[m])]
      /\ fin.pc = "idle"
      /\ UNCHANGED <<up, rebuilt, turn, row, fin, marker, restored>>
  BY DEF Tick, syncVars, rebuildVars
<1>2. due \in 0..Never /\ RetryTime \in Nat /\ Never = RetryTime + 1
      /\ left \in [Messages -> 0..RetryTime]
  BY TimesAssumption DEF WatchInv, TypeInv, TypeOK, Never
<1>3. Eligible' = Eligible /\ Eligible \subseteq Messages
  BY <1>1 DEF Eligible, Pending
<1>4. Watched'
  <2> SUFFICES ASSUME NEW m \in Eligible, ~Coming(m)
               PROVE  due' <= left'[m] \/ (fin.failed /\ due' <= RetryTime)
    BY <1>1, <1>3 DEF Watched, Coming
  <2>1. left[m] \in 0..RetryTime /\ left'[m] = Countdown(left[m])
    BY <1>1, <1>2, <1>3
  <2>2. due <= left[m] \/ (fin.failed /\ due <= RetryTime)
    BY <1>1 DEF WatchInv, Watched, Coming
  <2>3. due' = due - 1
    BY <1>1, <1>2, <2>1, <2>2
  <2> QED  BY <1>1, <1>2, <2>1, <2>2, <2>3 DEF Countdown
<1> QED  BY <1>1, <1>4 DEF WatchInv, Rearmable

LEMMA NextWatchInv == WatchInv /\ [Next]_vars => WatchInv'
<1> SUFFICES ASSUME WatchInv, [Next]_vars PROVE WatchInv'
  OBVIOUS
<1>1. TypeInv'
  BY NextTypeInv DEF WatchInv
<1>2. CASE Crash
  <2>1. fin'.pc = "idle" /\ ~up'
    BY <1>2 DEF Crash, Idle
  <2> QED  BY <1>1, <2>1, WatchAtWork
<1>3. CASE UNCHANGED vars
  BY <1>1, <1>3 DEF WatchInv, Watched, Rearmable, Coming, Eligible, Pending,
                    vars, syncVars, rowVars, rebuildVars
<1> QED
  BY <1>1, <1>2, <1>3, TurnWatchInv, FinalizerWatchInv, RebuildWatchInv, TickWatchInv DEF Next

\* No arrival is left pending with nobody to come back to it, however often a
\* finalization fails, the process crashes, or folders are rebuilt: the timer is
\* due no later than each row, or whoever arms it is still at work.
THEOREM RowsWatched == Spec => []Watched
<1>1. WatchInv => Watched
  BY DEF WatchInv
<1> QED  BY <1>1, InitWatchInv, NextWatchInv, PTL DEF Spec

-----------------------------------------------------------------------------
(* No move is announced unproved *)

\* The evidence of a move was recorded, if only to expire.
Known(m) == evidence[m] # "none" \/ m \in lapsed

\* A source that was reconciled left evidence; evidence is used up by its move.
EvidenceKept ==
    \A m \in Moves :
        /\ source[m] # "gone" => Known(m)
        /\ evidence[m] = "expired" => m \in lapsed
        /\ evidence[m] = "used" => row[m] = "moved"

\* What the finalizer has learnt, from one of its transactions to the next, of
\* the rows it may decide: each was listed, its source asked about, and the
\* answer recorded or the row put off.
Asked ==
    /\ \A m \in fin.cutoff : row[m] # "none"
    /\ fin.pc \in {"probe", "record", "defer", "commit"} => fin.cutoff \cap Pending \subseteq fin.listed
    /\ fin.pc = "record" =>
          \A m \in fin.listed : m \in fin.unsure \/ m \in fin.absent \/ source[m] # "gone"
    /\ fin.pc = "defer" => \A m \in fin.listed \cap Moves : m \in fin.unsure \/ Known(m)
    /\ fin.pc = "commit" =>
          \A m \in fin.listed \cap Moves : row[m] = "pending" => left[m] > 0 \/ Known(m)

ProofInv == marker = "none" /\ EvidenceKept /\ Asked /\ AnnouncedUnproved

\* As long as no folder was rebuilt.
AnnounceInv == TypeInv /\ (rebuilds = 0 => ProofInv)

\* A batch that is large enough leaves no due row out.
LEMMA WholeBatch ==
    ASSUME Cardinality(Messages) <= Batch, NEW S \in SUBSET Messages
    PROVE  FirstBatch(S) = S
<1> SUFFICES ASSUME NEW m \in S  PROVE Cardinality({n \in S : n < m}) < Batch
  BY DEF FirstBatch
<1> DEFINE F == {n \in S : n < m}
<1>1. F \subseteq Messages /\ m \notin F /\ m \in Messages
  <2>1. m \in Messages /\ m \in Nat
    BY MessagesAssumption
  <2>2. ~(m < m)
    BY <2>1
  <2> QED  BY <2>1, <2>2
<1>2. IsFiniteSet(Messages) /\ IsFiniteSet(F)
  BY <1>1, MessagesAssumption, FS_Subset
<1>3. Cardinality(F) <= Cardinality(Messages) /\ (Cardinality(F) = Cardinality(Messages) => F = Messages)
  <2> HIDE DEF F
  <2> QED  BY <1>1, <1>2, FS_Subset
<1>4. Cardinality(F) \in Nat /\ Cardinality(Messages) \in Nat /\ Batch \in Nat
  BY <1>2, FS_CardinalityType, TimesAssumption
<1> HIDE DEF F
<1>5. Cardinality(F) < Batch
  BY <1>1, <1>3, <1>4
<1> QED  BY <1>5 DEF F

\* Evidence once recorded, or lapsed, stays known.
LEMMA RecordedKeeps ==
    ASSUME TypeInv, EvidenceKept, NEW S \in SUBSET Moves, Recorded(S), row' = row
    PROVE  /\ \A m \in Moves : Known(m) \/ m \in S => Known(m)'
           /\ \A m \in Moves : evidence'[m] = "expired" => m \in lapsed'
           /\ \A m \in Moves : evidence'[m] = "used" => row'[m] = "moved"
<1>1. Moves \subseteq Messages
  BY MessagesAssumption
<1> QED  BY <1>1 DEF Recorded, Known, EvidenceKept

LEMMA PrunedKeeps ==
    ASSUME EvidenceKept, NEW m \in Moves
    PROVE  /\ Known(m) => Pruned(evidence)[m] # "none" \/ m \in lapsed
           /\ Pruned(evidence)[m] # "expired"
           /\ Pruned(evidence)[m] = "used" => evidence[m] = "used"
           /\ Pruned(evidence)[m] # "none" => evidence[m] # "none"
BY MessagesAssumption DEF Pruned, Known, EvidenceKept

LEMMA InitAnnounceInv == Init => AnnounceInv
<1> SUFFICES ASSUME Init  PROVE AnnounceInv
  OBVIOUS
<1>1. TypeInv
  BY InitTypeInv
<1>2. fin.cutoff = {} /\ fin.pc = "idle"
  BY DEF Init, Idle
<1> QED
  BY <1>1, <1>2, MessagesAssumption
  DEF Init, AnnounceInv, ProofInv, EvidenceKept, Asked, AnnouncedUnproved

\* Steps of the Inbox turn and of the source's reconciliation.
LEMMA TurnProofInv ==
    ASSUME TypeInv, ProofInv, NEW m \in Messages,
           \/ Store(m) \/ Hold(m) \/ ScheduleInboxArrival(m)
           \/ Checkpoint(m) \/ CutShort(m) \/ Reconcile(m)
    PROVE  ProofInv'
<1> USE MessagesAssumption
<1>1. fin' = fin /\ marker' = marker /\ lapsed' = lapsed /\ rebuilds' = rebuilds
  BY DEF Store, Hold, ScheduleInboxArrival, Checkpoint, CutShort, Reconcile, rowVars, rebuildVars,
         bounds, Recorded
<1>2. CASE UNCHANGED <<row, left, source, evidence>>
  BY <1>1, <1>2 DEF ProofInv, EvidenceKept, Asked, AnnouncedUnproved, Known, Pending
<1>3. CASE Reconcile(m)
  <2>1. /\ UNCHANGED <<row, left>> /\ Recorded({m}) /\ {m} \subseteq Moves
        /\ source' = [source EXCEPT ![m] = "reconciled"]
    BY <1>3 DEF Reconcile, TypeInv, Unmoved
  <2>2. /\ \A n \in Moves : Known(n) \/ n = m => Known(n)'
        /\ \A n \in Moves : evidence'[n] = "expired" => n \in lapsed'
        /\ \A n \in Moves : evidence'[n] = "used" => row'[n] = "moved"
    BY <2>1, RecordedKeeps DEF ProofInv
  <2>3. EvidenceKept'
    BY <2>1, <2>2 DEF ProofInv, EvidenceKept, TypeInv, TypeOK
  <2>4. \A n \in Messages : source[n] # "gone" => source'[n] # "gone"
    BY <2>1 DEF TypeInv, TypeOK
  <2>5. fin.listed \subseteq Messages
    BY FinalizerFields DEF TypeInv, TypeOK
  <2>6. Asked'
    BY <1>1, <2>1, <2>2, <2>4, <2>5 DEF ProofInv, Asked, Pending
  <2> QED  BY <1>1, <2>1, <2>3, <2>6 DEF ProofInv, AnnouncedUnproved
<1>4. CASE Hold(m)
  <2> DEFINE open == row[m] \in {"none", "pending"}
             moved == open /\ Explained(m)
  <2>1. /\ row' = [row EXCEPT ![m] = IF moved THEN "moved" ELSE IF open THEN "pending" ELSE @]
        /\ evidence' = IF moved THEN [Pruned(evidence) EXCEPT ![m] = "used"] ELSE Pruned(evidence)
        /\ left' = [left EXCEPT ![m] = IF row[m] = "none" THEN HoldTime ELSE @]
        /\ source' = source
    BY <1>4 DEF Hold
  <2>2. row \in [Messages -> {"none", "pending", "moved", "delivery"}] /\ left \in [Messages -> 0..RetryTime]
    BY DEF TypeInv, TypeOK
  <2>3. /\ moved => row'[m] = "moved"
        /\ ~open => row'[m] = row[m]
        /\ open /\ ~moved => row'[m] = "pending"
        /\ \A n \in Messages \ {m} : row'[n] = row[n] /\ left'[n] = left[n]
    BY <2>1, <2>2
  <2>4. Pruned(evidence) \in [Messages -> Evidence]
    BY PrunedType
  <2>5. /\ moved => evidence'[m] = "used"
        /\ \A n \in Messages : n # m \/ ~moved => evidence'[n] = Pruned(evidence)[n]
    BY <2>1, <2>4
  <2> HIDE DEF moved, open
  <2>6. \A n \in Moves : Known(n) => Known(n)'
    BY <1>1, <2>5, PrunedKeeps DEF Known, ProofInv
  <2>7. EvidenceKept'
    <3> SUFFICES ASSUME NEW n \in Moves
                 PROVE  /\ source'[n] # "gone" => Known(n)'
                        /\ evidence'[n] = "expired" => n \in lapsed'
                        /\ evidence'[n] = "used" => row'[n] = "moved"
      BY DEF EvidenceKept
    <3>1. source'[n] # "gone" => Known(n)'
      BY <2>1, <2>6 DEF ProofInv, EvidenceKept
    <3>2. evidence'[n] # "expired"
      BY <2>5, PrunedKeeps DEF ProofInv
    <3>3. evidence'[n] = "used" => row'[n] = "moved"
      <4>1. CASE moved /\ n = m
        BY <2>3, <4>1
      <4>2. CASE ~(moved /\ n = m)
        <5>1. evidence'[n] = "used" => row[n] = "moved"
          BY <2>5, <4>2, PrunedKeeps DEF ProofInv, EvidenceKept
        <5>2. row[n] = "moved" => row'[n] = "moved"
          BY <2>3 DEF open
        <5> QED  BY <5>1, <5>2
      <4> QED  BY <4>1, <4>2
    <3> QED  BY <3>1, <3>2, <3>3
  <2>8. \A n \in Messages : /\ row[n] # "none" => row'[n] # "none"
                            /\ row[n] # "none" /\ row'[n] = "pending" => row[n] = "pending"
                            /\ row[n] # "none" => left'[n] = left[n]
                            /\ row'[n] = "delivery" => row[n] = "delivery"
    BY <2>1, <2>2, <2>3 DEF open
  <2>9. fin.cutoff \subseteq Messages /\ fin.listed \subseteq Messages
    BY FinalizerFields DEF TypeInv, TypeOK
  <2>10. Asked'
    <3>1. \A n \in fin.cutoff : row'[n] # "none"
      BY <2>8, <2>9 DEF ProofInv, Asked
    <3>2. fin.cutoff \cap Pending' \subseteq fin.cutoff \cap Pending
      BY <2>8, <2>9 DEF ProofInv, Asked, Pending
    <3>3. \A n \in Messages : row'[n] = "pending" /\ row[n] # "pending" => left'[n] > 0
      BY <2>1, <2>2, <2>3, <2>8, TimesAssumption DEF open
    <3>4. ASSUME fin.pc = "commit", NEW n \in fin.listed \cap Moves, row'[n] = "pending"
          PROVE  left'[n] > 0 \/ Known(n)'
      <4>1. CASE row[n] = "pending"
        BY <2>6, <2>8, <2>9, <3>4, <4>1 DEF ProofInv, Asked
      <4>2. CASE row[n] # "pending"
        BY <2>9, <3>3, <3>4, <4>2
      <4> QED  BY <4>1, <4>2
    <3>5. fin.pc = "defer" => \A n \in fin.listed \cap Moves : n \in fin.unsure \/ Known(n)'
      BY <2>6 DEF ProofInv, Asked
    <3> QED  BY <1>1, <2>1, <3>1, <3>2, <3>4, <3>5 DEF ProofInv, Asked
  <2>11. AnnouncedUnproved'
    BY <1>1, <2>8 DEF ProofInv, AnnouncedUnproved
  <2> QED  BY <1>1, <2>7, <2>10, <2>11 DEF ProofInv
<1>5. Store(m) \/ ScheduleInboxArrival(m) \/ Checkpoint(m) \/ CutShort(m) => UNCHANGED <<row, left, source, evidence>>
  BY DEF Store, ScheduleInboxArrival, Checkpoint, CutShort, rowVars
<1> QED  BY <1>2, <1>3, <1>4, <1>5

\* The finalizer asks about each row it lists, and decides none it has not listed.
LEMMA FinalizerProofInv ==
    ASSUME TypeInv, ProofInv, Cardinality(Messages) <= Batch, Finalizer
    PROVE  ProofInv'
<1> USE MessagesAssumption
<1>0. /\ fin \in FinalizerType /\ marker' = marker /\ source' = source /\ lapsed' = lapsed
      /\ rebuilds' = rebuilds /\ Eligible = Pending
      /\ fin.cutoff \subseteq Messages /\ fin.listed \subseteq Messages
  <2>1. fin \in FinalizerType
    BY DEF TypeInv, TypeOK
  <2>2. Eligible = Pending
    BY DEF ProofInv, Eligible
  <2>3. marker' = marker /\ source' = source /\ lapsed' = lapsed /\ rebuilds' = rebuilds
    BY DEF Finalizer, Fire, ListDue, ProbeMoves, RecordAbsent, DeferUnsure, FinalizeDue, ReadNext,
           Fail, Rearm, syncVars, rowVars, rebuildVars, bounds, Recorded
  <2> QED  BY <2>1, <2>2, <2>3, FinalizerFields
<1>1. ASSUME UNCHANGED <<row, evidence>>
      PROVE  EvidenceKept' /\ AnnouncedUnproved'
  BY <1>0, <1>1 DEF ProofInv, EvidenceKept, AnnouncedUnproved, Known
<1>2. CASE Fire
  <2> DEFINE D == {m \in Pending : left[m] = 0}
  <2>1. fin' = [[Idle EXCEPT !.pc = "list"] EXCEPT !.cutoff = D] /\ UNCHANGED <<row, evidence, left>>
    BY <1>2 DEF Fire, rowVars
  <2>2. fin'.pc = "list" /\ fin'.cutoff = D
    BY <2>1 DEF Idle
  <2>3. \A m \in D : row[m] # "none"
    BY DEF Pending
  <2> HIDE DEF D
  <2>4. Asked'
    BY <2>1, <2>2, <2>3 DEF Asked
  <2> QED  BY <1>0, <1>1, <2>1, <2>4 DEF ProofInv
<1>3. CASE ListDue
  <2> DEFINE L == FirstBatch(Eligible \cap fin.cutoff)
             p == IF L = {} THEN "commit" ELSE "probe"
  <2>1. fin' = [[fin EXCEPT !.listed = L] EXCEPT !.pc = p] /\ UNCHANGED <<row, evidence, left>>
    BY <1>3 DEF ListDue, rowVars
  <2>2. L = Pending \cap fin.cutoff
    BY <1>0, WholeBatch
  <2> HIDE DEF L
  <2>3. fin'.listed = L /\ fin'.pc = p /\ fin'.cutoff = fin.cutoff
    BY <1>0, <2>1 DEF FinalizerType
  <2>4. p = "commit" => L = {}
    OBVIOUS
  <2>5. p \in {"commit", "probe"}
    OBVIOUS
  <2> HIDE DEF p
  <2>6. Pending' = Pending
    BY <2>1 DEF Pending
  <2>7. Asked'
    BY <2>1, <2>2, <2>3, <2>4, <2>5, <2>6 DEF Asked, ProofInv
  <2> QED  BY <1>0, <1>1, <2>1, <2>7 DEF ProofInv
<1>4. CASE ProbeMoves
  <2>1. PICK unsure \in SUBSET fin.listed :
             fin' = [fin EXCEPT !.unsure = unsure, !.pc = "record",
                       !.absent = {m \in fin.listed \ unsure : source[m] = "gone"}]
    BY <1>4 DEF ProbeMoves
  <2> DEFINE gone == {m \in fin.listed \ unsure : source[m] = "gone"}
  <2>2. /\ fin'.listed = fin.listed /\ fin'.cutoff = fin.cutoff /\ fin'.pc = "record"
        /\ fin'.unsure = unsure /\ fin'.absent = gone
    BY <1>0, <2>1 DEF FinalizerType
  <2>3. UNCHANGED <<row, evidence, left>> /\ fin.pc = "probe"
    BY <1>4 DEF ProbeMoves, rowVars
  <2>4. Pending' = Pending
    BY <2>3 DEF Pending
  <2>5. Asked'
    BY <1>0, <2>2, <2>3, <2>4 DEF Asked, ProofInv
  <2> QED  BY <1>0, <1>1, <2>3, <2>5 DEF ProofInv
<1>5. CASE RecordAbsent
  <2> DEFINE missing == {m \in fin.absent : source[m] = "reconciled"}
             S == {m \in fin.absent : \A n \in missing : m < n}
  <2>1. /\ Recorded(S) /\ UNCHANGED <<row, left>> /\ fin.pc = "record"
        /\ \/ missing = {} /\ fin' = [fin EXCEPT !.pc = "defer"]
           \/ fin' = [[fin EXCEPT !.pc = "end"] EXCEPT !.failed = TRUE]
    BY <1>5 DEF RecordAbsent
  <2>2. S \in SUBSET Moves
    BY AbsentAreMoves
  <2>3. missing = {} => S = fin.absent
    OBVIOUS
  <2> HIDE DEF S, missing
  <2>4. /\ \A m \in Moves : Known(m) \/ m \in S => Known(m)'
        /\ \A m \in Moves : evidence'[m] = "expired" => m \in lapsed'
        /\ \A m \in Moves : evidence'[m] = "used" => row'[m] = "moved"
    BY <2>1, <2>2, RecordedKeeps DEF ProofInv
  <2>5. EvidenceKept' /\ AnnouncedUnproved'
    BY <1>0, <2>1, <2>4 DEF EvidenceKept, AnnouncedUnproved, ProofInv
  <2>6. /\ fin'.listed = fin.listed /\ fin'.cutoff = fin.cutoff /\ fin'.unsure = fin.unsure
        /\ fin'.absent = fin.absent
        /\ (fin'.pc = "defer" /\ missing = {}) \/ fin'.pc = "end"
    BY <1>0, <2>1 DEF FinalizerType
  <2>7. \A m \in fin.listed \cap Moves : m \in fin.unsure \/ m \in fin.absent \/ Known(m)
    BY <2>1 DEF Asked, ProofInv, EvidenceKept
  <2>8. Pending' = Pending
    BY <2>1 DEF Pending
  <2>9. fin'.pc = "defer" => \A m \in fin'.listed \cap Moves : m \in fin'.unsure \/ Known(m)'
    BY <2>3, <2>4, <2>6, <2>7
  <2>10. Asked'
    BY <2>1, <2>6, <2>8, <2>9 DEF Asked, ProofInv
  <2> QED  BY <1>0, <2>5, <2>10 DEF ProofInv
<1>6. CASE DeferUnsure
  <2>1. /\ left' = [m \in Messages |-> IF m \in fin.unsure \cap Pending THEN RetryTime ELSE left[m]]
        /\ fin' = [fin EXCEPT !.pc = "commit"] /\ UNCHANGED <<row, evidence>> /\ fin.pc = "defer"
    BY <1>6 DEF DeferUnsure
  <2>2. /\ fin'.listed = fin.listed /\ fin'.cutoff = fin.cutoff /\ fin'.pc = "commit"
    BY <1>0, <2>1 DEF FinalizerType
  <2>3. ASSUME NEW m \in fin.listed \cap Moves, row[m] = "pending"
        PROVE  left'[m] > 0 \/ Known(m)
    <3>1. m \in fin.unsure => left'[m] = RetryTime
      BY <1>0, <2>1, <2>3 DEF Pending
    <3>2. RetryTime > 0
      BY TimesAssumption
    <3> QED  BY <2>1, <2>3, <3>1, <3>2 DEF Asked, ProofInv
  <2>4. Pending' = Pending /\ \A m : Known(m)' <=> Known(m)
    BY <1>0, <2>1 DEF Pending, Known
  <2>5. Asked'
    BY <2>1, <2>2, <2>3, <2>4 DEF Asked, ProofInv
  <2> QED  BY <1>0, <1>1, <2>1, <2>5 DEF ProofInv
<1>7. CASE FinalizeDue
  <2> DEFINE D == {m \in Eligible \cap fin.cutoff : left[m] = 0}
             now == FirstBatch(D)
             moved == {m \in now : Explained(m)}
  <2>1. /\ row' = [m \in Messages |-> IF m \in moved THEN "moved"
                                        ELSE IF m \in now THEN "delivery" ELSE row[m]]
        /\ evidence' = [m \in Messages |-> IF m \in moved THEN "used" ELSE Pruned(evidence)[m]]
        /\ fin' = [fin EXCEPT !.pc = "next"] /\ fin.pc = "commit"
    BY <1>7 DEF FinalizeDue
  <2>2. now = D /\ D \subseteq Pending \cap fin.cutoff /\ (\A m \in D : left[m] = 0)
    <3>1. D \in SUBSET Messages
      BY <1>0
    <3> HIDE DEF D
    <3>2. now = D
      BY <3>1, WholeBatch
    <3> QED  BY <1>0, <3>2 DEF D
  <2>3. moved \subseteq now /\ \A m \in now \ moved : ~Explained(m)
    OBVIOUS
  <2> HIDE DEF moved, now, D
  <2>4. /\ \A m \in moved : m \in Messages => row'[m] = "moved" /\ evidence'[m] = "used"
        /\ \A m \in Messages \ moved : evidence'[m] = Pruned(evidence)[m]
        /\ \A m \in Messages \ moved : m \in now => row'[m] = "delivery"
        /\ \A m \in Messages \ now : row'[m] = row[m]
    BY <2>1, <2>3
  <2>5. fin'.cutoff = fin.cutoff /\ fin'.pc = "next"
    BY <1>0, <2>1 DEF FinalizerType
  <2>6. \A m \in now : row[m] = "pending"
    BY <2>2 DEF Pending
  <2>7. \A m \in fin.cutoff : row'[m] # "none"
    BY <1>0, <2>3, <2>4 DEF Asked, ProofInv
  <2>8. Asked'
    BY <2>5, <2>7 DEF Asked
  <2>9. EvidenceKept'
    <3> SUFFICES ASSUME NEW m \in Moves
                 PROVE  /\ source'[m] # "gone" => Known(m)'
                        /\ evidence'[m] = "expired" => m \in lapsed'
                        /\ evidence'[m] = "used" => row'[m] = "moved"
      BY DEF EvidenceKept
    <3>1. CASE m \in moved
      BY <2>4, <3>1 DEF Known
    <3>2. CASE m \notin moved
      <4>1. evidence'[m] = Pruned(evidence)[m]
        BY <2>4, <3>2
      <4>2. evidence'[m] # "expired" /\ (Known(m) => Known(m)') /\ (evidence'[m] = "used" => evidence[m] = "used")
        BY <1>0, <4>1, PrunedKeeps DEF ProofInv, Known
      <4>3. evidence'[m] = "used" => row[m] = "moved" /\ m \notin now
        BY <2>6, <4>2 DEF ProofInv, EvidenceKept
      <4> QED  BY <1>0, <2>4, <4>2, <4>3 DEF ProofInv, EvidenceKept
    <3> QED  BY <3>1, <3>2
  <2>10. ASSUME NEW m \in Moves, row'[m] = "delivery", rebuilds = 0
         PROVE  m \in lapsed
    <3>1. CASE m \notin now
      BY <2>4, <2>10, <3>1 DEF ProofInv, AnnouncedUnproved
    <3>2. CASE m \in now
      <4>1. m \notin moved
        BY <2>4, <2>10
      <4>2. ~Explained(m) /\ row[m] = "pending" /\ left[m] = 0 /\ m \in fin.listed
        BY <2>1, <2>2, <2>3, <2>6, <3>2, <4>1 DEF ProofInv, Asked
      <4>3. Known(m)
        BY <2>1, <4>2 DEF ProofInv, Asked
      <4>4. evidence[m] \in Evidence
        BY DEF TypeInv, TypeOK, Evidence
      <4> QED  BY <4>2, <4>3, <4>4 DEF Known, Explained, Evidence, ProofInv, EvidenceKept
    <3> QED  BY <3>1, <3>2
  <2>11. AnnouncedUnproved'
    BY <1>0, <1>7, <2>10 DEF AnnouncedUnproved, FinalizeDue, bounds
  <2> QED  BY <1>0, <2>8, <2>9, <2>11 DEF ProofInv
<1>8. CASE ReadNext \/ Fail
  <2>1. fin'.cutoff = fin.cutoff /\ fin'.pc = "end" /\ UNCHANGED <<row, evidence>>
    <3>1. UNCHANGED <<row, evidence>>
      BY <1>8 DEF ReadNext, Fail, rowVars
    <3>2. CASE ReadNext
      BY <1>0, <3>2, <3>1 DEF ReadNext, FinalizerType
    <3>3. CASE Fail
      BY <1>0, <3>3, <3>1 DEF Fail, FinalizerType
    <3> QED  BY <1>8, <3>2, <3>3
  <2>2. Asked'
    BY <2>1 DEF ProofInv, Asked
  <2> QED  BY <1>0, <1>1, <2>1, <2>2 DEF ProofInv
<1>9. CASE Rearm
  <2>1. fin'.cutoff = {} /\ fin'.pc = "idle" /\ UNCHANGED <<row, evidence>>
    BY <1>9 DEF Rearm, Idle, rowVars
  <2>2. Asked'
    BY <2>1 DEF Asked
  <2> QED  BY <1>0, <1>1, <2>1, <2>2 DEF ProofInv
<1> QED  BY <1>2, <1>3, <1>4, <1>5, <1>6, <1>7, <1>8, <1>9 DEF Finalizer

\* Crashes and time: nothing ticks while the finalizer is at work.
LEMMA TimeProofInv ==
    ASSUME TypeInv, ProofInv, Crash \/ Restart \/ Tick \/ ScheduleRestored
    PROVE  ProofInv'
<1> USE MessagesAssumption
<1>1. CASE Restart \/ ScheduleRestored
  <2>1. UNCHANGED <<row, left, source, evidence, lapsed, fin, marker, rebuilds>>
    BY <1>1 DEF Restart, ScheduleRestored, syncVars, rowVars, rebuildVars, bounds
  <2> QED
    BY <2>1 DEF ProofInv, EvidenceKept, Asked, AnnouncedUnproved, Known, Pending
<1>2. CASE Crash
  <2>1. /\ UNCHANGED <<row, left, source, evidence, lapsed, marker, rebuilds>>
        /\ fin'.cutoff = {} /\ fin'.pc = "idle"
    BY <1>2 DEF Crash, Idle, rowVars
  <2> QED
    BY <2>1 DEF ProofInv, EvidenceKept, Asked, AnnouncedUnproved, Known
<1>3. CASE Tick
  <2>1. UNCHANGED <<row, source, fin, marker, rebuilds>> /\ fin.pc = "idle"
    BY <1>3 DEF Tick, syncVars, rebuildVars, bounds
  <2> DEFINE expiring == {m \in Messages : evidence[m] = "fresh" /\ evidenceLeft[m] = 1}
  <2>2. /\ evidence' = [m \in Messages |-> IF m \in expiring THEN "expired" ELSE evidence[m]]
        /\ lapsed' = lapsed \cup expiring
    BY <1>3 DEF Tick
  <2> HIDE DEF expiring
  <2>3. EvidenceKept' /\ AnnouncedUnproved'
    BY <2>1, <2>2 DEF ProofInv, EvidenceKept, AnnouncedUnproved, Known
  <2> QED  BY <2>1, <2>3 DEF ProofInv, Asked
<1> QED  BY <1>1, <1>2, <1>3

LEMMA NextAnnounceInv ==
    ASSUME Cardinality(Messages) <= Batch, AnnounceInv, [Next]_vars
    PROVE  AnnounceInv'
<1>1. TypeInv /\ TypeInv'
  BY NextTypeInv DEF AnnounceInv
<1>2. SUFFICES ASSUME rebuilds' = 0  PROVE ProofInv'
  BY <1>1 DEF AnnounceInv
<1>3. ~StartRebuild /\ rebuilds = 0
  <2>1. rebuilds \in Nat
    BY LimitsAssumption DEF AnnounceInv, TypeInv, TypeOK
  <2>2. ~StartRebuild
    BY <1>2, <2>1 DEF StartRebuild
  <2>3. CASE Next
    <3>1. rebuilds' = rebuilds
      BY <2>2, <2>3
      DEF Next, Finalizer, Store, Hold, ScheduleInboxArrival, Checkpoint, CutShort, Reconcile, Fire,
          ListDue, ProbeMoves, RecordAbsent, DeferUnsure, FinalizeDue, ReadNext, Fail, Rearm,
          FinishRebuild, ScheduleRestored, Crash, Restart, Tick, bounds
    <3> QED  BY <1>2, <2>2, <3>1
  <2>4. CASE UNCHANGED vars
    BY <1>2, <2>2, <2>4 DEF vars, bounds
  <2> QED  BY <2>3, <2>4
<1>4. ProofInv
  BY <1>3 DEF AnnounceInv
<1>5. ~FinishRebuild
  BY <1>4 DEF ProofInv, FinishRebuild
<1>6. CASE UNCHANGED vars
  BY <1>4, <1>6
  DEF vars, syncVars, rowVars, rebuildVars, bounds, ProofInv, EvidenceKept, Asked, AnnouncedUnproved,
      Known, Pending
<1> QED
  BY <1>1, <1>3, <1>4, <1>5, <1>6, TurnProofInv, FinalizerProofInv, TimeProofInv DEF Next

\* If a batch holds every due row, a message moved in by another client is
\* announced as new mail only after its evidence expired: errors, crashes and
\* unanswered questions, in any number, never make the finalizer decide a row it
\* has not asked about.  Without the hypothesis it does (run arrivals_batch).
THEOREM MovesProved ==
    ASSUME Cardinality(Messages) <= Batch
    PROVE  Spec => []AnnouncedUnproved
<1>1. Init => AnnounceInv
  BY InitAnnounceInv
<1>2. AnnounceInv /\ [Next]_vars => AnnounceInv'
  BY NextAnnounceInv
<1>3. AnnounceInv => AnnouncedUnproved
  BY DEF AnnounceInv, ProofInv, AnnouncedUnproved
<1> QED  BY <1>1, <1>2, <1>3, PTL DEF Spec

==============================================================================
