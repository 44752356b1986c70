----------------------------- MODULE MCScheduling -----------------------------
(****************************************************************************)
(* The two that decide who may write, the index (BleveWriteCoordinator) and  *)
(* a tenant's mirror (SyncRunner).  They share no state: each is checked     *)
(* alone, and a behaviour belongs to one of them, its part.  The runner has  *)
(* two: "runner" with the work derived from mail, and "turns", more requests *)
(* without it, in which foreground callers come back while jobs they         *)
(* preempted are repeated.                                                   *)
(****************************************************************************)
EXTENDS MCBleveWriteCoordinator, MCSyncRunner

CONSTANT MaxTurns   \* bound: requests and faults in the part "turns", together

VARIABLE part

Turns == INSTANCE SyncRunner WITH MaxRequests <- MaxTurns, DerivedWork <- FALSE

\* In it one account, whichever it is, asks for its folder; passes are started,
\* and foreground operations come and come again.
OneKey == CHOOSE k \in AccountKeys : TRUE
Requesting ==
    \/ Turns!QueueAccountMailboxes(OneKey)
    \/ Turns!Start
    \/ \E x \in Foregrounds :
          \/ Turns!GiveUpForeground(x)
          \/ fgPc[x] = "idle" /\ Turns!BeginForeground(x)

scheduling == <<writesVars, vars, part>>

SchedulingInit ==
    /\ part \in {"writes", "runner", "turns"}
    /\ WritesInit
    /\ IF part = "turns" THEN Turns!Init ELSE Init

SchedulingNext ==
    \/ part = "writes" /\ WritesNext /\ UNCHANGED <<vars, part>>
    \/ part = "runner" /\ Next /\ UNCHANGED <<writesVars, part>>
    \/ part = "turns" /\ (Requesting \/ Turns!Progress) /\ UNCHANGED <<writesVars, part>>

(* That of the coordinator, and of the goroutines of the runner in its parts. *)
SchedulingFairness ==
    /\ WritesFairness
    /\ WF_vars(part = "runner" /\ Progress)
    /\ WF_vars(part = "turns" /\ Turns!Progress)

SchedulingSpec == SchedulingInit /\ [][SchedulingNext]_scheduling /\ SchedulingFairness
===============================================================================
