---------------------------- MODULE MirrorAccess ----------------------------
(****************************************************************************)
(* What backend/syncer/runner.go promises about one tenant's mail mirror:    *)
(* who writes it beside whom, with nothing of how this comes about: no       *)
(* reservations, phases, cancellations, channels, or queues of what was      *)
(* refused.  A job writes one folder, of one account or of all.  A           *)
(* foreground operation keeps new work out from when its barrier is raised,  *)
(* and is let in when nobody writes.  The sender statistics and the          *)
(* attachment index are built when the tenant is idle.                       *)
(****************************************************************************)
CONSTANTS Accounts, AllAccounts, Mailboxes, Foregrounds, None

VARIABLES
    writers,       \* jobs that sync or maintain a folder
    rebuilders,    \* jobs that rebuild a folder's search documents only
    passing,       \* an account-wide pass is under way
    asking,        \* foreground operations that asked and are not let in
    barrier,       \* the one that keeps new work out, or None
    inside,        \* those let in
    refreshing,    \* the sender statistics are being computed
    indexing       \* attachments are being indexed

jobs       == <<writers, rebuilders>>
foreground == <<asking, barrier, inside>>
derived    == <<refreshing, indexing>>
access     == <<jobs, passing, foreground, derived>>

Jobs == (Accounts \cup {AllAccounts}) \X Mailboxes

\* Both may write the same folder of the same account.
Overlap(j, k) == j[2] = k[2] /\ (j[1] = k[1] \/ AllAccounts \in {j[1], k[1]})

Init ==
    /\ writers = {} /\ rebuilders = {} /\ passing = FALSE
    /\ asking = {} /\ barrier = None /\ inside = {}
    /\ refreshing = FALSE /\ indexing = FALSE

\* New work is admitted beside neither a refresh nor a barrier.
Admits    == ~refreshing /\ barrier = None
FreeOf(j) == \A k \in writers \cup rebuilders : ~Overlap(j, k)
Idle      == barrier = None /\ writers \cup rebuilders = {} /\ ~passing

BeginJob(j) ==
    /\ Admits /\ FreeOf(j)
    /\ \/ writers' = writers \cup {j} /\ UNCHANGED rebuilders
       \/ rebuilders' = rebuilders \cup {j} /\ UNCHANGED writers
    /\ UNCHANGED <<passing, foreground, derived>>

EndJob(j) ==
    /\ j \in writers \cup rebuilders
    /\ writers' = writers \ {j} /\ rebuilders' = rebuilders \ {j}
    /\ UNCHANGED <<passing, foreground, derived>>

BeginPass ==
    /\ Admits /\ ~passing /\ passing' = TRUE
    /\ UNCHANGED <<jobs, foreground, derived>>

EndPass ==
    /\ passing /\ passing' = FALSE
    /\ UNCHANGED <<jobs, foreground, derived>>

\* The barrier goes up at once when there is none, whatever is at work.
Ask(f) ==
    /\ f \notin asking \cup inside
    /\ asking' = asking \cup {f}
    /\ barrier' = IF barrier = None THEN f ELSE barrier
    /\ UNCHANGED <<jobs, passing, inside, derived>>

Raise(f) ==
    /\ f \in asking /\ barrier = None /\ barrier' = f
    /\ UNCHANGED <<jobs, passing, asking, inside, derived>>

\* The barrier of one that gives up stays until it is lowered.
GiveUp(f) ==
    /\ f \in asking /\ asking' = asking \ {f}
    /\ UNCHANGED <<jobs, passing, barrier, inside, derived>>

Enter(f) ==
    /\ f \in asking /\ barrier = f
    /\ writers = {} /\ ~refreshing /\ ~indexing
    /\ asking' = asking \ {f} /\ inside' = inside \cup {f}
    /\ UNCHANGED <<jobs, passing, barrier, derived>>

Lower(f) ==
    /\ barrier = f /\ f \notin asking
    /\ barrier' = None /\ inside' = inside \ {f}
    /\ UNCHANGED <<jobs, passing, asking, derived>>

Refresh ==
    /\ refreshing \/ (Idle /\ ~indexing)
    /\ refreshing' = ~refreshing
    /\ UNCHANGED <<jobs, passing, foreground, indexing>>

Index ==
    /\ indexing \/ (Idle /\ ~refreshing)
    /\ indexing' = ~indexing
    /\ UNCHANGED <<jobs, passing, foreground, refreshing>>

Next ==
    \/ \E j \in Jobs : BeginJob(j) \/ EndJob(j)
    \/ BeginPass \/ EndPass
    \/ \E f \in Foregrounds : Ask(f) \/ Raise(f) \/ GiveUp(f) \/ Enter(f) \/ Lower(f)
    \/ Refresh \/ Index

Spec == Init /\ [][Next]_access

\* Nobody writes the mirror beside one who must have it alone.
MirrorExclusive ==
    /\ \A j, k \in writers \cup rebuilders : Overlap(j, k) => j = k
    /\ writers \cap rebuilders = {}
    /\ inside # {} => inside = {barrier} /\ writers = {} /\ ~refreshing /\ ~indexing
    /\ refreshing => writers \cup rebuilders = {} /\ ~passing /\ ~indexing
=============================================================================
