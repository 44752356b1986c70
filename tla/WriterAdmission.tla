--------------------------- MODULE WriterAdmission ---------------------------
(****************************************************************************)
(* What the Bleve write coordinator promises to those who call Acquire,     *)
(* with nothing of how it does it: no queue, no priorities, no mutex, no    *)
(* channel and no counters.  A writer asks, is admitted while a slot is     *)
(* free and no other writer of its tenant is inside, and leaves.  It may    *)
(* also stop asking.                                                        *)
(****************************************************************************)
EXTENDS Integers, FiniteSets

CONSTANTS Writers, Tenants, TenantOf, Slots

VARIABLES
    asking,        \* writers that asked and are not admitted
    admitted       \* writers that may commit

Init == asking = {} /\ admitted = {}

Ask(w) ==
    /\ w \notin asking \cup admitted
    /\ asking' = asking \cup {w}
    /\ UNCHANGED admitted

\* The slots are counted when a writer is admitted, never afterwards.
Admit(w) ==
    /\ w \in asking
    /\ Cardinality(admitted) < Slots
    /\ \A v \in admitted : TenantOf[v] # TenantOf[w]
    /\ asking' = asking \ {w}
    /\ admitted' = admitted \cup {w}

Withdraw(w) ==
    /\ w \in asking
    /\ asking' = asking \ {w}
    /\ UNCHANGED admitted

Leave(w) ==
    /\ w \in admitted
    /\ admitted' = admitted \ {w}
    /\ UNCHANGED asking

Next == \E w \in Writers : Ask(w) \/ Admit(w) \/ Withdraw(w) \/ Leave(w)

Spec == Init /\ [][Next]_<<asking, admitted>>

\* Whoever can be admitted again and again is admitted, unless it gives up, and
\* whoever is admitted leaves.
Fairness ==
    \A w \in Writers : SF_<<asking, admitted>>(Admit(w) \/ Withdraw(w) \/ Leave(w))
==============================================================================
