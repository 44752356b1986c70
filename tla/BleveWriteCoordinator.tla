------------------------ MODULE BleveWriteCoordinator ------------------------
(****************************************************************************)
(* The admission control of backend/search/write_coordinator.go: every      *)
(* Bleve commit of every tenant first obtains a lease.  The coordinator     *)
(* grants at most MaxActive leases, at most one per tenant, keeps the sum   *)
(* of the admitted bytes under a soft target and ranks the waiters by an    *)
(* ageing priority.                                                         *)
(*                                                                          *)
(* A client is one goroutine calling Acquire.  c.mu is held from the entry  *)
(* of a method to the end of its trailing dispatchLocked loop: variable     *)
(* dispatching is TRUE in that section, and every operation that needs the  *)
(* mutex waits for it to be FALSE.  What needs no mutex (receiving from the *)
(* ready channel, the cancellation of a context) interleaves with the loop. *)
(****************************************************************************)
EXTENDS Integers, Sequences, FiniteSets, SequencesExt

CONSTANTS
    Clients,          \* goroutines that write an index
    Users,            \* tenants
    UserOf,           \* the tenant each client writes for
    MaxActive,        \* bleveWriteCoordinatorConfig.MaxActive
    MaxActiveBytes,   \* bleveWriteCoordinatorConfig.MaxActiveBytes
    Requests,         \* bleveWriteRequest: the priorities and sizes announced
    Bytes             \* the sizes a lease may be reconciled to

Foreground == 2       \* bleveWriteForeground; 0 is background, 1 is normal

\* What Acquire accepts: any priority above foreground is replaced by normal.
AnyRequest == [prio : 0..Foreground, bytes : Nat]

ASSUME ClientsAssumption == UserOf \in [Clients -> Users]
ASSUME BoundsAssumption  == MaxActive \in Nat \ {0} /\ MaxActiveBytes \in Nat
ASSUME RequestAssumption ==
    Requests \subseteq AnyRequest /\ Bytes \subseteq Nat

VARIABLES
    pc,            \* where each client is: "idle", "waiting", "leased", "returning"
    request,       \* bleveWriteWaiter.request of the client's last Acquire
    age,           \* ageing intervals its waiter has lived through, up to Foreground
    ctxDone,       \* its context is cancelled
    ready,         \* its ready channel holds a lease
    waiters,       \* bleveWriteCoordinator.waiters
    leases,        \* clients owning a lease that is not released
    leaseBytes,    \* bleveWriteLease.bytes of those leases
    activeWrites, activeBytes, activeUsers,
    dispatching    \* c.mu is held by a dispatchLocked loop

clientVars == <<pc, request, age, ctxDone, ready>>
leaseVars  == <<leases, leaseBytes, activeWrites, activeBytes, activeUsers>>
writesVars == <<clientVars, waiters, leaseVars, dispatching>>

\* What request holds while it means nothing: the fields of a waiter that is no
\* longer queued are never read again, and are reset to keep the states few.
NoRequest == [prio |-> 0, bytes |-> 0]

WritesTypeOK ==
    /\ pc \in [Clients -> {"idle", "waiting", "leased", "returning"}]
    /\ request \in [Clients -> AnyRequest]
    /\ age \in [Clients -> 0..Foreground]
    /\ ctxDone \in [Clients -> BOOLEAN]
    /\ ready \in [Clients -> BOOLEAN]
    /\ waiters \in Seq(Clients)
    /\ leases \subseteq Clients
    /\ leaseBytes \in [Clients -> Nat]
    /\ activeWrites \in Nat
    /\ activeBytes \in Nat
    /\ activeUsers \in [Users -> Nat]
    /\ dispatching \in BOOLEAN

WritesInit ==
    /\ pc = [c \in Clients |-> "idle"]
    /\ request = [c \in Clients |-> NoRequest]
    /\ age = [c \in Clients |-> 0]
    /\ ctxDone = [c \in Clients |-> FALSE]
    /\ ready = [c \in Clients |-> FALSE]
    /\ waiters = <<>>
    /\ leases = {}
    /\ leaseBytes = [c \in Clients |-> 0]
    /\ activeWrites = 0
    /\ activeBytes = 0
    /\ activeUsers = [u \in Users |-> 0]
    /\ dispatching = FALSE

-----------------------------------------------------------------------------
(* The dispatch loop *)

Waiting == {waiters[i] : i \in DOMAIN waiters}

\* Mutant of Runnable: the per-tenant slot is not looked at.
RunnableMutant == Waiting

\* Waiters whose tenant has no admitted writer: the ones bestCandidateLocked ranks.
Runnable == {c \in Waiting : activeUsers[UserOf[c]] = 0}

\* Mutant of Rank: no ageing.
RankMutant(c) == request[c].prio

\* The announced priority, raised by one per ageing interval up to foreground.
Rank(c) == IF request[c].prio + age[c] > Foreground THEN Foreground
                                                    ELSE request[c].prio + age[c]

\* Position i holds the runnable waiter with the highest rank, the earliest one
\* among equals: bleveWriteWaiter.sequence grows in queue order.
IsBest(i) ==
    /\ waiters[i] \in Runnable
    /\ \A j \in DOMAIN waiters :
          waiters[j] \in Runnable =>
             \/ Rank(waiters[j]) < Rank(waiters[i])
             \/ Rank(waiters[j]) = Rank(waiters[i]) /\ i <= j

\* Mutant of BytesAvailable: what is admitted is compared, not what it becomes.
BytesAvailableMutant(b) == activeWrites = 0 \/ activeBytes <= MaxActiveBytes

BytesAvailable(b) ==
    \/ activeWrites = 0
    \/ b <= MaxActiveBytes /\ activeBytes <= MaxActiveBytes - b

\* The position dispatchLocked grants next.  When the best waiter does not fit,
\* there is none: smaller later requests must not fill the bytes it waits for.
Candidate(i) == IsBest(i) /\ BytesAvailable(request[waiters[i]].bytes)

\* One iteration of dispatchLocked: a lease is created and sent to the waiter.
Grant(i) ==
    LET c == waiters[i] IN
    /\ dispatching
    /\ activeWrites < MaxActive
    /\ Candidate(i)
    /\ waiters' = RemoveAt(waiters, i)
    /\ leases' = leases \cup {c}
    /\ leaseBytes' = [leaseBytes EXCEPT ![c] = request[c].bytes]
    /\ activeWrites' = activeWrites + 1
    /\ activeBytes' = activeBytes + request[c].bytes
    /\ activeUsers' = [activeUsers EXCEPT ![UserOf[c]] = @ + 1]
    /\ ready' = [ready EXCEPT ![c] = TRUE]
    /\ request' = [request EXCEPT ![c] = NoRequest]
    /\ age' = [age EXCEPT ![c] = 0]
    /\ UNCHANGED <<pc, ctxDone, dispatching>>

\* The loop ends and c.mu is released.
DispatchDone ==
    /\ dispatching
    /\ activeWrites < MaxActive => ~ \E i \in DOMAIN waiters : Candidate(i)
    /\ dispatching' = FALSE
    /\ UNCHANGED <<clientVars, waiters, leaseVars>>

-----------------------------------------------------------------------------
(* Acquire *)

\* A waiter is enqueued; its sequence number is its place in the queue.
Acquire(c, r) ==
    /\ pc[c] = "idle"
    /\ ~dispatching
    /\ pc' = [pc EXCEPT ![c] = "waiting"]
    /\ request' = [request EXCEPT ![c] = r]
    /\ waiters' = Append(waiters, c)
    /\ dispatching' = TRUE
    /\ UNCHANGED <<age, ctxDone, ready, leaseVars>>

\* The select of Acquire receives the lease.  A context cancelled meanwhile
\* sends the lease back.
TakeReady(c) ==
    /\ pc[c] = "waiting"
    /\ ready[c]
    /\ ready' = [ready EXCEPT ![c] = FALSE]
    /\ pc' = [pc EXCEPT ![c] = IF ctxDone[c] THEN "returning" ELSE "leased"]
    /\ ctxDone' = [ctxDone EXCEPT ![c] = FALSE]
    /\ UNCHANGED <<request, age, waiters, leaseVars, dispatching>>

\* Mutant of CancelGranted: the lease that raced with the cancellation is leaked.
CancelGrantedMutant(c) ==
    /\ pc[c] = "waiting" /\ ctxDone[c] /\ ~dispatching
    /\ c \in leases
    /\ ready' = [ready EXCEPT ![c] = FALSE]
    /\ pc' = [pc EXCEPT ![c] = "idle"]
    /\ ctxDone' = [ctxDone EXCEPT ![c] = FALSE]
    /\ UNCHANGED <<request, age, waiters, leaseVars, dispatching>>

\* The select of Acquire sees ctx.Done and calls cancelWaiter, which finds the
\* waiter granted in the meantime: its lease has to be released.
CancelGranted(c) ==
    /\ pc[c] = "waiting"
    /\ ctxDone[c]
    /\ ~dispatching
    /\ c \in leases
    /\ ready' = [ready EXCEPT ![c] = FALSE]
    /\ pc' = [pc EXCEPT ![c] = "returning"]
    /\ ctxDone' = [ctxDone EXCEPT ![c] = FALSE]
    /\ UNCHANGED <<request, age, waiters, leaseVars, dispatching>>

\* Mutant of CancelQueued: removing a waiter does not dispatch those behind it.
CancelQueuedMutant(c) ==
    /\ pc[c] = "waiting" /\ ctxDone[c] /\ ~dispatching
    /\ \E i \in DOMAIN waiters :
          waiters[i] = c /\ waiters' = RemoveAt(waiters, i)
    /\ pc' = [pc EXCEPT ![c] = "idle"]
    /\ request' = [request EXCEPT ![c] = NoRequest]
    /\ age' = [age EXCEPT ![c] = 0]
    /\ ctxDone' = [ctxDone EXCEPT ![c] = FALSE]
    /\ UNCHANGED <<ready, leaseVars, dispatching>>

\* The same call finds the waiter still queued and removes it.
CancelQueued(c) ==
    /\ pc[c] = "waiting"
    /\ ctxDone[c]
    /\ ~dispatching
    /\ \E i \in DOMAIN waiters :
          waiters[i] = c /\ waiters' = RemoveAt(waiters, i)
    /\ pc' = [pc EXCEPT ![c] = "idle"]
    /\ request' = [request EXCEPT ![c] = NoRequest]
    /\ age' = [age EXCEPT ![c] = 0]
    /\ ctxDone' = [ctxDone EXCEPT ![c] = FALSE]
    /\ dispatching' = TRUE
    /\ UNCHANGED <<ready, leaseVars>>

CancelWaiter(c) == CancelGranted(c) \/ CancelQueued(c)

\* The caller's context is cancelled or times out while it waits.
CancelContext(c) ==
    /\ pc[c] = "waiting"
    /\ ~ctxDone[c]
    /\ ctxDone' = [ctxDone EXCEPT ![c] = TRUE]
    /\ UNCHANGED <<pc, request, age, ready, waiters, leaseVars, dispatching>>

\* A queued waiter gets one ageing interval older; at most Foreground of them
\* change its rank.
Age(c) ==
    /\ c \in Waiting
    /\ age[c] < Foreground
    /\ age' = [age EXCEPT ![c] = @ + 1]
    /\ UNCHANGED <<pc, request, ctxDone, ready, waiters, leaseVars, dispatching>>

-----------------------------------------------------------------------------
(* The lease *)

\* Release, at most once per lease.
ReleaseLease(c) ==
    /\ pc[c] \in {"leased", "returning"}
    /\ ~dispatching
    /\ pc' = [pc EXCEPT ![c] = "idle"]
    /\ leases' = leases \ {c}
    /\ leaseBytes' = [leaseBytes EXCEPT ![c] = 0]
    /\ activeWrites' = IF activeWrites > 0 THEN activeWrites - 1 ELSE activeWrites
    /\ activeBytes' = IF activeBytes >= leaseBytes[c] THEN activeBytes - leaseBytes[c] ELSE 0
    /\ activeUsers' = [activeUsers EXCEPT ![UserOf[c]] = IF @ <= 1 THEN 0 ELSE @ - 1]
    /\ dispatching' = TRUE
    /\ UNCHANGED <<request, age, ctxDone, ready, waiters>>

\* Mutant of UpdateBytes: the lease keeps the difference instead of the size.
UpdateBytesMutant(c, b) ==
    /\ pc[c] = "leased" /\ ~dispatching
    /\ leaseBytes[c] # b
    /\ activeBytes' = b + IF activeBytes >= leaseBytes[c] THEN activeBytes - leaseBytes[c] ELSE 0
    /\ leaseBytes' = [leaseBytes EXCEPT ![c] = b - @]
    /\ dispatching' = TRUE
    /\ UNCHANGED <<clientVars, waiters, leases, activeWrites, activeUsers>>

\* UpdateBytes reconciles the reservation with the size of the built batch.
UpdateBytes(c, b) ==
    /\ pc[c] = "leased"
    /\ ~dispatching
    /\ leaseBytes[c] # b
    /\ activeBytes' = b + IF activeBytes >= leaseBytes[c] THEN activeBytes - leaseBytes[c] ELSE 0
    /\ leaseBytes' = [leaseBytes EXCEPT ![c] = b]
    /\ dispatching' = TRUE
    /\ UNCHANGED <<clientVars, waiters, leases, activeWrites, activeUsers>>

-----------------------------------------------------------------------------
WritesNext ==
    \/ \E i \in DOMAIN waiters : Grant(i)
    \/ DispatchDone
    \/ \E c \in Clients :
          \/ \E r \in Requests : Acquire(c, r)
          \/ TakeReady(c)
          \/ CancelWaiter(c)
          \/ CancelContext(c)
          \/ Age(c)
          \/ ReleaseLease(c)
          \/ \E b \in Bytes : UpdateBytes(c, b)

WritesSpec == WritesInit /\ [][WritesNext]_writesVars

\* The loop and the receive always proceed; time passes; an admitted commit
\* ends and releases its lease (search.go releases it when Batch returns).  The
\* clients contend for c.mu with one another, and sync.Mutex starves no
\* goroutine: a client that wants it again and again, to release or to cancel,
\* gets it.
WritesFairness ==
    /\ WF_writesVars(\E i \in DOMAIN waiters : Grant(i))
    /\ WF_writesVars(DispatchDone)
    /\ \A c \in Clients :
          /\ WF_writesVars(TakeReady(c))
          /\ WF_writesVars(Age(c))
          /\ SF_writesVars(ReleaseLease(c) \/ CancelWaiter(c))

FairWrites == WritesSpec /\ WritesFairness

-----------------------------------------------------------------------------
(* Properties *)

\* Two leases never serve one tenant: Bleve commits of a tenant are serial.
TenantExclusion ==
    \A c, d \in leases : UserOf[c] = UserOf[d] => c = d

\* The coordinator as its callers see it: the queue is a set, a lease is an
\* admission from the moment dispatchLocked creates it to its Release.
Admission == INSTANCE WriterAdmission WITH
    Writers <- Clients, Tenants <- Users, TenantOf <- UserOf, Slots <- MaxActive,
    asking <- Waiting, admitted <- leases

\* Every operation, whichever way grants, cancellations and releases interleave,
\* is for the callers one admission, one departure, one request, or nothing: a
\* caller told that it is cancelled holds no slot when it asks again.
ImplementsAdmission == Admission!Spec

\* And it is a fair one: the ranks, the byte target and the per-tenant slots may
\* delay a writer that fits again and again, but not for ever, and a lease whose
\* caller was cancelled is given back like any other.
AdmissionIsFair == Admission!Fairness

\* One slot is counted per live lease: no cancellation leaks or doubles one, and
\* there are never more writers than slots.
SlotsExact ==
    /\ IsFiniteSet(leases)
    /\ activeWrites = Cardinality(leases)
    /\ activeWrites <= MaxActive

\* The counters are exactly what the live leases add up to, whichever of
\* cancelWaiter and the ready channel delivered a lease to a cancelled caller,
\* and each has a caller that will release it: none leaks, none is released twice.
ExactAccounting ==
    /\ SlotsExact
    /\ \A c \in leases : pc[c] # "idle"
    /\ activeBytes = SumFunctionOnSet(leaseBytes, leases)
    /\ \A u \in Users : activeUsers[u] = Cardinality({c \in leases : UserOf[c] = u})

\* A queued waiter is queued once and owns no lease.
QueueSound ==
    \A i \in DOMAIN waiters :
        /\ pc[waiters[i]] = "waiting"
        /\ waiters[i] \notin leases
        /\ \A j \in DOMAIN waiters : waiters[i] = waiters[j] => i = j

\* Whoever will release a lease owns one, and a lease has a client that will
\* receive it, be told of it by cancelWaiter, or release it.
LeaseSound ==
    /\ \A c \in leases : pc[c] # "idle"
    /\ \A c \in Clients : pc[c] \in {"leased", "returning"} => c \in leases
    /\ \A c \in Clients : ready[c] => c \in leases /\ pc[c] = "waiting"

\* activeUsers marks exactly the tenants of the live leases.
UsersSound ==
    /\ \A c \in leases : activeUsers[UserOf[c]] = 1
    /\ TenantExclusion

\* The inductive invariant behind TenantExclusion and SlotsExact.
IInv == WritesTypeOK /\ QueueSound /\ LeaseSound /\ UsersSound /\ SlotsExact

\* Outside the critical section no admissible request is left waiting: when a
\* slot is free, some runnable waiter (the best one of the last dispatch) exceeds
\* the bytes that are left, or there is no runnable waiter.
NoLostDispatch ==
    ~dispatching /\ activeWrites < MaxActive /\ Runnable # {} =>
        \E c \in Runnable : ~BytesAvailable(request[c].bytes)

\* Admission is bounded: only an admission into an idle coordinator, or a later
\* UpdateBytes, takes the admitted bytes above the soft target.
SoftByteTarget ==
    [][ leases \subseteq leases' /\ leases # leases' =>
            leases = {} \/ activeBytes' <= MaxActiveBytes ]_writesVars

\* No request starves: a background batch larger than the byte target is
\* eventually admitted (or its caller gave up), however many smaller or more
\* urgent requests keep arriving.
NoStarvation ==
    \A c \in Clients : pc[c] = "waiting" ~> pc[c] # "waiting"

==============================================================================
