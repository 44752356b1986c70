-------------------- MODULE BleveWriteCoordinator_proofs ---------------------
(****************************************************************************)
(* Theorems about BleveWriteCoordinator for every set of clients and        *)
(* tenants and every bound: the type invariant, the exclusion of two        *)
(* writers of one tenant, that activeWrites counts the live leases, so that *)
(* no cancellation leaks a slot, that the coordinator implements            *)
(* WriterAdmission, that no admissible waiter is left behind, and that the  *)
(* counters of bytes and tenants are what the live leases add up to.        *)
(****************************************************************************)
EXTENDS BleveWriteCoordinator, FiniteSetTheorems, WellFoundedInduction, TLAPS

\* What RemoveAt returns: the elements before i, then those after it.
LEMMA RemoveAtLemma ==
    ASSUME NEW S, NEW s \in Seq(S), NEW i \in 1..Len(s)
    PROVE  /\ RemoveAt(s, i) \in Seq(S)
           /\ Len(RemoveAt(s, i)) = Len(s) - 1
           /\ \A j \in 1..(Len(s) - 1) :
                 RemoveAt(s, i)[j] = IF j < i THEN s[j] ELSE s[j + 1]
<1> DEFINE h == SubSeq(s, 1, i - 1)
           t == SubSeq(s, i + 1, Len(s))
<1>1. h \in Seq(S) /\ Len(h) = i - 1 /\ \A j \in 1..(i - 1) : h[j] = s[j]
  OBVIOUS
<1>2. t \in Seq(S) /\ Len(t) = Len(s) - i /\ \A j \in 1..(Len(s) - i) : t[j] = s[i + j]
  OBVIOUS
<1>3. RemoveAt(s, i) = h \o t
  BY DEF RemoveAt
<1> HIDE DEF h, t
<1>4. h \o t \in Seq(S) /\ Len(h \o t) = Len(s) - 1
  <2>1. h \in Seq(S) /\ t \in Seq(S)
    BY <1>1, <1>2
  <2>2. h \o t \in Seq(S) /\ Len(h \o t) = Len(h) + Len(t)
    BY <2>1
  <2>. QED
    BY <1>1, <1>2, <2>2
<1>5. ASSUME NEW j \in 1..(Len(s) - 1)
      PROVE  (h \o t)[j] = IF j < i THEN s[j] ELSE s[j + 1]
  <2>1. CASE j < i
    BY <1>1, <1>2, <2>1
  <2>2. CASE ~(j < i)
    <3>1. (h \o t)[j] = t[j - (i - 1)]
      BY <1>1, <1>2, <2>2
    <3>2. j - (i - 1) \in 1..(Len(s) - i)
      BY <2>2
    <3>. QED
      BY <1>2, <2>2, <3>1, <3>2
  <2>. QED
    BY <2>1, <2>2
<1>. QED
  BY <1>3, <1>4, <1>5

-----------------------------------------------------------------------------
(* Type correctness *)

LEMMA NoRequestType == NoRequest \in AnyRequest
  BY DEF NoRequest, AnyRequest, Foreground

LEMMA InitTypeOK == WritesInit => WritesTypeOK
<1> SUFFICES ASSUME WritesInit PROVE WritesTypeOK
  OBVIOUS
<1>1. request \in [Clients -> AnyRequest]
  BY NoRequestType DEF WritesInit
<1>2. waiters \in Seq(Clients) /\ leases \subseteq Clients
  BY DEF WritesInit
<1>3. pc \in [Clients -> {"idle", "waiting", "leased", "returning"}]
  BY DEF WritesInit
<1>4. activeUsers \in [Users -> Nat] /\ leaseBytes \in [Clients -> Nat]
  BY DEF WritesInit
<1>5. ctxDone \in [Clients -> BOOLEAN] /\ ready \in [Clients -> BOOLEAN]
  BY DEF WritesInit
<1>6. age \in [Clients -> 0..Foreground]
  BY DEF WritesInit, Foreground
<1>. QED
  BY <1>1, <1>2, <1>3, <1>4, <1>5, <1>6 DEF WritesInit, WritesTypeOK

LEMMA NextTypeOK == WritesTypeOK /\ [WritesNext]_writesVars => WritesTypeOK'
<1> USE ClientsAssumption, BoundsAssumption, RequestAssumption
<1> SUFFICES ASSUME WritesTypeOK, [WritesNext]_writesVars PROVE WritesTypeOK'
  OBVIOUS
<1> USE DEF WritesTypeOK, Foreground
<1>1. ASSUME NEW i \in DOMAIN waiters, Grant(i) PROVE WritesTypeOK'
  <2>1. waiters[i] \in Clients /\ i \in 1..Len(waiters)
    OBVIOUS
  <2>2. RemoveAt(waiters, i) \in Seq(Clients)
    BY <2>1, RemoveAtLemma
  <2>3. UserOf[waiters[i]] \in Users /\ request[waiters[i]].bytes \in Nat
    BY <2>1 DEF AnyRequest
  <2>4. request' \in [Clients -> AnyRequest]
    BY NoRequestType, <1>1, <2>1 DEF Grant
  <2>5. activeUsers' \in [Users -> Nat]
    BY <1>1, <2>3 DEF Grant
  <2>6. leaseBytes' \in [Clients -> Nat] /\ activeBytes' \in Nat
    <3>1. leaseBytes' \in [Clients -> Nat]
      BY <1>1, <2>1, <2>3 DEF Grant
    <3>2. activeBytes' = activeBytes + request[waiters[i]].bytes
      BY <1>1 DEF Grant
    <3>3. activeBytes \in Nat
      OBVIOUS
    <3> QED  BY ONLY <2>3, <3>1, <3>2, <3>3
  <2>7. activeWrites' \in Nat /\ leases' \subseteq Clients
    BY <1>1, <2>1 DEF Grant
  <2>8. ready' \in [Clients -> BOOLEAN] /\ age' \in [Clients -> 0..Foreground]
    BY <1>1, <2>1 DEF Grant
  <2>. QED
    BY <1>1, <2>2, <2>4, <2>5, <2>6, <2>7, <2>8 DEF Grant
<1>2. CASE DispatchDone
  BY <1>2 DEF DispatchDone, clientVars, leaseVars
<1>3. ASSUME NEW c \in Clients, NEW r \in Requests, Acquire(c, r) PROVE WritesTypeOK'
  BY <1>3 DEF Acquire, leaseVars
<1>4. ASSUME NEW c \in Clients, TakeReady(c) PROVE WritesTypeOK'
  BY <1>4 DEF TakeReady, leaseVars
<1>5. ASSUME NEW c \in Clients, CancelGranted(c) PROVE WritesTypeOK'
  BY <1>5 DEF CancelGranted, leaseVars
<1>6. ASSUME NEW c \in Clients, CancelQueued(c) PROVE WritesTypeOK'
  <2>1. PICK i \in DOMAIN waiters : waiters[i] = c /\ waiters' = RemoveAt(waiters, i)
    BY <1>6 DEF CancelQueued
  <2>2. waiters' \in Seq(Clients)
    BY <2>1, RemoveAtLemma
  <2>. QED
    BY NoRequestType, <1>6, <2>2 DEF CancelQueued, leaseVars
<1>7. ASSUME NEW c \in Clients, CancelContext(c) PROVE WritesTypeOK'
  BY <1>7 DEF CancelContext, leaseVars
<1>8. ASSUME NEW c \in Clients, Age(c) PROVE WritesTypeOK'
  BY <1>8 DEF Age, leaseVars
<1>9. ASSUME NEW c \in Clients, ReleaseLease(c) PROVE WritesTypeOK'
  BY <1>9 DEF ReleaseLease
<1>10. ASSUME NEW c \in Clients, NEW b \in Bytes, UpdateBytes(c, b) PROVE WritesTypeOK'
  BY <1>10 DEF UpdateBytes, clientVars
<1>11. CASE UNCHANGED writesVars
  BY <1>11 DEF writesVars, clientVars, leaseVars
<1>. QED
  BY <1>1, <1>2, <1>3, <1>4, <1>5, <1>6, <1>7, <1>8, <1>9, <1>10, <1>11 DEF WritesNext, CancelWaiter

\* Every variable keeps its type, whatever the constants.
THEOREM TypeCorrect == WritesSpec => []WritesTypeOK
  BY InitTypeOK, NextTypeOK, PTL DEF WritesSpec

-----------------------------------------------------------------------------
(* Two writers of one tenant are never admitted together *)

LEMMA InitIInv == WritesInit => IInv
<1> SUFFICES ASSUME WritesInit PROVE IInv
  OBVIOUS
<1>1. WritesTypeOK
  BY InitTypeOK
<1>2. SlotsExact
  BY FS_EmptySet, BoundsAssumption DEF WritesInit, SlotsExact
<1>3. QueueSound /\ LeaseSound /\ UsersSound
  BY DEF WritesInit, QueueSound, LeaseSound, UsersSound, TenantExclusion
<1>. QED
  BY <1>1, <1>2, <1>3 DEF IInv

\* A waiter leaving the queue leaves the rest of it sound.
LEMMA RemoveKeepsQueue ==
    ASSUME IInv, NEW i \in DOMAIN waiters
    PROVE  \A j \in DOMAIN RemoveAt(waiters, i) :
              /\ RemoveAt(waiters, i)[j] \in Clients \ {waiters[i]}
              /\ pc[RemoveAt(waiters, i)[j]] = "waiting"
              /\ RemoveAt(waiters, i)[j] \notin leases
              /\ \A k \in DOMAIN RemoveAt(waiters, i) :
                    RemoveAt(waiters, i)[j] = RemoveAt(waiters, i)[k] => j = k
<1> DEFINE w == RemoveAt(waiters, i)
<1>1. waiters \in Seq(Clients) /\ i \in 1..Len(waiters)
  BY DEF IInv, WritesTypeOK
<1>2. /\ w \in Seq(Clients)
      /\ Len(w) = Len(waiters) - 1
      /\ \A j \in 1..(Len(waiters) - 1) :
            w[j] = IF j < i THEN waiters[j] ELSE waiters[j + 1]
  BY <1>1, RemoveAtLemma
<1> HIDE DEF w
<1>3. DOMAIN w = 1..(Len(waiters) - 1)
  BY <1>1, <1>2
<1>4. DOMAIN waiters = 1..Len(waiters) /\ Len(waiters) \in Nat
  BY <1>1
<1> DEFINE old(j) == IF j < i THEN j ELSE j + 1
<1>5. \A j \in DOMAIN w : /\ old(j) \in DOMAIN waiters \ {i}
                          /\ w[j] = waiters[old(j)]
  BY <1>1, <1>2, <1>3, <1>4
<1>6. \A j, k \in DOMAIN w : old(j) = old(k) => j = k
  BY <1>1, <1>3, <1>4
<1>7. QueueSound
  BY DEF IInv
<1> HIDE DEF old
<1>8. \A j \in DOMAIN w :
        /\ w[j] \in Clients \ {waiters[i]}
        /\ pc[w[j]] = "waiting"
        /\ w[j] \notin leases
        /\ \A k \in DOMAIN w : w[j] = w[k] => j = k
  BY <1>1, <1>5, <1>6, <1>7 DEF QueueSound
<1>. QED
  BY <1>8 DEF w

LEMMA GrantIInv ==
    ASSUME IInv, WritesTypeOK', NEW i \in DOMAIN waiters, Grant(i) PROVE IInv'
<1> DEFINE c == waiters[i]
<1>1. c \in Clients /\ c \notin leases /\ pc[c] = "waiting"
  BY DEF IInv, QueueSound, WritesTypeOK
<1>2. /\ leases' = leases \cup {c}
      /\ activeWrites' = activeWrites + 1
      /\ activeUsers' = [activeUsers EXCEPT ![UserOf[c]] = @ + 1]
      /\ waiters' = RemoveAt(waiters, i)
      /\ ready' = [ready EXCEPT ![c] = TRUE]
      /\ pc' = pc
      /\ activeUsers[UserOf[c]] = 0
      /\ activeWrites < MaxActive
  BY DEF Grant, Candidate, IsBest, Runnable
<1> HIDE DEF c
<1>3. QueueSound'
  BY <1>1, <1>2, RemoveKeepsQueue DEF QueueSound, c
<1>4. LeaseSound'
  BY <1>1, <1>2 DEF IInv, LeaseSound, WritesTypeOK
<1>5. UsersSound'
  <2>1. UserOf[c] \in Users
    BY <1>1, ClientsAssumption
  <2>2. \A d \in leases : UserOf[d] # UserOf[c]
    BY <1>2 DEF IInv, UsersSound
  <2>3. activeUsers'[UserOf[c]] = 1
    <3>1. activeUsers \in [Users -> Nat]
      BY DEF IInv, WritesTypeOK
    <3>2. activeUsers'[UserOf[c]] = activeUsers[UserOf[c]] + 1
      BY <1>2, <2>1, <3>1
    <3>. QED
      BY <1>2, <3>2
  <2>4. \A d \in leases : activeUsers'[UserOf[d]] = 1
    <3>1. \A d \in leases : UserOf[d] \in Users /\ activeUsers[UserOf[d]] = 1
      BY ClientsAssumption DEF IInv, UsersSound, WritesTypeOK
    <3>. QED
      BY <1>2, <2>2, <3>1 DEF IInv, WritesTypeOK
  <2>5. TenantExclusion'
    BY <1>2, <2>2 DEF IInv, UsersSound, TenantExclusion
  <2>. QED
    BY <1>2, <2>3, <2>4, <2>5 DEF UsersSound
<1>6. SlotsExact'
  <2>1. IsFiniteSet(leases') /\ Cardinality(leases') = Cardinality(leases) + 1
    BY <1>1, <1>2, FS_AddElement DEF IInv, SlotsExact
  <2>. QED
    BY <1>2, <2>1, BoundsAssumption DEF IInv, SlotsExact, WritesTypeOK
<1>. QED
  BY <1>3, <1>4, <1>5, <1>6 DEF IInv

LEMMA ReleaseIInv ==
    ASSUME IInv, WritesTypeOK', NEW c \in Clients, ReleaseLease(c) PROVE IInv'
<1>1. c \in leases /\ activeUsers[UserOf[c]] = 1
  BY DEF ReleaseLease, IInv, LeaseSound, UsersSound
<1>2. /\ pc' = [pc EXCEPT ![c] = "idle"]
      /\ leases' = leases \ {c}
      /\ activeUsers' = [activeUsers EXCEPT ![UserOf[c]] = 0]
      /\ UNCHANGED <<waiters, ready>>
      /\ pc[c] # "waiting"
  <2>1. activeUsers' = [activeUsers EXCEPT ![UserOf[c]] = IF @ <= 1 THEN 0 ELSE @ - 1]
    BY DEF ReleaseLease
  <2>2. UserOf[c] \in Users /\ activeUsers \in [Users -> Nat]
    BY ClientsAssumption DEF IInv, WritesTypeOK
  <2>3. activeUsers' = [activeUsers EXCEPT ![UserOf[c]] = 0]
    BY <1>1, <2>1, <2>2
  <2>. QED
    BY <2>3 DEF ReleaseLease
<1>3. QueueSound'
  <2>1. \A i \in DOMAIN waiters : waiters[i] \in Clients /\ waiters[i] # c
    BY <1>2 DEF IInv, QueueSound, WritesTypeOK
  <2>2. \A i \in DOMAIN waiters : pc'[waiters[i]] = pc[waiters[i]]
    BY <1>2, <2>1 DEF IInv, WritesTypeOK
  <2>. QED
    BY <1>2, <2>2 DEF IInv, QueueSound
<1>4. LeaseSound'
  <2>1. \A d \in leases' : d # c /\ pc'[d] = pc[d]
    BY <1>2 DEF IInv, WritesTypeOK
  <2>2. \A d \in Clients \ {c} : pc'[d] = pc[d]
    BY <1>2 DEF IInv, WritesTypeOK
  <2>3. pc'[c] = "idle"
    BY <1>2 DEF IInv, WritesTypeOK
  <2>4. ~ready[c]
    BY <1>2 DEF IInv, LeaseSound
  <2>. QED
    BY <1>2, <2>1, <2>2, <2>3, <2>4 DEF IInv, LeaseSound
<1>5. UsersSound'
  <2>1. \A d \in leases' : UserOf[d] # UserOf[c]
    BY <1>1, <1>2 DEF IInv, UsersSound, TenantExclusion
  <2>. QED
    BY <1>2, <2>1, ClientsAssumption DEF IInv, UsersSound, TenantExclusion, WritesTypeOK
<1>6. SlotsExact'
  <2>1. /\ IsFiniteSet(leases \ {c})
        /\ Cardinality(leases \ {c}) = Cardinality(leases) - 1
    BY <1>1, FS_RemoveElement DEF IInv, SlotsExact
  <2>2. Cardinality(leases) # 0
    BY <1>1, FS_EmptySet DEF IInv, SlotsExact
  <2>3. activeWrites' = activeWrites - 1
    BY <2>2 DEF ReleaseLease, IInv, SlotsExact, WritesTypeOK
  <2>. QED
    BY <1>2, <2>1, <2>3, BoundsAssumption DEF IInv, SlotsExact, WritesTypeOK
<1>. QED
  BY <1>3, <1>4, <1>5, <1>6 DEF IInv

LEMMA NextIInv == IInv /\ [WritesNext]_writesVars => IInv'
<1> SUFFICES ASSUME IInv, [WritesNext]_writesVars PROVE IInv'
  OBVIOUS
<1>0. WritesTypeOK'
  BY NextTypeOK DEF IInv
<1> DEFINE Same == UNCHANGED <<leases, activeWrites, activeUsers>>
<1>1. ASSUME Same PROVE UsersSound' /\ SlotsExact'
  BY <1>1 DEF IInv, UsersSound, SlotsExact, TenantExclusion
<1>2. ASSUME NEW i \in DOMAIN waiters, Grant(i) PROVE IInv'
  BY <1>0, <1>2, GrantIInv
<1>3. ASSUME Same, UNCHANGED <<pc, ready, waiters>> PROVE IInv'
  BY <1>0, <1>1, <1>3 DEF IInv, QueueSound, LeaseSound
<1>4. CASE DispatchDone
  BY <1>3, <1>4 DEF DispatchDone, clientVars, leaseVars
<1>5. ASSUME NEW c \in Clients, NEW r \in Requests, Acquire(c, r) PROVE IInv'
  <2>1. /\ pc[c] = "idle" /\ pc' = [pc EXCEPT ![c] = "waiting"]
        /\ waiters' = Append(waiters, c)
        /\ Same /\ UNCHANGED ready
    BY <1>5 DEF Acquire, leaseVars
  <2>2. c \notin leases
    BY <2>1 DEF IInv, LeaseSound
  <2>3. QueueSound'
    <3>1. \A i \in DOMAIN waiters : waiters[i] # c /\ waiters[i] \in Clients
      BY <2>1 DEF IInv, QueueSound, WritesTypeOK
    <3>2. /\ DOMAIN waiters' = 1..(Len(waiters) + 1)
          /\ DOMAIN waiters = 1..Len(waiters)
          /\ Len(waiters) \in Nat
          /\ \A i \in DOMAIN waiters : waiters'[i] = waiters[i]
          /\ waiters'[Len(waiters) + 1] = c
      BY <2>1 DEF IInv, WritesTypeOK
    <3>. QED
      BY <2>1, <2>2, <3>1, <3>2 DEF IInv, QueueSound, WritesTypeOK
  <2>4. LeaseSound'
    BY <2>1, <2>2 DEF IInv, LeaseSound, WritesTypeOK
  <2>. QED
    BY <1>0, <1>1, <2>1, <2>3, <2>4 DEF IInv
<1>6. ASSUME NEW c \in Clients, TakeReady(c) \/ CancelGranted(c) PROVE IInv'
  <2>1. /\ pc[c] = "waiting" /\ c \in leases
        /\ pc' \in {[pc EXCEPT ![c] = "leased"], [pc EXCEPT ![c] = "returning"]}
        /\ ready' = [ready EXCEPT ![c] = FALSE]
        /\ Same /\ UNCHANGED waiters
    BY <1>6 DEF TakeReady, CancelGranted, leaseVars, IInv, LeaseSound
  <2>2. QueueSound' /\ LeaseSound'
    BY <2>1 DEF IInv, QueueSound, LeaseSound, WritesTypeOK
  <2>. QED
    BY <1>0, <1>1, <2>1, <2>2 DEF IInv
<1>7. ASSUME NEW c \in Clients, CancelQueued(c) PROVE IInv'
  <2>1. PICK i \in DOMAIN waiters : waiters[i] = c /\ waiters' = RemoveAt(waiters, i)
    BY <1>7 DEF CancelQueued
  <2>2. pc' = [pc EXCEPT ![c] = "idle"] /\ Same /\ UNCHANGED ready
    BY <1>7 DEF CancelQueued, leaseVars
  <2>3. c \notin leases
    BY <2>1 DEF IInv, QueueSound
  <2>4. QueueSound'
    BY <2>1, <2>2, RemoveKeepsQueue DEF QueueSound, IInv, WritesTypeOK
  <2>5. LeaseSound'
    BY <2>2, <2>3 DEF IInv, LeaseSound, WritesTypeOK
  <2>. QED
    BY <1>0, <1>1, <2>2, <2>4, <2>5 DEF IInv
<1>8. ASSUME NEW c \in Clients, CancelContext(c) \/ Age(c) PROVE IInv'
  BY <1>3, <1>8 DEF CancelContext, Age, leaseVars
<1>9. ASSUME NEW c \in Clients, ReleaseLease(c) PROVE IInv'
  BY <1>0, <1>9, ReleaseIInv
<1>10. ASSUME NEW c \in Clients, NEW b \in Bytes, UpdateBytes(c, b) PROVE IInv'
  BY <1>3, <1>10 DEF UpdateBytes, clientVars
<1>11. CASE UNCHANGED writesVars
  BY <1>3, <1>11 DEF writesVars, clientVars, leaseVars
<1>. QED
  BY <1>2, <1>4, <1>5, <1>6, <1>7, <1>8, <1>9, <1>10, <1>11 DEF WritesNext, CancelWaiter

\* Bleve commits of one tenant are serial for any number of clients, tenants,
\* slots and sizes: at most one live lease per tenant.
THEOREM TenantsExclusive == WritesSpec => []TenantExclusion
<1>1. IInv => TenantExclusion
  BY DEF IInv, UsersSound
<1>. QED
  BY InitIInv, NextIInv, <1>1, PTL DEF WritesSpec

\* activeWrites is the number of live leases and within the limit: the race of a grant with the
\* cancellation of its caller neither leaks a slot nor frees one twice.
THEOREM SlotsCounted == WritesSpec => []SlotsExact
<1>1. IInv => SlotsExact
  BY DEF IInv
<1>. QED
  BY InitIInv, NextIInv, <1>1, PTL DEF WritesSpec
-----------------------------------------------------------------------------
(* The coordinator implements the admission its callers see *)

\* Removing position i takes its client, and nobody else, out of the queue.
LEMMA RemovedWaiting ==
    ASSUME IInv, NEW i \in DOMAIN waiters, waiters' = RemoveAt(waiters, i)
    PROVE  Waiting' = Waiting \ {waiters[i]}
<1> DEFINE w == RemoveAt(waiters, i)
           n == Len(waiters)
<1>1. waiters \in Seq(Clients) /\ i \in 1..n /\ n \in Nat /\ DOMAIN waiters = 1..n
  BY DEF IInv, WritesTypeOK
<1>2. /\ w \in Seq(Clients)
      /\ Len(w) = n - 1
      /\ \A j \in 1..(n - 1) : w[j] = IF j < i THEN waiters[j] ELSE waiters[j + 1]
  BY <1>1, RemoveAtLemma
<1>3. DOMAIN w = 1..(n - 1)
  BY <1>1, <1>2
<1>4. \A j, k \in 1..n : waiters[j] = waiters[k] => j = k
  BY <1>1 DEF IInv, QueueSound
<1> HIDE DEF w
<1>5. ASSUME NEW j \in 1..(n - 1) PROVE w[j] \in Waiting \ {waiters[i]}
  <2>1. CASE j < i
    <3>1. w[j] = waiters[j] /\ j \in 1..n /\ j # i
      BY <1>1, <1>2, <2>1
    <3>. QED
      BY <1>1, <1>4, <3>1 DEF Waiting
  <2>2. CASE ~(j < i)
    <3>1. w[j] = waiters[j + 1] /\ j + 1 \in 1..n /\ j + 1 # i
      BY <1>1, <1>2, <2>2
    <3>. QED
      BY <1>1, <1>4, <3>1 DEF Waiting
  <2>. QED
    BY <2>1, <2>2
<1>6. ASSUME NEW k \in 1..n, k # i PROVE \E j \in 1..(n - 1) : w[j] = waiters[k]
  <2>1. CASE k < i
    <3>1. k \in 1..(n - 1) /\ w[k] = waiters[k]
      BY <1>1, <1>2, <2>1
    <3>. QED
      BY <3>1
  <2>2. CASE ~(k < i)
    <3>1. k - 1 \in 1..(n - 1) /\ ~(k - 1 < i) /\ (k - 1) + 1 = k
      BY <1>1, <1>6, <2>2
    <3>2. w[k - 1] = waiters[k]
      BY <1>2, <3>1
    <3>. QED
      BY <3>1, <3>2
  <2>. QED
    BY <2>1, <2>2
<1>7. waiters' = w
  BY DEF w
<1>8. Waiting' = {w[j] : j \in 1..(n - 1)}
  BY <1>3, <1>7 DEF Waiting
<1>9. Waiting = {waiters[j] : j \in 1..n}
  BY <1>1 DEF Waiting
<1>. QED
  <2>1. Waiting' \subseteq Waiting \ {waiters[i]}
    BY <1>5, <1>8
  <2>2. ASSUME NEW c \in Waiting, c # waiters[i] PROVE c \in Waiting'
    <3>1. PICK k \in 1..n : c = waiters[k]
      BY <1>9
    <3>2. PICK j \in 1..(n - 1) : w[j] = waiters[k]
      BY <1>6, <2>2, <3>1
    <3>. QED
      BY <1>8, <3>1, <3>2
  <2>. QED
    BY <2>1, <2>2

LEMMA GrantAdmits ==
    ASSUME IInv, NEW i \in DOMAIN waiters, Grant(i)
    PROVE  Admission!Admit(waiters[i])
<1>1. waiters[i] \in Waiting
  BY DEF Waiting
<1>2. Cardinality(leases) < MaxActive
  BY DEF Grant, IInv, SlotsExact
<1>3. \A d \in leases : UserOf[d] # UserOf[waiters[i]]
  BY DEF Grant, Candidate, IsBest, Runnable, IInv, UsersSound
<1>4. Waiting' = Waiting \ {waiters[i]}
  BY RemovedWaiting DEF Grant
<1>5. leases' = leases \cup {waiters[i]}
  BY DEF Grant
<1>6. Admission!Cardinality(leases) = Cardinality(leases)
  BY DEF Admission!Cardinality, Cardinality, Admission!IsFiniteSet, IsFiniteSet
<1>. QED
  BY <1>1, <1>2, <1>3, <1>4, <1>5, <1>6 DEF Admission!Admit

LEMMA AcquireAsks ==
    ASSUME IInv, NEW c \in Clients, NEW r \in Requests, Acquire(c, r)
    PROVE  Admission!Ask(c)
<1>1. waiters \in Seq(Clients) /\ pc[c] = "idle" /\ waiters' = Append(waiters, c) /\ leases' = leases
  BY DEF IInv, WritesTypeOK, Acquire, leaseVars
<1>2. c \notin Waiting /\ c \notin leases
  BY <1>1 DEF IInv, QueueSound, LeaseSound, Waiting
<1>3. /\ DOMAIN waiters = 1..Len(waiters) /\ Len(waiters) \in Nat
      /\ DOMAIN waiters' = 1..(Len(waiters) + 1)
      /\ waiters'[Len(waiters) + 1] = c
      /\ \A j \in 1..Len(waiters) : waiters'[j] = waiters[j]
  BY <1>1
<1>4. 1..(Len(waiters) + 1) = 1..Len(waiters) \cup {Len(waiters) + 1}
  BY <1>3
<1>5. Waiting' = Waiting \cup {c}
  BY <1>3, <1>4 DEF Waiting
<1>. QED
  BY <1>1, <1>2, <1>5 DEF Admission!Ask

LEMMA StepAdmission == IInv /\ [WritesNext]_writesVars => [Admission!Next]_<<Waiting, leases>>
<1> SUFFICES ASSUME IInv, [WritesNext]_writesVars PROVE [Admission!Next]_<<Waiting, leases>>
  OBVIOUS
<1>0. ASSUME UNCHANGED <<waiters, leases>> PROVE UNCHANGED <<Waiting, leases>>
  BY <1>0 DEF Waiting
<1>1. ASSUME NEW i \in DOMAIN waiters, Grant(i) PROVE Admission!Next
  <2>1. waiters[i] \in Clients
    BY DEF IInv, WritesTypeOK
  <2>. QED
    BY <1>1, <2>1, GrantAdmits DEF Admission!Next
<1>2. ASSUME NEW c \in Clients, NEW r \in Requests, Acquire(c, r) PROVE Admission!Next
  BY <1>2, AcquireAsks DEF Admission!Next
<1>3. ASSUME NEW c \in Clients, CancelQueued(c) PROVE Admission!Next
  <2>1. PICK i \in DOMAIN waiters : waiters[i] = c /\ waiters' = RemoveAt(waiters, i)
    BY <1>3 DEF CancelQueued
  <2>2. c \in Waiting /\ Waiting' = Waiting \ {c}
    BY <2>1, RemovedWaiting DEF Waiting
  <2>3. leases' = leases
    BY <1>3 DEF CancelQueued, leaseVars
  <2>. QED
    BY <2>2, <2>3 DEF Admission!Next, Admission!Withdraw
<1>4. ASSUME NEW c \in Clients, ReleaseLease(c) PROVE Admission!Next
  <2>1. c \in leases /\ leases' = leases \ {c} /\ waiters' = waiters
    BY <1>4 DEF ReleaseLease, IInv, LeaseSound
  <2>2. Waiting' = Waiting
    BY <2>1 DEF Waiting
  <2>. QED
    BY <2>1, <2>2 DEF Admission!Next, Admission!Leave
<1>5. ASSUME NEW c \in Clients, TakeReady(c) \/ CancelGranted(c) \/ CancelContext(c) \/ Age(c)
      PROVE  UNCHANGED <<Waiting, leases>>
  BY <1>0, <1>5 DEF TakeReady, CancelGranted, CancelContext, Age, leaseVars
<1>6. ASSUME NEW c \in Clients, NEW b \in Bytes, UpdateBytes(c, b)
      PROVE  UNCHANGED <<Waiting, leases>>
  BY <1>0, <1>6 DEF UpdateBytes
<1>7. CASE DispatchDone
  BY <1>0, <1>7 DEF DispatchDone, leaseVars
<1>8. CASE UNCHANGED writesVars
  BY <1>0, <1>8 DEF writesVars, leaseVars
<1>. QED
  BY <1>1, <1>2, <1>3, <1>4, <1>5, <1>6, <1>7, <1>8 DEF WritesNext, CancelWaiter

\* Whatever the queue, the ranks, the byte target and the races of grants with
\* cancellations do, the callers of Acquire see the admission of WriterAdmission:
\* one writer per tenant, no more writers than slots, nobody admitted unasked.
THEOREM AdmissionImplemented == WritesSpec => ImplementsAdmission
<1>1. WritesInit => Admission!Init
  BY DEF WritesInit, Admission!Init, Waiting
<1>. QED
  BY InitIInv, NextIInv, StepAdmission, <1>1, PTL
  DEF WritesSpec, ImplementsAdmission, Admission!Spec

-----------------------------------------------------------------------------
(* No admissible request is left behind *)

\* A nonempty set of queue positions has an earliest one.
LEMMA EarliestExists ==
    ASSUME NEW S \in SUBSET Nat, S # {}
    PROVE  \E i \in S : \A j \in S : i <= j
<1>1. PICK i \in S : \A j \in S : <<j, i>> \notin OpToRel(<, Nat)
  BY NatLessThanWellFounded, WFMin
<1>2. ASSUME NEW j \in S, ~(i <= j) PROVE FALSE
  <2>1. j \in Nat /\ i \in Nat /\ j < i
    BY <1>2
  <2>2. <<j, i>> \in OpToRel(<, Nat)
    BY <2>1 DEF OpToRel
  <2>. QED
    BY <1>1, <2>2
<1>. QED
  BY <1>2

LEMMA RankRange == ASSUME WritesTypeOK, NEW c \in Clients PROVE Rank(c) \in 0..Foreground
<1>1. request[c].prio \in 0..2 /\ age[c] \in 0..2
  BY DEF WritesTypeOK, AnyRequest, Foreground
<1>. QED
  BY <1>1 DEF Rank, Foreground

\* Among runnable waiters bestCandidateLocked always finds one.
LEMMA BestExists ==
    ASSUME WritesTypeOK, Runnable # {}
    PROVE  \E i \in DOMAIN waiters : IsBest(i)
<1> DEFINE P == {i \in DOMAIN waiters : waiters[i] \in Runnable}
           Ranked(k) == {i \in P : Rank(waiters[i]) = k}
<1>1. P \subseteq Nat /\ P # {} /\ DOMAIN waiters \subseteq Nat
  BY DEF WritesTypeOK, Runnable, Waiting
<1>2. \A i \in P : waiters[i] \in Clients
  BY DEF WritesTypeOK
<1>3. \A i \in P : Rank(waiters[i]) \in {0, 1, 2}
  BY <1>2, RankRange DEF Foreground
<1>4. PICK k \in {0, 1, 2} : Ranked(k) # {} /\ \A i \in P : Rank(waiters[i]) <= k
  <2>1. CASE Ranked(2) # {}
    BY <1>3, <2>1
  <2>2. CASE Ranked(2) = {} /\ Ranked(1) # {}
    BY <1>3, <2>2
  <2>3. CASE Ranked(2) = {} /\ Ranked(1) = {}
    BY <1>1, <1>3, <2>3
  <2>. QED
    BY <2>1, <2>2, <2>3
<1>5. Ranked(k) \subseteq Nat
  BY <1>1
<1>6. PICK i \in Ranked(k) : \A j \in Ranked(k) : i <= j
  BY <1>4, <1>5, EarliestExists
<1>7. \A j \in P : Rank(waiters[j]) < k \/ (Rank(waiters[j]) = k /\ i <= j)
  BY <1>3, <1>4, <1>6
<1>. QED
  BY <1>6, <1>7 DEF IsBest

LEMMA NextNoLostDispatch == IInv /\ NoLostDispatch /\ [WritesNext]_writesVars => NoLostDispatch'
<1> SUFFICES ASSUME IInv, NoLostDispatch, [WritesNext]_writesVars, ~dispatching' PROVE NoLostDispatch'
  BY DEF NoLostDispatch
<1>1. ASSUME ~dispatching, UNCHANGED <<waiters, request, activeUsers, activeWrites, activeBytes>>
      PROVE  NoLostDispatch'
  BY <1>1 DEF NoLostDispatch, Runnable, Waiting, BytesAvailable
<1>2. CASE DispatchDone
  <2>1. UNCHANGED <<waiters, request, activeUsers, activeWrites, activeBytes>>
    BY <1>2 DEF DispatchDone, clientVars, leaseVars
  <2>2. ASSUME activeWrites < MaxActive, Runnable # {}
        PROVE  \E c \in Runnable : ~BytesAvailable(request[c].bytes)
    <3>1. PICK i \in DOMAIN waiters : IsBest(i)
      BY <2>2, BestExists DEF IInv
    <3>2. waiters[i] \in Runnable /\ ~BytesAvailable(request[waiters[i]].bytes)
      BY <1>2, <2>2, <3>1 DEF DispatchDone, Candidate, IsBest
    <3>. QED
      BY <3>2
  <2>. QED
    BY <2>1, <2>2 DEF NoLostDispatch, Runnable, Waiting, BytesAvailable
<1>3. ASSUME NEW i \in DOMAIN waiters, Grant(i) PROVE FALSE
  BY <1>3 DEF Grant
<1>4. ASSUME NEW c \in Clients, NEW r \in Requests, Acquire(c, r) PROVE FALSE
  BY <1>4 DEF Acquire
<1>5. ASSUME NEW c \in Clients, CancelQueued(c) \/ ReleaseLease(c) PROVE FALSE
  BY <1>5 DEF CancelQueued, ReleaseLease
<1>6. ASSUME NEW c \in Clients, NEW b \in Bytes, UpdateBytes(c, b) PROVE FALSE
  BY <1>6 DEF UpdateBytes
<1>7. ASSUME NEW c \in Clients, TakeReady(c) \/ CancelGranted(c) \/ CancelContext(c)
      PROVE  NoLostDispatch'
  BY <1>1, <1>7 DEF TakeReady, CancelGranted, CancelContext, leaseVars
<1>8. ASSUME NEW c \in Clients, Age(c) PROVE NoLostDispatch'
  BY <1>1, <1>8 DEF Age, leaseVars
<1>9. CASE UNCHANGED writesVars
  BY <1>1, <1>9 DEF writesVars, clientVars, leaseVars
<1>. QED
  BY <1>2, <1>3, <1>4, <1>5, <1>6, <1>7, <1>8, <1>9 DEF WritesNext, CancelWaiter

\* A dispatch happens after every change that can free a slot or bytes, and it
\* stops only for the bytes of a waiter it must not overtake: no waiter that fits
\* sits in the queue while nobody runs the loop for it.
THEOREM NothingLeftBehind == WritesSpec => []NoLostDispatch
<1>1. WritesInit => NoLostDispatch
  BY DEF WritesInit, NoLostDispatch, Runnable, Waiting
<1>. QED
  BY InitIInv, NextIInv, NextNoLostDispatch, <1>1, PTL DEF WritesSpec
-----------------------------------------------------------------------------
(* The soft byte target *)

\* Admission respects the soft byte target.
LEMMA StepSoftByteTarget ==
    ASSUME IInv, [WritesNext]_writesVars, leases \subseteq leases', leases # leases'
    PROVE  leases = {} \/ activeBytes' <= MaxActiveBytes
<1>1. ASSUME NEW i \in DOMAIN waiters, Grant(i)
      PROVE  leases = {} \/ activeBytes' <= MaxActiveBytes
  <2>1. CASE activeWrites = 0
    BY <2>1, FS_EmptySet DEF IInv, SlotsExact
  <2>2. CASE activeWrites # 0
    <3>1. request[waiters[i]].bytes \in Nat /\ activeBytes \in Nat
      BY DEF IInv, WritesTypeOK, AnyRequest
    <3>2. activeBytes <= MaxActiveBytes - request[waiters[i]].bytes
      BY <1>1, <2>2 DEF Grant, Candidate, BytesAvailable
    <3>3. activeBytes' = activeBytes + request[waiters[i]].bytes
      BY <1>1 DEF Grant
    <3>. QED
      BY <3>1, <3>2, <3>3, BoundsAssumption
  <2>. QED
    BY <2>1, <2>2
<1>2. ASSUME NEW c \in Clients, ReleaseLease(c) PROVE FALSE
  BY <1>2 DEF ReleaseLease
<1>. QED
  BY <1>1, <1>2 DEF WritesNext, CancelWaiter, DispatchDone, Acquire, TakeReady, CancelGranted,
     CancelQueued, CancelContext, Age, UpdateBytes, writesVars, leaseVars

\* An admission takes the admitted bytes above the soft target only when nobody
\* was writing: what was checked against the target is what was added.
THEOREM TargetRespected == WritesSpec => SoftByteTarget
<1>1. IInv /\ [WritesNext]_writesVars => [ leases \subseteq leases' /\ leases # leases' =>
            leases = {} \/ activeBytes' <= MaxActiveBytes ]_writesVars
  BY StepSoftByteTarget
<1>. QED
  BY InitIInv, NextIInv, <1>1, PTL DEF WritesSpec, SoftByteTarget

-----------------------------------------------------------------------------
(* The bytes of the leases add up *)

\* An element of a set, the one the fold of the library takes first.
Pick(T) == CHOOSE x \in T : TRUE

\* The equation of a sum, and the function SumFunctionOnSet chooses by it.
Summing(f, S) ==
    CHOOSE sum : sum = [T \in SUBSET S |-> IF T = {} THEN 0 ELSE f[Pick(T)] + sum[T \ {Pick(T)}]]

LEMMA SumDefined ==
    ASSUME NEW f, NEW S
    PROVE  SumFunctionOnSet(f, S) = Summing(f, S)[S]
BY DEF SumFunctionOnSet, FoldFunctionOnSet, MapThenFoldSet, Summing, Pick

LEMMA PickIn == ASSUME NEW T, T # {} PROVE Pick(T) \in T
BY DEF Pick

\* Induction over the subsets of a finite set.
LEMMA SubsetInduction ==
    ASSUME NEW S, IsFiniteSet(S), NEW Q \in SUBSET SUBSET S,
           \A T \in SUBSET S : (\A x \in T : T \ {x} \in Q) => T \in Q
    PROVE  \A T \in SUBSET S : T \in Q
<1> SUFFICES ASSUME NEW B \in SUBSET S, B \notin Q PROVE FALSE
  OBVIOUS
<1> DEFINE bad == {T \in SUBSET S : T \notin Q}
           sizes == {Cardinality(T) : T \in bad}
<1>1. \A T \in SUBSET S : IsFiniteSet(T) /\ Cardinality(T) \in Nat
  BY FS_Subset, FS_CardinalityType
<1>2. sizes \in SUBSET Nat /\ sizes # {}
  BY <1>1
<1>3. PICK n \in sizes : \A m \in sizes : n <= m
  BY <1>2, EarliestExists
<1>4. PICK T \in bad : Cardinality(T) = n
  BY <1>3
<1>5. PICK x \in T : T \ {x} \notin Q
  BY <1>4
<1>6. Cardinality(T \ {x}) = Cardinality(T) - 1 /\ T \ {x} \in bad
  BY <1>1, <1>4, <1>5, FS_RemoveElement
<1>7. Cardinality(T \ {x}) \in sizes /\ n \in Nat
  BY <1>2, <1>3, <1>6
<1>. QED
  BY <1>3, <1>4, <1>6, <1>7

\* f gives every element of S a natural number.
NaturalOn(f, S) == \A x \in S : f[x] \in Nat

\* g gives the sum of f over every subset of S.
Solution(g, f, S) ==
    /\ g \in [SUBSET S -> Nat]
    /\ \A T \in SUBSET S : g[T] = IF T = {} THEN 0 ELSE f[Pick(T)] + g[T \ {Pick(T)}]

\* A finite set of naturals has a sum: the equation has a solution.
LEMMA SumExists ==
    ASSUME NEW S, IsFiniteSet(S), NEW f, NaturalOn(f, S)
    PROVE  \E g : Solution(g, f, S)
<1> DEFINE Upto(n) == {T \in SUBSET S : Cardinality(T) <= n}
           Solved(n) == \E g \in [Upto(n) -> Nat] :
              \A T \in Upto(n) : g[T] = IF T = {} THEN 0 ELSE f[Pick(T)] + g[T \ {Pick(T)}]
           unsolved == {n \in Nat : ~Solved(n)}
<1>1. \A T \in SUBSET S : IsFiniteSet(T) /\ Cardinality(T) \in Nat
  BY FS_Subset, FS_CardinalityType
<1>2. Solved(0)
  <2>1. \A T \in Upto(0) : T = {}
    BY <1>1, FS_EmptySet
  <2>2. [T \in Upto(0) |-> 0] \in [Upto(0) -> Nat]
    OBVIOUS
  <2>. QED
    BY <2>1, <2>2
<1>3. ASSUME NEW n \in Nat, Solved(n) PROVE Solved(n + 1)
  <2>1. PICK g \in [Upto(n) -> Nat] :
          \A T \in Upto(n) : g[T] = IF T = {} THEN 0 ELSE f[Pick(T)] + g[T \ {Pick(T)}]
    BY <1>3
  <2> DEFINE e == [T \in Upto(n + 1) |-> IF T = {} THEN 0 ELSE f[Pick(T)] + g[T \ {Pick(T)}]]
  <2>2. ASSUME NEW T \in Upto(n + 1), T # {}
        PROVE  Pick(T) \in S /\ T \ {Pick(T)} \in Upto(n) /\ T \ {Pick(T)} \in Upto(n + 1)
    <3>1. Pick(T) \in T
      BY <2>2, PickIn
    <3>2. Cardinality(T \ {Pick(T)}) = Cardinality(T) - 1
      BY <1>1, <3>1, FS_RemoveElement
    <3>. QED
      BY <1>1, <3>1, <3>2
  <2>3. \A T \in Upto(n + 1) : e[T] \in Nat
    BY <2>1, <2>2 DEF NaturalOn
  <2>4. e \in [Upto(n + 1) -> Nat]
    BY <2>3
  <2>5. ASSUME NEW T \in Upto(n + 1), T # {}
        PROVE  e[T] = f[Pick(T)] + e[T \ {Pick(T)}]
    <3> DEFINE R == T \ {Pick(T)}
    <3>1. R \in Upto(n) /\ R \in Upto(n + 1)
      BY <2>2, <2>5
    <3>2. e[T] = f[Pick(T)] + g[R]
      BY <2>5
    <3>3. e[R] = g[R]
      BY <2>1, <3>1
    <3>. QED
      BY <3>2, <3>3
  <2>6. \A T \in Upto(n + 1) : e[T] = IF T = {} THEN 0 ELSE f[Pick(T)] + e[T \ {Pick(T)}]
    BY <2>5
  <2>. QED
    BY <2>4, <2>6
<1> HIDE DEF Solved
<1>4. unsolved = {}
  <2> SUFFICES ASSUME unsolved # {} PROVE FALSE
    OBVIOUS
  <2>1. PICK n \in unsolved : \A m \in unsolved : n <= m
    BY EarliestExists
  <2>2. n # 0
    BY <1>2, <2>1
  <2>3. n - 1 \in Nat /\ Solved(n - 1) /\ (n - 1) + 1 = n
    BY <2>1, <2>2
  <2>4. Solved((n - 1) + 1)
    BY <1>3, <2>3
  <2>. QED
    BY <2>1, <2>3, <2>4
<1>5. Upto(Cardinality(S)) = SUBSET S
  BY <1>1, FS_Subset
<1>6. Solved(Cardinality(S))
  BY <1>4, FS_CardinalityType
<1> HIDE DEF Upto
<1>. QED
  BY <1>5, <1>6 DEF Solved, Solution

\* The function the library chooses is such a solution.
LEMMA SummingProperties ==
    ASSUME NEW S, IsFiniteSet(S), NEW f, \A x \in S : f[x] \in Nat
    PROVE  /\ \A T \in SUBSET S : Summing(f, S)[T] \in Nat
           /\ Summing(f, S)[{}] = 0
           /\ \A T \in SUBSET S : T # {} =>
                 Summing(f, S)[T] = f[Pick(T)] + Summing(f, S)[T \ {Pick(T)}]
<1> DEFINE Eq(g) == g = [T \in SUBSET S |-> IF T = {} THEN 0 ELSE f[Pick(T)] + g[T \ {Pick(T)}]]
           s == Summing(f, S)
<1>1. PICK g : Solution(g, f, S)
  <2>1. NaturalOn(f, S)
    BY DEF NaturalOn
  <2>. QED
    BY <2>1, SumExists
<1>2. Eq(g)
  BY <1>1 DEF Solution
<1>3. Eq(s)
  BY <1>2 DEF Summing
<1> HIDE DEF s
<1>4. \A T \in SUBSET S : s[T] = IF T = {} THEN 0 ELSE f[Pick(T)] + s[T \ {Pick(T)}]
  BY <1>3
<1>5. \A T \in SUBSET S : s[T] \in Nat
  <2> DEFINE Q == {T \in SUBSET S : s[T] \in Nat}
  <2>1. ASSUME NEW T \in SUBSET S, \A x \in T : T \ {x} \in Q PROVE T \in Q
    <3>1. CASE T = {}
      <4>1. s[T] = 0
        BY <1>4, <3>1
      <4>. QED
        BY <4>1
    <3>2. CASE T # {}
      <4>1. Pick(T) \in T
        BY <3>2, PickIn
      <4>2. f[Pick(T)] \in Nat /\ s[T \ {Pick(T)}] \in Nat
        BY <2>1, <4>1
      <4>3. s[T] = f[Pick(T)] + s[T \ {Pick(T)}]
        BY <1>4, <3>2
      <4>4. s[T] \in Nat
        BY <4>2, <4>3
      <4>. QED
        BY <4>4
    <3>. QED
      BY <3>1, <3>2
  <2>2. Q \in SUBSET SUBSET S
    OBVIOUS
  <2> HIDE DEF Q
  <2>3. \A T \in SUBSET S : T \in Q
    BY <2>1, <2>2, SubsetInduction
  <2>. QED
    BY <2>3 DEF Q
<1>. QED
  BY <1>4, <1>5 DEF s

\* Any element may be taken out of the sum first.
LEMMA SummingTakesAny ==
    ASSUME NEW S, IsFiniteSet(S), NEW f, \A x \in S : f[x] \in Nat
    PROVE  \A T \in SUBSET S : \A x \in T :
              Summing(f, S)[T] = f[x] + Summing(f, S)[T \ {x}]
<1> DEFINE s == Summing(f, S)
           Q == {T \in SUBSET S : \A x \in T : s[T] = f[x] + s[T \ {x}]}
<1>1. /\ \A T \in SUBSET S : s[T] \in Nat
      /\ \A T \in SUBSET S : T # {} => s[T] = f[Pick(T)] + s[T \ {Pick(T)}]
  BY SummingProperties
<1> HIDE DEF s
<1>2. ASSUME NEW T \in SUBSET S, \A x \in T : T \ {x} \in Q, NEW x \in T
      PROVE  s[T] = f[x] + s[T \ {x}]
  <2> DEFINE p == Pick(T)
  <2>1. p \in T /\ s[T] = f[p] + s[T \ {p}]
    BY <1>1, PickIn
  <2> HIDE DEF p
  <2>2. CASE p = x
    BY <2>1, <2>2
  <2>3. CASE p # x
    <3>1. s[T \ {p}] = f[x] + s[(T \ {p}) \ {x}]
      BY <1>2, <2>1, <2>3
    <3>2. s[T \ {x}] = f[p] + s[(T \ {x}) \ {p}]
      BY <1>2, <2>1, <2>3
    <3>3. (T \ {p}) \ {x} = (T \ {x}) \ {p}
      OBVIOUS
    <3>4. s[(T \ {x}) \ {p}] \in Nat /\ f[p] \in Nat /\ f[x] \in Nat
      BY <1>1, <2>1
    <3> DEFINE a == s[T \ {p}]
               b == s[T \ {x}]
               rest == s[(T \ {x}) \ {p}]
    <3>5. /\ s[T] = f[p] + a /\ a = f[x] + rest /\ b = f[p] + rest
          /\ rest \in Nat /\ f[p] \in Nat /\ f[x] \in Nat
      BY <2>1, <3>1, <3>2, <3>3, <3>4
    <3> HIDE DEF a, b, rest
    <3>6. s[T] = f[x] + b
      BY <3>5
    <3>. QED
      BY <3>6 DEF b
  <2>. QED
    BY <2>2, <2>3
<1>3. Q \in SUBSET SUBSET S
  OBVIOUS
<1>4. ASSUME NEW T \in SUBSET S, \A x \in T : T \ {x} \in Q PROVE T \in Q
  BY <1>2, <1>4
<1> HIDE DEF Q
<1>5. \A T \in SUBSET S : T \in Q
  BY <1>3, <1>4, SubsetInduction
<1>. QED
  BY <1>5 DEF Q, s

\* A sum depends only on the values of its elements.
LEMMA SummingAgrees ==
    ASSUME NEW S, IsFiniteSet(S), NEW f, \A x \in S : f[x] \in Nat,
           NEW R, IsFiniteSet(R), NEW g, \A x \in R : g[x] \in Nat,
           NEW U, U \subseteq S, U \subseteq R, \A x \in U : f[x] = g[x]
    PROVE  Summing(f, S)[U] = Summing(g, R)[U]
<1> DEFINE s == Summing(f, S)
           r == Summing(g, R)
           Q == {T \in SUBSET U : s[T] = r[T]}
<1>1. s[{}] = 0 /\ \A T \in SUBSET S : T # {} => s[T] = f[Pick(T)] + s[T \ {Pick(T)}]
  BY SummingProperties
<1>2. r[{}] = 0 /\ \A T \in SUBSET R : T # {} => r[T] = g[Pick(T)] + r[T \ {Pick(T)}]
  BY SummingProperties
<1> HIDE DEF s, r
<1>3. ASSUME NEW T \in SUBSET U, \A x \in T : T \ {x} \in Q PROVE s[T] = r[T]
  <2>1. CASE T = {}
    BY <1>1, <1>2, <2>1
  <2>2. CASE T # {}
    <3>1. Pick(T) \in T
      BY <2>2, PickIn
    <3>2. s[T \ {Pick(T)}] = r[T \ {Pick(T)}] /\ f[Pick(T)] = g[Pick(T)]
      BY <1>3, <3>1
    <3>3. T \in SUBSET S /\ T \in SUBSET R
      OBVIOUS
    <3>. QED
      BY <1>1, <1>2, <2>2, <3>2, <3>3
  <2>. QED
    BY <2>1, <2>2
<1>4. IsFiniteSet(U)
  BY FS_Subset
<1>5. Q \in SUBSET SUBSET U
  OBVIOUS
<1>6. ASSUME NEW T \in SUBSET U, \A x \in T : T \ {x} \in Q PROVE T \in Q
  BY <1>3, <1>6
<1> HIDE DEF Q
<1>7. \A T \in SUBSET U : T \in Q
  BY <1>4, <1>5, <1>6, SubsetInduction
<1>. QED
  BY <1>7 DEF Q, s, r

\* What SumFunctionOnSet is: nothing for no element, and the value of any one
\* element added to the sum of the others.
LEMMA SumOfNone == ASSUME NEW f PROVE SumFunctionOnSet(f, {}) = 0
  BY SumDefined, SummingProperties, FS_EmptySet

LEMMA SumOf ==
    ASSUME NEW S, IsFiniteSet(S), NEW f, \A y \in S : f[y] \in Nat, NEW x \in S
    PROVE  /\ SumFunctionOnSet(f, S) \in Nat
           /\ SumFunctionOnSet(f, S \ {x}) \in Nat
           /\ SumFunctionOnSet(f, S) = f[x] + SumFunctionOnSet(f, S \ {x})
<1> DEFINE R == S \ {x}
<1>1. IsFiniteSet(R)
  BY FS_Subset
<1>2. Summing(f, S)[S] = f[x] + Summing(f, S)[R]
  BY SummingTakesAny
<1>3. Summing(f, S)[R] = Summing(f, R)[R]
  BY <1>1, SummingAgrees
<1>4. Summing(f, S)[S] \in Nat /\ Summing(f, R)[R] \in Nat
  BY <1>1, SummingProperties
<1>. QED
  BY <1>2, <1>3, <1>4, SumDefined

LEMMA SumSame ==
    ASSUME NEW S, IsFiniteSet(S), NEW f, \A y \in S : f[y] \in Nat,
           NEW g, \A y \in S : g[y] = f[y]
    PROVE  SumFunctionOnSet(g, S) = SumFunctionOnSet(f, S)
<1>1. \A y \in S : g[y] \in Nat
  OBVIOUS
<1>2. Summing(g, S)[S] = Summing(f, S)[S]
  BY <1>1, SummingAgrees
<1>. QED
  BY <1>2, SumDefined

\* The part of ExactAccounting that adds up: with IInv it is inductive.
BytesAddUp == activeBytes = SumFunctionOnSet(leaseBytes, leases)

\* A marked tenant has a live lease.
MarkedHasLease == \A u \in Users : activeUsers[u] # 0 => \E c \in leases : UserOf[c] = u

LEMMA NextBytesAddUp == IInv /\ BytesAddUp /\ [WritesNext]_writesVars => BytesAddUp'
<1> SUFFICES ASSUME IInv, BytesAddUp, [WritesNext]_writesVars PROVE BytesAddUp'
  OBVIOUS
<1> DEFINE Sum(f, S) == SumFunctionOnSet(f, S)
<1>1. /\ IsFiniteSet(leases) /\ leases \subseteq Clients
      /\ leaseBytes \in [Clients -> Nat] /\ activeBytes \in Nat
      /\ activeBytes = Sum(leaseBytes, leases)
      /\ \A d \in leases : leaseBytes[d] \in Nat
  BY DEF IInv, SlotsExact, WritesTypeOK, BytesAddUp
<1>2. ASSUME UNCHANGED <<leases, leaseBytes, activeBytes>> PROVE BytesAddUp'
  BY <1>2 DEF BytesAddUp
<1>3. ASSUME NEW i \in DOMAIN waiters, Grant(i) PROVE BytesAddUp'
  <2> DEFINE c == waiters[i]
             b == request[c].bytes
  <2>1. c \in Clients /\ c \notin leases /\ b \in Nat
    BY DEF IInv, QueueSound, WritesTypeOK, AnyRequest
  <2>2. /\ leases' = leases \cup {c}
        /\ leaseBytes' = [leaseBytes EXCEPT ![c] = b]
        /\ activeBytes' = activeBytes + b
    BY <1>3 DEF Grant
  <2> HIDE DEF b, c
  <2>3. IsFiniteSet(leases') /\ leases' \ {c} = leases /\ c \in leases'
    BY <1>1, <2>1, <2>2, FS_AddElement
  <2>4. /\ leaseBytes'[c] = b
        /\ \A d \in leases : leaseBytes'[d] = leaseBytes[d]
        /\ \A d \in leases' : leaseBytes'[d] \in Nat
    BY <1>1, <2>1, <2>2
  <2>5. Sum(leaseBytes', leases') = leaseBytes'[c] + Sum(leaseBytes', leases' \ {c})
    BY <2>3, <2>4, SumOf
  <2>6. Sum(leaseBytes', leases) = Sum(leaseBytes, leases)
    BY <1>1, <2>4, SumSame
  <2>7. Sum(leaseBytes', leases') = b + Sum(leaseBytes, leases)
    BY <2>3, <2>4, <2>5, <2>6
  <2>8. activeBytes' = Sum(leaseBytes', leases')
    BY <1>1, <2>1, <2>2, <2>7
  <2>. QED
    BY <2>8 DEF BytesAddUp
<1>4. ASSUME NEW c \in Clients, c \in leases
      PROVE  /\ activeBytes = leaseBytes[c] + Sum(leaseBytes, leases \ {c})
             /\ activeBytes >= leaseBytes[c]
             /\ activeBytes - leaseBytes[c] = Sum(leaseBytes, leases \ {c})
             /\ Sum(leaseBytes, leases \ {c}) \in Nat
  <2>1. /\ Sum(leaseBytes, leases) = leaseBytes[c] + Sum(leaseBytes, leases \ {c})
        /\ Sum(leaseBytes, leases \ {c}) \in Nat
    BY <1>1, <1>4, SumOf
  <2>. QED
    BY <1>1, <1>4, <2>1
<1>5. ASSUME NEW c \in Clients, ReleaseLease(c) PROVE BytesAddUp'
  <2>1. c \in leases
    BY <1>5 DEF ReleaseLease, IInv, LeaseSound
  <2>2. /\ leases' = leases \ {c}
        /\ leaseBytes' = [leaseBytes EXCEPT ![c] = 0]
        /\ activeBytes' = IF activeBytes >= leaseBytes[c] THEN activeBytes - leaseBytes[c] ELSE 0
    BY <1>5 DEF ReleaseLease
  <2>3. activeBytes' = Sum(leaseBytes, leases \ {c})
    BY <1>4, <2>1, <2>2
  <2>4. IsFiniteSet(leases \ {c})
    BY <1>1, FS_Subset
  <2>5. \A d \in leases \ {c} : leaseBytes'[d] = leaseBytes[d] /\ leaseBytes[d] \in Nat
    BY <1>1, <2>2
  <2>6. Sum(leaseBytes', leases \ {c}) = Sum(leaseBytes, leases \ {c})
    BY <2>4, <2>5, SumSame
  <2>. QED
    BY <2>2, <2>3, <2>6 DEF BytesAddUp
<1>6. ASSUME NEW c \in Clients, NEW b \in Bytes, UpdateBytes(c, b) PROVE BytesAddUp'
  <2>1. c \in leases /\ b \in Nat
    BY <1>6, RequestAssumption DEF UpdateBytes, IInv, LeaseSound
  <2>2. /\ leases' = leases
        /\ leaseBytes' = [leaseBytes EXCEPT ![c] = b]
        /\ activeBytes' = b + IF activeBytes >= leaseBytes[c] THEN activeBytes - leaseBytes[c] ELSE 0
    BY <1>6 DEF UpdateBytes
  <2>3. activeBytes' = b + Sum(leaseBytes, leases \ {c})
    BY <1>4, <2>1, <2>2
  <2>4. IsFiniteSet(leases \ {c})
    BY <1>1, FS_Subset
  <2>5. /\ leaseBytes'[c] = b
        /\ \A d \in leases \ {c} : leaseBytes'[d] = leaseBytes[d] /\ leaseBytes[d] \in Nat
        /\ \A d \in leases : leaseBytes'[d] \in Nat
    BY <1>1, <2>1, <2>2
  <2>6. Sum(leaseBytes', leases \ {c}) = Sum(leaseBytes, leases \ {c})
    BY <2>4, <2>5, SumSame
  <2>7. Sum(leaseBytes', leases) = leaseBytes'[c] + Sum(leaseBytes', leases \ {c})
    BY <1>1, <2>1, <2>5, SumOf
  <2>. QED
    BY <2>2, <2>3, <2>5, <2>6, <2>7 DEF BytesAddUp
<1>. QED
  BY <1>2, <1>3, <1>5, <1>6 DEF WritesNext, CancelWaiter, DispatchDone, Acquire, TakeReady,
     CancelGranted, CancelQueued, CancelContext, Age, writesVars, leaseVars

LEMMA NextMarkedHasLease == IInv /\ MarkedHasLease /\ [WritesNext]_writesVars => MarkedHasLease'
<1> SUFFICES ASSUME IInv, MarkedHasLease, [WritesNext]_writesVars PROVE MarkedHasLease'
  OBVIOUS
<1>1. ASSUME UNCHANGED <<leases, activeUsers>> PROVE MarkedHasLease'
  BY <1>1 DEF MarkedHasLease
<1>2. ASSUME NEW i \in DOMAIN waiters, Grant(i) PROVE MarkedHasLease'
  <2> DEFINE c == waiters[i]
  <2>1. leases' = leases \cup {c} /\ activeUsers' = [activeUsers EXCEPT ![UserOf[c]] = @ + 1]
    BY <1>2 DEF Grant
  <2> HIDE DEF c
  <2>. QED
    BY <2>1 DEF MarkedHasLease, IInv, WritesTypeOK
<1>3. ASSUME NEW c \in Clients, ReleaseLease(c) PROVE MarkedHasLease'
  <2>1. /\ leases' = leases \ {c}
        /\ activeUsers' = [activeUsers EXCEPT ![UserOf[c]] = IF @ <= 1 THEN 0 ELSE @ - 1]
        /\ c \in leases
    BY <1>3 DEF ReleaseLease, IInv, LeaseSound
  <2>2. activeUsers[UserOf[c]] = 1 /\ UserOf[c] \in Users /\ activeUsers \in [Users -> Nat]
    BY <2>1, ClientsAssumption DEF IInv, UsersSound, WritesTypeOK
  <2>3. activeUsers' = [activeUsers EXCEPT ![UserOf[c]] = 0]
    BY <2>1, <2>2
  <2>. QED
    BY <2>1, <2>2, <2>3 DEF MarkedHasLease
<1>. QED
  BY <1>1, <1>2, <1>3 DEF WritesNext, CancelWaiter, DispatchDone, Acquire, TakeReady,
     CancelGranted, CancelQueued, CancelContext, Age, UpdateBytes, clientVars, writesVars, leaseVars

LEMMA AccountsFollow == IInv /\ BytesAddUp /\ MarkedHasLease => ExactAccounting
<1> SUFFICES ASSUME IInv, BytesAddUp, MarkedHasLease PROVE ExactAccounting
  OBVIOUS
<1>1. ASSUME NEW u \in Users
      PROVE  activeUsers[u] = Cardinality({c \in leases : UserOf[c] = u})
  <2>1. CASE activeUsers[u] = 0
    <3>1. {c \in leases : UserOf[c] = u} = {}
      BY <2>1 DEF IInv, UsersSound
    <3>. QED
      BY <2>1, <3>1, FS_EmptySet
  <2>2. CASE activeUsers[u] # 0
    <3>1. PICK c \in leases : UserOf[c] = u
      BY <2>2 DEF MarkedHasLease
    <3>2. activeUsers[u] = 1 /\ {d \in leases : UserOf[d] = u} = {c}
      BY <3>1 DEF IInv, UsersSound, TenantExclusion
    <3>. QED
      BY <3>2, FS_Singleton
  <2>. QED
    BY <2>1, <2>2
<1>. QED
  BY <1>1 DEF ExactAccounting, IInv, LeaseSound, BytesAddUp

\* The counters are exactly what the live leases add up to, for any clients,
\* sizes and limits: however a grant races with the cancellation of its caller,
\* no slot, no byte and no tenant mark is leaked or given back twice.
THEOREM AccountsExact == WritesSpec => []ExactAccounting
<1>1. WritesInit => BytesAddUp
  BY SumOfNone DEF WritesInit, BytesAddUp
<1>2. WritesInit => MarkedHasLease
  BY DEF WritesInit, MarkedHasLease
<1>. QED
  BY InitIInv, NextIInv, NextBytesAddUp, NextMarkedHasLease, AccountsFollow, <1>1, <1>2, PTL
  DEF WritesSpec
==============================================================================
