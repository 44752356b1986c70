---------------------------- MODULE Store_proofs ----------------------------
(****************************************************************************)
(* Proofs about the two protocols of backend/store: SingleServer, for any    *)
(* number of deployments and runs and any time after which a holder is       *)
(* stale, and BlobCleanup, for any number of keepers, saves and accidents.   *)
(****************************************************************************)
EXTENDS SingleServer, BlobCleanup, FiniteSetTheorems, TLAPS

-----------------------------------------------------------------------------
(* The server that believes itself guarded has the live lock, and a live lock *)
(* has such a server, which has spoken lately.                                *)
LockInv ==
    /\ \A s \in Servers : server[s].guarded =>
           server[s].pc \in Holding /\ lock.live /\ lock.pid = server[s].pid
    /\ lock.live => lock.silent <= StaleAfter /\ \E s \in Servers : server[s].guarded

(* Sessions are told apart, and who has not got the lock does not hold it. *)
PidsInv ==
    /\ \A s \in Servers : Up(s) <=> server[s].pid # 0
    /\ \A s, t \in Servers : server[s].pid # 0 /\ server[s].pid = server[t].pid => s = t
    /\ \A s \in Servers : Up(s) /\ server[s].pc \notin Holding => server[s].pid # lock.pid

(* A session that was found silent is not that of a guarded server, now or    *)
(* later: who ends it ends no live lock.                                      *)
SeenInv ==
    \A s \in Servers :
        /\ server[s].pc = "terminating" =>
               server[s].seen # 0 /\ (lock.pid = server[s].seen => ~lock.live)
        /\ server[s].seen # 0 =>
               \A t \in Servers : server[t].pid = server[s].seen =>
                   server[t].pc \in Holding /\ ~server[t].guarded

WorkersInv ==
    \A r \in Runs : runs[r].worker # 0 =>
        \E s \in Servers : server[s].pc = "serving" /\ server[s].pid = runs[r].worker

TypesInv ==
    /\ shared \in BOOLEAN /\ faults \in 0 .. MaxFaults
    /\ lock \in [pid : {0} \cup Pids, live : BOOLEAN, silent : 0 .. StaleAfter + 1]
    /\ server \in [Servers -> Process] /\ runs \in [Runs -> Row]

ServersInv == TypesInv /\ LockInv /\ PidsInv /\ SeenInv /\ WorkersInv

-----------------------------------------------------------------------------
(* What a process is after a step that assigns some of its fields. *)
Is(s, pc, pid, seen, guarded) ==
    /\ server' \in [Servers -> Process]
    /\ server'[s].pc = pc /\ server'[s].pid = pid
    /\ server'[s].seen = seen /\ server'[s].guarded = guarded
    /\ \A t \in Servers : t # s => server'[t] = server[t]

LEMMA Fields ==
    ASSUME TypesInv, NEW s \in Servers
    PROVE  /\ server[s] \in Process /\ server[s].pid \in {0} \cup Pids /\ server[s].tries \in 0 .. Attempts
           /\ server[s].seen \in {0} \cup Pids /\ server[s].guarded \in BOOLEAN
           /\ lock.pid \in {0} \cup Pids /\ lock.live \in BOOLEAN /\ lock.silent \in 0 .. StaleAfter + 1
           /\ 0 \notin Pids /\ StaleAfter \in Nat
BY ServersAssumption DEF TypesInv, Process, Pids

(* An end leaves the lock as it was: only a holder is guarded, and the one    *)
(* that ends is either none or takes the lock with it.                        *)
LEMMA EndFields ==
    ASSUME TypesInv, NEW s \in Servers, server' = [server EXCEPT ![s] = Gone]
    PROVE  Is(s, "down", 0, 0, FALSE)
<1>1. Gone \in Process /\ Gone.pc = "down" /\ Gone.pid = 0 /\ Gone.seen = 0 /\ Gone.guarded = FALSE
  BY DEF Gone, Process, Attempts
<1> QED  BY <1>1 DEF TypesInv, Is

LEMMA OrphanedRows ==
    ASSUME TypesInv, PidsInv, WorkersInv, NEW s \in Servers
    PROVE  /\ Orphaned(s) \in [Runs -> Row]
           /\ \A r \in Runs : Orphaned(s)[r].status = runs[r].status
           /\ \A r \in Runs : Orphaned(s)[r].worker # 0 =>
                  Orphaned(s)[r].worker = runs[r].worker /\ runs[r].worker # server[s].pid
<1>1. ASSUME NEW r \in Runs
      PROVE  /\ Orphaned(s)[r] \in Row /\ Orphaned(s)[r].status = runs[r].status
             /\ Orphaned(s)[r].worker # 0 =>
                  Orphaned(s)[r].worker = runs[r].worker /\ runs[r].worker # server[s].pid
  <2>1. runs[r] \in Row
    BY DEF TypesInv
  <2>2. CASE server[s].pid # 0 /\ runs[r].worker = server[s].pid
    <3>1. Orphaned(s)[r] = [runs[r] EXCEPT !.worker = 0]
      BY <2>2 DEF Orphaned
    <3> QED  BY <2>1, <3>1 DEF Row
  <2>3. CASE ~(server[s].pid # 0 /\ runs[r].worker = server[s].pid)
    <3>1. Orphaned(s)[r] = runs[r]
      BY <2>3 DEF Orphaned
    <3> QED  BY <2>1, <2>3, <3>1
  <2> QED  BY <2>2, <2>3
<1>2. Orphaned(s) = [r \in Runs |-> Orphaned(s)[r]]
  BY DEF Orphaned
<1> QED  BY <1>1, <1>2

(* A process ends, and the lock stays as it is unless it was its own. *)
LEMMA Ended ==
    ASSUME ServersInv, NEW s \in Servers, server' = [server EXCEPT ![s] = Gone],
           shared' = shared, faults' \in 0 .. MaxFaults,
           runs' \in [Runs -> Row], \A r \in Runs : runs'[r].worker = Orphaned(s)[r].worker,
           lock' \in [pid : {0} \cup Pids, live : BOOLEAN, silent : 0 .. StaleAfter + 1],
           \/ lock' = lock /\ ~server[s].guarded
           \/ lock.pid = server[s].pid /\ ~lock'.live /\ lock'.pid \in {0, lock.pid}
    PROVE  ServersInv'
<1>1. Is(s, "down", 0, 0, FALSE)
  BY EndFields DEF ServersInv
<1>2. TypesInv'
  BY <1>1 DEF ServersInv, TypesInv, Is
<1>3. 0 \notin Pids /\ "down" \notin Holding
  BY DEF Pids, Holding
<1>4. LockInv'
  BY <1>1, <1>3 DEF ServersInv, LockInv, PidsInv, Is, Up
<1>5. PidsInv'
  BY <1>1, <1>3 DEF ServersInv, PidsInv, Is, Up
<1>6. SeenInv'
  BY <1>1, <1>3 DEF ServersInv, SeenInv, PidsInv, Is, Up
<1>7. WorkersInv'
  BY <1>1, OrphanedRows DEF ServersInv, WorkersInv, Is
<1> QED  BY <1>2, <1>4, <1>5, <1>6, <1>7 DEF ServersInv

(* A process moves, works on what it worked on, and takes no lock. *)
LEMMA Moved ==
    ASSUME ServersInv, NEW s \in Servers, NEW pc, NEW seen,
           Is(s, pc, server[s].pid, seen, server[s].guarded),
           UNCHANGED <<shared, lock>>, faults' \in 0 .. MaxFaults,
           runs' \in [Runs -> Row], \A r \in Runs : runs'[r].worker = runs[r].worker,
           Up(s), pc # "down", pc \in Holding <=> server[s].pc \in Holding,
           server[s].pc = "serving" => pc = "serving",
           pc = "terminating" => seen # 0 /\ (lock.pid = seen => ~lock.live),
           seen = server[s].seen \/ seen = 0 \/
             \A t \in Servers : server[t].pid = seen => server[t].pc \in Holding /\ ~server[t].guarded
    PROVE  ServersInv'
<1>1. TypesInv'
  BY DEF ServersInv, TypesInv, Is
<1>2. LockInv'
  BY DEF ServersInv, LockInv, Is
<1>3. PidsInv'
  BY DEF ServersInv, PidsInv, Is, Up
<1>4. SeenInv'
  <2>1. \A t \in Servers : /\ server'[t].pid = server[t].pid /\ server'[t].guarded = server[t].guarded
                           /\ server'[t].pc \in Holding <=> server[t].pc \in Holding
    BY DEF Is
  <2> QED  BY <2>1 DEF ServersInv, SeenInv, Is
<1>5. WorkersInv'
  BY DEF ServersInv, WorkersInv, Is
<1> QED  BY <1>1, <1>2, <1>3, <1>4, <1>5 DEF ServersInv

-----------------------------------------------------------------------------
(* A deployment starts a process, with a session nobody knows. *)
LEMMA StartStep ==
    ASSUME ServersInv, NEW s \in Servers, Start(s)
    PROVE  ServersInv'
<1>1. PICK pid \in Unused : server' = [server EXCEPT ![s] = [Gone EXCEPT !.pc = "waiting", !.pid = pid]]
  BY DEF Start
<1>2. /\ pid \in Pids /\ pid # lock.pid
      /\ \A t \in Servers : pid # server[t].pid /\ pid # server[t].seen
  BY <1>1 DEF Unused
<1> DEFINE q == [Gone EXCEPT !.pc = "waiting", !.pid = pid]
<1>3. q \in Process /\ q.pc = "waiting" /\ q.pid = pid /\ q.seen = 0 /\ q.guarded = FALSE
  <2>1. Gone \in Process /\ Gone.seen = 0 /\ Gone.guarded = FALSE
    BY DEF Gone, Process, Attempts
  <2> QED  BY <1>2, <2>1 DEF Process
<1>4. server' = [server EXCEPT ![s] = q]
  BY <1>1
<1> HIDE DEF q
<1>5. Is(s, "waiting", pid, 0, FALSE)
  BY <1>3, <1>4 DEF ServersInv, TypesInv, Is
<1>6. /\ ~Up(s) /\ UNCHANGED <<shared, lock, runs, faults>>
      /\ server[s].pid = 0 /\ ~server[s].guarded /\ pid # 0 /\ "waiting" \notin Holding
  BY <1>2 DEF Start, ServersInv, PidsInv, LockInv, Up, Pids, Holding
<1>7. TypesInv'
  BY <1>5, <1>6 DEF ServersInv, TypesInv, Is
<1>8. LockInv'
  BY <1>5, <1>6 DEF ServersInv, LockInv, Is
<1>9. PidsInv'
  BY <1>2, <1>5, <1>6 DEF ServersInv, PidsInv, Is, Up
<1>10. SeenInv'
  BY <1>2, <1>5, <1>6 DEF ServersInv, SeenInv, Is
<1>11. WorkersInv'
  BY <1>5, <1>6 DEF ServersInv, WorkersInv, Is, Up
<1> QED  BY <1>7, <1>8, <1>9, <1>10, <1>11 DEF ServersInv

(* The lock is free: nobody is guarded, and nobody is about to end the session *)
(* that takes it.                                                              *)
LEMMA TakeLockStep ==
    ASSUME ServersInv, NEW s \in Servers, TakeLock(s)
    PROVE  ServersInv'
<1>1. /\ server[s].pc = "waiting" /\ lock.pid = 0 /\ UNCHANGED <<shared, runs, faults>>
      /\ lock' = [pid |-> server[s].pid, live |-> TRUE, silent |-> 0]
      /\ "waiting" \notin Holding /\ "marking" \in Holding /\ "marking" # "serving"
  BY DEF TakeLock, Holding
<1>2. Is(s, "marking", server[s].pid, server[s].seen, TRUE)
  <2>1. server' = [server EXCEPT ![s] = [server[s] EXCEPT !.pc = "marking", !.guarded = TRUE]]
    BY DEF TakeLock
  <2>2. server \in [Servers -> Process] /\ server[s] \in Process
    BY DEF ServersInv, TypesInv
  <2> DEFINE q == [server[s] EXCEPT !.pc = "marking", !.guarded = TRUE]
  <2>3. q \in Process /\ q.pc = "marking" /\ q.pid = server[s].pid /\ q.seen = server[s].seen /\ q.guarded = TRUE
    BY <2>2 DEF Process, Holding
  <2> HIDE DEF q
  <2>4. server' = [server EXCEPT ![s] = q]
    BY <2>1 DEF q
  <2> QED  BY <2>2, <2>3, <2>4 DEF Is
<1>3. server[s].pid \in Pids /\ 0 \notin Pids /\ StaleAfter \in Nat
  BY <1>1, Fields DEF ServersInv, PidsInv, Up
<1>4. \A t \in Servers : ~server[t].guarded
  BY <1>1, <1>3 DEF ServersInv, LockInv, PidsInv, Up, Holding
<1>5. /\ lock'.pid = server[s].pid /\ lock'.live /\ lock'.silent = 0
      /\ lock' \in [pid : {0} \cup Pids, live : BOOLEAN, silent : 0 .. StaleAfter + 1]
  BY <1>1, <1>3
<1>6. TypesInv'
  BY <1>1, <1>2, <1>5 DEF ServersInv, TypesInv, Is
<1>7. LockInv'
  BY <1>1, <1>2, <1>3, <1>4, <1>5 DEF ServersInv, LockInv, Is
<1>8. PidsInv'
  BY <1>1, <1>2, <1>5 DEF ServersInv, PidsInv, Is, Up
<1>9. SeenInv'
  <2>1. \A t \in Servers : server[t].seen # 0 => server[t].seen # server[s].pid
    BY <1>1 DEF ServersInv, SeenInv
  <2> QED  BY <1>1, <1>2, <1>5, <2>1 DEF ServersInv, SeenInv, Is
<1>10. WorkersInv'
  BY <1>1, <1>2 DEF ServersInv, WorkersInv, Is
<1> QED  BY <1>6, <1>7, <1>8, <1>9, <1>10 DEF ServersInv

(* The lock is let go, or its session is no longer alive, or is heard of. *)
LEMMA LockChanges ==
    ASSUME ServersInv, UNCHANGED <<shared, server, runs, faults>>,
           lock' \in [pid : {0} \cup Pids, live : BOOLEAN, silent : 0 .. StaleAfter + 1],
           lock'.pid \in {0, lock.pid},
           lock'.live = lock.live, lock.live => lock'.pid = lock.pid /\ lock'.silent <= StaleAfter
    PROVE  ServersInv'
<1>1. 0 \notin Pids
  BY DEF Pids
<1>2. TypesInv'
  BY DEF ServersInv, TypesInv
<1>3. LockInv'
  BY DEF ServersInv, LockInv
<1>4. PidsInv'
  BY DEF ServersInv, PidsInv, Up
<1>5. SeenInv'
  BY DEF ServersInv, SeenInv
<1>6. WorkersInv'
  BY DEF ServersInv, WorkersInv
<1> QED  BY <1>2, <1>3, <1>4, <1>5, <1>6 DEF ServersInv

LEMMA LockStep ==
    ASSUME ServersInv, Tick \/ Reap \/ \E s \in Servers : Ping(s)
    PROVE  ServersInv'
<1>1. lock \in [pid : {0} \cup Pids, live : BOOLEAN, silent : 0 .. StaleAfter + 1] /\ StaleAfter \in Nat
  BY ServersAssumption DEF ServersInv, TypesInv
<1>2. CASE Tick
  <2>1. lock' = [lock EXCEPT !.silent = @ + 1] /\ UNCHANGED <<shared, server, runs, faults>>
        /\ lock.silent <= StaleAfter /\ (lock.live => lock.silent < StaleAfter)
    BY <1>2 DEF Tick
  <2>2. lock'.pid = lock.pid /\ lock'.live = lock.live /\ lock'.silent = lock.silent + 1
        /\ lock' \in [pid : {0} \cup Pids, live : BOOLEAN, silent : 0 .. StaleAfter + 1]
    BY <1>1, <2>1
  <2> QED  BY <1>1, <2>1, <2>2, LockChanges
<1>3. CASE Reap
  <2>1. lock' = Free /\ ~lock.live /\ UNCHANGED <<shared, server, runs, faults>>
    BY <1>3 DEF Reap
  <2>2. lock'.pid = 0 /\ lock'.live = FALSE
        /\ lock' \in [pid : {0} \cup Pids, live : BOOLEAN, silent : 0 .. StaleAfter + 1]
    BY <1>1, <2>1 DEF Free
  <2> QED  BY <1>1, <2>1, <2>2, LockChanges
<1>4. ASSUME NEW s \in Servers, Ping(s) PROVE ServersInv'
  <2>1. lock' = [lock EXCEPT !.silent = 0] /\ UNCHANGED <<shared, server, runs, faults>>
    BY <1>4 DEF Ping
  <2>2. lock'.pid = lock.pid /\ lock'.live = lock.live /\ lock'.silent = 0
        /\ lock' \in [pid : {0} \cup Pids, live : BOOLEAN, silent : 0 .. StaleAfter + 1]
    BY <1>1, <2>1
  <2> QED  BY <1>1, <2>1, <2>2, LockChanges
<1> QED  BY <1>2, <1>3, <1>4

-----------------------------------------------------------------------------
(* A process that waits ends: it is not guarded, and the lock stays. *)
LEMMA WaiterEnds ==
    ASSUME ServersInv, NEW s \in Servers, server[s].pc \notin Holding, Ends(s),
           UNCHANGED <<shared, lock>>, faults' = faults \/ Fault
    PROVE  ServersInv'
<1>1. faults' \in 0 .. MaxFaults
  BY ServersAssumption DEF ServersInv, TypesInv, Fault
<1>2. runs' \in [Runs -> Row] /\ runs' = Orphaned(s)
  BY OrphanedRows DEF Ends, ServersInv
<1>3. ~server[s].guarded
  BY DEF ServersInv, LockInv
<1>4. server' = [server EXCEPT ![s] = Gone]
  BY DEF Ends
<1> QED  BY <1>1, <1>2, <1>3, <1>4, Ended DEF ServersInv, TypesInv

LEMMA WaitingStep ==
    ASSUME ServersInv, NEW s \in Servers, WaitOut(s) \/ AskHolder(s)
    PROVE  ServersInv'
<1>1. /\ server[s].pc = "waiting" /\ Up(s) /\ "waiting" \notin Holding /\ "looking" \notin Holding
      /\ UNCHANGED <<shared, lock, faults>> /\ faults \in 0 .. MaxFaults
  BY DEF WaitOut, AskHolder, Up, Holding, ServersInv, TypesInv
<1>2. CASE Ends(s)
  BY <1>1, <1>2, WaiterEnds
<1>3. CASE server' = [server EXCEPT ![s].waited = TRUE] /\ runs' = runs
  <2>1. Is(s, "waiting", server[s].pid, server[s].seen, server[s].guarded)
    BY <1>1, <1>3 DEF Is, ServersInv, TypesInv, Process
  <2> QED  BY <1>1, <1>3, <2>1, Moved DEF ServersInv, TypesInv
<1>4. CASE /\ server[s].tries < Attempts /\ runs' = runs
           /\ server' = [server EXCEPT ![s].pc = "looking", ![s].tries = @ + 1]
  <2>1. Is(s, "looking", server[s].pid, server[s].seen, server[s].guarded)
    BY <1>1, <1>4 DEF Is, ServersInv, TypesInv, Process, Attempts
  <2> QED  BY <1>1, <1>4, <2>1, Moved DEF ServersInv, TypesInv
<1> QED  BY <1>2, <1>3, <1>4 DEF WaitOut, AskHolder

(* A holder that is found stale has no guarded server: that one would have    *)
(* spoken.                                                                    *)
LEMMA LookStep ==
    ASSUME ServersInv, NEW s \in Servers, Look(s)
    PROVE  ServersInv'
<1>1. /\ server[s].pc = "looking" /\ Up(s) /\ "looking" \notin Holding
      /\ "waiting" \notin Holding /\ "terminating" \notin Holding
      /\ UNCHANGED <<shared, lock>> /\ faults \in 0 .. MaxFaults
  BY DEF Look, Up, Holding, ServersInv, TypesInv
<1>2. CASE Ends(s) /\ (faults' = faults \/ Fault)
  BY <1>1, <1>2, WaiterEnds
<1>3. CASE server' = [server EXCEPT ![s].pc = "waiting"] /\ UNCHANGED <<runs, faults>>
  <2>1. Is(s, "waiting", server[s].pid, server[s].seen, server[s].guarded)
    BY <1>1, <1>3 DEF Is, ServersInv, TypesInv, Process
  <2> QED  BY <1>1, <1>3, <2>1, Moved DEF ServersInv, TypesInv
<1>4. CASE /\ lock.pid # 0 /\ Stale /\ UNCHANGED <<runs, faults>>
           /\ server' = [server EXCEPT ![s].pc = "terminating", ![s].seen = lock.pid]
  <2>1. lock.pid \in {0} \cup Pids /\ lock.silent \in 0 .. StaleAfter + 1 /\ StaleAfter \in Nat
    BY Fields DEF ServersInv
  <2>2. Is(s, "terminating", server[s].pid, lock.pid, server[s].guarded)
    <3>1. server \in [Servers -> Process]
      BY DEF ServersInv, TypesInv
    <3>2. [server[s] EXCEPT !.pc = "terminating", !.seen = lock.pid] \in Process
      BY <2>1, <3>1 DEF Process
    <3>3. server' = [server EXCEPT ![s] = [server[s] EXCEPT !.pc = "terminating", !.seen = lock.pid]]
      BY <1>4, <3>1 DEF Process
    <3> QED  BY <3>1, <3>2, <3>3 DEF Is, Process
  <2>3. ~lock.live
    BY <1>4, <2>1 DEF ServersInv, LockInv, Stale
  <2>4. \A t \in Servers : server[t].pid = lock.pid => server[t].pc \in Holding /\ ~server[t].guarded
    BY <1>4, <2>3 DEF ServersInv, LockInv, PidsInv, Up
  <2> QED  BY <1>1, <1>4, <2>2, <2>3, <2>4, Moved DEF ServersInv, TypesInv
<1> QED  BY <1>2, <1>3, <1>4 DEF Look

LEMMA MarkStep ==
    ASSUME ServersInv, NEW s \in Servers, Mark(s)
    PROVE  ServersInv'
<1>1. /\ server[s].pc = "marking" /\ Up(s) /\ "marking" \in Holding /\ "serving" \in Holding
      /\ server' = [server EXCEPT ![s].pc = "serving"] /\ UNCHANGED <<shared, lock>>
  BY DEF Mark, Up, Holding
<1>2. faults' \in 0 .. MaxFaults
  BY ServersAssumption DEF Mark, Fault, ServersInv, TypesInv
<1>3. runs' \in [Runs -> Row] /\ \A r \in Runs : runs'[r].worker = runs[r].worker
  BY DEF Mark, Marked, ServersInv, TypesInv, Row
<1>4. Is(s, "serving", server[s].pid, server[s].seen, server[s].guarded)
  BY <1>1 DEF Is, ServersInv, TypesInv, Process
<1> QED  BY <1>1, <1>2, <1>3, <1>4, Moved

(* The session that is ended is the one that was found silent, or nothing is. *)
LEMMA TerminateStep ==
    ASSUME ServersInv, NEW s \in Servers, Terminate(s)
    PROVE  ServersInv'
<1>1. /\ server[s].pc = "terminating" /\ Up(s) /\ "terminating" \notin Holding /\ "waiting" \notin Holding
      /\ shared' = shared /\ faults \in 0 .. MaxFaults /\ runs \in [Runs -> Row]
  BY DEF Terminate, Up, Holding, ServersInv, TypesInv
<1>2. CASE Fault /\ Ends(s) /\ lock' = lock
  BY <1>1, <1>2, WaiterEnds
<1>3. CASE /\ lock' = Terminated(server[s].seen) /\ UNCHANGED <<runs, faults>>
           /\ server' = [server EXCEPT ![s].pc = "waiting", ![s].seen = 0]
  <2>1. Is(s, "waiting", server[s].pid, 0, server[s].guarded)
    <3>1. server \in [Servers -> Process]
      BY DEF ServersInv, TypesInv
    <3>2. [server[s] EXCEPT !.pc = "waiting", !.seen = 0] \in Process
      BY <3>1 DEF Process
    <3>3. server' = [server EXCEPT ![s] = [server[s] EXCEPT !.pc = "waiting", !.seen = 0]]
      BY <1>3, <3>1 DEF Process
    <3> QED  BY <3>1, <3>2, <3>3 DEF Is, Process
  <2>2. lock' = lock \/ (lock' = Free /\ ~lock.live)
    BY <1>1, <1>3 DEF Terminated, ServersInv, SeenInv
  <2>3. CASE lock' = lock
    BY <1>1, <1>3, <2>1, <2>3, Moved
  <2>4. CASE lock' = Free /\ ~lock.live
    <3>1. /\ lock'.pid = 0 /\ lock'.live = FALSE
          /\ lock' \in [pid : {0} \cup Pids, live : BOOLEAN, silent : 0 .. StaleAfter + 1]
      BY <2>4, ServersAssumption DEF Free
    <3>2. \A t \in Servers : /\ server'[t].pid = server[t].pid /\ server'[t].guarded = server[t].guarded
                             /\ server'[t].pc \in Holding <=> server[t].pc \in Holding
      BY <1>1, <2>1 DEF Is
    <3>3. TypesInv'
      BY <1>1, <1>3, <2>1, <3>1 DEF ServersInv, TypesInv, Is
    <3>4. LockInv'
      BY <2>4, <3>1, <3>2 DEF ServersInv, LockInv
    <3>5. PidsInv'
      BY <1>1, <2>1, <3>1, <3>2 DEF ServersInv, PidsInv, Is, Up
    <3>6. SeenInv'
      BY <2>1, <3>1, <3>2 DEF ServersInv, SeenInv, Is
    <3>7. WorkersInv'
      BY <1>1, <1>3, <2>1 DEF ServersInv, WorkersInv, Is
    <3> QED  BY <3>3, <3>4, <3>5, <3>6, <3>7 DEF ServersInv
  <2> QED  BY <2>2, <2>3, <2>4
<1> QED  BY <1>2, <1>3 DEF Terminate

-----------------------------------------------------------------------------
(* A server ends, and takes its lock with it or leaves it to its session. *)
LEMMA KillStep ==
    ASSUME ServersInv, NEW s \in Servers, Kill(s)
    PROVE  ServersInv'
<1>1. /\ Up(s) /\ Ends(s) /\ shared' = shared
      /\ lock' = (IF Mine(s) THEN Free ELSE lock) \/ (Mine(s) /\ lock' = [lock EXCEPT !.live = FALSE])
  BY DEF Kill
<1>2. faults' \in 0 .. MaxFaults
  BY ServersAssumption DEF Kill, Fault, ServersInv, TypesInv
<1>3. runs' \in [Runs -> Row] /\ runs' = Orphaned(s) /\ server' = [server EXCEPT ![s] = Gone]
  <2>1. runs' = Orphaned(s) /\ server' = [server EXCEPT ![s] = Gone]
    BY <1>1 DEF Ends
  <2>2. Orphaned(s) \in [Runs -> Row]
    BY OrphanedRows DEF ServersInv
  <2> QED  BY <2>1, <2>2
<1>4. lock \in [pid : {0} \cup Pids, live : BOOLEAN, silent : 0 .. StaleAfter + 1] /\ StaleAfter \in Nat
  BY ServersAssumption DEF ServersInv, TypesInv
<1>5. CASE Mine(s)
  <2>1. /\ lock' \in [pid : {0} \cup Pids, live : BOOLEAN, silent : 0 .. StaleAfter + 1]
        /\ ~lock'.live /\ lock'.pid \in {0, lock.pid}
    <3>1. CASE lock' = Free
      BY <1>4, <3>1 DEF Free
    <3>2. CASE lock' = [lock EXCEPT !.live = FALSE]
      BY <1>4, <3>2
    <3> QED  BY <1>1, <1>5, <3>1, <3>2
  <2>2. lock.pid = server[s].pid
    BY <1>5 DEF Mine
  <2> QED  BY <1>1, <1>2, <1>3, <2>1, <2>2, Ended
<1>6. CASE ~Mine(s)
  <2>1. lock' = lock /\ ~server[s].guarded
    BY <1>1, <1>6 DEF Mine, ServersInv, LockInv, PidsInv
  <2> QED  BY <1>1, <1>2, <1>3, <1>4, <2>1, Ended
<1> QED  BY <1>5, <1>6

LEMMA StopStep ==
    ASSUME ServersInv, NEW s \in Servers, Stop(s)
    PROVE  ServersInv'
<1>1. /\ server[s].pc = "serving" /\ Up(s) /\ shared' = shared
      /\ server' = [server EXCEPT ![s] = Gone]
      /\ lock' = IF Mine(s) THEN Free ELSE lock
  BY DEF Stop, Up
<1>2. faults' \in 0 .. MaxFaults
  BY ServersAssumption DEF Stop, Fault, ServersInv, TypesInv
<1>3. runs' \in [Runs -> Row] /\ \A r \in Runs : runs'[r].worker = Orphaned(s)[r].worker
  <2>1. Marked \in [Runs -> Row]
    BY DEF Marked, ServersInv, TypesInv, Row
  <2>2. Orphaned(s) \in [Runs -> Row]
    BY OrphanedRows DEF ServersInv
  <2>3. \A r \in Runs : runs'[r] = [Marked[r] EXCEPT !.worker = Orphaned(s)[r].worker]
    BY DEF Stop
  <2>4. ASSUME NEW r \in Runs  PROVE runs'[r] \in Row /\ runs'[r].worker = Orphaned(s)[r].worker
    <3>1. Marked[r] \in Row /\ Orphaned(s)[r].worker \in {0} \cup Pids
      BY <2>1, <2>2 DEF Row
    <3> QED  BY <2>3, <3>1 DEF Row
  <2>5. runs' = [r \in Runs |-> runs'[r]]
    BY DEF Stop
  <2> QED  BY <2>4, <2>5
<1>4. lock \in [pid : {0} \cup Pids, live : BOOLEAN, silent : 0 .. StaleAfter + 1] /\ StaleAfter \in Nat
  BY ServersAssumption DEF ServersInv, TypesInv
<1>5. CASE Mine(s)
  <2>1. /\ lock' \in [pid : {0} \cup Pids, live : BOOLEAN, silent : 0 .. StaleAfter + 1]
        /\ ~lock'.live /\ lock'.pid = 0
    BY <1>1, <1>4, <1>5 DEF Free
  <2>2. lock.pid = server[s].pid
    BY <1>5 DEF Mine
  <2> QED  BY <1>1, <1>2, <1>3, <2>1, <2>2, Ended
<1>6. CASE ~Mine(s)
  <2>1. lock' = lock /\ ~server[s].guarded
    BY <1>1, <1>6 DEF Mine, ServersInv, LockInv, PidsInv
  <2> QED  BY <1>1, <1>2, <1>3, <1>4, <2>1, Ended
<1> QED  BY <1>5, <1>6

(* The server is cut off from its session, and guards nothing any more. *)
LEMMA LoseSessionStep ==
    ASSUME ServersInv, NEW s \in Servers, LoseSession(s)
    PROVE  ServersInv'
<1>1. /\ server[s].pc \in Holding /\ lock.pid = server[s].pid
      /\ lock' \in {Free, [lock EXCEPT !.live = FALSE]}
      /\ server' = [server EXCEPT ![s].guarded = FALSE] /\ UNCHANGED <<shared, runs>>
  BY DEF LoseSession, Mine
<1>2. faults' \in 0 .. MaxFaults
  BY ServersAssumption DEF LoseSession, Fault, ServersInv, TypesInv
<1>3. Is(s, server[s].pc, server[s].pid, server[s].seen, FALSE)
  <2> DEFINE q == [server[s] EXCEPT !.guarded = FALSE]
  <2>1. server \in [Servers -> Process] /\ server[s] \in Process
    BY DEF ServersInv, TypesInv
  <2>2. q \in Process /\ q.pc = server[s].pc /\ q.pid = server[s].pid /\ q.seen = server[s].seen /\ q.guarded = FALSE
    BY <2>1 DEF Process
  <2>3. server' = [server EXCEPT ![s] = q]
    BY <1>1
  <2> HIDE DEF q
  <2> QED  BY <2>1, <2>2, <2>3 DEF Is
<1>4. lock \in [pid : {0} \cup Pids, live : BOOLEAN, silent : 0 .. StaleAfter + 1] /\ StaleAfter \in Nat
  BY ServersAssumption DEF ServersInv, TypesInv
<1>5. /\ lock' \in [pid : {0} \cup Pids, live : BOOLEAN, silent : 0 .. StaleAfter + 1]
      /\ ~lock'.live /\ lock'.pid \in {0, lock.pid}
  <2>1. CASE lock' = Free
    BY <1>4, <2>1 DEF Free
  <2>2. CASE lock' = [lock EXCEPT !.live = FALSE]
    BY <1>4, <2>2
  <2> QED  BY <1>1, <2>1, <2>2
<1>6. 0 \notin Pids
  BY DEF Pids
<1>7. \A t \in Servers : /\ server'[t].pid = server[t].pid /\ server'[t].pc = server[t].pc
                         /\ server'[t].seen = server[t].seen
  BY <1>3 DEF Is
<1>8. \A t \in Servers : ~server'[t].guarded
  BY <1>1, <1>3, Fields DEF Is, ServersInv, LockInv, PidsInv, Up, Holding
<1>9. TypesInv'
  BY <1>1, <1>2, <1>3, <1>5 DEF ServersInv, TypesInv, Is
<1>10. LockInv'
  BY <1>5, <1>8 DEF LockInv
<1>11. PidsInv'
  BY <1>5, <1>7 DEF ServersInv, PidsInv, Up
<1>12. SeenInv'
  BY <1>5, <1>7, <1>8 DEF ServersInv, SeenInv
<1>13. WorkersInv'
  BY <1>1, <1>7 DEF ServersInv, WorkersInv
<1> QED  BY <1>9, <1>10, <1>11, <1>12, <1>13 DEF ServersInv

-----------------------------------------------------------------------------
(* The journal of runs: a row changes, and its worker is a server's or gone. *)
LEMMA JournalStep ==
    ASSUME ServersInv, NEW r \in Runs, UNCHANGED <<shared, lock, server>>,
           faults' = faults \/ Fault, NEW row \in Row, runs' = [runs EXCEPT ![r] = row],
           row.worker # 0 => \E s \in Servers : server[s].pc = "serving" /\ server[s].pid = row.worker
    PROVE  ServersInv'
<1>1. faults' \in 0 .. MaxFaults
  BY ServersAssumption DEF Fault, ServersInv, TypesInv
<1>2. TypesInv'
  BY <1>1 DEF ServersInv, TypesInv
<1>3. LockInv' /\ PidsInv' /\ SeenInv'
  BY DEF ServersInv, LockInv, PidsInv, SeenInv, Up
<1>4. WorkersInv'
  BY DEF ServersInv, WorkersInv, TypesInv
<1> QED  BY <1>2, <1>3, <1>4 DEF ServersInv

(* A row that has been decided stays, but for being deleted. *)
Decided(before, after) ==
    before \in {"finished", "interrupted", "deleted"} => after \in {before, "deleted"}

LEMMA RunStep ==
    ASSUME ServersInv, NEW r \in Runs,
           \/ \E s \in Servers : CreateRun(s, r)
           \/ FinishRun(r) \/ CancelRun(r) \/ DeleteRun(r) \/ Sweep(r) \/ SweepStuck(r)
    PROVE  ServersInv' /\ \A q \in Runs : Decided(runs[q].status, runs'[q].status)
<1>1. runs \in [Runs -> Row] /\ runs[r] \in Row
  BY DEF ServersInv, TypesInv
<1>2. ASSUME NEW row \in Row, runs' = [runs EXCEPT ![r] = row], UNCHANGED <<shared, lock, server>>,
             faults' = faults \/ Fault, Decided(runs[r].status, row.status),
             row.worker # 0 => \E s \in Servers : server[s].pc = "serving" /\ server[s].pid = row.worker
      PROVE  ServersInv' /\ \A q \in Runs : Decided(runs[q].status, runs'[q].status)
  <2>1. ServersInv'
    BY <1>2, JournalStep
  <2>2. \A q \in Runs : Decided(runs[q].status, runs'[q].status)
    BY <1>1, <1>2 DEF Decided
  <2> QED  BY <2>1, <2>2
<1>3. ASSUME NEW s \in Servers, CreateRun(s, r)
      PROVE  ServersInv' /\ \A q \in Runs : Decided(runs[q].status, runs'[q].status)
  <2> DEFINE row == [status |-> "running", worker |-> server[s].pid]
  <2>1. row \in Row /\ row.worker = server[s].pid
    BY Fields DEF Row, ServersInv
  <2>2. runs' = [runs EXCEPT ![r] = row] /\ server[s].pc = "serving" /\ runs[r].status = "none"
        /\ UNCHANGED <<shared, lock, server, faults>>
    BY <1>3 DEF CreateRun
  <2> HIDE DEF row
  <2> QED  BY <1>2, <2>1, <2>2 DEF Decided
<1>4. CASE FinishRun(r)
  <2>1. UNCHANGED <<shared, lock, server>> /\ (faults' = faults \/ Fault)
    BY <1>4 DEF FinishRun
  <2>2. CASE runs' = [runs EXCEPT ![r].worker = 0]
    <3> DEFINE row == [runs[r] EXCEPT !.worker = 0]
    <3>1. row \in Row /\ row.worker = 0 /\ row.status = runs[r].status /\ runs' = [runs EXCEPT ![r] = row]
      BY <1>1, <2>2 DEF Row
    <3> HIDE DEF row
    <3> QED  BY <1>2, <2>1, <3>1 DEF Decided
  <2>3. ASSUME NEW status \in {"finished", "interrupted"}, Overwrites(r),
               runs' = [runs EXCEPT ![r] = [status |-> status, worker |-> 0]]
        PROVE  ServersInv' /\ \A q \in Runs : Decided(runs[q].status, runs'[q].status)
    <3> DEFINE row == [status |-> status, worker |-> 0]
    <3>1. row \in Row /\ row.worker = 0 /\ runs[r].status = "running"
      BY <2>3 DEF Row, Overwrites
    <3>2. runs' = [runs EXCEPT ![r] = row]
      BY <2>3
    <3> HIDE DEF row
    <3> QED  BY <1>2, <2>1, <3>1, <3>2 DEF Decided
  <2> QED  BY <1>4, <2>2, <2>3 DEF FinishRun
<1>5. CASE CancelRun(r) \/ DeleteRun(r) \/ Sweep(r) \/ SweepStuck(r)
  <2>1. PICK status \in {"interrupted", "deleted"} :
            /\ runs' = [runs EXCEPT ![r].status = status]
            /\ status = "interrupted" => runs[r].status = "running"
    BY <1>5 DEF CancelRun, DeleteRun, Sweep, SweepStuck, Abandoned
  <2>2. UNCHANGED <<shared, lock, server>> /\ (faults' = faults \/ Fault)
    BY <1>5 DEF CancelRun, DeleteRun, Sweep, SweepStuck
  <2> DEFINE row == [runs[r] EXCEPT !.status = status]
  <2>3. /\ row \in Row /\ row.worker = runs[r].worker /\ row.status = status
        /\ runs' = [runs EXCEPT ![r] = row]
    BY <1>1, <2>1 DEF Row
  <2> HIDE DEF row
  <2>4. Decided(runs[r].status, row.status)
    BY <2>1, <2>3 DEF Decided
  <2>5. row.worker # 0 => \E s \in Servers : server[s].pc = "serving" /\ server[s].pid = row.worker
    BY <2>3 DEF ServersInv, WorkersInv
  <2> QED  BY <1>2, <2>2, <2>3, <2>4, <2>5
<1> QED  BY <1>3, <1>4, <1>5

(* The other steps leave what was decided alone, or decide. *)
LEMMA StatusKept ==
    ASSUME ServersInv, NEW s \in Servers,
           \/ Start(s) \/ Claims(s) \/ Ping(s) \/ Kill(s) \/ LoseSession(s) \/ Stop(s) \/ Tick \/ Reap
    PROVE  \A q \in Runs : Decided(runs[q].status, runs'[q].status)
<1>1. \A q \in Runs : Orphaned(s)[q].status = runs[q].status
  BY OrphanedRows DEF ServersInv
<1>2. \A q \in Runs : Decided(runs[q].status, Marked[q].status)
  BY DEF Marked, Decided
<1>3. ASSUME Stop(s) PROVE \A q \in Runs : Decided(runs[q].status, runs'[q].status)
  <2>1. Marked \in [Runs -> Row]
    BY DEF Marked, ServersInv, TypesInv, Row
  <2>2. \A q \in Runs : runs'[q].status = Marked[q].status
    BY <1>3, <2>1 DEF Stop, Row
  <2> QED  BY <1>2, <2>2
<1>4. ASSUME ~Stop(s) PROVE runs' = runs \/ runs' = Orphaned(s) \/ runs' = Marked
  <2>1. CASE Claims(s)
    BY <2>1 DEF Claims, TakeLock, WaitOut, AskHolder, Look, Terminate, Mark, Ends
  <2>2. CASE ~Claims(s)
    BY <1>4, <2>2 DEF Start, Ping, Kill, LoseSession, Tick, Reap, Ends
  <2> QED  BY <2>1, <2>2
<1>5. ASSUME runs' = runs PROVE \A q \in Runs : Decided(runs[q].status, runs'[q].status)
  BY <1>5 DEF Decided
<1>6. ASSUME runs' = Orphaned(s) PROVE \A q \in Runs : Decided(runs[q].status, runs'[q].status)
  BY <1>1, <1>6 DEF Decided
<1> QED  BY <1>2, <1>3, <1>4, <1>5, <1>6

LEMMA ServersInitInv == ServersInit => ServersInv
<1> SUFFICES ASSUME ServersInit PROVE ServersInv
  OBVIOUS
<1>1. Gone \in Process /\ Gone.pc = "down" /\ Gone.pid = 0 /\ Gone.seen = 0 /\ Gone.guarded = FALSE
  BY DEF Gone, Process, Attempts
<1>2. /\ Free.pid = 0 /\ Free.live = FALSE
      /\ Free \in [pid : {0} \cup Pids, live : BOOLEAN, silent : 0 .. StaleAfter + 1]
  BY ServersAssumption DEF Free
<1>3. NewRun \in Row /\ NewRun.worker = 0
  BY DEF NewRun, Row
<1>4. \A s \in Servers : server[s] = Gone
  BY DEF ServersInit
<1>5. TypesInv
  BY <1>1, <1>2, <1>3, ServersAssumption DEF TypesInv, ServersInit
<1>6. LockInv /\ PidsInv /\ SeenInv
  BY <1>1, <1>2, <1>4 DEF LockInv, PidsInv, SeenInv, ServersInit, Up
<1>7. WorkersInv
  BY <1>3 DEF WorkersInv, ServersInit
<1> QED  BY <1>5, <1>6, <1>7 DEF ServersInv

LEMMA ServersStep ==
    ServersInv /\ [ServersNext]_serverVars =>
        ServersInv' /\ \A r \in Runs : Decided(runs[r].status, runs'[r].status)
<1> SUFFICES ASSUME ServersInv, [ServersNext]_serverVars
             PROVE  ServersInv' /\ \A r \in Runs : Decided(runs[r].status, runs'[r].status)
  OBVIOUS
<1>1. ASSUME NEW s \in Servers, Start(s) \/ Claims(s) \/ Ping(s) \/ Kill(s) \/ LoseSession(s) \/ Stop(s)
      PROVE  ServersInv' /\ \A r \in Runs : Decided(runs[r].status, runs'[r].status)
  <2>1. CASE Claims(s)
    BY <2>1, TakeLockStep, WaitingStep, LookStep, TerminateStep, MarkStep, StatusKept DEF Claims
  <2>2. CASE ~Claims(s)
    BY <1>1, <2>2, StartStep, LockStep, KillStep, LoseSessionStep, StopStep, StatusKept
  <2> QED  BY <2>1, <2>2
<1>2. CASE Tick \/ Reap
  <2>1. runs' = runs
    BY <1>2 DEF Tick, Reap
  <2> QED  BY <1>2, <2>1, LockStep DEF Decided
<1>3. ASSUME NEW r \in Runs,
             \/ \E s \in Servers : CreateRun(s, r)
             \/ FinishRun(r) \/ CancelRun(r) \/ DeleteRun(r) \/ Sweep(r) \/ SweepStuck(r)
      PROVE  ServersInv' /\ \A q \in Runs : Decided(runs[q].status, runs'[q].status)
  BY <1>3, RunStep
<1>4. CASE UNCHANGED serverVars
  BY <1>4 DEF serverVars, ServersInv, TypesInv, LockInv, PidsInv, SeenInv, WorkersInv, Decided, Up
<1> QED  BY <1>1, <1>2, <1>3, <1>4 DEF ServersNext

(* Safety does not rest on fairness: the next-state relation is enough. *)
LEMMA ServersInvHolds == ServersInit /\ [][ServersNext]_serverVars => []ServersInv
BY ServersInitInv, ServersStep, PTL

LEMMA ServersInvTypes == ServersInv => ServersTypeOK
BY DEF ServersInv, TypesInv, LockInv, WorkersInv, ServersTypeOK

LEMMA ServersInvOne == ServersInv => OneServer
<1> SUFFICES ASSUME ServersInv, NEW s \in Servers, NEW t \in Servers,
                    server[s].guarded, server[t].guarded
             PROVE  s = t
  BY DEF OneServer
<1>1. server[s].pid = lock.pid /\ server[t].pid = lock.pid /\ server[s].pc \in Holding
  BY DEF ServersInv, LockInv
<1> QED  BY <1>1 DEF ServersInv, PidsInv, Up, Holding

LEMMA ServersDecide ==
    ServersInit /\ [][ServersNext]_serverVars => DecidedForGood
<1>1. ServersInv /\ [ServersNext]_serverVars =>
        [\A r \in Runs : runs[r].status \in {"finished", "interrupted", "deleted"} =>
             runs'[r].status \in {runs[r].status, "deleted"}]_serverVars
  BY ServersStep DEF Decided
<1> QED  BY <1>1, ServersInvHolds, PTL DEF DecidedForGood

(* Type correctness of the lock, its session and the journal: a guarded       *)
(* server has the live lock, and a run's worker is one of a server that runs. *)
THEOREM ServersTyped == ServersSpec => []ServersTypeOK
BY ServersInvTypes, ServersInvHolds, PTL DEF ServersSpec

(* However many deployments start, look up a holder and end its session, in   *)
(* whatever order, two never believe themselves guarded together.             *)
THEOREM OneServerAtATime == ServersSpec => []OneServer
BY ServersInvOne, ServersInvHolds, PTL DEF ServersSpec

(* A run that was interrupted, finished or deleted is never reported as       *)
(* anything else but deleted, by whichever process or worker comes later.     *)
THEOREM RunsDecidedForGood == ServersSpec => DecidedForGood
BY ServersDecide DEF ServersSpec

-----------------------------------------------------------------------------
(* Of the blob store: what is referred to has its row, and a transaction that *)
(* deletes by a row holds that row until its end.                             *)
Saved == {k \in Keepers : keeper[k].pc = "saved"}

BlobTypes ==
    /\ file \in BOOLEAN /\ interrupted \in BOOLEAN
    /\ blob \in RowType /\ blob.id <= rowIds /\ rowIds \in Nat
    /\ refersTo \in [Keepers -> 0 .. rowIds]
    /\ keeper \in [Keepers -> [pc : {"idle", "saved", "recorded", "release", "retract", "unlink"},
                               id : 0 .. rowIds]]
    /\ queue \subseteq [id : 1 .. rowIds, stamp : Nat]
    /\ \A e, f \in queue : e.id = f.id => e = f
    /\ saves \in 0 .. MaxSaves /\ accidents \in 0 .. MaxAccidents

(* A row is numbered by somebody who has written the file. *)
RowsCounted == IsFiniteSet(Saved) /\ rowIds + Cardinality(Saved) <= saves

TxnsInv ==
    /\ cleaning \subseteq [entry : queue, by : {"row", "path"}, deleted : BOOLEAN]
    /\ \A t, u \in cleaning : t.entry = u.entry => t = u
    /\ \A t \in cleaning : t.by = "row" => blob = t.entry /\ ~Referenced(t.entry.id)
    /\ \A t \in cleaning : t.by = "path" => blob.id # t.entry.id

KeepersInv ==
    \A k \in Keepers :
        /\ keeper[k].pc # "idle" => refersTo[k] = 0
        /\ keeper[k].pc \in {"recorded", "release"} => keeper[k].id # 0
        /\ refersTo[k] # 0 => blob.id = refersTo[k]

BlobsInv == BlobTypes /\ RowsCounted /\ TxnsInv /\ KeepersInv

LEMMA BlobFacts ==
    ASSUME BlobTypes
    PROVE  /\ rowIds \in Nat /\ saves \in Nat /\ blob \in RowType /\ blob.id \in 0 .. rowIds
           /\ blob.stamp \in Nat
           /\ \A k \in Keepers : /\ keeper[k].id \in 0 .. rowIds /\ refersTo[k] \in 0 .. rowIds
                                 /\ keeper[k].pc \in {"idle", "saved", "recorded", "release", "retract", "unlink"}
           /\ \A e \in queue : e.id \in 1 .. rowIds
BY BlobsAssumption DEF BlobTypes, RowType

LEMMA TxnFacts ==
    ASSUME TxnsInv, NEW t \in cleaning
    PROVE  /\ t.entry \in queue /\ t.by \in {"row", "path"} /\ t.deleted \in BOOLEAN
BY DEF TxnsInv

(* Only a keeper that has written the file counts against the saves; one more *)
(* row of blobs takes it off.                                                 *)
LEMMA SavedShrinks ==
    ASSUME RowsCounted, BlobTypes, saves' = saves, rowIds' = rowIds, Saved' \subseteq Saved
    PROVE  RowsCounted'
<1>1. IsFiniteSet(Saved') /\ Cardinality(Saved') <= Cardinality(Saved)
  BY FS_Subset DEF RowsCounted
<1>2. Cardinality(Saved') \in Nat /\ Cardinality(Saved) \in Nat
  BY <1>1, FS_CardinalityType DEF RowsCounted
<1> QED  BY <1>1, <1>2, BlobFacts DEF RowsCounted

LEMMA SavedRecords ==
    ASSUME RowsCounted, BlobTypes, saves' = saves, rowIds' = rowIds + 1,
           NEW k \in Saved, Saved' = Saved \ {k}
    PROVE  RowsCounted'
<1>1. IsFiniteSet(Saved') /\ Cardinality(Saved') = Cardinality(Saved) - 1
  BY FS_RemoveElement DEF RowsCounted
<1>2. Cardinality(Saved) \in Nat
  BY FS_CardinalityType DEF RowsCounted
<1> QED  BY <1>1, <1>2, BlobFacts DEF RowsCounted

LEMMA SavedGrows ==
    ASSUME RowsCounted, BlobTypes, saves' = saves + 1, rowIds' = rowIds, NEW k, Saved' = Saved \cup {k}
    PROVE  RowsCounted'
<1>1. IsFiniteSet(Saved) /\ Cardinality(Saved) \in Nat
  BY FS_CardinalityType DEF RowsCounted
<1>2. /\ IsFiniteSet(Saved \cup {k})
      /\ Cardinality(Saved \cup {k}) = IF k \in Saved THEN Cardinality(Saved) ELSE Cardinality(Saved) + 1
  BY <1>1, FS_AddElement
<1>3. /\ IsFiniteSet(Saved') /\ Cardinality(Saved') \in Nat
      /\ Cardinality(Saved') <= Cardinality(Saved) + 1
  BY <1>1, <1>2
<1> QED  BY <1>1, <1>3, BlobFacts DEF RowsCounted

LEMMA RowsBounded == BlobsInv => rowIds \in 0 .. MaxSaves
<1> SUFFICES ASSUME BlobsInv PROVE rowIds \in 0 .. MaxSaves
  OBVIOUS
<1>1. Cardinality(Saved) \in Nat
  BY FS_CardinalityType DEF BlobsInv, RowsCounted
<1> QED  BY <1>1, BlobsAssumption DEF BlobsInv, RowsCounted, BlobTypes

(* What a keeper is after a step that assigns some of its fields. *)
Rested(k, pc, id) ==
    /\ keeper'[k].pc = pc /\ keeper'[k].id = id
    /\ \A j \in Keepers : j # k => keeper'[j] = keeper[j]

KeeperType(ids) == [pc : {"idle", "saved", "recorded", "release", "retract", "unlink"}, id : 0 .. ids]

LEMMA KeeperMoves ==
    ASSUME BlobTypes, NEW k \in Keepers,
           NEW pc \in {"idle", "saved", "recorded", "release", "retract", "unlink"}, KeeperGoes(k, pc)
    PROVE  keeper' \in [Keepers -> KeeperType(rowIds)] /\ Rested(k, pc, keeper[k].id)
<1> DEFINE q == [keeper[k] EXCEPT !.pc = pc]
<1>1. keeper \in [Keepers -> KeeperType(rowIds)] /\ keeper[k] \in KeeperType(rowIds)
  BY DEF BlobTypes, KeeperType
<1>2. q \in KeeperType(rowIds) /\ q.pc = pc /\ q.id = keeper[k].id
  BY <1>1 DEF KeeperType
<1>3. keeper' = [keeper EXCEPT ![k] = q]
  BY DEF KeeperGoes
<1> HIDE DEF q
<1> QED  BY <1>1, <1>2, <1>3 DEF Rested

LEMMA KeeperEnds ==
    ASSUME BlobTypes, NEW k \in Keepers, KeeperRests(k)
    PROVE  keeper' \in [Keepers -> KeeperType(rowIds)] /\ Rested(k, "idle", 0)
<1>1. AtRest \in KeeperType(rowIds) /\ AtRest.pc = "idle" /\ AtRest.id = 0
  BY DEF AtRest, KeeperType, BlobTypes
<1>2. keeper \in [Keepers -> KeeperType(rowIds)]
  BY DEF BlobTypes, KeeperType
<1> QED  BY <1>1, <1>2 DEF KeeperRests, Rested

(* The keeper writes the file. *)
LEMMA SaveStep ==
    ASSUME BlobsInv, NEW k \in Keepers, Save(k)
    PROVE  BlobsInv'
<1>1. /\ keeper[k].pc = "idle" /\ refersTo[k] = 0 /\ saves' = saves + 1 /\ saves < MaxSaves
      /\ file' = TRUE /\ interrupted' = FALSE /\ blob' = blob /\ rowIds' = rowIds
      /\ refersTo' = refersTo /\ queue' = queue /\ cleaning' = cleaning /\ accidents' = accidents
  BY DEF Save, rowState
<1>2. keeper' \in [Keepers -> KeeperType(rowIds)] /\ Rested(k, "saved", keeper[k].id)
  BY KeeperMoves DEF Save, BlobsInv
<1>3. BlobTypes'
  <2>1. MaxSaves \in Nat /\ saves \in 0 .. MaxSaves
    BY BlobsAssumption DEF BlobsInv, BlobTypes
  <2>2. saves' \in 0 .. MaxSaves
    BY <1>1, <2>1
  <2>3. file' \in BOOLEAN /\ interrupted' \in BOOLEAN
    BY <1>1
  <2> QED  BY <1>1, <1>2, <2>2, <2>3 DEF BlobsInv, BlobTypes, KeeperType
<1>4. Saved' = Saved \cup {k}
  BY <1>2 DEF Saved, Rested
<1>5. RowsCounted'
  BY <1>1, <1>4, SavedGrows DEF BlobsInv
<1>6. TxnsInv'
  BY <1>1 DEF BlobsInv, TxnsInv, Referenced
<1>7. KeepersInv'
  BY <1>1, <1>2 DEF BlobsInv, KeepersInv, Rested
<1> QED  BY <1>3, <1>5, <1>6, <1>7 DEF BlobsInv

(* The keeper records the file, in a new row or the one that has its path. *)
LEMMA RecordStep ==
    ASSUME BlobsInv, NEW k \in Keepers, Record(k)
    PROVE  BlobsInv'
<1>1. /\ keeper[k].pc = "saved" /\ ~Locked /\ file' = file /\ interrupted' = interrupted /\ saves' = saves
      /\ refersTo' = refersTo /\ queue' = queue /\ cleaning' = cleaning /\ accidents' = accidents
      /\ keeper' = [keeper EXCEPT ![k].pc = "recorded", ![k].id = blob'.id]
  BY DEF Record
<1>2. /\ rowIds \in Nat /\ saves \in Nat /\ blob \in RowType /\ blob.id \in 0 .. rowIds /\ blob.stamp \in Nat
  BY BlobFacts DEF BlobsInv
<1>3. /\ blob' \in RowType /\ blob'.id # 0 /\ blob'.id \in 0 .. rowIds' /\ rowIds' \in {rowIds, rowIds + 1}
      /\ rowIds' = rowIds + 1 => blob.id = 0 /\ blob'.id = rowIds + 1
      /\ rowIds' = rowIds => blob.id # 0 /\ blob'.id = blob.id
  <2>1. CASE blob.id = 0 /\ rowIds' = rowIds + 1 /\ blob' = [id |-> rowIds + 1, stamp |-> saves]
    BY <1>2, <2>1 DEF RowType
  <2>2. ASSUME blob.id # 0, rowIds' = rowIds, NEW stamp \in {blob.stamp, saves},
               blob' = [blob EXCEPT !.stamp = stamp]
        PROVE  blob' \in RowType /\ blob'.id = blob.id
    BY <1>2, <2>2 DEF RowType
  <2> QED  BY <1>2, <2>1, <2>2 DEF Record
<1>4. keeper' \in [Keepers -> KeeperType(rowIds')] /\ Rested(k, "recorded", blob'.id)
  <2> DEFINE q == [keeper[k] EXCEPT !.pc = "recorded", !.id = blob'.id]
  <2>1. keeper \in [Keepers -> KeeperType(rowIds')] /\ keeper[k] \in KeeperType(rowIds')
    BY <1>2, <1>3 DEF BlobsInv, BlobTypes, KeeperType
  <2>2. q \in KeeperType(rowIds') /\ q.pc = "recorded" /\ q.id = blob'.id
    BY <1>3, <2>1 DEF KeeperType
  <2>3. keeper' = [keeper EXCEPT ![k] = q]
    BY <1>1
  <2> HIDE DEF q
  <2> QED  BY <2>1, <2>2, <2>3 DEF Rested
<1>5. BlobTypes'
  <2>1. rowIds' \in Nat /\ rowIds <= rowIds' /\ blob' \in RowType /\ blob'.id <= rowIds'
    BY <1>2, <1>3
  <2>2. refersTo' \in [Keepers -> 0 .. rowIds']
    <3>1. refersTo \in [Keepers -> 0 .. rowIds] /\ 0 .. rowIds \subseteq 0 .. rowIds'
      BY <1>2, <2>1 DEF BlobsInv, BlobTypes
    <3> QED  BY <1>1, <3>1
  <2>3. queue' \subseteq [id : 1 .. rowIds', stamp : Nat]
    <3>1. queue \subseteq [id : 1 .. rowIds, stamp : Nat] /\ 1 .. rowIds \subseteq 1 .. rowIds'
      BY <1>2, <2>1 DEF BlobsInv, BlobTypes
    <3> QED  BY <1>1, <3>1
  <2> QED  BY <1>1, <1>4, <2>1, <2>2, <2>3 DEF BlobsInv, BlobTypes, KeeperType
<1>6. k \in Saved /\ Saved' = Saved \ {k}
  BY <1>1, <1>4 DEF Saved, Rested
<1>7. RowsCounted'
  BY <1>1, <1>3, <1>6, SavedRecords, SavedShrinks DEF BlobsInv
<1>8. \A t \in cleaning : t.by # "row" /\ blob'.id # t.entry.id
  BY <1>1, <1>2, <1>3, BlobFacts, TxnFacts DEF BlobsInv, TxnsInv, Locked
<1>9. TxnsInv'
  BY <1>1, <1>8 DEF BlobsInv, TxnsInv
<1>10. \A j \in Keepers : refersTo[j] # 0 => blob'.id = refersTo[j]
  BY <1>2, <1>3 DEF BlobsInv, KeepersInv
<1>11. KeepersInv'
  BY <1>1, <1>3, <1>4, <1>10 DEF BlobsInv, KeepersInv, Rested
<1> QED  BY <1>5, <1>7, <1>9, <1>11 DEF BlobsInv

(* A keeper gives up, or is done with: it holds nothing that counts. *)
LEMMA KeeperLeaves ==
    ASSUME BlobsInv, NEW k \in Keepers,
           NEW pc \in {"idle", "release", "retract"}, NEW id, Rested(k, pc, id),
           keeper' \in [Keepers -> KeeperType(rowIds)],
           keeper[k].pc # "idle", pc = "release" => id # 0,
           UNCHANGED <<file, rowState, cleaning, interrupted, saves>>, accidents' = accidents \/ Accident
    PROVE  BlobsInv'
<1>1. /\ file' = file /\ interrupted' = interrupted /\ blob' = blob /\ rowIds' = rowIds /\ saves' = saves
      /\ refersTo' = refersTo /\ queue' = queue /\ cleaning' = cleaning
  BY DEF rowState
<1>2. accidents' \in 0 .. MaxAccidents
  BY BlobsAssumption DEF BlobsInv, BlobTypes, Accident
<1>3. BlobTypes'
  BY <1>1, <1>2 DEF BlobsInv, BlobTypes, KeeperType
<1>4. Saved' \subseteq Saved
  BY DEF Saved, Rested
<1>5. RowsCounted'
  BY <1>1, <1>4, SavedShrinks DEF BlobsInv
<1>6. TxnsInv'
  BY <1>1 DEF BlobsInv, TxnsInv, Referenced
<1>7. KeepersInv'
  BY <1>1 DEF BlobsInv, KeepersInv, Rested
<1> QED  BY <1>3, <1>5, <1>6, <1>7 DEF BlobsInv

LEMMA FailsStep ==
    ASSUME BlobsInv, NEW k \in Keepers, RecordFails(k) \/ ReferFails(k)
    PROVE  BlobsInv'
<1>1. /\ keeper[k].pc \in {"saved", "recorded"} /\ (accidents' = accidents \/ Accident)
      /\ UNCHANGED <<file, rowState, cleaning, interrupted, saves>>
  BY DEF RecordFails, ReferFails
<1>2. CASE KeeperRests(k)
  BY <1>1, <1>2, KeeperEnds, KeeperLeaves DEF BlobsInv
<1>3. CASE KeeperGoes(k, "retract")
  BY <1>1, <1>3, KeeperMoves, KeeperLeaves DEF BlobsInv
<1>4. CASE KeeperGoes(k, "release") /\ keeper[k].pc = "recorded"
  <2>1. keeper[k].id # 0
    BY <1>4 DEF BlobsInv, KeepersInv
  <2> QED  BY <1>1, <1>4, <2>1, KeeperMoves, KeeperLeaves DEF BlobsInv
<1> QED  BY <1>2, <1>3, <1>4 DEF RecordFails, ReferFails

(* The keeper refers to the row it recorded, which nobody is deleting. *)
LEMMA ReferStep ==
    ASSUME BlobsInv, NEW k \in Keepers, Refer(k)
    PROVE  BlobsInv'
<1>1. /\ keeper[k].pc = "recorded" /\ ~Locked /\ blob.id = keeper[k].id
      /\ refersTo' = [refersTo EXCEPT ![k] = blob.id]
      /\ file' = file /\ interrupted' = interrupted /\ blob' = blob /\ rowIds' = rowIds /\ saves' = saves
      /\ queue' = queue /\ cleaning' = cleaning /\ accidents' = accidents
  BY DEF Refer
<1>2. keeper' \in [Keepers -> KeeperType(rowIds)] /\ Rested(k, "idle", 0)
  BY KeeperEnds DEF Refer, BlobsInv
<1>3. BlobTypes'
  BY <1>1, <1>2, BlobFacts DEF BlobsInv, BlobTypes, KeeperType
<1>4. Saved' \subseteq Saved
  BY <1>2 DEF Saved, Rested
<1>5. RowsCounted'
  BY <1>1, <1>4, SavedShrinks DEF BlobsInv
<1>6. \A t \in cleaning : t.by # "row"
  BY <1>1 DEF Locked
<1>7. TxnsInv'
  BY <1>1, <1>6 DEF BlobsInv, TxnsInv
<1>8. refersTo'[k] = blob.id /\ \A j \in Keepers : j # k => refersTo'[j] = refersTo[j]
  BY <1>1 DEF BlobsInv, BlobTypes
<1>9. KeepersInv'
  BY <1>1, <1>2, <1>8 DEF BlobsInv, KeepersInv, Rested
<1> QED  BY <1>3, <1>5, <1>7, <1>9 DEF BlobsInv

LEMMA DropStep ==
    ASSUME BlobsInv, NEW k \in Keepers, Drop(k)
    PROVE  BlobsInv'
<1>1. /\ keeper[k].pc = "idle" /\ refersTo[k] # 0
      /\ keeper' = [keeper EXCEPT ![k] = [pc |-> "release", id |-> refersTo[k]]]
      /\ refersTo' = [refersTo EXCEPT ![k] = 0]
      /\ file' = file /\ interrupted' = interrupted /\ blob' = blob /\ rowIds' = rowIds /\ saves' = saves
      /\ queue' = queue /\ cleaning' = cleaning /\ accidents' = accidents
  BY DEF Drop
<1>2. keeper' \in [Keepers -> KeeperType(rowIds)] /\ Rested(k, "release", refersTo[k])
  BY <1>1, BlobFacts DEF BlobsInv, BlobTypes, KeeperType, Rested
<1>3. refersTo'[k] = 0 /\ \A j \in Keepers : j # k => refersTo'[j] = refersTo[j]
  BY <1>1 DEF BlobsInv, BlobTypes
<1>4. BlobTypes'
  BY <1>1, <1>2, BlobFacts DEF BlobsInv, BlobTypes, KeeperType
<1>5. Saved' \subseteq Saved
  BY <1>2 DEF Saved, Rested
<1>6. RowsCounted'
  BY <1>1, <1>5, SavedShrinks DEF BlobsInv
<1>7. \A id \in 1 .. rowIds : Referenced(id)' => Referenced(id)
  BY <1>3 DEF Referenced
<1>8. TxnsInv'
  BY <1>1, <1>7, BlobFacts, TxnFacts DEF BlobsInv, TxnsInv
<1>9. KeepersInv'
  BY <1>1, <1>2, <1>3 DEF BlobsInv, KeepersInv, Rested
<1> QED  BY <1>4, <1>6, <1>8, <1>9 DEF BlobsInv

(* The blob is queued if nobody refers to it; its last snapshot gives way. *)
LEMMA ReleaseStep ==
    ASSUME BlobsInv, NEW k \in Keepers, Release(k)
    PROVE  BlobsInv'
<1>1. /\ keeper[k].pc = "release" /\ ~Locked
      /\ queue' = queue \/ (blob.id = keeper[k].id /\ queue' = Queued)
      /\ file' = file /\ interrupted' = interrupted /\ blob' = blob /\ rowIds' = rowIds /\ saves' = saves
      /\ refersTo' = refersTo /\ cleaning' = cleaning /\ accidents' = accidents
  BY DEF Release
<1>2. keeper' \in [Keepers -> KeeperType(rowIds)] /\ Rested(k, "idle", 0)
  BY KeeperEnds DEF Release, BlobsInv
<1>3. queue' = Queued => blob.id \in 1 .. rowIds \/ queue' = queue
  BY <1>1, BlobFacts DEF BlobsInv, KeepersInv
<1>4. queue' \subseteq [id : 1 .. rowIds, stamp : Nat] /\ \A e, f \in queue' : e.id = f.id => e = f
  <2>1. CASE queue' = queue
    BY <2>1 DEF BlobsInv, BlobTypes
  <2>2. CASE blob.id \in 1 .. rowIds /\ queue' = {e \in queue : e.id # blob.id} \cup {blob}
    BY <2>2 DEF BlobsInv, BlobTypes, RowType
  <2> QED  BY <1>1, <1>3, <2>1, <2>2 DEF Queued
<1>5. BlobTypes'
  BY <1>1, <1>2, <1>4 DEF BlobsInv, BlobTypes, KeeperType
<1>6. Saved' \subseteq Saved
  BY <1>2 DEF Saved, Rested
<1>7. RowsCounted'
  BY <1>1, <1>6, SavedShrinks DEF BlobsInv
<1>8. \A t \in cleaning : t.by = "path" /\ t.entry \in queue'
  <2>1. ASSUME NEW t \in cleaning PROVE t.by = "path" /\ t.entry \in queue /\ blob.id # t.entry.id
    BY <1>1, TxnFacts DEF BlobsInv, TxnsInv, Locked
  <2> QED  BY <1>1, <2>1 DEF Queued
<1>9. TxnsInv'
  <2>1. cleaning' \subseteq [entry : queue', by : {"row", "path"}, deleted : BOOLEAN]
    BY <1>1, <1>8 DEF BlobsInv, TxnsInv
  <2> QED  BY <1>1, <1>8, <2>1 DEF BlobsInv, TxnsInv
<1>10. KeepersInv'
  BY <1>1, <1>2 DEF BlobsInv, KeepersInv, Rested
<1> QED  BY <1>5, <1>7, <1>9, <1>10 DEF BlobsInv

(* Of two steps that both leave the keepers and the counters alone. *)
LEMMA Quietly ==
    ASSUME BlobsInv, UNCHANGED <<rowIds, refersTo, keeper, saves>>, accidents' = accidents \/ Accident,
           file' \in BOOLEAN, interrupted' \in BOOLEAN, blob' \in {blob, NoRow}, queue' \subseteq queue
    PROVE  BlobTypes' /\ RowsCounted'
<1>1. accidents' \in 0 .. MaxAccidents
  BY BlobsAssumption DEF BlobsInv, BlobTypes, Accident
<1>2. NoRow \in RowType /\ NoRow.id = 0
  BY DEF NoRow, RowType
<1>3. BlobTypes'
  BY <1>1, <1>2 DEF BlobsInv, BlobTypes
<1>4. RowsCounted'
  BY SavedShrinks DEF BlobsInv, Saved
<1> QED  BY <1>3, <1>4

LEMMA CompleteStep ==
    ASSUME BlobsInv, NEW e \in queue, Complete(e)
    PROVE  BlobsInv'
<1>1. /\ e \in queue /\ \A t \in cleaning : t.entry # e
      /\ file' = file /\ interrupted' = interrupted /\ blob' = blob /\ rowIds' = rowIds /\ saves' = saves
      /\ refersTo' = refersTo /\ keeper' = keeper /\ accidents' = accidents
  BY DEF Complete
<1>2. queue' \subseteq queue /\ (cleaning' = cleaning \/ queue' = queue)
  BY DEF Complete
<1>3. BlobTypes' /\ RowsCounted'
  BY <1>1, <1>2, Quietly DEF BlobsInv, BlobTypes
<1>4. KeepersInv'
  BY <1>1 DEF BlobsInv, KeepersInv
<1>5. TxnsInv'
  <2>1. CASE cleaning' = cleaning /\ queue' = queue \ {e}
    <3>1. cleaning' \subseteq [entry : queue', by : {"row", "path"}, deleted : BOOLEAN]
      BY <1>1, <2>1 DEF BlobsInv, TxnsInv
    <3> QED  BY <1>1, <2>1, <3>1 DEF BlobsInv, TxnsInv, Referenced
  <2>2. ASSUME NEW by \in {"row", "path"}, queue' = queue,
               cleaning' = cleaning \cup {[entry |-> e, by |-> by, deleted |-> FALSE]},
               by = "row" => blob = e /\ ~Referenced(e.id), by = "path" => blob.id # e.id
        PROVE  TxnsInv'
    <3> DEFINE u == [entry |-> e, by |-> by, deleted |-> FALSE]
    <3>1. u.entry = e /\ u.by = by /\ u \in [entry : queue, by : {"row", "path"}, deleted : BOOLEAN]
      OBVIOUS
    <3>2. cleaning' = cleaning \cup {u}
      BY <2>2
    <3> HIDE DEF u
    <3> QED  BY <1>1, <2>2, <3>1, <3>2 DEF BlobsInv, TxnsInv, Referenced
  <2>3. e.id # 0
    BY BlobFacts DEF BlobsInv
  <2> QED  BY <2>1, <2>2, <2>3 DEF Complete, Same
<1> QED  BY <1>3, <1>4, <1>5 DEF BlobsInv

(* The file is deleted: the rows and their references stay as they are. *)
LEMMA DeletePathStep ==
    ASSUME BlobsInv, NEW t \in cleaning, DeletePath(t)
    PROVE  BlobsInv'
<1> DEFINE u == [t EXCEPT !.deleted = TRUE]
<1>1. /\ ~t.deleted /\ file' = FALSE /\ cleaning' = (cleaning \ {t}) \cup {u}
      /\ interrupted' = interrupted /\ blob' = blob /\ rowIds' = rowIds /\ saves' = saves
      /\ queue' = queue /\ refersTo' = refersTo /\ keeper' = keeper /\ accidents' = accidents
  BY DEF DeletePath, rowState
<1>2. /\ u \in [entry : queue, by : {"row", "path"}, deleted : BOOLEAN]
      /\ u.entry = t.entry /\ u.by = t.by
  BY DEF BlobsInv, TxnsInv
<1> HIDE DEF u
<1>3. BlobTypes' /\ RowsCounted'
  BY <1>1, Quietly DEF BlobsInv, BlobTypes
<1>4. TxnsInv'
  BY <1>1, <1>2 DEF BlobsInv, TxnsInv, Referenced
<1>5. KeepersInv'
  BY <1>1 DEF BlobsInv, KeepersInv
<1> QED  BY <1>3, <1>4, <1>5 DEF BlobsInv

(* The row goes with its entry; it has no references. *)
LEMMA CommitStep ==
    ASSUME BlobsInv, NEW t \in cleaning, Commit(t)
    PROVE  BlobsInv'
<1>1. /\ t.deleted /\ cleaning' = cleaning \ {t} /\ queue' = queue \ {t.entry}
      /\ t.by = "row" => blob' = NoRow
      /\ t.by # "row" => blob' = blob
      /\ file' = file /\ interrupted' = interrupted /\ rowIds' = rowIds /\ saves' = saves
      /\ refersTo' = refersTo /\ keeper' = keeper /\ accidents' = accidents
  BY DEF Commit
<1>2. BlobTypes' /\ RowsCounted'
  BY <1>1, Quietly DEF BlobsInv, BlobTypes
<1>3. NoRow.id = 0
  BY DEF NoRow
<1>4. cleaning' \subseteq [entry : queue', by : {"row", "path"}, deleted : BOOLEAN]
  BY <1>1 DEF BlobsInv, TxnsInv
<1>5. \A v \in cleaning' : v.by = "row" => t.by # "row"
  BY <1>1 DEF BlobsInv, TxnsInv
<1>6. \A v \in cleaning' : v.entry.id # 0
  BY <1>1, BlobFacts, TxnFacts DEF BlobsInv
<1>7. TxnsInv'
  BY <1>1, <1>3, <1>4, <1>5, <1>6 DEF BlobsInv, TxnsInv, Referenced
<1>8. t.by = "row" => \A k \in Keepers : refersTo[k] = 0
  BY DEF BlobsInv, TxnsInv, KeepersInv, Referenced
<1>9. KeepersInv'
  BY <1>1, <1>3, <1>8 DEF BlobsInv, KeepersInv
<1> QED  BY <1>2, <1>7, <1>9 DEF BlobsInv

LEMMA RollbackStep ==
    ASSUME BlobsInv, NEW t \in cleaning, Rollback(t)
    PROVE  BlobsInv'
<1>1. /\ cleaning' = cleaning \ {t} /\ interrupted' = (interrupted \/ t.deleted) /\ Accident
      /\ file' = file /\ blob' = blob /\ rowIds' = rowIds /\ saves' = saves /\ queue' = queue
      /\ refersTo' = refersTo /\ keeper' = keeper
  BY DEF Rollback, rowState
<1>2. interrupted' \in BOOLEAN
  BY <1>1, TxnFacts DEF BlobsInv, BlobTypes
<1>3. BlobTypes' /\ RowsCounted'
  BY <1>1, <1>2, Quietly DEF BlobsInv, BlobTypes
<1>4. TxnsInv'
  BY <1>1 DEF BlobsInv, TxnsInv, Referenced
<1>5. KeepersInv'
  BY <1>1 DEF BlobsInv, KeepersInv
<1> QED  BY <1>3, <1>4, <1>5 DEF BlobsInv

(* Compose takes back what it could not store. *)
LEMMA RetractStep ==
    ASSUME BlobsInv, NEW k \in Keepers, Retract(k)
    PROVE  BlobsInv'
<1>1. /\ keeper[k].pc = "retract" /\ ~Locked
      /\ blob' = blob \/ (blob' = NoRow /\ blob.id # 0 /\ ~Referenced(blob.id))
      /\ KeeperGoes(k, "unlink") \/ KeeperRests(k)
      /\ file' = file /\ interrupted' = interrupted /\ rowIds' = rowIds /\ saves' = saves /\ queue' = queue
      /\ refersTo' = refersTo /\ cleaning' = cleaning /\ accidents' = accidents
  BY DEF Retract
<1>2. PICK pc \in {"idle", "unlink"}, id \in {0, keeper[k].id} :
          keeper' \in [Keepers -> KeeperType(rowIds)] /\ Rested(k, pc, id)
  BY <1>1, KeeperMoves, KeeperEnds DEF BlobsInv
<1>3. NoRow \in RowType /\ NoRow.id = 0
  BY DEF NoRow, RowType
<1>4. BlobTypes'
  BY <1>1, <1>2, <1>3 DEF BlobsInv, BlobTypes, KeeperType
<1>5. Saved' \subseteq Saved
  BY <1>2 DEF Saved, Rested
<1>6. RowsCounted'
  BY <1>1, <1>5, SavedShrinks DEF BlobsInv
<1>7. \A t \in cleaning : t.by # "row" /\ t.entry.id # 0
  BY <1>1, BlobFacts, TxnFacts DEF BlobsInv, Locked
<1>8. TxnsInv'
  BY <1>1, <1>3, <1>7 DEF BlobsInv, TxnsInv
<1>9. blob' = NoRow => \A j \in Keepers : refersTo[j] = 0
  <2>1. CASE blob' = blob
    BY <1>3, <2>1 DEF BlobsInv, KeepersInv
  <2>2. CASE ~Referenced(blob.id)
    BY <2>2 DEF BlobsInv, KeepersInv, Referenced
  <2> QED  BY <1>1, <2>1, <2>2
<1>10. KeepersInv'
  BY <1>1, <1>2, <1>3, <1>7, <1>9 DEF BlobsInv, KeepersInv, Rested
<1> QED  BY <1>4, <1>6, <1>8, <1>10 DEF BlobsInv

LEMMA UnlinkStep ==
    ASSUME BlobsInv, NEW k \in Keepers, Unlink(k)
    PROVE  BlobsInv'
<1>1. /\ keeper[k].pc = "unlink" /\ file' = FALSE /\ interrupted' = interrupted
      /\ blob' = blob /\ rowIds' = rowIds /\ saves' = saves /\ queue' = queue
      /\ refersTo' = refersTo /\ cleaning' = cleaning /\ accidents' = accidents
  BY DEF Unlink, rowState
<1>2. keeper' \in [Keepers -> KeeperType(rowIds)] /\ Rested(k, "idle", 0)
  BY KeeperEnds DEF Unlink, BlobsInv
<1>3. BlobTypes'
  BY <1>1, <1>2 DEF BlobsInv, BlobTypes, KeeperType
<1>4. Saved' \subseteq Saved
  BY <1>2 DEF Saved, Rested
<1>5. RowsCounted'
  BY <1>1, <1>4, SavedShrinks DEF BlobsInv
<1>6. TxnsInv'
  BY <1>1 DEF BlobsInv, TxnsInv, Referenced
<1>7. KeepersInv'
  BY <1>1, <1>2 DEF BlobsInv, KeepersInv, Rested
<1> QED  BY <1>3, <1>5, <1>6, <1>7 DEF BlobsInv

LEMMA CrashStep ==
    ASSUME BlobsInv, CrashAll
    PROVE  BlobsInv'
<1>1. /\ keeper' = [k \in Keepers |-> AtRest] /\ cleaning' = {} /\ Accident
      /\ interrupted' = (interrupted \/ \E t \in cleaning : t.deleted)
      /\ file' = file /\ blob' = blob /\ rowIds' = rowIds /\ saves' = saves /\ queue' = queue
      /\ refersTo' = refersTo
  BY DEF CrashAll, rowState
<1>2. \A k \in Keepers : keeper'[k] = AtRest
  BY <1>1
<1>3. AtRest \in KeeperType(rowIds) /\ AtRest.pc = "idle" /\ AtRest.id = 0
  BY DEF AtRest, KeeperType, BlobsInv, BlobTypes
<1>4. accidents' \in 0 .. MaxAccidents /\ interrupted' \in BOOLEAN
  BY <1>1, BlobsAssumption DEF BlobsInv, BlobTypes, Accident
<1>5. keeper' \in [Keepers -> KeeperType(rowIds)]
  BY <1>1, <1>3
<1>6. BlobTypes'
  BY <1>1, <1>4, <1>5 DEF BlobsInv, BlobTypes, KeeperType
<1>7. Saved' \subseteq Saved
  BY <1>2, <1>3 DEF Saved
<1>8. RowsCounted'
  BY <1>1, <1>7, SavedShrinks DEF BlobsInv
<1>9. TxnsInv'
  BY <1>1 DEF TxnsInv
<1>10. KeepersInv'
  BY <1>1, <1>2, <1>3 DEF BlobsInv, KeepersInv
<1> QED  BY <1>6, <1>8, <1>9, <1>10 DEF BlobsInv

-----------------------------------------------------------------------------
LEMMA BlobsInitInv == BlobsInit => BlobsInv
<1> SUFFICES ASSUME BlobsInit PROVE BlobsInv
  OBVIOUS
<1>1. AtRest.pc = "idle" /\ AtRest.id = 0 /\ NoRow \in RowType /\ NoRow.id = 0
  BY DEF AtRest, NoRow, RowType
<1>2. \A k \in Keepers : keeper[k] = AtRest /\ refersTo[k] = 0
  BY DEF BlobsInit
<1>3. keeper \in [Keepers -> KeeperType(0)]
  BY DEF BlobsInit, AtRest, KeeperType
<1>4. BlobTypes
  <2>0. refersTo \in [Keepers -> 0 .. 0]
    BY DEF BlobsInit
  <2>1. rowIds = 0 /\ queue = {} /\ blob = NoRow
        /\ file \in BOOLEAN /\ interrupted \in BOOLEAN /\ saves = 0 /\ accidents = 0
    BY DEF BlobsInit
  <2>2. MaxSaves \in Nat /\ MaxAccidents \in Nat
    BY BlobsAssumption
  <2>3. saves \in 0 .. MaxSaves /\ accidents \in 0 .. MaxAccidents
    BY <2>1, <2>2
  <2>4. keeper \in [Keepers -> KeeperType(rowIds)] /\ refersTo \in [Keepers -> 0 .. rowIds]
    BY <1>3, <2>0, <2>1
  <2> QED  BY <1>1, <2>1, <2>3, <2>4 DEF BlobTypes, KeeperType
<1>5. Saved = {}
  BY <1>1, <1>2 DEF Saved
<1>6. RowsCounted
  BY <1>5, FS_EmptySet DEF RowsCounted, BlobsInit
<1>7. TxnsInv
  BY DEF TxnsInv, BlobsInit
<1>8. KeepersInv
  BY <1>1, <1>2 DEF KeepersInv
<1> QED  BY <1>4, <1>6, <1>7, <1>8 DEF BlobsInv

LEMMA BlobsStep == BlobsInv /\ [BlobsNext]_blobsVars => BlobsInv'
<1> SUFFICES ASSUME BlobsInv, [BlobsNext]_blobsVars PROVE BlobsInv'
  OBVIOUS
<1>1. ASSUME NEW k \in Keepers,
             \/ Save(k) \/ Record(k) \/ RecordFails(k) \/ Refer(k) \/ ReferFails(k)
             \/ Drop(k) \/ Release(k) \/ Retract(k) \/ Unlink(k)
      PROVE  BlobsInv'
  BY <1>1, SaveStep, RecordStep, FailsStep, ReferStep, DropStep, ReleaseStep, RetractStep, UnlinkStep
<1>2. ASSUME NEW t \in cleaning, Rollback(t) PROVE BlobsInv'
  BY <1>2, RollbackStep
<1>3. CASE Drains
  BY <1>3, CompleteStep, DeletePathStep, CommitStep DEF Drains
<1>4. CASE CrashAll
  BY <1>4, CrashStep
<1>5. CASE UNCHANGED blobsVars
  BY <1>5 DEF blobsVars, rowState, BlobsInv, BlobTypes, RowsCounted, Saved, TxnsInv, Referenced,
              KeepersInv
<1> QED  BY <1>1, <1>2, <1>3, <1>4, <1>5 DEF BlobsNext

LEMMA BlobsInvHolds == BlobsSpec => []BlobsInv
BY BlobsInitInv, BlobsStep, PTL DEF BlobsSpec

(* Type correctness of the queue and the transactions: one entry per blob,    *)
(* one transaction per entry, and no more rows than the file was written.     *)
THEOREM BlobsTyped == BlobsSpec => []BlobsTypeOK
<1>1. BlobsInv => BlobsTypeOK
  <2> SUFFICES ASSUME BlobsInv PROVE BlobsTypeOK
    OBVIOUS
  <2>1. queue \subseteq RowType
    BY DEF BlobsInv, BlobTypes, RowType
  <2> QED  BY <2>1, RowsBounded DEF BlobsInv, BlobTypes, TxnsInv, BlobsTypeOK
<1> QED  BY <1>1, BlobsInvHolds, PTL

(* However deletions, rollbacks, crashes and new writes of the same content   *)
(* interleave, a reference has its row, and a transaction that deletes by its *)
(* row holds the row that was queued, which nobody refers to.  Of the file    *)
(* nothing is proved: the code may delete one that is referred to.            *)
THEOREM ReferencesAlwaysKept == BlobsSpec => []ReferencesKept
<1>1. BlobsInv => ReferencesKept
  BY DEF BlobsInv, KeepersInv, TxnsInv, ReferencesKept
<1> QED  BY <1>1, BlobsInvHolds, PTL
=============================================================================
