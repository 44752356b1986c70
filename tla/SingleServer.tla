---------------------------- MODULE SingleServer ----------------------------
(****************************************************************************)
(* One server per database, and what a start makes of the runs of the last.  *)
(*                                                                          *)
(* cmd/rolltop/instance_lock.go locks the data directory, which catches two  *)
(* processes on one volume; backend/store/instance_lock.go holds an advisory *)
(* lock of PostgreSQL on a session of its own, which catches two deployments *)
(* on one database.  A session may outlive its process for hours, so the     *)
(* holder pings, and a start whose wait has run out ends the session of a    *)
(* holder that has been silent too long.  backend/store/sync_runs.go keeps   *)
(* the journal of sync runs: a start, a shutdown and a sweep every minute    *)
(* stamp the rows that are still running.                                    *)
(*                                                                          *)
(* A step is a statement of PostgreSQL or an event of a process.  Time is    *)
(* counted in ticks since the holder's last statement; that a live holder    *)
(* that reaches its session pings within StaleAfter is assumed, as the code  *)
(* assumes it.                                                               *)
(****************************************************************************)
EXTENDS Integers, FiniteSets

CONSTANTS
    Servers,     \* deployments; each runs one process at a time
    Runs,        \* bound: rows of sync_runs
    StaleAfter,  \* instanceStaleAfter, in ticks
    MaxFaults    \* bound: killed processes, stops, lost sessions, failed statements

ASSUME ServersAssumption == StaleAfter \in Nat \ {0} /\ MaxFaults \in Nat

Attempts == 3                                   \* instanceClaimAttempts
Pids     == 1 .. 2 * Cardinality(Servers) + 1   \* backends of lock sessions

VARIABLES
    shared,  \* the deployments share a volume
    lock,    \* the session that holds the advisory lock; pid 0: none
    server,  \* of each deployment: its process, its session and what it has seen
    runs,    \* sync_runs: the status of a row and the process that works on it
    faults

serverVars == <<shared, lock, server, runs, faults>>

Holding  == {"marking", "serving"}
Process  == [pc : Holding \cup {"down", "waiting", "looking", "terminating"},
             pid : {0} \cup Pids, waited : BOOLEAN, tries : 0 .. Attempts,
             seen : {0} \cup Pids, guarded : BOOLEAN]
Row      == [status : {"none", "running", "finished", "interrupted", "deleted"},
             worker : {0} \cup Pids]

Gone == [pc |-> "down", pid |-> 0, waited |-> FALSE, tries |-> 0, seen |-> 0, guarded |-> FALSE]
Free == [pid |-> 0, live |-> FALSE, silent |-> 0]
NewRun == [status |-> "none", worker |-> 0]

ServersTypeOK ==
    /\ shared \in BOOLEAN
    /\ lock \in [pid : {0} \cup Pids, live : BOOLEAN, silent : 0 .. StaleAfter + 1]
    /\ server \in [Servers -> Process]
    /\ runs \in [Runs -> Row]
    /\ faults \in 0 .. MaxFaults
    /\ \A s \in Servers : server[s].guarded =>
           server[s].pc \in Holding /\ lock.live /\ lock.pid = server[s].pid
    /\ lock.live => \E s \in Servers : server[s].guarded
    /\ \A r \in Runs : runs[r].worker # 0 =>
           \E s \in Servers : server[s].pc = "serving" /\ server[s].pid = runs[r].worker

ServersInit ==
    /\ shared \in BOOLEAN
    /\ lock = Free /\ server = [s \in Servers |-> Gone]
    /\ runs = [r \in Runs |-> NewRun] /\ faults = 0

-----------------------------------------------------------------------------
Up(s)    == server[s].pc # "down"
Mine(s)  == lock.pid # 0 /\ lock.pid = server[s].pid
Fault    == faults < MaxFaults /\ faults' = faults + 1

(* A backend that no session, and nobody who has looked one up, knows. *)
Unused == Pids \ ({lock.pid} \cup {server[s].pid : s \in Servers}
                             \cup {server[s].seen : s \in Servers})

(* Mutated: a worker outlives its process. *)
OrphanedMutant(s) == runs

(* The process of s ends: its goroutines, and so its workers, are gone. *)
Orphaned(s) == [r \in Runs |->
    IF server[s].pid # 0 /\ runs[r].worker = server[s].pid
    THEN [runs[r] EXCEPT !.worker = 0] ELSE runs[r]]
Ends(s) == server' = [server EXCEPT ![s] = Gone] /\ runs' = Orphaned(s)

-----------------------------------------------------------------------------
(* waitForInstanceLock: the data directory is free; then a session of its own *)
(* is prepared and asks for the lock.                                         *)
Start(s) ==
    /\ ~Up(s) /\ (shared => \A t \in Servers : ~Up(t))
    /\ \E pid \in Unused :
           /\ \A p \in Unused : pid <= p
           /\ server' = [server EXCEPT ![s] = [Gone EXCEPT !.pc = "waiting", !.pid = pid]]
    /\ UNCHANGED <<shared, lock, runs, faults>>

(* pg_try_advisory_lock succeeds. *)
TakeLock(s) ==
    /\ server[s].pc = "waiting" /\ lock.pid = 0
    /\ lock' = [pid |-> server[s].pid, live |-> TRUE, silent |-> 0]
    /\ server' = [server EXCEPT ![s].pc = "marking", ![s].guarded = TRUE]
    /\ UNCHANGED <<shared, runs, faults>>

WaitOut(s) ==
    /\ server[s].pc = "waiting" /\ lock.pid # 0 /\ ~server[s].waited
    /\ server' = [server EXCEPT ![s].waited = TRUE]
    /\ UNCHANGED <<shared, lock, runs, faults>>

(* The wait is spent and the lock is held still: ask who holds it, at most    *)
(* instanceClaimAttempts times.                                               *)
AskHolder(s) ==
    /\ server[s].pc = "waiting" /\ lock.pid # 0 /\ server[s].waited
    /\ IF server[s].tries < Attempts
       THEN /\ server' = [server EXCEPT ![s].pc = "looking", ![s].tries = @ + 1]
            /\ UNCHANGED runs
       ELSE Ends(s)
    /\ UNCHANGED <<shared, lock, faults>>

(* Mutated: a silent holder is never found stale. *)
StaleMutant == FALSE

(* staleAfter, answering *)
Stale == lock.silent > StaleAfter

(* claimFromHolder *)
Look(s) ==
    /\ server[s].pc = "looking"
    /\ \/ /\ lock.pid = 0 /\ UNCHANGED <<runs, faults>>
          /\ server' = [server EXCEPT ![s].pc = "waiting"]
       \/ /\ lock.pid # 0 /\ Stale /\ UNCHANGED <<runs, faults>>
          /\ server' = [server EXCEPT ![s].pc = "terminating", ![s].seen = lock.pid]
       \/ lock.pid # 0 /\ ~Stale /\ Ends(s) /\ UNCHANGED faults
       \/ Fault /\ Ends(s)
    /\ UNCHANGED <<shared, lock>>

(* Mutated: whichever session holds the lock is ended. *)
TerminatedMutant(pid) == Free

(* pg_terminate_backend ends the session that was looked up. *)
Terminated(pid) == IF lock.pid = pid THEN Free ELSE lock

Terminate(s) ==
    /\ server[s].pc = "terminating"
    /\ \/ /\ lock' = Terminated(server[s].seen) /\ UNCHANGED <<runs, faults>>
          /\ server' = [server EXCEPT ![s].pc = "waiting", ![s].seen = 0]
       \/ Fault /\ Ends(s) /\ UNCHANGED lock
    /\ UNCHANGED shared

-----------------------------------------------------------------------------
(* MarkRunningSyncRunsInterrupted, at start and at shutdown. *)
Marked == [r \in Runs |-> IF runs[r].status = "running"
                          THEN [runs[r] EXCEPT !.status = "interrupted"] ELSE runs[r]]

(* A start goes on when the statement fails. *)
Mark(s) ==
    /\ server[s].pc = "marking"
    /\ \/ runs' = Marked /\ UNCHANGED faults
       \/ Fault /\ UNCHANGED runs
    /\ server' = [server EXCEPT ![s].pc = "serving"]
    /\ UNCHANGED <<shared, lock>>

(* The holder's ping; a terminated or broken session is never pinged again.   *)
Ping(s) ==
    /\ server[s].pc \in Holding /\ Mine(s) /\ lock.live /\ lock.silent > 0
    /\ lock' = [lock EXCEPT !.silent = 0]
    /\ UNCHANGED <<shared, server, runs, faults>>

(* A tick passes; a live holder has pinged before the last one it may miss. *)
Tick ==
    /\ lock.pid # 0 /\ lock.silent <= StaleAfter
    /\ lock.live => lock.silent < StaleAfter
    /\ lock' = [lock EXCEPT !.silent = @ + 1]
    /\ UNCHANGED <<shared, server, runs, faults>>

-----------------------------------------------------------------------------
(* The process is killed: its session is closed with it, or stays behind. *)
Kill(s) ==
    /\ Up(s) /\ Fault /\ Ends(s)
    /\ \/ lock' = IF Mine(s) THEN Free ELSE lock
       \/ Mine(s) /\ lock' = [lock EXCEPT !.live = FALSE]
    /\ UNCHANGED shared

(* The server can no longer reach the session that holds its lock, or the     *)
(* database ended it: the hole the code documents, and logs (ping).           *)
LoseSession(s) ==
    /\ server[s].pc \in Holding /\ Mine(s) /\ lock.live /\ Fault
    /\ lock' \in {Free, [lock EXCEPT !.live = FALSE]}
    /\ server' = [server EXCEPT ![s].guarded = FALSE]
    /\ UNCHANGED <<shared, runs>>

(* PostgreSQL's keepalives end a session nobody answers for. *)
Reap ==
    /\ lock.pid # 0 /\ ~lock.live /\ lock' = Free
    /\ UNCHANGED <<shared, server, runs, faults>>

(* shutdownServingApp: requests are drained, the runs are stamped, and the    *)
(* process ends, which releases its lock if it has it still.                  *)
Stop(s) ==
    /\ server[s].pc = "serving" /\ Fault
    /\ server' = [server EXCEPT ![s] = Gone]
    /\ runs' = [r \in Runs |-> [Marked[r] EXCEPT !.worker = Orphaned(s)[r].worker]]
    /\ lock' = IF Mine(s) THEN Free ELSE lock
    /\ UNCHANGED shared

-----------------------------------------------------------------------------
(* CreateSyncRun, and the goroutine that works on it. *)
CreateRun(s, r) ==
    /\ server[s].pc = "serving" /\ runs[r].status = "none"
    /\ runs' = [runs EXCEPT ![r] = [status |-> "running", worker |-> server[s].pid]]
    /\ UNCHANGED <<shared, lock, server, faults>>

(* Mutated: the end of a run overwrites its interruption. *)
OverwritesMutant(r) == runs[r].status # "deleted"

(* FinishSyncRun does not overwrite what interrupted the run. *)
Overwrites(r) == runs[r].status = "running"

(* The worker ends; its statement may fail, which is only logged. *)
FinishRun(r) ==
    /\ runs[r].worker # 0
    /\ \/ /\ Overwrites(r) /\ UNCHANGED faults
          /\ \E status \in {"finished", "interrupted"} :
                 runs' = [runs EXCEPT ![r] = [status |-> status, worker |-> 0]]
       \/ ~Overwrites(r) /\ runs' = [runs EXCEPT ![r].worker = 0] /\ UNCHANGED faults
       \/ Fault /\ runs' = [runs EXCEPT ![r].worker = 0]
    /\ UNCHANGED <<shared, lock, server>>

(* InterruptSyncRunForUser; the worker notices later. *)
CancelRun(r) ==
    /\ runs[r].status = "running" /\ \E s \in Servers : server[s].pc = "serving"
    /\ runs' = [runs EXCEPT ![r].status = "interrupted"]
    /\ UNCHANGED <<shared, lock, server, faults>>

(* DeleteSyncRunForUser *)
DeleteRun(r) ==
    /\ runs[r].status \in {"finished", "interrupted"}
    /\ \E s \in Servers : server[s].pc = "serving"
    /\ runs' = [runs EXCEPT ![r].status = "deleted"]
    /\ UNCHANGED <<shared, lock, server, faults>>

(* Mutated: a live worker's run is swept, an abandoned one is not. *)
AbandonedMutant(r) == runs[r].status = "running" /\ runs[r].worker # 0

(* InterruptStaleSyncRuns: rows whose worker has written nothing for a long   *)
(* time; a worker that is alive does so only when it is stuck.                *)
Abandoned(r) == runs[r].status = "running" /\ runs[r].worker = 0

Sweep(r) ==
    /\ \E s \in Servers : server[s].pc = "serving"
    /\ Abandoned(r) /\ runs' = [runs EXCEPT ![r].status = "interrupted"]
    /\ UNCHANGED <<shared, lock, server, faults>>

SweepStuck(r) ==
    /\ \E s \in Servers : server[s].pc = "serving"
    /\ runs[r].status = "running" /\ runs[r].worker # 0 /\ Fault
    /\ runs' = [runs EXCEPT ![r].status = "interrupted"]
    /\ UNCHANGED <<shared, lock, server>>

-----------------------------------------------------------------------------
Claims(s) == TakeLock(s) \/ WaitOut(s) \/ AskHolder(s) \/ Look(s) \/ Terminate(s) \/ Mark(s)

ServersNext ==
    \/ \E s \in Servers : \/ Start(s) \/ Claims(s) \/ Ping(s)
                          \/ Kill(s) \/ LoseSession(s) \/ Stop(s)
    \/ \E s \in Servers, r \in Runs : CreateRun(s, r)
    \/ \E r \in Runs : FinishRun(r) \/ CancelRun(r) \/ DeleteRun(r) \/ Sweep(r) \/ SweepStuck(r)
    \/ Tick \/ Reap

(* A deployment that is down is started again; time passes; a server sweeps   *)
(* every minute.  Neither keepalives nor a worker's end are relied on.        *)
ServersFairness ==
    /\ \A s \in Servers : WF_serverVars(Start(s)) /\ WF_serverVars(Claims(s))
    /\ WF_serverVars(Tick)
    /\ \A r \in Runs : WF_serverVars(Sweep(r))
ServersSpec == ServersInit /\ [][ServersNext]_serverVars /\ ServersFairness

-----------------------------------------------------------------------------
(* Two servers never both work on the database while they believe themselves  *)
(* guarded: a start takes the lock from a session it found silent, never from *)
(* the one that took it meanwhile.                                            *)
OneServer ==
    \A s, t \in Servers :
        server[s].guarded /\ server[t].guarded => s = t

(* Once a process is started the database gets a server, although the session *)
(* of one that was killed stayed behind and its keepalives may never fire.    *)
ServedAgain == (\E s \in Servers : Up(s)) ~> (\E s \in Servers : server[s].pc = "serving")

(* A run whose worker is gone does not stay "running": not when the server    *)
(* was killed, when the stamp of the start failed, or the worker's own.       *)
NoPhantom ==
    \A r \in Runs :
        runs[r].status = "running" /\ runs[r].worker = 0 ~> runs[r].status # "running"

(* A run that was cancelled, or stamped by a start, a shutdown or the sweep,  *)
(* is not reported as finished by a worker that ends later.                   *)
DecidedForGood ==
    [][\A r \in Runs : runs[r].status \in {"finished", "interrupted", "deleted"} =>
           runs'[r].status \in {runs[r].status, "deleted"}]_serverVars
=============================================================================
