----------------------------- MODULE SyncRunner -----------------------------
(****************************************************************************)
(* backend/syncer/runner.go, one tenant: who may write the tenant's mail     *)
(* mirror and when.  Mailbox jobs reserve a folder, either for every account *)
(* (key <<AllAccounts, m>>) or for one account (<<a, m>>); an account-wide   *)
(* pass runs the folders one after the other; a foreground operation (send,  *)
(* move) preempts all of them; the sender-statistics refresh and the         *)
(* attachment worker run when the tenant is idle.  Whatever is refused while *)
(* another writer holds the mirror is recorded as pending or deferred, and   *)
(* replayed by the holder when it lets go.                                   *)
(*                                                                          *)
(* Every step is one critical section of Runner.mu.  A goroutine that still  *)
(* has calls to make is a sequence of calls in the bag "callers": they are   *)
(* made in order, and each waits where the code waits.  The gate of the      *)
(* mailbox-generation recovery is open throughout.                           *)
(****************************************************************************)
EXTENDS Integers, Sequences, FiniteSets, Bags, SequencesExt

CONSTANTS
    Accounts,         \* IMAP accounts of the tenant
    AllAccounts,      \* account id 0: a job that syncs the folder everywhere
    Mailboxes,        \* folder names
    Foregrounds,      \* callers of BeginForegroundOperation
    None,
    DerivedWork,      \* bound: whether statistics and attachments are derived;
                      \* without them there is room for more requests
    MaxRequests,      \* bound: requests from outside (handlers, scheduler) and
                      \* faults, together
    MaxFaults,        \* bound: turns that pause, fail or find more to do
    BarrierTimeouts   \* whether the waits bounded by barrierWait may expire

ASSUME NamesAssumption ==
    /\ AllAccounts \notin Accounts
    /\ None \notin Foregrounds \cup ((Accounts \cup {AllAccounts}) \X Mailboxes)
ASSUME FiniteAssumption == IsFiniteSet(Accounts) /\ IsFiniteSet(Mailboxes)
ASSUME LimitsAssumption ==
    /\ MaxRequests \in Nat /\ MaxFaults \in Nat
    /\ BarrierTimeouts \in BOOLEAN /\ DerivedWork \in BOOLEAN

AccountKeys == Accounts \X Mailboxes
GlobalKeys  == {AllAccounts} \X Mailboxes
Keys        == AccountKeys \cup GlobalKeys
Global(k)   == <<AllAccounts, k[2]>>
SameFolder(k) == {h \in Keys : h[2] = k[2]}

VARIABLES
    phase,           \* of the job on each key of mailboxRunning, "free" if none
    cancelled,       \* keys whose job's context is cancelled
    pending,         \* mailboxPending and accountMailboxPending
    auto,            \* "off", "planning", "running", "busy" (in a folder's job)
    autoJob,         \* the key the account-wide pass holds
    autoCancelled,
    autoRest,        \* folders the account-wide pass has not come to
    autoDeferred,    \* autoDeferredAccts
    holder,          \* the caller foregroundRunning stands for
    fgPc,            \* where each caller of BeginForegroundOperation is
    waitsOn,         \* whose foregroundDone it waits for
    fgDeferred,      \* foregroundDeferredBoxes and foregroundDeferredAccts
    fgDeferredAuto,
    statsRunning, statsPending, statsCancelled,
    attachRunning, attachPending, attachCancelled,
    attachResume,    \* attachmentResumeAfterStats
    attachTimer,     \* an armed attachmentRetryTimers entry
    attachWake,      \* nextAttachmentIndexWake: a cooldown or continuation is set
    callers,         \* goroutines with calls left to make, as a bag
    requests,        \* requests made so far, up to MaxRequests
    faults,          \* faults met so far, up to MaxFaults
    \* Auxiliary: what the requests accepted by QueueAccountMailboxes are owed.
    owed,            \* of each account key, whether a request awaits its pass
    serving          \* for each job, the ones its pass will have met

jobVars    == <<phase, cancelled, pending, serving, owed>>
autoVars   == <<auto, autoJob, autoCancelled, autoRest, autoDeferred>>
fgVars     == <<holder, fgPc, waitsOn, fgDeferred, fgDeferredAuto>>
statsVars  == <<statsRunning, statsPending, statsCancelled>>
attachVars == <<attachRunning, attachPending, attachCancelled, attachResume,
                attachTimer, attachWake>>
boundVars  == <<requests, faults>>
vars == <<jobVars, autoVars, fgVars, statsVars, attachVars, callers, boundVars>>

Call == [op : {"queue"}, key : AccountKeys]
        \cup [op : {"priority"}, key : GlobalKeys]
        \cup [op : {"start", "autoNext", "stats", "statsIfIdle", "statsEnd",
                    "attach", "attachIfIdle", "skip", "scheduleNext", "arm"}]
        \cup [op : {"close"}, f : Foregrounds]

Queue(k)    == [op |-> "queue", key |-> k]
Priority(k) == [op |-> "priority", key |-> k]
Do(name)    == [op |-> name]

Phases == {"free", "reserved", "waiting", "syncing", "closing",
           "maintaining", "rebuilding"}

TypeOK ==
    /\ phase \in [Keys -> Phases]
    /\ cancelled \subseteq Keys
    /\ pending \subseteq Keys
    /\ auto \in {"off", "planning", "running", "busy"}
    /\ autoJob \in GlobalKeys \cup {None}
    /\ autoCancelled \in BOOLEAN
    /\ autoRest \subseteq Mailboxes
    /\ autoDeferred \subseteq AccountKeys
    /\ holder \in Foregrounds \cup {None}
    /\ fgPc \in [Foregrounds ->
            {"idle", "waiting", "woken", "yielding", "abandoned", "held", "finishing"}]
    /\ waitsOn \in [Foregrounds -> Foregrounds \cup {None}]
    /\ fgDeferred \subseteq Keys
    /\ fgDeferredAuto \in BOOLEAN
    /\ statsRunning \in BOOLEAN /\ statsPending \in BOOLEAN /\ statsCancelled \in BOOLEAN
    /\ attachRunning \in BOOLEAN /\ attachPending \in BOOLEAN
    /\ attachCancelled \in BOOLEAN /\ attachResume \in BOOLEAN
    /\ attachTimer \in BOOLEAN /\ attachWake \in BOOLEAN
    /\ IsABag(callers)
    /\ \A s \in DOMAIN callers : s \in Seq(Call) /\ s # <<>>
    /\ requests \in Nat /\ faults \in Nat
    /\ owed \in [AccountKeys -> {"no", "yes", "dropped"}]
    /\ serving \in [Keys -> SUBSET AccountKeys]

-----------------------------------------------------------------------------
(* Goroutines *)

Thread(s) == IF s = <<>> THEN EmptyBag ELSE SetToBag({s})

\* A new goroutine with calls s to make.
Spawn(s) == callers' = callers (+) Thread(s)

\* The goroutine s has made its first call and goes on with t.
Continue(s, t) == callers' = (callers (-) Thread(s)) (+) Thread(t)

\* startup runs StartAttachmentIndex once for each tenant.
Init ==
    /\ phase = [k \in Keys |-> "free"]
    /\ cancelled = {} /\ pending = {}
    /\ auto = "off" /\ autoJob = None /\ autoCancelled = FALSE
    /\ autoRest = {} /\ autoDeferred = {}
    /\ holder = None
    /\ fgPc = [f \in Foregrounds |-> "idle"]
    /\ waitsOn = [f \in Foregrounds |-> None]
    /\ fgDeferred = {} /\ fgDeferredAuto = FALSE
    /\ statsRunning = FALSE /\ statsPending = FALSE /\ statsCancelled = FALSE
    /\ attachRunning = FALSE /\ attachPending = FALSE /\ attachCancelled = FALSE
    /\ attachResume = FALSE /\ attachTimer = FALSE /\ attachWake = FALSE
    /\ callers = IF DerivedWork THEN Thread(<<Do("attach")>>) ELSE EmptyBag
    /\ requests = 0 /\ faults = 0
    /\ owed = [k \in AccountKeys |-> "no"]
    /\ serving = [k \in Keys |-> {}]

MayHappen == requests + faults < MaxRequests
Ask   == MayHappen /\ requests' = requests + 1 /\ faults' = faults
Fault == MayHappen /\ faults < MaxFaults /\ faults' = faults + 1 /\ requests' = requests

-----------------------------------------------------------------------------
(* Reservations *)

Held == {k \in Keys : phase[k] # "free"}

\* Mutant of Excluding: an account's job overlooks the folder's global job.
ExcludingMutant(k) == IF k \in GlobalKeys THEN SameFolder(k) ELSE {k}

\* The keys that exclude a job on k: mailboxReservedByAnyAccountLocked for a
\* global job, accountMailboxReservedLocked for one account's.
Excluding(k) == IF k \in GlobalKeys THEN SameFolder(k) ELSE {k, Global(k)}
Reserved(k)  == Excluding(k) \cap Held # {}

\* ordinaryMailboxSyncRunningLocked and userForegroundRunningLocked: the same
\* condition while the recovery gate is open.
OrdinaryRunning == auto # "off" \/ holder # None \/ Held # {}

\* Mutant of WriterRunning: a reserved or closing job is not a writer.
WriterRunningMutant ==
    \/ auto = "planning"
    \/ fgDeferredAuto /\ auto # "off"
    \/ \E k \in Held : phase[k] \in {"waiting", "syncing", "maintaining"}

\* What foreground waits for (mailboxWriterRunningLocked): search-only rebuilds
\* converge with concurrent work and are not waited for.
WriterRunning ==
    \/ auto = "planning"
    \/ fgDeferredAuto /\ auto # "off"
    \/ \E k \in Held : phase[k] # "rebuilding"

\* Mutant of AfterStats: jobs are admitted beside the refresh.
AfterStatsMutant == TRUE

\* lockAfterSenderStats returns with Runner.mu held.
AfterStats == ~statsRunning

\* lockAfterExclusiveWriters; its wait ends no earlier than this, and at the
\* latest when the holder closes its channel.
AfterExclusiveWriters == AfterStats /\ holder = None

PauseAttachment ==
    /\ attachPending' = (attachPending \/ attachRunning)
    /\ attachCancelled' = attachRunning
    /\ UNCHANGED <<attachRunning, attachResume, attachTimer, attachWake>>

Reserve(k, ph) ==
    /\ phase' = [phase EXCEPT ![k] = ph]
    /\ PauseAttachment

\* reserveOrQueueMailboxes: run, or remember for the holder of the folder or of
\* the foreground.  "started" is what StartPriorityMailboxes reports.
PriorityRequest(k, started) ==
    /\ AfterStats
    /\ \/ /\ ~started /\ holder # None
          /\ fgDeferred' = fgDeferred \cup {k}
          /\ UNCHANGED <<phase, pending, attachVars>>
       \/ /\ ~started /\ holder = None /\ Reserved(k)
          /\ pending' = pending \cup {k}
          /\ UNCHANGED <<phase, fgDeferred, attachVars>>
       \/ /\ started /\ holder = None /\ ~Reserved(k)
          /\ Reserve(k, "reserved")
          /\ UNCHANGED <<pending, fgDeferred>>
    /\ UNCHANGED <<cancelled, serving, owed, autoVars, statsVars,
                   holder, fgPc, waitsOn, fgDeferredAuto>>

\* reserveOrQueueAccountMailboxes, the body of QueueAccountMailboxes.
QueueRequest(k) ==
    /\ AfterStats
    /\ \/ /\ auto # "off"
          /\ autoDeferred' = autoDeferred \cup {k}
          /\ UNCHANGED <<phase, pending, fgDeferred, attachVars>>
       \/ /\ auto = "off" /\ holder # None
          /\ fgDeferred' = fgDeferred \cup {k}
          /\ UNCHANGED <<phase, pending, autoDeferred, attachVars>>
       \/ /\ auto = "off" /\ holder = None /\ Reserved(k)
          /\ pending' = pending \cup {k}
          /\ UNCHANGED <<phase, fgDeferred, autoDeferred, attachVars>>
       \/ /\ auto = "off" /\ holder = None /\ ~Reserved(k)
          /\ Reserve(k, "reserved")
          /\ UNCHANGED <<pending, fgDeferred, autoDeferred>>
    /\ UNCHANGED <<cancelled, statsVars, auto, autoJob, autoCancelled, autoRest,
                   holder, fgPc, waitsOn, fgDeferredAuto>>

\* The same wait, given up after barrierWait: the request is not recorded, nor
\* are those of S that it repeats.
QueueTimeout(S) ==
    /\ BarrierTimeouts
    /\ statsRunning
    /\ owed' = [k \in AccountKeys |->
                 IF k \in S /\ owed[k] = "yes" THEN "dropped" ELSE owed[k]]
    /\ UNCHANGED <<phase, cancelled, pending, serving, autoVars, fgVars, statsVars, attachVars>>

-----------------------------------------------------------------------------
(* Requests from outside *)

\* A new request is owed a pass that begins after it.
Owe(k) ==
    /\ owed' = [owed EXCEPT ![k] = "yes"]
    /\ serving' = [h \in Keys |-> serving[h] \ {k}]

QueueAccountMailboxes(k) ==
    /\ Ask
    /\ \/ Owe(k) /\ QueueRequest(k)
       \/ /\ BarrierTimeouts /\ statsRunning
          /\ owed' = [owed EXCEPT ![k] = IF @ = "yes" THEN @ ELSE "dropped"]
          /\ UNCHANGED <<phase, cancelled, pending, serving, autoVars, fgVars, statsVars,
                         attachVars>>
    /\ UNCHANGED callers

StartPriorityMailboxes(k) ==
    /\ Ask
    /\ \E started \in BOOLEAN : PriorityRequest(k, started)
    /\ UNCHANGED callers

\* StartMailboxes and StartAccountMailboxes: refused when the folder is busy;
\* an account's job also when the account-wide pass owns the plan.
StartMailboxes(k) ==
    /\ Ask
    /\ AfterExclusiveWriters
    /\ k \in AccountKeys => auto = "off"
    /\ ~Reserved(k)
    /\ Reserve(k, "reserved")
    /\ UNCHANGED <<cancelled, pending, serving, owed, autoVars, fgVars, statsVars, callers>>

\* startMailboxMaintenance, destructive ("maintaining") or search-only
\* ("rebuilding").
StartMaintenance(k, ph) ==
    /\ Ask
    /\ AfterExclusiveWriters
    /\ ~Reserved(k)
    /\ Reserve(k, ph)
    /\ UNCHANGED <<cancelled, pending, serving, owed, autoVars, fgVars, statsVars, callers>>

\* StartWithinContext, up to the goroutine of the account-wide pass.
StartPass(started) ==
    /\ AfterExclusiveWriters
    /\ started = (auto = "off")
    /\ IF started
       THEN /\ auto' = "planning"
            /\ PauseAttachment
            /\ UNCHANGED <<autoJob, autoCancelled, autoRest, autoDeferred>>
       ELSE UNCHANGED <<autoVars, attachVars>>
    /\ UNCHANGED <<jobVars, fgVars, statsVars>>

Start ==
    /\ Ask
    /\ StartPass(TRUE)
    /\ UNCHANGED callers

-----------------------------------------------------------------------------
(* The mailbox jobs: runReservedMailboxes and runReservedAccountMailboxes *)

\* ordinaryMailboxContext: from here on a preemption finds the job.
Register(k) ==
    /\ phase[k] = "reserved"
    /\ phase' = [phase EXCEPT ![k] = "waiting"]
    /\ UNCHANGED <<cancelled, pending, serving, owed, autoVars, fgVars, statsVars,
                   attachVars, callers, boundVars>>

\* waitForAttachmentIndex returns: the worker is done, or it did not yield in
\* time and the sync goes on beside it.  A cancelled job ends here.
BeginPass(k) ==
    /\ phase[k] = "waiting"
    /\ IF k \in cancelled
       THEN /\ phase' = [phase EXCEPT ![k] = "closing"]
            /\ UNCHANGED serving
       ELSE /\ phase' = [phase EXCEPT ![k] = "syncing"]
            /\ serving' = [serving EXCEPT ![k] = {h \in AccountKeys : owed[h] = "yes" /\ k \in {h, Global(h)}}]
    /\ UNCHANGED <<cancelled, pending, owed, autoVars, fgVars, statsVars,
                   attachVars, callers, boundVars>>

\* The sync has made its pass; an error of the server counts as one.
CompletePass(k) ==
    /\ phase[k] = "syncing"
    /\ phase' = [phase EXCEPT ![k] = "closing"]
    /\ owed' = [h \in AccountKeys |-> IF h \in serving[k] THEN "no" ELSE owed[h]]
    /\ serving' = [serving EXCEPT ![k] = {}]
    /\ UNCHANGED <<cancelled, pending, autoVars, fgVars, statsVars, attachVars,
                   callers, boundVars>>

\* The sync stops at its checkpoint because its context was cancelled.
YieldPass(k) ==
    /\ phase[k] = "syncing"
    /\ k \in cancelled
    /\ phase' = [phase EXCEPT ![k] = "closing"]
    /\ serving' = [serving EXCEPT ![k] = {}]
    /\ UNCHANGED <<cancelled, pending, owed, autoVars, fgVars, statsVars,
                   attachVars, callers, boundVars>>

\* The turn is over before the folder is (ErrSyncTurnPaused): another follows.
PausePass(k) ==
    /\ phase[k] = "syncing"
    /\ Fault
    /\ phase' = [phase EXCEPT ![k] = "closing"]
    /\ pending' = pending \cup {k}
    /\ serving' = [serving EXCEPT ![k] = {}]
    /\ UNCHANGED <<cancelled, owed, autoVars, fgVars, statsVars, attachVars, callers>>

\* Mutant of Waited: a global job leaves the accounts' requests behind.
WaitedMutant(k) ==
    IF k \in GlobalKeys THEN pending \cap {k} ELSE pending \cap {k, Global(k)}

\* The requests that waited for the job on k: those of every account for the same
\* folder when k is global (takeAccountPendingForMailboxLocked).
Waited(k) ==
    IF k \in GlobalKeys
    THEN pending \cap SameFolder(k)
    ELSE IF Global(k) \in pending THEN pending \cap {k, Global(k)} ELSE pending \cap {k}

\* Mutants of Reruns: a rerun is qualified with account 0; the accounts' requests
\* are taken but not repeated.
RerunsMutantType(k) ==
    IF Waited(k) = {} THEN {<<>>} ELSE {<<Queue(Global(k))>>}
RerunsMutantDrop(k) ==
    IF Global(k) \in pending THEN {<<Priority(Global(k))>>} ELSE {<<>>}

\* The calls that repeat them, in some order: a global one covers the accounts'.
Reruns(k) ==
    IF Global(k) \in pending
    THEN {<<Priority(Global(k))>>}
    ELSE {[i \in DOMAIN s |-> Queue(s[i])] : s \in SetToSeqs(Waited(k))}

Free(k) ==
    /\ phase' = [phase EXCEPT ![k] = "free"]
    /\ cancelled' = cancelled \ {k}
    /\ pending' = pending \ Waited(k)

\* RefreshSenderStats, then StartAttachmentIndex.
DerivedCalls == IF DerivedWork THEN <<Do("stats"), Do("attach")>> ELSE <<>>

\* The deferred release; the goroutine then repeats what waited for it.  A job
\* of the account-wide pass returns to the pass.
Release(k) ==
    /\ phase[k] = "closing"
    /\ Free(k)
    /\ \E s \in Reruns(k) :
          Spawn(s \o IF k = autoJob THEN <<Do("autoNext")>> ELSE DerivedCalls)
    /\ autoJob' = IF k = autoJob THEN None ELSE autoJob
    /\ UNCHANGED <<serving, owed, auto, autoCancelled, autoRest, autoDeferred,
                   fgVars, statsVars, attachVars, boundVars>>

\* Maintenance ends, with success or an error (releaseMailboxMaintenanceReservation).
FinishMaintenance(k, ok) ==
    /\ phase[k] \in {"maintaining", "rebuilding"}
    /\ Free(k)
    /\ \E s \in Reruns(k) : Spawn(s \o IF ok \/ ~DerivedWork THEN DerivedCalls ELSE <<Do("attach")>>)
    /\ UNCHANGED <<serving, owed, autoVars, fgVars, statsVars, attachVars, boundVars>>

-----------------------------------------------------------------------------
(* The account-wide pass *)

\* AutoMailboxNames returns the folders, or an error; cancelled, it may do either.
PlanPass ==
    /\ auto = "planning"
    /\ auto' = "running"
    /\ \/ autoRest' = Mailboxes /\ UNCHANGED boundVars
       \/ autoRest' = {} /\ IF autoCancelled THEN UNCHANGED boundVars ELSE Fault
    /\ UNCHANGED <<jobVars, autoJob, autoCancelled, autoDeferred, fgVars, statsVars,
                   attachVars, callers>>

\* runMailboxes for the next folder: its job runs inside the pass, or the folder
\* is skipped because it is busy.
PassMailbox(m) ==
    LET k == <<AllAccounts, m>> IN
    /\ auto = "running" /\ ~autoCancelled
    /\ m \in autoRest
    /\ autoRest' = autoRest \ {m}
    /\ \/ /\ AfterExclusiveWriters /\ ~Reserved(k)
          /\ Reserve(k, "reserved")
          /\ auto' = "busy" /\ autoJob' = k
       \/ /\ AfterExclusiveWriters /\ Reserved(k)
          /\ UNCHANGED <<phase, auto, autoJob, attachVars>>
       \/ /\ BarrierTimeouts /\ ~AfterExclusiveWriters
          /\ UNCHANGED <<phase, auto, autoJob, attachVars>>
    /\ UNCHANGED <<cancelled, pending, serving, owed, autoCancelled, autoDeferred,
                   fgVars, statsVars, callers, boundVars>>

\* The deferred end of the pass: what accounts asked for meanwhile is queued.
FinishPass ==
    /\ auto = "running"
    /\ autoCancelled \/ autoRest = {}
    /\ auto' = "off" /\ autoCancelled' = FALSE /\ autoRest' = {}
    /\ autoDeferred' = {}
    /\ \E s \in SetToSeqs(autoDeferred) :
          Spawn([i \in DOMAIN s |-> Queue(s[i])] \o DerivedCalls)
    /\ UNCHANGED <<jobVars, autoJob, fgVars, statsVars, attachVars, boundVars>>

-----------------------------------------------------------------------------
(* Foreground operations *)

\* preemptResumableWorkForForegroundLocked: a registered sync job is cancelled
\* and will be repeated, planning is cancelled and will be repeated, derived
\* work is cancelled.  A job that has not registered yet is missed.
Preempt ==
    LET jobs == {k \in Keys : phase[k] \in {"waiting", "syncing"}} IN
    /\ PauseAttachment
    /\ cancelled' = cancelled \cup jobs
    /\ pending' = pending \cup jobs
    /\ autoCancelled' = (autoCancelled \/ auto = "planning")
    /\ fgDeferredAuto' = (fgDeferredAuto \/ auto = "planning")
    /\ statsCancelled' = statsRunning
    /\ UNCHANGED <<phase, serving, owed, auto, autoJob, autoRest, autoDeferred,
                   statsRunning, statsPending, fgDeferred>>

\* BeginForegroundOperation: become the holder, or wait for the holder's channel.
BeginForeground(f) ==
    /\ \/ fgPc[f] = "idle" /\ Ask
       \/ fgPc[f] = "woken" /\ UNCHANGED boundVars
    /\ IF holder = None
       THEN /\ holder' = f
            /\ fgPc' = [fgPc EXCEPT ![f] = "yielding"]
            /\ Preempt
            /\ UNCHANGED waitsOn
       ELSE /\ fgPc' = [fgPc EXCEPT ![f] = "waiting"]
            /\ waitsOn' = [waitsOn EXCEPT ![f] = holder]
            /\ UNCHANGED <<holder, fgDeferred, fgDeferredAuto, jobVars, autoVars,
                           statsVars, attachVars>>
    /\ UNCHANGED callers

\* waitForForegroundYield: the derived workers are done and no writer is left.
Yielded == ~attachRunning /\ ~statsRunning /\ ~WriterRunning

\* It polls, and preempts again: a job may have registered since.
PollForeground(f) ==
    /\ fgPc[f] \in {"yielding", "abandoned"}
    /\ ~attachRunning /\ ~statsRunning /\ WriterRunning
    /\ Preempt
    /\ UNCHANGED <<holder, fgPc, waitsOn, callers, boundVars>>

HoldForeground(f) ==
    /\ fgPc[f] = "yielding"
    /\ Yielded
    /\ fgPc' = [fgPc EXCEPT ![f] = "held"]
    /\ UNCHANGED <<jobVars, autoVars, holder, waitsOn, fgDeferred, fgDeferredAuto,
                   statsVars, attachVars, callers, boundVars>>

\* The caller's context ends first.  As the holder it leaves a goroutine behind
\* that keeps the barrier until the preempted workers have checkpointed.
GiveUpForeground(f) ==
    /\ fgPc[f] \in {"waiting", "yielding"}
    /\ fgPc' = [fgPc EXCEPT ![f] = IF @ = "waiting" THEN "idle" ELSE "abandoned"]
    /\ waitsOn' = [waitsOn EXCEPT ![f] = None]
    /\ UNCHANGED <<jobVars, autoVars, holder, fgDeferred, fgDeferredAuto,
                   statsVars, attachVars, callers, boundVars>>

\* What finish replays: the deferred requests no global one covers
\* (takeForegroundReplayLocked), and derived work if no mail work was started.
Replay ==
    LET boxes == SetToSeq(fgDeferred \cap GlobalKeys)
        accts == SetToSeq({k \in fgDeferred \cap AccountKeys : Global(k) \notin fgDeferred})
    IN (IF fgDeferredAuto THEN <<Do("start")>> ELSE <<>>)
       \o [i \in DOMAIN boxes |-> Priority(boxes[i])]
       \o [i \in DOMAIN accts |-> Queue(accts[i])]

ReplayDerived ==
    (IF statsPending THEN <<Do("statsIfIdle")>> ELSE <<>>)
    \o (IF attachPending THEN <<Do("attachIfIdle")>> ELSE <<>>)

\* finish: by the caller at the end of its operation, or by the goroutine left
\* behind, which may lose patience.
FinishForeground(f) ==
    /\ \/ fgPc[f] = "held"
       \/ fgPc[f] = "abandoned" /\ (Yielded \/ BarrierTimeouts)
    /\ holder' = None
    /\ fgPc' = [fgPc EXCEPT ![f] = "finishing"]
    /\ fgDeferred' = {} /\ fgDeferredAuto' = FALSE
    /\ Spawn(Replay \o ReplayDerived \o <<[op |-> "close", f |-> f]>>)
    /\ UNCHANGED <<jobVars, autoVars, waitsOn, statsVars, attachVars, boundVars>>

-----------------------------------------------------------------------------
(* Derived work *)

\* RefreshSenderStats begins, or leaves a mark for whoever stands in its way.
RefreshSenderStats(s) ==
    /\ Head(s).op \in {"stats", "statsIfIdle"}
    /\ IF OrdinaryRunning \/ attachRunning \/ statsRunning
       THEN /\ statsPending' = TRUE
            /\ UNCHANGED statsRunning
            /\ Continue(s, Tail(s))
       ELSE /\ statsRunning' = TRUE
            /\ statsPending' = FALSE
            /\ Continue(s, <<Do("statsEnd")>> \o Tail(s))
    /\ UNCHANGED <<jobVars, autoVars, fgVars, statsCancelled, attachVars, boundVars>>

\* It ends.  A mark left meanwhile makes it run again; else it resumes the
\* attachment work that stepped aside for it.  After an error it does neither.
FinishSenderStats(s) ==
    /\ Head(s).op = "statsEnd"
    /\ statsRunning' = FALSE /\ statsCancelled' = FALSE
    /\ \E ok \in BOOLEAN :
          /\ IF ok \/ statsCancelled THEN UNCHANGED boundVars ELSE Fault
          /\ statsPending' = (statsPending \/ ~ok)
          /\ callers' = IF ok /\ ~OrdinaryRunning /\ statsPending
                        THEN (callers (-) Thread(s)) (+) Thread(Tail(s)) (+) Thread(<<Do("stats")>>)
                        ELSE IF ok /\ ~OrdinaryRunning /\ attachResume
                        THEN (callers (-) Thread(s)) (+) Thread(<<Do("attach")>> \o Tail(s))
                        ELSE (callers (-) Thread(s)) (+) Thread(Tail(s))
    /\ UNCHANGED <<jobVars, autoVars, fgVars, attachVars>>

\* StartAttachmentIndex: a wake that is due is forgotten; a continuation that is
\* not blocks it and gets a timer; else it waits for other work, or starts.
StartAttachmentIndex(s) ==
    /\ Head(s).op \in {"attach", "attachIfIdle"}
    /\ \/ /\ attachWake
          /\ attachPending' = TRUE
          /\ Continue(s, <<Do("scheduleNext")>> \o Tail(s))
          /\ UNCHANGED <<attachRunning, attachResume, attachTimer, attachWake>>
       \/ /\ attachWake' \in {FALSE, attachWake}
          /\ Continue(s, Tail(s))
          /\ IF statsRunning \/ OrdinaryRunning \/ attachRunning
             THEN /\ attachPending' = TRUE
                  /\ attachResume' = (attachResume \/ statsRunning)
                  /\ UNCHANGED <<attachRunning, attachTimer>>
             ELSE /\ attachRunning' = TRUE
                  /\ attachPending' = FALSE /\ attachResume' = FALSE
                  /\ attachTimer' = FALSE
    /\ UNCHANGED <<jobVars, autoVars, fgVars, statsVars, attachCancelled, boundVars>>

\* The attachment worker ends: cancelled, failed, with more to drain, with
\* messages deferred, or done.
FinishAttachmentIndex ==
    /\ attachRunning
    /\ attachRunning' = FALSE /\ attachCancelled' = FALSE
    /\ \E failed, drainMore, deferred \in BOOLEAN :
       LET left     == attachPending \/ failed \/ drainMore
           resume   == attachResume \/ (statsPending /\ left /\ ~failed)
           restart  == left /\ ~failed /\ ~statsPending /\ ~statsRunning /\ ~OrdinaryRunning
           stranded == left /\ ~restart /\ ~statsPending /\ ~resume
       IN /\ IF drainMore \/ deferred \/ (failed /\ ~attachCancelled)
             THEN Fault ELSE UNCHANGED boundVars
          /\ attachWake' = (attachWake \/ deferred)
          /\ attachPending' = left
          /\ attachResume' = resume
          /\ Spawn(   (IF failed THEN <<>> ELSE <<Do("scheduleNext")>>)
                   \o (IF stranded THEN <<Do("arm")>> ELSE <<>>)
                   \o (IF statsPending THEN <<Do("stats")>>
                       ELSE IF restart THEN <<Do("attach")>> ELSE <<>>))
    /\ UNCHANGED <<jobVars, autoVars, fgVars, statsVars, attachTimer>>

\* scheduleAttachmentIndexRetry: any earlier timer is cancelled; one is armed for
\* the next wake, if there is one, or for the stranded work.
ScheduleRetry(s) ==
    /\ Head(s).op \in {"scheduleNext", "arm"}
    /\ attachTimer' = (attachWake \/ Head(s).op = "arm")
    /\ Continue(s, Tail(s))
    /\ UNCHANGED <<jobVars, autoVars, fgVars, statsVars, attachRunning, attachPending,
                   attachCancelled, attachResume, attachWake, boundVars>>

\* The timer fires at its wake, which is forgotten.
RetryTimer ==
    /\ attachTimer
    /\ attachTimer' = FALSE /\ attachWake' = FALSE
    /\ Spawn(<<Do("attach")>>)
    /\ UNCHANGED <<jobVars, autoVars, fgVars, statsVars, attachRunning,
                   attachPending, attachCancelled, attachResume, boundVars>>

-----------------------------------------------------------------------------
(* The calls a goroutine has left *)

\* scheduleGenerationRecoveryWorkOutsideGate skips the derived work once mail
\* work was started.
SkipIdle(s) ==
    [i \in DOMAIN s |-> IF s[i].op \in {"statsIfIdle", "attachIfIdle"} THEN Do("skip") ELSE s[i]]

Skipped(s) ==
    /\ Head(s) = Do("skip")
    /\ Continue(s, Tail(s))
    /\ UNCHANGED <<jobVars, autoVars, fgVars, statsVars, attachVars, boundVars>>

\* QueueAccountMailboxes reports success whether or not it recorded the request.
QueueCall(s, k) ==
    /\ Head(s) = Queue(k)
    /\ \/ QueueRequest(k) /\ UNCHANGED <<serving, owed>>
       \/ QueueTimeout({k})
    /\ Continue(s, SkipIdle(Tail(s)))
    /\ UNCHANGED boundVars

PriorityCall(s, k) ==
    /\ Head(s) = Priority(k)
    /\ \/ PriorityRequest(k, TRUE) /\ Continue(s, SkipIdle(Tail(s)))
       \/ PriorityRequest(k, FALSE) /\ Continue(s, Tail(s))
       \/ QueueTimeout(SameFolder(k)) /\ Continue(s, Tail(s))
    /\ UNCHANGED boundVars

StartCall(s) ==
    /\ Head(s).op = "start"
    /\ \/ StartPass(TRUE) /\ Continue(s, SkipIdle(Tail(s)))
       \/ StartPass(FALSE) /\ Continue(s, Tail(s))
    /\ UNCHANGED boundVars

\* The pass's folder job has returned.
AutoNext(s) ==
    /\ Head(s).op = "autoNext"
    /\ auto' = "running"
    /\ Continue(s, Tail(s))
    /\ UNCHANGED <<jobVars, autoJob, autoCancelled, autoRest, autoDeferred, fgVars,
                   statsVars, attachVars, boundVars>>

\* Mutant of WaitersOf: the channel is replaced without waking its waiters.
WaitersOfMutant(f) == {}

\* Who waits for the channel this holder closes.
WaitersOf(f) == {x \in Foregrounds : fgPc[x] = "waiting" /\ waitsOn[x] = f}

\* close(done): whoever waits for this holder's channel tries again.
CloseForeground(s) ==
    /\ Head(s).op = "close"
    /\ LET f == Head(s).f IN
          /\ fgPc' = [x \in Foregrounds |-> IF x \in WaitersOf(f) THEN "woken"
                                            ELSE IF x = f THEN "idle" ELSE fgPc[x]]
          /\ waitsOn' = [x \in Foregrounds |-> IF x \in WaitersOf(f) THEN None ELSE waitsOn[x]]
    /\ Continue(s, Tail(s))
    /\ UNCHANGED <<jobVars, autoVars, holder, fgDeferred, fgDeferredAuto, statsVars,
                   attachVars, boundVars>>

MakeCall(s) ==
    \/ \E k \in AccountKeys : QueueCall(s, k)
    \/ \E k \in GlobalKeys : PriorityCall(s, k)
    \/ StartCall(s)
    \/ Skipped(s)
    \/ AutoNext(s)
    \/ CloseForeground(s)
    \/ RefreshSenderStats(s)
    \/ FinishSenderStats(s)
    \/ StartAttachmentIndex(s)
    \/ ScheduleRetry(s)

-----------------------------------------------------------------------------
\* What handlers, the scheduler and callers' contexts may do, or not.
Environment ==
    \/ \E k \in AccountKeys : QueueAccountMailboxes(k)
    \/ \E k \in GlobalKeys : StartPriorityMailboxes(k)
    \/ \E k \in Keys : StartMailboxes(k)
    \/ \E k \in AccountKeys, ph \in {"maintaining", "rebuilding"} : StartMaintenance(k, ph)
    \/ Start
    \/ \E f \in Foregrounds : GiveUpForeground(f) \/ (fgPc[f] = "idle" /\ BeginForeground(f))

\* What goroutines that exist do by themselves.
Progress ==
    \/ \E k \in Keys :
          \/ Register(k)
          \/ BeginPass(k)
          \/ CompletePass(k)
          \/ YieldPass(k)
          \/ PausePass(k)
          \/ Release(k)
          \/ \E ok \in BOOLEAN : FinishMaintenance(k, ok)
    \/ PlanPass
    \/ \E m \in Mailboxes : PassMailbox(m)
    \/ FinishPass
    \/ \E f \in Foregrounds :
          \/ fgPc[f] = "woken" /\ BeginForeground(f)
          \/ PollForeground(f)
          \/ HoldForeground(f)
          \/ FinishForeground(f)
    \/ FinishAttachmentIndex
    \/ RetryTimer
    \/ \E s \in DOMAIN callers : MakeCall(s)

Next == Environment \/ Progress

Spec == Init /\ [][Next]_vars

\* Goroutines are scheduled, a sync turn, a refresh and a foreground operation
\* end (each runs under a timeout of its own).
FairSpec == Spec /\ WF_vars(Progress)

-----------------------------------------------------------------------------
(* Properties *)

\* One writer per folder: a job for every account excludes any account's job.
ReservationExclusion ==
    \A k, h \in Held : k[2] = h[2] /\ k \in GlobalKeys => h = k

\* While a foreground operation has been admitted, nothing else writes the
\* mirror: no job but a search-only rebuild, no refresh, no attachment worker,
\* and an account-wide pass is between folders.
ForegroundExclusive ==
    \A f \in Foregrounds : fgPc[f] = "held" =>
        /\ holder = f
        /\ \A k \in Held : phase[k] = "rebuilding"
        /\ ~statsRunning /\ ~attachRunning

\* The sender statistics are never rebuilt beside a job or a pass that writes
\* the rows they are computed from.
StatsBesideNoJob == statsRunning => Held = {}
StatsExclusive == StatsBesideNoJob /\ (statsRunning => auto = "off")

\* Who writes the mirror, and who is let in alone, as the runner's callers see it.
Writers    == {k \in Held : phase[k] # "rebuilding"}
Rebuilders == {k \in Held : phase[k] = "rebuilding"}
Asking(x)  == fgPc[x] \in {"waiting", "woken", "yielding"}
Askers     == {x \in Foregrounds : Asking(x)}
Admitted   == {x \in Foregrounds : fgPc[x] = "held"}

Access == INSTANCE MirrorAccess WITH
    writers <- Writers, rebuilders <- Rebuilders, passing <- auto # "off",
    asking <- Askers, barrier <- holder, inside <- Admitted,
    refreshing <- statsRunning, indexing <- attachRunning

\* Whatever the runner remembers, cancels, replays and waits for, who writes the
\* mirror beside whom is as MirrorAccess promises: new work is admitted beside
\* neither a refresh, a barrier nor another writer of its folder, and whoever
\* raised the barrier is let in when nobody is left, or lowers it.
ImplementsAccess == Access!Spec

\* Some goroutine has call c left.
ToCall(c) == \E s \in DOMAIN callers : \E i \in DOMAIN s : s[i] = c

\* A request is remembered where somebody will find it.
Remembered(k) ==
    \/ \E h \in {k, Global(k)} \cap pending : Reserved(h)
    \/ k \in autoDeferred /\ auto # "off"
    \/ {k, Global(k)} \cap fgDeferred # {} /\ holder # None
    \/ ToCall(Queue(k)) \/ ToCall(Priority(Global(k)))
    \/ \E h \in {k, Global(k)} :
          \/ phase[h] = "reserved"
          \/ phase[h] = "waiting" /\ h \notin cancelled
          \/ k \in serving[h]

\* QueueAccountMailboxes "guarantees one account-qualified sync pass": through
\* preemptions, deferrals, pauses and reruns the request is never lost.
NoLostRequest == \A k \in AccountKeys : owed[k] = "yes" => Remembered(k)

\* The same of the requests whose admission wait expired: the caller was told
\* that a pass is guaranteed.
PassGuaranteed == \A k \in AccountKeys : owed[k] # "no" => Remembered(k)

\* What is left pending is left with a job that will find it when it releases,
\* and what is deferred with a holder that will replay it.
NothingOrphaned ==
    /\ \A k \in pending : Reserved(k)
    /\ fgDeferred # {} \/ fgDeferredAuto => holder # None
    /\ autoDeferred # {} => auto # "off"

\* Nothing runs and nobody has anything left to do.
Idle ==
    /\ Held = {} /\ auto = "off" /\ holder = None
    /\ ~attachRunning /\ callers = EmptyBag

\* Attachment work left over by a turn that was preempted or failed is picked up:
\* by the work that preempted it, by the refresh it stepped aside for, or else by
\* a timer.
AttachmentsResumed == Idle /\ attachPending => attachTimer

\* Every accepted request is served.
RequestsServed == \A k \in AccountKeys : owed[k] = "yes" ~> owed[k] # "yes"

\* When no more requests come, nobody goes on asking for the foreground: whoever
\* waits for a holder's channel is woken when that holder is done, also if others
\* overtake it then and it has to wait for theirs; and neither what a holder leaves
\* to be replayed nor a job that it could not preempt keeps the next one out.
\* (Callers that come back without end may overtake it without end: the code keeps
\* no queue of them.)
ForegroundAdmitted == <>[](Askers = {})

=============================================================================
