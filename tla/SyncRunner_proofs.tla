-------------------------- MODULE SyncRunner_proofs --------------------------
(* Mutual exclusion in the runner, for any accounts, folders, foreground       *)
(* callers and bounds, and whether or not the waits of the barrier expire;     *)
(* and what the runner remembers: nothing left pending or deferred is left     *)
(* without somebody to take it up, and no accepted request is lost.            *)
(* Last, that who writes the mirror beside whom is as MirrorAccess promises.   *)
EXTENDS SyncRunner, FiniteSetTheorems, TLAPS

PhaseOK == phase \in [Keys -> Phases]
FgPcOK  == fgPc \in [Foregrounds ->
            {"idle", "waiting", "woken", "yielding", "abandoned", "held", "finishing"}]

-----------------------------------------------------------------------------
(* What a step may do to the jobs *)

\* A job of the tenant goes on or ends.
Advance ==
    \E k \in Keys, ph \in Phases :
        /\ phase[k] # "free"
        /\ phase[k] = "rebuilding" => ph = "free"
        /\ phase' = [phase EXCEPT ![k] = ph]

\* A job is admitted: no conflicting key, no refresh, no foreground.
Admit ==
    \E k \in Keys, ph \in Phases :
        /\ ~Reserved(k) /\ ~statsRunning /\ holder = None
        /\ phase' = [phase EXCEPT ![k] = ph]

JobStep == phase' = phase \/ Advance \/ Admit

\* The two admissions that queue: what they do to the jobs, whatever their key is.
LEMMA QueueJobStep ==
    ASSUME PhaseOK, NEW k, QueueRequest(k)
    PROVE  JobStep
<1>1. phase' = phase \/ (/\ phase' = [phase EXCEPT ![k] = "reserved"]
                         /\ ~Reserved(k) /\ ~statsRunning /\ holder = None)
  BY DEF QueueRequest, Reserve, AfterStats
<1>2. CASE k \in Keys
  BY <1>1, <1>2 DEF JobStep, Admit, Phases
<1>3. CASE k \notin Keys
  BY <1>1, <1>3 DEF JobStep, PhaseOK
<1> QED  BY <1>2, <1>3

LEMMA PriorityJobStep ==
    ASSUME PhaseOK, NEW k, NEW started, PriorityRequest(k, started)
    PROVE  JobStep
<1>1. phase' = phase \/ (/\ phase' = [phase EXCEPT ![k] = "reserved"]
                         /\ ~Reserved(k) /\ ~statsRunning /\ holder = None)
  BY DEF PriorityRequest, Reserve, AfterStats
<1>2. CASE k \in Keys
  BY <1>1, <1>2 DEF JobStep, Admit, Phases
<1>3. CASE k \notin Keys
  BY <1>1, <1>3 DEF JobStep, PhaseOK
<1> QED  BY <1>2, <1>3

LEMMA EnvironmentJobStep ==
    ASSUME PhaseOK, Environment
    PROVE  JobStep
<1>1. ASSUME NEW k \in AccountKeys, QueueAccountMailboxes(k)  PROVE JobStep
  <2>1. CASE QueueRequest(k)
    BY <2>1, QueueJobStep
  <2>2. CASE UNCHANGED phase
    BY <2>2 DEF JobStep
  <2> QED  BY <1>1, <2>1, <2>2 DEF QueueAccountMailboxes
<1>2. ASSUME NEW k \in GlobalKeys, StartPriorityMailboxes(k)  PROVE JobStep
  BY <1>2, PriorityJobStep DEF StartPriorityMailboxes
<1>3. ASSUME NEW k \in Keys, StartMailboxes(k)  PROVE JobStep
  BY <1>3 DEF StartMailboxes, Reserve, JobStep, Admit, AfterExclusiveWriters, AfterStats, Phases
<1>4. ASSUME NEW k \in AccountKeys, NEW ph \in {"maintaining", "rebuilding"}, StartMaintenance(k, ph)
      PROVE JobStep
  <2>1. k \in Keys /\ ph \in Phases
    BY DEF Keys, Phases
  <2> QED
    BY <1>4, <2>1 DEF StartMaintenance, Reserve, JobStep, Admit, AfterExclusiveWriters, AfterStats
<1>5. CASE Start
  BY <1>5 DEF Start, StartPass, jobVars, JobStep
<1>6. ASSUME NEW f \in Foregrounds, GiveUpForeground(f)  PROVE JobStep
  BY <1>6 DEF GiveUpForeground, jobVars, JobStep
<1>7. ASSUME NEW f \in Foregrounds, BeginForeground(f)  PROVE JobStep
  BY <1>7 DEF BeginForeground, Preempt, jobVars, JobStep
<1> QED
  BY <1>1, <1>2, <1>3, <1>4, <1>5, <1>6, <1>7 DEF Environment

LEMMA CallJobStep ==
    ASSUME PhaseOK, NEW s, MakeCall(s)
    PROVE  JobStep
<1>1. ASSUME NEW k \in AccountKeys, QueueCall(s, k)  PROVE JobStep
  <2>1. CASE QueueRequest(k)
    BY <2>1, QueueJobStep
  <2>2. CASE QueueTimeout({k})
    BY <2>2 DEF QueueTimeout, JobStep
  <2> QED  BY <1>1, <2>1, <2>2 DEF QueueCall
<1>2. ASSUME NEW k \in GlobalKeys, PriorityCall(s, k)  PROVE JobStep
  <2>1. CASE QueueTimeout(SameFolder(k))
    BY <2>1 DEF QueueTimeout, JobStep
  <2>2. CASE \E started \in BOOLEAN : PriorityRequest(k, started)
    BY <2>2, PriorityJobStep
  <2> QED  BY <1>2, <2>1, <2>2 DEF PriorityCall
<1>3. CASE StartCall(s)
  BY <1>3 DEF StartCall, StartPass, jobVars, JobStep
<1>4. CASE AutoNext(s) \/ Skipped(s)
  BY <1>4 DEF AutoNext, Skipped, jobVars, JobStep
<1>5. CASE CloseForeground(s)
  BY <1>5 DEF CloseForeground, jobVars, JobStep
<1>6. CASE RefreshSenderStats(s)
  BY <1>6 DEF RefreshSenderStats, jobVars, JobStep
<1>7. CASE FinishSenderStats(s)
  BY <1>7 DEF FinishSenderStats, jobVars, JobStep
<1>8. CASE StartAttachmentIndex(s)
  BY <1>8 DEF StartAttachmentIndex, jobVars, JobStep
<1>9. CASE ScheduleRetry(s)
  BY <1>9 DEF ScheduleRetry, jobVars, JobStep
<1> QED
  BY <1>1, <1>2, <1>3, <1>4, <1>5, <1>6, <1>7, <1>8, <1>9 DEF MakeCall

LEMMA ProgressJobStep ==
    ASSUME PhaseOK, Progress
    PROVE  JobStep
<1>1. ASSUME NEW k \in Keys, Register(k)  PROVE JobStep
  BY <1>1 DEF Register, JobStep, Advance, Phases
<1>2. ASSUME NEW k \in Keys, BeginPass(k)  PROVE JobStep
  BY <1>2 DEF BeginPass, JobStep, Advance, Phases
<1>3. ASSUME NEW k \in Keys, CompletePass(k)  PROVE JobStep
  BY <1>3 DEF CompletePass, JobStep, Advance, Phases
<1>4. ASSUME NEW k \in Keys, YieldPass(k)  PROVE JobStep
  BY <1>4 DEF YieldPass, JobStep, Advance, Phases
<1>5. ASSUME NEW k \in Keys, PausePass(k)  PROVE JobStep
  BY <1>5 DEF PausePass, JobStep, Advance, Phases
<1>6. ASSUME NEW k \in Keys, Release(k)  PROVE JobStep
  BY <1>6 DEF Release, Free, JobStep, Advance, Phases
<1>7. ASSUME NEW k \in Keys, NEW ok \in BOOLEAN, FinishMaintenance(k, ok)  PROVE JobStep
  BY <1>7 DEF FinishMaintenance, Free, JobStep, Advance, Phases
<1>8. CASE PlanPass
  BY <1>8 DEF PlanPass, jobVars, JobStep
<1>9. ASSUME NEW m \in Mailboxes, PassMailbox(m)  PROVE JobStep
  <2>1. <<AllAccounts, m>> \in Keys
    BY DEF Keys, GlobalKeys
  <2> QED
    BY <1>9, <2>1 DEF PassMailbox, Reserve, JobStep, Admit, AfterExclusiveWriters, AfterStats, Phases
<1>10. CASE FinishPass
  BY <1>10 DEF FinishPass, jobVars, JobStep
<1>11. ASSUME NEW f \in Foregrounds,
              BeginForeground(f) \/ PollForeground(f) \/ HoldForeground(f) \/ FinishForeground(f)
       PROVE JobStep
  BY <1>11 DEF BeginForeground, PollForeground, HoldForeground, FinishForeground, Preempt,
               jobVars, JobStep
<1>12. CASE FinishAttachmentIndex
  BY <1>12 DEF FinishAttachmentIndex, jobVars, JobStep
<1>13. CASE RetryTimer
  BY <1>13 DEF RetryTimer, jobVars, JobStep
<1>14. CASE \E s \in DOMAIN callers : MakeCall(s)
  BY <1>14, CallJobStep
<1> QED
  BY <1>1, <1>2, <1>3, <1>4, <1>5, <1>6, <1>7, <1>8, <1>9, <1>10, <1>11, <1>12, <1>13, <1>14
  DEF Progress

LEMMA NextJobStep ==
    ASSUME PhaseOK, [Next]_vars
    PROVE  JobStep /\ PhaseOK'
<1>1. JobStep
  BY EnvironmentJobStep, ProgressJobStep DEF Next, vars, jobVars, JobStep
<1>2. PhaseOK'
  BY <1>1 DEF JobStep, Advance, Admit, PhaseOK
<1> QED  BY <1>1, <1>2

-----------------------------------------------------------------------------
(* Folders: one writer each *)

\* A new reservation conflicts with no live one, on either side of the overlap
\* between the jobs for every account and those for one.
LEMMA AdmitExclusive ==
    ASSUME PhaseOK, ReservationExclusion, NEW k \in Keys, NEW ph \in Phases, ~Reserved(k),
           phase' = [phase EXCEPT ![k] = ph]
    PROVE  ReservationExclusion'
<1>1. Held' \subseteq Held \cup {k}
  BY DEF Held, PhaseOK
<1>2. SUFFICES ASSUME NEW g \in Held', NEW h \in Held', g[2] = h[2], g \in GlobalKeys
               PROVE  h = g
  BY DEF ReservationExclusion
<1>3. g \in Keys /\ h \in Keys
  BY DEF Held
<1>4. CASE g = k /\ h # k
  <2>1. h \in SameFolder(k) /\ h \in Held
    BY <1>1, <1>2, <1>3, <1>4 DEF SameFolder
  <2> QED  BY <2>1, <1>2, <1>4 DEF Reserved, Excluding
<1>5. CASE h = k /\ g # k
  <2>1. g = Global(k) /\ g \in Held
    BY <1>1, <1>2, <1>5 DEF Global, GlobalKeys
  <2>2. Global(k) \in Excluding(k)
    BY <1>2, <1>3, <1>5, <2>1 DEF Excluding, SameFolder
  <2> QED  BY <2>1, <2>2 DEF Reserved
<1>6. CASE g # k /\ h # k
  BY <1>1, <1>2, <1>6 DEF ReservationExclusion
<1> QED  BY <1>4, <1>5, <1>6

FolderInv == PhaseOK /\ ReservationExclusion

LEMMA NextFolderInv ==
    ASSUME FolderInv, [Next]_vars
    PROVE  FolderInv'
<1>1. JobStep /\ PhaseOK'
  BY NextJobStep DEF FolderInv
<1>2. CASE phase' = phase
  BY <1>1, <1>2 DEF FolderInv, ReservationExclusion, Held
<1>3. CASE Advance
  <2>1. Held' \subseteq Held
    BY <1>3 DEF Advance, Held, FolderInv, PhaseOK
  <2> QED  BY <1>1, <2>1 DEF FolderInv, ReservationExclusion
<1>4. CASE Admit
  BY <1>1, <1>4, AdmitExclusive DEF Admit, FolderInv
<1> QED  BY <1>1, <1>2, <1>3, <1>4 DEF JobStep

\* Two syncs, or a sync and a maintenance, never write one folder of one account:
\* a job for every account excludes any account's job for the folder.
THEOREM FoldersExclusive == Spec => []ReservationExclusion
<1>1. Init => FolderInv
  BY DEF Init, FolderInv, PhaseOK, Phases, ReservationExclusion, Held
<1>2. FolderInv /\ [Next]_vars => FolderInv'
  BY NextFolderInv
<1>3. FolderInv => ReservationExclusion
  BY DEF FolderInv
<1> QED  BY <1>1, <1>2, <1>3, PTL DEF Spec

-----------------------------------------------------------------------------
(* The barrier *)

Barrier == {"yielding", "abandoned", "held"}

\* Whoever is inside the barrier is the one it was raised for.
BarrierOwner == \A x \in Foregrounds : fgPc[x] \in Barrier => holder = x

BarrierInv == FgPcOK /\ BarrierOwner

\* Nobody is admitted except by having waited until no writer is left.
AdmittedStep ==
    \A x \in Foregrounds : fgPc'[x] = "held" =>
        \/ fgPc[x] = "held" /\ holder' = holder
        \/ Yielded /\ UNCHANGED <<phase, statsRunning, attachRunning, holder>>

SameBarrier == UNCHANGED <<holder, fgPc>>

LEMMA SameBarrierStep ==
    ASSUME BarrierInv, SameBarrier
    PROVE  BarrierInv' /\ AdmittedStep
BY DEF BarrierInv, SameBarrier, AdmittedStep, FgPcOK, BarrierOwner

LEMMA ForegroundStep ==
    ASSUME BarrierInv, NEW f \in Foregrounds,
           \/ BeginForeground(f) \/ GiveUpForeground(f) \/ PollForeground(f)
           \/ HoldForeground(f) \/ FinishForeground(f)
    PROVE  BarrierInv' /\ AdmittedStep
<1>1. CASE BeginForeground(f)
  <2>1. CASE holder = None
    <3>1. \A x \in Foregrounds : fgPc[x] \notin Barrier
      BY <2>1, NamesAssumption DEF BarrierInv, BarrierOwner
    <3>2. holder' = f /\ fgPc' = [fgPc EXCEPT ![f] = "yielding"]
      BY <1>1, <2>1 DEF BeginForeground
    <3> QED
      BY <3>1, <3>2 DEF BarrierInv, FgPcOK, BarrierOwner, AdmittedStep, Barrier
  <2>2. CASE holder # None
    BY <1>1, <2>2 DEF BeginForeground, BarrierInv, FgPcOK, BarrierOwner, AdmittedStep, Barrier
  <2> QED  BY <2>1, <2>2
<1>2. CASE GiveUpForeground(f)
  BY <1>2 DEF GiveUpForeground, BarrierInv, FgPcOK, BarrierOwner, AdmittedStep, Barrier
<1>3. CASE PollForeground(f)
  BY <1>3, SameBarrierStep DEF PollForeground, SameBarrier
<1>4. CASE HoldForeground(f)
  BY <1>4 DEF HoldForeground, BarrierInv, FgPcOK, BarrierOwner, AdmittedStep, Barrier,
              jobVars, statsVars, attachVars
<1>5. CASE FinishForeground(f)
  <2>1. \A x \in Foregrounds : x # f => fgPc[x] \notin Barrier
    BY <1>5 DEF FinishForeground, BarrierInv, BarrierOwner, Barrier
  <2>2. holder' = None /\ fgPc' = [fgPc EXCEPT ![f] = "finishing"]
    BY <1>5 DEF FinishForeground
  <2> QED
    BY <2>1, <2>2 DEF BarrierInv, FgPcOK, BarrierOwner, AdmittedStep, Barrier
<1> QED  BY <1>1, <1>2, <1>3, <1>4, <1>5

LEMMA CallBarrierStep ==
    ASSUME BarrierInv, NEW s, MakeCall(s)
    PROVE  BarrierInv' /\ AdmittedStep
<1>1. CASE CloseForeground(s)
  <2> DEFINE f == Head(s).f
  <2>1. /\ fgPc' = [x \in Foregrounds |-> IF x \in WaitersOf(f) THEN "woken"
                                          ELSE IF x = f THEN "idle" ELSE fgPc[x]]
        /\ holder' = holder
    BY <1>1 DEF CloseForeground
  <2> HIDE DEF f
  <2> QED
    BY <2>1 DEF BarrierInv, FgPcOK, BarrierOwner, AdmittedStep, Barrier
<1>2. CASE \E k : QueueCall(s, k) \/ PriorityCall(s, k)
  <2>1. SameBarrier
    BY <1>2 DEF QueueCall, PriorityCall, QueueRequest, PriorityRequest, QueueTimeout, fgVars,
                SameBarrier
  <2> QED  BY <2>1, SameBarrierStep
<1>3. CASE StartCall(s) \/ AutoNext(s) \/ Skipped(s)
  <2>1. SameBarrier
    BY <1>3 DEF StartCall, StartPass, AutoNext, Skipped, fgVars, SameBarrier
  <2> QED  BY <2>1, SameBarrierStep
<1>4. CASE RefreshSenderStats(s) \/ FinishSenderStats(s) \/ StartAttachmentIndex(s) \/ ScheduleRetry(s)
  <2>1. SameBarrier
    BY <1>4 DEF RefreshSenderStats, FinishSenderStats, StartAttachmentIndex, ScheduleRetry,
                fgVars, SameBarrier
  <2> QED  BY <2>1, SameBarrierStep
<1> QED  BY <1>1, <1>2, <1>3, <1>4 DEF MakeCall

LEMMA NextBarrierStep ==
    ASSUME BarrierInv, [Next]_vars
    PROVE  BarrierInv' /\ AdmittedStep
<1>1. CASE UNCHANGED vars
  BY <1>1, SameBarrierStep DEF vars, fgVars, SameBarrier
<1>2. CASE Environment
  <2>1. CASE \E f \in Foregrounds : GiveUpForeground(f) \/ BeginForeground(f)
    BY <2>1, ForegroundStep
  <2>2. CASE SameBarrier
    BY <2>2, SameBarrierStep
  <2>3. ASSUME NEW k, QueueAccountMailboxes(k) \/ StartPriorityMailboxes(k) \/ StartMailboxes(k)
        PROVE SameBarrier
    BY <2>3 DEF QueueAccountMailboxes, StartPriorityMailboxes, StartMailboxes, QueueRequest,
                PriorityRequest, QueueTimeout, fgVars, SameBarrier
  <2>4. ASSUME NEW k, NEW ph, StartMaintenance(k, ph)  PROVE SameBarrier
    BY <2>4 DEF StartMaintenance, fgVars, SameBarrier
  <2>5. ASSUME Start  PROVE SameBarrier
    BY <2>5 DEF Start, StartPass, fgVars, SameBarrier
  <2> QED  BY <1>2, <2>1, <2>2, <2>3, <2>4, <2>5 DEF Environment
<1>3. CASE Progress
  <2>1. CASE \E f \in Foregrounds :
               BeginForeground(f) \/ PollForeground(f) \/ HoldForeground(f) \/ FinishForeground(f)
    BY <2>1, ForegroundStep
  <2>2. CASE \E s \in DOMAIN callers : MakeCall(s)
    BY <2>2, CallBarrierStep
  <2>3. CASE SameBarrier
    BY <2>3, SameBarrierStep
  <2>4. ASSUME NEW k \in Keys,
               \/ Register(k) \/ BeginPass(k) \/ CompletePass(k) \/ YieldPass(k) \/ PausePass(k)
               \/ Release(k) \/ \E ok \in BOOLEAN : FinishMaintenance(k, ok)
        PROVE SameBarrier
    BY <2>4 DEF Register, BeginPass, CompletePass, YieldPass, PausePass, Release,
                FinishMaintenance, fgVars, SameBarrier
  <2>5. ASSUME \/ PlanPass \/ FinishPass \/ FinishAttachmentIndex \/ RetryTimer
               \/ \E m \in Mailboxes : PassMailbox(m)
        PROVE SameBarrier
    BY <2>5 DEF PlanPass, FinishPass, FinishAttachmentIndex, RetryTimer, PassMailbox, fgVars,
                SameBarrier
  <2> QED  BY <1>3, <2>1, <2>2, <2>3, <2>4, <2>5 DEF Progress
<1> QED  BY <1>1, <1>2, <1>3 DEF Next

-----------------------------------------------------------------------------
(* Derived work *)

\* A refresh and an attachment worker begin only when the tenant is idle.
DerivedStep ==
    /\ statsRunning' => statsRunning \/ (~OrdinaryRunning /\ phase' = phase)
    /\ attachRunning' => attachRunning \/ ~OrdinaryRunning

SameDerived == UNCHANGED <<statsRunning, attachRunning>>

LEMMA CallDerivedStep ==
    ASSUME NEW s, MakeCall(s)
    PROVE  DerivedStep
<1>1. CASE RefreshSenderStats(s)
  BY <1>1 DEF RefreshSenderStats, jobVars, attachVars, DerivedStep
<1>2. CASE FinishSenderStats(s)
  BY <1>2 DEF FinishSenderStats, attachVars, DerivedStep
<1>3. CASE StartAttachmentIndex(s)
  BY <1>3 DEF StartAttachmentIndex, statsVars, DerivedStep
<1>4. CASE ScheduleRetry(s)
  BY <1>4 DEF ScheduleRetry, statsVars, DerivedStep
<1>5. CASE \E k : QueueCall(s, k) \/ PriorityCall(s, k)
  BY <1>5 DEF QueueCall, PriorityCall, QueueRequest, PriorityRequest, QueueTimeout, Reserve,
              PauseAttachment, statsVars, attachVars, DerivedStep
<1>6. CASE StartCall(s) \/ AutoNext(s) \/ Skipped(s) \/ CloseForeground(s)
  BY <1>6 DEF StartCall, StartPass, AutoNext, Skipped, CloseForeground, PauseAttachment, statsVars,
              attachVars, DerivedStep
<1> QED  BY <1>1, <1>2, <1>3, <1>4, <1>5, <1>6 DEF MakeCall

LEMMA NextDerivedStep ==
    ASSUME [Next]_vars
    PROVE  DerivedStep
<1>1. CASE UNCHANGED vars
  BY <1>1 DEF vars, statsVars, attachVars, DerivedStep
<1>2. ASSUME NEW k, QueueAccountMailboxes(k) \/ StartPriorityMailboxes(k) \/ StartMailboxes(k)
      PROVE SameDerived
  BY <1>2 DEF QueueAccountMailboxes, StartPriorityMailboxes, StartMailboxes, QueueRequest,
              PriorityRequest, QueueTimeout, Reserve, PauseAttachment, statsVars, attachVars,
              SameDerived
<1>3. ASSUME NEW k, NEW ph, StartMaintenance(k, ph)  PROVE SameDerived
  BY <1>3 DEF StartMaintenance, Reserve, PauseAttachment, statsVars, SameDerived
<1>4. ASSUME Start  PROVE SameDerived
  BY <1>4 DEF Start, StartPass, PauseAttachment, statsVars, attachVars, SameDerived
<1>5. ASSUME NEW f,
             \/ BeginForeground(f) \/ GiveUpForeground(f) \/ PollForeground(f)
             \/ HoldForeground(f) \/ FinishForeground(f)
      PROVE SameDerived
  BY <1>5 DEF BeginForeground, GiveUpForeground, PollForeground, HoldForeground,
              FinishForeground, Preempt, PauseAttachment, statsVars, attachVars, SameDerived
<1>6. ASSUME NEW k,
             \/ Register(k) \/ BeginPass(k) \/ CompletePass(k) \/ YieldPass(k) \/ PausePass(k)
             \/ Release(k) \/ \E ok \in BOOLEAN : FinishMaintenance(k, ok)
      PROVE SameDerived
  BY <1>6 DEF Register, BeginPass, CompletePass, YieldPass, PausePass, Release,
              FinishMaintenance, statsVars, attachVars, SameDerived
<1>7. ASSUME PlanPass \/ FinishPass \/ RetryTimer \/ \E m \in Mailboxes : PassMailbox(m)
      PROVE SameDerived
  BY <1>7 DEF PlanPass, FinishPass, RetryTimer, PassMailbox, Reserve, PauseAttachment,
              statsVars, attachVars, SameDerived
<1>8. CASE FinishAttachmentIndex
  BY <1>8 DEF FinishAttachmentIndex, statsVars, DerivedStep
<1>9. CASE \E s \in DOMAIN callers : MakeCall(s)
  BY <1>9, CallDerivedStep
<1>10. CASE Environment
  BY <1>10, <1>2, <1>3, <1>4, <1>5 DEF Environment, SameDerived, DerivedStep
<1>11. CASE Progress
  BY <1>11, <1>5, <1>6, <1>7, <1>8, <1>9 DEF Progress, SameDerived, DerivedStep
<1> QED  BY <1>1, <1>10, <1>11 DEF Next

-----------------------------------------------------------------------------
(* Exclusion of derived work and of foreground operations *)

StatsInv == PhaseOK /\ StatsBesideNoJob

LEMMA NextStatsInv ==
    ASSUME StatsInv, [Next]_vars
    PROVE  StatsInv'
<1>1. JobStep /\ PhaseOK' /\ DerivedStep
  BY NextJobStep, NextDerivedStep DEF StatsInv
<1>2. SUFFICES ASSUME statsRunning'  PROVE Held' = {}
  BY <1>1 DEF StatsInv, StatsBesideNoJob
<1>3. CASE statsRunning
  <2>1. Held = {}
    BY <1>3 DEF StatsInv, StatsBesideNoJob
  <2>2. phase' = phase
    BY <1>1, <1>3, <2>1 DEF JobStep, Advance, Admit, Held
  <2> QED  BY <2>1, <2>2 DEF Held
<1>4. CASE ~statsRunning
  BY <1>1, <1>2, <1>4 DEF DerivedStep, OrdinaryRunning, Held
<1> QED  BY <1>3, <1>4

\* The sender statistics are never rebuilt beside a mailbox job.
THEOREM StatsExcludeJobs == Spec => []StatsBesideNoJob
<1>1. Init => StatsInv
  BY DEF Init, StatsInv, PhaseOK, Phases, StatsBesideNoJob
<1>2. StatsInv /\ [Next]_vars => StatsInv'
  BY NextStatsInv
<1>3. StatsInv => StatsBesideNoJob
  BY DEF StatsInv
<1> QED  BY <1>1, <1>2, <1>3, PTL DEF Spec

\* The inductive invariant of the foreground barrier.
ForegroundInv == PhaseOK /\ BarrierInv /\ ForegroundExclusive

LEMMA NextForegroundInv ==
    ASSUME ForegroundInv, [Next]_vars
    PROVE  ForegroundInv'
<1>1. JobStep /\ PhaseOK' /\ DerivedStep /\ BarrierInv' /\ AdmittedStep
  BY NextJobStep, NextDerivedStep, NextBarrierStep DEF ForegroundInv
<1>2. SUFFICES ASSUME NEW f \in Foregrounds, fgPc'[f] = "held"
               PROVE  /\ holder' = f
                      /\ \A k \in Held' : phase'[k] = "rebuilding"
                      /\ ~statsRunning' /\ ~attachRunning'
  BY <1>1 DEF ForegroundInv, ForegroundExclusive
<1>3. holder' = f
  BY <1>1, <1>2 DEF BarrierInv, BarrierOwner, Barrier
<1>4. CASE Yielded /\ UNCHANGED <<phase, statsRunning, attachRunning, holder>>
  BY <1>3, <1>4 DEF Yielded, WriterRunning, Held
<1>5. CASE fgPc[f] = "held" /\ holder' = holder
  <2>1. /\ holder = f /\ holder # None
        /\ \A k \in Held : phase[k] = "rebuilding"
        /\ ~statsRunning /\ ~attachRunning
    BY <1>5, NamesAssumption DEF ForegroundInv, ForegroundExclusive
  <2>2. ~statsRunning' /\ ~attachRunning'
    BY <1>1, <2>1 DEF DerivedStep, OrdinaryRunning
  <2>3. phase' = phase \/ Advance
    BY <1>1, <2>1 DEF JobStep, Admit
  <2>4. \A k \in Held' : phase'[k] = "rebuilding"
    <3>1. CASE phase' = phase
      BY <2>1, <3>1 DEF Held
    <3>2. CASE Advance
      <4>1. PICK k \in Keys, ph \in Phases :
               /\ phase[k] # "free"
               /\ phase[k] = "rebuilding" => ph = "free"
               /\ phase' = [phase EXCEPT ![k] = ph]
        BY <3>2 DEF Advance
      <4>2. ph = "free"
        BY <2>1, <4>1 DEF Held
      <4>3. \A h \in Keys : phase'[h] = IF h = k THEN "free" ELSE phase[h]
        BY <4>1, <4>2 DEF ForegroundInv, PhaseOK
      <4> QED  BY <2>1, <4>3 DEF Held
    <3> QED  BY <2>3, <3>1, <3>2
  <2> QED  BY <1>3, <2>2, <2>4
<1> QED  BY <1>1, <1>2, <1>4, <1>5 DEF AdmittedStep

\* While a foreground operation runs, the mirror has no other writer: the jobs
\* it preempted are gone and none was admitted since.
THEOREM ForegroundAlone == Spec => []ForegroundExclusive
<1>1. Init => ForegroundInv
  BY DEF Init, ForegroundInv, PhaseOK, Phases, BarrierInv, FgPcOK, BarrierOwner, Barrier,
         ForegroundExclusive
<1>2. ForegroundInv /\ [Next]_vars => ForegroundInv'
  BY NextForegroundInv
<1>3. ForegroundInv => ForegroundExclusive
  BY DEF ForegroundInv
<1> QED  BY <1>1, <1>2, <1>3, PTL DEF Spec

-----------------------------------------------------------------------------
(* Goroutines *)

Calls == Seq(Call)

\* A bag of goroutines, each with calls to make.
Goroutines(B) == IsABag(B) /\ \A s \in DOMAIN B : s \in Calls /\ s # <<>>

\* Some goroutine of B has call c left.
Has(B, c) == \E s \in DOMAIN B : \E i \in DOMAIN s : s[i] = c

LEMMA ThreadBag ==
    ASSUME NEW t \in Calls
    PROVE  /\ IsABag(Thread(t))
           /\ DOMAIN Thread(t) = IF t = <<>> THEN {} ELSE {t}
BY DEF Thread, EmptyBag, SetToBag, IsABag

\* A goroutine is added.
LEMMA Added ==
    ASSUME NEW B, Goroutines(B), NEW t \in Calls
    PROVE  /\ Goroutines(B (+) Thread(t))
           /\ \A c : Has(B, c) => Has(B (+) Thread(t), c)
           /\ \A i \in DOMAIN t : Has(B (+) Thread(t), t[i])
<1> DEFINE T == Thread(t)
           C == B (+) T
           n(e) == (IF e \in DOMAIN B THEN B[e] ELSE 0) + (IF e \in DOMAIN T THEN T[e] ELSE 0)
<1>1. C = [e \in DOMAIN B \cup DOMAIN T |-> n(e)]
  BY DEF (+)
<1>2. IsABag(T) /\ DOMAIN T = IF t = <<>> THEN {} ELSE {t}
  BY ThreadBag
<1> HIDE DEF T, C
<1>3. ASSUME NEW e \in DOMAIN B \cup DOMAIN T  PROVE n(e) \in {i \in Nat : i > 0}
  BY <1>2 DEF Goroutines, IsABag
<1> HIDE DEF n
<1>4. DOMAIN C = DOMAIN B \cup DOMAIN T /\ IsABag(C)
  BY <1>1, <1>3 DEF IsABag
<1>5. \A s \in DOMAIN C : s \in Calls /\ s # <<>>
  BY <1>2, <1>4 DEF Goroutines
<1>6. ASSUME NEW i \in DOMAIN t  PROVE t \in DOMAIN C
  BY <1>2, <1>4 DEF Calls
<1>7. \A c : Has(B, c) => Has(C, c)
  BY <1>4 DEF Has
<1>8. \A i \in DOMAIN t : Has(C, t[i])
  BY <1>6 DEF Has
<1> QED
  BY <1>4, <1>5, <1>7, <1>8 DEF Goroutines, C, T

\* A goroutine is taken out, to go on or to end.
LEMMA Taken ==
    ASSUME NEW B, Goroutines(B), NEW s \in DOMAIN B
    PROVE  /\ Goroutines(B (-) Thread(s))
           /\ \A t \in DOMAIN B : t # s => t \in DOMAIN (B (-) Thread(s))
<1>1. DOMAIN Thread(s) = {s} /\ IsABag(Thread(s))
  BY ThreadBag DEF Goroutines
<1> QED
  BY <1>1 DEF Goroutines, IsABag, (-)

\* A goroutine that has made its first call goes on with calls t.
LEMMA GoesOn ==
    ASSUME NEW B, Goroutines(B), NEW s \in DOMAIN B, NEW t \in Calls
    PROVE  LET C == (B (-) Thread(s)) (+) Thread(t) IN
           /\ Goroutines(C)
           /\ \A c : Has(B, c) => Has(C, c) \/ \E i \in DOMAIN s : s[i] = c
           /\ \A i \in DOMAIN t : Has(C, t[i])
<1> DEFINE R == B (-) Thread(s)
           C == R (+) Thread(t)
<1>1. Goroutines(R) /\ \A u \in DOMAIN B : u # s => u \in DOMAIN R
  BY Taken
<1> HIDE DEF R
<1>2. /\ Goroutines(C)
      /\ \A c : Has(R, c) => Has(C, c)
      /\ \A i \in DOMAIN t : Has(C, t[i])
  BY <1>1, Added
<1>3. \A c : Has(B, c) => Has(R, c) \/ \E i \in DOMAIN s : s[i] = c
  BY <1>1 DEF Has
<1> QED  BY <1>2, <1>3 DEF R

\* Calls that carry a request for a folder.
MailCall == {Queue(k) : k \in AccountKeys} \cup {Priority(k) : k \in GlobalKeys}

LEMMA CallTypes ==
    /\ MailCall \subseteq Call
    /\ \A c \in MailCall : c.op \notin {"statsIfIdle", "attachIfIdle"} /\ c # Do("skip")
    /\ \A name \in {"start", "autoNext", "stats", "statsIfIdle", "statsEnd", "attach",
                     "attachIfIdle", "skip", "scheduleNext", "arm"} : <<Do(name)>> \in Calls
    /\ \A f \in Foregrounds : <<[op |-> "close", f |-> f]>> \in Calls
    /\ <<>> \in Calls
BY DEF MailCall, Call, Calls, Queue, Priority, Do

LEMMA HeadAndTail ==
    ASSUME NEW s \in Calls, s # <<>>
    PROVE  /\ Tail(s) \in Calls /\ Head(s) \in Call
           /\ \A i \in DOMAIN s : s[i] = Head(s) \/ \E j \in DOMAIN Tail(s) : Tail(s)[j] = s[i]
<1>1. Tail(s) \in Calls /\ Head(s) \in Call
  BY DEF Calls
<1>2. ASSUME NEW i \in DOMAIN s, s[i] # Head(s)
      PROVE  i - 1 \in DOMAIN Tail(s) /\ Tail(s)[i - 1] = s[i]
  BY <1>2 DEF Calls
<1> QED  BY <1>1, <1>2

LEMMA Concatenated ==
    ASSUME NEW s \in Calls, NEW t \in Calls
    PROVE  /\ s \o t \in Calls
           /\ \A i \in DOMAIN s : \E j \in DOMAIN (s \o t) : (s \o t)[j] = s[i]
           /\ \A i \in DOMAIN t : \E j \in DOMAIN (s \o t) : (s \o t)[j] = t[i]
<1>1. s \o t \in Calls
  BY DEF Calls
<1>2. ASSUME NEW i \in DOMAIN s
      PROVE  i \in DOMAIN (s \o t) /\ (s \o t)[i] = s[i]
  BY DEF Calls
<1>3. ASSUME NEW i \in DOMAIN t
      PROVE  i + Len(s) \in DOMAIN (s \o t) /\ (s \o t)[i + Len(s)] = t[i]
  BY DEF Calls
<1> QED  BY <1>1, <1>2, <1>3

LEMMA Skipping ==
    ASSUME NEW s \in Calls
    PROVE  /\ SkipIdle(s) \in Calls
           /\ \A i \in DOMAIN s :
                 s[i] \in MailCall => i \in DOMAIN SkipIdle(s) /\ SkipIdle(s)[i] = s[i]
<1>1. Do("skip") \in Call
  BY DEF Do, Call
<1>2. SkipIdle(s) \in Calls
  BY <1>1 DEF SkipIdle, Calls
<1>3. \A i \in DOMAIN s : s[i] \in MailCall => i \in DOMAIN SkipIdle(s) /\ SkipIdle(s)[i] = s[i]
  BY CallTypes DEF SkipIdle
<1> QED  BY <1>2, <1>3

-----------------------------------------------------------------------------
(* Sets in some order *)

LEMMA KeysFinite == IsFiniteSet(Keys)
<1>1. IsFiniteSet(AccountKeys) /\ IsFiniteSet(GlobalKeys)
  BY FiniteAssumption, FS_Product, FS_Singleton DEF AccountKeys, GlobalKeys
<1> QED  BY <1>1, FS_Union DEF Keys

\* An order of a finite set has all its elements.
LEMMA OrderComplete ==
    ASSUME NEW S, IsFiniteSet(S), NEW f \in SetToSeqs(S)
    PROVE  f \in Seq(S) /\ \A x \in S : \E i \in DOMAIN f : f[i] = x
<1> DEFINE D == 1 .. Cardinality(S)
<1>1. Cardinality(S) \in Nat
  BY FS_CardinalityType
<1>2. f \in [D -> S] /\ \A i, j \in D : i # j => f[i] # f[j]
  BY DEF SetToSeqs
<1>3. IsFiniteSet(D) /\ Cardinality(D) = Cardinality(S)
  BY <1>1, FS_Interval
<1>4. f \in Injection(D, S)
  BY <1>2 DEF Injection, IsInjective
<1>5. f \in Surjection(D, S)
  BY <1>3, <1>4, FS_Injection
<1>6. \A x \in S : \E i \in DOMAIN f : f[i] = x
  BY <1>2, <1>5 DEF Surjection
<1>7. f \in Seq(S)
  BY <1>1, <1>2
<1> QED  BY <1>6, <1>7

-----------------------------------------------------------------------------
(* Keys, and what waits for a job *)

LEMMA KeyFacts ==
    /\ AccountKeys \subseteq Keys /\ GlobalKeys \subseteq Keys /\ AccountKeys \cup GlobalKeys = Keys
    /\ AccountKeys \cap GlobalKeys = {}
    /\ \A k \in Keys : Global(k) \in GlobalKeys /\ Global(k) \in Keys
    /\ \A k \in GlobalKeys : Global(k) = k
    /\ \A k, h \in Keys : k \in SameFolder(h) <=> Global(k) = Global(h)
<1>1. AccountKeys \subseteq Keys /\ GlobalKeys \subseteq Keys /\ AccountKeys \cup GlobalKeys = Keys
  BY DEF Keys
<1>2. AccountKeys \cap GlobalKeys = {}
  BY NamesAssumption DEF AccountKeys, GlobalKeys
<1>3. \A k \in Keys : Global(k) \in GlobalKeys
  BY DEF Keys, AccountKeys, GlobalKeys, Global
<1>4. \A k \in GlobalKeys : Global(k) = k
  BY DEF GlobalKeys, Global
<1>5. \A k, h \in Keys : k \in SameFolder(h) <=> Global(k) = Global(h)
  BY DEF SameFolder, Global
<1> QED  BY <1>1, <1>2, <1>3, <1>4, <1>5

\* Whatever a job on k keeps out is among what waited for it, if it is pending.
LEMMA WaitedComplete ==
    ASSUME pending \subseteq Keys, NEW k \in Keys, NEW h \in pending, k \in Excluding(h)
    PROVE  h \in Waited(k)
<1>1. Global(k) = Global(h)
  BY KeyFacts DEF Excluding
<1>2. CASE k \in GlobalKeys
  BY <1>1, <1>2, KeyFacts DEF Waited
<1>3. CASE k \in AccountKeys
  <2>1. h = k \/ h = Global(k)
    BY <1>1, <1>3, KeyFacts DEF Excluding
  <2> QED  BY <1>3, <2>1, KeyFacts DEF Waited
<1> QED  BY <1>2, <1>3, KeyFacts

LEMMA WaitedFolder ==
    ASSUME pending \subseteq Keys, NEW k \in Keys, NEW h \in Waited(k)
    PROVE  h \in Keys /\ h \in pending /\ Global(h) = Global(k)
BY KeyFacts DEF Waited

\* The reruns repeat all of it: each request by itself, or one for every account.
LEMMA RerunsComplete ==
    ASSUME pending \subseteq Keys, NEW k \in Keys, NEW s \in Reruns(k)
    PROVE  /\ s \in Calls
           /\ \A h \in Waited(k) : \E i \in DOMAIN s :
                 s[i] = Priority(Global(k)) \/ (h \in AccountKeys /\ s[i] = Queue(h))
<1>1. CASE Global(k) \in pending
  <2>1. s = <<Priority(Global(k))>>
    BY <1>1 DEF Reruns
  <2>2. Priority(Global(k)) \in Call
    BY KeyFacts, CallTypes DEF MailCall
  <2> QED  BY <2>1, <2>2 DEF Calls
<1>2. CASE Global(k) \notin pending
  <2>1. Waited(k) \subseteq AccountKeys
    <3> SUFFICES ASSUME NEW h \in Waited(k), h \in GlobalKeys  PROVE FALSE
      BY WaitedFolder, KeyFacts
    <3> QED  BY <1>2, WaitedFolder, KeyFacts
  <2>2. IsFiniteSet(Waited(k))
    BY KeysFinite, FS_Subset, WaitedFolder
  <2>3. PICK f \in SetToSeqs(Waited(k)) : s = [i \in DOMAIN f |-> Queue(f[i])]
    BY <1>2 DEF Reruns
  <2>4. f \in Seq(Waited(k)) /\ \A h \in Waited(k) : \E i \in DOMAIN f : f[i] = h
    BY <2>2, OrderComplete
  <2>5. \A h \in AccountKeys : Queue(h) \in Call
    BY CallTypes DEF MailCall
  <2>6. s \in Calls
    BY <2>1, <2>3, <2>4, <2>5 DEF Calls
  <2> QED  BY <2>1, <2>3, <2>4, <2>6
<1> QED  BY <1>1, <1>2

\* The same for what the account-wide pass and a foreground operation put off.
LEMMA QueuedComplete ==
    ASSUME NEW S \in SUBSET AccountKeys, NEW f \in SetToSeqs(S)
    PROVE  LET s == [i \in DOMAIN f |-> Queue(f[i])] IN
           s \in Calls /\ \A k \in S : \E i \in DOMAIN s : s[i] = Queue(k)
<1>1. IsFiniteSet(S)
  BY KeysFinite, FS_Subset, KeyFacts
<1>2. f \in Seq(S) /\ \A k \in S : \E i \in DOMAIN f : f[i] = k
  BY <1>1, OrderComplete
<1>3. \A k \in AccountKeys : Queue(k) \in Call
  BY CallTypes DEF MailCall
<1> QED  BY <1>2, <1>3 DEF Calls

LEMMA PriorityComplete ==
    ASSUME NEW S \in SUBSET GlobalKeys, NEW f \in SetToSeqs(S)
    PROVE  LET s == [i \in DOMAIN f |-> Priority(f[i])] IN
           s \in Calls /\ \A k \in S : \E i \in DOMAIN s : s[i] = Priority(k)
<1>1. IsFiniteSet(S)
  BY KeysFinite, FS_Subset, KeyFacts
<1>2. f \in Seq(S) /\ \A k \in S : \E i \in DOMAIN f : f[i] = k
  BY <1>1, OrderComplete
<1>3. \A k \in GlobalKeys : Priority(k) \in Call
  BY CallTypes DEF MailCall
<1> QED  BY <1>2, <1>3 DEF Calls

LEMMA ChosenOrder ==
    ASSUME NEW S, IsFiniteSet(S)
    PROVE  SetToSeq(S) \in SetToSeqs(S)
<1> DEFINE D == 1 .. Cardinality(S)
<1>1. ExistsBijection(D, S)
  BY FS_CardinalityType
<1>2. PICK f \in Bijection(D, S) : TRUE
  BY <1>1 DEF ExistsBijection
<1>3. f \in [D -> S] /\ IsInjective(f)
  BY <1>2 DEF Bijection, Injection, IsInjective
<1>4. SetToSeq(S) \in [D -> S] /\ IsInjective(SetToSeq(S))
  BY <1>3 DEF SetToSeq
<1> QED  BY <1>4 DEF SetToSeqs, IsInjective

\* What finish replays covers every deferred request.
LEMMA ReplayComplete ==
    ASSUME fgDeferred \subseteq Keys, fgDeferredAuto \in BOOLEAN
    PROVE  /\ Replay \in Calls
           /\ \A k \in fgDeferred : \E i \in DOMAIN Replay :
                 Replay[i] = Priority(Global(k)) \/ (k \in AccountKeys /\ Replay[i] = Queue(k))
<1> DEFINE boxes == fgDeferred \cap GlobalKeys
           accts == {k \in fgDeferred \cap AccountKeys : Global(k) \notin fgDeferred}
           p == [i \in DOMAIN SetToSeq(boxes) |-> Priority(SetToSeq(boxes)[i])]
           q == [i \in DOMAIN SetToSeq(accts) |-> Queue(SetToSeq(accts)[i])]
           a == IF fgDeferredAuto THEN <<Do("start")>> ELSE <<>>
<1>1. Replay = a \o p \o q
  BY DEF Replay
<1>2. IsFiniteSet(boxes) /\ IsFiniteSet(accts)
  BY KeysFinite, FS_Subset
<1>3. p \in Calls /\ \A k \in boxes : \E i \in DOMAIN p : p[i] = Priority(k)
  <2>1. boxes \in SUBSET GlobalKeys /\ SetToSeq(boxes) \in SetToSeqs(boxes)
    BY <1>2, ChosenOrder
  <2> HIDE DEF boxes
  <2> QED  BY ONLY <2>1, PriorityComplete
<1>4. q \in Calls /\ \A k \in accts : \E i \in DOMAIN q : q[i] = Queue(k)
  <2>1. accts \in SUBSET AccountKeys /\ SetToSeq(accts) \in SetToSeqs(accts)
    BY <1>2, ChosenOrder
  <2> HIDE DEF accts
  <2> QED  BY ONLY <2>1, QueuedComplete
<1>5. a \in Calls
  BY CallTypes
<1> HIDE DEF p, q, a
<1>6. a \o p \in Calls /\ \A i \in DOMAIN p : \E j \in DOMAIN (a \o p) : (a \o p)[j] = p[i]
  <2>1. a \in Calls /\ p \in Calls
    BY <1>3, <1>5
  <2> QED  BY ONLY <2>1, Concatenated
<1> DEFINE ap == a \o p
<1>7. /\ Replay \in Calls
      /\ \A i \in DOMAIN ap : \E j \in DOMAIN Replay : Replay[j] = ap[i]
      /\ \A i \in DOMAIN q : \E j \in DOMAIN Replay : Replay[j] = q[i]
  <2>1. Replay = ap \o q /\ ap \in Calls /\ q \in Calls
    BY <1>1, <1>4, <1>6
  <2> HIDE DEF ap
  <2>2. /\ ap \o q \in Calls
        /\ \A i \in DOMAIN ap : \E j \in DOMAIN (ap \o q) : (ap \o q)[j] = ap[i]
        /\ \A i \in DOMAIN q : \E j \in DOMAIN (ap \o q) : (ap \o q)[j] = q[i]
    BY ONLY <2>1, Concatenated
  <2> QED  BY ONLY <2>1, <2>2
<1>8. ASSUME NEW k \in fgDeferred
      PROVE  \E i \in DOMAIN Replay :
                 Replay[i] = Priority(Global(k)) \/ (k \in AccountKeys /\ Replay[i] = Queue(k))
  <2>1. CASE Global(k) \in fgDeferred
    <3>1. Global(k) \in boxes
      BY <2>1, KeyFacts
    <3> QED  BY <1>3, <1>6, <1>7, <3>1
  <2>2. CASE Global(k) \notin fgDeferred
    <3>1. k \in accts
      BY <2>2, KeyFacts
    <3> QED  BY <1>4, <1>7, <3>1
  <2> QED  BY <2>1, <2>2
<1> QED  BY <1>7, <1>8

LEMMA DerivedTyped == DerivedCalls \in Calls /\ ReplayDerived \in Calls
<1>1. ASSUME NEW T, NEW a \in T, NEW b \in T  PROVE <<a, b>> \in Seq(T)
  OBVIOUS
<1>2. Do("stats") \in Call /\ Do("attach") \in Call
  BY DEF Call, MailCall, Do
<1>3. DerivedCalls \in Calls
  BY <1>1, <1>2, CallTypes DEF DerivedCalls, Calls
<1> QED  BY <1>3, CallTypes, Concatenated DEF ReplayDerived

-----------------------------------------------------------------------------
(* Types *)

JobsTyped ==
    /\ phase \in [Keys -> Phases] /\ cancelled \subseteq Keys /\ pending \subseteq Keys
    /\ owed \in [AccountKeys -> {"no", "yes", "dropped"}]
    /\ serving \in [Keys -> SUBSET AccountKeys]

AutoTyped ==
    /\ auto \in {"off", "planning", "running", "busy"} /\ autoJob \in GlobalKeys \cup {None}
    /\ autoCancelled \in BOOLEAN /\ autoRest \subseteq Mailboxes
    /\ autoDeferred \subseteq AccountKeys

ForegroundTyped ==
    /\ holder \in Foregrounds \cup {None} /\ FgPcOK
    /\ waitsOn \in [Foregrounds -> Foregrounds \cup {None}]
    /\ fgDeferred \subseteq Keys /\ fgDeferredAuto \in BOOLEAN

DerivedTypes ==
    /\ statsRunning \in BOOLEAN /\ statsPending \in BOOLEAN /\ statsCancelled \in BOOLEAN
    /\ attachRunning \in BOOLEAN /\ attachPending \in BOOLEAN
    /\ attachCancelled \in BOOLEAN /\ attachResume \in BOOLEAN
    /\ attachTimer \in BOOLEAN /\ attachWake \in BOOLEAN

BoundsTyped == requests \in Nat /\ faults \in Nat

StateTyped == JobsTyped /\ AutoTyped /\ ForegroundTyped /\ DerivedTypes /\ BoundsTyped

LEMMA TypeParts == TypeOK <=> StateTyped /\ Goroutines(callers)
BY DEF TypeOK, StateTyped, JobsTyped, AutoTyped, ForegroundTyped, DerivedTypes, BoundsTyped,
       FgPcOK, Goroutines, Calls

LEMMA BoundsStep ==
    ASSUME BoundsTyped, Ask \/ Fault \/ UNCHANGED boundVars
    PROVE  BoundsTyped'
BY DEF BoundsTyped, Ask, Fault, MayHappen, boundVars

LEMMA PauseTyped ==
    ASSUME DerivedTypes, PauseAttachment \/ UNCHANGED attachVars, UNCHANGED statsVars
    PROVE  DerivedTypes'
BY DEF DerivedTypes, PauseAttachment, attachVars, statsVars

\* The admissions, for a key of the tenant.
LEMMA AdmissionTyped ==
    ASSUME StateTyped, NEW k \in Keys,
           \/ k \in AccountKeys /\ QueueRequest(k)
           \/ \E started \in BOOLEAN : PriorityRequest(k, started),
           owed' \in [AccountKeys -> {"no", "yes", "dropped"}],
           serving' \in [Keys -> SUBSET AccountKeys]
    PROVE  JobsTyped' /\ AutoTyped' /\ ForegroundTyped' /\ DerivedTypes'
<1>1. CASE k \in AccountKeys /\ QueueRequest(k)
  <2>1. PauseAttachment \/ UNCHANGED attachVars
    BY <1>1 DEF QueueRequest, Reserve
  <2>2. DerivedTypes'
    BY <1>1, <2>1, PauseTyped DEF StateTyped, QueueRequest
  <2>3. JobsTyped'
    BY <1>1 DEF StateTyped, JobsTyped, QueueRequest, Reserve, Phases
  <2>4. AutoTyped'
    BY <1>1 DEF StateTyped, AutoTyped, QueueRequest
  <2>5. ForegroundTyped'
    BY <1>1 DEF StateTyped, ForegroundTyped, FgPcOK, QueueRequest
  <2> QED  BY <2>2, <2>3, <2>4, <2>5
<1>2. CASE \E started \in BOOLEAN : PriorityRequest(k, started)
  <2>1. PauseAttachment \/ UNCHANGED attachVars
    BY <1>2 DEF PriorityRequest, Reserve
  <2>2. DerivedTypes'
    BY <1>2, <2>1, PauseTyped DEF StateTyped, PriorityRequest
  <2>3. JobsTyped'
    BY <1>2 DEF StateTyped, JobsTyped, PriorityRequest, Reserve, Phases
  <2>4. AutoTyped'
    BY <1>2 DEF StateTyped, AutoTyped, PriorityRequest, autoVars
  <2>5. ForegroundTyped'
    BY <1>2 DEF StateTyped, ForegroundTyped, FgPcOK, PriorityRequest
  <2> QED  BY <2>2, <2>3, <2>4, <2>5
<1> QED  BY <1>1, <1>2

LEMMA TimeoutTyped ==
    ASSUME StateTyped, NEW S, QueueTimeout(S)
    PROVE  JobsTyped' /\ AutoTyped' /\ ForegroundTyped' /\ DerivedTypes'
<1>1. JobsTyped'
  BY DEF StateTyped, JobsTyped, QueueTimeout
<1>2. AutoTyped' /\ ForegroundTyped' /\ DerivedTypes'
  BY DEF StateTyped, AutoTyped, ForegroundTyped, FgPcOK, DerivedTypes, QueueTimeout,
         autoVars, fgVars, statsVars, attachVars
<1> QED  BY <1>1, <1>2

LEMMA PreemptTyped ==
    ASSUME StateTyped, Preempt
    PROVE  JobsTyped' /\ AutoTyped' /\ DerivedTypes' /\ fgDeferred' = fgDeferred
           /\ fgDeferredAuto' \in BOOLEAN
<1>1. JobsTyped'
  BY DEF StateTyped, JobsTyped, Preempt
<1>2. AutoTyped'
  BY DEF StateTyped, AutoTyped, Preempt
<1>3. DerivedTypes'
  BY DEF StateTyped, DerivedTypes, Preempt, PauseAttachment
<1>4. fgDeferred' = fgDeferred /\ fgDeferredAuto' \in BOOLEAN
  BY DEF StateTyped, ForegroundTyped, Preempt
<1> QED  BY <1>1, <1>2, <1>3, <1>4

\* What a step leaves alone keeps its type.
LEMMA Untouched ==
    ASSUME StateTyped
    PROVE  /\ UNCHANGED jobVars => JobsTyped'
           /\ UNCHANGED autoVars => AutoTyped'
           /\ UNCHANGED fgVars => ForegroundTyped'
           /\ UNCHANGED <<statsVars, attachVars>> => DerivedTypes'
<1>1. UNCHANGED jobVars => JobsTyped'
  BY DEF StateTyped, JobsTyped, jobVars
<1>2. UNCHANGED autoVars => AutoTyped'
  BY DEF StateTyped, AutoTyped, autoVars
<1>3. UNCHANGED fgVars => ForegroundTyped'
  BY DEF StateTyped, ForegroundTyped, FgPcOK, fgVars
<1>4. UNCHANGED <<statsVars, attachVars>> => DerivedTypes'
  BY DEF StateTyped, DerivedTypes, statsVars, attachVars
<1> QED  BY <1>1, <1>2, <1>3, <1>4

\* Requests from outside and callers that give up; only the admitted foreground
\* is left to the next lemma.
LEMMA EnvironmentTyped ==
    ASSUME StateTyped, Environment,
           \A f \in Foregrounds : ~BeginForeground(f)
    PROVE  StateTyped' /\ callers' = callers
<1>1. ASSUME NEW k \in AccountKeys, QueueAccountMailboxes(k)  PROVE StateTyped' /\ callers' = callers
  <2>1. owed' \in [AccountKeys -> {"no", "yes", "dropped"}]
    BY <1>1 DEF QueueAccountMailboxes, Owe, StateTyped, JobsTyped
  <2>2. CASE Owe(k) /\ QueueRequest(k)
    <3>1. serving' \in [Keys -> SUBSET AccountKeys]
      BY <2>2 DEF Owe, StateTyped, JobsTyped
    <3> QED
      BY <1>1, <2>1, <2>2, <3>1, AdmissionTyped, BoundsStep, KeyFacts
      DEF QueueAccountMailboxes, StateTyped
  <2>3. CASE UNCHANGED <<phase, cancelled, pending, serving, autoVars, fgVars, statsVars, attachVars>>
    <3>1. JobsTyped'
      BY <2>1, <2>3 DEF StateTyped, JobsTyped
    <3> QED
      BY <1>1, <2>3, <3>1, Untouched, BoundsStep DEF QueueAccountMailboxes, StateTyped
  <2> QED  BY <1>1, <2>2, <2>3 DEF QueueAccountMailboxes
<1>2. ASSUME NEW k \in GlobalKeys, StartPriorityMailboxes(k)  PROVE StateTyped' /\ callers' = callers
  <2>1. \E started \in BOOLEAN : PriorityRequest(k, started)
    BY <1>2 DEF StartPriorityMailboxes
  <2>2. owed' = owed /\ serving' = serving
    BY <2>1 DEF PriorityRequest
  <2> QED
    BY <1>2, <2>1, <2>2, AdmissionTyped, BoundsStep, KeyFacts
    DEF StartPriorityMailboxes, StateTyped, JobsTyped
<1>3. ASSUME NEW k \in Keys, NEW ph \in {"reserved", "maintaining", "rebuilding"},
             Ask, Reserve(k, ph),
             UNCHANGED <<cancelled, pending, serving, owed, autoVars, fgVars, statsVars, callers>>
      PROVE  StateTyped' /\ callers' = callers
  <2>1. JobsTyped'
    BY <1>3 DEF StateTyped, JobsTyped, Reserve, Phases
  <2>2. DerivedTypes'
    BY <1>3, PauseTyped DEF StateTyped, Reserve
  <2> QED  BY <1>3, <2>1, <2>2, Untouched, BoundsStep DEF StateTyped
<1>4. ASSUME NEW k \in Keys, StartMailboxes(k)  PROVE StateTyped' /\ callers' = callers
  BY <1>3, <1>4 DEF StartMailboxes
<1>5. ASSUME NEW k \in AccountKeys, NEW ph \in {"maintaining", "rebuilding"}, StartMaintenance(k, ph)
      PROVE  StateTyped' /\ callers' = callers
  BY <1>3, <1>5, KeyFacts DEF StartMaintenance
<1>6. ASSUME Start  PROVE StateTyped' /\ callers' = callers
  <2>1. AutoTyped'
    BY <1>6 DEF Start, StartPass, StateTyped, AutoTyped, autoVars
  <2>2. DerivedTypes'
    BY <1>6, PauseTyped DEF Start, StartPass, StateTyped
  <2> QED
    BY <1>6, <2>1, <2>2, Untouched, BoundsStep DEF Start, StartPass, StateTyped
<1>7. ASSUME NEW f \in Foregrounds, GiveUpForeground(f)  PROVE StateTyped' /\ callers' = callers
  <2>1. ForegroundTyped'
    BY <1>7 DEF GiveUpForeground, StateTyped, ForegroundTyped, FgPcOK
  <2>2. JobsTyped' /\ AutoTyped' /\ DerivedTypes' /\ BoundsTyped'
    BY <1>7, Untouched, BoundsStep DEF GiveUpForeground, StateTyped
  <2> QED  BY <1>7, <2>1, <2>2 DEF StateTyped, GiveUpForeground
<1> QED
  BY <1>1, <1>2, <1>4, <1>5, <1>6, <1>7 DEF Environment

LEMMA SpawnTyped ==
    ASSUME Goroutines(callers), NEW t \in Calls, Spawn(t)
    PROVE  Goroutines(callers') /\ \A c : ToCall(c) => ToCall(c)'
BY Added DEF Spawn, Has, ToCall

LEMMA JobsTypedStep ==
    ASSUME StateTyped, Goroutines(callers), NEW k \in Keys,
           \/ Register(k) \/ BeginPass(k) \/ CompletePass(k) \/ YieldPass(k) \/ PausePass(k)
           \/ Release(k) \/ \E ok \in BOOLEAN : FinishMaintenance(k, ok)
    PROVE  StateTyped' /\ Goroutines(callers')
<1>1. CASE Register(k)
  <2>1. JobsTyped'
    BY <1>1 DEF Register, StateTyped, JobsTyped, Phases
  <2> QED  BY <1>1, <2>1, Untouched, BoundsStep DEF Register, StateTyped
<1>2. CASE BeginPass(k)
  <2>1. \A S \in SUBSET AccountKeys : [serving EXCEPT ![k] = S] \in [Keys -> SUBSET AccountKeys]
    BY DEF StateTyped, JobsTyped
  <2>2. serving' \in [Keys -> SUBSET AccountKeys]
    BY <1>2, <2>1 DEF BeginPass, StateTyped, JobsTyped
  <2>3. JobsTyped'
    BY <1>2, <2>2 DEF BeginPass, StateTyped, JobsTyped, Phases
  <2> QED  BY <1>2, <2>3, Untouched, BoundsStep DEF BeginPass, StateTyped
<1>3. CASE CompletePass(k)
  <2>1. JobsTyped'
    BY <1>3 DEF CompletePass, StateTyped, JobsTyped, Phases
  <2> QED  BY <1>3, <2>1, Untouched, BoundsStep DEF CompletePass, StateTyped
<1>4. CASE YieldPass(k)
  <2>1. JobsTyped'
    BY <1>4 DEF YieldPass, StateTyped, JobsTyped, Phases
  <2> QED  BY <1>4, <2>1, Untouched, BoundsStep DEF YieldPass, StateTyped
<1>5. CASE PausePass(k)
  <2>1. JobsTyped'
    BY <1>5 DEF PausePass, StateTyped, JobsTyped, Phases
  <2> QED  BY <1>5, <2>1, Untouched, BoundsStep DEF PausePass, StateTyped
<1>6. ASSUME Free(k), UNCHANGED <<serving, owed>>  PROVE JobsTyped'
  BY <1>6 DEF Free, StateTyped, JobsTyped, Phases
<1>7. CASE Release(k)
  <2>1. JobsTyped'
    BY <1>6, <1>7 DEF Release
  <2>2. AutoTyped'
    BY <1>7 DEF Release, StateTyped, AutoTyped
  <2>3. PICK s \in Reruns(k) :
           Spawn(s \o IF k = autoJob THEN <<Do("autoNext")>> ELSE DerivedCalls)
    BY <1>7 DEF Release
  <2>4. s \o (IF k = autoJob THEN <<Do("autoNext")>> ELSE DerivedCalls) \in Calls
    BY RerunsComplete, DerivedTyped, CallTypes, Concatenated DEF StateTyped, JobsTyped
  <2>5. Goroutines(callers')
    BY <2>3, <2>4, SpawnTyped
  <2> QED  BY <1>7, <2>1, <2>2, <2>5, Untouched, BoundsStep DEF Release, StateTyped
<1>8. ASSUME NEW ok \in BOOLEAN, FinishMaintenance(k, ok)
      PROVE  StateTyped' /\ Goroutines(callers')
  <2>1. JobsTyped'
    BY <1>6, <1>8 DEF FinishMaintenance
  <2>2. PICK s \in Reruns(k) :
           Spawn(s \o IF ok \/ ~DerivedWork THEN DerivedCalls ELSE <<Do("attach")>>)
    BY <1>8 DEF FinishMaintenance
  <2>3. s \o (IF ok \/ ~DerivedWork THEN DerivedCalls ELSE <<Do("attach")>>) \in Calls
    BY RerunsComplete, DerivedTyped, CallTypes, Concatenated DEF StateTyped, JobsTyped
  <2>4. Goroutines(callers')
    BY <2>2, <2>3, SpawnTyped
  <2> QED  BY <1>8, <2>1, <2>4, Untouched, BoundsStep DEF FinishMaintenance, StateTyped
<1> QED  BY <1>1, <1>2, <1>3, <1>4, <1>5, <1>7, <1>8

LEMMA PassTypedStep ==
    ASSUME StateTyped, Goroutines(callers),
           PlanPass \/ FinishPass \/ \E m \in Mailboxes : PassMailbox(m)
    PROVE  StateTyped' /\ Goroutines(callers')
<1>1. CASE PlanPass
  <2>1. AutoTyped'
    BY <1>1 DEF PlanPass, StateTyped, AutoTyped
  <2>2. Fault \/ UNCHANGED boundVars
    BY <1>1 DEF PlanPass
  <2> QED  BY <1>1, <2>1, <2>2, Untouched, BoundsStep DEF PlanPass, StateTyped
<1>2. CASE FinishPass
  <2>1. AutoTyped'
    BY <1>2 DEF FinishPass, StateTyped, AutoTyped
  <2>2. PICK f \in SetToSeqs(autoDeferred) :
           Spawn([i \in DOMAIN f |-> Queue(f[i])] \o DerivedCalls)
    BY <1>2 DEF FinishPass
  <2>3. [i \in DOMAIN f |-> Queue(f[i])] \in Calls
    BY QueuedComplete DEF StateTyped, AutoTyped
  <2>4. Goroutines(callers')
    BY <2>2, <2>3, DerivedTyped, Concatenated, SpawnTyped
  <2> QED  BY <1>2, <2>1, <2>4, Untouched, BoundsStep DEF FinishPass, StateTyped
<1>3. ASSUME NEW m \in Mailboxes, PassMailbox(m)  PROVE StateTyped' /\ Goroutines(callers')
  <2> DEFINE k == <<AllAccounts, m>>
  <2>1. k \in GlobalKeys /\ k \in Keys
    BY DEF Keys, GlobalKeys
  <2>2. /\ phase' = phase \/ phase' = [phase EXCEPT ![k] = "reserved"]
        /\ auto' = auto \/ auto' = "busy"
        /\ autoJob' = autoJob \/ autoJob' = k
        /\ autoRest' \subseteq autoRest
        /\ PauseAttachment \/ UNCHANGED attachVars
        /\ UNCHANGED <<cancelled, pending, serving, owed, autoCancelled, autoDeferred,
                       fgVars, statsVars, callers, boundVars>>
    BY <1>3 DEF PassMailbox, Reserve
  <2> HIDE DEF k
  <2>3. JobsTyped'
    BY <2>1, <2>2 DEF StateTyped, JobsTyped, Phases
  <2>4. AutoTyped'
    BY <2>1, <2>2 DEF StateTyped, AutoTyped
  <2>5. DerivedTypes'
    BY <2>2, PauseTyped DEF StateTyped
  <2> QED  BY <2>2, <2>3, <2>4, <2>5, Untouched, BoundsStep DEF StateTyped
<1> QED  BY <1>1, <1>2, <1>3

LEMMA ForegroundTypedStep ==
    ASSUME StateTyped, Goroutines(callers), NEW f \in Foregrounds,
           BeginForeground(f) \/ PollForeground(f) \/ HoldForeground(f) \/ FinishForeground(f)
    PROVE  StateTyped' /\ Goroutines(callers')
<1>1. CASE BeginForeground(f)
  <2>1. CASE holder = None
    <3>1. Preempt /\ holder' = f /\ fgPc' = [fgPc EXCEPT ![f] = "yielding"] /\ waitsOn' = waitsOn
      BY <1>1, <2>1 DEF BeginForeground
    <3>2. ForegroundTyped'
      BY <3>1, PreemptTyped DEF StateTyped, ForegroundTyped, FgPcOK
    <3>3. (Ask \/ UNCHANGED boundVars) /\ callers' = callers
      BY <1>1 DEF BeginForeground
    <3> QED  BY <3>1, <3>2, <3>3, PreemptTyped, BoundsStep DEF StateTyped
  <2>2. CASE holder # None
    <3>1. ForegroundTyped'
      BY <1>1, <2>2 DEF BeginForeground, StateTyped, ForegroundTyped, FgPcOK
    <3>2. /\ UNCHANGED <<jobVars, autoVars, statsVars, attachVars>>
          /\ Ask \/ UNCHANGED boundVars
          /\ callers' = callers
      BY <1>1, <2>2 DEF BeginForeground
    <3> QED  BY <3>1, <3>2, Untouched, BoundsStep DEF StateTyped
  <2> QED  BY <2>1, <2>2
<1>2. CASE PollForeground(f)
  <2>1. Preempt /\ UNCHANGED <<holder, fgPc, waitsOn, callers, boundVars>>
    BY <1>2 DEF PollForeground
  <2>2. ForegroundTyped'
    BY <2>1, PreemptTyped DEF StateTyped, ForegroundTyped, FgPcOK
  <2> QED  BY <2>1, <2>2, PreemptTyped, BoundsStep DEF StateTyped
<1>3. CASE HoldForeground(f)
  <2>1. ForegroundTyped'
    BY <1>3 DEF HoldForeground, StateTyped, ForegroundTyped, FgPcOK
  <2> QED  BY <1>3, <2>1, Untouched, BoundsStep DEF HoldForeground, StateTyped
<1>4. CASE FinishForeground(f)
  <2>1. ForegroundTyped'
    BY <1>4 DEF FinishForeground, StateTyped, ForegroundTyped, FgPcOK
  <2>2. Replay \o ReplayDerived \o <<[op |-> "close", f |-> f]>> \in Calls
    BY ReplayComplete, DerivedTyped, CallTypes, Concatenated DEF StateTyped, ForegroundTyped
  <2>3. Goroutines(callers')
    BY <1>4, <2>2, SpawnTyped DEF FinishForeground
  <2> QED  BY <1>4, <2>1, <2>3, Untouched, BoundsStep DEF FinishForeground, StateTyped
<1> QED  BY <1>1, <1>2, <1>3, <1>4

LEMMA AttachmentTypedStep ==
    ASSUME StateTyped, Goroutines(callers), FinishAttachmentIndex \/ RetryTimer
    PROVE  /\ StateTyped' /\ Goroutines(callers')
           /\ \A c : ToCall(c) => ToCall(c)'
<1>1. CASE RetryTimer
  <2>1. DerivedTypes'
    BY <1>1 DEF RetryTimer, StateTyped, DerivedTypes, statsVars
  <2>2. Goroutines(callers') /\ \A c : ToCall(c) => ToCall(c)'
    BY <1>1, CallTypes, SpawnTyped DEF RetryTimer
  <2> QED  BY <1>1, <2>1, <2>2, Untouched, BoundsStep DEF RetryTimer, StateTyped
<1>2. CASE FinishAttachmentIndex
  <2>1. PICK failed \in BOOLEAN, drainMore \in BOOLEAN, deferred \in BOOLEAN :
       LET left     == attachPending \/ failed \/ drainMore
           resume   == attachResume \/ (statsPending /\ left /\ ~failed)
           restart  == left /\ ~failed /\ ~statsPending /\ ~statsRunning /\ ~OrdinaryRunning
           stranded == left /\ ~restart /\ ~statsPending /\ ~resume
       IN /\ Fault \/ UNCHANGED boundVars
          /\ attachWake' = (attachWake \/ deferred)
          /\ attachPending' = left
          /\ attachResume' = resume
          /\ Spawn(   (IF failed THEN <<>> ELSE <<Do("scheduleNext")>>)
                   \o (IF stranded THEN <<Do("arm")>> ELSE <<>>)
                   \o (IF statsPending THEN <<Do("stats")>>
                       ELSE IF restart THEN <<Do("attach")>> ELSE <<>>))
    BY <1>2 DEF FinishAttachmentIndex
  <2>2. attachWake' \in BOOLEAN /\ attachPending' \in BOOLEAN /\ attachResume' \in BOOLEAN
    BY <2>1 DEF StateTyped, DerivedTypes
  <2>3. DerivedTypes'
    BY <1>2, <2>2 DEF FinishAttachmentIndex, StateTyped, DerivedTypes, statsVars
  <2>4. ASSUME NEW a \in BOOLEAN, NEW b \in BOOLEAN, NEW c \in BOOLEAN, NEW d \in BOOLEAN
        PROVE  (   (IF a THEN <<>> ELSE <<Do("scheduleNext")>>)
                   \o (IF b THEN <<Do("arm")>> ELSE <<>>)
                   \o (IF c THEN <<Do("stats")>>
                       ELSE IF d THEN <<Do("attach")>> ELSE <<>>)) \in Calls
    <3>1. /\ (IF a THEN <<>> ELSE <<Do("scheduleNext")>>) \in Calls
          /\ (IF b THEN <<Do("arm")>> ELSE <<>>) \in Calls
          /\ (IF c THEN <<Do("stats")>> ELSE IF d THEN <<Do("attach")>> ELSE <<>>) \in Calls
      BY CallTypes
    <3> QED  BY <3>1, Concatenated
  <2>5. Goroutines(callers') /\ \A c : ToCall(c) => ToCall(c)'
    <3> DEFINE left     == attachPending \/ failed \/ drainMore
               resume   == attachResume \/ (statsPending /\ left /\ ~failed)
               restart  == left /\ ~failed /\ ~statsPending /\ ~statsRunning /\ ~OrdinaryRunning
               stranded == left /\ ~restart /\ ~statsPending /\ ~resume
    <3>1. restart \in BOOLEAN /\ stranded \in BOOLEAN /\ statsPending \in BOOLEAN
      BY DEF StateTyped, DerivedTypes
    <3> DEFINE t ==   (IF failed THEN <<>> ELSE <<Do("scheduleNext")>>)
                   \o (IF stranded THEN <<Do("arm")>> ELSE <<>>)
                   \o (IF statsPending THEN <<Do("stats")>>
                       ELSE IF restart THEN <<Do("attach")>> ELSE <<>>)
    <3>2. Spawn(t)
      BY <2>1
    <3> HIDE DEF restart, stranded
    <3>3. t \in Calls
      BY <2>4, <3>1
    <3> QED  BY <3>2, <3>3, SpawnTyped
  <2> QED
    BY <1>2, <2>1, <2>3, <2>5, Untouched, BoundsStep DEF FinishAttachmentIndex, StateTyped
<1> QED  BY <1>1, <1>2

LEMMA ContinueTyped ==
    ASSUME Goroutines(callers), NEW s \in DOMAIN callers, NEW t \in Calls, Continue(s, t)
    PROVE  Goroutines(callers')
BY GoesOn DEF Continue

LEMMA CallsTypedStep ==
    ASSUME StateTyped, Goroutines(callers), NEW s \in DOMAIN callers, MakeCall(s)
    PROVE  StateTyped' /\ Goroutines(callers')
<1>1. /\ s \in Calls /\ s # <<>> /\ Tail(s) \in Calls /\ Head(s) \in Call
      /\ SkipIdle(Tail(s)) \in Calls
  BY HeadAndTail, Skipping DEF Goroutines
<1>2. Continue(s, Tail(s)) \/ Continue(s, SkipIdle(Tail(s))) => Goroutines(callers')
  BY <1>1, ContinueTyped
<1>3. ASSUME NEW k \in AccountKeys, QueueCall(s, k)  PROVE StateTyped' /\ Goroutines(callers')
  <2>1. CASE QueueRequest(k) /\ UNCHANGED <<serving, owed>>
    BY <1>2, <1>3, <2>1, AdmissionTyped, BoundsStep, KeyFacts DEF QueueCall, StateTyped, JobsTyped
  <2>2. CASE QueueTimeout({k})
    BY <1>2, <1>3, <2>2, TimeoutTyped, BoundsStep DEF QueueCall, StateTyped
  <2> QED  BY <1>3, <2>1, <2>2 DEF QueueCall
<1>4. ASSUME NEW k \in GlobalKeys, PriorityCall(s, k)  PROVE StateTyped' /\ Goroutines(callers')
  <2>1. Goroutines(callers') /\ UNCHANGED boundVars
    BY <1>2, <1>4 DEF PriorityCall
  <2>2. CASE QueueTimeout(SameFolder(k))
    BY <2>1, <2>2, TimeoutTyped, BoundsStep DEF StateTyped
  <2>3. CASE \E started \in BOOLEAN : PriorityRequest(k, started)
    <3>1. owed' = owed /\ serving' = serving
      BY <2>3 DEF PriorityRequest
    <3> QED
      BY <2>1, <2>3, <3>1, AdmissionTyped, BoundsStep, KeyFacts DEF StateTyped, JobsTyped
  <2> QED  BY <1>4, <2>2, <2>3 DEF PriorityCall
<1>5. CASE StartCall(s)
  <2>1. Goroutines(callers') /\ UNCHANGED boundVars
    BY <1>2, <1>5 DEF StartCall
  <2>2. \E started \in BOOLEAN : StartPass(started)
    BY <1>5 DEF StartCall
  <2>3. AutoTyped'
    BY <2>2 DEF StartPass, StateTyped, AutoTyped, autoVars
  <2>4. DerivedTypes'
    BY <2>2, PauseTyped DEF StartPass, StateTyped
  <2> QED  BY <2>1, <2>2, <2>3, <2>4, Untouched, BoundsStep DEF StartPass, StateTyped
<1>6. CASE Skipped(s)
  BY <1>2, <1>6, Untouched, BoundsStep DEF Skipped, StateTyped
<1>7. CASE AutoNext(s)
  <2>1. AutoTyped'
    BY <1>7 DEF AutoNext, StateTyped, AutoTyped
  <2> QED  BY <1>2, <1>7, <2>1, Untouched, BoundsStep DEF AutoNext, StateTyped
<1>8. CASE CloseForeground(s)
  <2> DEFINE f == Head(s).f
  <2>1. /\ fgPc' = [x \in Foregrounds |-> IF x \in WaitersOf(f) THEN "woken"
                                          ELSE IF x = f THEN "idle" ELSE fgPc[x]]
        /\ waitsOn' = [x \in Foregrounds |-> IF x \in WaitersOf(f) THEN None ELSE waitsOn[x]]
        /\ UNCHANGED <<holder, fgDeferred, fgDeferredAuto>>
    BY <1>8 DEF CloseForeground
  <2> HIDE DEF f
  <2>2. ForegroundTyped'
    BY <2>1 DEF StateTyped, ForegroundTyped, FgPcOK
  <2> QED  BY <1>2, <1>8, <2>2, Untouched, BoundsStep DEF CloseForeground, StateTyped
<1>9. CASE RefreshSenderStats(s)
  <2>1. DerivedTypes'
    BY <1>9 DEF RefreshSenderStats, StateTyped, DerivedTypes, attachVars
  <2>2. <<Do("statsEnd")>> \o Tail(s) \in Calls
    BY <1>1, CallTypes, Concatenated
  <2>3. Goroutines(callers')
    BY <1>2, <1>9, <2>2, ContinueTyped DEF RefreshSenderStats
  <2> QED  BY <1>9, <2>1, <2>3, Untouched, BoundsStep DEF RefreshSenderStats, StateTyped
<1>10. CASE FinishSenderStats(s)
  <2>1. PICK ok \in BOOLEAN :
          /\ Fault \/ UNCHANGED boundVars
          /\ statsPending' = (statsPending \/ ~ok)
          /\ \/ callers' = (callers (-) Thread(s)) (+) Thread(Tail(s)) (+) Thread(<<Do("stats")>>)
             \/ Continue(s, <<Do("attach")>> \o Tail(s))
             \/ Continue(s, Tail(s))
    BY <1>10 DEF FinishSenderStats, Continue
  <2>2. DerivedTypes'
    BY <1>10, <2>1 DEF FinishSenderStats, StateTyped, DerivedTypes, attachVars
  <2>3. Goroutines((callers (-) Thread(s)) (+) Thread(Tail(s)) (+) Thread(<<Do("stats")>>))
    <3>1. Goroutines((callers (-) Thread(s)) (+) Thread(Tail(s)))
      BY <1>1, GoesOn
    <3> QED  BY <3>1, CallTypes, Added
  <2>4. <<Do("attach")>> \o Tail(s) \in Calls
    BY <1>1, CallTypes, Concatenated
  <2>5. Goroutines(callers')
    BY <1>2, <2>1, <2>3, <2>4, ContinueTyped
  <2> QED  BY <1>10, <2>1, <2>2, <2>5, Untouched, BoundsStep DEF FinishSenderStats, StateTyped
<1>11. CASE StartAttachmentIndex(s)
  <2>1. DerivedTypes'
    BY <1>11 DEF StartAttachmentIndex, StateTyped, DerivedTypes, statsVars
  <2>2. <<Do("scheduleNext")>> \o Tail(s) \in Calls
    BY <1>1, CallTypes, Concatenated
  <2>3. Goroutines(callers')
    BY <1>2, <1>11, <2>2, ContinueTyped DEF StartAttachmentIndex
  <2> QED  BY <1>11, <2>1, <2>3, Untouched, BoundsStep DEF StartAttachmentIndex, StateTyped
<1>12. CASE ScheduleRetry(s)
  <2>1. DerivedTypes'
    BY <1>12 DEF ScheduleRetry, StateTyped, DerivedTypes, statsVars
  <2> QED  BY <1>2, <1>12, <2>1, Untouched, BoundsStep DEF ScheduleRetry, StateTyped
<1> QED
  BY <1>3, <1>4, <1>5, <1>6, <1>7, <1>8, <1>9, <1>10, <1>11, <1>12 DEF MakeCall

\* At first there is at most the goroutine that indexes attachments.
LEMMA InitCallers == Init => IsABag(callers) /\ DOMAIN callers \subseteq {<<Do("attach")>>}
<1> SUFFICES ASSUME Init  PROVE IsABag(callers) /\ DOMAIN callers \subseteq {<<Do("attach")>>}
  OBVIOUS
<1>1. <<Do("attach")>> \in Calls /\ <<>> \in Calls
  BY CallTypes
<1>2. callers \in {Thread(<<Do("attach")>>), Thread(<<>>)}
  BY DEF Init, Thread
<1> QED  BY <1>1, <1>2, ThreadBag

LEMMA InitTyped == Init => TypeOK
<1> SUFFICES ASSUME Init  PROVE TypeOK
  OBVIOUS
<1>2. <<Do("attach")>> \in Calls /\ <<Do("attach")>> # <<>>
  BY CallTypes
<1>3. IsABag(callers) /\ DOMAIN callers \subseteq {<<Do("attach")>>}
  BY InitCallers
<1>4. Goroutines(callers)
  BY <1>2, <1>3 DEF Goroutines
<1>5. JobsTyped /\ AutoTyped
  BY DEF Init, JobsTyped, AutoTyped, Phases
<1>6. ForegroundTyped /\ DerivedTypes
  BY DEF Init, ForegroundTyped, FgPcOK, DerivedTypes
<1>7. BoundsTyped
  BY DEF Init, BoundsTyped
<1> QED  BY <1>5, <1>6, <1>7, <1>4, TypeParts DEF StateTyped

LEMMA NextTyped ==
    ASSUME TypeOK, [Next]_vars
    PROVE  TypeOK'
<1>1. StateTyped /\ Goroutines(callers)
  BY TypeParts
<1>2. SUFFICES StateTyped' /\ Goroutines(callers')
  BY DEF TypeOK, StateTyped, JobsTyped, AutoTyped, ForegroundTyped, DerivedTypes, BoundsTyped,
         FgPcOK, Goroutines, Calls
<1>3. CASE UNCHANGED vars
  BY <1>1, <1>3, Untouched, BoundsStep DEF vars, StateTyped
<1>4. CASE \E f \in Foregrounds : BeginForeground(f)
  BY <1>1, <1>4, ForegroundTypedStep
<1>5. CASE Environment /\ \A f \in Foregrounds : ~BeginForeground(f)
  BY <1>1, <1>5, EnvironmentTyped
<1>6. CASE Progress
  BY <1>1, <1>6, JobsTypedStep, PassTypedStep, ForegroundTypedStep, AttachmentTypedStep,
     CallsTypedStep DEF Progress
<1> QED  BY <1>3, <1>4, <1>5, <1>6 DEF Next

\* Every variable keeps its type; in particular what goroutines have left to do
\* names folders and accounts of the tenant.
THEOREM RunnerTypes == Spec => []TypeOK
<1>1. Init => TypeOK
  BY InitTyped
<1>2. TypeOK /\ [Next]_vars => TypeOK'
  BY NextTyped
<1> QED  BY <1>1, <1>2, PTL DEF Spec

-----------------------------------------------------------------------------
(* Nothing is orphaned *)

\* Jobs are added and what is added to pending has a job in its way, or a job
\* ends and takes what waited for it along.
PendingKept == Held \subseteq Held' /\ \A k \in pending' : k \in pending \/ Reserved(k)
PendingTaken == \E k \in Held : Held' = Held \ {k} /\ pending' = pending \ Waited(k)

\* Requests are deferred to a holder, and to an account-wide pass, that is there.
DeferStep ==
    \/ UNCHANGED <<holder, fgDeferred, fgDeferredAuto>>
    \/ holder' # None
    \/ fgDeferred' = {} /\ ~fgDeferredAuto'
AutoStep == UNCHANGED <<auto, autoDeferred>> \/ auto' # "off" \/ autoDeferred' = {}

ParkStep == (PendingKept \/ PendingTaken) /\ DeferStep /\ AutoStep

LEMMA HeldFacts ==
    ASSUME phase \in [Keys -> Phases]
    PROVE  /\ phase' = phase => Held' = Held
           /\ \A k \in Keys, ph \in Phases \ {"free"} :
                 phase' = [phase EXCEPT ![k] = ph] => Held' = Held \cup {k}
           /\ \A k \in Keys :
                 phase' = [phase EXCEPT ![k] = "free"] => Held' = Held \ {k}
           /\ \A k \in Held : Reserved(k)
<1>1. phase' = phase => Held' = Held
  BY DEF Held
<1>2. \A k \in Keys, ph \in Phases \ {"free"} :
         phase' = [phase EXCEPT ![k] = ph] => Held' = Held \cup {k}
  BY DEF Held
<1>3. \A k \in Keys : phase' = [phase EXCEPT ![k] = "free"] => Held' = Held \ {k}
  BY DEF Held
<1>4. \A k \in Keys : k \in Excluding(k)
  BY DEF Excluding, SameFolder
<1> QED  BY <1>1, <1>2, <1>3, <1>4 DEF Held, Reserved

LEMMA SamePark ==
    ASSUME UNCHANGED <<phase, pending, auto, autoDeferred, holder, fgDeferred, fgDeferredAuto>>
    PROVE  ParkStep
BY DEF ParkStep, PendingKept, DeferStep, AutoStep, Held

LEMMA AdmissionPark ==
    ASSUME TypeOK, NEW k \in Keys,
           QueueRequest(k) \/ \E started \in BOOLEAN : PriorityRequest(k, started)
    PROVE  ParkStep
<1>1. /\ phase' = phase \/ phase' = [phase EXCEPT ![k] = "reserved"]
      /\ pending' = pending \/ (pending' = pending \cup {k} /\ Reserved(k))
  BY DEF QueueRequest, PriorityRequest, Reserve
<1>2. phase \in [Keys -> Phases] /\ "reserved" \in Phases \ {"free"}
  BY DEF TypeOK, Phases
<1>3. PendingKept
  BY <1>1, <1>2, HeldFacts DEF PendingKept
<1>4. DeferStep
  BY DEF QueueRequest, PriorityRequest, DeferStep
<1>5. AutoStep
  BY DEF QueueRequest, PriorityRequest, AutoStep, autoVars
<1> QED  BY <1>3, <1>4, <1>5 DEF ParkStep

LEMMA ReservePark ==
    ASSUME TypeOK, NEW k \in Keys, NEW ph \in Phases \ {"free"}, Reserve(k, ph),
           UNCHANGED <<pending, fgVars>>, AutoStep
    PROVE  ParkStep
<1>1. PendingKept
  BY HeldFacts DEF Reserve, PendingKept, TypeOK
<1>2. DeferStep
  BY DEF DeferStep, fgVars
<1> QED  BY <1>1, <1>2 DEF ParkStep

\* What foreground preempts is held; its marks are left for its own holder.
LEMMA ForegroundPark ==
    ASSUME TypeOK, BarrierInv, NEW f \in Foregrounds,
           BeginForeground(f) \/ PollForeground(f) \/ HoldForeground(f) \/ FinishForeground(f)
    PROVE  ParkStep
<1>1. ASSUME Preempt, holder' = f  PROVE ParkStep
  <2>1. PendingKept
    BY <1>1, HeldFacts DEF Preempt, PendingKept, TypeOK, Held
  <2>2. DeferStep /\ AutoStep
    BY <1>1, NamesAssumption DEF Preempt, DeferStep, AutoStep
  <2> QED  BY <2>1, <2>2 DEF ParkStep
<1>2. CASE BeginForeground(f)
  BY <1>1, <1>2, SamePark DEF BeginForeground, jobVars, autoVars
<1>3. CASE PollForeground(f)
  <2>1. holder = f
    BY <1>3 DEF PollForeground, BarrierInv, BarrierOwner, Barrier
  <2> QED  BY <1>1, <1>3, <2>1 DEF PollForeground
<1>4. CASE HoldForeground(f)
  BY <1>4, SamePark DEF HoldForeground, jobVars, autoVars
<1>5. CASE FinishForeground(f)
  BY <1>5 DEF FinishForeground, jobVars, autoVars, ParkStep, PendingKept, DeferStep, AutoStep, Held
<1> QED  BY <1>2, <1>3, <1>4, <1>5

LEMMA EnvironmentPark ==
    ASSUME TypeOK, BarrierInv, Environment
    PROVE  ParkStep
<1>1. ASSUME NEW k \in AccountKeys, QueueAccountMailboxes(k)  PROVE ParkStep
  <2>1. CASE QueueRequest(k)
    BY <2>1, AdmissionPark, KeyFacts
  <2>2. CASE UNCHANGED <<phase, pending, autoVars, fgVars>>
    BY <2>2, SamePark DEF autoVars, fgVars
  <2> QED  BY <1>1, <2>1, <2>2 DEF QueueAccountMailboxes
<1>2. ASSUME NEW k \in GlobalKeys, StartPriorityMailboxes(k)  PROVE ParkStep
  BY <1>2, AdmissionPark, KeyFacts DEF StartPriorityMailboxes
<1>3. ASSUME NEW k \in Keys, StartMailboxes(k)  PROVE ParkStep
  BY <1>3, ReservePark DEF StartMailboxes, Phases, AutoStep, autoVars
<1>4. ASSUME NEW k \in AccountKeys, NEW ph \in {"maintaining", "rebuilding"}, StartMaintenance(k, ph)
      PROVE  ParkStep
  BY <1>4, ReservePark, KeyFacts DEF StartMaintenance, Phases, AutoStep, autoVars
<1>5. CASE Start
  <2>1. UNCHANGED <<phase, pending, holder, fgDeferred, fgDeferredAuto>> /\ auto' = "planning"
    BY <1>5 DEF Start, StartPass, jobVars, fgVars
  <2> QED  BY <2>1 DEF ParkStep, PendingKept, DeferStep, AutoStep, Held
<1>6. ASSUME NEW f \in Foregrounds, GiveUpForeground(f)  PROVE ParkStep
  BY <1>6, SamePark DEF GiveUpForeground, jobVars, autoVars
<1> QED
  BY <1>1, <1>2, <1>3, <1>4, <1>5, <1>6, ForegroundPark DEF Environment

LEMMA JobsPark ==
    ASSUME TypeOK, NEW k \in Keys,
           \/ Register(k) \/ BeginPass(k) \/ CompletePass(k) \/ YieldPass(k) \/ PausePass(k)
           \/ Release(k) \/ \E ok \in BOOLEAN : FinishMaintenance(k, ok)
    PROVE  ParkStep
<1>1. phase \in [Keys -> Phases]
  BY DEF TypeOK
<1>2. CASE Register(k) \/ BeginPass(k) \/ CompletePass(k) \/ YieldPass(k) \/ PausePass(k)
  <2>1. /\ \E ph \in Phases \ {"free"} : phase' = [phase EXCEPT ![k] = ph]
        /\ phase[k] # "free"
        /\ pending' = pending \/ pending' = pending \cup {k}
        /\ UNCHANGED <<autoVars, fgVars>>
    BY <1>2 DEF Register, BeginPass, CompletePass, YieldPass, PausePass, Phases
  <2>2. k \in Held
    BY <2>1 DEF Held
  <2>3. PendingKept
    BY <1>1, <2>1, <2>2, HeldFacts DEF PendingKept
  <2> QED  BY <2>1, <2>3 DEF ParkStep, DeferStep, AutoStep, autoVars, fgVars
<1>3. CASE Release(k) \/ \E ok \in BOOLEAN : FinishMaintenance(k, ok)
  <2>1. /\ Free(k) /\ phase[k] # "free"
        /\ UNCHANGED <<auto, autoDeferred, holder, fgDeferred, fgDeferredAuto>>
    BY <1>3 DEF Release, FinishMaintenance, autoVars, fgVars
  <2>2. PendingTaken
    BY <1>1, <2>1, HeldFacts DEF Free, PendingTaken, Held
  <2> QED  BY <2>1, <2>2 DEF ParkStep, DeferStep, AutoStep
<1> QED  BY <1>2, <1>3

LEMMA CallsPark ==
    ASSUME TypeOK, NEW s \in DOMAIN callers, MakeCall(s)
    PROVE  ParkStep
<1>1. ASSUME NEW k \in AccountKeys, QueueCall(s, k)  PROVE ParkStep
  <2>1. CASE QueueRequest(k)
    BY <2>1, AdmissionPark, KeyFacts
  <2>2. CASE QueueTimeout({k})
    BY <2>2, SamePark DEF QueueTimeout, autoVars, fgVars
  <2> QED  BY <1>1, <2>1, <2>2 DEF QueueCall
<1>2. ASSUME NEW k \in GlobalKeys, PriorityCall(s, k)  PROVE ParkStep
  <2>1. CASE \E started \in BOOLEAN : PriorityRequest(k, started)
    BY <2>1, AdmissionPark, KeyFacts
  <2>2. CASE QueueTimeout(SameFolder(k))
    BY <2>2, SamePark DEF QueueTimeout, autoVars, fgVars
  <2> QED  BY <1>2, <2>1, <2>2 DEF PriorityCall
<1>3. CASE StartCall(s)
  <2>1. /\ UNCHANGED <<phase, pending, holder, fgDeferred, fgDeferredAuto>>
        /\ auto' = "planning" \/ UNCHANGED <<auto, autoDeferred>>
    BY <1>3 DEF StartCall, StartPass, jobVars, autoVars, fgVars
  <2> QED  BY <2>1 DEF ParkStep, PendingKept, DeferStep, AutoStep, Held
<1>4. CASE AutoNext(s)
  <2>1. UNCHANGED <<phase, pending, holder, fgDeferred, fgDeferredAuto>> /\ auto' = "running"
    BY <1>4 DEF AutoNext, jobVars, fgVars
  <2> QED  BY <2>1 DEF ParkStep, PendingKept, DeferStep, AutoStep, Held
<1>5. CASE Skipped(s) \/ CloseForeground(s) \/ RefreshSenderStats(s) \/ FinishSenderStats(s)
           \/ StartAttachmentIndex(s) \/ ScheduleRetry(s)
  BY <1>5, SamePark DEF Skipped, CloseForeground, RefreshSenderStats, FinishSenderStats,
     StartAttachmentIndex, ScheduleRetry, jobVars, autoVars, fgVars
<1> QED  BY <1>1, <1>2, <1>3, <1>4, <1>5 DEF MakeCall

LEMMA NextPark ==
    ASSUME TypeOK, BarrierInv, [Next]_vars
    PROVE  ParkStep
<1>1. CASE UNCHANGED vars
  BY <1>1, SamePark DEF vars, jobVars, autoVars, fgVars
<1>2. CASE PlanPass \/ FinishPass
  <2>1. /\ UNCHANGED <<phase, pending, holder, fgDeferred, fgDeferredAuto>>
        /\ auto' = "running" \/ autoDeferred' = {}
    BY <1>2 DEF PlanPass, FinishPass, jobVars, fgVars
  <2> QED  BY <2>1 DEF ParkStep, PendingKept, DeferStep, AutoStep, Held
<1>3. ASSUME NEW m \in Mailboxes, PassMailbox(m)  PROVE ParkStep
  <2>1. <<AllAccounts, m>> \in Keys
    BY DEF Keys, GlobalKeys
  <2>2. /\ phase' = phase \/ Reserve(<<AllAccounts, m>>, "reserved")
        /\ AutoStep
        /\ UNCHANGED <<pending, fgVars>>
    BY <1>3 DEF PassMailbox, AutoStep
  <2>3. CASE Reserve(<<AllAccounts, m>>, "reserved")
    BY <2>1, <2>2, <2>3, ReservePark DEF Phases
  <2>4. CASE phase' = phase
    BY <2>2, <2>4 DEF ParkStep, PendingKept, DeferStep, Held, fgVars
  <2> QED  BY <2>2, <2>3, <2>4
<1>4. CASE FinishAttachmentIndex \/ RetryTimer
  BY <1>4, SamePark DEF FinishAttachmentIndex, RetryTimer, jobVars, autoVars, fgVars
<1>5. CASE Environment
  BY <1>5, EnvironmentPark
<1>6. CASE Progress
  BY <1>2, <1>3, <1>4, <1>6, JobsPark, ForegroundPark, CallsPark DEF Progress
<1> QED  BY <1>1, <1>5, <1>6 DEF Next

ParkInv == TypeOK /\ BarrierInv /\ NothingOrphaned

LEMMA NextParkInv ==
    ASSUME ParkInv, [Next]_vars
    PROVE  ParkInv'
<1>1. TypeOK' /\ BarrierInv' /\ ParkStep
  BY NextTyped, NextBarrierStep, NextPark DEF ParkInv
<1>2. \A k \in pending' : Reserved(k)'
  <2>1. CASE PendingKept
    BY <2>1 DEF PendingKept, ParkInv, NothingOrphaned, Reserved
  <2>2. CASE PendingTaken
    <3>1. PICK k \in Held : Held' = Held \ {k} /\ pending' = pending \ Waited(k)
      BY <2>2 DEF PendingTaken
    <3>2. pending \subseteq Keys /\ k \in Keys
      BY DEF ParkInv, TypeOK, Held
    <3>3. SUFFICES ASSUME NEW h \in pending, h \notin Waited(k)
                   PROVE  Excluding(h) \cap Held' # {}
      BY <3>1 DEF Reserved
    <3>4. k \notin Excluding(h)
      BY <3>2, <3>3, WaitedComplete
    <3> QED  BY <3>1, <3>4 DEF ParkInv, NothingOrphaned, Reserved
  <2> QED  BY <1>1, <2>1, <2>2 DEF ParkStep
<1>3. fgDeferred' # {} \/ fgDeferredAuto' => holder' # None
  BY <1>1 DEF ParkStep, DeferStep, ParkInv, NothingOrphaned
<1>4. autoDeferred' # {} => auto' # "off"
  BY <1>1 DEF ParkStep, AutoStep, ParkInv, NothingOrphaned
<1> QED  BY <1>1, <1>2, <1>3, <1>4 DEF ParkInv, NothingOrphaned

LEMMA InitParkInv == Init => ParkInv
BY InitTyped DEF Init, ParkInv, BarrierInv, FgPcOK, BarrierOwner, Barrier, NothingOrphaned

\* Whatever is pending is in the way of a job that takes it along when it ends,
\* and whatever is deferred has a holder or a pass that replays it.
THEOREM NothingIsOrphaned == Spec => []NothingOrphaned
<1>1. Init => ParkInv
  BY InitParkInv
<1>2. ParkInv /\ [Next]_vars => ParkInv'
  BY NextParkInv
<1>3. ParkInv => NothingOrphaned
  BY DEF ParkInv
<1> QED  BY <1>1, <1>2, <1>3, PTL DEF Spec

-----------------------------------------------------------------------------
(* No request is lost *)

\* A job that has begun its pass is syncing; one that was cancelled will be
\* repeated.
ServingOK   == \A h \in Keys : serving[h] # {} => phase[h] = "syncing"
CancelledOK == \A h \in cancelled : h \in pending /\ phase[h] \in {"waiting", "syncing", "closing"}

WorkInv == ParkInv /\ ReservationExclusion /\ ServingOK /\ CancelledOK

\* The three places a request is remembered in.
Parked(k)  == {k, Global(k)} \cap (pending \cup fgDeferred) # {} \/ k \in autoDeferred
Called(k)  == ToCall(Queue(k)) \/ ToCall(Priority(Global(k)))
Working(k) ==
    \E h \in {k, Global(k)} :
        \/ phase[h] = "reserved"
        \/ phase[h] = "waiting" /\ h \notin cancelled
        \/ k \in serving[h]

LEMMA Places ==
    ASSUME NEW k \in AccountKeys
    PROVE  /\ Remembered(k) => Parked(k) \/ Called(k) \/ Working(k)
           /\ NothingOrphaned' /\ (Parked(k)' \/ Called(k)' \/ Working(k)') => Remembered(k)'
<1>1. Remembered(k) => Parked(k) \/ Called(k) \/ Working(k)
  BY DEF Remembered, Parked, Called, Working
<1>2. ASSUME NothingOrphaned', Parked(k)'  PROVE Remembered(k)'
  BY <1>2 DEF NothingOrphaned, Parked, Remembered
<1>3. Called(k)' \/ Working(k)' => Remembered(k)'
  BY DEF Remembered, Called, Working
<1> QED  BY <1>1, <1>2, <1>3

\* What an ordinary step leaves of each.
ParkedKept == pending \subseteq pending' /\ fgDeferred \subseteq fgDeferred'
              /\ autoDeferred \subseteq autoDeferred'
CallsKept  == \A c \in MailCall : ToCall(c) => ToCall(c)'
JobsKept(k) ==
    \A h \in Keys :
        /\ phase[h] = "reserved" => phase'[h] = "reserved" \/ (phase'[h] = "waiting" /\ h \notin cancelled')
        /\ phase[h] = "waiting" /\ h \notin cancelled => phase'[h] = "waiting" /\ h \notin cancelled'
        /\ k \in serving[h] => k \in serving'[h]

LEMMA PlacesKept ==
    ASSUME NEW k \in AccountKeys
    PROVE  /\ ParkedKept /\ Parked(k) => Parked(k)'
           /\ CallsKept /\ Called(k) => Called(k)'
           /\ JobsKept(k) /\ Working(k) => Working(k)'
<1>1. k \in Keys /\ Global(k) \in Keys /\ Queue(k) \in MailCall /\ Priority(Global(k)) \in MailCall
  BY KeyFacts DEF MailCall
<1>2. ParkedKept /\ Parked(k) => Parked(k)'
  BY DEF ParkedKept, Parked
<1>3. CallsKept /\ Called(k) => Called(k)'
  BY <1>1 DEF CallsKept, Called
<1>4. JobsKept(k) /\ Working(k) => Working(k)'
  BY <1>1 DEF JobsKept, Working
<1> QED  BY <1>2, <1>3, <1>4

Retained(k) == Remembered(k) => Remembered(k)'

LEMMA AllKept ==
    ASSUME NothingOrphaned', NEW k \in AccountKeys, ParkedKept, CallsKept, JobsKept(k)
    PROVE  Retained(k)
BY Places, PlacesKept DEF Retained

LEMMA SameJobs ==
    ASSUME UNCHANGED jobVars
    PROVE  \A k \in AccountKeys : JobsKept(k)
BY DEF JobsKept, jobVars

LEMMA SameCalls ==
    ASSUME callers' = callers
    PROVE  CallsKept
BY DEF CallsKept, ToCall

LEMMA SpawnKeeps ==
    ASSUME Goroutines(callers), NEW t \in Calls, Spawn(t)
    PROVE  CallsKept /\ \A i \in DOMAIN t : ToCall(t[i])'
BY Added DEF Spawn, Has, ToCall, CallsKept

\* A goroutine that makes its first call keeps the others.
Follows(s, t) ==
    /\ t \in Calls
    /\ \A i \in DOMAIN s : s[i] \in MailCall => s[i] = Head(s) \/ \E j \in DOMAIN t : t[j] = s[i]

LEMMA ContinueKeeps ==
    ASSUME Goroutines(callers), NEW s \in DOMAIN callers, NEW t, Follows(s, t), Continue(s, t)
    PROVE  \A c \in MailCall : ToCall(c) => c = Head(s) \/ ToCall(c)'
BY GoesOn DEF Continue, Has, ToCall, Follows

LEMMA WaysOn ==
    ASSUME NEW s \in Calls, s # <<>>
    PROVE  /\ Follows(s, Tail(s)) /\ Follows(s, SkipIdle(Tail(s)))
           /\ \A c : <<c>> \in Calls => Follows(s, <<c>> \o Tail(s))
<1>1. /\ Tail(s) \in Calls
      /\ \A i \in DOMAIN s : s[i] = Head(s) \/ \E j \in DOMAIN Tail(s) : Tail(s)[j] = s[i]
  BY HeadAndTail
<1>2. Follows(s, Tail(s))
  BY <1>1 DEF Follows
<1>3. Follows(s, SkipIdle(Tail(s)))
  BY <1>1, Skipping DEF Follows
<1>4. ASSUME NEW c, <<c>> \in Calls  PROVE Follows(s, <<c>> \o Tail(s))
  <2>1. /\ <<c>> \o Tail(s) \in Calls
        /\ \A i \in DOMAIN Tail(s) : \E j \in DOMAIN (<<c>> \o Tail(s)) :
              (<<c>> \o Tail(s))[j] = Tail(s)[i]
    BY <1>1, <1>4, Concatenated
  <2> QED  BY <1>1, <2>1 DEF Follows
<1> QED  BY <1>2, <1>3, <1>4

\* The admissions remember what they are asked for.
LEMMA QueueRemembers ==
    ASSUME TypeOK, NEW k \in AccountKeys, QueueRequest(k)
    PROVE  Parked(k)' \/ Working(k)'
BY KeyFacts DEF QueueRequest, Reserve, Parked, Working, TypeOK

LEMMA PriorityRemembers ==
    ASSUME TypeOK, NEW g \in GlobalKeys, NEW started, PriorityRequest(g, started),
           NEW k \in AccountKeys, Global(k) = g
    PROVE  Parked(k)' \/ Working(k)'
BY KeyFacts DEF PriorityRequest, Reserve, Parked, Working, TypeOK

\* They disturb nothing else: a job they admit was not there before.
LEMMA AdmissionKeeps ==
    ASSUME TypeOK, NEW h \in Keys,
           QueueRequest(h) \/ \E started \in BOOLEAN : PriorityRequest(h, started)
    PROVE  /\ ParkedKept
           /\ \A k \in AccountKeys : (\A g \in Keys : k \in serving[g] => k \in serving'[g]) => JobsKept(k)
<1>1. ParkedKept
  BY DEF QueueRequest, PriorityRequest, ParkedKept, autoVars
<1>2. /\ cancelled' = cancelled
      /\ phase' = phase \/ (phase' = [phase EXCEPT ![h] = "reserved"] /\ ~Reserved(h))
  BY DEF QueueRequest, PriorityRequest, Reserve
<1>3. phase \in [Keys -> Phases]
  BY DEF TypeOK
<1>4. ~Reserved(h) => phase[h] = "free"
  BY <1>3, HeldFacts DEF Held
<1> QED  BY <1>1, <1>2, <1>3, <1>4 DEF JobsKept

LEMMA ReserveKeeps ==
    ASSUME TypeOK, NEW h \in Keys, NEW ph, ~Reserved(h), Reserve(h, ph), UNCHANGED <<cancelled, serving>>
    PROVE  \A k \in AccountKeys : JobsKept(k)
<1>1. phase \in [Keys -> Phases]
  BY DEF TypeOK
<1>2. phase[h] = "free"
  BY <1>1, HeldFacts DEF Held
<1> QED  BY <1>1, <1>2 DEF Reserve, JobsKept

-----------------------------------------------------------------------------
(* Jobs that are cancelled or have begun *)

JobMarks == ServingOK /\ CancelledOK

\* Jobs stay as they are, or one is admitted.
LEMMA MarksKept ==
    ASSUME WorkInv, UNCHANGED cancelled, pending \subseteq pending',
           \A h \in Keys : serving'[h] \subseteq serving[h],
           \/ UNCHANGED phase
           \/ \E k \in Keys : \E ph : ~Reserved(k) /\ phase' = [phase EXCEPT ![k] = ph]
    PROVE  JobMarks'
<1>1. phase \in [Keys -> Phases] /\ cancelled \subseteq Keys
  BY DEF WorkInv, ParkInv, TypeOK
<1>2. CASE UNCHANGED phase
  BY <1>1, <1>2 DEF WorkInv, ServingOK, CancelledOK, JobMarks
<1>3. ASSUME NEW k \in Keys, NEW ph, ~Reserved(k), phase' = [phase EXCEPT ![k] = ph]
      PROVE  JobMarks'
  <2>1. phase[k] = "free"
    BY <1>1, <1>3, HeldFacts DEF Held
  <2>2. serving[k] = {} /\ k \notin cancelled
    BY <2>1 DEF WorkInv, ServingOK, CancelledOK
  <2> QED  BY <1>1, <1>3, <2>2 DEF WorkInv, ServingOK, CancelledOK, JobMarks
<1> QED  BY <1>2, <1>3

LEMMA AdmissionMarks ==
    ASSUME WorkInv, NEW k \in Keys,
           QueueRequest(k) \/ \E started \in BOOLEAN : PriorityRequest(k, started),
           \A h \in Keys : serving'[h] \subseteq serving[h]
    PROVE  JobMarks'
<1>1. /\ UNCHANGED cancelled /\ pending \subseteq pending'
      /\ UNCHANGED phase \/ (~Reserved(k) /\ phase' = [phase EXCEPT ![k] = "reserved"])
  BY DEF QueueRequest, PriorityRequest, Reserve
<1> QED  BY <1>1, MarksKept

LEMMA PreemptMarks ==
    ASSUME WorkInv, Preempt
    PROVE  JobMarks'
BY DEF WorkInv, ServingOK, CancelledOK, JobMarks, Preempt

LEMMA EnvironmentMarks ==
    ASSUME WorkInv, Environment
    PROVE  JobMarks'
<1>1. ASSUME NEW k \in AccountKeys, QueueAccountMailboxes(k)  PROVE JobMarks'
  <2>1. CASE Owe(k) /\ QueueRequest(k)
    <3>1. \A h \in Keys : serving'[h] \subseteq serving[h]
      BY <2>1 DEF Owe
    <3> QED  BY <2>1, <3>1, AdmissionMarks, KeyFacts
  <2>2. CASE UNCHANGED <<phase, cancelled, pending, serving>>
    BY <2>2, MarksKept
  <2> QED  BY <1>1, <2>1, <2>2 DEF QueueAccountMailboxes
<1>2. ASSUME NEW k \in GlobalKeys, StartPriorityMailboxes(k)  PROVE JobMarks'
  <2>1. PICK started \in BOOLEAN : PriorityRequest(k, started)
    BY <1>2 DEF StartPriorityMailboxes
  <2>2. serving' = serving
    BY <2>1 DEF PriorityRequest
  <2> QED  BY <2>1, <2>2, AdmissionMarks, KeyFacts
<1>3. ASSUME NEW k \in Keys, StartMailboxes(k)  PROVE JobMarks'
  BY <1>3, MarksKept DEF StartMailboxes, Reserve
<1>4. ASSUME NEW k \in AccountKeys, NEW ph \in {"maintaining", "rebuilding"}, StartMaintenance(k, ph)
      PROVE  JobMarks'
  BY <1>4, MarksKept, KeyFacts DEF StartMaintenance, Reserve
<1>5. CASE Start
  BY <1>5, MarksKept DEF Start, StartPass, jobVars
<1>6. ASSUME NEW f \in Foregrounds, GiveUpForeground(f)  PROVE JobMarks'
  BY <1>6, MarksKept DEF GiveUpForeground, jobVars
<1>7. ASSUME NEW f \in Foregrounds, BeginForeground(f)  PROVE JobMarks'
  BY <1>7, MarksKept, PreemptMarks DEF BeginForeground, jobVars
<1> QED
  BY <1>1, <1>2, <1>3, <1>4, <1>5, <1>6, <1>7 DEF Environment

\* A job that ends takes its own mark along and no other job's: the jobs whose
\* requests it takes are not there.
LEMMA FreeMarks ==
    ASSUME WorkInv, NEW k \in Keys, phase[k] \notin {"free", "syncing"}, Free(k), UNCHANGED serving
    PROVE  JobMarks'
<1>1. phase \in [Keys -> Phases] /\ cancelled \subseteq Keys /\ pending \subseteq Keys
  BY DEF WorkInv, ParkInv, TypeOK
<1>2. ASSUME NEW h \in cancelled, h # k  PROVE h \notin Waited(k)
  <2>1. h \in Held /\ k \in Held
    BY <1>1, <1>2 DEF WorkInv, CancelledOK, Held
  <2>2. SUFFICES ASSUME h \in Waited(k)  PROVE FALSE
    OBVIOUS
  <2>3. h[2] = k[2] /\ (h \in GlobalKeys \/ k \in GlobalKeys)
    BY <1>2, <2>2 DEF Waited, SameFolder, Global, GlobalKeys, Keys, AccountKeys
  <2> QED  BY <1>2, <2>1, <2>3 DEF WorkInv, ReservationExclusion
<1>3. CancelledOK'
  BY <1>1, <1>2 DEF Free, WorkInv, CancelledOK
<1>4. ServingOK'
  BY <1>1 DEF Free, WorkInv, ServingOK
<1> QED  BY <1>3, <1>4 DEF JobMarks

LEMMA JobsMarks ==
    ASSUME WorkInv, NEW k \in Keys,
           \/ Register(k) \/ BeginPass(k) \/ CompletePass(k) \/ YieldPass(k) \/ PausePass(k)
           \/ Release(k) \/ \E ok \in BOOLEAN : FinishMaintenance(k, ok)
    PROVE  JobMarks'
<1>1. phase \in [Keys -> Phases] /\ serving \in [Keys -> SUBSET AccountKeys]
  BY DEF WorkInv, ParkInv, TypeOK
<1>2. CASE Register(k)
  BY <1>1, <1>2 DEF Register, WorkInv, ServingOK, CancelledOK, JobMarks
<1>3. CASE BeginPass(k)
  <2>1. CASE k \in cancelled
    <3>1. /\ phase[k] = "waiting" /\ phase' = [phase EXCEPT ![k] = "closing"]
          /\ UNCHANGED <<serving, cancelled, pending>>
      BY <1>3, <2>1 DEF BeginPass
    <3>2. serving[k] = {}
      BY <3>1 DEF WorkInv, ServingOK
    <3> QED  BY <1>1, <3>1, <3>2 DEF WorkInv, ServingOK, CancelledOK, JobMarks
  <2>2. CASE k \notin cancelled
    <3>1. PICK S : serving' = [serving EXCEPT ![k] = S]
      BY <1>3, <2>2 DEF BeginPass
    <3>2. phase' = [phase EXCEPT ![k] = "syncing"] /\ UNCHANGED <<cancelled, pending>>
      BY <1>3, <2>2 DEF BeginPass
    <3> QED  BY <1>1, <3>1, <3>2 DEF WorkInv, ServingOK, CancelledOK, JobMarks
  <2> QED  BY <2>1, <2>2
<1>4. CASE CompletePass(k) \/ YieldPass(k) \/ PausePass(k)
  <2>1. /\ phase[k] = "syncing" /\ phase' = [phase EXCEPT ![k] = "closing"]
        /\ serving' = [serving EXCEPT ![k] = {}] /\ UNCHANGED cancelled /\ pending \subseteq pending'
    BY <1>4 DEF CompletePass, YieldPass, PausePass
  <2> QED  BY <1>1, <2>1 DEF WorkInv, ServingOK, CancelledOK, JobMarks
<1>5. CASE Release(k)
  BY <1>5, FreeMarks DEF Release
<1>6. ASSUME NEW ok \in BOOLEAN, FinishMaintenance(k, ok)  PROVE JobMarks'
  BY <1>6, FreeMarks DEF FinishMaintenance
<1> QED  BY <1>2, <1>3, <1>4, <1>5, <1>6

LEMMA CallsMarks ==
    ASSUME WorkInv, NEW s, MakeCall(s)
    PROVE  JobMarks'
<1>1. ASSUME NEW k \in AccountKeys, QueueCall(s, k)  PROVE JobMarks'
  BY <1>1, AdmissionMarks, MarksKept, KeyFacts DEF QueueCall, QueueTimeout
<1>2. ASSUME NEW k \in GlobalKeys, PriorityCall(s, k)  PROVE JobMarks'
  <2>1. CASE QueueTimeout(SameFolder(k))
    BY <2>1, MarksKept DEF QueueTimeout
  <2>2. ASSUME NEW started \in BOOLEAN, PriorityRequest(k, started)  PROVE JobMarks'
    <3>1. serving' = serving
      BY <2>2 DEF PriorityRequest
    <3> QED  BY <2>2, <3>1, AdmissionMarks, KeyFacts
  <2> QED  BY <1>2, <2>1, <2>2 DEF PriorityCall
<1>3. CASE UNCHANGED jobVars
  BY <1>3, MarksKept DEF jobVars
<1>4. \/ StartCall(s) \/ Skipped(s) \/ AutoNext(s) \/ CloseForeground(s) \/ RefreshSenderStats(s)
      \/ FinishSenderStats(s) \/ StartAttachmentIndex(s) \/ ScheduleRetry(s)
      => UNCHANGED jobVars
  BY DEF StartCall, StartPass, Skipped, AutoNext, CloseForeground, RefreshSenderStats,
         FinishSenderStats, StartAttachmentIndex, ScheduleRetry
<1> QED  BY <1>1, <1>2, <1>3, <1>4 DEF MakeCall

LEMMA NextWorkInv ==
    ASSUME WorkInv, [Next]_vars
    PROVE  WorkInv'
<1>1. ParkInv' /\ ReservationExclusion'
  BY NextParkInv, NextFolderInv DEF WorkInv, FolderInv, ParkInv, TypeOK, PhaseOK
<1>2. ASSUME UNCHANGED jobVars  PROVE JobMarks'
  BY <1>2, MarksKept DEF jobVars
<1>3. ASSUME NEW f \in Foregrounds,
             BeginForeground(f) \/ PollForeground(f) \/ HoldForeground(f) \/ FinishForeground(f)
      PROVE  JobMarks'
  BY <1>2, <1>3, PreemptMarks DEF BeginForeground, PollForeground, HoldForeground, FinishForeground
<1>4. ASSUME NEW m \in Mailboxes, PassMailbox(m)  PROVE JobMarks'
  <2>1. <<AllAccounts, m>> \in Keys
    BY DEF Keys, GlobalKeys
  <2> QED  BY <1>4, <2>1, MarksKept DEF PassMailbox, Reserve
<1>5. PlanPass \/ FinishPass \/ FinishAttachmentIndex \/ RetryTimer => UNCHANGED jobVars
  BY DEF PlanPass, FinishPass, FinishAttachmentIndex, RetryTimer
<1>6. JobMarks'
  BY <1>2, <1>3, <1>4, <1>5, EnvironmentMarks, JobsMarks, CallsMarks DEF Next, Progress, vars
<1> QED  BY <1>1, <1>6 DEF WorkInv, JobMarks

-----------------------------------------------------------------------------
(* Every step keeps what is owed in mind *)

RequestInv == WorkInv /\ NoLostRequest

\* An ordinary step: nothing new is owed and nothing is forgotten.
LEMMA OrdinaryStep ==
    ASSUME RequestInv, NothingOrphaned', ParkedKept, CallsKept,
           \A k \in AccountKeys : JobsKept(k),
           \A k \in AccountKeys : owed'[k] = "yes" => owed[k] = "yes"
    PROVE  NoLostRequest'
BY AllKept DEF RequestInv, NoLostRequest, Retained

LEMMA SameParked ==
    ASSUME UNCHANGED <<pending, fgDeferred, autoDeferred>>
    PROVE  ParkedKept
BY DEF ParkedKept

LEMMA EnvironmentKeeps ==
    ASSUME RequestInv, NothingOrphaned', Environment, \A f \in Foregrounds : ~BeginForeground(f)
    PROVE  NoLostRequest'
<1>1. TypeOK /\ Goroutines(callers)
  BY TypeParts DEF RequestInv, WorkInv, ParkInv
<1>2. ASSUME NEW k \in AccountKeys, QueueAccountMailboxes(k)  PROVE NoLostRequest'
  <2>1. CallsKept
    BY <1>2, SameCalls DEF QueueAccountMailboxes
  <2>2. owed \in [AccountKeys -> {"no", "yes", "dropped"}] /\ serving \in [Keys -> SUBSET AccountKeys]
    BY <1>1 DEF TypeOK
  <2>3. CASE Owe(k) /\ QueueRequest(k)
    <3>1. Remembered(k)'
      BY <1>1, <2>3, QueueRemembers, Places
    <3>2. ASSUME NEW h \in AccountKeys, h # k, owed'[h] = "yes"  PROVE Remembered(h)'
      <4>1. owed[h] = "yes" /\ \A g \in Keys : h \in serving[g] => h \in serving'[g]
        BY <2>2, <2>3, <3>2 DEF Owe
      <4>2. ParkedKept /\ JobsKept(h)
        BY <1>1, <2>3, <4>1, AdmissionKeeps, KeyFacts
      <4> QED  BY <2>1, <4>1, <4>2, AllKept DEF RequestInv, NoLostRequest, Retained
    <3> QED  BY <3>1, <3>2 DEF NoLostRequest
  <2>4. CASE /\ owed' = [owed EXCEPT ![k] = IF @ = "yes" THEN @ ELSE "dropped"]
             /\ UNCHANGED <<phase, cancelled, pending, serving, autoVars, fgVars>>
    <3>1. \A h \in AccountKeys : owed'[h] = "yes" => owed[h] = "yes"
      BY <2>2, <2>4
    <3>2. ParkedKept /\ \A h \in AccountKeys : JobsKept(h)
      BY <2>4, SameParked DEF autoVars, fgVars, JobsKept
    <3> QED  BY <2>1, <3>1, <3>2, OrdinaryStep
  <2> QED  BY <1>2, <2>3, <2>4 DEF QueueAccountMailboxes
<1>3. ASSUME NEW k \in GlobalKeys, StartPriorityMailboxes(k)  PROVE NoLostRequest'
  <2>1. PICK started \in BOOLEAN : PriorityRequest(k, started)
    BY <1>3 DEF StartPriorityMailboxes
  <2>2. serving' = serving /\ owed' = owed
    BY <2>1 DEF PriorityRequest
  <2>3. ParkedKept /\ \A h \in AccountKeys : JobsKept(h)
    BY <1>1, <2>1, <2>2, AdmissionKeeps, KeyFacts
  <2>4. CallsKept
    BY <1>3, SameCalls DEF StartPriorityMailboxes
  <2> QED  BY <2>2, <2>3, <2>4, OrdinaryStep
<1>4. ASSUME NEW k \in Keys, NEW ph, ~Reserved(k), Reserve(k, ph),
             UNCHANGED <<cancelled, pending, serving, owed, autoVars, fgVars, callers>>
      PROVE  NoLostRequest'
  <2>1. ParkedKept /\ CallsKept /\ owed' = owed
    BY <1>4, SameParked, SameCalls DEF autoVars, fgVars
  <2> QED  BY <1>1, <1>4, <2>1, ReserveKeeps, OrdinaryStep
<1>5. ASSUME NEW k \in Keys, StartMailboxes(k)  PROVE NoLostRequest'
  BY <1>4, <1>5 DEF StartMailboxes
<1>6. ASSUME NEW k \in AccountKeys, NEW ph \in {"maintaining", "rebuilding"}, StartMaintenance(k, ph)
      PROVE  NoLostRequest'
  BY <1>4, <1>6, KeyFacts DEF StartMaintenance
<1>7. ASSUME UNCHANGED <<jobVars, fgDeferred, autoDeferred, callers>>
      PROVE  NoLostRequest'
  BY <1>7, SameParked, SameCalls, SameJobs, OrdinaryStep DEF jobVars
<1>8. Start => UNCHANGED <<jobVars, fgDeferred, autoDeferred, callers>>
  BY DEF Start, StartPass, autoVars, fgVars
<1>9. \A f \in Foregrounds : GiveUpForeground(f) => UNCHANGED <<jobVars, fgDeferred, autoDeferred, callers>>
  BY DEF GiveUpForeground, autoVars
<1> QED
  BY <1>2, <1>3, <1>5, <1>6, <1>7, <1>8, <1>9 DEF Environment

\* A pass that begins has met what was owed; one that stops early is repeated.
LEMMA JobsKeep ==
    ASSUME RequestInv, NothingOrphaned', NEW h \in Keys,
           Register(h) \/ BeginPass(h) \/ CompletePass(h) \/ YieldPass(h) \/ PausePass(h)
    PROVE  NoLostRequest'
<1>1. /\ phase \in [Keys -> Phases] /\ owed \in [AccountKeys -> {"no", "yes", "dropped"}]
      /\ serving \in [Keys -> SUBSET AccountKeys] /\ pending \subseteq Keys
  BY DEF RequestInv, WorkInv, ParkInv, TypeOK
<1>2. /\ \A g \in Keys : g # h => phase'[g] = phase[g] /\ serving'[g] = serving[g]
      /\ UNCHANGED <<cancelled, callers, fgDeferred, autoDeferred>> /\ pending \subseteq pending'
  BY <1>1 DEF Register, BeginPass, CompletePass, YieldPass, PausePass, autoVars, fgVars
<1>3. ParkedKept /\ CallsKept
  BY <1>2, SameCalls DEF ParkedKept
<1>4. \A k \in AccountKeys : owed'[k] = "yes" => owed[k] = "yes"
  BY <1>1 DEF Register, BeginPass, CompletePass, YieldPass, PausePass
<1>5. SUFFICES ASSUME NEW k \in AccountKeys, owed'[k] = "yes", Working(k)
               PROVE  Parked(k)' \/ Working(k)'
  BY <1>3, <1>4, Places, PlacesKept DEF RequestInv, NoLostRequest
<1>6. PICK g \in {k, Global(k)} :
         phase[g] = "reserved" \/ (phase[g] = "waiting" /\ g \notin cancelled) \/ k \in serving[g]
  BY <1>5 DEF Working
<1>7. g \in Keys
  BY KeyFacts
<1>8. CASE g # h
  BY <1>2, <1>6, <1>7, <1>8 DEF Working
<1>9. CASE g = h
  <2>1. k \in serving[h] => phase[h] = "syncing"
    BY DEF RequestInv, WorkInv, ServingOK
  <2>2. CASE Register(h)
    <3>1. h \notin cancelled' /\ phase'[h] = "waiting"
      BY <1>1, <2>2 DEF Register, RequestInv, WorkInv, CancelledOK
    <3> QED  BY <1>9, <3>1 DEF Working
  <2>3. CASE BeginPass(h)
    <3>1. h \notin cancelled
      BY <1>6, <1>9, <2>1, <2>3 DEF BeginPass
    <3>2. k \in serving'[h]
      BY <1>1, <1>4, <1>5, <1>9, <2>3, <3>1 DEF BeginPass
    <3> QED  BY <1>9, <3>2 DEF Working
  <2>4. CASE CompletePass(h)
    <3>1. k \notin serving[h]
      BY <1>1, <1>5, <2>4 DEF CompletePass
    <3> QED  BY <1>6, <1>9, <2>4, <3>1 DEF CompletePass
  <2>5. CASE YieldPass(h) \/ PausePass(h)
    <3>1. h \in pending'
      BY <1>2, <2>5 DEF YieldPass, PausePass, RequestInv, WorkInv, CancelledOK
    <3> QED  BY <1>9, <3>1 DEF Parked
  <2> QED  BY <2>2, <2>3, <2>4, <2>5
<1> QED  BY <1>8, <1>9

\* A job that ends repeats what waited for it.
LEMMA FreeKeeps ==
    ASSUME RequestInv, NothingOrphaned', NEW h \in Keys, phase[h] \notin {"reserved", "waiting", "syncing"},
           Free(h), NEW s \in Reruns(h), NEW t \in Calls, Spawn(s \o t),
           UNCHANGED <<serving, owed, fgDeferred, autoDeferred>>
    PROVE  NoLostRequest'
<1>1. /\ phase \in [Keys -> Phases] /\ pending \subseteq Keys /\ Goroutines(callers)
  BY TypeParts DEF RequestInv, WorkInv, ParkInv, TypeOK
<1>2. s \in Calls
  BY <1>1, RerunsComplete
<1>3. s \o t \in Calls /\ \A i \in DOMAIN s : \E j \in DOMAIN (s \o t) : (s \o t)[j] = s[i]
  BY <1>2, Concatenated
<1>4. CallsKept /\ \A i \in DOMAIN s : ToCall(s[i])'
  BY <1>1, <1>3, SpawnKeeps
<1>5. SUFFICES ASSUME NEW k \in AccountKeys, Parked(k) \/ Working(k)
               PROVE  Parked(k)' \/ Called(k)' \/ Working(k)'
  BY <1>4, Places, PlacesKept DEF RequestInv, NoLostRequest
<1>6. JobsKept(k)
  <2>1. serving[h] = {}
    BY DEF RequestInv, WorkInv, ServingOK
  <2> QED  BY <1>1, <2>1 DEF JobsKept, Free
<1>7. CASE Working(k)
  BY <1>6, <1>7, PlacesKept
<1>8. CASE Parked(k)
  <2>1. CASE {k, Global(k)} \cap fgDeferred # {} \/ k \in autoDeferred
    BY <2>1 DEF Parked
  <2>2. ASSUME NEW g \in {k, Global(k)}, g \in pending  PROVE Parked(k)' \/ Called(k)'
    <3>1. CASE g \notin Waited(h)
      BY <2>2, <3>1 DEF Free, Parked
    <3>2. CASE g \in Waited(h)
      <4>1. Global(g) = Global(h) /\ Global(g) = Global(k)
        BY <1>1, <2>2, <3>2, WaitedFolder, KeyFacts
      <4>2. PICK i \in DOMAIN s :
               s[i] = Priority(Global(h)) \/ (g \in AccountKeys /\ s[i] = Queue(g))
        BY <1>1, <3>2, RerunsComplete
      <4>3. g \in AccountKeys => g = k
        BY <2>2, KeyFacts
      <4> QED  BY <1>4, <4>1, <4>2, <4>3 DEF Called
    <3> QED  BY <3>1, <3>2
  <2> QED  BY <1>8, <2>1, <2>2 DEF Parked
<1> QED  BY <1>5, <1>7, <1>8

LEMMA ReleaseKeeps ==
    ASSUME RequestInv, NothingOrphaned', NEW h \in Keys,
           Release(h) \/ \E ok \in BOOLEAN : FinishMaintenance(h, ok)
    PROVE  NoLostRequest'
<1>1. CASE Release(h)
  <2>1. PICK s \in Reruns(h) :
           Spawn(s \o IF h = autoJob THEN <<Do("autoNext")>> ELSE DerivedCalls)
    BY <1>1 DEF Release
  <2>2. (IF h = autoJob THEN <<Do("autoNext")>> ELSE DerivedCalls) \in Calls
    BY CallTypes, DerivedTyped
  <2> QED  BY <1>1, <2>1, <2>2, FreeKeeps DEF Release, fgVars
<1>2. ASSUME NEW ok \in BOOLEAN, FinishMaintenance(h, ok)  PROVE NoLostRequest'
  <2>1. PICK s \in Reruns(h) : Spawn(s \o IF ok \/ ~DerivedWork THEN DerivedCalls ELSE <<Do("attach")>>)
    BY <1>2 DEF FinishMaintenance
  <2>2. (IF ok \/ ~DerivedWork THEN DerivedCalls ELSE <<Do("attach")>>) \in Calls
    BY CallTypes, DerivedTyped
  <2> QED  BY <1>2, <2>1, <2>2, FreeKeeps DEF FinishMaintenance, autoVars, fgVars
<1> QED  BY <1>1, <1>2

\* The account-wide pass admits its folders' jobs as anybody does, and queues
\* what was deferred to it at its end; the attachment worker touches no request.
LEMMA PassKeeps ==
    ASSUME RequestInv, NothingOrphaned',
           PlanPass \/ FinishPass \/ (\E m \in Mailboxes : PassMailbox(m))
           \/ FinishAttachmentIndex \/ RetryTimer
    PROVE  NoLostRequest'
<1>1. TypeOK /\ StateTyped /\ Goroutines(callers)
  BY TypeParts DEF RequestInv, WorkInv, ParkInv
<1>2. CASE PlanPass
  BY <1>2, SameParked, SameCalls, SameJobs, OrdinaryStep DEF PlanPass, jobVars, fgVars
<1>3. ASSUME NEW m \in Mailboxes, PassMailbox(m)  PROVE NoLostRequest'
  <2> DEFINE k == <<AllAccounts, m>>
  <2>1. k \in Keys
    BY DEF Keys, GlobalKeys
  <2>2. /\ phase' = phase \/ (~Reserved(k) /\ Reserve(k, "reserved"))
        /\ UNCHANGED <<cancelled, pending, serving, owed, autoDeferred, fgDeferred, callers>>
    BY <1>3 DEF PassMailbox, fgVars
  <2> HIDE DEF k
  <2>3. \A h \in AccountKeys : JobsKept(h)
    <3>1. CASE phase' = phase
      BY <2>2, <3>1 DEF JobsKept
    <3>2. CASE ~Reserved(k) /\ Reserve(k, "reserved")
      BY <1>1, <2>1, <2>2, <3>2, ReserveKeeps
    <3> QED  BY <2>2, <3>1, <3>2
  <2> QED  BY <2>2, <2>3, SameParked, SameCalls, OrdinaryStep
<1>4. CASE FinishAttachmentIndex \/ RetryTimer
  <2>1. CallsKept
    BY <1>1, <1>4, AttachmentTypedStep DEF CallsKept
  <2>2. UNCHANGED <<jobVars, autoVars, fgVars>>
    BY <1>4 DEF FinishAttachmentIndex, RetryTimer
  <2> QED  BY <2>1, <2>2, SameParked, SameJobs, OrdinaryStep DEF jobVars, autoVars, fgVars
<1>5. CASE FinishPass
  <2>1. PICK f \in SetToSeqs(autoDeferred) :
           Spawn([i \in DOMAIN f |-> Queue(f[i])] \o DerivedCalls)
    BY <1>5 DEF FinishPass
  <2> DEFINE s == [i \in DOMAIN f |-> Queue(f[i])]
  <2>2. s \in Calls /\ \A k \in autoDeferred : \E i \in DOMAIN s : s[i] = Queue(k)
    BY <1>1, QueuedComplete DEF StateTyped, AutoTyped
  <2>3. Spawn(s \o DerivedCalls)
    BY <2>1
  <2> HIDE DEF s
  <2>4. /\ s \o DerivedCalls \in Calls
        /\ \A i \in DOMAIN s : \E j \in DOMAIN (s \o DerivedCalls) : (s \o DerivedCalls)[j] = s[i]
    BY <2>2, DerivedTyped, Concatenated
  <2>5. CallsKept /\ \A i \in DOMAIN s : ToCall(s[i])'
    BY <1>1, <2>3, <2>4, SpawnKeeps
  <2>6. UNCHANGED <<jobVars, fgVars>>
    BY <1>5 DEF FinishPass
  <2>7. SUFFICES ASSUME NEW k \in AccountKeys, Parked(k) \/ Working(k)
                 PROVE  Parked(k)' \/ Called(k)' \/ Working(k)'
    BY <2>5, <2>6, Places, PlacesKept DEF RequestInv, NoLostRequest, jobVars
  <2>8. Working(k) => Working(k)'
    BY <2>6, SameJobs, PlacesKept
  <2>9. k \in autoDeferred => Called(k)'
    BY <2>2, <2>5 DEF Called
  <2>10. k \notin autoDeferred /\ Parked(k) => Parked(k)'
    BY <2>6 DEF Parked, jobVars, fgVars
  <2> QED  BY <2>7, <2>8, <2>9, <2>10
<1> QED  BY <1>2, <1>3, <1>4, <1>5

\* What foreground cancels it leaves pending; what was deferred to it, it calls.
LEMMA PreemptKeeps ==
    ASSUME RequestInv, NothingOrphaned', Preempt, callers' = callers
    PROVE  NoLostRequest'
<1>1. ParkedKept /\ CallsKept
  BY SameCalls DEF Preempt, ParkedKept
<1>2. SUFFICES ASSUME NEW k \in AccountKeys, Working(k)
               PROVE  Parked(k)' \/ Working(k)'
  BY <1>1, Places, PlacesKept DEF RequestInv, NoLostRequest, Preempt
<1>3. PICK g \in {k, Global(k)} :
         phase[g] = "reserved" \/ (phase[g] = "waiting" /\ g \notin cancelled) \/ k \in serving[g]
  BY <1>2 DEF Working
<1>4. g \in Keys
  BY KeyFacts
<1>5. CASE phase[g] = "waiting"
  BY <1>4, <1>5 DEF Preempt, Parked
<1>6. CASE phase[g] = "reserved" \/ k \in serving[g]
  BY <1>6 DEF Preempt, Working
<1> QED  BY <1>3, <1>5, <1>6

LEMMA ForegroundKeeps ==
    ASSUME RequestInv, NothingOrphaned', NEW f \in Foregrounds,
           BeginForeground(f) \/ PollForeground(f) \/ HoldForeground(f) \/ FinishForeground(f)
    PROVE  NoLostRequest'
<1>1. StateTyped /\ Goroutines(callers)
  BY TypeParts DEF RequestInv, WorkInv, ParkInv
<1>2. ASSUME UNCHANGED <<jobVars, autoDeferred, fgDeferred, callers>>  PROVE NoLostRequest'
  BY <1>2, SameParked, SameCalls, SameJobs, OrdinaryStep DEF jobVars
<1>3. CASE BeginForeground(f)
  BY <1>2, <1>3, PreemptKeeps DEF BeginForeground, autoVars
<1>4. CASE PollForeground(f)
  BY <1>4, PreemptKeeps DEF PollForeground
<1>5. CASE HoldForeground(f)
  BY <1>2, <1>5 DEF HoldForeground, autoVars
<1>6. CASE FinishForeground(f)
  <2>1. PICK r, t : r = Replay /\ t = ReplayDerived \o <<[op |-> "close", f |-> f]>>
    OBVIOUS
  <2>2. /\ r \in Calls
        /\ \A k \in fgDeferred : \E i \in DOMAIN r :
              r[i] = Priority(Global(k)) \/ (k \in AccountKeys /\ r[i] = Queue(k))
    BY <1>1, <2>1, ReplayComplete DEF StateTyped, ForegroundTyped
  <2>3. t \in Calls
    BY <2>1, DerivedTyped, CallTypes, Concatenated
  <2>4. Spawn(r \o t)
    <3>1. Spawn(Replay \o ReplayDerived \o <<[op |-> "close", f |-> f]>>)
      BY <1>6 DEF FinishForeground
    <3>2. ReplayDerived \in Calls /\ <<[op |-> "close", f |-> f]>> \in Calls
      BY DerivedTyped, CallTypes
    <3>3. \A a, b, c \in Calls : (a \o b) \o c = a \o (b \o c)
      BY DEF Calls
    <3> QED  BY <2>2, <2>1, <3>1, <3>2, <3>3
  <2>5. /\ r \o t \in Calls
        /\ \A i \in DOMAIN r : \E j \in DOMAIN (r \o t) : (r \o t)[j] = r[i]
    BY <2>2, <2>3, Concatenated
  <2>6. CallsKept /\ \A i \in DOMAIN r : ToCall(r[i])'
    BY <1>1, <2>4, <2>5, SpawnKeeps
  <2>7. UNCHANGED <<jobVars, autoDeferred>>
    BY <1>6 DEF FinishForeground, autoVars
  <2>8. SUFFICES ASSUME NEW k \in AccountKeys, Parked(k) \/ Working(k)
                 PROVE  Parked(k)' \/ Called(k)' \/ Working(k)'
    BY <2>6, <2>7, Places, PlacesKept DEF RequestInv, NoLostRequest, jobVars
  <2>9. Working(k) => Working(k)'
    BY <2>7, SameJobs, PlacesKept
  <2>10. ASSUME NEW g \in {k, Global(k)}, g \in fgDeferred  PROVE Called(k)'
    <3>1. Global(g) = Global(k) /\ (g \in AccountKeys => g = k)
      BY KeyFacts
    <3> QED  BY <2>2, <2>6, <2>10, <3>1 DEF Called
  <2>11. Parked(k) /\ {k, Global(k)} \cap fgDeferred = {} => Parked(k)'
    BY <2>7 DEF Parked, jobVars
  <2> QED  BY <2>8, <2>9, <2>10, <2>11
<1> QED  BY <1>3, <1>4, <1>5, <1>6

\* A call that is no request, made by a goroutine that keeps the rest of its own.
LEMMA OtherCallKeeps ==
    ASSUME Goroutines(callers), NEW s \in DOMAIN callers, Head(s) \notin MailCall,
           NEW t, Follows(s, t), Continue(s, t)
    PROVE  CallsKept
BY ContinueKeeps DEF CallsKept

LEMMA OtherCalls ==
    ASSUME Goroutines(callers), NEW s \in DOMAIN callers,
           \/ StartCall(s) \/ Skipped(s) \/ AutoNext(s) \/ CloseForeground(s)
           \/ RefreshSenderStats(s) \/ FinishSenderStats(s)
           \/ StartAttachmentIndex(s) \/ ScheduleRetry(s)
    PROVE  CallsKept
<1>1. s \in Calls /\ s # <<>> /\ Tail(s) \in Calls
  BY HeadAndTail DEF Goroutines
<1>2. Head(s) \notin MailCall
  <2>1. \A c \in MailCall : c.op \in {"queue", "priority"}
    BY DEF MailCall, Queue, Priority
  <2>2. \/ Head(s).op \in {"start", "autoNext", "close", "stats", "statsIfIdle", "statsEnd", "attach",
                          "attachIfIdle", "scheduleNext", "arm"}
        \/ Head(s) = Do("skip")
    BY DEF StartCall, Skipped, AutoNext, CloseForeground, RefreshSenderStats, FinishSenderStats,
           StartAttachmentIndex, ScheduleRetry
  <2> QED  BY <2>1, <2>2, CallTypes
<1>3. /\ Follows(s, Tail(s)) /\ Follows(s, SkipIdle(Tail(s)))
      /\ Follows(s, <<Do("statsEnd")>> \o Tail(s)) /\ Follows(s, <<Do("attach")>> \o Tail(s))
      /\ Follows(s, <<Do("scheduleNext")>> \o Tail(s))
  BY <1>1, WaysOn, CallTypes
<1>4. CASE \/ Continue(s, Tail(s)) \/ Continue(s, SkipIdle(Tail(s)))
           \/ Continue(s, <<Do("statsEnd")>> \o Tail(s)) \/ Continue(s, <<Do("attach")>> \o Tail(s))
           \/ Continue(s, <<Do("scheduleNext")>> \o Tail(s))
  BY <1>2, <1>3, <1>4, OtherCallKeeps
<1>5. CASE callers' = (callers (-) Thread(s)) (+) Thread(Tail(s)) (+) Thread(<<Do("stats")>>)
  <2> DEFINE C == (callers (-) Thread(s)) (+) Thread(Tail(s))
  <2>1. /\ Goroutines(C)
        /\ \A c : Has(callers, c) => Has(C, c) \/ \E i \in DOMAIN s : s[i] = c
        /\ \A i \in DOMAIN Tail(s) : Has(C, Tail(s)[i])
    BY <1>1, GoesOn
  <2>2. \A c \in MailCall : Has(callers, c) => Has(C, c)
    BY <1>2, <1>3, <2>1 DEF Follows
  <2>3. \A c : Has(C, c) => Has(callers', c)
    BY <1>5, <2>1, CallTypes, Added
  <2> QED  BY <2>2, <2>3 DEF CallsKept, Has, ToCall
<1> QED
  BY <1>4, <1>5 DEF StartCall, Skipped, AutoNext, CloseForeground, RefreshSenderStats,
     FinishSenderStats, StartAttachmentIndex, ScheduleRetry, Continue

LEMMA CallsKeep ==
    ASSUME RequestInv, NothingOrphaned', NEW s \in DOMAIN callers, MakeCall(s)
    PROVE  NoLostRequest'
<1>1. TypeOK /\ Goroutines(callers) /\ s \in Calls /\ s # <<>>
  BY TypeParts DEF RequestInv, WorkInv, ParkInv, Goroutines
<1>2. owed \in [AccountKeys -> {"no", "yes", "dropped"}]
  BY <1>1 DEF TypeOK
<1>3. ASSUME Continue(s, Tail(s)) \/ Continue(s, SkipIdle(Tail(s)))
      PROVE  \A c \in MailCall : ToCall(c) => c = Head(s) \/ ToCall(c)'
  BY <1>1, <1>3, WaysOn, ContinueKeeps
<1>4. ASSUME ParkedKept, \A k \in AccountKeys : JobsKept(k),
             \A c \in MailCall : ToCall(c) => c = Head(s) \/ ToCall(c)',
             NEW k \in AccountKeys, owed[k] = "yes",
             Head(s) \notin {Queue(k), Priority(Global(k))}
      PROVE  Remembered(k)'
  <2>1. Queue(k) \in MailCall /\ Priority(Global(k)) \in MailCall
    BY KeyFacts DEF MailCall
  <2>2. Called(k) => Called(k)'
    BY <1>4, <2>1 DEF Called
  <2> QED  BY <1>4, <2>2, Places, PlacesKept DEF RequestInv, NoLostRequest
<1>5. ASSUME NEW g \in AccountKeys, QueueCall(s, g)  PROVE NoLostRequest'
  <2>1. /\ Head(s) = Queue(g)
        /\ \A c \in MailCall : ToCall(c) => c = Head(s) \/ ToCall(c)'
    BY <1>3, <1>5 DEF QueueCall
  <2>2. \A k \in AccountKeys : k # g => Head(s) \notin {Queue(k), Priority(Global(k))}
    BY <2>1 DEF Queue, Priority
  <2>3. CASE QueueRequest(g) /\ UNCHANGED <<serving, owed>>
    <3>1. ParkedKept /\ \A k \in AccountKeys : JobsKept(k)
      BY <1>1, <2>3, AdmissionKeeps, KeyFacts
    <3>2. Remembered(g)'
      BY <1>1, <2>3, QueueRemembers, Places
    <3> QED  BY <1>4, <2>1, <2>2, <2>3, <3>1, <3>2 DEF NoLostRequest
  <2>4. CASE QueueTimeout({g})
    <3>1. ParkedKept /\ \A k \in AccountKeys : JobsKept(k)
      BY <2>4, SameParked DEF QueueTimeout, autoVars, fgVars, JobsKept
    <3>2. owed'[g] # "yes" /\ \A k \in AccountKeys : owed'[k] = "yes" => owed[k] = "yes"
      BY <1>2, <2>4 DEF QueueTimeout
    <3> QED  BY <1>4, <2>1, <2>2, <3>1, <3>2 DEF NoLostRequest
  <2> QED  BY <1>5, <2>3, <2>4 DEF QueueCall
<1>6. ASSUME NEW g \in GlobalKeys, PriorityCall(s, g)  PROVE NoLostRequest'
  <2>1. /\ Head(s) = Priority(g)
        /\ \A c \in MailCall : ToCall(c) => c = Head(s) \/ ToCall(c)'
    BY <1>3, <1>6 DEF PriorityCall
  <2>2. \A k \in AccountKeys : Global(k) # g => Head(s) \notin {Queue(k), Priority(Global(k))}
    BY <2>1 DEF Queue, Priority
  <2>3. ASSUME NEW started \in BOOLEAN, PriorityRequest(g, started)  PROVE NoLostRequest'
    <3>1. UNCHANGED <<serving, owed>>
      BY <2>3 DEF PriorityRequest
    <3>2. ParkedKept /\ \A k \in AccountKeys : JobsKept(k)
      BY <1>1, <2>3, <3>1, AdmissionKeeps, KeyFacts
    <3>3. \A k \in AccountKeys : Global(k) = g => Remembered(k)'
      BY <1>1, <2>3, PriorityRemembers, Places
    <3> QED  BY <1>4, <2>1, <2>2, <3>1, <3>2, <3>3 DEF NoLostRequest
  <2>4. CASE QueueTimeout(SameFolder(g))
    <3>1. ParkedKept /\ \A k \in AccountKeys : JobsKept(k)
      BY <2>4, SameParked DEF QueueTimeout, autoVars, fgVars, JobsKept
    <3>2. \A k \in AccountKeys : owed'[k] = "yes" => owed[k] = "yes" /\ k \notin SameFolder(g)
      BY <1>2, <2>4 DEF QueueTimeout
    <3>3. \A k \in AccountKeys : k \notin SameFolder(g) => Global(k) # g
      BY KeyFacts
    <3> QED  BY <1>4, <2>1, <2>2, <3>1, <3>2, <3>3 DEF NoLostRequest
  <2> QED  BY <1>6, <2>3, <2>4 DEF PriorityCall
<1>7. CASE \/ StartCall(s) \/ Skipped(s) \/ AutoNext(s) \/ CloseForeground(s)
           \/ RefreshSenderStats(s) \/ FinishSenderStats(s)
           \/ StartAttachmentIndex(s) \/ ScheduleRetry(s)
  <2>1. CallsKept
    BY <1>1, <1>7, OtherCalls
  <2>2. UNCHANGED <<jobVars, autoDeferred, fgDeferred>>
    BY <1>7 DEF StartCall, StartPass, Skipped, AutoNext, CloseForeground, RefreshSenderStats,
       FinishSenderStats, StartAttachmentIndex, ScheduleRetry, autoVars, fgVars
  <2> QED  BY <2>1, <2>2, SameParked, SameJobs, OrdinaryStep DEF jobVars
<1> QED  BY <1>5, <1>6, <1>7 DEF MakeCall

LEMMA NextRequestInv ==
    ASSUME RequestInv, [Next]_vars
    PROVE  RequestInv'
<1>1. WorkInv' /\ NothingOrphaned'
  BY NextWorkInv DEF RequestInv, WorkInv, ParkInv
<1> SUFFICES NoLostRequest'
  BY <1>1 DEF RequestInv
<1>2. CASE UNCHANGED vars
  <2>1. UNCHANGED <<jobVars, autoDeferred, fgDeferred, callers>>
    BY <1>2 DEF vars, autoVars, fgVars
  <2>2. UNCHANGED <<pending, fgDeferred, autoDeferred>> /\ UNCHANGED owed
    BY <2>1 DEF jobVars
  <2>3. ParkedKept /\ CallsKept /\ \A k \in AccountKeys : JobsKept(k)
    BY <2>1, <2>2, SameParked, SameCalls, SameJobs
  <2> QED  BY <1>1, <2>2, <2>3, OrdinaryStep
<1>3. CASE \E f \in Foregrounds : BeginForeground(f)
  BY <1>1, <1>3, ForegroundKeeps
<1>4. CASE Environment /\ ~ \E f \in Foregrounds : BeginForeground(f)
  <2>1. \A f \in Foregrounds : ~BeginForeground(f)
    BY <1>4
  <2> QED  BY <1>1, <1>4, <2>1, EnvironmentKeeps
<1>5. CASE Progress
  <2>1. ASSUME NEW k \in Keys, Register(k) \/ BeginPass(k) \/ CompletePass(k) \/ YieldPass(k) \/ PausePass(k)
        PROVE  NoLostRequest'
    BY <1>1, <2>1, JobsKeep
  <2>2. ASSUME NEW k \in Keys, Release(k) \/ \E ok \in BOOLEAN : FinishMaintenance(k, ok)
        PROVE  NoLostRequest'
    BY <1>1, <2>2, ReleaseKeeps
  <2>3. CASE PlanPass \/ FinishPass \/ (\E m \in Mailboxes : PassMailbox(m))
             \/ FinishAttachmentIndex \/ RetryTimer
    BY <1>1, <2>3, PassKeeps
  <2>4. ASSUME NEW f \in Foregrounds,
               BeginForeground(f) \/ PollForeground(f) \/ HoldForeground(f) \/ FinishForeground(f)
        PROVE  NoLostRequest'
    BY <1>1, <2>4, ForegroundKeeps
  <2>5. ASSUME NEW s \in DOMAIN callers, MakeCall(s)  PROVE NoLostRequest'
    BY <1>1, <2>5, CallsKeep
  <2> QED  BY <1>5, <2>1, <2>2, <2>3, <2>4, <2>5 DEF Progress
<1> QED  BY <1>2, <1>3, <1>4, <1>5 DEF Next

LEMMA InitRequestInv == Init => RequestInv
<1> SUFFICES ASSUME Init  PROVE RequestInv
  OBVIOUS
<1>1. ParkInv
  BY InitParkInv
<1>2. ReservationExclusion /\ ServingOK /\ CancelledOK
  BY DEF Init, Held, ReservationExclusion, ServingOK, CancelledOK
<1>3. NoLostRequest
  BY DEF Init, NoLostRequest
<1> QED  BY <1>1, <1>2, <1>3 DEF RequestInv, WorkInv

\* An accepted request for an account's folder is remembered somewhere, by a job
\* to come, in a queue with somebody to empty it, or in a goroutine's calls,
\* until a pass that begins after it completes.
THEOREM NoRequestIsLost == Spec => []NoLostRequest
<1>1. Init => RequestInv
  BY InitRequestInv
<1>2. RequestInv /\ [Next]_vars => RequestInv'
  BY NextRequestInv
<1>3. RequestInv => NoLostRequest
  BY DEF RequestInv
<1> QED  BY <1>1, <1>2, <1>3, PTL DEF Spec

-----------------------------------------------------------------------------
(* The account-wide pass *)

\* The call by which a folder's job returns to the pass, and the one by which a
\* foreground operation closes its channel: nobody else has them to make.
Returned   == Do("autoNext")
Closing(f) == [op |-> "close", f |-> f]
Ends       == {Returned} \cup {Closing(f) : f \in Foregrounds}

Lacks(t, c)  == \A i \in DOMAIN t : t[i] # c
Single(t, c) == \A i, j \in DOMAIN t : t[i] = c /\ t[j] = c => i = j

\* At most one goroutine has call c left, and it has it once.
Alone(B, c) ==
    \A s \in DOMAIN B : ~Lacks(s, c) =>
        Single(s, c) /\ B[s] = 1 /\ \A t \in DOMAIN B : t # s => Lacks(t, c)

Ordinary == {"start", "stats", "statsIfIdle", "statsEnd", "attach", "attachIfIdle", "skip",
             "scheduleNext", "arm"}

LEMMA LacksOne ==
    /\ Returned \in Ends /\ \A f \in Foregrounds : Closing(f) \in Ends
    /\ \A name \in Ordinary : \A c \in Ends : Lacks(<<Do(name)>>, c)
    /\ \A f : Lacks(<<Closing(f)>>, Returned) /\ Single(<<Closing(f)>>, Closing(f))
    /\ \A f : Lacks(<<Returned>>, Closing(f)) /\ Single(<<Returned>>, Returned)
    /\ \A f, g : f # g => Lacks(<<Closing(f)>>, Closing(g))
    /\ \A c : Lacks(<<>>, c)
<1>1. \A name \in Ordinary : \A c \in Ends : Do(name) # c
  BY DEF Ordinary, Ends, Returned, Closing, Do
<1>2. \A f : Closing(f) # Returned
  BY DEF Returned, Closing, Do
<1>3. \A f, g : Closing(f) = Closing(g) => f = g
  <2> SUFFICES ASSUME NEW f, NEW g, Closing(f) = Closing(g)  PROVE f = g
    OBVIOUS
  <2>1. Closing(f).f = f /\ Closing(g).f = g
    BY DEF Closing
  <2> QED  BY <2>1
<1>4. \A c, d : c # d => Lacks(<<c>>, d)
  BY DEF Lacks
<1>5. \A c : Single(<<c>>, c) /\ Lacks(<<>>, c)
  BY DEF Single, Lacks
<1>6. Returned \in Ends /\ \A f \in Foregrounds : Closing(f) \in Ends
  BY DEF Ends
<1> QED  BY <1>1, <1>2, <1>3, <1>4, <1>5, <1>6

LEMMA EndsOther ==
    ASSUME NEW c \in Ends
    PROVE  \A k : Queue(k) # c /\ Priority(k) # c
BY DEF Ends, Returned, Closing, Do, Queue, Priority

LEMMA LacksBoth ==
    ASSUME NEW s \in Calls, NEW t \in Calls, NEW c, Lacks(s, c)
    PROVE  /\ Lacks(t, c) => Lacks(s \o t, c)
           /\ Single(t, c) => Single(s \o t, c)
           /\ ~Lacks(t, c) => ~Lacks(s \o t, c)
<1>1. \A i \in DOMAIN (s \o t) : (s \o t)[i] = c =>
         i - Len(s) \in DOMAIN t /\ t[i - Len(s)] = c
  BY DEF Calls, Lacks
<1>2. \A i \in DOMAIN t : i + Len(s) \in DOMAIN (s \o t) /\ (s \o t)[i + Len(s)] = t[i]
  BY DEF Calls
<1>3. Lacks(t, c) => Lacks(s \o t, c)
  BY <1>1 DEF Lacks
<1>4. ~Lacks(t, c) => ~Lacks(s \o t, c)
  BY <1>2 DEF Lacks
<1>5. ASSUME Single(t, c), NEW i \in DOMAIN (s \o t), NEW j \in DOMAIN (s \o t),
             (s \o t)[i] = c, (s \o t)[j] = c
      PROVE  i = j
  <2>1. i - Len(s) = j - Len(s)
    BY <1>1, <1>5 DEF Single
  <2>2. i \in Int /\ j \in Int /\ Len(s) \in Int
    BY DEF Calls
  <2> QED  BY <2>1, <2>2
<1> QED  BY <1>3, <1>4, <1>5 DEF Single

\* What is left after the first call.
LEMMA LacksRest ==
    ASSUME NEW s \in Calls, s # <<>>, NEW c
    PROVE  /\ Lacks(s, c) => Lacks(Tail(s), c)
           /\ Single(s, c) => Single(Tail(s), c)
           /\ Single(s, c) /\ Head(s) = c => Lacks(Tail(s), c)
<1>1. \A i \in DOMAIN Tail(s) : i + 1 \in DOMAIN s /\ Tail(s)[i] = s[i + 1] /\ i \in Int /\ i > 0
  BY DEF Calls
<1>2. 1 \in DOMAIN s /\ s[1] = Head(s)
  BY DEF Calls
<1>3. Lacks(s, c) => Lacks(Tail(s), c)
  BY <1>1 DEF Lacks
<1>4. ASSUME Single(s, c), NEW i \in DOMAIN Tail(s), NEW j \in DOMAIN Tail(s),
             Tail(s)[i] = c, Tail(s)[j] = c
      PROVE  i = j
  BY <1>1, <1>4 DEF Single
<1>5. ASSUME Single(s, c), Head(s) = c, NEW i \in DOMAIN Tail(s), Tail(s)[i] = c  PROVE FALSE
  BY <1>1, <1>2, <1>5 DEF Single
<1> QED  BY <1>3, <1>4, <1>5 DEF Single, Lacks

LEMMA LacksSkipped ==
    ASSUME NEW s, NEW c \in Ends
    PROVE  /\ Lacks(s, c) => Lacks(SkipIdle(s), c)
           /\ Single(s, c) => Single(SkipIdle(s), c)
<1>1. Do("skip") # c
  BY DEF Ends, Returned, Closing, Do
<1>2. DOMAIN SkipIdle(s) = DOMAIN s /\ \A i \in DOMAIN s : SkipIdle(s)[i] \in {s[i], Do("skip")}
  BY DEF SkipIdle
<1> QED  BY <1>1, <1>2 DEF Lacks, Single

-----------------------------------------------------------------------------
\* The goroutines after a step have call c left only if those before had.
CallKept(B, C, c) == (Has(C, c) => Has(B, c)) /\ (Alone(B, c) => Alone(C, c))

LEMMA HasLacks == \A B, c : Has(B, c) <=> \E s \in DOMAIN B : ~Lacks(s, c)
BY DEF Has, Lacks

LEMMA Joined ==
    ASSUME NEW B, Goroutines(B), NEW t \in Calls
    PROVE  LET C == B (+) Thread(t) IN
           /\ DOMAIN C = DOMAIN B \cup (IF t = <<>> THEN {} ELSE {t})
           /\ \A s \in DOMAIN B : s # t => C[s] = B[s]
           /\ t # <<>> /\ t \notin DOMAIN B => C[t] = 1
<1> DEFINE T == Thread(t)
           C == B (+) T
           n(e) == (IF e \in DOMAIN B THEN B[e] ELSE 0) + (IF e \in DOMAIN T THEN T[e] ELSE 0)
<1>1. C = [e \in DOMAIN B \cup DOMAIN T |-> n(e)]
  BY DEF (+)
<1>2. DOMAIN T = (IF t = <<>> THEN {} ELSE {t}) /\ (t # <<>> => T[t] = 1)
  BY ThreadBag DEF Thread, SetToBag
<1>3. \A s \in DOMAIN B : B[s] \in Nat
  BY DEF Goroutines, IsABag
<1> HIDE DEF T
<1>4. \A s \in DOMAIN B : s # t => n(s) = B[s]
  BY <1>2, <1>3
<1>5. t # <<>> /\ t \notin DOMAIN B => n(t) = 1
  BY <1>2
<1> HIDE DEF C, n
<1>6. DOMAIN C = DOMAIN B \cup DOMAIN T /\ \A s \in DOMAIN C : C[s] = n(s)
  BY <1>1
<1> QED  BY <1>2, <1>4, <1>5, <1>6 DEF C, T

LEMMA Left ==
    ASSUME NEW B, Goroutines(B), NEW s \in DOMAIN B
    PROVE  LET R == B (-) Thread(s) IN
           /\ Goroutines(R) /\ DOMAIN R \subseteq DOMAIN B
           /\ \A t \in DOMAIN R : t # s => R[t] = B[t]
           /\ B[s] = 1 => s \notin DOMAIN R
<1> DEFINE T == Thread(s)
           R == B (-) T
           M == [e \in DOMAIN B |-> IF e \in DOMAIN T THEN B[e] - T[e] ELSE B[e]]
           K == {d \in DOMAIN M : M[d] > 0}
<1>1. R = [e \in K |-> M[e]]
  BY DEF (-)
<1>2. DOMAIN T = {s} /\ T[s] = 1
  BY ThreadBag DEF Goroutines, Thread, SetToBag
<1>3. \A e \in DOMAIN B : B[e] \in Nat
  BY DEF Goroutines, IsABag
<1>4. Goroutines(R)
  BY Taken
<1> HIDE DEF T, R
<1>5. DOMAIN M = DOMAIN B /\ \A e \in DOMAIN B : e # s => M[e] = B[e]
  BY <1>2
<1>6. B[s] = 1 => ~(M[s] > 0)
  BY <1>2
<1> HIDE DEF M
<1>7. DOMAIN R = K /\ \A e \in K : R[e] = M[e]
  BY <1>1
<1> QED  BY <1>4, <1>5, <1>6, <1>7 DEF R, T

LEMMA JoinedKept ==
    ASSUME NEW B, Goroutines(B), NEW t \in Calls, NEW c, Lacks(t, c)
    PROVE  CallKept(B, B (+) Thread(t), c)
<1> DEFINE C == B (+) Thread(t)
<1>1. DOMAIN C = DOMAIN B \cup (IF t = <<>> THEN {} ELSE {t}) /\ \A s \in DOMAIN B : s # t => C[s] = B[s]
  BY Joined
<1> HIDE DEF C
<1>2. Has(C, c) => Has(B, c)
  BY <1>1, HasLacks
<1>3. ASSUME Alone(B, c), NEW s \in DOMAIN C, ~Lacks(s, c)
      PROVE  Single(s, c) /\ C[s] = 1 /\ \A u \in DOMAIN C : u # s => Lacks(u, c)
  <2>1. s \in DOMAIN B /\ s # t
    BY <1>1, <1>3
  <2> QED  BY <1>1, <1>3, <2>1 DEF Alone
<1>4. Alone(B, c) => Alone(C, c)
  BY <1>3 DEF Alone
<1> QED  BY <1>2, <1>4 DEF CallKept, C

LEMMA JoinedFirst ==
    ASSUME NEW B, Goroutines(B), NEW t \in Calls, NEW c, Single(t, c), ~Has(B, c)
    PROVE  Alone(B (+) Thread(t), c)
<1> DEFINE C == B (+) Thread(t)
<1>1. /\ DOMAIN C = DOMAIN B \cup (IF t = <<>> THEN {} ELSE {t})
      /\ t # <<>> /\ t \notin DOMAIN B => C[t] = 1
  BY Joined
<1>2. \A s \in DOMAIN B : Lacks(s, c)
  BY HasLacks
<1> HIDE DEF C
<1>3. ASSUME NEW s \in DOMAIN C, ~Lacks(s, c)
      PROVE  Single(s, c) /\ C[s] = 1 /\ \A u \in DOMAIN C : u # s => Lacks(u, c)
  <2>1. s = t /\ t \notin DOMAIN B /\ t # <<>>
    BY <1>1, <1>2, <1>3
  <2> QED  BY <1>1, <1>2, <2>1
<1> QED  BY <1>3 DEF Alone, C

\* A goroutine goes on; what it has left of c it had before.
LEMMA GoneOnKept ==
    ASSUME NEW B, Goroutines(B), NEW s \in DOMAIN B, NEW t \in Calls, NEW c,
           Lacks(s, c) => Lacks(t, c), Single(s, c) => Single(t, c)
    PROVE  CallKept(B, (B (-) Thread(s)) (+) Thread(t), c)
<1> DEFINE R == B (-) Thread(s)
           C == R (+) Thread(t)
<1>1. /\ Goroutines(R) /\ DOMAIN R \subseteq DOMAIN B
      /\ \A u \in DOMAIN R : u # s => R[u] = B[u]
      /\ B[s] = 1 => s \notin DOMAIN R
  BY Left
<1> HIDE DEF R
<1>2. /\ DOMAIN C = DOMAIN R \cup (IF t = <<>> THEN {} ELSE {t})
      /\ \A u \in DOMAIN R : u # t => C[u] = R[u]
      /\ t # <<>> /\ t \notin DOMAIN R => C[t] = 1
  BY <1>1, Joined
<1> HIDE DEF C
<1>3. Has(C, c) => Has(B, c)
  BY <1>1, <1>2, HasLacks
<1>4. ASSUME Alone(B, c), NEW u \in DOMAIN C, ~Lacks(u, c)
      PROVE  Single(u, c) /\ C[u] = 1 /\ \A v \in DOMAIN C : v # u => Lacks(v, c)
  <2>1. CASE Lacks(s, c)
    <3>1. Lacks(t, c) /\ u \in DOMAIN R /\ u # t /\ u # s /\ u \in DOMAIN B
      BY <1>1, <1>2, <1>4, <2>1
    <3>2. Single(u, c) /\ B[u] = 1 /\ \A v \in DOMAIN B : v # u => Lacks(v, c)
      BY <1>4, <3>1 DEF Alone
    <3> QED  BY <1>1, <1>2, <3>1, <3>2
  <2>2. CASE ~Lacks(s, c)
    <3>1. Single(s, c) /\ B[s] = 1 /\ \A v \in DOMAIN B : v # s => Lacks(v, c)
      BY <1>4, <2>2 DEF Alone
    <3>2. \A v \in DOMAIN R : Lacks(v, c)
      BY <1>1, <3>1
    <3>3. u = t /\ t \notin DOMAIN R /\ t # <<>>
      BY <1>2, <1>4, <3>2
    <3> QED  BY <1>2, <3>1, <3>2, <3>3
  <2> QED  BY <2>1, <2>2
<1>5. Alone(B, c) => Alone(C, c)
  BY <1>4 DEF Alone
<1> QED  BY <1>3, <1>5 DEF CallKept, C, R

\* The goroutine that had it makes call c.
LEMMA GoneOnLast ==
    ASSUME NEW B, Goroutines(B), NEW s \in DOMAIN B, NEW t \in Calls, NEW c,
           Alone(B, c), ~Lacks(s, c), Lacks(t, c)
    PROVE  ~Has((B (-) Thread(s)) (+) Thread(t), c)
<1> DEFINE R == B (-) Thread(s)
           C == R (+) Thread(t)
<1>1. /\ Goroutines(R) /\ DOMAIN R \subseteq DOMAIN B
      /\ B[s] = 1 => s \notin DOMAIN R
  BY Left
<1> HIDE DEF R
<1>2. DOMAIN C = DOMAIN R \cup (IF t = <<>> THEN {} ELSE {t})
  BY <1>1, Joined
<1> HIDE DEF C
<1>3. B[s] = 1 /\ \A v \in DOMAIN B : v # s => Lacks(v, c)
  BY DEF Alone
<1> QED  BY <1>1, <1>2, <1>3, HasLacks DEF C, R

-----------------------------------------------------------------------------
\* None of the calls that jobs and passes leave behind, or that foreground
\* operations replay, returns to the pass or closes a channel.
LEMMA SpawnedLack ==
    ASSUME NEW c \in Ends
    PROVE  /\ \A f : Lacks([i \in DOMAIN f |-> Queue(f[i])], c)
           /\ \A f : Lacks([i \in DOMAIN f |-> Priority(f[i])], c)
           /\ Lacks(DerivedCalls, c)
           /\ Lacks(ReplayDerived, c)
<1>1. \A f : Lacks([i \in DOMAIN f |-> Queue(f[i])], c)
  BY EndsOther DEF Lacks
<1>2. \A f : Lacks([i \in DOMAIN f |-> Priority(f[i])], c)
  BY EndsOther DEF Lacks
<1>3. Lacks(DerivedCalls, c)
  BY DEF Lacks, DerivedCalls, Ends, Returned, Closing, Do
<1>4. Lacks(ReplayDerived, c)
  <2> DEFINE s == IF statsPending THEN <<Do("statsIfIdle")>> ELSE <<>>
             a == IF attachPending THEN <<Do("attachIfIdle")>> ELSE <<>>
  <2>1. s \in Calls /\ a \in Calls
    BY CallTypes
  <2>2. Lacks(s, c) /\ Lacks(a, c)
    BY LacksOne DEF Ordinary
  <2> HIDE DEF s, a
  <2>3. Lacks(s \o a, c)
    BY <2>1, <2>2, LacksBoth
  <2> QED  BY <2>3 DEF ReplayDerived, s, a
<1> QED  BY <1>1, <1>2, <1>3, <1>4

LEMMA RerunsLack ==
    ASSUME NEW k \in Keys, NEW s \in Reruns(k), NEW c \in Ends
    PROVE  Lacks(s, c)
<1>1. CASE Global(k) \in pending
  BY <1>1, EndsOther DEF Reruns, Lacks
<1>2. CASE Global(k) \notin pending
  <2>1. PICK f \in SetToSeqs(Waited(k)) : s = [i \in DOMAIN f |-> Queue(f[i])]
    BY <1>2 DEF Reruns
  <2> QED  BY <2>1, SpawnedLack
<1> QED  BY <1>1, <1>2

LEMMA ReplayLack ==
    ASSUME fgDeferred \subseteq Keys, fgDeferredAuto \in BOOLEAN, NEW c \in Ends
    PROVE  Lacks(Replay, c)
<1> DEFINE boxes == fgDeferred \cap GlobalKeys
           accts == {k \in fgDeferred \cap AccountKeys : Global(k) \notin fgDeferred}
           p == [i \in DOMAIN SetToSeq(boxes) |-> Priority(SetToSeq(boxes)[i])]
           q == [i \in DOMAIN SetToSeq(accts) |-> Queue(SetToSeq(accts)[i])]
           a == IF fgDeferredAuto THEN <<Do("start")>> ELSE <<>>
<1>1. Replay = (a \o p) \o q
  BY DEF Replay
<1>2. IsFiniteSet(boxes) /\ IsFiniteSet(accts)
  BY KeysFinite, FS_Subset
<1>3. p \in Calls
  <2>1. boxes \in SUBSET GlobalKeys /\ SetToSeq(boxes) \in SetToSeqs(boxes)
    BY <1>2, ChosenOrder
  <2> HIDE DEF boxes
  <2> QED  BY ONLY <2>1, PriorityComplete
<1>4. q \in Calls
  <2>1. accts \in SUBSET AccountKeys /\ SetToSeq(accts) \in SetToSeqs(accts)
    BY <1>2, ChosenOrder
  <2> HIDE DEF accts
  <2> QED  BY ONLY <2>1, QueuedComplete
<1>5. a \in Calls /\ Lacks(a, c)
  BY CallTypes, LacksOne DEF Ordinary
<1>6. Lacks(p, c) /\ Lacks(q, c)
  BY SpawnedLack
<1> HIDE DEF p, q, a
<1>7. a \o p \in Calls /\ Lacks(a \o p, c)
  BY <1>3, <1>5, <1>6, LacksBoth, Concatenated
<1> DEFINE ap == a \o p
<1> HIDE DEF ap
<1>8. ap \in Calls /\ Lacks(ap, c) /\ Replay = ap \o q
  BY <1>1, <1>7 DEF ap
<1> QED  BY <1>4, <1>6, <1>8, LacksBoth

LEMMA SpawnKept ==
    ASSUME TypeOK, NEW t \in Calls, NEW c, Lacks(t, c), Spawn(t)
    PROVE  CallKept(callers, callers', c)
BY JoinedKept, TypeParts DEF Spawn

LEMMA ContinueKept ==
    ASSUME TypeOK, NEW s \in DOMAIN callers, NEW t \in Calls, NEW c,
           Lacks(s, c) => Lacks(t, c), Single(s, c) => Single(t, c),
           Continue(s, t)
    PROVE  CallKept(callers, callers', c)
BY GoneOnKept, TypeParts DEF Continue

-----------------------------------------------------------------------------
(* What a step leaves of the calls that end a job of the pass, or a foreground *)

LEMMA SameCallers ==
    ASSUME callers' = callers, NEW c
    PROVE  CallKept(callers, callers', c)
BY DEF CallKept

\* A job lets go; only that of the pass is to return.
LEMMA ReleaseCalls ==
    ASSUME TypeOK, NEW k \in Keys, NEW c \in Ends,
           \/ Release(k) /\ (k # autoJob \/ c # Returned)
           \/ \E ok \in BOOLEAN : FinishMaintenance(k, ok)
    PROVE  CallKept(callers, callers', c)
<1>1. PICK s \in Reruns(k), d \in {DerivedCalls, <<Do("attach")>>, <<Returned>>} :
         Spawn(s \o d) /\ (d = <<Returned>> => c # Returned)
  <2>1. CASE Release(k)
    <3>1. PICK s \in Reruns(k) : Spawn(s \o IF k = autoJob THEN <<Returned>> ELSE DerivedCalls)
      BY <2>1 DEF Release, Returned
    <3>2. k = autoJob => c # Returned
      BY <2>1 DEF Release, FinishMaintenance
    <3>3. DerivedCalls # <<Returned>>
      BY DEF DerivedCalls
    <3> QED  BY <3>1, <3>2, <3>3
  <2>2. CASE \E ok \in BOOLEAN : FinishMaintenance(k, ok)
    <3>1. PICK s \in Reruns(k), d \in {DerivedCalls, <<Do("attach")>>} : Spawn(s \o d)
      BY <2>2 DEF FinishMaintenance
    <3>2. DerivedCalls # <<Returned>> /\ <<Do("attach")>> # <<Returned>>
      BY DEF DerivedCalls, Returned, Do
    <3> QED  BY <3>1, <3>2
  <2> QED  BY <2>1, <2>2
<1>2. s \in Calls /\ Lacks(s, c)
  BY RerunsComplete, RerunsLack DEF TypeOK
<1>3. d \in Calls
  BY DerivedTyped, CallTypes DEF Returned
<1>4. Lacks(d, c)
  BY <1>1, LacksOne, SpawnedLack DEF Ordinary, Ends
<1>5. s \o d \in Calls /\ Lacks(s \o d, c)
  BY <1>2, <1>3, <1>4, LacksBoth, Concatenated
<1> QED  BY <1>1, <1>5, SpawnKept

LEMMA FinishPassCalls ==
    ASSUME TypeOK, NEW c \in Ends, FinishPass
    PROVE  CallKept(callers, callers', c)
<1>1. PICK f \in SetToSeqs(autoDeferred) : Spawn([i \in DOMAIN f |-> Queue(f[i])] \o DerivedCalls)
  BY DEF FinishPass
<1> DEFINE q == [i \in DOMAIN f |-> Queue(f[i])]
<1>2. q \in Calls
  BY QueuedComplete DEF TypeOK
<1>3. Lacks(q, c)
  BY SpawnedLack
<1>4. DerivedCalls \in Calls /\ Lacks(DerivedCalls, c)
  BY DerivedTyped, SpawnedLack
<1> HIDE DEF q
<1>5. q \o DerivedCalls \in Calls /\ Lacks(q \o DerivedCalls, c)
  BY <1>2, <1>3, <1>4, LacksBoth, Concatenated
<1> QED  BY <1>1, <1>5, SpawnKept DEF q

\* What the end of an operation leaves to replay, and then its channel to close.
LEMMA ReplayCalls ==
    ASSUME TypeOK, NEW c \in Ends
    PROVE  Replay \o ReplayDerived \in Calls /\ Lacks(Replay \o ReplayDerived, c)
<1>1. Replay \in Calls /\ Lacks(Replay, c) /\ ReplayDerived \in Calls /\ Lacks(ReplayDerived, c)
  BY ReplayComplete, ReplayLack, DerivedTyped, SpawnedLack DEF TypeOK
<1> QED  BY <1>1, LacksBoth, Concatenated

LEMMA FinishForegroundCalls ==
    ASSUME TypeOK, NEW f \in Foregrounds, NEW c \in Ends, c # Closing(f), FinishForeground(f)
    PROVE  CallKept(callers, callers', c)
<1> DEFINE r == Replay \o ReplayDerived
           d == <<Closing(f)>>
<1>1. Spawn(r \o d)
  BY DEF FinishForeground, Closing
<1>2. r \in Calls /\ Lacks(r, c)
  BY ReplayCalls
<1>3. d \in Calls
  BY CallTypes DEF Closing
<1>4. Lacks(d, c)
  BY DEF Lacks
<1> HIDE DEF r, d
<1>5. r \o d \in Calls /\ Lacks(r \o d, c)
  BY <1>2, <1>3, <1>4, LacksBoth, Concatenated
<1> QED  BY <1>1, <1>5, SpawnKept

LEMMA AttachmentsCalls ==
    ASSUME TypeOK, NEW c \in Ends, FinishAttachmentIndex \/ RetryTimer
    PROVE  CallKept(callers, callers', c)
<1>1. CASE RetryTimer
  <2>1. Spawn(<<Do("attach")>>) /\ <<Do("attach")>> \in Calls /\ Lacks(<<Do("attach")>>, c)
    BY <1>1, CallTypes, LacksOne DEF RetryTimer, Ordinary
  <2> QED  BY <2>1, SpawnKept
<1>2. CASE FinishAttachmentIndex
  <2>1. PICK a \in {<<>>, <<Do("scheduleNext")>>}, b \in {<<>>, <<Do("arm")>>},
             d \in {<<>>, <<Do("stats")>>, <<Do("attach")>>} : Spawn(a \o b \o d)
    BY <1>2 DEF FinishAttachmentIndex
  <2>2. /\ a \in Calls /\ Lacks(a, c)
        /\ b \in Calls /\ Lacks(b, c)
        /\ d \in Calls /\ Lacks(d, c)
    BY CallTypes, LacksOne DEF Ordinary
  <2> DEFINE ab == a \o b
  <2>3. ab \in Calls /\ Lacks(ab, c)
    BY <2>2, LacksBoth, Concatenated
  <2>4. Spawn(ab \o d)
    BY <2>1
  <2> HIDE DEF ab
  <2>5. ab \o d \in Calls /\ Lacks(ab \o d, c)
    BY <2>2, <2>3, LacksBoth, Concatenated
  <2> QED  BY <2>4, <2>5, SpawnKept
<1> QED  BY <1>1, <1>2

\* What a goroutine goes on with.
LEMMA GoesOnLacking ==
    ASSUME TypeOK, NEW s \in DOMAIN callers, NEW c \in Ends, NEW d \in Calls, Lacks(d, c),
           \/ Continue(s, d \o Tail(s))
           \/ Continue(s, Tail(s))
           \/ Continue(s, SkipIdle(Tail(s)))
    PROVE  CallKept(callers, callers', c)
<1>1. s \in Calls /\ s # <<>> /\ Tail(s) \in Calls /\ SkipIdle(Tail(s)) \in Calls
  BY TypeParts, HeadAndTail, Skipping DEF Goroutines
<1>2. /\ Lacks(s, c) => Lacks(Tail(s), c)
      /\ Single(s, c) => Single(Tail(s), c)
  BY <1>1, LacksRest
<1> DEFINE u == Tail(s)
<1>3. u \in Calls /\ SkipIdle(u) \in Calls
  BY <1>1
<1> HIDE DEF u
<1>4. CASE Continue(s, u)
  BY <1>2, <1>3, <1>4, ContinueKept DEF u
<1>5. CASE Continue(s, SkipIdle(u))
  <2>1. /\ Lacks(u, c) => Lacks(SkipIdle(u), c)
        /\ Single(u, c) => Single(SkipIdle(u), c)
    BY LacksSkipped
  <2> QED  BY <1>2, <1>3, <1>5, <2>1, ContinueKept DEF u
<1>6. CASE Continue(s, d \o u)
  <2>1. /\ Lacks(u, c) => Lacks(d \o u, c)
        /\ Single(u, c) => Single(d \o u, c)
    BY <1>3, LacksBoth
  <2>2. d \o u \in Calls
    BY <1>3, Concatenated
  <2> QED  BY <1>2, <1>6, <2>1, <2>2, ContinueKept DEF u
<1> QED  BY <1>4, <1>5, <1>6 DEF u

\* The refresh ends; it may leave a goroutine that starts it again.
LEMMA RefreshEnds ==
    ASSUME TypeOK, NEW s \in DOMAIN callers, NEW c \in Ends, FinishSenderStats(s)
    PROVE  CallKept(callers, callers', c)
<1> DEFINE C == (callers (-) Thread(s)) (+) Thread(Tail(s))
<1>1. s \in Calls /\ s # <<>> /\ Tail(s) \in Calls
  BY TypeParts, HeadAndTail DEF Goroutines
<1>2. \/ callers' = C (+) Thread(<<Do("stats")>>)
      \/ Continue(s, <<Do("attach")>> \o Tail(s))
      \/ Continue(s, Tail(s))
  BY DEF FinishSenderStats, Continue
<1>3. <<Do("attach")>> \in Calls /\ Lacks(<<Do("attach")>>, c)
  BY CallTypes, LacksOne DEF Ordinary
<1>4. CASE callers' = C (+) Thread(<<Do("stats")>>)
  <2>1. Goroutines(C)
    BY <1>1, GoesOn, TypeParts
  <2>2. CallKept(callers, C, c)
    BY <1>1, GoneOnKept, LacksRest, TypeParts
  <2>3. <<Do("stats")>> \in Calls /\ Lacks(<<Do("stats")>>, c)
    BY CallTypes, LacksOne DEF Ordinary
  <2> HIDE DEF C
  <2>4. CallKept(C, callers', c)
    BY <1>4, <2>1, <2>3, JoinedKept
  <2> QED  BY <2>2, <2>4 DEF CallKept
<1> QED  BY <1>2, <1>3, <1>4, GoesOnLacking

LEMMA CallsCalls ==
    ASSUME TypeOK, NEW s \in DOMAIN callers, NEW c \in Ends, MakeCall(s)
    PROVE  CallKept(callers, callers', c)
<1>1. \A name \in {"statsEnd", "attach", "scheduleNext"} :
         <<Do(name)>> \in Calls /\ Lacks(<<Do(name)>>, c)
  BY CallTypes, LacksOne DEF Ordinary
<1>2. CASE FinishSenderStats(s)
  BY <1>2, RefreshEnds
<1>3. CASE RefreshSenderStats(s)
  <2>1. Continue(s, Tail(s)) \/ Continue(s, <<Do("statsEnd")>> \o Tail(s))
    BY <1>3 DEF RefreshSenderStats
  <2> QED  BY <1>1, <2>1, GoesOnLacking
<1>4. CASE StartAttachmentIndex(s)
  <2>1. Continue(s, Tail(s)) \/ Continue(s, <<Do("scheduleNext")>> \o Tail(s))
    BY <1>4 DEF StartAttachmentIndex
  <2> QED  BY <1>1, <2>1, GoesOnLacking
<1>5. CASE \/ \E k \in AccountKeys : QueueCall(s, k)
           \/ \E k \in GlobalKeys : PriorityCall(s, k)
           \/ StartCall(s) \/ Skipped(s) \/ AutoNext(s) \/ CloseForeground(s) \/ ScheduleRetry(s)
  <2>1. Continue(s, Tail(s)) \/ Continue(s, SkipIdle(Tail(s)))
    BY <1>5 DEF QueueCall, PriorityCall, StartCall, Skipped, AutoNext, CloseForeground, ScheduleRetry
  <2> QED  BY <1>1, <2>1, GoesOnLacking
<1> QED  BY <1>2, <1>3, <1>4, <1>5 DEF MakeCall

\* Who begins to have such a call to make is the pass's job or an operation that
\* ends; everybody else has what it had.
LEMMA NextCalls ==
    ASSUME TypeOK, NEW c \in Ends, [Next]_vars
    PROVE  \/ CallKept(callers, callers', c)
           \/ c = Returned /\ \E k \in Keys : k = autoJob /\ Release(k)
           \/ \E f \in Foregrounds : c = Closing(f) /\ FinishForeground(f)
<1>1. CASE callers' = callers
  BY <1>1, SameCallers
<1>2. CASE Environment
  <2>1. callers' = callers
    BY <1>2 DEF Environment, QueueAccountMailboxes, StartPriorityMailboxes, StartMailboxes,
                StartMaintenance, Start, GiveUpForeground, BeginForeground
  <2> QED  BY <2>1, <1>1
<1>3. CASE Progress
  <2>1. ASSUME NEW k \in Keys,
               Release(k) \/ \E ok \in BOOLEAN : FinishMaintenance(k, ok)
        PROVE  CallKept(callers, callers', c) \/ (c = Returned /\ k = autoJob /\ Release(k))
    BY <2>1, ReleaseCalls
  <2>2. ASSUME NEW k \in Keys,
               Register(k) \/ BeginPass(k) \/ CompletePass(k) \/ YieldPass(k) \/ PausePass(k)
        PROVE  callers' = callers
    BY <2>2 DEF Register, BeginPass, CompletePass, YieldPass, PausePass
  <2>3. ASSUME PlanPass \/ \E m \in Mailboxes : PassMailbox(m)
        PROVE  callers' = callers
    BY <2>3 DEF PlanPass, PassMailbox
  <2>4. ASSUME NEW f \in Foregrounds, BeginForeground(f) \/ PollForeground(f) \/ HoldForeground(f)
        PROVE  callers' = callers
    BY <2>4 DEF BeginForeground, PollForeground, HoldForeground
  <2>5. ASSUME NEW f \in Foregrounds, FinishForeground(f)
        PROVE  CallKept(callers, callers', c) \/ c = Closing(f)
    BY <2>5, FinishForegroundCalls
  <2> QED
    BY <1>1, <1>3, <2>1, <2>2, <2>3, <2>4, <2>5, FinishPassCalls, AttachmentsCalls, CallsCalls
       DEF Progress
<1> QED  BY <1>1, <1>2, <1>3 DEF Next, vars

-----------------------------------------------------------------------------
(* The pass and its folder's job *)

\* A sync job, as opposed to maintenance.
SyncPhases == {"reserved", "waiting", "syncing", "closing"}

\* The pass is busy as long as its job runs or has its return to make; one job,
\* one return.
PassInv ==
    /\ Alone(callers, Returned)
    /\ Has(callers, Returned) => auto = "busy" /\ autoJob = None
    /\ autoJob # None => auto = "busy" /\ autoJob \in Keys /\ phase[autoJob] \in SyncPhases

\* No refresh beside a pass.
StatsBesideNoPass == statsRunning => auto = "off"

JobKept ==
    /\ autoJob' = autoJob
    /\ autoJob # None => (phase[autoJob] \in SyncPhases => phase'[autoJob] \in SyncPhases)
AutoKept ==
    /\ auto = "busy" <=> auto' = "busy"
    /\ auto' # "off" => auto # "off" \/ ~statsRunning'
PassKept == JobKept /\ AutoKept /\ CallKept(callers, callers', Returned)

LEMMA PassKeptInv ==
    ASSUME PassInv, PassKept
    PROVE  PassInv'
<1>1. Alone(callers, Returned)'
  BY DEF PassInv, PassKept, CallKept, Returned
<1>2. Has(callers', Returned) => Has(callers, Returned)
  BY DEF PassKept, CallKept
<1>3. Has(callers', Returned) => auto' = "busy" /\ autoJob' = None
  BY <1>2 DEF PassInv, PassKept, JobKept, AutoKept
<1>4. Has(callers, Returned)' => auto' = "busy" /\ autoJob' = None
  BY <1>3 DEF Returned
<1>5. autoJob' # None => auto' = "busy" /\ autoJob' \in Keys /\ phase'[autoJob'] \in SyncPhases
  BY DEF PassInv, PassKept, JobKept, AutoKept
<1> QED  BY <1>1, <1>4, <1>5 DEF PassInv

LEMMA SamePass ==
    ASSUME UNCHANGED <<phase, auto, autoJob>>
    PROVE  JobKept /\ AutoKept
BY DEF JobKept, AutoKept

\* A job begins, goes on, or is not the pass's.
LEMMA PhaseKept ==
    ASSUME TypeOK, NEW k \in Keys, NEW ph, phase' = [phase EXCEPT ![k] = ph],
           ph \in SyncPhases \/ phase[k] \notin SyncPhases, autoJob' = autoJob, autoJob \in Keys \cup {None}
    PROVE  JobKept
<1>1. phase \in [Keys -> Phases]
  BY DEF TypeOK
<1>2. SUFFICES ASSUME autoJob # None, phase[autoJob] \in SyncPhases  PROVE phase'[autoJob] \in SyncPhases
  BY DEF JobKept
<1>3. CASE autoJob = k
  BY <1>1, <1>2, <1>3
<1>4. CASE autoJob # k
  BY <1>1, <1>2, <1>4
<1> QED  BY <1>3, <1>4

LEMMA FreeKey ==
    ASSUME NEW k \in Keys, ~Reserved(k)
    PROVE  phase[k] \notin SyncPhases
<1>1. k \in Excluding(k)
  BY DEF Excluding, SameFolder
<1> QED  BY <1>1 DEF Reserved, Held, SyncPhases

LEMMA JobKnown ==
    ASSUME TypeOK
    PROVE  autoJob \in Keys \cup {None}
BY KeyFacts DEF TypeOK

LEMMA AdmissionPass ==
    ASSUME TypeOK, NEW k \in Keys,
           QueueRequest(k) \/ \E started \in BOOLEAN : PriorityRequest(k, started)
    PROVE  JobKept /\ AutoKept
<1>1. UNCHANGED <<auto, autoJob>>
  BY DEF QueueRequest, PriorityRequest, autoVars
<1>2. phase' = phase \/ (phase' = [phase EXCEPT ![k] = "reserved"] /\ ~Reserved(k))
  BY DEF QueueRequest, PriorityRequest, Reserve
<1>3. CASE phase' = phase
  BY <1>1, <1>3, SamePass
<1>4. CASE phase' = [phase EXCEPT ![k] = "reserved"]
  <2>1. JobKept
    BY <1>1, <1>4, PhaseKept, JobKnown DEF SyncPhases
  <2> QED  BY <1>1, <2>1 DEF AutoKept
<1> QED  BY <1>2, <1>3, <1>4

LEMMA EnvironmentPass ==
    ASSUME TypeOK, Environment
    PROVE  PassKept
<1>1. ASSUME NEW k \in AccountKeys, QueueAccountMailboxes(k)  PROVE PassKept
  <2>1. CASE QueueRequest(k)
    BY <1>1, <2>1, AdmissionPass, KeyFacts, SameCallers DEF QueueAccountMailboxes, PassKept
  <2>2. CASE UNCHANGED <<phase, autoVars>>
    BY <1>1, <2>2, SamePass, SameCallers DEF QueueAccountMailboxes, autoVars, PassKept
  <2> QED  BY <1>1, <2>1, <2>2 DEF QueueAccountMailboxes
<1>2. ASSUME NEW k \in GlobalKeys, StartPriorityMailboxes(k)  PROVE PassKept
  BY <1>2, AdmissionPass, KeyFacts, SameCallers DEF StartPriorityMailboxes, PassKept
<1>3. ASSUME NEW k \in Keys, NEW ph, Reserve(k, ph), ~Reserved(k), UNCHANGED <<autoVars, callers>>
      PROVE  PassKept
  <2>1. JobKept
    BY <1>3, PhaseKept, FreeKey, JobKnown DEF Reserve, autoVars
  <2> QED  BY <1>3, <2>1, SameCallers DEF PassKept, AutoKept, autoVars
<1>4. ASSUME NEW k \in Keys, StartMailboxes(k)  PROVE PassKept
  BY <1>3, <1>4 DEF StartMailboxes
<1>5. ASSUME NEW k \in AccountKeys, NEW ph \in {"maintaining", "rebuilding"}, StartMaintenance(k, ph)
      PROVE  PassKept
  BY <1>3, <1>5, KeyFacts DEF StartMaintenance
<1>6. CASE Start
  <2>1. /\ UNCHANGED <<phase, autoJob, callers, statsRunning>> /\ ~statsRunning
        /\ auto = "off" /\ auto' = "planning"
    BY <1>6 DEF Start, StartPass, AfterExclusiveWriters, AfterStats, jobVars, statsVars
  <2> QED  BY <2>1, SameCallers DEF PassKept, JobKept, AutoKept
<1>7. ASSUME NEW f \in Foregrounds, GiveUpForeground(f) \/ BeginForeground(f)  PROVE PassKept
  BY <1>7, SamePass, SameCallers
  DEF GiveUpForeground, BeginForeground, Preempt, jobVars, autoVars, PassKept
<1> QED  BY <1>1, <1>2, <1>4, <1>5, <1>6, <1>7 DEF Environment

LEMMA JobsPass ==
    ASSUME TypeOK, NEW k \in Keys,
           Register(k) \/ BeginPass(k) \/ CompletePass(k) \/ YieldPass(k) \/ PausePass(k)
    PROVE  PassKept
<1>1. /\ \E ph \in SyncPhases : phase' = [phase EXCEPT ![k] = ph]
      /\ UNCHANGED <<auto, autoJob, callers>>
  BY DEF Register, BeginPass, CompletePass, YieldPass, PausePass, autoVars, SyncPhases
<1>2. JobKept
  BY <1>1, PhaseKept, JobKnown
<1> QED  BY <1>1, <1>2, SameCallers DEF PassKept, AutoKept

\* A job that is not the pass's lets go.
LEMMA ReleasePass ==
    ASSUME TypeOK, NEW k \in Keys, k # autoJob,
           Release(k) \/ \E ok \in BOOLEAN : FinishMaintenance(k, ok)
    PROVE  PassKept
<1>1. phase' = [phase EXCEPT ![k] = "free"] /\ autoJob' = autoJob /\ auto' = auto
  BY DEF Release, FinishMaintenance, Free, autoVars
<1>2. JobKept
  BY <1>1, JobKnown DEF JobKept, TypeOK
<1>3. CallKept(callers, callers', Returned)
  BY ReleaseCalls, LacksOne
<1> QED  BY <1>1, <1>2, <1>3 DEF PassKept, AutoKept

\* The pass's does, and is to return.
LEMMA PassReturns ==
    ASSUME TypeOK, PassInv, NEW k \in Keys, k = autoJob, Release(k)
    PROVE  PassInv'
<1>1. /\ autoJob' = None /\ auto' = auto
      /\ \E s \in Reruns(k) : Spawn(s \o <<Do("autoNext")>>)
  BY DEF Release
<1>2. auto = "busy" /\ ~Has(callers, Returned)
  BY NamesAssumption DEF PassInv, Keys, AccountKeys, GlobalKeys
<1>3. PICK s \in Reruns(k) : Spawn(s \o <<Returned>>)
  BY <1>1 DEF Returned
<1>4. s \in Calls /\ Lacks(s, Returned) /\ <<Returned>> \in Calls /\ Single(<<Returned>>, Returned)
  BY RerunsComplete, RerunsLack, CallTypes, LacksOne DEF TypeOK, Returned
<1> DEFINE t == s \o <<Returned>>
<1>5. t \in Calls /\ Single(t, Returned)
  BY <1>4, LacksBoth, Concatenated
<1> HIDE DEF t
<1>6. Alone(callers', Returned)
  BY <1>2, <1>3, <1>5, JoinedFirst, TypeParts DEF Spawn, t
<1>7. Alone(callers, Returned)'
  BY <1>6 DEF Returned
<1> QED  BY <1>1, <1>2, <1>7 DEF PassInv

\* A folder's job begins; nobody else is to return.
LEMMA JobBegins ==
    ASSUME TypeOK, PassInv, NEW k \in Keys, Reserve(k, "reserved"), auto = "running",
           auto' = "busy", autoJob' = k, callers' = callers
    PROVE  PassInv'
<1>1. ~Has(callers', Returned)
  BY DEF PassInv
<1>2. Alone(callers, Returned)' /\ ~Has(callers, Returned)'
  BY <1>1 DEF PassInv, Returned
<1>3. phase'[k] \in SyncPhases
  BY DEF TypeOK, Reserve, SyncPhases
<1> QED  BY <1>2, <1>3 DEF PassInv


\* A step that moves the pass on, or leaves it and its job as they are.
PassStep == PassKept \/ (PassInv' /\ auto # "off")

LEMMA PlansPass ==
    ASSUME TypeOK, PassInv, PlanPass \/ FinishPass
    PROVE  PassStep
<1>1. CASE PlanPass
  <2>1. /\ UNCHANGED <<phase, autoJob, callers>> /\ auto = "planning" /\ auto' = "running"
    BY <1>1 DEF PlanPass, jobVars
  <2> QED  BY <2>1, SameCallers DEF PassStep, PassKept, JobKept, AutoKept
<1>2. CASE FinishPass
  <2>1. /\ UNCHANGED <<phase, autoJob>> /\ auto = "running" /\ auto' = "off"
    BY <1>2 DEF FinishPass, jobVars
  <2>2. CallKept(callers, callers', Returned)
    BY <1>2, FinishPassCalls, LacksOne
  <2> QED  BY <2>1, <2>2 DEF PassStep, PassKept, JobKept, AutoKept
<1> QED  BY <1>1, <1>2

LEMMA FoldersPass ==
    ASSUME TypeOK, PassInv, NEW m \in Mailboxes, PassMailbox(m)
    PROVE  PassStep
<1> DEFINE k == <<AllAccounts, m>>
<1>1. k \in Keys
  BY DEF Keys, GlobalKeys
<1>2. callers' = callers /\ auto = "running"
  BY DEF PassMailbox
<1>3. \/ Reserve(k, "reserved") /\ auto' = "busy" /\ autoJob' = k
      \/ UNCHANGED <<phase, auto, autoJob>>
  BY DEF PassMailbox
<1> HIDE DEF k
<1>4. CASE UNCHANGED <<phase, auto, autoJob>>
  BY <1>2, <1>4, SamePass, SameCallers DEF PassStep, PassKept
<1>5. CASE Reserve(k, "reserved") /\ auto' = "busy" /\ autoJob' = k
  BY <1>1, <1>2, <1>5, JobBegins DEF PassStep
<1> QED  BY <1>3, <1>4, <1>5

LEMMA ForegroundPass ==
    ASSUME TypeOK, NEW f \in Foregrounds,
           BeginForeground(f) \/ PollForeground(f) \/ HoldForeground(f) \/ FinishForeground(f)
    PROVE  PassKept
<1>1. UNCHANGED <<phase, auto, autoJob>>
  BY DEF BeginForeground, PollForeground, HoldForeground, FinishForeground, Preempt, jobVars, autoVars
<1>2. CASE BeginForeground(f) \/ PollForeground(f) \/ HoldForeground(f)
  <2>1. callers' = callers
    BY <1>2 DEF BeginForeground, PollForeground, HoldForeground
  <2> QED  BY <1>1, <2>1, SamePass, SameCallers DEF PassKept
<1>3. CASE FinishForeground(f)
  <2>1. Returned # Closing(f)
    BY DEF Returned, Closing, Do
  <2>2. CallKept(callers, callers', Returned)
    BY <1>3, <2>1, FinishForegroundCalls, LacksOne
  <2> QED  BY <1>1, <2>2, SamePass DEF PassKept
<1> QED  BY <1>2, <1>3

LEMMA AttachmentsPass ==
    ASSUME TypeOK, FinishAttachmentIndex \/ RetryTimer
    PROVE  PassKept
<1>1. UNCHANGED <<phase, auto, autoJob>>
  BY DEF FinishAttachmentIndex, RetryTimer, jobVars, autoVars
<1> QED  BY <1>1, AttachmentsCalls, LacksOne, SamePass DEF PassKept

\* The pass's job has returned: it was the only one to.
LEMMA PassIsBusy ==
    ASSUME TypeOK, PassInv, NEW s \in DOMAIN callers, AutoNext(s)
    PROVE  /\ Head(s) = Returned /\ ~Lacks(s, Returned) /\ Single(s, Returned)
           /\ auto = "busy" /\ autoJob = None
<1>1. s \in Calls /\ s # <<>> /\ Head(s) \in Call
  BY TypeParts, HeadAndTail DEF Goroutines
<1>2. Head(s) = Returned
  BY <1>1 DEF AutoNext, Call, Returned, Do
<1>3. ~Lacks(s, Returned)
  <2>1. 1 \in DOMAIN s /\ s[1] = Head(s)
    BY <1>1 DEF Calls
  <2> QED  BY <1>2, <2>1 DEF Lacks
<1>4. Single(s, Returned) /\ Has(callers, Returned)
  BY <1>3, HasLacks DEF PassInv, Alone
<1> QED  BY <1>2, <1>3, <1>4 DEF PassInv

LEMMA PassGoesOn ==
    ASSUME TypeOK, PassInv, NEW s \in DOMAIN callers, AutoNext(s)
    PROVE  PassStep
<1>1. s \in Calls /\ s # <<>> /\ Tail(s) \in Calls
  BY TypeParts, HeadAndTail DEF Goroutines
<1>2. /\ Head(s) = Returned /\ ~Lacks(s, Returned) /\ Single(s, Returned)
      /\ auto = "busy" /\ autoJob = None
  BY PassIsBusy
<1>3. Lacks(Tail(s), Returned)
  BY <1>1, <1>2, LacksRest
<1>4. ~Has(callers', Returned)
  BY <1>1, <1>2, <1>3, GoneOnLast, TypeParts DEF AutoNext, Continue, PassInv
<1>5. ~Has(callers, Returned)' /\ Alone(callers, Returned)'
  BY <1>4, HasLacks DEF Alone, Returned
<1> QED  BY <1>2, <1>5 DEF AutoNext, PassStep, PassInv

LEMMA CallsPass ==
    ASSUME TypeOK, PassInv, NEW s \in DOMAIN callers, MakeCall(s)
    PROVE  PassStep
<1>1. CallKept(callers, callers', Returned)
  BY CallsCalls, LacksOne
<1>2. CASE \/ \E k \in AccountKeys : QueueCall(s, k)
           \/ \E k \in GlobalKeys : PriorityCall(s, k)
  <2>1. CASE \E k \in Keys : QueueRequest(k) \/ \E started \in BOOLEAN : PriorityRequest(k, started)
    BY <1>1, <2>1, AdmissionPass DEF PassStep, PassKept
  <2>2. CASE UNCHANGED <<phase, autoVars>>
    BY <1>1, <2>2, SamePass DEF autoVars, PassStep, PassKept
  <2> QED  BY <1>2, <2>1, <2>2, KeyFacts DEF QueueCall, PriorityCall, QueueTimeout
<1>3. CASE StartCall(s)
  <2>1. /\ UNCHANGED <<phase, autoJob, statsRunning>> /\ ~statsRunning
        /\ auto' = auto \/ (auto = "off" /\ auto' = "planning")
    BY <1>3 DEF StartCall, StartPass, AfterExclusiveWriters, AfterStats, jobVars, autoVars, statsVars
  <2> QED  BY <1>1, <2>1 DEF PassStep, PassKept, JobKept, AutoKept
<1>4. CASE AutoNext(s)
  BY <1>4, PassGoesOn
<1>5. CASE \/ Skipped(s) \/ CloseForeground(s) \/ ScheduleRetry(s) \/ RefreshSenderStats(s)
           \/ FinishSenderStats(s) \/ StartAttachmentIndex(s)
  BY <1>1, <1>5, SamePass
  DEF Skipped, CloseForeground, ScheduleRetry, RefreshSenderStats, FinishSenderStats,
      StartAttachmentIndex, jobVars, autoVars, PassStep, PassKept
<1> QED  BY <1>2, <1>3, <1>4, <1>5 DEF MakeCall

LEMMA NextPass ==
    ASSUME TypeOK, PassInv, [Next]_vars
    PROVE  PassStep
<1>1. CASE UNCHANGED vars
  BY <1>1, SamePass, SameCallers DEF vars, jobVars, autoVars, PassStep, PassKept
<1>2. CASE Environment
  BY <1>2, EnvironmentPass DEF PassStep
<1>3. ASSUME NEW k \in Keys,
             \/ Register(k) \/ BeginPass(k) \/ CompletePass(k) \/ YieldPass(k) \/ PausePass(k)
             \/ Release(k) \/ \E ok \in BOOLEAN : FinishMaintenance(k, ok)
      PROVE  PassStep
  <2>1. CASE k # autoJob
    BY <1>3, <2>1, JobsPass, ReleasePass DEF PassStep
  <2>2. CASE k = autoJob
    <3>1. k # None
      BY NamesAssumption DEF Keys, AccountKeys, GlobalKeys
    <3>2. phase[k] \in SyncPhases /\ auto = "busy"
      BY <2>2, <3>1 DEF PassInv
    <3>3. ~ \E ok \in BOOLEAN : FinishMaintenance(k, ok)
      BY <3>2 DEF FinishMaintenance, SyncPhases
    <3> QED  BY <1>3, <2>2, <3>2, <3>3, JobsPass, PassReturns DEF PassStep
  <2> QED  BY <2>1, <2>2
<1>4. CASE Progress
  BY <1>3, <1>4, PlansPass, FoldersPass, ForegroundPass, AttachmentsPass, CallsPass
  DEF Progress, PassStep
<1> QED  BY <1>1, <1>2, <1>4 DEF Next

RefreshInv == TypeOK /\ StatsInv /\ PassInv /\ StatsBesideNoPass

LEMMA NextRefreshInv ==
    ASSUME RefreshInv, [Next]_vars
    PROVE  RefreshInv'
<1>1. TypeOK' /\ StatsInv' /\ PassStep /\ DerivedStep
  BY NextTyped, NextStatsInv, NextPass, NextDerivedStep DEF RefreshInv
<1>2. statsRunning' => auto = "off"
  BY <1>1 DEF DerivedStep, OrdinaryRunning, RefreshInv, StatsBesideNoPass
<1>3. CASE PassKept
  <2>1. PassInv'
    BY <1>3, PassKeptInv DEF RefreshInv
  <2>2. StatsBesideNoPass'
    BY <1>2, <1>3 DEF PassKept, AutoKept, StatsBesideNoPass
  <2> QED  BY <1>1, <2>1, <2>2 DEF RefreshInv
<1>4. CASE PassInv' /\ auto # "off"
  BY <1>1, <1>2, <1>4 DEF RefreshInv, StatsBesideNoPass
<1> QED  BY <1>1, <1>3, <1>4 DEF PassStep

LEMMA InitRefreshInv == Init => RefreshInv
<1> SUFFICES ASSUME Init  PROVE RefreshInv
  OBVIOUS
<1>1. TypeOK
  BY InitTyped
<1>2. StatsInv /\ StatsBesideNoPass
  BY DEF Init, StatsInv, PhaseOK, Phases, StatsBesideNoJob, StatsBesideNoPass
<1>3. DOMAIN callers \subseteq {<<Do("attach")>>}
  BY InitCallers
<1>4. Lacks(<<Do("attach")>>, Returned)
  <2>1. "attach" \in Ordinary /\ Returned \in Ends
    BY DEF Ordinary, Ends
  <2> QED  BY <2>1, LacksOne
<1>5. ~Has(callers, Returned) /\ Alone(callers, Returned)
  BY <1>3, <1>4, HasLacks DEF Alone
<1> QED  BY <1>1, <1>2, <1>5 DEF Init, PassInv, RefreshInv

\* The sender statistics are rebuilt beside no mailbox job and no account-wide
\* pass, its plan and the time between its folders included: the pass that a
\* folder's job returns to is the one that waits for it, so it never finds the
\* tenant handed to a refresh meanwhile.
THEOREM StatsAlone == Spec => []StatsExclusive
<1>1. Init => RefreshInv
  BY InitRefreshInv
<1>2. RefreshInv /\ [Next]_vars => RefreshInv'
  BY NextRefreshInv
<1>3. RefreshInv => StatsExclusive
  BY DEF RefreshInv, StatsInv, StatsExclusive, StatsBesideNoPass
<1> QED  BY <1>1, <1>2, <1>3, PTL DEF Spec

-----------------------------------------------------------------------------
(* The channel of a foreground operation *)

\* Each operation has one channel to close, and only when it has ended: it is
\* never closed twice, nor while the operation is inside.
ChannelInv ==
    \A f \in Foregrounds :
        /\ Alone(callers, Closing(f))
        /\ Has(callers, Closing(f)) => fgPc[f] = "finishing"

\* An operation that has ended stays so until its channel is closed.
EndedKept(f) == fgPc[f] = "finishing" => fgPc'[f] = "finishing"

\* A goroutine that closes a channel closes that of an operation that has ended.
LEMMA ClosesEnded ==
    ASSUME TypeOK, ChannelInv, NEW s \in DOMAIN callers, CloseForeground(s)
    PROVE  \E f \in Foregrounds :
              /\ Head(s) = Closing(f) /\ fgPc[f] = "finishing"
              /\ ~Lacks(s, Closing(f)) /\ Single(s, Closing(f))
<1>1. s \in Calls /\ s # <<>> /\ Head(s) \in Call
  BY TypeParts, HeadAndTail DEF Goroutines
<1>2. PICK f \in Foregrounds : Head(s) = Closing(f)
  BY <1>1 DEF CloseForeground, Call, Closing
<1>3. ~Lacks(s, Closing(f))
  <2>1. 1 \in DOMAIN s /\ s[1] = Head(s)
    BY <1>1 DEF Calls
  <2> QED  BY <1>2, <2>1 DEF Lacks
<1>4. Single(s, Closing(f)) /\ Has(callers, Closing(f))
  BY <1>3, HasLacks DEF ChannelInv, Alone
<1> QED  BY <1>2, <1>3, <1>4 DEF ChannelInv

LEMMA EndedStep ==
    ASSUME TypeOK, ChannelInv, [Next]_vars, NEW f \in Foregrounds
    PROVE  EndedKept(f) \/ \E s \in DOMAIN callers : CloseForeground(s) /\ Head(s) = Closing(f)
<1>1. fgPc \in [Foregrounds -> {"idle", "waiting", "woken", "yielding", "abandoned", "held", "finishing"}]
  BY DEF TypeOK
<1>2. CASE fgPc' = fgPc
  BY <1>2 DEF EndedKept
<1>3. ASSUME NEW g \in Foregrounds,
             \/ BeginForeground(g) \/ GiveUpForeground(g) \/ PollForeground(g)
             \/ HoldForeground(g) \/ FinishForeground(g)
      PROVE  EndedKept(f)
  BY <1>1, <1>3 DEF BeginForeground, GiveUpForeground, PollForeground, HoldForeground, FinishForeground,
                    EndedKept
<1>4. ASSUME NEW s \in DOMAIN callers, CloseForeground(s)
      PROVE  EndedKept(f) \/ Head(s) = Closing(f)
  <2>1. PICK g \in Foregrounds : Head(s) = Closing(g)
    BY <1>4, ClosesEnded
  <2>2. Head(s).f = g
    BY <2>1 DEF Closing
  <2>3. CASE f # g
    <3>1. f \notin WaitersOf(g) \/ fgPc[f] # "finishing"
      BY DEF WaitersOf
    <3> QED  BY <1>1, <1>4, <2>2, <2>3, <3>1 DEF CloseForeground, EndedKept
  <2> QED  BY <2>1, <2>3
<1>5. CASE UNCHANGED vars
  BY <1>2, <1>5 DEF vars, fgVars
<1>6. CASE Environment
  <2>1. CASE \E g \in Foregrounds : GiveUpForeground(g) \/ BeginForeground(g)
    BY <1>3, <2>1
  <2>2. CASE fgPc' = fgPc
    BY <1>2, <2>2
  <2> QED
    BY <1>6, <2>1, <2>2 DEF Environment, QueueAccountMailboxes, StartPriorityMailboxes, StartMailboxes,
       StartMaintenance, Start, StartPass, QueueRequest, PriorityRequest, fgVars
<1>7. CASE Progress
  <2>1. CASE \E g \in Foregrounds :
                BeginForeground(g) \/ PollForeground(g) \/ HoldForeground(g) \/ FinishForeground(g)
    BY <1>3, <2>1
  <2>2. ASSUME NEW s \in DOMAIN callers, MakeCall(s)
        PROVE  fgPc' = fgPc \/ CloseForeground(s)
    BY <2>2 DEF MakeCall, QueueCall, PriorityCall, QueueRequest, PriorityRequest, QueueTimeout, StartCall,
       StartPass, AutoNext, Skipped, RefreshSenderStats, FinishSenderStats, StartAttachmentIndex,
       ScheduleRetry, fgVars
  <2>3. ASSUME NEW k \in Keys,
               \/ Register(k) \/ BeginPass(k) \/ CompletePass(k) \/ YieldPass(k) \/ PausePass(k)
               \/ Release(k) \/ \E ok \in BOOLEAN : FinishMaintenance(k, ok)
        PROVE  fgPc' = fgPc
    BY <2>3 DEF Register, BeginPass, CompletePass, YieldPass, PausePass, Release,
                FinishMaintenance, fgVars
  <2>4. ASSUME \/ PlanPass \/ FinishPass \/ FinishAttachmentIndex \/ RetryTimer
               \/ \E m \in Mailboxes : PassMailbox(m)
        PROVE  fgPc' = fgPc
    BY <2>4 DEF PlanPass, FinishPass, FinishAttachmentIndex, RetryTimer, PassMailbox, fgVars
  <2> QED  BY <1>2, <1>4, <1>7, <2>1, <2>2, <2>3, <2>4 DEF Progress
<1> QED  BY <1>5, <1>6, <1>7 DEF Next

LEMMA NextChannelInv ==
    ASSUME TypeOK, ChannelInv, [Next]_vars
    PROVE  ChannelInv'
<1> SUFFICES ASSUME NEW f \in Foregrounds
             PROVE  /\ Alone(callers', Closing(f))
                    /\ Has(callers', Closing(f)) => fgPc'[f] = "finishing"
  <2>1. \A f \in Foregrounds : /\ Alone(callers', Closing(f))
                               /\ Has(callers', Closing(f)) => fgPc'[f] = "finishing"
    OBVIOUS
  <2> QED  BY <2>1 DEF ChannelInv, Closing
<1>1. Alone(callers, Closing(f)) /\ (Has(callers, Closing(f)) => fgPc[f] = "finishing")
  BY DEF ChannelInv
<1>2. ASSUME FinishForeground(f)
      PROVE  Alone(callers', Closing(f)) /\ fgPc'[f] = "finishing"
  <2> DEFINE r == Replay \o ReplayDerived
             d == <<Closing(f)>>
  <2>1. Spawn(r \o d)
    BY <1>2 DEF FinishForeground, Closing
  <2>2. fgPc'[f] = "finishing" /\ fgPc[f] # "finishing"
    BY <1>2 DEF FinishForeground, TypeOK
  <2>3. ~Has(callers, Closing(f))
    BY <1>1, <2>2
  <2>4. r \in Calls /\ Lacks(r, Closing(f)) /\ d \in Calls /\ Single(d, Closing(f))
    BY ReplayCalls, LacksOne, CallTypes DEF Closing
  <2> HIDE DEF r, d
  <2>5. r \o d \in Calls /\ Single(r \o d, Closing(f))
    BY <2>4, LacksBoth, Concatenated
  <2>6. Alone(callers', Closing(f))
    BY <2>1, <2>3, <2>5, JoinedFirst, TypeParts DEF Spawn
  <2> QED  BY <2>2, <2>6
<1>3. ASSUME NEW s \in DOMAIN callers, CloseForeground(s), Head(s) = Closing(f)
      PROVE  ~Has(callers', Closing(f))
  <2>1. ~Lacks(s, Closing(f)) /\ Single(s, Closing(f))
    BY <1>3, ClosesEnded
  <2>2. s \in Calls /\ s # <<>> /\ Tail(s) \in Calls
    BY TypeParts, HeadAndTail DEF Goroutines
  <2>3. Lacks(Tail(s), Closing(f))
    BY <1>3, <2>1, <2>2, LacksRest
  <2> QED  BY <1>1, <1>3, <2>1, <2>2, <2>3, GoneOnLast, TypeParts DEF CloseForeground, Continue
<1>4. CASE ~FinishForeground(f)
  <2>1. Closing(f) \in Ends
    BY LacksOne
  <2>2. Closing(f) # Returned /\ \A g : Closing(f) = Closing(g) => f = g
    <3>1. ASSUME NEW g, Closing(f) = Closing(g)  PROVE f = g
      <4>1. Closing(f).f = f /\ Closing(g).f = g
        BY DEF Closing
      <4> QED  BY <3>1, <4>1
    <3> QED  BY <3>1 DEF Closing, Returned, Do
  <2>3. CallKept(callers, callers', Closing(f))
    BY <1>4, <2>1, <2>2, NextCalls
  <2>4. CASE \E s \in DOMAIN callers : CloseForeground(s) /\ Head(s) = Closing(f)
    BY <1>1, <1>3, <2>3, <2>4 DEF CallKept
  <2>5. CASE EndedKept(f)
    BY <1>1, <2>3, <2>5 DEF CallKept, EndedKept
  <2> QED  BY <2>4, <2>5, EndedStep
<1> QED  BY <1>2, <1>4

LEMMA InitChannelInv == Init => ChannelInv
<1> SUFFICES ASSUME Init  PROVE ChannelInv
  OBVIOUS
<1>1. DOMAIN callers \subseteq {<<Do("attach")>>}
  BY InitCallers
<1>2. \A c \in Ends : Lacks(<<Do("attach")>>, c)
  BY LacksOne DEF Ordinary
<1>3. \A c \in Ends : ~Has(callers, c) /\ Alone(callers, c)
  BY <1>1, <1>2, HasLacks DEF Alone
<1> QED  BY <1>3, LacksOne DEF ChannelInv

-----------------------------------------------------------------------------
(* Who writes the mirror beside whom: the runner implements MirrorAccess *)

\* Nobody is let in, kept out or refreshed by the step.
Outside == UNCHANGED <<holder, fgPc, statsRunning, attachRunning>>
PassStays == auto' = "off" <=> auto = "off"

AccessStep == Access!Next \/ UNCHANGED Access!access

LEMMA SameMirror ==
    ASSUME Outside, PassStays
    PROVE  UNCHANGED Access!foreground /\ UNCHANGED Access!derived
           /\ (auto' # "off") = (auto # "off")
BY DEF Outside, PassStays, Access!foreground, Access!derived, Askers, Asking, Admitted

LEMMA SameJobsAccess ==
    ASSUME phase' = phase
    PROVE  UNCHANGED Access!jobs
BY DEF Access!jobs, Writers, Rebuilders, Held

LEMMA SameAccess ==
    ASSUME phase' = phase, Outside, PassStays
    PROVE  AccessStep
BY SameMirror, SameJobsAccess DEF AccessStep, Access!access

LEMMA JobKeys == Keys = Access!Jobs
BY DEF Keys, AccountKeys, GlobalKeys, Access!Jobs

\* A job goes on: it neither becomes nor ceases to be a writer.
LEMMA JobGoesOn ==
    ASSUME TypeOK, NEW k \in Keys, NEW ph \in SyncPhases, phase[k] \in SyncPhases,
           phase' = [phase EXCEPT ![k] = ph], Outside, PassStays
    PROVE  AccessStep
<1>1. Writers' = Writers /\ Rebuilders' = Rebuilders
  BY DEF Writers, Rebuilders, Held, SyncPhases, TypeOK
<1> QED  BY <1>1, SameMirror DEF AccessStep, Access!access, Access!jobs

\* No reservation in the way is no job in the way.
LEMMA NoOverlap ==
    ASSUME NEW k \in Keys, ~Reserved(k), NEW h \in Held
    PROVE  ~Access!Overlap(k, h)
<1>1. h \in Keys /\ h \notin Excluding(k)
  BY DEF Reserved, Held
<1>2. CASE k \in GlobalKeys
  BY <1>1, <1>2 DEF Excluding, SameFolder, Access!Overlap
<1>3. CASE k \in AccountKeys /\ k \notin GlobalKeys
  <2>1. k[1] # AllAccounts /\ k = <<k[1], k[2]>> /\ h = <<h[1], h[2]>>
    BY <1>1, <1>3, NamesAssumption DEF Keys, AccountKeys, GlobalKeys
  <2>2. h # k /\ h # <<AllAccounts, k[2]>>
    BY <1>1, <1>3 DEF Excluding, Global
  <2> QED  BY <2>1, <2>2 DEF Access!Overlap
<1> QED  BY <1>2, <1>3 DEF Keys

LEMMA JobAdmitted ==
    ASSUME TypeOK, NEW k \in Keys, NEW ph \in Phases \ {"free"}, ~Reserved(k),
           phase' = [phase EXCEPT ![k] = ph], ~statsRunning, holder = None, Outside, PassStays
    PROVE  AccessStep
<1>1. Access!Admits
  BY DEF Access!Admits
<1>2. Writers \cup Rebuilders = Held
  BY DEF Writers, Rebuilders
<1>3. Access!FreeOf(k)
  BY <1>2, NoOverlap DEF Access!FreeOf
<1>4. phase \in [Keys -> Phases]
  BY DEF TypeOK
<1>5. k \notin Held
  <2>1. k \in Excluding(k)
    BY DEF Excluding, SameFolder
  <2> QED  BY <2>1 DEF Reserved
<1>6. CASE ph = "rebuilding"
  <2>1. Rebuilders' = Rebuilders \cup {k} /\ Writers' = Writers
    BY <1>4, <1>5, <1>6 DEF Writers, Rebuilders, Held
  <2> QED  BY <1>1, <1>3, <2>1, SameMirror, JobKeys DEF Access!BeginJob, Access!Next, AccessStep
<1>7. CASE ph # "rebuilding"
  <2>1. Writers' = Writers \cup {k} /\ Rebuilders' = Rebuilders
    BY <1>4, <1>5, <1>7 DEF Writers, Rebuilders, Held
  <2> QED  BY <1>1, <1>3, <2>1, SameMirror, JobKeys DEF Access!BeginJob, Access!Next, AccessStep
<1> QED  BY <1>6, <1>7

LEMMA JobEnds ==
    ASSUME TypeOK, NEW k \in Held, phase' = [phase EXCEPT ![k] = "free"], Outside, PassStays
    PROVE  AccessStep
<1>1. k \in Keys /\ k \in Writers \cup Rebuilders
  BY DEF Writers, Rebuilders, Held
<1>2. Writers' = Writers \ {k} /\ Rebuilders' = Rebuilders \ {k}
  BY <1>1 DEF Writers, Rebuilders, Held, TypeOK
<1> QED  BY <1>1, <1>2, SameMirror, JobKeys DEF Access!EndJob, Access!Next, AccessStep

LEMMA AdmissionAccess ==
    ASSUME TypeOK, NEW k \in Keys,
           QueueRequest(k) \/ \E started \in BOOLEAN : PriorityRequest(k, started)
    PROVE  AccessStep
<1>1. Outside /\ PassStays
  BY DEF QueueRequest, PriorityRequest, Reserve, PauseAttachment, autoVars, statsVars, attachVars,
         Outside, PassStays
<1>2. \/ phase' = phase
      \/ /\ phase' = [phase EXCEPT ![k] = "reserved"]
         /\ ~Reserved(k) /\ ~statsRunning /\ holder = None
  BY DEF QueueRequest, PriorityRequest, Reserve, AfterStats
<1>3. "reserved" \in Phases \ {"free"}
  BY DEF Phases
<1> QED  BY <1>1, <1>2, <1>3, SameAccess, JobAdmitted

LEMMA PassBegins ==
    ASSUME StartPass(TRUE)
    PROVE  AccessStep
<1>1. /\ ~statsRunning /\ holder = None /\ auto = "off" /\ auto' = "planning"
      /\ phase' = phase /\ Outside
  BY DEF StartPass, AfterExclusiveWriters, AfterStats, PauseAttachment, jobVars, fgVars, statsVars, Outside
<1>2. UNCHANGED Access!foreground /\ UNCHANGED Access!derived /\ UNCHANGED Access!jobs
  BY <1>1, SameJobsAccess DEF Outside, Access!foreground, Access!derived, Askers, Asking, Admitted
<1> QED  BY <1>1, <1>2 DEF Access!BeginPass, Access!Admits, Access!Next, AccessStep

LEMMA EnvironmentAccess ==
    ASSUME TypeOK, Environment
    PROVE  AccessStep \/ \E f \in Foregrounds : GiveUpForeground(f) \/ BeginForeground(f)
<1>1. ASSUME NEW k \in AccountKeys, QueueAccountMailboxes(k)  PROVE AccessStep
  <2>1. CASE QueueRequest(k)
    BY <2>1, AdmissionAccess, KeyFacts
  <2>2. CASE UNCHANGED <<phase, autoVars, fgVars, statsVars, attachVars>>
    BY <2>2, SameAccess DEF autoVars, fgVars, statsVars, attachVars, Outside, PassStays
  <2> QED  BY <1>1, <2>1, <2>2 DEF QueueAccountMailboxes
<1>2. ASSUME NEW k \in GlobalKeys, StartPriorityMailboxes(k)  PROVE AccessStep
  BY <1>2, AdmissionAccess, KeyFacts DEF StartPriorityMailboxes
<1>3. ASSUME NEW k \in Keys, NEW ph \in Phases \ {"free"}, Reserve(k, ph), ~Reserved(k),
             AfterExclusiveWriters, UNCHANGED <<autoVars, fgVars, statsVars>>
      PROVE  AccessStep
  <2>1. Outside /\ PassStays
    BY <1>3 DEF Reserve, PauseAttachment, autoVars, fgVars, statsVars, Outside, PassStays
  <2> QED  BY <1>3, <2>1, JobAdmitted DEF Reserve, AfterExclusiveWriters, AfterStats
<1>4. ASSUME NEW k \in Keys, StartMailboxes(k)  PROVE AccessStep
  BY <1>3, <1>4 DEF StartMailboxes, Phases
<1>5. ASSUME NEW k \in AccountKeys, NEW ph \in {"maintaining", "rebuilding"}, StartMaintenance(k, ph)
      PROVE  AccessStep
  BY <1>3, <1>5, KeyFacts DEF StartMaintenance, Phases
<1> QED  BY <1>1, <1>2, <1>4, <1>5, PassBegins DEF Environment, Start

LEMMA JobsAccess ==
    ASSUME TypeOK, NEW k \in Keys,
           \/ Register(k) \/ BeginPass(k) \/ CompletePass(k) \/ YieldPass(k) \/ PausePass(k)
           \/ Release(k) \/ \E ok \in BOOLEAN : FinishMaintenance(k, ok)
    PROVE  AccessStep
<1>1. Outside /\ PassStays
  BY DEF Register, BeginPass, CompletePass, YieldPass, PausePass, Release, FinishMaintenance,
         autoVars, fgVars, statsVars, attachVars, Outside, PassStays
<1>2. CASE Register(k) \/ BeginPass(k) \/ CompletePass(k) \/ YieldPass(k) \/ PausePass(k)
  <2>1. phase[k] \in SyncPhases /\ \E ph \in SyncPhases : phase' = [phase EXCEPT ![k] = ph]
    BY <1>2 DEF Register, BeginPass, CompletePass, YieldPass, PausePass, SyncPhases
  <2> QED  BY <1>1, <2>1, JobGoesOn
<1>3. CASE Release(k) \/ \E ok \in BOOLEAN : FinishMaintenance(k, ok)
  <2>1. k \in Held /\ phase' = [phase EXCEPT ![k] = "free"]
    BY <1>3 DEF Release, FinishMaintenance, Free, Held
  <2> QED  BY <1>1, <2>1, JobEnds
<1> QED  BY <1>2, <1>3

LEMMA PassAccess ==
    ASSUME TypeOK, PlanPass \/ FinishPass \/ \E m \in Mailboxes : PassMailbox(m)
    PROVE  AccessStep
<1>1. Outside
  BY DEF PlanPass, FinishPass, PassMailbox, Reserve, PauseAttachment, fgVars, statsVars, attachVars, Outside
<1>2. CASE PlanPass
  <2>1. phase' = phase /\ PassStays
    BY <1>2 DEF PlanPass, jobVars, PassStays
  <2> QED  BY <1>1, <2>1, SameAccess
<1>3. CASE FinishPass
  <2>1. phase' = phase /\ auto # "off" /\ auto' = "off"
    BY <1>3 DEF FinishPass, jobVars
  <2>2. UNCHANGED Access!foreground /\ UNCHANGED Access!derived /\ UNCHANGED Access!jobs
    BY <1>1, <2>1, SameJobsAccess DEF Outside, Access!foreground, Access!derived, Askers, Asking, Admitted
  <2> QED  BY <2>1, <2>2 DEF Access!EndPass, Access!Next, AccessStep
<1>4. ASSUME NEW m \in Mailboxes, PassMailbox(m)  PROVE AccessStep
  <2> DEFINE k == <<AllAccounts, m>>
  <2>1. k \in Keys /\ "reserved" \in Phases \ {"free"}
    BY DEF Keys, GlobalKeys, Phases
  <2>2. PassStays
    BY <1>4 DEF PassMailbox, PassStays
  <2>3. \/ phase' = phase
        \/ phase' = [phase EXCEPT ![k] = "reserved"] /\ ~Reserved(k) /\ AfterExclusiveWriters
    BY <1>4 DEF PassMailbox, Reserve
  <2> HIDE DEF k
  <2> QED
    BY <1>1, <2>1, <2>2, <2>3, SameAccess, JobAdmitted DEF AfterExclusiveWriters, AfterStats
<1> QED  BY <1>2, <1>3, <1>4

LEMMA ForegroundAccess ==
    ASSUME TypeOK, BarrierInv, NEW f \in Foregrounds,
           \/ BeginForeground(f) \/ GiveUpForeground(f) \/ PollForeground(f)
           \/ HoldForeground(f) \/ FinishForeground(f)
    PROVE  AccessStep
<1>1. UNCHANGED <<phase, auto, statsRunning, attachRunning>>
  BY DEF BeginForeground, GiveUpForeground, PollForeground, HoldForeground, FinishForeground, Preempt,
         PauseAttachment, jobVars, autoVars, statsVars, attachVars
<1>2. UNCHANGED Access!jobs /\ UNCHANGED Access!derived /\ (auto' # "off") = (auto # "off")
  BY <1>1, SameJobsAccess DEF Access!derived
<1>3. f # None /\ FgPcOK
  BY NamesAssumption DEF BarrierInv
<1>4. CASE BeginForeground(f)
  <2>1. fgPc[f] \in {"idle", "woken"} /\ Admitted' = Admitted /\ f \notin Admitted
    BY <1>3, <1>4 DEF BeginForeground, FgPcOK, Admitted
  <2>2. Askers' = Askers \cup {f}
    BY <1>3, <1>4 DEF BeginForeground, FgPcOK, Askers, Asking
  <2>3. holder' = IF holder = None THEN f ELSE holder
    BY <1>4 DEF BeginForeground
  <2>4. CASE fgPc[f] = "idle"
    <3>1. f \notin Askers
      BY <2>4 DEF Askers, Asking
    <3> QED
      BY <1>2, <2>1, <2>2, <2>3, <3>1 DEF Access!Ask, Access!Next, AccessStep
  <2>5. CASE fgPc[f] = "woken"
    <3>1. f \in Askers /\ Askers' = Askers
      BY <2>2, <2>5 DEF Askers, Asking
    <3>2. CASE holder = None
      BY <1>2, <2>1, <2>3, <3>1, <3>2 DEF Access!Raise, Access!Next, AccessStep
    <3>3. CASE holder # None
      BY <1>2, <2>1, <2>3, <3>1, <3>3 DEF Access!access, Access!foreground, AccessStep
    <3> QED  BY <3>2, <3>3
  <2> QED  BY <2>1, <2>4, <2>5
<1>5. CASE GiveUpForeground(f)
  <2>1. f \in Askers /\ Askers' = Askers \ {f} /\ Admitted' = Admitted /\ holder' = holder
    BY <1>3, <1>5 DEF GiveUpForeground, FgPcOK, Askers, Asking, Admitted
  <2> QED  BY <1>2, <2>1 DEF Access!GiveUp, Access!Next, AccessStep
<1>6. CASE PollForeground(f)
  <2>1. Outside /\ PassStays
    BY <1>1, <1>6 DEF PollForeground, Outside, PassStays
  <2> QED  BY <1>1, <2>1, SameAccess
<1>7. CASE HoldForeground(f)
  <2>1. f \in Askers /\ Askers' = Askers \ {f} /\ Admitted' = Admitted \cup {f} /\ holder' = holder
    BY <1>3, <1>7 DEF HoldForeground, FgPcOK, Askers, Asking, Admitted
  <2>2. holder = f
    BY <1>7 DEF HoldForeground, BarrierInv, BarrierOwner, Barrier
  <2>3. Writers = {} /\ ~statsRunning /\ ~attachRunning
    BY <1>7 DEF HoldForeground, Yielded, WriterRunning, Writers
  <2> QED  BY <1>2, <2>1, <2>2, <2>3 DEF Access!Enter, Access!Next, AccessStep
<1>8. CASE FinishForeground(f)
  <2>1. f \notin Askers /\ Askers' = Askers /\ Admitted' = Admitted \ {f} /\ holder' = None
    BY <1>3, <1>8 DEF FinishForeground, FgPcOK, Askers, Asking, Admitted
  <2>2. holder = f
    BY <1>8 DEF FinishForeground, BarrierInv, BarrierOwner, Barrier
  <2> QED  BY <1>2, <2>1, <2>2 DEF Access!Lower, Access!Next, AccessStep
<1> QED  BY <1>4, <1>5, <1>6, <1>7, <1>8

LEMMA DerivedAccess ==
    ASSUME TypeOK, NEW s,
           \/ RefreshSenderStats(s) \/ FinishSenderStats(s)
           \/ StartAttachmentIndex(s) \/ FinishAttachmentIndex
    PROVE  AccessStep
<1>1. UNCHANGED <<phase, auto, holder, fgPc>>
  BY DEF RefreshSenderStats, FinishSenderStats, StartAttachmentIndex, FinishAttachmentIndex,
         jobVars, autoVars, fgVars
<1>2. /\ UNCHANGED Access!jobs /\ UNCHANGED Access!foreground /\ (auto' # "off") = (auto # "off")
  BY <1>1, SameJobsAccess DEF Access!foreground, Askers, Asking, Admitted
<1>3. ~OrdinaryRunning => Access!Idle
  BY DEF OrdinaryRunning, Access!Idle, Writers, Rebuilders
<1>4. CASE UNCHANGED <<statsRunning, attachRunning>>
  BY <1>1, <1>4, SameAccess DEF Outside, PassStays
<1>5. CASE /\ statsRunning' = ~statsRunning /\ attachRunning' = attachRunning
           /\ statsRunning \/ (~OrdinaryRunning /\ ~attachRunning)
  BY <1>2, <1>3, <1>5 DEF Access!Refresh, Access!Next, AccessStep
<1>6. CASE /\ attachRunning' = ~attachRunning /\ statsRunning' = statsRunning
           /\ attachRunning \/ (~OrdinaryRunning /\ ~statsRunning)
  BY <1>2, <1>3, <1>6 DEF Access!Index, Access!Next, AccessStep
<1>7. CASE RefreshSenderStats(s) \/ FinishSenderStats(s)
  <2>1. attachRunning' = attachRunning
    BY <1>7 DEF RefreshSenderStats, FinishSenderStats, attachVars
  <2>2. \/ statsRunning' = statsRunning
        \/ /\ statsRunning' = ~statsRunning
           /\ statsRunning \/ (~OrdinaryRunning /\ ~attachRunning)
    <3>1. CASE RefreshSenderStats(s)
      <4>1. \/ statsRunning' = statsRunning
            \/ ~OrdinaryRunning /\ ~attachRunning /\ ~statsRunning /\ statsRunning' = TRUE
        BY <3>1 DEF RefreshSenderStats
      <4> QED  BY <4>1
    <3>2. CASE FinishSenderStats(s)
      <4>1. statsRunning' = FALSE /\ statsRunning \in BOOLEAN
        BY <3>2 DEF FinishSenderStats, TypeOK
      <4>2. CASE statsRunning = TRUE
        BY <4>1, <4>2
      <4>3. CASE statsRunning = FALSE
        BY <4>1, <4>3
      <4> QED  BY <4>1, <4>2, <4>3
    <3> QED  BY <1>7, <3>1, <3>2
  <2> QED  BY <1>4, <1>5, <2>1, <2>2
<1>8. CASE StartAttachmentIndex(s) \/ FinishAttachmentIndex
  <2>1. statsRunning' = statsRunning
    BY <1>8 DEF StartAttachmentIndex, FinishAttachmentIndex, statsVars
  <2>2. \/ attachRunning' = attachRunning
        \/ /\ attachRunning' = ~attachRunning
           /\ attachRunning \/ (~OrdinaryRunning /\ ~statsRunning)
    BY <1>8 DEF StartAttachmentIndex, FinishAttachmentIndex
  <2> QED  BY <1>4, <1>6, <2>1, <2>2
<1> QED  BY <1>7, <1>8

\* A channel is closed by an operation that has ended: those who ask go on asking.
LEMMA CloseAccess ==
    ASSUME TypeOK, ChannelInv, NEW s \in DOMAIN callers, CloseForeground(s)
    PROVE  AccessStep
<1>1. PICK f \in Foregrounds : Head(s) = Closing(f) /\ fgPc[f] = "finishing"
  BY ClosesEnded
<1>2. Head(s).f = f
  BY <1>1 DEF Closing
<1>3. /\ fgPc' = [x \in Foregrounds |-> IF x \in WaitersOf(f) THEN "woken"
                                        ELSE IF x = f THEN "idle" ELSE fgPc[x]]
      /\ UNCHANGED <<phase, auto, holder, statsRunning, attachRunning>>
  BY <1>2 DEF CloseForeground, jobVars, autoVars, statsVars, attachVars
<1>4. ASSUME NEW x \in Foregrounds
      PROVE  (Asking(x)' <=> Asking(x)) /\ (fgPc'[x] = "held" <=> fgPc[x] = "held")
  BY <1>1, <1>3 DEF WaitersOf, Asking
<1>5. Askers' = Askers /\ Admitted' = Admitted
  BY <1>4 DEF Askers, Admitted
<1> QED
  BY <1>3, <1>5, SameJobsAccess DEF AccessStep, Access!access, Access!foreground, Access!derived

LEMMA CallsAccess ==
    ASSUME TypeOK, PassInv, ChannelInv, NEW s \in DOMAIN callers, MakeCall(s)
    PROVE  AccessStep
<1>1. CASE \/ \E k \in AccountKeys : QueueCall(s, k)
           \/ \E k \in GlobalKeys : PriorityCall(s, k)
  <2>1. CASE \E k \in Keys : QueueRequest(k) \/ \E started \in BOOLEAN : PriorityRequest(k, started)
    BY <2>1, AdmissionAccess
  <2>2. CASE UNCHANGED <<phase, autoVars, fgVars, statsVars, attachVars>>
    BY <2>2, SameAccess DEF autoVars, fgVars, statsVars, attachVars, Outside, PassStays
  <2> QED  BY <1>1, <2>1, <2>2, KeyFacts DEF QueueCall, PriorityCall, QueueTimeout
<1>2. CASE StartCall(s)
  <2>1. CASE StartPass(FALSE)
    <3>1. phase' = phase /\ Outside /\ PassStays
      BY <2>1 DEF StartPass, jobVars, autoVars, fgVars, statsVars, attachVars, Outside, PassStays
    <3> QED  BY <3>1, SameAccess
  <2> QED  BY <1>2, <2>1, PassBegins DEF StartCall
<1>3. CASE AutoNext(s)
  <2>1. auto = "busy" /\ auto' = "running"
    BY <1>3, PassIsBusy DEF AutoNext
  <2>2. phase' = phase /\ Outside
    BY <1>3 DEF AutoNext, jobVars, fgVars, statsVars, attachVars, Outside
  <2> QED  BY <2>1, <2>2, SameAccess DEF PassStays
<1>4. CASE Skipped(s) \/ ScheduleRetry(s)
  <2>1. phase' = phase /\ Outside /\ PassStays
    BY <1>4 DEF Skipped, ScheduleRetry, jobVars, autoVars, fgVars, statsVars, attachVars, Outside, PassStays
  <2> QED  BY <2>1, SameAccess
<1> QED  BY <1>1, <1>2, <1>3, <1>4, CloseAccess, DerivedAccess DEF MakeCall

\* What the mapping rests on: who raised the barrier, that the pass is busy when
\* its job returns, and that only an ended operation closes its channel.
AccessInv == TypeOK /\ BarrierInv /\ PassInv /\ ChannelInv

LEMMA NextAccess ==
    ASSUME AccessInv, [Next]_vars
    PROVE  AccessStep
<1>1. CASE UNCHANGED vars
  BY <1>1, SameAccess DEF vars, jobVars, autoVars, fgVars, statsVars, attachVars, Outside, PassStays
<1>2. CASE Environment
  BY <1>2, EnvironmentAccess, ForegroundAccess DEF AccessInv
<1>3. CASE RetryTimer
  <2>1. phase' = phase /\ Outside /\ PassStays
    BY <1>3 DEF RetryTimer, jobVars, autoVars, fgVars, statsVars, Outside, PassStays
  <2> QED  BY <2>1, SameAccess
<1>4. CASE Progress
  BY <1>3, <1>4, JobsAccess, PassAccess, ForegroundAccess, DerivedAccess, CallsAccess
  DEF Progress, AccessInv
<1> QED  BY <1>1, <1>2, <1>4 DEF Next

LEMMA InitAccess == Init => Access!Init
<1> SUFFICES ASSUME Init  PROVE Access!Init
  OBVIOUS
<1>1. Writers = {} /\ Rebuilders = {} /\ Askers = {} /\ Admitted = {}
  BY DEF Init, Writers, Rebuilders, Held, Askers, Asking, Admitted
<1> QED  BY <1>1 DEF Init, Access!Init

LEMMA NextAccessInv ==
    ASSUME RefreshInv, BarrierInv, ChannelInv, [Next]_vars
    PROVE  RefreshInv' /\ BarrierInv' /\ ChannelInv'
BY NextRefreshInv, NextBarrierStep, NextChannelInv DEF RefreshInv

LEMMA InitBarrier == Init => BarrierInv
BY DEF Init, BarrierInv, FgPcOK, BarrierOwner, Barrier

\* For any accounts, folders and callers: whatever the runner reserves, cancels,
\* remembers, replays and waits for, who writes the mirror beside whom is as
\* MirrorAccess promises.
THEOREM AccessImplemented == Spec => ImplementsAccess
<1> DEFINE Inv == RefreshInv /\ BarrierInv /\ ChannelInv
<1>1. Init => Inv
  BY InitRefreshInv, InitBarrier, InitChannelInv
<1>2. Inv /\ [Next]_vars => Inv'
  BY NextAccessInv
<1>3. Init => Access!Init
  BY InitAccess
<1>4. Inv /\ [Next]_vars => [Access!Next]_(Access!access)
  BY NextAccess DEF RefreshInv, AccessInv, AccessStep
<1> QED
  BY <1>1, <1>2, <1>3, <1>4, PTL DEF Spec, ImplementsAccess, Access!Spec

\* What MirrorAccess promises is enough: with this, its exclusion is inductive.
ExclusiveInv == Access!MirrorExclusive /\ Admitted \subseteq Foregrounds

LEMMA NextExclusive ==
    ASSUME ExclusiveInv, [Access!Next]_(Access!access)
    PROVE  ExclusiveInv'
<1> USE DEF ExclusiveInv, Access!MirrorExclusive, Access!jobs, Access!foreground, Access!derived
<1>1. holder = None => Admitted = {}
  BY NamesAssumption
<1>2. ASSUME NEW j \in Access!Jobs, Access!BeginJob(j)  PROVE ExclusiveInv'
  <2>1. j \notin Writers \cup Rebuilders /\ Admitted = {} /\ ~statsRunning
    BY <1>1, <1>2 DEF Access!BeginJob, Access!Admits, Access!FreeOf, Access!Overlap
  <2>2. \A h \in Writers \cup Rebuilders : ~Access!Overlap(j, h) /\ ~Access!Overlap(h, j)
    BY <1>2 DEF Access!BeginJob, Access!FreeOf, Access!Overlap
  <2> QED  BY <1>2, <2>1, <2>2 DEF Access!BeginJob, Access!Overlap
<1>3. ASSUME NEW j \in Access!Jobs, Access!EndJob(j)  PROVE ExclusiveInv'
  BY <1>3 DEF Access!EndJob, Access!Overlap
<1>4. CASE Access!BeginPass \/ Access!EndPass
  BY <1>4 DEF Access!BeginPass, Access!EndPass, Access!Admits, Access!Overlap
<1>5. ASSUME NEW f \in Foregrounds,
             \/ Access!Ask(f) \/ Access!Raise(f) \/ Access!GiveUp(f) \/ Access!Enter(f)
             \/ Access!Lower(f)
      PROVE  ExclusiveInv'
  BY <1>1, <1>5
  DEF Access!Ask, Access!Raise, Access!GiveUp, Access!Enter, Access!Lower, Access!Overlap
<1>6. CASE Access!Refresh \/ Access!Index
  BY <1>1, <1>6 DEF Access!Refresh, Access!Index, Access!Idle, Access!Overlap
<1>7. CASE UNCHANGED Access!access
  BY <1>7 DEF Access!access, Access!Overlap
<1> QED  BY <1>2, <1>3, <1>4, <1>5, <1>6, <1>7 DEF Access!Next

\* Whoever keeps to MirrorAccess, and so the runner, never lets two jobs write one
\* folder, nor anything beside an operation that was let in or beside a refresh:
\* this follows from what is visible of the runner, whatever happens inside.
THEOREM AccessExcludes == Access!Spec => []Access!MirrorExclusive
<1>1. Access!Init => ExclusiveInv
  BY DEF Access!Init, ExclusiveInv, Access!MirrorExclusive
<1> QED
  BY <1>1, NextExclusive, PTL DEF Access!Spec, ExclusiveInv

THEOREM MirrorKept == Spec => []Access!MirrorExclusive
BY AccessImplemented, AccessExcludes DEF ImplementsAccess

\* close(done) is reached once for each operation, by the goroutine that ended it
\* and when it has ended: never for a channel that is closed, nor for that of an
\* operation still inside.
THEOREM ChannelClosedOnce == Spec => []ChannelInv
<1>1. Init => TypeOK /\ ChannelInv
  BY InitTyped, InitChannelInv
<1>2. TypeOK /\ ChannelInv /\ [Next]_vars => TypeOK' /\ ChannelInv'
  BY NextTyped, NextChannelInv
<1> QED  BY <1>1, <1>2, PTL DEF Spec

-----------------------------------------------------------------------------
(* The promise of QueueAccountMailboxes, where no wait expires *)

NoneDropped == \A k \in AccountKeys : owed[k] # "dropped"

LEMMA NextNoneDropped ==
    ASSUME ~BarrierTimeouts, TypeOK, NoneDropped, [Next]_vars
    PROVE  NoneDropped'
<1>0. owed \in [AccountKeys -> {"no", "yes", "dropped"}]
  BY DEF TypeOK
<1>1. CASE owed' = owed
  BY <1>1 DEF NoneDropped
<1>2. ASSUME NEW k \in AccountKeys, QueueAccountMailboxes(k)  PROVE NoneDropped'
  BY <1>0, <1>2 DEF QueueAccountMailboxes, Owe, NoneDropped
<1>3. ASSUME NEW k \in Keys, CompletePass(k)  PROVE NoneDropped'
  BY <1>0, <1>3 DEF CompletePass, NoneDropped
<1>4. CASE UNCHANGED vars
  BY <1>1, <1>4 DEF vars, jobVars
<1>5. CASE Environment
  <2>1. ASSUME NEW k, NEW ph,
               \/ StartPriorityMailboxes(k) \/ StartMailboxes(k) \/ StartMaintenance(k, ph) \/ Start
        PROVE  owed' = owed
    BY <2>1 DEF StartPriorityMailboxes, PriorityRequest, StartMailboxes, StartMaintenance, Start, StartPass,
                jobVars
  <2>2. ASSUME NEW f \in Foregrounds, GiveUpForeground(f) \/ BeginForeground(f)  PROVE owed' = owed
    BY <2>2 DEF GiveUpForeground, BeginForeground, Preempt, jobVars
  <2> QED  BY <1>1, <1>2, <1>5, <2>1, <2>2 DEF Environment
<1>6. CASE Progress
  <2>1. ASSUME NEW k \in Keys,
               \/ Register(k) \/ BeginPass(k) \/ YieldPass(k) \/ PausePass(k) \/ Release(k)
               \/ \E ok \in BOOLEAN : FinishMaintenance(k, ok)
        PROVE  owed' = owed
    BY <2>1 DEF Register, BeginPass, YieldPass, PausePass, Release, FinishMaintenance
  <2>2. ASSUME NEW f \in Foregrounds,
               \/ BeginForeground(f) \/ PollForeground(f) \/ HoldForeground(f) \/ FinishForeground(f)
        PROVE  owed' = owed
    BY <2>2 DEF BeginForeground, PollForeground, HoldForeground, FinishForeground, Preempt, jobVars
  <2>3. ASSUME \/ PlanPass \/ FinishPass \/ FinishAttachmentIndex \/ RetryTimer
               \/ \E m \in Mailboxes : PassMailbox(m)
        PROVE  owed' = owed
    BY <2>3 DEF PlanPass, FinishPass, FinishAttachmentIndex, RetryTimer, PassMailbox, jobVars
  <2>4. ASSUME NEW s \in DOMAIN callers, MakeCall(s)  PROVE owed' = owed
    BY <2>4 DEF MakeCall, QueueCall, PriorityCall, PriorityRequest, QueueTimeout, StartCall, StartPass,
       Skipped, AutoNext, CloseForeground, RefreshSenderStats, FinishSenderStats, StartAttachmentIndex,
       ScheduleRetry, jobVars
  <2> QED  BY <1>1, <1>3, <1>6, <2>1, <2>2, <2>3, <2>4 DEF Progress
<1> QED  BY <1>4, <1>5, <1>6 DEF Next

\* QueueAccountMailboxes promises a pass to whoever it tells that the request is
\* taken (runner.go's comment).  This holds, for any accounts, folders and callers,
\* wherever no wait for the barrier expires: the expiry is all that breaks it.
THEOREM GuaranteeWithoutTimeouts == ASSUME ~BarrierTimeouts PROVE Spec => []PassGuaranteed
<1>1. Init => RequestInv /\ NoneDropped
  BY InitRequestInv DEF Init, NoneDropped
<1>2. RequestInv /\ NoneDropped /\ [Next]_vars => RequestInv' /\ NoneDropped'
  BY NextRequestInv, NextNoneDropped DEF RequestInv, WorkInv, ParkInv
<1>3. RequestInv /\ NoneDropped => PassGuaranteed
  BY DEF RequestInv, WorkInv, ParkInv, NoLostRequest, PassGuaranteed, NoneDropped, TypeOK
<1> QED  BY <1>1, <1>2, <1>3, PTL DEF Spec

=============================================================================
