# Rolltop in TLA+

Rolltop is a self-hosted mail application in Go. It mirrors the IMAP accounts of
its users (tenants) into PostgreSQL, indexes the mirror with Bleve, and shows and
changes mail through a web interface. This directory models the parts of it in
which several goroutines, the IMAP server and the database have to agree: who may
write the mirror and the index and when, and what is decided about a message that
crashes, timeouts and other clients can interfere with.

Contents

1. The system
2. The modules
3. The runs
4. Disagreements between the code and what it says of itself
5. The proofs
6. What is not modelled

## 1. The system

One process (`cmd/rolltop/main.go`) owns the database (an instance lock keeps a
second one out). HTTP handlers, schedulers, IMAP IDLE watchers and timers are
goroutines in it. Paths below are relative to `src/backend`.

| Component | State it keeps | Operations | Interacts with |
|---|---|---|---|
| **Sync runner** `syncer/runner.go` | per tenant, under one mutex: folder reservations, pending and deferred marks, the account-wide pass, the foreground holder, flags of the derived work | queue or start a sync, maintenance, begin and finish a foreground operation, refresh sender statistics, index attachments | everything that writes the mirror asks it first; it calls the sync of one account |
| **Sync of one account** `syncer/syncer.go` | checkpoints (UIDVALIDITY, last UID) in the database | one turn over one folder: fetch, store, record arrivals, move the checkpoint, reconcile deletions | IMAP, stores, search, inbox arrivals |
| **Inbox arrivals** `syncer/arrival.go`, `arrival_scheduler.go`, `store/inbox_arrivals.go` | pending rows, expunge fingerprints, one timer per account | hold, schedule, probe, defer, finalize, recover | sync turns write rows and fingerprints; rebuilds hold rows back |
| **Message transfers** `store/message_arrival_fingerprints.go`, `syncer/transfer_dispatch.go`, `syncer/move.go` | durable transfer rows | stage, claim, dispatch, finish, reopen, terminalize | IMAP MOVE/COPY with lost answers; explains inbox arrivals |
| **Mailbox generation rebuild** `store/mailbox_generation_rebuild_state.go`, `mailbox_generation_reset.go` | a marker and a snapshot for each folder whose UIDVALIDITY changed | reset, restore, finalize | gates arrivals and the runner |
| **Generation recovery gate** `syncer/generation_recovery_gate.go` | open, recovering, paused; deferred work | signal, reconcile, replay, pause | the runner defers everything while it is closed |
| **Attachment index queue** `syncer/attachment_index_queue.go` | cooldowns, continuations, one retry timer | enqueue, take, retry | derived work of the runner |
| **Bleve write coordinator** `search/write_coordinator.go` | queue of waiters, counters of admitted writes and bytes | acquire, release, update bytes, cancel | every index batch of every tenant |
| **Search service** `search/search.go` | open indexes, writer locks, recovery markers | index, delete, drop a user, close | write coordinator |
| **Google connections** `googleauth/manager.go` | stored and cached tokens, one refresh in flight per connection | access token, refresh, reconnect, disconnect | IMAP, calendar, contacts |
| **Blob store and cleanup queue** `store/blob_cleanup_queue.go` | blobs, references, deletions due | put, release, sweep | imports, retention |
| **Run journal** `store/sync_runs.go` | one row per run | begin, progress, finish, interrupt, mark stale | runner, web |
| **Instance lock** `store/instance_lock.go` | a session lock and a heartbeat | claim, ping, take over | process lifecycle |
| **Schedulers** `web/snooze_scheduler.go`, `retention_scheduler.go`, calendars | timers over durable rows | wake, fire, recompute | stores |

`PROJECT.json` lists these and the parts that are input and output or pure data
(IMAP and SMTP clients, parsing, the remaining SQL stores, HTTP handlers, the
clients of remote services, plugins, the web and Android user interfaces), each
with the reason for its status, and all the hazards found, each at its line.

What is hard about them:

- *Admission under a dropped lock.* The runner checks its state, drops the mutex
  to wait, and checks again; foreground operations, jobs, passes and derived work
  each wait for the others and leave marks for one another to replay.
- *Work refused now and promised later.* "Queued" is a promise that survives
  preemption, pauses and failures through six different marks.
- *Cancellation racing with a grant*, of a context and a lease.
- *Two readings with something in between*: the rows that are due, before and
  after the server has been asked; the next deadline, before and after another
  one is scheduled.
- *Evidence with a lifetime*, which a retry can outlive.
- *Crashes between a commit and the timer it needs*, between a timer and the
  checkpoint.
- *Liveness*: a large background batch behind a stream of small ones; waiters
  that hand a channel on to each other; a row that nobody's timer watches.

- *Files and rows, rows and remote state, memory and rows*: pairs of stores with no
  transaction over both, changed by several goroutines and read after a crash.

What makes each component correct: the properties in section 3. Parts that are not
modelled are in section 6.

## 2. The modules

| Module | Models | Instance | Theorems |
|---|---|---|---|
| `BleveWriteCoordinator` | `search/write_coordinator.go` | `MCBleveWriteCoordinator`, `MCScheduling` | `BleveWriteCoordinator_proofs` |
| `WriterAdmission` | what it promises to its callers: the abstract specification it implements | in `BleveWriteCoordinator` | |
| `SyncRunner` | `syncer/runner.go`, one tenant | `MCSyncRunner`, `MCScheduling` | `SyncRunner_proofs` |
| `MirrorAccess` | what it promises about who writes the mirror beside whom: the abstract specification it implements | in `SyncRunner` | `SyncRunner_proofs` |
| `MCScheduling` | the coordinator and the runner put together, for one run | `MCScheduling` | |
| `InboxArrivals` | arrivals, their scheduler and store, one account | `MCInboxArrivals` | `InboxArrivals_proofs` |
| `MessageTransfer` | one move or copy: journal, dispatch, reconciliation, with the sync of its source and its arrival | `MCMessageTransfer` | `MessageTransfer_proofs` |
| `GoogleTokens` | `googleauth/manager.go`, one connection | `MCServices` | `GoogleTokens_proofs` |
| `BlobCleanup` | the blob cleanup queue and those who keep blobs, one path | `MCServices` | `Store_proofs` |
| `SingleServer` | the instance lock and the run journal | `MCServices` | `Store_proofs` |
| `Snoozes`, `CalendarReminders` | the reminder loops and their tables | `MCServices` | `Reminders_proofs` |
| `ReminderTimes` | what the two loops share | | |
| `MCServices` | the five services put together | `MCServices` | `Services_proofs` |

The "map" of `PROJECT.json` gives the source lines of every definition. A
definition whose name ends in `Mutant` stands before the one it alters; it is
used by no specification, and shows which mistake a property would catch.

### BleveWriteCoordinator

A client is a goroutine that calls `Acquire`. `waiters` is the slice of waiters,
`leases`, `leaseBytes`, `activeWrites`, `activeBytes` and `activeUsers` are the
fields of the coordinator and its leases, `ready` the buffered channel of a
waiter, `ctxDone` the caller's context.

Every method holds `c.mu` to the end of its trailing `dispatchLocked` loop.
`dispatching` is TRUE in that section: `Grant` is one iteration, `DispatchDone`
the end. Operations that need the mutex wait for it; what needs none (receiving
from the channel, a context that ends, time) interleaves with the loop. That is
where the race of a cancellation and a grant lies: the caller's `select` may see
the lease (`TakeReady`) or the end of its context (`CancelWaiter`), whichever was
first, and `CancelGranted` is the case in which `cancelWaiter` finds the waiter
gone from the queue.

`Admission` is `WriterAdmission` under a refinement mapping: who asks is who waits
and may still be admitted, who is admitted holds a lease. Only `Grant` and what
ends a wait or a lease show; ranks, ageing, bytes and the channel are how it is
done. A lease counts from its grant to its release, whether or not its caller has
received it.

Sequence numbers are positions in the queue; ageing is counted in intervals up to
the number that changes the rank (two).

### SyncRunner

A step is one critical section of `Runner.mu`. `phase` gives the state of the job
on each reserved key, `<<AllAccounts, m>>` for `mailboxRunning` and `<<a, m>>`
for `accountMailboxRunning`; `pending`, `autoDeferred`, `fgDeferred` and
`fgDeferredAuto` are the maps of the same names. Functions that make several calls
one after the other without the mutex (the replay of deferred work by a releasing
holder, the derived work at the end of a job) are sequences in the bag `callers`;
each call waits where the code waits and other goroutines act between two calls
(`Skipped` is a call that finds nothing to do and returns).

| Code | Actions |
|---|---|
| `QueueAccountMailboxes`, `StartPriorityMailboxes`, `StartMailboxes`, `StartAccountMailboxes`, `startMailboxMaintenance`, `StartWithinContext` | `QueueAccountMailboxes`, `StartPriorityMailboxes`, `StartMailboxes`, `StartMaintenance`, `Start`; the waits expiring: `QueueTimeout` |
| `runReservedMailboxes`, `runReservedAccountMailboxes`, `ordinaryMailboxContext` | `Register`, `BeginPass`, `CompletePass`, `YieldPass`, `PausePass`, `Release`, `FinishMaintenance` |
| the account-wide pass | `PlanPass`, `PassMailbox`, `AutoNext`, `FinishPass` |
| `BeginForegroundOperation`, `waitForForegroundYield`, its `finish` | `BeginForeground`, `PollForeground`, `HoldForeground`, `GiveUpForeground`, `FinishForeground`, `CloseForeground` |
| `RefreshSenderStats` | `RefreshSenderStats`, `FinishSenderStats` |
| `StartAttachmentIndex`, its worker and retry timer | `StartAttachmentIndex`, `FinishAttachmentIndex`, `ScheduleRetry`, `RetryTimer` |

`owed` and `serving` are auxiliary. `owed` says of each account key whether a queue
request was accepted that no pass begun later has finished ("yes"), or was accepted
by a call that then timed out ("dropped", see section 4). A pass that begins takes
the keys owed at that moment into `serving`, and a new request takes its key out
again, because the pass may already be beyond the new message.

`Access` is `MirrorAccess` under a refinement mapping. What shows of a job is that it
is there and whether it only rebuilds search documents; of the account-wide pass that
it is under way; of a foreground operation that it asks, keeps new work out, or is let
in; of derived work that it runs. Phases, cancellations, marks, channels and what
goroutines have left to do map to nothing: they are how it is done, and every step
that is only about them stutters. Two things are worth noting in it. A barrier goes up
beside whatever is at work, and an operation enters only when the writers are gone,
but search-only rebuilds may stay. And an operation that gives up leaves its barrier,
which comes down in a step of its own.

Abstractions. One tenant, since tenants share nothing but the coordinator. The
recovery gate is open throughout. A job has one folder. A user's cancellation of a
run is left out. `lockAfterExclusiveWriters` waits in two places and rechecks: the
recheck is the guard, the waits are the time before the step. The queue of
attachments is one wake (`attachWake`); `waitForAttachmentIndex` gives up after 15
seconds, so `BeginPass` needs no guard for it. Turn budgets are `PausePass`. The model
does not tell which worker armed the retry timer, so it says nothing of one worker's
timer replaced by another's (`attachment_index_queue.go:161`).

Derived work (statistics and attachments) multiplies the states, because whoever ends
a job starts it. `DerivedWork` switches it off, which leaves room for more requests;
the theorems hold either way.

### MCScheduling

The coordinator and the runner share no state, and a behaviour belongs to one `part`.
The runner has two: "runner" is all of it with two requests; "turns" is the runner
without derived work and with four: one account asks for its folder, passes are
started, and the foreground callers come back. `OneKey` picks that account; the other
one is the same with the names exchanged.

### InboxArrivals

A message that a turn finds in the Inbox may be new mail or a message another
client moved there. It is held as a pending row for ten seconds; then the
account's timer runs a finalizer, which asks the server whether the one plausible
source of the message is gone, records that as an expunge fingerprint, defers rows
it got no answer for, and turns the rest into deliveries (announced) or moves.

`turn` is how far the Inbox turn brought a message, `source` the message's source
in another folder (known `gone` from the server, or also `reconciled` away from
the mirror), `row`, `left` and `age` its `pending_inbox_arrivals` row, `evidence`
and `evidenceLeft` the fingerprint, `due` the account's schedule entry, `fin` the
finalizer between two of its transactions, and `marker`, `restored`, `rebuilt` the
rebuild of a folder.

| Code | Actions |
|---|---|
| the fetch handler of `SyncAccount` | `Store`, `Hold`, `ScheduleInboxArrival`, `Checkpoint`, `CutShort` |
| `DeleteMessagesMissingUIDsAndRecordExpunges` | `Reconcile` |
| `inboxArrivalScheduler.fire`, `FinalizePendingInboxArrivals` | `Fire`, `ListDue`, `ProbeMoves`, `RecordAbsent`, `DeferUnsure`, `FinalizeDue`, `ReadNext`, `Fail`, `Rearm` |
| rebuild of a folder | `StartRebuild`, `FinishRebuild`, `ScheduleRestored` |
| process | `Crash`, `Restart` (`RecoverPendingInboxArrivals`), `Tick` |

Abstractions. One account. Time runs in ticks of five seconds as what is left
until a deadline: hold 2, evidence 3, retry 6 (10, 15 and 30 seconds). Timers fire
on time and a finalization takes less than a tick, so no tick passes while one
runs; neither does one between a commit and the timer it asks for. A fingerprint
is `fresh`, `near` (recorded within 15 seconds of the row it explains, which
protects it from expiry while the row is pending), `expired`, or `used`; an
expired one blocks a new one (`ON CONFLICT DO NOTHING`) until it is pruned. Each
move has a source of its own, so candidates are always unique, and messages come in
the order of their UIDs. Overdue rows are taken in the order of their ids, which
ignores differences of less than the overdue time in `available_at`. Genuine
deliveries have no candidate source; local transfers and duplicate copies are left
to `MessageTransfer`. A stale timer callback is dropped by its generation number
in the code and is not modelled. A rebuild is reduced to its gate. The read of the
next deadline after a rebuild is taken to succeed (section 6). `AnnouncedUnproved`
says nothing once a folder was rebuilt: a rebuild that ends between the listing of
the due rows and the decision lets rows through that nobody probed, as a full batch
does in `arrivals_batch`.

### MessageTransfer

The command of a move or copy is journalled in a row of `message_transfers`, because
IMAP answers get lost and a repeated command would repeat its effect. `rows` are the
rows of one source and destination, `caller` the requests under way, `process` the
token that `dispatch_owner` holds (`processMessageTransferOwner`). `mirror` is the
local row of the source, `here` and `there` what the server holds, `orphans` commands
it has received and nobody waits for. `done` is auxiliary: rows whose own command
took effect.

A copy has no UID of its own to ask for, so the code finds it by content. Before it
dispatches one it stores the destination's UIDNEXT once (`next`), and later counts the
messages that are exactly the source's (`Exact`) on both sides of it. One match, at or
beyond the boundary, is the copy (`Applied`); no match, and nothing beyond the
boundary with its Message-ID, means it was not made (`Absent`). A match from before
the boundary, several of them, or a message beyond it with the same Message-ID and
other bytes prove nothing: the transfer stays pending and is not sent again. A server
that stores other bytes than were sent is `rewrites`; in the Inbox it is not modelled,
because the arrival is then not recognised as a copy either.

| Code | Actions |
|---|---|
| `StageMessageTransfer`; a settled row found again | `Stage`, `TakeUpSettled` |
| `prepareMessageMove`, `CopyMessage` on a dispatched row | `Refuse` (another caller's claim is active), `Look`, `LookFails`, `Confirm`, `Reopen` |
| `SnapshotMailboxAppendBoundary`, `SetMessageTransferDestinationSnapshot` | `Survey`, `SetBoundary` |
| `ClaimMessageTransferDispatchForOwner` | `Claim` |
| the command | `Send`, `Execute`, `Answer`; `NotSent`, `Decline`, `LoseAnswer`; `RunOrphan` |
| `applyMoveOutcome` and its like for copies | `Settle`, `SettleFails` |
| `completeMovedMessageLocally`, `cleanupMovedMessage`, `completeCopiedMessageLocally` | `Complete`, `Cleanup`, `CompleteFails` |
| the sync of the source folder | `Reconcile` |
| the arrival in the Inbox | `Hold`, `Probe`, `Finalize` |
| goroutine and process | `Panic`, `Restart`, `Age` (ten minutes pass) |
| another client of the account | `OtherClient` |

Abstractions. One message and one destination; a batch is its messages one after
the other. A consumed row does not expire (it lives for a day), evidence does not either
(`InboxArrivals` is about that), and a folder keeps its UIDVALIDITY. Messages have a
Message-ID (without one the code compares everything beyond the boundary), and fewer
than a hundred candidates carry it (with more it ends the request). Nobody expunges the
destination, so UIDs there are 1 to `there`. A UID is known or not. Only pending rows
are asked for their age. Plugin observers are left out.

`Age` lets ten minutes pass over a claim only if nobody still holds it, as
`transfer_dispatch.go:25` says: "A legitimate dispatch never holds a claim this long".
`moveMessagesInBatches` claims up to 250 messages before it sends the first command
(`move.go:297`), and a batch is modelled as its messages one after the other: that
such a batch is settled within ten minutes is an assumption of `OneCommand` and
`FailedMeansUndone`.

### GoogleTokens

A step is a critical section of `tokenMu` or `refreshMu`, a statement, or an answer
of Google. `row` is the connection's row, `cache` the token in memory, `flight` the
refresh that runs; tokens are numbered as Google issues them, so that a later one is
a newer one. `Get`, `Test` and `ForceRefresh` are the three ways to ask; `Claim`,
`Wait`, `GiveUp` and `Publish` the single flight, `Reread` to `Persist` the inside of
`doRefresh`; `Exchange`, `Upsert`, `Forget` a consent, `Disconnect` to `Delete` the
end of a connection. `Lapse` and `DropGrant` are the clock and Google. A token that is
cached when it is asked for is returned at once and is no step.

### BlobCleanup

One path. `Save`, `Record`, `Refer` are what everybody who keeps content does
(write the file, upsert the blob row, insert the row that refers to it); `Drop` and
`Release` delete that row and queue the blob; `Complete`, `DeletePath`, `Commit`,
`Rollback` are the transaction of `CompleteBlobCleanup`, which deletes the file while
it holds the row's lock; `Retract` and `Unlink` what `web/compose.go` does without the
queue. `interrupted` is auxiliary: a transaction that had deleted the file did not
commit, which `blob_cleanup_queue.go:148` documents as the only window it cannot
close. `ReferencesKept` is about rows and excuses nothing: what is referred to is
there, and a transaction that deletes a file by its row holds that row, unreferenced,
to its end. `FilesKept` is about the file, excuses that window, and is violated (section 4).

### SingleServer

`waitForInstanceLock` and its parts: `Start` (with a shared volume the lock on the
data directory comes first), `TakeLock`, `WaitOut`, `AskHolder`, `Look`,
`Terminate`; the holder's `Ping`; `Kill`, `LoseSession`, `Reap` and `Stop` are what
can happen to a server and to its session. Runs are created, finished, cancelled,
deleted and swept by the servers (`sync_runs.go`), and stamped as interrupted by a
start and a stop. Time is counted since the holder's last statement; that a holder
whose session works pings within `StaleAfter` is the assumption the code states.
`guarded` is a server whose session is intact; one that has lost its session logs
that and goes on, the hole the code documents.

### Snoozes, CalendarReminders

A loop sleeps until a timer or a wake. The snooze loop then looks at every user, the
calendar loop after a wake only at those marked `dirty`; `next` is what it remembers
of the others. `BeginSnoozePass`, `RecordSnoozes`, `EndSnoozePass` and
`BeginFullPass`, `BeginPartialPass`, `RecordReminders`, `EndReminderPass` are the loops;
`ChangeSnooze`, `TellSnoozer` and `ChangeCalendar`, `MarkDirty`, `Wake` the handlers,
which commit first and tell the loop afterwards. Time has one granularity, a tick; a
pass takes less, and the loops' minimum sleep is less. `seen` is auxiliary: the users
whose last pass went through.

Users whose handler has changed something and not told the loop yet (`telling`,
`notifying`) are excluded from the properties. A handler that fails between the two
(`api_snoozes.go:75`) stays there, so nothing is said of it (section 6). A pass that
records as many reminders as it may says "now" for the next one
(`calendar_reminders.go:297`), so waits left over are taken up at once, except when
it is the waits themselves that fill the limit; `seen` leaves such users out, and so
does the property. The run has one event for each user, so what it shows of waits is
the case without that exception.

### MCServices

The five services share no state. A behaviour of `ServicesSpec` belongs to one of
them, its `part`, and the others rest; checking their product would multiply the
states and show nothing. That what is proved of each service holds of the whole is a
theorem (`ServicesSafe`).

## 3. The runs

| Run | Question | Properties |
|---|---|---|
| `scheduling` | Index: is a slot ever shared, leaked, or left unused, and does everybody get one? Mirror: do writers exclude each other, is every accepted request remembered and served, and is anybody left asking for the foreground, when turns pause, fail or find more to do and waits expire? | `TenantExclusion`, `ExactAccounting`, `NoLostDispatch`, `SoftByteTarget`, `NoStarvation`, `ImplementsAdmission`, `AdmissionIsFair`; `ForegroundExclusive`, `StatsExclusive`, `NoLostRequest`, `NothingOrphaned`, `RequestsServed`, `ForegroundAdmitted`, `ImplementsAccess` |
| `arrivals` | Is a move announced only when its evidence had expired, is a decision final, and is every row watched and decided in the end, through crashes, errors, unanswered probes and rebuilds? | `AnnouncedUnproved`, `Watched`, `DecidedOnce`, `Decided` |
| `transfers` | Does a move or copy take effect once, is it recorded as what it was, whatever becomes of the answers, and is it decided as long as the server can tell? | `CopiedOnce`, `OneCommand`, `FailedMeansUndone`, `MirrorHonest`, `MovesNotAnnounced`, `DispatchSettles` |
| `services` | Tokens: one refresh, never a stale one for who was rejected. Blobs: does what is referred to exist? Servers: is there one, and does an interrupted run stay so? Reminders: is the loop ever asleep past one? | `OneRefresh`, `ForcedIsFresh`, `CallsReturn`; `ReferencesKept`, `QueueDrains`; `OneServer`, `ServedAgain`, `NoPhantom`, `DecidedForGood`; `SnoozesOnTime`, `RemindedOnTime` |

Each run also checks the type invariants of its modules. Every property of a passing run has a
mutant in `PROJECT.json`: a definition changed as a plausible bug would, under which
TLC finds the property violated.

Bounds, and why they are enough:

- `scheduling`, the coordinator: three clients, two of them of one tenant, two slots,
  sizes 1 and 3 with a target of 2, so that one request never fits beside another. Two
  of a tenant show its exclusion, the third competes for slots and bytes; callers come
  back for ever, so nothing bounds the number of requests.
- `scheduling`, the runner: two accounts with a folder of the same name and two
  foreground callers. Requests (of the foreground, too) and faults (a turn that
  pauses, fails or finds more to do) share one budget: two in the part "runner", which
  has the derived work, and four in "turns", which has not; at most one of them is a
  fault. Four are what it takes for two callers to contend while a job is preempted and
  for one of them to come back while the other waits for the replays. Barrier waits may
  expire and an abandoned barrier is released by force. Two accounts and a folder give
  three keys that exclude one another; jobs on different folders do not interact
  except through the flags they share, which one folder already exercises. All
  safety properties of the runner are also theorems, so that the bounds limit only
  liveness: `RequestsServed` and `ForegroundAdmitted` are shown with derived work for
  two requests and faults together, and without it for four.
- `arrivals`: two messages, one moved and one delivered, and at most one each of: a
  crash, an error, a probe without answer, a rebuild; a reconciliation at any time.
- `transfers`: two concurrent requests, repeated without end; two faults, or moves and
  copies by another client; two rows, so that a failed transfer is followed by a new
  one. Matches on either side of the boundary and rewritten copies occur. A command the
  server still has is over before anybody asks about it; what happens otherwise is
  `transfers_late`. `DispatchSettles` does not claim that an ambiguous transfer is
  decided: the code leaves it pending however often it is asked for, as
  `transfer_journal_test.go:653` and `:677` expect. `CopiedOnce` says what that is for.
- `services`: two callers, three calls and one trouble (*GoogleTokens*); two keepers,
  three saves and two accidents (*BlobCleanup*); two deployments, one run, two faults
  and two ticks until a holder counts as stale, which leaves room for a take-over of a
  holder that itself took over (*SingleServer*); two users with one conversation or
  event each, three ticks, two changes and one failure or stop, with an idle interval
  longer than the back-off, so that oversleeping shows (*reminders*).

Deadlock is not checked for `MCScheduling`, `MessageTransfer` and the services: with its
requests, calls or ticks used up the bounded model stops, as the program does when
nothing is asked of it.

Fairness. *Bleve*: the dispatch loop, the receive and time always proceed (weak); a
client that wants the mutex to release a lease or to cancel contends with others and
`sync.Mutex`, which hands over to a waiter starved for a millisecond, does not pass it
over for ever (strong, one condition for each client); nothing makes a client acquire,
cancel or change a size. *SyncRunner*: one weak fairness condition over all that
existing goroutines do: some goroutine that can run does. It says that turns,
refreshes and foreground operations end, and the code gives each a timeout; nothing is
assumed about which goroutine runs first, nor about requests. `ForegroundAdmitted` is
about the time after the last request: no caller is left with a channel that nobody
closes, or behind a job that is never preempted. Giving up is not among what fairness
makes happen, so it is never what the property rests on. Callers that come back
without end may overtake one without end, since the code keeps no queue of them;
nothing is claimed of that. *InboxArrivals*: timers fire, the finalizer's steps
proceed, time passes, the process is started again, a fetch schedules the row it held,
and the recovery loop takes up a rebuild every thirty seconds. *MessageTransfer*:
`DispatchSettles` is about a user who repeats the request, so each caller proceeds and
begins again; the server decides about a command it has; ten minutes pass. *Services*:
a call of the token manager proceeds, every wait in it being bounded by a timeout; the
cleanup drain runs periodically; a deployment is started again, its claim proceeds,
time passes, and a server sweeps stale runs every minute. Neither TCP keepalives nor
the end of a worker are relied on. Nothing makes a fault, a crash or a fetch happen.

## 4. Disagreements between the code and what it says of itself

Eight runs end in a violation; `PROJECT.json` quotes the lines.

- `runner_timeout`: `QueueAccountMailboxes` promises a pass. If the wait for a
  sender-statistics refresh expires (`barrierWait`) it has recorded nothing and
  still returns true.
- `runner_attachments`: a worker cancelled by a job, which ends while a refresh is
  pending, does not restart, is not marked to resume, counts as not stranded and
  arms no timer. The attachments wait for whatever syncs next.
- `arrivals_batch`: the finalizer reads the first hundred due rows, defers some of
  them, and then decides the first hundred due rows again: rows beyond the hundred
  probed ones have moved up and are announced without the question being asked. The
  run shows it with a batch of one and two rows. A rebuild that ends between the two
  readings has the same effect.
- `arrivals_deferral`: a row is deferred for thirty seconds, evidence recorded
  after the row was more than fifteen seconds old lives for fifteen, and the
  reconciliation which records it also removes the source that could have been
  asked about again. The move is announced. `AnnouncedUnproved` in run `arrivals`
  shows that, within one batch, an expired fingerprint is the only way to this.
- `transfers_late`: the connection is lost with an APPEND under way, the next request
  looks, finds no copy and sends another; then the server runs the first. A look
  proves that the command has not run, not that it will not. `CopiedOnce` in run
  `transfers` shows that this is the only way to two copies.
- `google_stale`: `AccessToken` reads a usable token and caches it in a later critical
  section; a refresh in between is rejected, flags the connection and empties the
  cache. The flagged connection then serves the token that was read.
- `reminders_forgotten`: a pass fails for a user; the loop is to try again after the
  back-off, but a wake for another user stops that timer, and the sleep that follows
  rests on `next`, which knows nothing of the first one. `RemindedOnTime` shows that
  whoever's last pass went through is not forgotten.
- `blobs_unlocked`: `blob_cleanup_queue.go:148` calls the crash between the deletion of
  a file and the commit "the only window it cannot close". No crash or failure is needed:
  the lock on the row holds back references, not the writing of the file. Whoever keeps
  the same content again writes the file first, while the deletion is under way, and
  records it when the deletion is over: the row is there and the file is not. After a
  statement that failed, two more ways lead there: the branch for an entry without a row
  (`blob_cleanup_queue.go:222`), which holds no lock, and compose's own deletion of the
  file (`web/compose.go:1384`, `:1517`). Paths are content hashes, so the file is written
  again when the message is fetched again.

## 5. The proofs

Every invariant, every action property and both refinements of the passing runs are
theorems, for every value of the constants that satisfies the assumptions named in the
modules. These say: positive slots,
tenants given to clients by a function, sizes that are natural numbers (*Bleve*);
account 0 is no account, `None` is neither a foreground caller nor a key,
accounts and folders are finitely many (*SyncRunner*); finitely many messages and hold
< evidence < retry time (*InboxArrivals*); finitely many conversations or events,
positive intervals and limits (*reminders*); a positive time after which a holder is
stale (*SingleServer*); bounds that are natural numbers. Five theorems have a
hypothesis more: `CommandsOneAtATime`, `FailuresUndone` and `CopiesMadeOnce` need
`~LateCommands`, `MovesProved` needs a batch as large as the set of messages, and
`GuaranteeWithoutTimeouts` needs `~BarrierTimeouts`. `CopiedOnce`, `AnnouncedUnproved` and
`PassGuaranteed` are false without it, as the runs `transfers_late`, `arrivals_batch` and
`runner_timeout` show: the hypothesis is exactly what the disagreement is about. The
other two rest on the invariant of the first.

Each inductive invariant was given to TLC before it was proved, on instances like
those of section 3, and is a conjunction of named parts, so that the proof of an
action says which of them it disturbs.

`BleveWriteCoordinator_proofs`

- `TypeCorrect`: `WritesSpec => []WritesTypeOK`. The lemma `RemoveAtLemma` says what removing a
  waiter from the queue leaves.
- `TenantsExclusive`, `SlotsCounted`. Neither property is inductive. That a grant
  does not hand a second lease to a client needs `QueueSound` (a queued client owns
  no lease and is queued once); that a release gives back a lease that exists needs
  `LeaseSound` (who is going to release owns one, and a filled channel belongs to
  an owner still waiting); that a tenant whose counter is zero has no lease needs
  `UsersSound`. `IInv` is their conjunction with `WritesTypeOK` and `SlotsExact`.
- `AdmissionImplemented`: `Spec => ImplementsAdmission`, the refinement of
  `WriterAdmission`. A grant maps to an admission because the counters it looks at
  are exact (`IInv`); everything about the queue maps to a stutter.
- `NothingLeftBehind`: no waiter that fits is in the queue while nobody dispatches.
  Whatever frees a slot, a tenant or bytes, or adds a waiter, begins the loop, and the
  loop ends only when nothing fits.
- `TargetRespected`: the bytes checked against the target are the bytes added, and
  no writer (`activeWrites` = 0) means no lease because the counter is exact.
- `AccountsExact`. `ExactAccounting` speaks of a sum over a set, which the library
  defines as a fold by a recursive function that is chosen. `SumExists` shows that
  there is one, by the least number of elements for which there would be none;
  `SummingTakesAny` that any element may be taken out first, `SummingAgrees` that only
  the values of the elements matter, and `SumOf`, `SumOfNone` and `SumSame` say this
  of `SumFunctionOnSet` itself. With them a grant, a release and a change of size
  each move the sum by what they move `activeBytes`; that a release never
  subtracts more than is there (the code would clamp to zero) follows from the sum.

`SyncRunner_proofs`

- What a step may do to the jobs is one disjunction (`JobStep`: nothing, one goes
  on or ends, one is admitted under the guards), proved action by action in
  `NextJobStep`. `FoldersExclusive` follows from it alone, because `Excluding` is
  symmetric (`AdmitExclusive`).
- `StatsExcludeJobs`: a refresh begins only when nothing runs (`DerivedStep`), and no
  job is admitted beside it.
- `ForegroundAlone`: only the holder is inside the barrier (`BarrierInv`), it is
  admitted only after waiting until no writer is left (`AdmittedStep`), and while
  there is a holder `JobStep` admits nothing. The theorem also covers barrier waits
  that expire and barriers released by force.
- `RunnerTypes`: the type invariant, including that what goroutines have left to do
  names keys of the tenant. Lemmas about bags say what it means that a goroutine is
  added, gone or a call further (`Added`, `Taken`, `GoesOn`); those about replays
  (`RerunsComplete`, `ReplayComplete`) say that whatever was marked is among the
  calls that replay it. They need the sets of marks to be finite.
- `NothingIsOrphaned`: what is pending stands behind a job that takes it along, what
  is deferred has a holder or a pass (`ParkInv`).
- `NoRequestIsLost`. A request that is owed is in one of three places: parked in a
  mark, among some goroutine's calls, or with a job that has not ended. Every step
  leaves each place as it is or moves what is in it to another (`OrdinaryStep`,
  `FreeKeeps`, `ReleaseKeeps`, `PassKeeps`, `PreemptKeeps`, `ForegroundKeeps`,
  `CallsKeep`). `WorkInv` is needed because a job that ends may discharge a request
  only if its pass began after it (`ServingOK`), and a preempted one is marked to be
  repeated (`CancelledOK`).
- `StatsAlone`: a refresh begins only without a pass, but a pass goes on without
  asking again. That the folder's job it waits for returns to a pass that still has the
  tenant needs `PassInv`: the pass is busy as long as its job runs or the one call
  that reports its end (`autoNext`) is outstanding, and there is never a second one.
- `ChannelClosedOnce`: closing a channel twice is a panic in Go, and closing that of an
  operation still inside would let the next one in. `ChannelInv` says of the call
  that closes the channel what `PassInv` says of `autoNext`: one goroutine at most has
  it left, once, and then the operation has ended. Both rest on lemmas about the calls
  only one goroutine may have (`Ends`): nothing that is replayed, repeated or skipped
  is one of them (`LacksOne`, `RerunsLack`, `ReplayLack`, `NextCalls`).
- `AccessImplemented`: `Spec => ImplementsAccess`, the refinement of `MirrorAccess`, by
  one lemma for each kind of step (`JobGoesOn`, `JobAdmitted`, `JobEnds`, `PassAccess`,
  `ForegroundAccess`, `DerivedAccess`, `CallsAccess`). An admission maps to one because
  keys that are not reserved are those of no overlapping job (`NoOverlap`). The mapping
  needs `BarrierInv` (whoever enters or lowers is the one whose barrier it is), `PassInv`
  (a job returns to a pass that is under way; else the return would start one) and
  `ChannelInv` (a channel is closed by nobody who asks or is inside).
- `AccessExcludes`: `MirrorAccess` implies `MirrorExclusive` by an inductive invariant of
  its own variables alone, and `MirrorKept` carries this over to the runner. It covers
  the exclusion of jobs, of an admitted operation and of a refresh once more, from what
  is visible, and adds that attachments are not indexed beside a refresh.
- `GuaranteeWithoutTimeouts`: where no wait expires nothing is dropped (`NoneDropped`), so
  that `NoLostRequest` is all of `PassGuaranteed`.

`InboxArrivals_proofs`

- `TypeCorrect`, with `Unmoved`: a message nobody moved has no source and never any
  evidence.
- `DecisionsFinal`: of all steps only `Hold` and `FinalizeDue` change a row, and
  each takes only rows that are undecided. The code keeps decided rows for seven
  days, after which they are pruned; a message is assumed not to be fetched again
  as a new one after that.
- `RowsWatched`: `Watched` says nothing while the finalizer is at work, so its last
  step needs `Rearmable`: every row that became eligible since the finalizer read
  the next deadline is covered by the timer or by somebody still to arm it.
  `NextDueLemma` (the next deadline is the least of the eligible ones) rests on the
  well-foundedness of the natural numbers.
- `MovesProved`: the finalizer's transactions use what earlier ones learnt, and the
  rows may change between two. `Asked` says what it knows of each row it may still
  decide: it was listed, its source was asked about, and it then has evidence or was
  put off. A full batch breaks its first step (`WholeBatch`), a rebuild that ends in
  between the rest: the invariant says nothing once there was one, as the property
  does.

`MessageTransfer_proofs`

- `TypeCorrect`, `SourceMirrored`, `MovesSilent` follow from one invariant, `Inv`.
  Until the message has left the source, no row says it was moved and nobody is
  about to record that (`UntilMoved`); who finds a row settled has read it so
  (`KnowsSettled`); and once the source's row is gone or has been probed, an arrival
  that is not classified yet is explained by a succeeded row or by live evidence
  (`Undisclosed`). They hold with commands that run late, too: `LateCommands` is not
  restricted.
- `CommandsOneAtATime`, `FailuresUndone`, `CopiesMadeOnce` follow from `OneAttempt`: one
  row at most is open, and what is under way (a claim, a command nobody waits for, an
  effect) belongs to the attempt that row carries. A caller's snapshot can be old, so
  the invariant says what remains true of what it read (`SnapshotSound`), and when the
  server's answer that nothing happened still proves it (`ProofSound`): as long as the
  row carries the attempt the caller read. A late command is what falsifies that.
- `CopiesBeyondBoundary`: the boundary is stored before the command is sent and never
  moves (`Boundaries`), so that a transfer's own copy is beyond it. This holds with late
  commands, too, and is the second half of `CopiesMadeOnce`: what counts as the copy
  is one that this transfer made or that came after its boundary.

`GoogleTokens_proofs`

- `TokensTyped`, `RefreshesOneAtATime` and `ForcedTokensFresh` follow from `TokensInv`.
  `OneFlight`: the slot names the one caller inside `doRefresh`, and who waits, waits
  for it. A caller that forces a refresh waits out the one it finds; its token is
  empty until Google has answered it, and newer than its report from then on
  (`Fresh`).

`Store_proofs`

- `ServersTyped`, `OneServerAtATime`, `RunsDecidedForGood` follow from `ServersInv`. A
  start decides to end the session it looked up some steps earlier. `SeenInv` says
  why it never ends a living server's: a session that was silent too long is not
  that of a guarded server, nor will it be, because sessions are told apart
  (`PidsInv`) and a guarded server has spoken lately (`LockInv`).
- `BlobsTyped`, `ReferencesAlwaysKept` follow from `BlobsInv`. A transaction that deletes
  the file by its row holds that row, which nobody refers to and nobody can begin to
  (`TxnsInv`); one that deletes by path found no row of its entry. Nothing is proved of
  the file itself: `FilesKept` does not hold.

`Reminders_proofs`

- `SnoozesTyped`, `SnoozesRemindedOnTime`: asleep, the timer is no later than any snooze
  told of; in a pass, what it remembers is no later than those of the users done
  (`SnoozesCovered`).
- `CalendarTyped`, `RemindersOnTime`: the same for `next`, which a partial pass may only
  bring forward, with `WakesCome` (a marked user has a wake or a handler about to
  give one) for the users it passes over.

`Services_proofs`

- `ServicesCompose`: `ServicesSpec` implies the specification of each service: a step of
  its part is a step of it, a step of another part leaves its variables alone
  (`ServicesStep`). Of the servers it implies all but the fairness, since a deployment
  is only started again in a behaviour of their own part; `Store_proofs` therefore
  states their invariant without it (`ServersInvHolds`).
- `ServicesTyped`, `ServicesSafe`: with it, the theorems about the services hold of their
  composition.

Only model-checked: liveness (`NoStarvation`, `AdmissionIsFair`, `RequestsServed`,
`ForegroundAdmitted`, `Decided`, `DispatchSettles`, `CallsReturn`, `QueueDrains`,
`ServedAgain`, `NoPhantom`), which needs fairness and ENABLED and is beyond TLAPS here.

## 6. What is not modelled

Hazards no property covers:

- The read of the next deadline after a rebuild (`syncer/syncer.go:1277`) may fail
  when the marker is already gone, and nothing then arms the timer until the next
  arrival or restart. The model takes it to succeed: a property would only repeat that
  the code does not handle it.
- `DropUser` of the search service (`search/search.go:1058`) against a batch that has
  resolved its index handle and waits for admission. Whether that is harmless depends
  on what the index library does with a closed index, which the source does not hold.
- A retry of the attachment index that is armed late by one worker replaces the timer of
  another (`syncer/attachment_index_queue.go:161`): the model does not tell which worker
  armed the timer.
- `api_snoozes.go:75`: a snooze is committed and its handler fails before it wakes the
  loop. The loop notices within its idle interval; the properties leave such users out.

Parts of modelled components:

- The gate of the recovery in `Runner` (signal, reconcile, pause) is open throughout.
  Closed, it adds an alternative to every admission; with it the instances of
  `SyncRunner` no longer finish, and a smaller one would lose the preemptions that
  make the rest interesting. What is deferred by it is replayed by the same calls as
  after a foreground operation.
- The attachment queue's priorities, cooldowns and continuations decide which message
  is indexed next, not whether the worker runs; that is in `SyncRunner`.
- The restore of a rebuilt folder matches old rows with new ones by content. Its
  effects on arrivals and on snoozes are modelled.
- Instance locks without a marker and `ROLLTOP_BREAK_INSTANCE_LOCK` rest on an
  operator's word. Retention of raw bodies by path and the remote placeholders are
  statements without a concurrent partner of their own, apart from the cleanup queue.
- Batches of moves and copies: their rows are independent, but all are claimed before the
  first command is sent, which is what the assumption about `Age` in section 2 is for;
  messages without a Message-ID; plugin observers; a change
  of UIDVALIDITY between two attempts, which ends the request with an error.

Components left out: the search service around the write coordinator (calls into a
library under one writer lock), the process's start and shutdown (calls in sequence
with time limits), the retention loop (one daily pass), IMAP and SMTP as protocols,
mail parsing, SQL as data (the remaining stores, each call one transaction), HTTP
handlers, user interfaces, clients of remote services, and plugins. They are input and
output or pure data, and most of the repository's lines are theirs; where their
answers matter to a modelled component they are nondeterministic choices in it.
