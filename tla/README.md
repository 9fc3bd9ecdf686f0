# dunkingsheep: verification of the daemon

`dunkingsheep` is a daemon that runs a fleet of coding agents in terminal panes. It
keeps their shared work queue, types prompts into their panes, stores their mail,
watches them for stalls and reports to an owner. The modules here model the Rust daemon
(`rust/crates/ds-core`). The Python files at the top of the repository are the program
it was ported from; they are not modelled.

Paths below are relative to `rust/crates/ds-core/src` unless they start with `docs/`.

## The system's parts

| part | state it keeps | operations | who touches it at the same time |
|---|---|---|---|
| task store (`tasks/mod.rs`, `tasks/claim.rs`) | `tasks`, `task_leases`, `counters`, `task_events` (SQLite) | add, update, assign, delete, block, unblock, cancel, claim, heartbeat, release, reap, sweep, landed flag | every agent's command, the reaper loop, the push loop, the completion path, the merge hook |
| completion (`flock/commands_task_complete.rs`, `tasks/advance.rs`) | a request in flight | read and authorise; complete and hand over the next job in one transaction; clear `landed` | two panes completing, an operator cancelling or reassigning, a daemon restart |
| next-job hand-off (`tasks/next_job.rs`, `tasks/next_job_runtime.rs`) | `next_job_handoffs`, an inbox message, a transport receipt | materialise, gate, type, retry, bind to a turn, recover | the pane's own turn events, the retry loop, a restart in the middle of typing |
| outbox (`flock/sends.rs`, `flock/mod.rs`, `server_runtime/outbox_runtime.rs`) | the queue of each pane, tombstones of decided sends, the snapshot file | queue, fold a notice, take, type, hold, decide, cancel, save, restore | the senders, the pane's worker thread, cancellations, the pane's screen, a restart |
| inbox store (`inbox_store.rs`, `flock/commands_inbox.rs`) | `messages`, `deliveries`, `attachments`, blob files | send, publish a digest, read, recover, ack, cancel, archive, delete, retire | agents, the notifier, the reaper tick |
| allocator (`tasks/allocator.rs`) | offers, review revisions | offer, accept, decline, review intake | lanes and the push loop |
| review sync (`review.rs`), GitHub mints (`github/mints.rs`) | heads judged, tokens minted | intake, verdict, publish, mint, settle | GitHub's answers, the review timer |
| stuck watchdog (`stuck.rs`), dialog alerts, watchdog and dead man's switch | episodes, pages, confirmations | observe, alert, confirm, recover | the pane's screen, the pager's answers |
| dunk timers (`flock/dunks.rs`, `server_runtime/outbox_runtime/dunk_timers.rs`) | the dunk list, a thread per running dunk, the worker map | add, start, stop, edit, remove, fire | requests, the timer threads, other senders to the pane, a restart |
| dispatch queue | queued items, turn-end cooldowns | tick, take | the pane's idle state |
| memory ingest, context store | leases of ingest work, ledgers | claim, checkpoint, finish | several ingest workers |
| roles, superusers (`roles/store.rs`, `superusers.rs`, `atomic_json.rs`) | JSON files rewritten under a lock | set, match | commands of several processes |
| database writer (`db.rs`) | one writable connection per database | run one closure at a time | all of the above |
| server, registry, terminal adapters, front ends | sockets, processes, screens | I/O | not modelled: no logic of their own beyond I/O |

How they interact: a mail is stored in the inbox and announced through the outbox, whose
worker writes the receipt back into the inbox; a completed task writes a hand-off, which is
delivered as an inbox message and typed into the pane; dunks type into the same panes under
the same pane lock, and share the snapshot file with the outbox. Every store operation is a closure sent to the one writer task of its
database, so stores do not interleave inside an operation, but a *command* is usually
several such calls, with reads, file locks, network calls and `await`s between them, and
a background loop may run any operation between two of them. Loops (reaper, retry, push,
review, stuck) run on timers for the life of the daemon. A restart loses everything in
memory and keeps the tables.

## Modules

| module | models |
|---|---|
| `TaskStore` | the task store, the completion request and the next-job transaction |
| `MCTaskStore` | its instances for TLC |
| `TaskStoreProofs` | what holds of it for every instance |
| `NextJob` | the hand-off journal, its inbox receipt, the push worker, crashes and restarts |
| `HandoffPromise` | what a hand-off promises the agent; `NextJob` is checked and proved to implement it |
| `NextJobProofs` | what holds of `NextJob` for any number of hand-offs, daemons and attempts |
| `NextJobOverlap` | what daemons that run beside each other may do to a hand-off |
| `Outbox` | the queue of one pane, its worker, the snapshot file, and the notices of mails that ride on it (with the receipts they leave in the inbox) |
| `OutboxProofs` | the types of `Outbox` and its worker, for any number of calls, exits and failing snapshots |
| `OutboxDelivery` | what becomes of a message of `Outbox`: not lost, not queued again, not typed twice |
| `Inbox` | one mailbox: mails, digests, receipts, attachments, maintenance |
| `InboxProofs` | what holds of `Inbox` for any number of mails, bodies and readers |
| `Enumerations` | lemmas about sequences that list a set without repetition |
| `DunkTimer` | scheduled prompts: rows, timer threads, requests, pane locks, snapshots, restarts |
| `DunkTimerProofs` | what holds of it for any number of dunks, panes, requests and threads, and any cap |

### TaskStore

`task` is the `tasks` table (status, assignees, multi, dependencies, block reason,
landed; an id that has no row is `absent`), `lease` is `task_leases` (live, expired or
none; whether its process is dead; `assignee_added`), `nextId` the `counters` row, and
`request` what the server holds in memory while it serves `task complete`.

Each operation that is one closure of the writer is one action: `Add`, `Update`,
`Assign`, `Delete`, `SetStatus`, `ClaimNext`, `Heartbeat`, `Release`, `Reap`, `Sweep`,
`MarkLandedForPr`, `AdvanceIdle`. A completion is several: `BeginComplete` reads the row
and authorises the caller, `Advance` (or `RefuseComplete`, or `AlreadyComplete`) is the
transaction that completes the task and hands the pane its next one, and `SetUnlanded` is
the separate write of the landed flag for unmerged work. `CrashInSetStatus` is the daemon
dying between the autocommitted statements of `set_status`; `Crash` loses the requests.

Abstractions. Time: any live lease may be the next to expire. Priorities, scopes and
kinds: any task that passes the claim rules may be the one a pull picks. The review-only
columns, notes and events are left out. A block reason is `none`, `dependency` or
`owner`, which is all `auto_unblock` distinguishes.

Runs:

| run | instance | question |
|---|---|---|
| `task_claims` | 1 task, 2 panes, every step | exclusive leases, no stranded claim, nothing finished reopens, claims leave ended tasks alone, a stale authorisation completes nothing |
| `task_jobs` | 2 tasks, 2 panes | one exclusive job per pane |
| `task_liveness` | 2 tasks, 1 pane that is also the operator, fair reaper | satisfied blocks lift, abandoned work returns; dependencies exist, new tasks are unclaimed |

Bounds. `MaxTask` bounds the ids. One task with two panes is enough for the rules about
one task, since each rule reads one row and its leases; two tasks are the least for a
hand-over and for a pane with two jobs, or for a dependency that is deleted. Two tasks with every step at once
exceeds what TLC can enumerate, so `task_jobs` leaves out the operators' edits and serves
one completion at a time (`OneRequest`), and `task_liveness` has one pane.

What the instances must say for a property to hold, and why: `ExclusiveLease` and
`OneJobPerPane` hold when heartbeats come before the deadline (`LateHeartbeats = FALSE`);
with late ones a heartbeat revives a lease that another pane's claim has replaced. `OneJobPerPane` is about callers
that do not pass `--allow-busy`. `NoStrandedClaim` is about instances in which no
operator sets `in_progress` by hand: `task update --status in_progress` makes a task in
progress that no lease points to, and the reaper finds work through leases.

Fairness. `FairSpec` assumes weak fairness of `Sweep` and `Reap` only: `run_reaper`
(`flock/loops.rs`) ticks every interval as long as the daemon runs, each tick sweeps
first, and reaps when the terminal backend answers live. No agent is assumed to do
anything.

### NextJob and HandoffPromise

A completion that hands over a task commits, with the claim, a hand-off in `pending`.
From then on the hand-off lives in two databases: `journal[m]` is its newest
`next_job_handoff` event in the task database (state, attempt, owner of the transport,
reason, observed turn), `receipt[m]` the row of the inbox database (whether the message
is there, `notify_state`, `notify_attempt`). `worker[p]` is what the push worker of
daemon process `p` holds in memory while it is inside `deliver`: the hand-off and the
task it read, the receipt it read, and how far it got. `typed` counts the prompts in the
pane and is written by no table.

`deliver` is one long function; each action is the stretch of it between two durable
writes, so a `Crash` or a `StoreError` can fall between any two:

| stage of `deliver` | actions |
|---|---|
| pane lock, read hand-off and task | `Load`, `CancelFinished`, `BindSent` |
| an attempt found in flight | `LeaveSending`, `ReadReceipt`, `ReceiptUnreadable`, `RetryInterrupted`, `AdoptReceipt`, `AbandonInterrupted` |
| gate, turn hold, retry plan, claim | `NotePaused`, `WritePaused`, `Wait`, `Exhausted`, `ClaimGone` |
| the attempt | `Reserve` (compare-and-swap), `MaterialiseAttempt`, `MaterialiseFails`, `Arm`, `Type` |
| its outcome, receipt first | `PauseAttempt`, `HoldAttempt`, `SendFails`, `Confirm`, `GiveUp` |
| its outcome, then the journal | `ReleaseAttempt`, `RecordSent`, `RecordUndeliverable` |
| any journal write, the task being deleted | `JournalRefuses` |

`Offer` and `Materialise` are the end of `advance`; `Start` is a daemon whose loops start
(before it has bound the socket, so `Overlap` allows a second one beside a live one),
with the recovery pass; `BeginTick` a later pass. `ObserveTurn` is the producer's
callback, which does not wait for the pane lock. `ClaimChanges`, `DeleteTask` and
`GateChanges` are everybody else.

A task may be deleted whatever its status, unless it has children or dependents. Its events
stay, but `record_in` copies columns of the task into every event it writes, so from then on
the journal of the hand-off takes no more (`Recordable`): `Load` finds no task to read and
goes on to the next hand-off, `materialise` fails, and a `deliver` that had read the task
before returns the error of its next journal write (`JournalRefuses`), with its receipt
written and perhaps its prompt typed.

`HandoffPromise` has three variables and four steps: a hand-off is offered; its prompt
is typed, only while it is open and only once; it is closed with a verdict, `sent` only
of a typed prompt; and a sent hand-off may be called cancelled when its task ends (which
is what `CancelFinished` does to one). `KeepsPromise` is the refinement, with `typed` for
itself and `verdict` computed from the journal.

Abstractions. Time: a turn hold or a retry backoff may keep any retry waiting (`Wait`).
Reasons: `paused` is a refusal of the dispatch gate, which is what `NotePaused` compares;
everything else is `other`. Each hand-off has a pane of its own, because a pane is given
no second one while a first is active, so the pane lock is a lock on the hand-off. The
order in which a tick visits hand-offs is left open. The reads of the hand-off and of its
task under one pane lock are one step. The last process never crashes: what remains after
it has no daemon to speak of. Not modelled: the replay of skipped decisions at the start
of `recover`, the allocator's own use of the inbox, and who may be prompted (the gate is
a Boolean).

| run | instance | question |
|---|---|---|
| `handoff_journal` | 1 hand-off, 3 daemons in a row, 2 attempts, 1 failing store call | the promise is kept, the two databases agree, what waits is untyped, attempts are spent |
| `handoff_overlap` | 2 daemons at once, 3 attempts, unreadable receipts, 1 failing store call | a prompt is typed once while no daemon dies, and never more often than there are daemons |
| `handoff_liveness` | 3 daemons in a row, 4 attempts, unreadable receipts, fair worker | every hand-off whose task is not deleted settles once the gate stays open |
| `handoff_turn` | violated | the turn that starts the task is never persisted |

Bounds. One hand-off, since hand-offs share only the gate and the worker; three
processes, so that a recovery can itself be interrupted and recovered; two attempts, the
least for a retry (`SUBMIT_ATTEMPTS` is 4), and three where daemons overlap, since a late recovery
needs one attempt to be late by and another to type again; one failing store call (`MaxErrors`), at
any place. Two hand-offs with two processes exceed what the runs enumerate.

Fairness. `Start`, `BeginTick` and the steps inside `deliver` are weakly fair: a
supervisor restarts the daemon and `run_push` ticks until it stops. `Retry` is strongly
fair: a turn has a TTL and a backoff a length, so a hand-off that can be tried again and
again is not made to wait every time. `EveryHandoffSettles` is checked without failing
store calls, because a call that fails after the reservation leaves the hand-off
`sending` with a living owner, which ordinary ticks leave alone until the next restart
(`next_job_runtime.rs:628`), and for hand-offs whose task is not deleted (below). No agent and no gate is assumed to do anything; the property
says what follows when the gate stays open.

### Outbox

One pane's queue. A *call* is one request to send: a text, or a mail that is stored in the
inbox and announced by a notice. A call queues at most one message, which therefore has the
call's name; its number (`msg[c].id`) is kept apart, because a restart may hand out a number
again. `queue`, `msg`, `nextId`, `decided` (the tombstones) and `history` are in memory;
`disk` is the snapshot file; `mail` is what the inbox says of each mail's notice.

| code | actions |
|---|---|
| `inbox_send_wire`, `fold_notice`, `send_notice` | `Fold`, `NothingToFold`, `Push`, `RecordNotify` |
| `outbox_step` | `Pick`, `Frame`, `Defer`, `Stopped` |
| `deliver_message_frame`, `send_guarded_with_reason` | `Refuse`, `Type`, `TypingFails`, `Decide`, `RememberRow`, `RecordReceipts` |
| worker exit and `ensure_worker` | `Unregister`, `Push` |
| `save_classified`, `snapshot` | `BeginSave`, `SaveRows`, `WriteSnapshot`, `SaveFails` |
| `cancel_message`, stop, end, `restore_snapshot` | `Cancel`, `Stop`, `Exit`, `Restart` |

The snapshot lock is held through a save, but rows, the next number and the tombstones are
read one after the other while everybody else goes on: `snap` is the half-taken snapshot.
`Restored` is the decision of `restore_outbox` about each row.

Abstractions. A text is the set of mails it announces. What the pane answers is
nondeterministic; the backoff of a hold is left out (a held message may be tried at once),
and `mail` becomes read only where a restart can tell (`ReadMail`). Purging of tombstones
at their limit is left out: there are fewer messages than that.

| run | instance | question |
|---|---|---|
| `outbox_restart` | 2 mails, `HoldLimit` 1, the process ends once, 1 snapshot fails | no append without a worker, nothing accepted is lost, nothing durably decided comes back, one typing per message and life |
| `outbox_liveness` | 2 texts, the process ends once | a pane that stops deferring gets through its queue |

Bounds. Two messages are the least for folding, for a queue with a head and a tail, and for a
number that is used twice; `HoldLimit` 1 (10 in the code) makes the first hold the last,
since a hold that is not the last only repeats; one end and one failing save at any step.

`NothingLost` and `EveryMessageSettles` exempt messages whose number was handed out twice
(`Reused`). That happens: the next number is read before the rows, so a file may hold a row
with the number that the next life starts from. `cancel_message` and
`direct_message_result` go by number, and a tombstone is kept per number.

Fairness. The worker's thread runs; the file is written or fails; whoever waits for the
snapshot lock gets it (strong fairness of `BeginSave`, since others take the lock in
between); a daemon that began to stop ends; the service manager starts it again.

### Inbox

One mailbox. `row` and `order` are `messages`, `receipt` the mailbox's row of `deliveries`,
`file` the blob that all attachments share (they are stored by content), `reader`, `sender`,
`acking` and `collector` the commands between their store calls. Each call of the writer is
one action: `StoreBlob`, `Insert`; `Publish` (`upsert_digest`); `Fetch`, `MarkRead`,
`RecordDelivery` of a read, which may also end early (`GiveUp`); `Recover`; `Ack`,
`NoteAcked`; `Cancel`; `Archive`; `Delete`, then `CollectKeep` and `CollectRemove`, which
are the query and the removal of `collect_blobs`; `MarkUndeliverable`, `AutoArchive` and
`ArchiveRetired` of the reaper tick. `Inventory` is the terminal's list of panes, which may
be empty for a moment, and `Crash` the daemon's death in the middle of commands.

Abstractions. A body is its version. Age is nondeterministic. A digest that is deleted is
not published again (the code inserts it as a new message).

| run | instance | question |
|---|---|---|
| `inbox_mailbox` | a mail with a file, a digest with 2 bodies, 2 readers, 1 crash | what ended stays ended, a lost answer recovers, mail of a dead pane is retired |
| `inbox_files` | violated: 2 mails with the file | an attachment is kept as long as a message has it |

Bounds. A mail and a digest are the two kinds of row; two readers overlap each other and a
third party; two bodies give a digest one republication; one crash at any step.

Fairness. `MarkUndeliverable` and `AutoArchive` are weakly fair: the reaper tick runs for as
long as the daemon does, and unattended mail grows older than the cutoff.

### DunkTimer

A dunk is a prompt typed into a pane on an interval. `row` is the dunk list in memory and
`disk` the one in the snapshot file; `slot` the worker map of `DunkTimerOwner`; `thread` what
each timer thread holds (where it is in `run_dunk_timer`, the target it read, its wake and
cancel flags); `lock` the send lock of each pane; `client` the requests being served and
`lifecycle` the lock they exclude each other by. `quiet`, `durable` and `past` are history
variables.

| code | actions |
|---|---|
| `add`, `start_dunk`, `toggle_dunk` and the owner's `start` | `Add`, `Start`, `ToggleOn`, `Spawn` |
| `stop_dunk`, `stop_all_dunks`, `halt_dunks_aimed_at`, `remove_dunk` and the owner's `stop` | `Stop`, `Halt`, `Remove`, `CancelTimer`, `Join` |
| `update_dunk`, `interval_changed` | `Retarget`, `Reschedule`, `Wake` |
| end of a request | `Leave` (the lifecycle lock), `SaveAnswer` |
| `run_dunk_timer` up to the send | `Check`, `ReadFields`, `Woken`, `Timeout`, `GateCloses`, `Interrupted`, `Skip`, `Pass` |
| `send_dunk_now`, `send_guarded_with_reason`, `finish_dunk_attempt` | `Snapshot`, `Permit`, `Blocked`, `TypeDunk`, `Confirm`, `SaveCount` |
| `run_dunk_timer` after the send | `AfterSend`, `SaveHeld`, `SaveCapped`, `RemoveSelf`, `SaveRemoved` |
| a test send | `TestSend` |
| end and `load` | `Exit`, `Restart` |

Abstractions. The clock is a flag per row (`due`). Counts stop at the cap. A snapshot is one
step: its lock spans reading and writing, and a crash in between only keeps the older file.
A wake is a flag, not a generation, which is all a thread compares. Panicking threads and
snapshots that cannot be written are left out.

The run `dunk_timers` has one dunk, two panes, two requests at a time, two threads, a cap
of 1 and any number of restarts. Dunks share nothing but the pane locks and the
lifecycle lock, which test sends and the second request contend for as well; a second
thread is what an error would create; a cap of 1 makes every confirmed send the last one,
and `Skip` and the cap are reached after it. Two dunks exceed what TLC enumerates in the
time of a run. Deadlock is checked: there is always a request that can be served.

Fairness. Threads run and clocks advance; a thread that waits for the lock of a pane gets
it (strong fairness of `Sending`: others may take it in between); requests under way are
served; the daemon is restarted. Gates and agents are not assumed to do anything:
`DueIsServed` says what follows once gates stay open.

## What is proved

`TaskStoreProofs` proves, for any number of tasks, panes and operators and any sets of
drafts, edits and commands:

- `TypeInvariance`: the type invariant, by the kind of step (`OwnerType`, `ClaimType`,
  `CompletionType`, `CrashType`, `SweepType`).
- `NewTasksAreUnclaimed`: `NoInheritedLease`. It is inductive with the type invariant:
  a step that gives a row a lease reads that row's status first (`NoLeaseKept`), and only
  `Add` moves the counter (`CounterKept`).
- `DependenciesExist`: `NoDanglingDeps`, inductive with `NoInheritedLease`, which is what
  makes the new row of an `Add` differ from its dependencies.
- `FinishedStaysFinished` and `ClaimsOnlyMoveWork`: the action properties
  `FinishedNeverReopens` and `ClaimsLeaveEndedTasksAlone`, from what each kind of step
  does to a status (`ClaimStatus`, `CompletionStatus`, `StatusRowKeeps`, `UpdateKeeps`).
- `ExclusiveLeases`: `ExclusiveLease`, under `InTime` (heartbeats before the deadline and
  no edit of `multi_assignee`), from `HoldersStep`: a step gives a task no new holder, or
  its only one, or the task is for several.
- `StaleAuthorisations`: the action property `StaleAuthorisationRefused`, since a
  completion asks for ownership again in its transaction and every other step that ends
  a request writes no status `done` (`StaleStep`).
- `ClaimsAreHeld`: `NoStrandedClaim`, under `OnlyClaimsStart` (nobody adds or edits a task to
  `in_progress`). It is inductive with the types: whatever takes a lease away goes through
  `after_lease_change`, and a torn write leaves leases, not work (`HeldStep`).
- `OneJob`: `OneJobPerPane`, under `OneAtATime` (that, `InTime`, and no `--allow-busy`).
  Only its own claim gives a pane new work (`NewWork`), and a claim finds it without,
  apart from the task the same transaction completes (`ClaimedIdle`).

The conditions are the ones under which TLC checks the properties, and each is needed:
without it the code allows the counterexample named with the runs above.

`NextJobProofs` proves, for any number of hand-offs, daemon processes, attempts and
failing store calls:

- `TypeInvariance` and `AttemptsBounded` (`AttemptsAreSpent`), without any condition:
  only a reservation moves an attempt, and it adds one below the limit (`AttemptStep`).
- Under `OneAtATime` (no second daemon beside a running one, no unreadable receipt in a
  recovery): `RetriesAreUntyped`, `PromptTypedOnce`, `DatabasesAgree`, and `PromiseKept`,
  the refinement of `HandoffPromise`.

The condition is not for convenience. Without readable receipts (`Misreads`) `TypedOnce` is
false, and with daemons that overlap both `SentAgrees` and `TypedOnce` are (below).

None of the four is inductive. That a prompt is not typed twice depends on what a
recovery concludes from a receipt it read some steps ago, so `HandoffInv` says, for
every hand-off, what journal, receipt and pane say of each other (`MsgFits`: while the
journal says `sending`, a typed prompt has a receipt that names the attempt, and a
receipt that says sent for that attempt was typed), and for the worker inside `deliver`,
what its copies say of the tables at each stage (`StageFits`: a receipt in hand that is
missing or names another attempt means nothing was typed; one that says sent is still
what the inbox says). `OneDaemon` makes that worker the only one. The proof has one
lemma per kind of step inside `deliver`, each showing a `LocalStep`: it changes one
hand-off, leaves it consistent, and shows at most one step of the promise
(`PromiseFits`). `LocalKeeps` draws the invariant from that, `OutsideKeeps` does the same
for steps of the callback and of `advance`, and `PromiseStep` turns `PromiseFits` into a
step of `HandoffPromise` or a stutter. `HandoffInv` was checked by TLC for one hand-off
with three processes, and for two with two (without failing calls), before it was proved.

`NextJobOverlap` proves what is left without `OneAtATime`, for any number of daemons that overlap
in any way, with unreadable receipts and failing calls:

- `LivingTypeOnce`: `TypedOnceByLiving`. While no daemon has died no worker finds an owner dead
  (`Known`), so an attempt ends only through its own worker. `Apart` says that one daemon at most is in
  an attempt that is not typed yet, that none is when the hand-off waits or was typed, and that
  a hand-off that waits was never typed; the compare-and-swap of `Reserve` keeps it.
- `DaemonsTypeOnceEach`: `TypedPerDaemon`, without any condition. `Budget` counts: the prompts typed, plus the
  attempts under way that may still be typed or given back, plus one if the hand-off waits,
  are no more than the daemons that have their recovery of it behind them (`Spent`). Every step
  inside `deliver` is a `DeliverStep` with one of five `Moves`; all but one of them leave the
  sum as it is or lower, and the one that raises it, a recovery that reopens an attempt, is
  possible once for each daemon, in the pass it starts with.

Both invariants were checked by TLC on the instance of `handoff_overlap` before they were proved.

`InboxProofs` proves, for any number of mails, digests, bodies, readers and crashes:

- `TypeInvariance`. The order of a mailbox names each existing message once: `Insert` and
  `Delete` change rows and order together (`AppendLists`, `RemoveLists` of `Enumerations`).
  It is inductive with the fact that a message that never existed has no body.
- `EndedMailStaysEnded`: every state change of the code names the states it starts from
  (`Moved`), and none starts from an ended one; only a publication with a new body does.
- `LostAnswersRecover`: `LostAnswerRecovers`, inductive with the types.

`OutboxProofs` and `OutboxDelivery` prove, for any number of mails and texts, any
`HoldLimit`, and any number of exits and failing snapshots:

- `TypeInvariance`. The invariant (`Typed`) also says of the file and of the half-taken
  snapshot that they have each message once, that a number is at most the count of the calls that
  used one (`NumbersBounded`), and that a call that has queued nothing is in no queue and
  no row (`Fresh`); `Saving` says that whoever holds the snapshot lock waits for it.
- `QueueHasWorker`: `NoStrandedQueue`, by itself inductive with the types.
- `SettledForGood`: `SettledStaysOut`. `Ledger` says that a message has one number for its
  life, in rows and tombstones too, and that nothing knows a call before it queues;
  `DecidedOut` adds that a decided message is neither in the queue nor in a
  snapshot taken since, and that a file that still has its row has its tombstone beside it.
- `TypedAtMostOncePerLife`: `TypedOncePerLife`. `Disjoint` says that no two messages, in the
  queue or in the rows of a file, announce the same mail; `TypedBound`, that a
  message the worker may still type has not been typed in this life.
- `AcceptedIsNotLost`: `NothingLost`. `Promise` follows a message from the queue through
  the snapshot that is half taken into the file and back (`QueueKeeps`, `RowRestored`). What makes it
  true is that a restart drops a row for its receipts only when the notice of its own mail
  was decided, so `Receipts` says that a notice announces its own mail and that a
  folded mail has no notice of its own, and `AllSettled`, that what has a tombstone is
  settled; `NotifyFlow` concludes that no step records the outcome of a notice that is
  still owed.

These invariants, too, were checked by TLC before they were proved, on the instance of
`outbox_restart` and on one mail and one text with two exits.

`DunkTimerProofs` proves, for any number of dunks, panes, requests and threads, any cap and
any number of restarts, all that `dunk_timers` checks except liveness. It needs no condition but
`DunkAssumption`. The properties hold each other up, so there is one
inductive invariant, `IInv`, for all of them:

- `NeverTwoTimers` (`OneTimer`): a living thread is in the map, or was cancelled by the
  request that has the lifecycle lock and is waiting for it to end (`Accounted`), and the
  map holds only threads of their dunks which nobody told to end (`SlotsTrue`). `LifecycleHeld`
  makes that request the only one: a start cannot fall between taking a thread out of the map
  and its end.
- `SchedulesAreServed` (`NoStrandedSchedule`): `RequestsKnow` says what a request still
  knows of its dunks at each stage, with the lock but without the list: one that spawns was
  not stopped meanwhile, one that cancels because of a stop still finds the row
  stopped, one about to leave has a thread for each row that runs.
- `StopsHold` (`StoppedStaysStopped`): `Silenced` ties what was answered to the list and
  the file, so that a restart, which starts what the file has running, starts none of it.
- `TypedBehindItsGates` (`TypedWhereGated`): `AllGated` relates the target a thread read, the
  pane it chose and the row by the number of edits in between, at each stage of a send.
- `EditsWake` (`EditWakesTimer`): `Notified` says the same of a thread at every stage, asleep or not:
  an edit that falls between reading the fields and going to sleep is the case at stake.
- `CapsHold` (`CapEndsSchedule`): a thread whose dunk was sent past the cap is on its way to
  removing the row (`AllSpent`), and leaves that way only by ending or by a changed target.
- `PanesAreTypedAlone`: at most one thread types into a pane at a time. `LocksTrue` says
  that a thread has the lock of the pane it chose, which need not be the row's any more.

There is one lemma for each kind of step, on what it leaves alone: `ThreadStep` for a thread,
which changes its own record, may age its own row and may take the file along (`ThreadChange`);
`MinorKeeps` for what touches neither map nor lock; `EntryKeeps` for requests that take the
lifecycle lock; one for each stage after that; `ExitStep` and `RestartStep`. Before it was
proved, `IInv` was checked by TLC on the instance of `dunk_timers` and, with one pane and one
request at a time, on two dunks (2 602 333 states), which exceeds the time of a run.

The proofs rest on `StoreAssumption`, `HandoffAssumption`, `OutboxAssumption`,
`InboxAssumption` and `DunkAssumption`, which TLC evaluates in every run of the five modules. Model-checked
only: liveness (`DependencyBlockLifts`, `AbandonedWorkReturns`, `EveryHandoffSettles`,
`EveryMessageSettles`, `DeadMailIsRetired`, `StopReturns`, `DueIsServed`), which is out of
the prover's reach.

## Where the code and its documents disagree

Two are runs that end in a counterexample; `PROJECT.json` quotes the sentences.

1. A turn that names a hand-off is never persisted: the compare-and-swap expects
   `observed_turn` to be null and a fresh row has no such key, so no hand-off reaches
   `started` (`handoff_turn`).
2. An attachment is lost when its message is sent while another message with the same file
   is deleted: the file is kept as present, the collection that read the attachment rows
   before the new one removes it, and the row follows (`inbox_files`).

Seen while modelling, and part of the models' behaviour, without a run of their own. Task
store:

- A heartbeat does not look at the deadline (`tasks/claim.rs:198`): with
  `LateHeartbeats = TRUE`, `ExclusiveLease` fails.
- A completion may finish a cancelled task: the transaction refuses only a done one
  (`tasks/advance.rs:246`; `tasks/mod.rs:530` says a terminal status is final).
- Unmerged work is done *and landed* for the transaction that hands over the next job, so
  its dependents open (`flock/commands_task_complete.rs:225`; `tasks/mod.rs:1798`).
- A second claim by the same pane after its lease ran out clears `assignee_added`, so the
  release leaves the pane on the list (`tasks/claim.rs:400`; `claim.rs:489` says a claim
  that added its pane takes it away again).
- A live lease-holder whom a reassignment took off the list cannot complete: the late
  check reads the leases the transaction has deleted (`tasks/advance.rs:408`;
  `docs/GUIDE.md:492` lists lease-holders).
- `docs/GUIDE.md:498` says dead-pane leases requeue; `reap` takes a vanished pane as
  evidence of nothing and requeues for the deadline or a dead process only.
- Edits do not refuse cyclic dependencies (`tasks/mod.rs:1260`), and a repeated
  `complete --unmerged` on merged work clears its landed flag again.

Hand-off:

- A recovery takes any error of the receipt read for a missing message and retries what may
  have been typed (`next_job_runtime.rs:650`): with `Misreads = TRUE`, `TypedOnce` fails.
- A task that ends after `deliver` read it is still announced (`next_job_runtime.rs:618`
  reads it once; `tests/test_dunk_next_job_wiring.py:452`).
- A hand-off whose task is deleted while it is open stays `pending` or `sending` for good:
  `deliver` fails at `decorate` on every tick and in every recovery
  (`next_job_runtime.rs:618`), and no verdict could be written (`tasks/next_job.rs:72`). It
  holds back no pane, since a hand-off counts as active for an existing task only
  (`tasks/advance.rs:174`, `tasks/allocator.rs:525`); it is tried and logged for ever. Without its exception for deleted tasks `EveryHandoffSettles` fails.
- A daemon started beside a live one that read the hand-off before its delivery writes
  `queued` and the old attempt over the receipt (`next_job_runtime.rs:725`): with
  `Overlap`, `SentAgrees` fails.
- With daemons that overlap, one of which dies, `TypedOnce` fails (`MaxAttempts = 3`; with 2 the
  attempts are spent before it shows). A second daemon reads the hand-off in attempt 1; the first one
  gives that attempt back, reserves attempt 2, types it and dies; the second one now finds the
  owner it read dead and a receipt for another attempt than the one it read, concludes that attempt 1
  never reached the transport, and reopens the hand-off (`next_job_runtime.rs:627`, `:661`). With three
  processes it takes no give-back: two recoveries read the same dead owner's attempt, and
  the slower one reopens an attempt that the faster one has made meanwhile
  (`next_job_runtime.rs:670`: the update compares nothing). `src/dunk_next_job.py:159` says the
  same request is never sent twice. `TypedPerDaemon` bounds it.

Outbox:

- Two senders that both find no queued notice queue one each: looking (`fold_notice`) and
  queueing are two steps (`docs/GUIDE.md:402`: "A notice is never stacked").
- The sender's own record of its notice may come after the worker's and turn `sent` into
  `queued` for good (`flock/commands_inbox.rs:720`; `docs/GUIDE.md:411`). A restart that
  finds such a row in an older file types the notice again.
- `flock/mod.rs:256` calls the snapshot one consistent value; it is read in parts, and the
  next number it stores may be that of a row it stores.

Inbox:

- A daemon that dies between marking a batch and recording it leaves mails read that were
  displayed nowhere and are in no receipt (`flock/commands_inbox.rs:836`).
- A digest published between the fetch and the mark of a read is marked read unseen
  (`inbox_store.rs:674`).
- `docs/GUIDE.md:398` says read mail is purged after a week; nothing calls the purge.

Dunks:

- `docs/GUIDE.md:50` says a dunk removes itself after its N-th send. One whose target is
  changed during that send goes back to the top of its loop without looking at the count,
  and is sent again; so is one that is started again after a stop during it. A test send
  counts and does not remove the row, so that a dunk whose last send was a test is sent once
  more by its schedule. That is the one send past the cap `CapEndsSchedule` allows for each.
  Edits of `max_sends` are left out of the model.
- A target changed there and back during one send passes the comparison.
- `stop_all_dunks` answers without an error when its snapshot cannot be written
  (`server_runtime/outbox_runtime.rs:331`); a restart would start the dunks again.

## Not modelled

- Purge of old mail: nothing calls it. Owner conversations, fetch of a single mail.
- What recognises a prompt, a draft or a dialog on a screen, and the retries of Enter: the
  models take its outcome as nondeterministic.
- Panicking timer threads, snapshots of the dunk list that cannot be written.
- The server's sockets, the registry, the terminal adapters, the front ends and the
  reports: I/O and rendering, no protocol of their own.
- The components of the plan below.

## Plan

1. Allocator offers and review intake (`tasks/allocator.rs`), review sync with its mints.
2. Stuck watchdog, dispatch queue, memory ingest leases, the owner's push and the dead
   man's switch.
3. The composition of `Inbox` and `NextJob`, whose receipts are in the same table.
