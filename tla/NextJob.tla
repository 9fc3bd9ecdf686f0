------------------------------- MODULE NextJob -------------------------------
(***************************************************************************)
(* The next-job hand-off (rust/crates/ds-core/src/tasks/next_job.rs and    *)
(* next_job_runtime.rs): a task that was just claimed for a pane is        *)
(* announced by a prompt typed into that pane.  The hand-off is journalled *)
(* with the claim, mailed to the pane's inbox, and typed by the push       *)
(* worker; every stage is a durable write of its own, in one of two        *)
(* databases, and the daemon may die between any two.                      *)
(*                                                                         *)
(* A hand-off is the newest journal event of its message id.  Each model   *)
(* hand-off is for a pane of its own, since a pane is given no second one  *)
(* while a first is active; so the pane lock of `deliver` and `advance` is *)
(* a lock on the hand-off, private to the daemon process that holds it.    *)
(* Daemon processes are numbered in the order they are started; a started  *)
(* process runs its loops before it finds out whether another one already  *)
(* serves the socket.                                                      *)
(*                                                                         *)
(* Abstractions.  Time: a turn hold or a retry backoff may keep any retry  *)
(* waiting.  The reasons a hand-off carries are `paused` (a refusal of the *)
(* dispatch gate), `other` or none, which is all that is compared.  The    *)
(* typing into the pane is the environment: it may be held before the      *)
(* first key, fail, be left unconfirmed, or be confirmed.                  *)
(***************************************************************************)
EXTENDS Naturals, FiniteSets

CONSTANTS
    Msgs,        \* the hand-offs
    NoMsg,       \* no hand-off
    NumProcs,    \* bound: how many daemon processes are started
    MaxAttempts, \* SUBMIT_ATTEMPTS
    MaxErrors,   \* bound: how many store calls fail
    Misreads,    \* whether the read of a receipt in a recovery may fail
    Overlap      \* whether a process may be started while another one is running

ASSUME HandoffAssumption ==
    /\ NoMsg \notin Msgs
    /\ NumProcs \in Nat \ {0}
    /\ MaxAttempts \in Nat \ {0}
    /\ MaxErrors \in Nat
    /\ Misreads \in BOOLEAN
    /\ Overlap \in BOOLEAN

Procs == 1..NumProcs
NoProc == 0

VARIABLES
    journal,     \* the newest next_job_handoff event of each message id
    receipt,     \* the inbox message of the hand-off, and how its nudge went
    claim,       \* what the task store says of the claim behind it, or that the task is gone
    gate,        \* whether the dispatch gate lets the pane be prompted
    typed,       \* how often the prompt has been typed into the pane
    turn,        \* whether the agent's turn that names the hand-off was reported
    up,          \* each daemon process: not started, running or gone
    advancing,   \* the process whose `advance` holds the pane lock
    worker,      \* the push worker of each process, inside `tick` or `deliver`
    errors       \* store calls that failed

vars == <<journal, receipt, claim, gate, typed, turn, up, advancing, worker, errors>>

Final == {"started", "undeliverable", "cancelled"}
States == {"none", "pending", "sending", "sent"} \cup Final
Reasons == {"none", "paused", "other"}
Claims == {"valid", "invalid", "finished", "deleted"}

\* `observed_turn`: the key is missing from the row a hand-off is created with.
Handoff == [state: States, attempt: Nat, owner: Procs \cup {NoProc}, reason: Reasons,
            observed: {"absent", "null", "turn"}]

Receipt == [exists: BOOLEAN, notify: {"none", "queued", "sent", "undeliverable"},
            attempt: Nat]

NoHandoff == [state |-> "none", attempt |-> 0, owner |-> NoProc, reason |-> "none",
              observed |-> "absent"]
NoReceipt == [exists |-> FALSE, notify |-> "none", attempt |-> 0]

\* Where a worker is: between hand-offs, with a hand-off read, with its receipt read,
\* about to write a verdict of a kind, or in a reserved attempt.
Stages == {"idle", "loaded", "interrupted", "noting", "giving_up", "reserved", "ready",
           "armed", "typed", "confirmed", "releasing"}

Worker == [at: Stages, msg: Msgs \cup {NoMsg}, h: Handoff, claim: Claims, r: Receipt,
           reason: Reasons, todo: SUBSET Msgs, restart: BOOLEAN]

IdleWorker == [at |-> "idle", msg |-> NoMsg, h |-> NoHandoff, claim |-> "valid",
               r |-> NoReceipt, reason |-> "none", todo |-> {}, restart |-> FALSE]

Init ==
    /\ journal = [m \in Msgs |-> NoHandoff]
    /\ receipt = [m \in Msgs |-> NoReceipt]
    /\ claim = [m \in Msgs |-> "valid"]
    /\ gate = TRUE
    /\ typed = [m \in Msgs |-> 0]
    /\ turn = [m \in Msgs |-> FALSE]
    /\ up = [p \in Procs |-> "new"]
    /\ advancing = [m \in Msgs |-> NoProc]
    /\ worker = [p \in Procs |-> IdleWorker]
    /\ errors = 0

---------------------------------------------------------------------------
\* Helpers

Running(p) == up[p] = "up"

\* The process that reserved the attempt is not there any more.
OwnerDead(h) == h.owner # NoProc => ~Running(h.owner)

\* The hand-offs `tick` visits.
Unfinished == {m \in Msgs : journal[m].state \notin Final \cup {"none"}}

\* The worker of p is in `deliver` for m, at the named stage.
At(p, m, stage) == Running(p) /\ worker[p].at = stage /\ worker[p].msg = m

Locked(p, m) == advancing[m] = p \/ (worker[p].at # "idle" /\ worker[p].msg = m)

\* record_notify: an UPDATE, which changes nothing when the message is not there yet.
Notified(r, state, attempt) ==
    IF r.exists THEN [r EXCEPT !.notify = state, !.attempt = attempt] ELSE r

\* bind_turn_locked: a sent hand-off whose turn was persisted and whose receipt says sent.
Bound(h, r) ==
    IF h.state = "sent" /\ h.observed = "turn" /\ r.notify = "sent"
    THEN [h EXCEPT !.state = "started"]
    ELSE h

\* record_in copies columns of the task into every event of the journal, so that it refuses to
\* write one when the row is gone.
Recordable(m) == claim[m] # "deleted"

Goto(p, stage) == worker' = [worker EXCEPT ![p].at = stage]

\* `deliver` returns; the pass goes on with the next hand-off.
Return(p) ==
    worker' = [worker EXCEPT ![p] = [IdleWorker EXCEPT !.todo = worker[p].todo,
                                                      !.restart = worker[p].restart]]

\* mutant: the fields are written the wrong way round.
CloseSwapped(p, m, state) ==
    /\ Recordable(m)
    /\ journal' = [journal EXCEPT ![m].state = "other", ![m].reason = state]
    /\ Return(p)

\* update_next_job without `expected`: the given fields, whatever the row now says.
Close(p, m, state) ==
    /\ Recordable(m)
    /\ journal' = [journal EXCEPT ![m].state = state, ![m].reason = "other"]
    /\ Return(p)

\* Give up: the receipt first, the journal in a write of its own.
GiveUp(p, m, attempt) ==
    /\ receipt' = [receipt EXCEPT ![m] = Notified(@, "undeliverable", attempt)]
    /\ Goto(p, "giving_up")
    /\ UNCHANGED journal

\* Give the attempt back after a known hold: the receipt first, then the journal.
Hold(p, m, why) ==
    /\ receipt' = [receipt EXCEPT ![m] = Notified(@, "queued", worker[p].h.attempt)]
    /\ worker' = [worker EXCEPT ![p].at = "releasing", ![p].reason = why]
    /\ UNCHANGED <<journal, typed>>

---------------------------------------------------------------------------
\* Creation: `advance`

\* The hand-off is committed with the claim of the task, under the pane lock.
Offer(p, m) ==
    /\ Running(p)
    /\ journal[m].state = "none"
    /\ journal' = [journal EXCEPT ![m].state = "pending"]
    /\ advancing' = [advancing EXCEPT ![m] = p]
    /\ UNCHANGED <<receipt, claim, gate, typed, turn, up, worker, errors>>

\* After the commit the message is mailed, as far as the gate, the inbox and the task allow.
Materialise(p, m) ==
    /\ Running(p)
    /\ advancing[m] = p
    /\ advancing' = [advancing EXCEPT ![m] = NoProc]
    /\ \/ /\ ~gate /\ Recordable(m)
          /\ journal' = [journal EXCEPT ![m].reason = "paused"]
          /\ UNCHANGED receipt
       \/ /\ gate /\ Recordable(m)
          /\ receipt' = [receipt EXCEPT ![m].exists = TRUE]
          /\ UNCHANGED journal
       \/ UNCHANGED <<journal, receipt>>
    /\ UNCHANGED <<claim, gate, typed, turn, up, worker, errors>>

---------------------------------------------------------------------------
\* Delivery: `recover`, `tick` and `deliver`

\* The daemon starts, and its push worker lists what to recover.
Start(p) ==
    /\ up[p] = "new"
    /\ \A q \in Procs : q < p => up[q] # "new"
    /\ Overlap \/ \A q \in Procs : ~Running(q)
    /\ up' = [up EXCEPT ![p] = "up"]
    /\ worker' = [worker EXCEPT ![p].todo = Unfinished, ![p].restart = TRUE]
    /\ UNCHANGED <<journal, receipt, claim, gate, typed, turn, advancing, errors>>

\* The next tick.
BeginTick(p) ==
    /\ Running(p)
    /\ worker[p].at = "idle"
    /\ worker[p].todo = {}
    /\ Unfinished # {}
    /\ worker' = [worker EXCEPT ![p].todo = Unfinished, ![p].restart = FALSE]
    /\ UNCHANGED <<journal, receipt, claim, gate, typed, turn, up, advancing, errors>>

\* `deliver` takes the pane lock and reads the hand-off and its task again: it has nothing to do
\* for a final one, and fails when there is no such task.
Load(p, m) ==
    /\ Running(p)
    /\ worker[p].at = "idle"
    /\ m \in worker[p].todo
    /\ advancing[m] # p
    /\ LET rest == [worker[p] EXCEPT !.todo = @ \ {m}]
       IN  worker' = [worker EXCEPT ![p] =
              IF journal[m].state \in Final \/ claim[m] = "deleted" THEN rest
              ELSE [rest EXCEPT !.at = "loaded", !.msg = m, !.h = journal[m],
                                !.claim = claim[m]]]
    /\ UNCHANGED <<journal, receipt, claim, gate, typed, turn, up, advancing, errors>>

\* The task ended meanwhile.
CancelFinished(p, m) ==
    /\ At(p, m, "loaded")
    /\ worker[p].claim = "finished"
    /\ Close(p, m, "cancelled")
    /\ UNCHANGED <<receipt, claim, gate, typed, turn, up, advancing, errors>>

\* An attempt in flight is left alone, except by a restart that finds its owner dead.
LeaveSending(p, m) ==
    /\ At(p, m, "loaded")
    /\ worker[p].claim # "finished"
    /\ worker[p].h.state = "sending"
    /\ ~(worker[p].restart /\ OwnerDead(worker[p].h))
    /\ Return(p)
    /\ UNCHANGED <<journal, receipt, claim, gate, typed, turn, up, advancing, errors>>

\* mutants: a restart trusts an owner that is dead, and takes over one that is alive.
ReadReceiptOfLiving(p, m) ==
    /\ At(p, m, "loaded")
    /\ worker[p].claim # "finished"
    /\ worker[p].h.state = "sending"
    /\ worker[p].restart
    /\ ~OwnerDead(worker[p].h)
    /\ worker' = [worker EXCEPT ![p].at = "interrupted", ![p].r = receipt[m]]
    /\ UNCHANGED <<journal, receipt, claim, gate, typed, turn, up, advancing, errors>>

ReadReceiptOfAny(p, m) ==
    /\ At(p, m, "loaded")
    /\ worker[p].claim # "finished"
    /\ worker[p].h.state = "sending"
    /\ worker[p].restart
    /\ worker' = [worker EXCEPT ![p].at = "interrupted", ![p].r = receipt[m]]
    /\ UNCHANGED <<journal, receipt, claim, gate, typed, turn, up, advancing, errors>>

\* A restart reads the receipt of an attempt whose owner is dead.
ReadReceipt(p, m) ==
    /\ At(p, m, "loaded")
    /\ worker[p].claim # "finished"
    /\ worker[p].h.state = "sending"
    /\ worker[p].restart
    /\ OwnerDead(worker[p].h)
    /\ worker' = [worker EXCEPT ![p].at = "interrupted", ![p].r = receipt[m]]
    /\ UNCHANGED <<journal, receipt, claim, gate, typed, turn, up, advancing, errors>>

\* The read fails, whatever the reason: the code takes that for a missing message.
ReceiptUnreadable(p, m) ==
    /\ Misreads
    /\ At(p, m, "loaded")
    /\ worker[p].claim # "finished"
    /\ worker[p].h.state = "sending"
    /\ worker[p].restart
    /\ OwnerDead(worker[p].h)
    /\ worker' = [worker EXCEPT ![p].at = "interrupted", ![p].r = NoReceipt]
    /\ UNCHANGED <<journal, receipt, claim, gate, typed, turn, up, advancing, errors>>

\* It died before the inbox, or before the transport, was reached: try again.
RetryInterrupted(p, m) ==
    /\ At(p, m, "interrupted")
    /\ ~worker[p].r.exists \/ worker[p].r.attempt # worker[p].h.attempt
    /\ Close(p, m, "pending")
    /\ UNCHANGED <<receipt, claim, gate, typed, turn, up, advancing, errors>>

\* It died after the receipt was written.
AdoptReceipt(p, m) ==
    /\ At(p, m, "interrupted")
    /\ worker[p].r.exists
    /\ worker[p].r.attempt = worker[p].h.attempt
    /\ worker[p].r.notify = "sent"
    /\ Recordable(m)
    /\ journal' = [journal EXCEPT ![m] =
                      Bound([@ EXCEPT !.state = "sent", !.reason = "none"], receipt[m])]
    /\ Return(p)
    /\ UNCHANGED <<receipt, claim, gate, typed, turn, up, advancing, errors>>

\* mutant: an attempt of unknown outcome is tried again.
RetryUncertain(p, m) ==
    /\ At(p, m, "interrupted")
    /\ worker[p].r.exists
    /\ worker[p].r.attempt = worker[p].h.attempt
    /\ worker[p].r.notify # "sent"
    /\ Close(p, m, "pending")
    /\ UNCHANGED <<receipt, claim, gate, typed, turn, up, advancing, errors>>

\* It died with the transport armed: nobody knows whether the prompt was typed.
AbandonInterrupted(p, m) ==
    /\ At(p, m, "interrupted")
    /\ worker[p].r.exists
    /\ worker[p].r.attempt = worker[p].h.attempt
    /\ worker[p].r.notify # "sent"
    /\ GiveUp(p, m, worker[p].h.attempt)
    /\ UNCHANGED <<claim, gate, typed, turn, up, advancing, errors>>

\* A sent hand-off is only bound to the turn it started.
BindSent(p, m) ==
    /\ At(p, m, "loaded")
    /\ worker[p].claim # "finished"
    /\ worker[p].h.state = "sent"
    /\ Recordable(m)
    /\ journal' = [journal EXCEPT ![m] = Bound(@, receipt[m])]
    /\ Return(p)
    /\ UNCHANGED <<receipt, claim, gate, typed, turn, up, advancing, errors>>

PendingLoaded(p, m) ==
    /\ At(p, m, "loaded")
    /\ worker[p].claim # "finished"
    /\ worker[p].h.state = "pending"

\* The gate refuses: the refusal is noted once, in the receipt and then in the journal.
NotePaused(p, m) ==
    /\ PendingLoaded(p, m)
    /\ ~gate
    /\ IF worker[p].h.reason = "paused"
       THEN Return(p) /\ UNCHANGED receipt
       ELSE /\ receipt' = [receipt EXCEPT ![m] =
                              Notified(@, "queued", worker[p].h.attempt)]
            /\ Goto(p, "noting")
    /\ UNCHANGED <<journal, claim, gate, typed, turn, up, advancing, errors>>

WritePaused(p, m) ==
    /\ At(p, m, "noting")
    /\ Recordable(m)
    /\ journal' = [journal EXCEPT ![m].reason = "paused"]
    /\ Return(p)
    /\ UNCHANGED <<receipt, claim, gate, typed, turn, up, advancing, errors>>

\* The pane is in a turn, or the backoff of the last attempt has not passed.
Wait(p, m) ==
    /\ PendingLoaded(p, m)
    /\ gate
    /\ Return(p)
    /\ UNCHANGED <<journal, receipt, claim, gate, typed, turn, up, advancing, errors>>

\* The attempts are spent.
Exhausted(p, m) ==
    /\ PendingLoaded(p, m)
    /\ gate
    /\ worker[p].h.attempt >= MaxAttempts
    /\ GiveUp(p, m, worker[p].h.attempt)
    /\ UNCHANGED <<claim, gate, typed, turn, up, advancing, errors>>

\* The pane no longer holds the task.
ClaimGone(p, m) ==
    /\ PendingLoaded(p, m)
    /\ gate
    /\ worker[p].h.attempt < MaxAttempts
    /\ worker[p].claim = "invalid"
    /\ GiveUp(p, m, worker[p].h.attempt)
    /\ UNCHANGED <<claim, gate, typed, turn, up, advancing, errors>>

\* Reserve the next attempt before any I/O: a compare-and-swap on state and attempt.
Reserve(p, m) ==
    /\ PendingLoaded(p, m)
    /\ gate
    /\ worker[p].h.attempt < MaxAttempts
    /\ worker[p].claim = "valid"
    /\ IF /\ journal[m].state = "pending"
          /\ journal[m].attempt = worker[p].h.attempt
          /\ Recordable(m)
       THEN LET next == [journal[m] EXCEPT !.state = "sending", !.attempt = @ + 1,
                                           !.owner = p]
            IN  /\ journal' = [journal EXCEPT ![m] = next]
                /\ worker' = [worker EXCEPT ![p].at = "reserved", ![p].h = next]
       ELSE Return(p) /\ UNCHANGED journal
    /\ UNCHANGED <<receipt, claim, gate, typed, turn, up, advancing, errors>>

\* In the attempt, the message is put in the inbox (again), unless the gate closed.  Its text is
\* that of the task.
MaterialiseAttempt(p, m) ==
    /\ At(p, m, "reserved")
    /\ gate
    /\ claim[m] # "deleted"
    /\ receipt' = [receipt EXCEPT ![m].exists = TRUE]
    /\ Goto(p, "ready")
    /\ UNCHANGED <<journal, claim, gate, typed, turn, up, advancing, errors>>

\* The pane changed, the task is gone, or the inbox refused.
MaterialiseFails(p, m) ==
    /\ At(p, m, "reserved")
    /\ gate
    /\ GiveUp(p, m, worker[p].h.attempt)
    /\ UNCHANGED <<claim, gate, typed, turn, up, advancing, errors>>

\* The receipt names the attempt before the first key.
Arm(p, m) ==
    /\ At(p, m, "ready")
    /\ gate
    /\ receipt' = [receipt EXCEPT ![m] = Notified(@, "queued", worker[p].h.attempt)]
    /\ Goto(p, "armed")
    /\ UNCHANGED <<journal, claim, gate, typed, turn, up, advancing, errors>>

\* The gate closed in the middle of the attempt: at materialise, at the final check, or
\* inside the typing lock.
PauseAttempt(p, m) ==
    /\ At(p, m, "reserved") \/ At(p, m, "ready") \/ At(p, m, "armed")
    /\ ~gate
    /\ Hold(p, m, "paused")
    /\ UNCHANGED <<claim, gate, turn, up, advancing, errors>>

\* The guard holds the send before the first key: a draft in the box, a dead session.
HoldAttempt(p, m) ==
    /\ At(p, m, "armed")
    /\ gate
    /\ Hold(p, m, "other")
    /\ UNCHANGED <<claim, gate, turn, up, advancing, errors>>

\* mutant: a hold does not count as an attempt.
ReleaseUnspent(p, m) ==
    /\ At(p, m, "releasing")
    /\ Recordable(m)
    /\ journal' = [journal EXCEPT ![m].state = "pending", ![m].attempt = @ - 1,
                                  ![m].reason = worker[p].reason]
    /\ Return(p)
    /\ UNCHANGED <<receipt, claim, gate, typed, turn, up, advancing, errors>>

\* The attempt goes back to pending, its number spent.
ReleaseAttempt(p, m) ==
    /\ At(p, m, "releasing")
    /\ Recordable(m)
    /\ journal' = [journal EXCEPT ![m].state = "pending",
                                  ![m].reason = worker[p].reason]
    /\ Return(p)
    /\ UNCHANGED <<receipt, claim, gate, typed, turn, up, advancing, errors>>

\* The prompt is typed.
Type(p, m) ==
    /\ At(p, m, "armed")
    /\ gate
    /\ typed' = [typed EXCEPT ![m] = @ + 1]
    /\ Goto(p, "typed")
    /\ UNCHANGED <<journal, receipt, claim, gate, turn, up, advancing, errors>>

\* mutant: an unconfirmed send is tried again.
SendRetried(p, m) ==
    /\ (At(p, m, "armed") /\ gate) \/ At(p, m, "typed")
    /\ Hold(p, m, "other")
    /\ UNCHANGED <<claim, gate, turn, up, advancing, errors>>

\* The send failed before the prompt was typed, or was typed and never confirmed.
SendFails(p, m) ==
    /\ (At(p, m, "armed") /\ gate) \/ At(p, m, "typed")
    /\ GiveUp(p, m, worker[p].h.attempt)
    /\ UNCHANGED <<claim, gate, typed, turn, up, advancing, errors>>

\* mutant: the receipt of a confirmed send is not written.
ConfirmUnrecorded(p, m) ==
    /\ At(p, m, "typed")
    /\ Goto(p, "confirmed")
    /\ UNCHANGED <<journal, receipt, claim, gate, typed, turn, up, advancing, errors>>

\* The send was confirmed: the receipt, and then the journal.
Confirm(p, m) ==
    /\ At(p, m, "typed")
    /\ receipt' = [receipt EXCEPT ![m] = Notified(@, "sent", worker[p].h.attempt)]
    /\ Goto(p, "confirmed")
    /\ UNCHANGED <<journal, claim, gate, typed, turn, up, advancing, errors>>

RecordSent(p, m) ==
    /\ At(p, m, "confirmed")
    /\ Recordable(m)
    /\ journal' = [journal EXCEPT ![m] =
                      Bound([@ EXCEPT !.state = "sent", !.reason = "none"], receipt[m])]
    /\ Return(p)
    /\ UNCHANGED <<receipt, claim, gate, typed, turn, up, advancing, errors>>

RecordUndeliverable(p, m) ==
    /\ At(p, m, "giving_up")
    /\ Close(p, m, "undeliverable")
    /\ UNCHANGED <<receipt, claim, gate, typed, turn, up, advancing, errors>>

\* The row of the task is gone: the journal write that `deliver` comes to is refused, and it
\* returns the error.  What it wrote to the receipt before stays written.
JournalRefuses(p, m) ==
    /\ ~Recordable(m)
    /\ \/ /\ At(p, m, "loaded")
          /\ worker[p].claim = "finished" \/ worker[p].h.state = "sent"
       \/ /\ At(p, m, "interrupted")
          /\ \/ ~worker[p].r.exists
             \/ worker[p].r.attempt # worker[p].h.attempt
             \/ worker[p].r.notify = "sent"
       \/ \E stage \in {"noting", "giving_up", "releasing", "confirmed"} : At(p, m, stage)
    /\ Return(p)
    /\ UNCHANGED <<journal, receipt, claim, gate, typed, turn, up, advancing, errors>>

\* A store call fails: `deliver` returns the error and the tick goes on.  (The first error
\* after the typing is caught, and is SendFails, unless its own write of the receipt fails.)
StoreError(p, m) ==
    /\ errors < MaxErrors
    /\ \E stage \in Stages \ {"idle"} : At(p, m, stage)
    /\ Return(p)
    /\ errors' = errors + 1
    /\ UNCHANGED <<journal, receipt, claim, gate, typed, turn, up, advancing>>

---------------------------------------------------------------------------
\* The agent, the operators and the supervisor

\* turn.start naming the hand-off: `observe_turn` persists it by compare-and-swap, with no
\* pane lock, and then binds it if the lock is free.  The turn began after the attempt.
ObserveTurn(p, m) ==
    /\ Running(p)
    /\ typed[m] > 0
    /\ ~turn[m]
    /\ journal[m].state \in {"sending", "sent"}
    /\ turn' = [turn EXCEPT ![m] = TRUE]
    /\ LET seen == IF journal[m].observed = "null"
                   THEN [journal[m] EXCEPT !.observed = "turn"]
                   ELSE journal[m]
       IN  journal' = [journal EXCEPT ![m] =
                          IF ~Recordable(m) THEN @
                          ELSE IF Locked(p, m) THEN seen
                          ELSE Bound(seen, receipt[m])]
    /\ UNCHANGED <<receipt, claim, gate, typed, up, advancing, worker, errors>>

\* The task is completed or cancelled; or the pane loses it (released, reassigned, blocked,
\* its lease reaped) or has it again.
ClaimChanges(m) ==
    /\ journal[m].state # "none"
    /\ claim[m] \notin {"finished", "deleted"}
    /\ \E c \in {"valid", "invalid", "finished"} \ {claim[m]} :
          claim' = [claim EXCEPT ![m] = c]
    /\ UNCHANGED <<journal, receipt, gate, typed, turn, up, advancing, worker, errors>>

\* The task is deleted, whatever its status; its events stay, and its id is not used again.
DeleteTask(m) ==
    /\ journal[m].state # "none"
    /\ claim[m] # "deleted"
    /\ claim' = [claim EXCEPT ![m] = "deleted"]
    /\ UNCHANGED <<journal, receipt, gate, typed, turn, up, advancing, worker, errors>>

\* The kill switch, the lane's registration or its retirement changes.
GateChanges ==
    /\ gate' = ~gate
    /\ UNCHANGED <<journal, receipt, claim, typed, turn, up, advancing, worker, errors>>

\* The process is gone, with everything it kept in memory.  The last one stays.
Crash(p) ==
    /\ Running(p)
    /\ p < NumProcs
    /\ up' = [up EXCEPT ![p] = "gone"]
    /\ worker' = [worker EXCEPT ![p] = IdleWorker]
    /\ advancing' = [m \in Msgs |-> IF advancing[m] = p THEN NoProc ELSE advancing[m]]
    /\ UNCHANGED <<journal, receipt, claim, gate, typed, turn, errors>>

---------------------------------------------------------------------------

Recovery(p, m) ==
    \/ ReadReceipt(p, m)
    \/ RetryInterrupted(p, m)
    \/ AdoptReceipt(p, m)
    \/ AbandonInterrupted(p, m)
    \/ LeaveSending(p, m)

Decision(p, m) ==
    \/ Load(p, m)
    \/ CancelFinished(p, m)
    \/ BindSent(p, m)
    \/ NotePaused(p, m)
    \/ WritePaused(p, m)

Retry(p, m) ==
    \/ Exhausted(p, m)
    \/ ClaimGone(p, m)
    \/ Reserve(p, m)

Attempt(p, m) ==
    \/ MaterialiseAttempt(p, m)
    \/ MaterialiseFails(p, m)
    \/ Arm(p, m)
    \/ PauseAttempt(p, m)
    \/ HoldAttempt(p, m)
    \/ ReleaseAttempt(p, m)
    \/ Type(p, m)
    \/ SendFails(p, m)
    \/ Confirm(p, m)
    \/ RecordSent(p, m)
    \/ RecordUndeliverable(p, m)

Next ==
    \/ \E p \in Procs : Start(p) \/ BeginTick(p) \/ Crash(p)
    \/ \E p \in Procs, m \in Msgs :
          \/ Offer(p, m)
          \/ Materialise(p, m)
          \/ Recovery(p, m)
          \/ Decision(p, m)
          \/ Wait(p, m)
          \/ Retry(p, m)
          \/ Attempt(p, m)
          \/ ReceiptUnreadable(p, m)
          \/ JournalRefuses(p, m)
          \/ StoreError(p, m)
          \/ ObserveTurn(p, m)
    \/ \E m \in Msgs : ClaimChanges(m) \/ DeleteTask(m)
    \/ GateChanges

Spec == Init /\ [][Next]_vars

\* The supervisor restarts the daemon, the push loop runs on its timer for as long as the
\* daemon lives, and a turn hold or a backoff ends (a turn has a TTL, a backoff a length),
\* so a hand-off that could be tried again and again does not wait every time.
Fairness ==
    /\ \A p \in Procs : WF_vars(Start(p)) /\ WF_vars(BeginTick(p))
    /\ \A p \in Procs, m \in Msgs :
          /\ WF_vars(Materialise(p, m))
          /\ WF_vars(Recovery(p, m))
          /\ WF_vars(Decision(p, m))
          /\ WF_vars(Attempt(p, m))
          /\ WF_vars(JournalRefuses(p, m))
          /\ SF_vars(Retry(p, m))

FairSpec == Spec /\ Fairness

---------------------------------------------------------------------------
\* Properties

TypeOK ==
    /\ journal \in [Msgs -> Handoff]
    /\ receipt \in [Msgs -> Receipt]
    /\ claim \in [Msgs -> Claims]
    /\ gate \in BOOLEAN
    /\ typed \in [Msgs -> Nat]
    /\ turn \in [Msgs -> BOOLEAN]
    /\ up \in [Procs -> {"new", "up", "gone"}]
    /\ advancing \in [Msgs -> Procs \cup {NoProc}]
    /\ worker \in [Procs -> Worker]
    /\ errors \in 0..MaxErrors

\* What the hand-off says to the outside.
Verdict(h) ==
    CASE h.state \in {"none", "pending", "sending"} -> "open"
      [] h.state \in {"sent", "started"} -> "sent"
      [] OTHER -> h.state

Promise == INSTANCE HandoffPromise WITH
    offered <- {m \in Msgs : journal[m].state # "none"},
    verdict <- [m \in Msgs |-> Verdict(journal[m])]

\* The journal, the receipts and the recovery together keep the promise of HandoffPromise:
\* across crashes at any write, failing writes, holds and retries, a prompt is typed at
\* most once, a verdict is final, and `sent` is said only of a typed prompt.
KeepsPromise == Promise!Spec

\* "never manufacture a receipt or send the same execution request twice"
\* (dunk_next_job.py:159): the prompt of a hand-off is typed at most once, also when a
\* restart takes over an attempt.
TypedOnce == \A m \in Msgs : typed[m] <= 1

\* Daemons that run beside each other do not type a prompt twice between them, however their
\* loops interleave and whatever they read late, as long as none of them dies: a reservation
\* takes the attempt for itself, and a recovery leaves the attempts of the living alone.
TypedOnceByLiving ==
    (\A p \in Procs : up[p] # "gone") => \A m \in Msgs : typed[m] <= 1

\* Nothing makes more of a prompt than one for each daemon that was started: no late read, no
\* recovery that takes a typed attempt for an untyped one, no unreadable receipt, no retry.
TypedPerDaemon ==
    \A m \in Msgs : typed[m] <= Cardinality({p \in Procs : up[p] # "new"})

\* A hand-off that will be tried again has never been typed: only known holds, and attempts
\* that died before the transport, go back to pending.
WaitingIsUntyped == \A m \in Msgs : journal[m].state = "pending" => typed[m] = 0

\* The two databases agree on a delivery: what the journal calls sent, the receipt calls
\* sent, for the same attempt.
SentAgrees ==
    \A m \in Msgs : journal[m].state \in {"sent", "started"} =>
        receipt[m].exists /\ receipt[m].notify = "sent"
                          /\ receipt[m].attempt = journal[m].attempt

\* The attempts are bounded across restarts: a crash after a reservation spends the
\* attempt, and nothing gives one back.
AttemptsAreSpent ==
    [][\A m \in Msgs : /\ journal'[m].attempt >= journal[m].attempt
                       /\ journal'[m].attempt <= MaxAttempts]_vars

\* As long as no store call fails and the gate ends up open, every hand-off is settled:
\* a crash in the middle of an attempt leaves nothing behind that waits for ever.  Only the
\* hand-off of a task that is deleted may stay open: nothing can be written to its journal.
EveryHandoffSettles ==
    \A m \in Msgs :
        <>[]gate => [](journal[m].state \in {"pending", "sending"}
                          => <>(\/ journal[m].state \in Final \cup {"sent"}
                                \/ claim[m] = "deleted"))

\* next_job_runtime.rs:1198: a matching producer generation is persisted before the pane
\* lock is tried.  (The compare-and-swap expects a null the journal row does not have.)
TurnIsPersisted == \A m \in Msgs : turn[m] => journal[m].observed = "turn"
=============================================================================
