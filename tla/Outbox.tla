------------------------------- MODULE Outbox -------------------------------
(***************************************************************************)
(* The outbox of one pane (rust/crates/ds-core/src/flock/sends.rs): the    *)
(* queue of texts to type, the thread that types them, the snapshot file   *)
(* they survive a restart in, and the inbox notices that ride on it.       *)
(*                                                                         *)
(* A call is one request to send.  A call of Texts sends a text; a call of *)
(* Mails stores a mail and sends its notice, which is folded into a notice *)
(* that is still queued when there is one.  A call queues at most one      *)
(* message, so a message has the name of its call; the number the code     *)
(* gives it is kept apart, since a restart may hand it out again.          *)
(*                                                                         *)
(* Steps.  What the code does under the outbox lock is one step.  A        *)
(* snapshot is taken under a lock of its own, but reads the next id, the   *)
(* rows and the tombstones one after the other.  The worker's thread, the  *)
(* calls and a cancellation run concurrently, and the process may end      *)
(* between any two steps.                                                  *)
(*                                                                         *)
(* Abstractions.  A text is the set of mails it announces (`frame`).  The  *)
(* pane is the environment: it may defer a send, refuse it, fail it, or    *)
(* leave it unconfirmed.  The backoff of a hold is left out: a held        *)
(* message may be tried again at once.                                     *)
(***************************************************************************)
EXTENDS Naturals, FiniteSets, Sequences, SequencesExt

CONSTANTS
    Mails,       \* calls that store a mail and notify its reader
    Texts,       \* calls that send a text
    HoldLimit,   \* HOLD_ATTEMPT_LIMIT
    MaxExits,    \* bound: how often the process ends
    MaxFailures  \* bound: how many snapshots cannot be written

ASSUME OutboxAssumption ==
    /\ IsFiniteSet(Mails) /\ IsFiniteSet(Texts) /\ Mails \cap Texts = {}
    /\ {"nobody", "worker", "canceller"} \cap (Mails \cup Texts) = {}
    /\ HoldLimit \in Nat \ {0}
    /\ MaxExits \in Nat
    /\ MaxFailures \in Nat

Calls == Mails \cup Texts

VARIABLES
    up,        \* the process runs
    closed,    \* the worker pool is closed: a stop has begun
    call,      \* where each call is
    mail,      \* each mail in the inbox: unread or read, and notify_state
    queue,     \* the pane's queued messages, oldest first
    msg,       \* each message: its number, the mails it is a receipt for, its holds
    nextId,    \* next_message_id
    worker,    \* the pane's worker thread and the message it captured
    canceller, \* a cancellation between its decision and the end of its save
    decided,   \* the tombstone of each number: the message it was recorded for
    history,   \* message_history: the messages decided since the start
    snap,      \* the snapshot being taken, by the holder of the snapshot lock
    disk,      \* the snapshot file
    accepted,  \* history variable: messages a caller was told are queued
    settled,   \* history variable: messages that left the queue for good
    durable,   \* history variable: messages whose tombstone reached the file
    typed,     \* history variable: how often each text, or the notice of each mail, was typed
    exits,     \* how often the process ended
    failures   \* how many snapshots could not be written

ghosts == <<accepted, settled, durable, typed>>
life == <<up, closed, exits, failures>>
saves == <<snap, disk, nextId>>
vars == <<call, mail, queue, msg, worker, canceller, decided, history, ghosts, life, saves>>

Nobody == "nobody"
Ids == 1..Cardinality(Calls)

\* Where a call is: `alone` found no notice to fold into; `note_*` is about to record it.
CallStages == {"new", "alone", "save",
               "note_queued", "note_sent", "note_failed", "done", "gone"}

NoteOf == [note_queued |-> "queued", note_sent |-> "sent", note_failed |-> "failed"]

\* Where the worker is: `off` is unregistered, `exit` saw an empty queue.
WorkerStages == {"off", "loop", "exit", "picked", "framed", "typed_save", "decide",
                 "remember", "hold_save", "decided_save", "receipts"}

Idle(stage) == [at |-> stage, m |-> Nobody, ok |-> FALSE]
NoSnap == [by |-> Nobody, at |-> "free", next |-> 0, rows |-> <<>>]
NoMessage == [id |-> 0, frame |-> {}, holds |-> 0]

Init ==
    /\ up = TRUE /\ closed = FALSE
    /\ call = [c \in Calls |-> "new"]
    /\ mail = [c \in Mails |-> [state |-> "none", notify |-> "none"]]
    /\ queue = <<>>
    /\ msg = [c \in Calls |-> NoMessage]
    /\ nextId = 1
    /\ worker = Idle("off")
    /\ canceller = "idle"
    /\ decided = [i \in Ids |-> Nobody]
    /\ history = {}
    /\ snap = NoSnap
    /\ disk = [next |-> 1, rows |-> <<>>, decided |-> [i \in Ids |-> Nobody]]
    /\ accepted = {} /\ settled = {} /\ durable = {}
    /\ typed = [c \in Calls |-> 0]
    /\ exits = 0 /\ failures = 0

---------------------------------------------------------------------------
\* Helpers

Queued(c) == c \in ToSet(queue)

\* The caller of c is waiting for a step of the daemon.
At(c, stage) == up /\ call[c] = stage

WorkerAt(stage) == up /\ worker.at = stage

\* The captured message is still the one in the queue.
StillQueued == Queued(worker.m)

\* retain: the queue without c, in order.
Without(c) ==
    LET place == CHOOSE i \in DOMAIN queue : queue[i] = c
    IN  IF Queued(c) THEN RemoveAt(queue, place) ELSE queue

\* The increasing enumerations of a set of positions.
InOrder(S) == {f \in [1..Cardinality(S) -> S] : \A i, j \in DOMAIN f : i < j => f[i] < f[j]}

\* record_notify of the store.
Notify(c, state) == [mail EXCEPT ![c].notify = state]

\* A message nobody holds any more.
Dropped(c) == [msg EXCEPT ![c] = [NoMessage EXCEPT !.id = msg[c].id]]

\* A restart may hand out the number of a restored message again.
SameNumber(c, d) == msg[c].id = msg[d].id

---------------------------------------------------------------------------
\* Calls

\* send_snapshot_wire_context stores the mail, which nothing here looks at before its reader
\* does, and fold_notice follows: the first notice that is queued announces this mail as well.
Stored(c) == [mail EXCEPT ![c].state = "unread"]

Fold(c) ==
    /\ At(c, "new") /\ c \in Mails
    /\ mail' = Stored(c)
    /\ \E m \in ToSet(queue) \cap Mails :
        /\ m = queue[SelectInSeq(queue, LAMBDA q : q \in Mails)]
        /\ msg' = [msg EXCEPT ![m].frame = @ \cup {c}]
    /\ call' = [call EXCEPT ![c] = "note_queued"]
    /\ UNCHANGED <<queue, worker, canceller, decided, history, ghosts, life, saves>>

NothingToFold(c) ==
    /\ At(c, "new") /\ c \in Mails
    /\ mail' = Stored(c)
    /\ ToSet(queue) \cap Mails = {}
    /\ call' = [call EXCEPT ![c] = "alone"]
    /\ UNCHANGED <<queue, msg, worker, canceller, decided, history, ghosts, life, saves>>

\* new_message and enqueue up to the save.  The row stays when the pool refuses a worker.
Push(c) ==
    /\ \/ At(c, "alone")
       \/ At(c, "new") /\ c \in Texts
    /\ msg' = [msg EXCEPT ![c] = [id |-> nextId, frame |-> {c} \cap Mails, holds |-> 0]]
    /\ nextId' = nextId + 1
    /\ queue' = Append(queue, c)
    /\ IF closed
       THEN /\ call' = [call EXCEPT ![c] = IF c \in Mails THEN "note_failed" ELSE "done"]
            /\ UNCHANGED worker
       ELSE /\ call' = [call EXCEPT ![c] = "save"]
            /\ worker' = IF worker.at = "off" THEN Idle("loop") ELSE worker
    /\ UNCHANGED <<mail, canceller, decided, history, ghosts, life, snap, disk>>

\* direct_message_result looks the number up among the decided messages.
Result(c) == IF c \in Texts THEN "done"
             ELSE IF \E d \in history : SameNumber(c, d) THEN "note_sent"
             ELSE "note_queued"

\* inbox_send_wire records how the notice went.
RecordNotify(c) ==
    /\ up /\ call[c] \in DOMAIN NoteOf
    /\ mail' = Notify(c, NoteOf[call[c]])
    /\ call' = [call EXCEPT ![c] = "done"]
    /\ UNCHANGED <<queue, msg, worker, canceller, decided, history, ghosts, life, saves>>

\* Only the receipts of a restart look at this, and then only beside a failed notice: a read
\* that happened before is as good as one that happens now.
ReadMail(c) ==
    /\ up /\ mail[c].state = "unread" /\ mail[c].notify = "failed"
    /\ mail' = [mail EXCEPT ![c].state = "read"]
    /\ UNCHANGED <<call, queue, msg, worker, canceller, decided, history, ghosts, life, saves>>

\* cancel_message: by number, so the first queued message that has it.
Cancel(c) ==
    /\ up /\ canceller = "idle" /\ Queued(c)
    /\ c = queue[SelectInSeq(queue, LAMBDA q : SameNumber(q, c))]
    /\ queue' = Without(c)
    /\ history' = history \cup {c}
    /\ decided' = [decided EXCEPT ![msg[c].id] = c]
    /\ settled' = settled \cup {c}
    /\ canceller' = "save"
    /\ msg' = IF worker.m = c THEN msg ELSE Dropped(c)
    /\ UNCHANGED <<call, mail, worker, accepted, durable, typed, life, saves>>

---------------------------------------------------------------------------
\* The worker

\* The parts no step of the worker on a captured message changes.
Aside == <<call, canceller, durable, accepted, life, saves>>

Goto(stage) == worker' = [worker EXCEPT !.at = stage]

\* outbox_step: the head of the queue is captured.
Pick ==
    /\ WorkerAt("loop") /\ ~closed
    /\ worker' = IF queue = <<>> THEN Idle("exit")
                 ELSE [Idle("picked") EXCEPT !.m = Head(queue)]
    /\ UNCHANGED <<mail, queue, msg, decided, history, settled, typed, Aside>>

\* The stop flag is read before each step that has not begun to deliver.
Stopped ==
    /\ up /\ closed /\ worker.at \in {"loop", "exit", "picked"}
    /\ worker' = Idle("off")
    /\ UNCHANGED <<mail, queue, msg, decided, history, settled, typed, Aside>>

\* The empty check is repeated under the lock that the registration is given up under.
\* mutant: the registration is given up without the second look.
UnregisterUnchecked ==
    /\ WorkerAt("exit") /\ ~closed
    /\ worker' = Idle("off")
    /\ UNCHANGED <<mail, queue, msg, decided, history, settled, typed, Aside>>

Unregister ==
    /\ WorkerAt("exit") /\ ~closed
    /\ worker' = Idle(IF queue = <<>> THEN "off" ELSE "loop")
    /\ UNCHANGED <<mail, queue, msg, decided, history, settled, typed, Aside>>

\* The captured message is compared with the head again: a cancellation may have removed it.
Frame ==
    /\ WorkerAt("picked") /\ ~closed
    /\ worker' = IF queue = <<>> THEN Idle("exit")
                 ELSE IF Head(queue) = worker.m THEN [worker EXCEPT !.at = "framed"]
                 ELSE Idle("loop")
    /\ UNCHANGED <<mail, queue, msg, decided, history, settled, typed, Aside>>

\* The hold under way uses up the attempts of the message.
\* mutant: one attempt more.
SpentLate(m) == msg[m].holds >= HoldLimit
Spent(m) == msg[m].holds + 1 >= HoldLimit

\* record_outbox_hold, and record_cancelled_outbox_hold when the row was cancelled meanwhile:
\* there every refusal of a delivery counts against the limit.
Hold(permanent, refused) ==
    LET m == worker.m
        final == Spent(m) /\ (permanent \/ (refused /\ ~StillQueued))
    IN  /\ msg' = [msg EXCEPT ![m].holds = IF Spent(m) THEN @ ELSE @ + 1]
        /\ IF final
           THEN /\ queue' = Without(m)
                /\ settled' = settled \cup {m}
                /\ worker' = [worker EXCEPT !.at = "remember", !.ok = FALSE]
           ELSE /\ Goto("hold_save")
                /\ UNCHANGED <<queue, settled>>
        /\ UNCHANGED <<mail, decided, history, typed, Aside>>

\* The box is not clear: somebody is typing, or a panel is open.
Defer == WorkerAt("picked") /\ ~closed /\ Hold(FALSE, FALSE)

\* send_guarded refuses: for now, or because the session is dead.
Refuse(dead) == WorkerAt("framed") /\ Hold(dead, TRUE)

\* The folded text is read when the pane is held, and typed.
Type ==
    /\ WorkerAt("framed")
    /\ LET texts == {worker.m} \cup msg[worker.m].frame
       IN  typed' = [c \in Calls |-> IF c \in texts THEN typed[c] + 1 ELSE typed[c]]
    /\ Goto("typed_save")
    /\ UNCHANGED <<mail, queue, msg, decided, history, settled, Aside>>

TypingFails ==
    /\ WorkerAt("framed")
    /\ worker' = [worker EXCEPT !.at = "decide", !.ok = FALSE]
    /\ UNCHANGED <<mail, queue, msg, decided, history, settled, typed, Aside>>

\* Enter and its confirmation, when the text was typed and that was saved; then the row goes.
\* mutant: an unconfirmed message stays queued.
DecideRetried(confirmed) ==
    /\ WorkerAt("decide") /\ (confirmed => worker.ok)
    /\ queue' = IF confirmed THEN Without(worker.m) ELSE queue
    /\ settled' = settled \cup {worker.m}
    /\ worker' = [worker EXCEPT !.at = "remember", !.ok = confirmed]
    /\ UNCHANGED <<mail, msg, decided, history, typed, Aside>>

Decide(confirmed) ==
    /\ WorkerAt("decide") /\ (confirmed => worker.ok)
    /\ queue' = Without(worker.m)
    /\ settled' = settled \cup {worker.m}
    /\ worker' = [worker EXCEPT !.at = "remember", !.ok = confirmed]
    /\ UNCHANGED <<mail, msg, decided, history, typed, Aside>>

\* remember: the tombstone of the number is the newest decision about it.
RememberRow ==
    /\ WorkerAt("remember")
    /\ history' = history \cup {worker.m}
    /\ decided' = [decided EXCEPT ![msg[worker.m].id] = worker.m]
    /\ Goto("decided_save")
    /\ UNCHANGED <<mail, queue, msg, settled, typed, Aside>>

\* record_delivery_outcome: every mail the notice is a receipt for by now.
RecordReceipts ==
    /\ WorkerAt("receipts")
    /\ mail' = [c \in Mails |->
                   IF c \in msg[worker.m].frame
                   THEN [mail[c] EXCEPT !.notify = IF worker.ok THEN "sent" ELSE "failed"]
                   ELSE mail[c]]
    /\ worker' = Idle("loop")
    /\ msg' = Dropped(worker.m)
    /\ UNCHANGED <<queue, decided, history, settled, typed, Aside>>

---------------------------------------------------------------------------
\* Snapshots: save_classified

WantsSave(p) ==
    \/ p \in Calls /\ call[p] = "save"
    \/ p = "worker" /\ worker.at \in {"typed_save", "hold_save", "decided_save"}
    \/ p = "canceller" /\ canceller = "save"

\* The lock is taken and the next number read.
BeginSave(p) ==
    /\ up /\ snap.by = Nobody /\ WantsSave(p)
    /\ snap' = [by |-> p, at |-> "rows", next |-> nextId, rows |-> <<>>]
    /\ UNCHANGED <<call, mail, queue, msg, worker, canceller, decided, history, ghosts, life,
                   disk, nextId>>

SaveRows ==
    /\ up /\ snap.at = "rows"
    /\ snap' = [snap EXCEPT !.at = "decided",
                  !.rows = [i \in DOMAIN queue |-> [m |-> queue[i], is |-> msg[queue[i]]]]]
    /\ UNCHANGED <<call, mail, queue, msg, worker, canceller, decided, history, ghosts, life,
                   disk, nextId>>

\* The holder of the lock goes on: only a call and the receipt of a typed attempt look at
\* whether the file was written.
Released(p, written, answered) ==
    /\ snap' = NoSnap
    /\ call' = IF p \notin Calls THEN call
               ELSE [call EXCEPT ![p] = IF answered THEN Result(p)
                                        ELSE IF p \in Mails THEN "note_failed" ELSE "done"]
    /\ accepted' = accepted \cup (IF answered THEN {p} \cap Calls ELSE {})
    /\ canceller' = IF p = "canceller" THEN "idle" ELSE canceller
    /\ worker' = IF p # "worker" THEN worker
                 ELSE IF worker.at = "hold_save" THEN Idle("loop")
                 ELSE IF worker.at = "decided_save" THEN [worker EXCEPT !.at = "receipts"]
                 ELSE [worker EXCEPT !.at = "decide", !.ok = written]
    /\ UNCHANGED <<mail, queue, msg, decided, history, settled, typed, nextId>>

\* mutant: the caller of a send is not told that the snapshot failed.
SavedQuietly(written) == Released(snap.by, written, TRUE)
Saved(written) == Released(snap.by, written, written)

WriteSnapshot ==
    /\ up /\ snap.at = "decided"
    /\ disk' = [next |-> snap.next, rows |-> snap.rows, decided |-> decided]
    /\ durable' = durable \cup {c \in Calls : \E i \in Ids : decided[i] = c}
    /\ Saved(TRUE)
    /\ UNCHANGED life

SaveFails ==
    /\ up /\ snap.at = "decided" /\ failures < MaxFailures
    /\ failures' = failures + 1
    /\ Saved(FALSE)
    /\ UNCHANGED <<disk, durable, up, closed, exits>>

---------------------------------------------------------------------------
\* Stop, exit and restart

\* stop_outbox_workers_checked: no worker is started any more, and the worker is told to stop.
Stop ==
    /\ up /\ ~closed /\ exits < MaxExits
    /\ closed' = TRUE
    /\ UNCHANGED <<call, mail, queue, msg, worker, canceller, decided, history, ghosts, saves,
                   up, exits, failures>>

\* The process ends, in a stop or by being killed: the inbox and the snapshot file remain.
Exit ==
    /\ up /\ exits < MaxExits
    /\ up' = FALSE /\ closed' = FALSE /\ exits' = exits + 1
    /\ call' = [c \in Calls |-> IF call[c] \in {"new", "done"} THEN call[c] ELSE "gone"]
    /\ queue' = <<>>
    /\ msg' = [c \in Calls |-> [NoMessage EXCEPT !.id = msg[c].id]]
    /\ worker' = Idle("off") /\ canceller' = "idle"
    /\ decided' = [i \in Ids |-> Nobody] /\ history' = {}
    /\ snap' = NoSnap /\ nextId' = disk.next
    /\ UNCHANGED <<mail, disk, ghosts, failures>>

\* restore_outbox keeps a row unless its own decision was saved, or its receipts say that the
\* notice arrived, or that nobody waits for it any more.
\* mutant: the tombstones are not looked at.
RestoredUndecided(row) ==
    LET receipts == row.is.frame
        arrived == \A c \in receipts : mail[c].notify = "sent"
        over == \A c \in receipts : mail[c].notify \in {"sent", "failed"} /\ mail[c].state = "read"
    IN  receipts # {} => ~arrived /\ ~over

Restored(row) ==
    LET receipts == row.is.frame
        arrived == \A c \in receipts : mail[c].notify = "sent"
        over == \A c \in receipts : mail[c].notify \in {"sent", "failed"} /\ mail[c].state = "read"
    IN  /\ disk.decided[row.is.id] # row.m
        /\ receipts # {} => ~arrived /\ ~over

\* start_restored_outbox_workers.
\* mutant: only a send starts a worker.
StartedNone(rows) == "off"
Started(rows) == IF rows = <<>> THEN "off" ELSE "loop"

\* restore_snapshot, then the worker is started.
Restart ==
    /\ ~up
    /\ up' = TRUE
    /\ \E f \in InOrder({i \in DOMAIN disk.rows : Restored(disk.rows[i])}) :
           /\ queue' = [i \in DOMAIN f |-> disk.rows[f[i]].m]
           /\ worker' = Idle(Started(f))
    /\ msg' = [c \in Calls |->
                  IF \E r \in ToSet(disk.rows) : Restored(r) /\ r.m = c
                  THEN (CHOOSE r \in ToSet(disk.rows) : r.m = c).is ELSE msg[c]]
    /\ decided' = disk.decided
    /\ UNCHANGED <<call, mail, canceller, history, ghosts, saves, closed, exits, failures>>

---------------------------------------------------------------------------
\* The specification

CallStep(c) == Fold(c) \/ NothingToFold(c) \/ Push(c) \/ RecordNotify(c)

WorkerStep ==
    \/ Pick \/ Stopped \/ Unregister \/ Frame
    \/ Defer \/ (\E dead \in BOOLEAN : Refuse(dead))
    \/ Type \/ TypingFails \/ (\E confirmed \in BOOLEAN : Decide(confirmed))
    \/ RememberRow \/ RecordReceipts

SaveStep ==
    \/ \E p \in Calls \cup {"worker", "canceller"} : BeginSave(p)
    \/ SaveRows \/ WriteSnapshot \/ SaveFails

Next ==
    \/ \E c \in Calls : CallStep(c) \/ Cancel(c)
    \/ \E c \in Mails : ReadMail(c)
    \/ WorkerStep
    \/ SaveStep
    \/ Stop \/ Exit \/ Restart

\* Threads run, the snapshot lock is handed on fairly, a daemon that is stopping ends, and the
\* service manager starts it again.
Fairness ==
    /\ WF_vars(WorkerStep)
    /\ WF_vars(SaveRows) /\ WF_vars(WriteSnapshot)
    /\ \A p \in Calls \cup {"worker", "canceller"} : SF_vars(BeginSave(p))
    /\ WF_vars(closed /\ Exit)
    /\ WF_vars(Restart)

Spec == Init /\ [][Next]_vars /\ Fairness

---------------------------------------------------------------------------
\* Properties

\* Type correctness of every variable.
TypeOK ==
    /\ up \in BOOLEAN /\ closed \in BOOLEAN
    /\ call \in [Calls -> CallStages]
    /\ mail \in [Mails -> [state: {"none", "unread", "read"},
                            notify: {"none", "queued", "sent", "failed"}]]
    /\ queue \in Seq(Calls)
    /\ msg \in [Calls -> [id: Ids \cup {0}, frame: SUBSET Mails, holds: 0..(HoldLimit - 1)]]
    /\ nextId \in Nat
    /\ worker \in [at: WorkerStages, m: Calls \cup {Nobody}, ok: BOOLEAN]
    /\ canceller \in {"idle", "save"}
    /\ decided \in [Ids -> Calls \cup {Nobody}]
    /\ history \subseteq Calls
    /\ snap.by \in Calls \cup {Nobody, "worker", "canceller"}
    /\ snap.at \in {"free", "rows", "decided"}
    /\ disk.decided \in [Ids -> Calls \cup {Nobody}]
    /\ accepted \subseteq Calls /\ settled \subseteq Calls /\ durable \subseteq Calls
    /\ typed \in [Calls -> Nat]
    /\ exits \in 0..MaxExits /\ failures \in 0..MaxFailures

\* A queued message always has a thread that will come to it: an append that meets a worker on
\* its way out is not left behind (ensure_worker and the exit of the worker's thread).
NoStrandedQueue == up /\ queue # <<>> => closed \/ worker.at # "off"

Reused(c) == \E d \in Calls \ {c} : SameNumber(c, d)

\* A message whose sender was told it is queued stays queued, across restarts, until it has
\* left the queue for good; unless its number was handed out twice.
NothingLost ==
    \A c \in accepted \ settled :
        \/ Reused(c)
        \/ up /\ Queued(c)
        \/ ~up /\ \E row \in ToSet(disk.rows) : row.m = c /\ Restored(row)

\* A message whose tombstone was written is not queued again, though the snapshot is not taken
\* at one moment and a number may be used twice (decided_tombstone_matches_row).
SettledStaysOut == \A c \in durable : ~Queued(c)

\* A message is typed once, and once more only when the process ended before it had recorded it.
TypedOncePerLife == \A c \in Calls : typed[c] <= 1 + exits

\* A pane that stops deferring sends gets through its queue: every message a sender was told is
\* queued leaves it, typed, failed, cancelled, or given up on after HoldLimit refusals.
EveryMessageSettles ==
    <>[][~Defer /\ ~Refuse(FALSE)]_vars
        => \A c \in Calls : c \in accepted ~> (c \in settled \/ Reused(c))
============================================================================
