------------------------------- MODULE Inbox --------------------------------
(***************************************************************************)
(* One mailbox of the inbox store (rust/crates/ds-core/src/inbox_store.rs, *)
(* flock/commands_inbox.rs): mails with attachments, the digest a project  *)
(* manager keeps up to date, the receipt of the latest delivered batch,    *)
(* and the maintenance that retires the mail of panes that are gone.       *)
(*                                                                         *)
(* Every call of the store's writer is one step; a command makes several   *)
(* (a read fetches, marks and records; an ack acks and shrinks the         *)
(* receipt; a delete deletes and collects files; a send stores its files   *)
(* before its row), so commands overlap and may be cut off by a restart.   *)
(*                                                                         *)
(* Abstractions.  A body is its version.  Every mail with an attachment    *)
(* has the same file, which is stored once.  Age is nondeterministic: any  *)
(* mail may be older than the cutoffs of the maintenance.  The purge of    *)
(* old mail is left out: nothing calls it.                                 *)
(***************************************************************************)
EXTENDS Naturals, FiniteSets, Sequences, SequencesExt

CONSTANTS
    Mails,      \* the mails that are sent
    WithFile,   \* those that have the file attached
    Digests,    \* the digests: at most one per project
    Readers,    \* requests that read the mailbox
    Limit,      \* how many mails a read takes
    MaxBody,    \* bound: how often a digest is published
    MaxCrashes  \* bound: how often the daemon dies

ASSUME InboxAssumption ==
    /\ WithFile \subseteq Mails
    /\ Mails \cap Digests = {}
    /\ Limit \in Nat \ {0}
    /\ MaxBody \in Nat \ {0}
    /\ MaxCrashes \in Nat

Ids == Mails \cup Digests

VARIABLES
    row,       \* each message: its state and the version of its body
    order,     \* the messages in the order they were created
    receipt,   \* the row of `deliveries`: the latest recorded batch
    reader,    \* each read request: where it is and the batch it fetched
    sender,    \* each sender: whether its file is stored and its row is not
    acking,    \* an ack that has not shrunk the receipt yet
    file,      \* whether the file is in the blob directory
    collector, \* a collection of files: what it decided to do with the file
    pane,      \* the inventory: it lists the mailbox's pane, only others, or nothing
    recorded,  \* history variable: messages of the latest recorded batch, not read since
    crashes    \* how often the daemon died

mailbox == <<row, order, receipt, recorded>>
vars == <<mailbox, reader, sender, acking, file, collector, pane, crashes>>

States == {"none", "queued", "read", "acked", "cancelled", "archived", "undeliverable", "deleted"}
Over == {"acked", "cancelled", "archived", "deleted"}

Exists(m) == row[m].state \notin {"none", "deleted"}

NoRow == [state |-> "none", body |-> 0]
NotReading == [at |-> "idle", batch |-> {}]

Init ==
    /\ row = [m \in Ids |-> NoRow]
    /\ order = <<>> /\ receipt = {} /\ recorded = {}
    /\ reader = [r \in Readers |-> NotReading]
    /\ sender = [m \in Mails |-> "idle"]
    /\ acking = FALSE
    /\ file = FALSE /\ collector = "idle"
    /\ pane = "listed"
    /\ crashes = 0

\* UPDATE messages SET state = s WHERE id IN S AND state IN from.
Moved(S, from, s) ==
    [m \in Ids |-> IF m \in S /\ row[m].state \in from THEN [row[m] EXCEPT !.state = s]
                   ELSE row[m]]

---------------------------------------------------------------------------
\* Sending

\* store_blob: the file is written unless it is there.
StoreBlob(m) ==
    /\ m \in WithFile /\ row[m] = NoRow /\ sender[m] = "idle"
    /\ file' = TRUE
    /\ sender' = [sender EXCEPT ![m] = "stored"]
    /\ UNCHANGED <<mailbox, reader, acking, collector, pane, crashes>>

\* send_snapshot_wire_context: the row and its attachment rows.
Insert(m) ==
    /\ row[m] = NoRow
    /\ m \in WithFile => sender[m] = "stored"
    /\ row' = [row EXCEPT ![m] = [state |-> "queued", body |-> 1]]
    /\ order' = Append(order, m)
    /\ sender' = [sender EXCEPT ![m] = "idle"]
    /\ UNCHANGED <<receipt, recorded, reader, acking, file, collector, pane, crashes>>

\* upsert_digest: a new row, or the old one with a new body, unread again in its old place.  (A
\* digest that was deleted is published as a new message, which is left out.)
\* mutant: an old one that is not unread any more is inserted again.
PlacedAgain(d) == IF row[d].state # "queued" THEN Append(order, d) ELSE order
Placed(d) == IF row[d] = NoRow THEN Append(order, d) ELSE order

Publish(d) ==
    /\ row[d].state # "deleted" /\ row[d].body < MaxBody
    /\ row' = [row EXCEPT ![d] = [state |-> "queued", body |-> @.body + 1]]
    /\ order' = Placed(d)
    /\ UNCHANGED <<receipt, recorded, reader, sender, acking, file, collector, pane, crashes>>

---------------------------------------------------------------------------
\* Reading: inbox_read_signed

\* read_signed: the oldest unread mails.
Unread == {i \in DOMAIN order : row[order[i]].state = "queued"}

Batch == {order[i] : i \in {j \in Unread : Cardinality({k \in Unread : k < j}) < Limit}}

\* The mails are fetched unmarked.  The tasks of the reader are looked up next: a failure there
\* ends the read, as a peek and an empty batch do, before anything is marked.
Fetch(r) ==
    /\ reader[r].at = "idle" /\ Batch # {}
    /\ reader' = [reader EXCEPT ![r] = [at |-> "fetched", batch |-> Batch]]
    /\ UNCHANGED <<mailbox, sender, acking, file, collector, pane, crashes>>

GiveUp(r) ==
    /\ reader[r].at = "fetched"
    /\ reader' = [reader EXCEPT ![r] = NotReading]
    /\ UNCHANGED <<mailbox, sender, acking, file, collector, pane, crashes>>

\* mark_read: only rows that are still queued move.
\* mutant: whatever became of the rows since they were fetched.
MarkedAny(S) == Moved(S, States \ {"none", "deleted"}, "read")
Marked(S) == Moved(S, {"queued"}, "read")

MarkRead(r) ==
    /\ reader[r].at = "fetched"
    /\ row' = Marked(reader[r].batch)
    /\ recorded' = recorded \ reader[r].batch
    /\ reader' = [reader EXCEPT ![r].at = "marked"]
    /\ UNCHANGED <<order, receipt, sender, acking, file, collector, pane, crashes>>

\* record_delivery: one batch per mailbox.  The answer follows, and may be lost.
RecordDelivery(r) ==
    /\ reader[r].at = "marked"
    /\ receipt' = reader[r].batch
    /\ recorded' = reader[r].batch
    /\ reader' = [reader EXCEPT ![r] = NotReading]
    /\ UNCHANGED <<row, order, sender, acking, file, collector, pane, crashes>>

\* recover_delivery: the receipt shrinks to the rows that are left.
Recover ==
    /\ receipt' = {m \in receipt : Exists(m)}
    /\ UNCHANGED <<row, order, recorded, reader, sender, acking, file, collector, pane, crashes>>

---------------------------------------------------------------------------
\* Ack, cancel, archive, delete

\* ack: an unknown id refuses the whole batch.
Ack(S) ==
    /\ ~acking /\ \A m \in S : Exists(m)
    /\ row' = Moved(S, {"queued", "read"}, "acked")
    /\ acking' = TRUE
    /\ UNCHANGED <<order, receipt, recorded, reader, sender, file, collector, pane, crashes>>

\* note_acked: the receipt shrinks to what is there and not acked.
\* mutant: only what is unread stays.
PendingUnread(S) == {m \in S : row[m].state = "queued"}
Pending(S) == {m \in S : Exists(m) /\ row[m].state # "acked"}

NoteAcked ==
    /\ acking
    /\ receipt' = Pending(receipt)
    /\ acking' = FALSE
    /\ UNCHANGED <<row, order, recorded, reader, sender, file, collector, pane, crashes>>

Cancel(m) ==
    /\ row[m].state = "queued"
    /\ row' = Moved({m}, {"queued"}, "cancelled")
    /\ UNCHANGED <<order, receipt, recorded, reader, sender, acking, file, collector, pane,
                   crashes>>

\* archive: the first n mails of the mailbox, in the states asked for.
Archive(n, states) ==
    /\ row' = Moved(ToSet(SubSeq(order, 1, n)), states, "archived")
    /\ UNCHANGED <<order, receipt, recorded, reader, sender, acking, file, collector, pane,
                   crashes>>

\* delete: the rows go, the files are collected afterwards.
Delete(m) ==
    /\ Exists(m) /\ collector = "idle"
    /\ row' = [row EXCEPT ![m].state = "deleted"]
    /\ \E i \in DOMAIN order : order[i] = m /\ order' = RemoveAt(order, i)
    /\ collector' = "deleted"
    /\ UNCHANGED <<receipt, recorded, reader, sender, acking, file, pane, crashes>>

\* collect_blobs: the files to keep are those an attachment row names.
CollectKeep ==
    /\ collector = "deleted"
    /\ collector' = IF \E m \in WithFile : Exists(m) THEN "idle" ELSE "sweep"
    /\ UNCHANGED <<mailbox, reader, sender, acking, file, pane, crashes>>

CollectRemove ==
    /\ collector = "sweep"
    /\ file' = FALSE
    /\ collector' = "idle"
    /\ UNCHANGED <<mailbox, reader, sender, acking, pane, crashes>>

---------------------------------------------------------------------------
\* Maintenance of the reaper tick, and the panes it looks at

\* mark_undeliverable: an empty inventory proves nothing.
MarkUndeliverable ==
    /\ pane = "others"
    /\ row' = Moved(Ids, {"queued"}, "undeliverable")
    /\ UNCHANGED <<order, receipt, recorded, reader, sender, acking, file, collector, pane,
                   crashes>>

\* auto_archive_undeliverable, whatever became of the pane.
\* mutant: mail that is not unread any more is taken for archived already.
ArchivableNone == {"queued"}
Archivable == {"undeliverable"}

AutoArchive(m) ==
    /\ row[m].state \in Archivable
    /\ row' = Moved({m}, Archivable, "archived")
    /\ UNCHANGED <<order, receipt, recorded, reader, sender, acking, file, collector, pane,
                   crashes>>

\* archive_retired: the mailbox of a pane that was retired.
ArchiveRetired(m) ==
    /\ pane = "others" /\ row[m].state \in {"queued", "undeliverable"}
    /\ row' = Moved({m}, {"queued", "undeliverable"}, "archived")
    /\ UNCHANGED <<order, receipt, recorded, reader, sender, acking, file, collector, pane,
                   crashes>>

Inventory(p) ==
    /\ pane # p
    /\ pane' = p
    /\ UNCHANGED <<mailbox, reader, sender, acking, file, collector, crashes>>

\* The daemon dies with the requests it was serving.
Crash ==
    /\ crashes < MaxCrashes
    /\ crashes' = crashes + 1
    /\ reader' = [r \in Readers |-> NotReading]
    /\ sender' = [m \in Mails |-> "idle"]
    /\ acking' = FALSE /\ collector' = "idle"
    /\ UNCHANGED <<mailbox, file, pane>>

---------------------------------------------------------------------------
Next ==
    \/ \E m \in Mails : StoreBlob(m) \/ Insert(m)
    \/ \E d \in Digests : Publish(d)
    \/ \E r \in Readers : Fetch(r) \/ GiveUp(r) \/ MarkRead(r) \/ RecordDelivery(r)
    \/ Recover \/ NoteAcked
    \/ \E S \in SUBSET Ids \ {{}} : Ack(S)
    \/ \E n \in DOMAIN order, states \in SUBSET {"queued", "read", "acked"} : Archive(n, states)
    \/ \E m \in Ids : Cancel(m) \/ Delete(m) \/ AutoArchive(m) \/ ArchiveRetired(m)
    \/ CollectKeep \/ CollectRemove
    \/ MarkUndeliverable
    \/ \E p \in {"listed", "others", "none"} : Inventory(p)
    \/ Crash

Spec == Init /\ [][Next]_vars

\* The maintenance is part of the reaper tick, which runs for as long as the daemon does; mail
\* that nothing happens to grows old.
Fairness == WF_vars(MarkUndeliverable) /\ \A m \in Ids : WF_vars(AutoArchive(m))

FairSpec == Spec /\ Fairness

---------------------------------------------------------------------------
\* Properties

\* Type correctness of every variable; every message that exists has one place in the order.
TypeOK ==
    /\ row \in [Ids -> [state: States, body: 0..MaxBody]]
    /\ order \in Seq(Ids) /\ IsInjective(order) /\ ToSet(order) = {m \in Ids : Exists(m)}
    /\ receipt \subseteq Ids /\ recorded \subseteq Ids
    /\ reader \in [Readers -> [at: {"idle", "fetched", "marked"}, batch: SUBSET Ids]]
    /\ sender \in [Mails -> {"idle", "stored"}]
    /\ acking \in BOOLEAN /\ file \in BOOLEAN
    /\ collector \in {"idle", "deleted", "sweep"}
    /\ pane \in {"listed", "others", "none"}
    /\ crashes \in 0..MaxCrashes

\* A read that fetched a mail before it was acked, cancelled, archived or deleted does not bring
\* it back: only the next body of a digest is unread again (mark_read, upsert_digest).
EndedStaysEnded ==
    [][\A m \in Ids : row[m].state \in Over /\ row'[m].state \notin Over
                         => row'[m].body > row[m].body]_vars

\* A lost answer can be asked for again: what the latest recorded batch marked read is in the
\* receipt until it is acked, through other acks, deletes, recoveries and new digests.
LostAnswerRecovers == \A m \in recorded : row[m].state = "read" => m \in receipt

\* Mail for a pane that is gone does not wait for ever (mark_undeliverable,
\* auto_archive_undeliverable).
DeadMailIsRetired ==
    <>[](pane = "others") => \A m \in Ids : []<>(row[m].state \notin {"queued", "undeliverable"})

\* docs/GUIDE.md: an attachment is deleted with the last message that referenced it.
AttachmentsAreKept == \A m \in WithFile : Exists(m) => file
============================================================================
