---------------------------- MODULE OutboxProofs ------------------------------
(* What holds of Outbox for any number of mails, texts, exits and failing    *)
(* snapshots.                                                                *)
EXTENDS Outbox, Enumerations, FiniteSetTheorems, TLAPS

-------------------------------------------------------------------------------
\* Types

Message == [id: Ids \cup {0}, frame: SUBSET Mails, holds: 0..(HoldLimit - 1)]
Row == [m: Calls, is: Message]
Tombstones == [Ids -> Calls \cup {Nobody}]
WorkerType == [at: WorkerStages, m: Calls \cup {Nobody}, ok: BOOLEAN]

\* What TypeOK says, with what it leaves open about the file and the snapshot being taken.
CallsTyped ==
    /\ up \in BOOLEAN /\ closed \in BOOLEAN
    /\ call \in [Calls -> CallStages]
    /\ mail \in [Mails -> [state: {"none", "unread", "read"},
                            notify: {"none", "queued", "sent", "failed"}]]
    /\ canceller \in {"idle", "save"}
    /\ history \subseteq Calls
    /\ accepted \subseteq Calls /\ settled \subseteq Calls /\ durable \subseteq Calls
    /\ typed \in [Calls -> Nat]
    /\ exits \in 0..MaxExits /\ failures \in 0..MaxFailures

WorkerTyped == worker \in WorkerType /\ (worker.at \in {"off", "loop", "exit"} <=> worker.m = Nobody)

QueueTyped ==
    /\ Lists(queue, ToSet(queue)) /\ ToSet(queue) \subseteq Calls
    /\ msg \in [Calls -> Message]
    /\ WorkerTyped
    /\ decided \in Tombstones

\* The names of the rows of a snapshot, which has each message once.
Names(rows) == {rows[i].m : i \in DOMAIN rows}
Once(rows) == \A i, j \in DOMAIN rows : rows[i].m = rows[j].m => i = j

FileTyped ==
    /\ snap \in [by: Calls \cup {Nobody, "worker", "canceller"}, at: {"free", "rows", "decided"},
                 next: Nat, rows: Seq(Row)]
    /\ disk \in [next: Nat, rows: Seq(Row), decided: Tombstones]
    /\ Once(snap.rows) /\ Once(disk.rows)

\* Numbers are handed out to calls that leave their first stages, and are not taken back.
Numbered == {c \in Calls : call[c] \notin {"new", "alone"}}
NumbersBounded ==
    /\ nextId \in Nat \ {0} /\ nextId <= Cardinality(Numbered) + 1
    /\ disk.next \in Nat \ {0} /\ disk.next <= nextId
    /\ snap.next \in Nat /\ snap.next <= nextId
    /\ snap.at # "free" => snap.next # 0

\* A call that has queued nothing is nowhere.
Fresh == \A c \in Calls \ Numbered :
            c \notin ToSet(queue) /\ c \notin Names(snap.rows) /\ c \notin Names(disk.rows)

Typed == CallsTyped /\ QueueTyped /\ FileTyped /\ NumbersBounded /\ Fresh

LEMMA NobodyIsNoCall ==
    /\ Nobody \notin Calls /\ "worker" \notin Calls /\ "canceller" \notin Calls
    BY OutboxAssumption DEF Calls, Nobody

LEMMA CallsFinite == IsFiniteSet(Calls) /\ Cardinality(Calls) \in Nat
    BY OutboxAssumption, FS_Union, FS_CardinalityType DEF Calls

\* Without: the message is gone and the others keep their places.
LEMMA WithoutLists ==
    ASSUME Lists(queue, ToSet(queue)), NEW c
    PROVE  Lists(Without(c), ToSet(queue) \ {c})
<1>1. CASE Queued(c)
    <2> DEFINE place == CHOOSE i \in DOMAIN queue : queue[i] = c
    <2>1. place \in DOMAIN queue /\ queue[place] = c
        <3>1. \E i \in DOMAIN queue : queue[i] = c
            BY <1>1 DEF Queued, ToSet
        <3> QED
            BY <3>1
    <2>2. Without(c) = RemoveAt(queue, place)
        BY <1>1 DEF Without
    <2> HIDE DEF place
    <2>3. Lists(RemoveAt(queue, place), ToSet(queue) \ {queue[place]})
        BY <2>1, RemoveLists
    <2> QED
        BY <2>1, <2>2, <2>3
<1>2. CASE ~Queued(c)
    BY <1>2 DEF Queued, Without
<1> QED
    BY <1>1, <1>2

LEMMA WithoutSet ==
    ASSUME Lists(queue, ToSet(queue)), NEW c, queue' = Without(c)
    PROVE  Lists(queue', ToSet(queue')) /\ ToSet(queue') = ToSet(queue) \ {c}
<1>1. Lists(queue', ToSet(queue) \ {c})
    BY WithoutLists
<1> QED
    BY <1>1 DEF Lists

LEMMA AppendSet ==
    ASSUME Lists(queue, ToSet(queue)), NEW c, c \notin ToSet(queue), queue' = Append(queue, c)
    PROVE  Lists(queue', ToSet(queue')) /\ ToSet(queue') = ToSet(queue) \cup {c}
<1>1. Lists(queue', ToSet(queue) \cup {c})
    BY AppendLists
<1> QED
    BY <1>1 DEF Lists

\* The rows a restart puts back into the queue.
Kept == {i \in DOMAIN disk.rows : Restored(disk.rows[i])}

LEMMA RestoredSet ==
    ASSUME disk.rows \in Seq(Row), Once(disk.rows), NEW f \in InOrder(Kept),
           queue' = [i \in DOMAIN f |-> disk.rows[f[i]].m]
    PROVE  /\ Lists(queue', ToSet(queue'))
           /\ \A c \in ToSet(queue') : \E i \in Kept : disk.rows[i].m = c
<1>1. /\ Cardinality(Kept) \in Nat /\ DOMAIN f = 1..Cardinality(Kept) /\ f \in [DOMAIN f -> Kept]
      /\ \A i, j \in DOMAIN f : i < j => f[i] < f[j]
    <2>1. Kept \subseteq 1..Len(disk.rows) /\ Len(disk.rows) \in Nat
        BY DEF Kept
    <2>2. IsFiniteSet(Kept)
        <3>1. IsFiniteSet(1..Len(disk.rows))
            BY <2>1, FS_Interval
        <3> QED
            BY <2>1, <3>1, FS_Subset
    <2>3. Cardinality(Kept) \in Nat
        BY <2>2, FS_CardinalityType
    <2>4. f \in [1..Cardinality(Kept) -> Kept] /\ \A i, j \in DOMAIN f : i < j => f[i] < f[j]
        BY DEF InOrder
    <2>5. DOMAIN f = 1..Cardinality(Kept)
        BY <2>4
    <2> QED
        BY <2>3, <2>4, <2>5, Zenon
<1>2. Kept \subseteq DOMAIN disk.rows /\ DOMAIN disk.rows \subseteq Nat
    BY DEF Kept
<1>3. \A i, j \in DOMAIN f : f[i] = f[j] => i = j
    <2>1. ASSUME NEW i \in DOMAIN f, NEW j \in DOMAIN f, i < j PROVE f[i] < f[j] /\ f[i] \in Nat /\ f[j] \in Nat
        BY <1>1, <1>2, <2>1
    <2> QED
        BY <1>1, <2>1
<1>4. queue' \in Seq(ToSet(queue'))
    <2>1. queue' \in [1..Cardinality(Kept) -> ToSet(queue')]
        BY <1>1 DEF ToSet
    <2> QED
        BY <1>1, <2>1, SeqDef
<1>5. IsInjective(queue')
    BY <1>1, <1>2, <1>3 DEF IsInjective, Once
<1>6. \A c \in ToSet(queue') : \E i \in Kept : disk.rows[i].m = c
    BY <1>1 DEF ToSet
<1> QED
    BY <1>4, <1>5, <1>6 DEF Lists

-------------------------------------------------------------------------------
\* Numbers: a step that takes no call back keeps the bound.

LEMMA NumberedFinite ==
    IsFiniteSet(Numbered) /\ Cardinality(Numbered) \in Nat
    /\ Cardinality(Numbered) <= Cardinality(Calls)
<1>1. Numbered \subseteq Calls
    BY DEF Numbered
<1> QED
    BY <1>1, CallsFinite, FS_Subset, FS_CardinalityType

LEMMA NumberedGrows ==
    ASSUME Numbered \subseteq Numbered'
    PROVE  Cardinality(Numbered') \in Nat /\ Cardinality(Numbered) <= Cardinality(Numbered')
<1>1. Numbered' \subseteq Calls
    BY DEF Numbered
<1>2. IsFiniteSet(Numbered')
    BY <1>1, CallsFinite, FS_Subset
<1> QED
    BY <1>2, FS_Subset, FS_CardinalityType

LEMMA NumberedMore ==
    ASSUME NEW c \in Calls, c \notin Numbered, Numbered' = Numbered \cup {c}
    PROVE  /\ Cardinality(Numbered') = Cardinality(Numbered) + 1
           /\ Cardinality(Numbered) + 1 <= Cardinality(Calls)
<1>1. Cardinality(Numbered') = Cardinality(Numbered) + 1
    BY NumberedFinite, FS_AddElement
<1>2. Numbered' \subseteq Calls
    BY DEF Numbered
<1>3. Cardinality(Numbered') <= Cardinality(Calls)
    BY <1>2, CallsFinite, FS_Subset
<1> QED
    BY <1>1, <1>3

-------------------------------------------------------------------------------
\* Type correctness

LEMMA TypedInit == Init => Typed
<1> SUFFICES ASSUME Init PROVE Typed
    OBVIOUS
<1>1. CallsTyped
    <2>1. up \in BOOLEAN /\ closed \in BOOLEAN /\ call \in [Calls -> CallStages]
        BY DEF Init, CallStages
    <2>2. exits \in 0..MaxExits /\ failures \in 0..MaxFailures /\ typed \in [Calls -> Nat]
        BY OutboxAssumption DEF Init
    <2>3. mail \in [Mails -> [state: {"none", "unread", "read"},
                               notify: {"none", "queued", "sent", "failed"}]]
        BY DEF Init
    <2> QED
        BY <2>1, <2>2, <2>3 DEF Init, CallsTyped
<1>2. ToSet(queue) = {} /\ Lists(queue, ToSet(queue))
    BY DEF Init, Lists, ToSet, IsInjective
<1>3. QueueTyped
    BY <1>2, OutboxAssumption
       DEF Init, QueueTyped, WorkerTyped, Message, NoMessage, WorkerType, WorkerStages, Idle, Tombstones
<1>4. FileTyped /\ Names(snap.rows) = {} /\ Names(disk.rows) = {}
    BY DEF Init, FileTyped, NoSnap, Once, Names, Tombstones
<1>5. NumbersBounded
    BY NumberedFinite DEF Init, NumbersBounded, NoSnap
<1>6. Fresh
    BY <1>2, <1>4 DEF Fresh
<1> QED
    BY <1>1, <1>3, <1>4, <1>5, <1>6 DEF Typed

\* A step that changes neither numbers nor file, and takes no call back to its first stages.
LEMMA SameNumbers ==
    ASSUME Typed, Numbered \subseteq Numbered', UNCHANGED saves
    PROVE  FileTyped' /\ NumbersBounded'
<1>1. FileTyped'
    BY DEF Typed, FileTyped, Once, Names, saves, Row, Message
<1>2. NumbersBounded'
    BY NumberedFinite, NumberedGrows DEF Typed, NumbersBounded, saves
<1> QED
    BY <1>1, <1>2

LEMMA SameQueue ==
    ASSUME Typed, Numbered \subseteq Numbered', ToSet(queue') \subseteq ToSet(queue), UNCHANGED saves
    PROVE  Fresh'
    BY DEF Typed, Fresh, saves, Numbered, Names

LEMMA IdleTyped ==
    ASSUME NEW stage \in {"off", "loop", "exit"}, worker' = Idle(stage)
    PROVE  WorkerTyped'
    BY DEF Idle, WorkerTyped, WorkerType, WorkerStages

LEMMA CallStepTyped ==
    ASSUME Typed, NEW c \in Calls, CallStep(c)
    PROVE  Typed'
<1> USE DEF Typed
<1>1. CASE Fold(c)
    <2>1. Numbered \subseteq Numbered'
        BY <1>1 DEF Fold, At, Numbered, CallsTyped
    <2>2. CallsTyped'
        BY <1>1 DEF Fold, CallsTyped, CallStages, Stored, ghosts, life
    <2>3. QueueTyped'
        <3>1. PICK m \in ToSet(queue) : msg' = [msg EXCEPT ![m].frame = @ \cup {c}]
            BY <1>1, Zenon DEF Fold
        <3>2. msg[m] \in Message /\ m \in Calls /\ c \in Mails
            BY <1>1, <3>1 DEF Fold, QueueTyped
        <3>3. [msg[m] EXCEPT !.frame = @ \cup {c}] \in Message
            BY <3>2 DEF Message
        <3>4. msg' \in [Calls -> Message]
            BY <3>1, <3>2, <3>3 DEF QueueTyped
        <3>5. UNCHANGED <<queue, worker, decided>>
            BY <1>1, Zenon DEF Fold
        <3> QED
            BY <3>4, <3>5 DEF QueueTyped, WorkerTyped
    <2> QED
        BY <1>1, <2>1, <2>2, <2>3, SameNumbers, SameQueue DEF Fold
<1>2. CASE NothingToFold(c)
    <2>1. Numbered \subseteq Numbered'
        BY <1>2 DEF NothingToFold, At, Numbered, CallsTyped
    <2>2. CallsTyped'
        BY <1>2 DEF NothingToFold, CallsTyped, CallStages, Stored, ghosts, life
    <2>3. QueueTyped'
        BY <1>2 DEF NothingToFold, QueueTyped, WorkerTyped
    <2> QED
        BY <1>2, <2>1, <2>2, <2>3, SameNumbers, SameQueue DEF NothingToFold
<1>3. CASE Push(c)
    <2>1. c \notin Numbered /\ Numbered' = Numbered \cup {c}
        BY <1>3 DEF Push, At, Numbered, CallsTyped
    <2>2. CallsTyped'
        BY <1>3 DEF Push, CallsTyped, CallStages, ghosts, life
    <2>3. Lists(queue', ToSet(queue')) /\ ToSet(queue') = ToSet(queue) \cup {c}
        BY <1>3, <2>1, AppendSet DEF Push, Fresh, QueueTyped
    <2>4. nextId \in Ids
        BY <2>1, NumberedMore, NumberedFinite, CallsFinite DEF NumbersBounded, Ids
    <2>5. msg' \in [Calls -> Message]
        BY <1>3, <2>4, OutboxAssumption DEF Push, QueueTyped, Message
    <2>6. QueueTyped'
        <3>1. WorkerTyped'
            <4>1. worker' = worker \/ worker' = Idle("loop")
                BY <1>3 DEF Push
            <4> QED
                BY <4>1, IdleTyped DEF QueueTyped, WorkerTyped
        <3>2. decided' = decided /\ ToSet(queue') \subseteq Calls
            BY <1>3, <2>3 DEF Push, QueueTyped
        <3> QED
            BY <2>3, <2>5, <3>1, <3>2 DEF QueueTyped
    <2>7. FileTyped' /\ NumbersBounded'
        <3>1. FileTyped' /\ UNCHANGED <<snap, disk>> /\ nextId' = nextId + 1
            BY <1>3 DEF Push, FileTyped, Once, Names, Row, Message
        <3>2. Cardinality(Numbered') = Cardinality(Numbered) + 1
            BY <2>1, NumberedMore
        <3> QED
            BY <3>1, <3>2, NumberedFinite DEF NumbersBounded, FileTyped, Tombstones
    <2>8. Fresh'
        BY <1>3, <2>1, <2>3 DEF Push, Fresh, Names
    <2> QED
        BY <2>2, <2>6, <2>7, <2>8
<1>4. CASE RecordNotify(c)
    <2>1. Numbered \subseteq Numbered'
        BY <1>4 DEF RecordNotify, NoteOf, Numbered, CallsTyped
    <2>2. CallsTyped'
        <3>1. NoteOf[call[c]] \in {"queued", "sent", "failed"} /\ call' = [call EXCEPT ![c] = "done"]
            BY <1>4 DEF RecordNotify, NoteOf
        <3>2. mail' = [mail EXCEPT ![c].notify = NoteOf[call[c]]]
            BY <1>4 DEF RecordNotify, Notify
        <3>3. mail' \in [Mails -> [state: {"none", "unread", "read"},
                                    notify: {"none", "queued", "sent", "failed"}]]
            BY <3>1, <3>2 DEF CallsTyped
        <3> QED
            BY <1>4, <3>1, <3>3 DEF RecordNotify, CallsTyped, CallStages, ghosts, life
    <2>3. QueueTyped'
        BY <1>4 DEF RecordNotify, QueueTyped, WorkerTyped
    <2> QED
        BY <1>4, <2>1, <2>2, <2>3, SameNumbers, SameQueue DEF RecordNotify
<1> QED
    BY <1>1, <1>2, <1>3, <1>4 DEF CallStep

LEMMA CancelTyped ==
    ASSUME Typed, NEW c \in Calls, Cancel(c)
    PROVE  Typed'
<1>1. Numbered' = Numbered /\ UNCHANGED saves
    BY DEF Cancel, Numbered, saves
<1>2. Lists(queue', ToSet(queue')) /\ ToSet(queue') = ToSet(queue) \ {c}
    BY WithoutSet DEF Cancel, Typed, QueueTyped
<1>3. msg' \in [Calls -> Message]
    <2>1. [NoMessage EXCEPT !.id = msg[c].id] \in Message /\ msg \in [Calls -> Message]
        BY OutboxAssumption DEF Typed, QueueTyped, Message, NoMessage
    <2> QED
        BY <2>1 DEF Cancel, Dropped
<1>4. CallsTyped'
    BY DEF Typed, Cancel, CallsTyped, life
<1>5. QueueTyped'
    BY <1>2, <1>3 DEF Typed, Cancel, QueueTyped, WorkerTyped, Tombstones
<1> QED
    BY <1>1, <1>2, <1>4, <1>5, SameNumbers, SameQueue DEF Typed

\* The worker on a captured message, by what it does to the queue and the messages.
LEMMA WorkerTypedByParts ==
    ASSUME Typed, UNCHANGED Aside, CallsTyped', QueueTyped', ToSet(queue') \subseteq ToSet(queue)
    PROVE  Typed'
<1>1. Numbered' = Numbered /\ UNCHANGED saves
    BY DEF Numbered, Aside
<1> QED
    BY <1>1, SameNumbers, SameQueue DEF Typed

LEMMA WorkerStepTyped ==
    ASSUME Typed, WorkerStep
    PROVE  Typed'
<1> USE DEF Typed
<1> DEFINE W == WorkerTyped'
           Moves == Pick \/ Stopped \/ Unregister \/ Frame \/ TypingFails
           Holds == Defer \/ \E dead \in BOOLEAN : Refuse(dead)
<1>1. CASE Moves
    <2>1. UNCHANGED <<mail, queue, msg, decided, history, settled, typed, Aside>>
        BY <1>1 DEF Pick, Stopped, Unregister, Frame, TypingFails
    <2>2. W
        <3>1. CASE Pick
            <4>1. queue # <<>> => Head(queue) \in Calls
                BY DEF QueueTyped, Lists, ToSet
            <4> QED
                BY <3>1, <4>1, NobodyIsNoCall DEF Pick, Idle, WorkerTyped, WorkerType, WorkerStages
        <3>2. CASE Stopped \/ Unregister \/ Frame \/ TypingFails
            <4>1. \/ \E stage \in {"off", "loop", "exit"} : worker' = Idle(stage)
                  \/ /\ worker.at \in {"picked", "framed"}
                     /\ \/ worker' = [worker EXCEPT !.at = "framed"]
                        \/ worker' = [worker EXCEPT !.at = "decide", !.ok = FALSE]
                BY <3>2 DEF Stopped, Unregister, Frame, TypingFails, WorkerAt
            <4> QED
                BY <4>1, IdleTyped DEF QueueTyped, WorkerTyped, WorkerType, WorkerStages
        <3> QED
            BY <1>1, <3>1, <3>2
    <2>3. CallsTyped' /\ QueueTyped'
        BY <2>1, <2>2 DEF Aside, CallsTyped, QueueTyped, life
    <2> QED
        BY <2>1, <2>3, WorkerTypedByParts
<1>2. ASSUME NEW permanent, NEW refused, Hold(permanent, refused), worker.at \in {"picked", "framed"}
      PROVE  Typed'
    <2> DEFINE m == worker.m
    <2>1. m \in Calls /\ msg[m] \in Message
        BY <1>2 DEF QueueTyped, WorkerTyped, WorkerType
    <2>2. [msg[m] EXCEPT !.holds = IF Spent(m) THEN @ ELSE @ + 1] \in Message
        BY <2>1, OutboxAssumption DEF Spent, Message
    <2>3. msg' \in [Calls -> Message]
        BY <1>2, <2>1, <2>2 DEF Hold, QueueTyped
    <2>4. Lists(queue', ToSet(queue')) /\ ToSet(queue') \subseteq ToSet(queue)
        <3>1. queue' = Without(m) \/ queue' = queue
            BY <1>2 DEF Hold
        <3> QED
            BY <3>1, WithoutSet DEF QueueTyped
    <2>5. W
        <3>1. worker' = [worker EXCEPT !.at = "remember", !.ok = FALSE] \/ Goto("hold_save")
            BY <1>2 DEF Hold
        <3> QED
            BY <1>2, <3>1 DEF Goto, QueueTyped, WorkerTyped, WorkerType, WorkerStages
    <2>6. settled' \subseteq Calls /\ UNCHANGED <<mail, decided, history, typed, Aside>>
        BY <1>2, <2>1 DEF Hold, CallsTyped
    <2>7. CallsTyped' /\ QueueTyped'
        BY <2>3, <2>4, <2>5, <2>6 DEF CallsTyped, QueueTyped, Aside, life
    <2> QED
        BY <2>4, <2>6, <2>7, WorkerTypedByParts
<1>3. CASE Holds
    BY <1>2, <1>3 DEF Defer, Refuse, WorkerAt
<1>4. CASE Type
    <2>1. W
        BY <1>4 DEF Type, WorkerAt, Goto, QueueTyped, WorkerTyped, WorkerType, WorkerStages
    <2>2. typed' \in [Calls -> Nat]
        BY <1>4 DEF Type, CallsTyped
    <2>3. CallsTyped' /\ QueueTyped'
        BY <1>4, <2>1, <2>2 DEF Type, CallsTyped, QueueTyped, Aside, life
    <2> QED
        BY <1>4, <2>3, WorkerTypedByParts DEF Type
<1>5. ASSUME NEW confirmed \in BOOLEAN, Decide(confirmed) PROVE Typed'
    <2>1. W /\ worker.m \in Calls
        BY <1>5 DEF Decide, WorkerAt, QueueTyped, WorkerTyped, WorkerType, WorkerStages
    <2>2. Lists(queue', ToSet(queue')) /\ ToSet(queue') \subseteq ToSet(queue)
        BY <1>5, WithoutSet DEF Decide, QueueTyped
    <2>3. CallsTyped' /\ QueueTyped'
        BY <1>5, <2>1, <2>2 DEF Decide, CallsTyped, QueueTyped, Aside, life
    <2> QED
        BY <1>5, <2>2, <2>3, WorkerTypedByParts DEF Decide
<1>6. CASE RememberRow
    <2>1. W /\ worker.m \in Calls
        BY <1>6 DEF RememberRow, Goto, WorkerAt, QueueTyped, WorkerTyped, WorkerType, WorkerStages
    <2>2. decided' \in Tombstones /\ history' \subseteq Calls
        BY <1>6, <2>1 DEF RememberRow, QueueTyped, CallsTyped, Tombstones
    <2>3. CallsTyped' /\ QueueTyped'
        BY <1>6, <2>1, <2>2 DEF RememberRow, CallsTyped, QueueTyped, Aside, life
    <2> QED
        BY <1>6, <2>3, WorkerTypedByParts DEF RememberRow
<1>7. CASE RecordReceipts
    <2>1. W /\ worker.m \in Calls
        BY <1>7 DEF RecordReceipts, Idle, WorkerAt, QueueTyped, WorkerTyped, WorkerType, WorkerStages
    <2>2. mail' \in [Mails -> [state: {"none", "unread", "read"},
                               notify: {"none", "queued", "sent", "failed"}]]
        BY <1>7 DEF RecordReceipts, CallsTyped
    <2>3. msg' \in [Calls -> Message]
        <3>1. [NoMessage EXCEPT !.id = msg[worker.m].id] \in Message
            BY <2>1, OutboxAssumption DEF QueueTyped, Message, NoMessage
        <3> QED
            BY <1>7, <2>1, <3>1 DEF RecordReceipts, Dropped, QueueTyped
    <2>4. CallsTyped' /\ QueueTyped'
        BY <1>7, <2>1, <2>2, <2>3 DEF RecordReceipts, CallsTyped, QueueTyped, Aside, life
    <2> QED
        BY <1>7, <2>4, WorkerTypedByParts DEF RecordReceipts
<1> QED
    BY <1>1, <1>3, <1>4, <1>5, <1>6, <1>7 DEF WorkerStep

\* The holder of the snapshot lock is waiting for its snapshot.
Saving == snap.at # "free" => up /\ WantsSave(snap.by)

\* The steps that leave call, queue and messages alone.
LEMMA BeginAndRowsTyped ==
    ASSUME Typed, SaveRows \/ \E p \in Calls \cup {"worker", "canceller"} : BeginSave(p)
    PROVE  Typed'
<1> USE DEF Typed
<1>1. UNCHANGED <<call, mail, queue, msg, worker, canceller, decided, history, ghosts, life, disk, nextId>>
    BY Zenon DEF SaveRows, BeginSave
<1>2. CallsTyped' /\ QueueTyped' /\ Numbered' = Numbered
    BY <1>1 DEF CallsTyped, QueueTyped, WorkerTyped, Numbered, ghosts, life
<1>3. CASE \E p \in Calls \cup {"worker", "canceller"} : BeginSave(p)
    <2>1. PICK p \in Calls \cup {"worker", "canceller"} : BeginSave(p)
        BY <1>3
    <2>2. snap' = [by |-> p, at |-> "rows", next |-> nextId, rows |-> <<>>] /\ nextId \in Nat \ {0}
        BY <2>1 DEF BeginSave, NumbersBounded
    <2>3. FileTyped' /\ Names(snap'.rows) = {}
        BY <1>1, <2>2 DEF FileTyped, Once, Names, Tombstones
    <2> QED
        BY <1>1, <1>2, <2>2, <2>3 DEF NumbersBounded, Fresh, Names
<1>4. CASE SaveRows
    <2> DEFINE rows == [i \in DOMAIN queue |-> [m |-> queue[i], is |-> msg[queue[i]]]]
    <2>1. snap' = [snap EXCEPT !.at = "decided", !.rows = rows] /\ snap.at = "rows"
        BY <1>4 DEF SaveRows
    <2>2. rows \in Seq(Row) /\ Once(rows) /\ Names(rows) = ToSet(queue)
        <3>1. queue \in Seq(Calls) /\ \A i, j \in DOMAIN queue : queue[i] = queue[j] => i = j
            BY DEF QueueTyped, Lists, IsInjective, ToSet
        <3>2. \A i \in DOMAIN queue : queue[i] \in Calls /\ msg[queue[i]] \in Message
            BY <3>1 DEF QueueTyped
        <3>3. rows \in Seq(Row)
            <4>1. \A i \in 1..Len(queue) : [m |-> queue[i], is |-> msg[queue[i]]] \in Row
                BY <3>1, <3>2 DEF Row
            <4>2. Len(queue) \in Nat /\ rows \in [1..Len(queue) -> Row]
                BY <3>1, <4>1
            <4> QED
                BY <4>2, SeqDef
        <3> QED
            BY <3>1, <3>3 DEF Once, Names, ToSet
    <2> HIDE DEF rows
    <2>3. snap'.rows = rows /\ FileTyped'
        BY <1>1, <2>1, <2>2 DEF FileTyped, Tombstones
    <2>4. NumbersBounded'
        BY <1>1, <1>2, <2>1 DEF NumbersBounded, FileTyped
    <2>5. Fresh'
        BY <1>1, <1>2, <2>2, <2>3 DEF Fresh
    <2> QED
        BY <1>2, <2>3, <2>4, <2>5
<1> QED
    BY <1>3, <1>4

LEMMA ReleasedTyped ==
    ASSUME Typed, Saving, NEW written \in BOOLEAN, NEW answered, Released(snap.by, written, answered), snap.at = "decided",
           durable' \subseteq Calls, UNCHANGED <<up, closed, exits>>, failures' \in 0..MaxFailures,
           disk' = disk \/ disk' = [next |-> snap.next, rows |-> snap.rows, decided |-> decided]
    PROVE  Typed'
<1> USE DEF Typed
<1>1. snap' = NoSnap /\ UNCHANGED <<mail, queue, msg, decided, history, settled, typed, nextId>>
    BY DEF Released
<1>2. call' \in [Calls -> CallStages] /\ Numbered \subseteq Numbered'
    <2>1. \/ call' = call
          \/ /\ snap.by \in Calls
             /\ \E stage \in {"done", "note_sent", "note_queued", "note_failed"} :
                    call' = [call EXCEPT ![snap.by] = stage]
        BY DEF Released, Result
    <2> QED
        BY <2>1 DEF CallsTyped, CallStages, Numbered
<1>3. CallsTyped'
    BY <1>1, <1>2 DEF Released, CallsTyped
<1>4. WorkerTyped'
    <2>1. \/ worker' = worker \/ worker' = Idle("loop")
          \/ worker.at = "decided_save" /\ worker' = [worker EXCEPT !.at = "receipts"]
          \/ snap.by = "worker" /\ worker' = [worker EXCEPT !.at = "decide", !.ok = written]
        BY DEF Released
    <2>2. snap.by = "worker" => worker.at \in {"typed_save", "hold_save", "decided_save"}
        BY NobodyIsNoCall DEF Saving, WantsSave
    <2> QED
        BY <2>1, <2>2, IdleTyped DEF QueueTyped, WorkerTyped, WorkerType, WorkerStages
<1>5. QueueTyped'
    BY <1>1, <1>4 DEF QueueTyped
<1>6. FileTyped' /\ Names(snap'.rows) = {}
    BY <1>1 DEF FileTyped, NoSnap, Once, Names, QueueTyped
<1>7. NumbersBounded'
    <2>1. disk'.next = disk.next \/ (disk'.next = snap.next /\ snap.next # 0)
        BY DEF NumbersBounded
    <2> QED
        BY <1>1, <1>2, <2>1, NumberedGrows, NumberedFinite DEF NumbersBounded, NoSnap
<1>8. Fresh'
    <2>1. disk'.rows = disk.rows \/ disk'.rows = snap.rows
        OBVIOUS
    <2> QED
        BY <1>1, <1>2, <1>6, <2>1 DEF Fresh
<1> QED
    BY <1>3, <1>5, <1>6, <1>7, <1>8

LEMMA WriteTyped ==
    ASSUME Typed, Saving, WriteSnapshot \/ SaveFails
    PROVE  Typed'
<1>1. CASE WriteSnapshot
    <2>1. /\ Released(snap.by, TRUE, TRUE) /\ snap.at = "decided" /\ UNCHANGED <<up, closed, exits, failures>>
          /\ disk' = [next |-> snap.next, rows |-> snap.rows, decided |-> decided]
        BY <1>1 DEF WriteSnapshot, Saved, life
    <2>2. durable' \subseteq Calls /\ failures' \in 0..MaxFailures
        BY <1>1, <2>1 DEF WriteSnapshot, Typed, CallsTyped
    <2> QED
        BY <2>1, <2>2, ReleasedTyped
<1>2. CASE SaveFails
    <2>1. /\ Released(snap.by, FALSE, FALSE) /\ snap.at = "decided" /\ UNCHANGED <<up, closed, exits, disk, durable>>
          /\ failures' = failures + 1 /\ failures < MaxFailures
        BY <1>2 DEF SaveFails, Saved
    <2>2. durable' \subseteq Calls /\ failures' \in 0..MaxFailures
        BY <2>1, OutboxAssumption DEF Typed, CallsTyped
    <2> QED
        BY <2>1, <2>2, ReleasedTyped
<1> QED
    BY <1>1, <1>2

LEMMA LifeTyped ==
    ASSUME Typed, Stop \/ Exit \/ Restart
    PROVE  Typed'
<1> USE DEF Typed
<1>1. CASE Stop
    <2>1. CallsTyped' /\ QueueTyped' /\ Numbered' = Numbered
        BY <1>1 DEF Stop, CallsTyped, QueueTyped, WorkerTyped, Numbered, ghosts
    <2> QED
        BY <1>1, <2>1, SameNumbers, SameQueue DEF Stop
<1>2. CASE Exit
    <2>1. call' \in [Calls -> CallStages] /\ Numbered \subseteq Numbered'
        BY <1>2 DEF Exit, CallsTyped, CallStages, Numbered
    <2>2. CallsTyped'
        <3>1. exits' \in 0..MaxExits
            BY <1>2, OutboxAssumption DEF Exit, CallsTyped
        <3>2. /\ up' = FALSE /\ closed' = FALSE /\ canceller' = "idle" /\ history' = {}
              /\ UNCHANGED <<mail, ghosts, failures>>
            BY <1>2 DEF Exit
        <3> QED
            BY <2>1, <3>1, <3>2 DEF CallsTyped, ghosts
    <2>3. Lists(queue', ToSet(queue')) /\ ToSet(queue') = {}
        BY <1>2 DEF Exit, Lists, ToSet, IsInjective
    <2>4. msg' \in [Calls -> Message]
        BY <1>2, OutboxAssumption DEF Exit, NoMessage, QueueTyped, Message
    <2>5. WorkerTyped' /\ decided' \in Tombstones
        BY <1>2, IdleTyped DEF Exit, Tombstones
    <2>6. FileTyped' /\ Names(snap'.rows) = {} /\ disk' = disk
        BY <1>2 DEF Exit, FileTyped, NoSnap, Once, Names
    <2>7. NumbersBounded'
        BY <1>2, <2>1, NumberedGrows, NumberedFinite DEF Exit, NumbersBounded, NoSnap
    <2>8. Fresh'
        BY <2>1, <2>3, <2>6 DEF Fresh
    <2> QED
        BY <2>2, <2>3, <2>4, <2>5, <2>6, <2>7, <2>8 DEF QueueTyped
<1>3. CASE Restart
    <2>1. CallsTyped' /\ Numbered' = Numbered
        BY <1>3 DEF Restart, CallsTyped, Numbered, ghosts
    <2>2. PICK f \in InOrder(Kept) : queue' = [i \in DOMAIN f |-> disk.rows[f[i]].m] /\ worker' = Idle(Started(f))
        BY <1>3 DEF Restart, Kept
    <2>3. Lists(queue', ToSet(queue')) /\ ToSet(queue') \subseteq Names(disk.rows)
        BY <2>2, RestoredSet DEF FileTyped, Kept, Names
    <2>4. Names(disk.rows) \subseteq Calls /\ ToSet(disk.rows) \subseteq Row
        <3>1. disk.rows \in Seq(Row)
            BY DEF FileTyped
        <3>2. \A i \in DOMAIN disk.rows : disk.rows[i] \in Row
            BY <3>1
        <3> QED
            BY <3>2 DEF Names, Row, ToSet
    <2>5. msg' \in [Calls -> Message]
        <3>1. ASSUME NEW c \in Calls, \E r \in ToSet(disk.rows) : r.m = c
              PROVE  (CHOOSE r \in ToSet(disk.rows) : r.m = c).is \in Message
            BY <2>4, <3>1 DEF Row
        <3>2. \A c \in Calls : msg'[c] \in Message
            BY <1>3, <3>1 DEF Restart, QueueTyped
        <3> QED
            BY <1>3, <3>2 DEF Restart
    <2>6. WorkerTyped'
        BY <2>2, IdleTyped DEF Started
    <2>7. QueueTyped'
        BY <1>3, <2>3, <2>4, <2>5, <2>6 DEF Restart, QueueTyped, FileTyped
    <2>8. FileTyped' /\ NumbersBounded'
        BY <1>3, <2>1, SameNumbers DEF Restart
    <2>9. Fresh'
        BY <1>3, <2>1, <2>3 DEF Restart, saves, Fresh
    <2> QED
        BY <2>1, <2>7, <2>8, <2>9
<1> QED
    BY <1>1, <1>2, <1>3

LEMMA TypedStep ==
    ASSUME Typed, Saving, [Next]_vars
    PROVE  Typed'
<1>1. ASSUME NEW c \in Mails, ReadMail(c) PROVE Typed'
    <2>1. CallsTyped' /\ QueueTyped' /\ Numbered' = Numbered
        BY <1>1 DEF ReadMail, Typed, CallsTyped, QueueTyped, WorkerTyped, Numbered, ghosts, life
    <2> QED
        BY <1>1, <2>1, SameNumbers, SameQueue DEF ReadMail, Typed
<1>2. CASE UNCHANGED vars
    <2>1. CallsTyped' /\ QueueTyped' /\ Numbered' = Numbered
        BY <1>2 DEF vars, Typed, CallsTyped, QueueTyped, WorkerTyped, Numbered, ghosts, life
    <2> QED
        BY <1>2, <2>1, SameNumbers, SameQueue DEF vars, Typed
<1> QED
    BY <1>1, <1>2, CallStepTyped, CancelTyped, WorkerStepTyped, BeginAndRowsTyped, WriteTyped,
       LifeTyped DEF Next, SaveStep

LEMMA SavingStep ==
    ASSUME Typed, Saving, [Next]_vars
    PROVE  Saving'
<1> USE DEF Saving, WantsSave
<1>1. ASSUME NEW c \in Calls, CallStep(c) PROVE Saving'
    <2>1. snap' = snap /\ canceller' = canceller /\ up' = up /\ call[c] # "save"
          /\ \A d \in Calls \ {c} : call'[d] = call[d]
        BY <1>1 DEF CallStep, Fold, NothingToFold, Push, RecordNotify, At, NoteOf, saves, life, Typed, CallsTyped
    <2>2. worker' = worker \/ worker.at = "off"
        BY <1>1 DEF CallStep, Fold, NothingToFold, Push, RecordNotify
    <2> QED
        BY <2>1, <2>2
<1>2. ASSUME NEW c \in Calls, Cancel(c) PROVE Saving'
    BY <1>2 DEF Cancel, saves, life
<1>3. ASSUME NEW c \in Mails, ReadMail(c) PROVE Saving'
    BY <1>3 DEF ReadMail, saves, life
<1>4. CASE WorkerStep
    <2>1. UNCHANGED <<up, snap, call, canceller>>
        BY <1>4 DEF WorkerStep, Pick, Stopped, Unregister, Frame, Defer, Refuse, Hold, Type, TypingFails,
                    Decide, RememberRow, RecordReceipts, Aside, life, saves
    <2>2. worker.at \notin {"typed_save", "hold_save", "decided_save"}
        BY <1>4 DEF WorkerStep, Pick, Stopped, Unregister, Frame, Defer, Refuse, Type, TypingFails,
                    Decide, RememberRow, RecordReceipts, WorkerAt
    <2> QED
        BY <2>1, <2>2
<1>5. CASE SaveStep
    <2>1. ASSUME NEW p \in Calls \cup {"worker", "canceller"}, BeginSave(p) PROVE Saving'
        BY <2>1 DEF BeginSave, life
    <2>2. CASE SaveRows
        BY <2>2 DEF SaveRows, life, Typed, FileTyped
    <2>3. CASE WriteSnapshot \/ SaveFails
        BY <2>3 DEF WriteSnapshot, SaveFails, Saved, Released, NoSnap
    <2> QED
        BY <1>5, <2>1, <2>2, <2>3 DEF SaveStep
<1>6. CASE Stop \/ Exit \/ Restart
    <2>1. CASE Exit
        BY <2>1 DEF Exit, NoSnap
    <2>2. CASE Stop
        BY <2>2 DEF Stop, saves
    <2>3. CASE Restart
        BY <2>3 DEF Restart, saves
    <2> QED
        BY <1>6, <2>1, <2>2, <2>3
<1>7. CASE UNCHANGED vars
    BY <1>7 DEF vars, saves, life
<1> QED
    BY <1>1, <1>2, <1>3, <1>4, <1>5, <1>6, <1>7 DEF Next

LEMMA AlwaysTyped == Spec => [](Typed /\ Saving)
<1>1. Typed /\ Saving /\ [Next]_vars => Typed' /\ Saving'
    BY TypedStep, SavingStep
<1>2. Init => Typed /\ Saving
    BY TypedInit DEF Init, Saving, NoSnap
<1> QED
    BY <1>1, <1>2, PTL DEF Spec

\* No step of the outbox leaves the types: in particular nextId stays a number that a message
\* can have, a restart restores well-formed messages, and HoldLimit bounds the holds.
THEOREM TypeInvariance == Spec => []TypeOK
<1>1. Typed => TypeOK
    <2> SUFFICES ASSUME Typed PROVE TypeOK
        OBVIOUS
    <2>1. queue \in Seq(Calls)
        BY Retype DEF Typed, QueueTyped, Lists, ToSet
    <2> QED
        BY <2>1 DEF Typed, CallsTyped, QueueTyped, WorkerTyped, FileTyped, NumbersBounded, TypeOK,
                    Message, WorkerType, Tombstones
<1> QED
    BY <1>1, AlwaysTyped, PTL

-------------------------------------------------------------------------------
\* The worker and its queue

\* A queued message has a registered worker: an append starts one when there is none, a worker
\* unregisters only under the lock that shows it an empty queue, and a restart with messages
\* starts one.  Only a stop leaves messages without a thread.
THEOREM QueueHasWorker == Spec => []NoStrandedQueue
<1> USE DEF NoStrandedQueue
<1>1. Init => NoStrandedQueue
    BY DEF Init
<1>2. ASSUME NoStrandedQueue, Typed, [Next]_vars PROVE NoStrandedQueue'
    <2>1. ASSUME NEW c \in Calls, CallStep(c) PROVE NoStrandedQueue'
        <3>1. CASE Push(c)
            BY <1>2, <3>1 DEF Push, Idle, life
        <3>2. CASE Fold(c)
            BY <1>2, <3>2, Zenon DEF Fold, life
        <3>3. CASE NothingToFold(c) \/ RecordNotify(c)
            BY <1>2, <3>3 DEF NothingToFold, RecordNotify, life
        <3> QED
            BY <2>1, <3>1, <3>2, <3>3 DEF CallStep
    <2>2. ASSUME NEW c \in Calls, Cancel(c) PROVE NoStrandedQueue'
        <3>1. queue # <<>>
            <4>1. c \in ToSet(queue)
                BY <2>2, Zenon DEF Cancel, Queued
            <4> QED
                BY <1>2, <4>1 DEF ToSet
        <3> QED
            BY <1>2, <2>2, <3>1 DEF Cancel, life
    <2>3. CASE WorkerStep
        <3>1. CASE Unregister
            BY <3>1 DEF Unregister, Idle, Aside, life
        <3>2. CASE Stopped
            BY <3>2 DEF Stopped, Aside, life
        <3>3. CASE Pick \/ Frame \/ Type \/ TypingFails \/ RememberRow \/ RecordReceipts
            <4>1. \/ \E stage \in {"loop", "exit"} : worker' = Idle(stage)
                  \/ worker' = [Idle("picked") EXCEPT !.m = Head(queue)]
                  \/ \E stage \in {"framed", "typed_save", "decided_save"} :
                         worker' = [worker EXCEPT !.at = stage]
                  \/ worker' = [worker EXCEPT !.at = "decide", !.ok = FALSE]
                  \/ Frame /\ worker' = Idle("loop")
                BY <3>3 DEF Pick, Frame, Type, TypingFails, RememberRow, RecordReceipts, Goto
            <4>2. WorkerTyped
                BY <1>2 DEF Typed, QueueTyped
            <4>3. ASSUME NEW stage \in {"framed", "typed_save", "decided_save"}, worker' = [worker EXCEPT !.at = stage]
                  PROVE  worker'.at # "off"
                BY <4>2, <4>3 DEF WorkerTyped, WorkerType
            <4>4. CASE worker' = [worker EXCEPT !.at = "decide", !.ok = FALSE]
                BY <4>2, <4>4 DEF WorkerTyped, WorkerType
            <4> QED
                BY <1>2, <4>1, <4>3, <4>4 DEF Idle
        <3>4. ASSUME NEW confirmed \in BOOLEAN, Decide(confirmed) PROVE NoStrandedQueue'
            BY <1>2, <3>4 DEF Decide, Typed, QueueTyped, WorkerTyped, WorkerType
        <3>5. ASSUME NEW permanent, NEW refused, Hold(permanent, refused) PROVE NoStrandedQueue'
            <4>1. \/ worker' = [worker EXCEPT !.at = "remember", !.ok = FALSE]
                  \/ worker' = [worker EXCEPT !.at = "hold_save"]
                BY <3>5 DEF Hold, Goto
            <4> QED
                BY <1>2, <4>1 DEF Typed, QueueTyped, WorkerTyped, WorkerType
        <3> QED
            BY <2>3, <3>1, <3>2, <3>3, <3>4, <3>5 DEF WorkerStep, Defer, Refuse
    <2>4. CASE SaveStep
        <3>1. queue' = queue /\ up' = up /\ closed' = closed
            BY <2>4 DEF SaveStep, BeginSave, SaveRows, WriteSnapshot, SaveFails, Saved, Released, life
        <3>2. worker' = worker \/ worker'.at # "off"
            <4>1. WorkerTyped
                BY <1>2 DEF Typed, QueueTyped
            <4>2. ASSUME NEW p, NEW written \in BOOLEAN, NEW answered, Released(p, written, answered)
                  PROVE  worker' = worker \/ worker'.at # "off"
                BY <4>1, <4>2 DEF Released, Idle, WorkerTyped, WorkerType
            <4> QED
                BY <2>4, <4>2 DEF SaveStep, BeginSave, SaveRows, WriteSnapshot, SaveFails, Saved
        <3> QED
            BY <1>2, <3>1, <3>2
    <2>5. CASE Restart
        <3>1. PICK f \in InOrder(Kept) : queue' = [i \in DOMAIN f |-> disk.rows[f[i]].m] /\ worker' = Idle(Started(f))
            BY <2>5 DEF Restart, Kept
        <3>2. CASE f = <<>>
            BY <3>1, <3>2
        <3>3. CASE f # <<>>
            BY <3>1, <3>3 DEF Started, Idle
        <3> QED
            BY <3>2, <3>3
    <2>6. CASE Stop \/ Exit
        BY <2>6 DEF Stop, Exit
    <2>7. CASE UNCHANGED vars \/ \E c \in Mails : ReadMail(c)
        BY <1>2, <2>7 DEF vars, ReadMail, life
    <2> QED
        BY <1>2, <2>1, <2>2, <2>3, <2>4, <2>5, <2>6, <2>7 DEF Next
<1> QED
    BY <1>1, <1>2, AlwaysTyped, PTL DEF Spec

===============================================================================
