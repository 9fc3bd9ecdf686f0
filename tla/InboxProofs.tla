----------------------------- MODULE InboxProofs ------------------------------
(* What holds of Inbox for any number of mails, digests and readers.         *)
EXTENDS Inbox, Enumerations, TLAPS

-------------------------------------------------------------------------------
\* Types

Rows == [state: States, body: 0..MaxBody]

\* A message's state is moved, its body is not.
LEMMA MovedType ==
    ASSUME row \in [Ids -> Rows], NEW S, NEW from, NEW s \in States
    PROVE  /\ Moved(S, from, s) \in [Ids -> Rows]
           /\ \A m \in Ids :
                /\ Moved(S, from, s)[m].body = row[m].body
                /\ Moved(S, from, s)[m].state
                       = IF m \in S /\ row[m].state \in from THEN s ELSE row[m].state
    BY DEF Moved, Rows

\* What a step on one row, as the code writes it, makes of the rows.
LEMMA RowType ==
    ASSUME row \in [Ids -> Rows], NEW m \in Ids, NEW r \in Rows
    PROVE  [row EXCEPT ![m] = r] \in [Ids -> Rows]
    OBVIOUS

\* A message without a row has never had a body.
NewIsEmpty == \A m \in Ids : row[m].state = "none" => row[m] = NoRow

Typed == TypeOK /\ NewIsEmpty

Present == {m \in Ids : Exists(m)}

\* The order names every message that exists once.
LEMMA OrderLists == Typed => Lists(order, Present)
<1> SUFFICES ASSUME Typed PROVE Lists(order, Present)
    OBVIOUS
<1>1. order \in Seq(Ids) /\ IsInjective(order) /\ ToSet(order) = Present
    BY DEF Typed, TypeOK, Present
<1>2. \A i \in 1..Len(order) : order[i] \in Present
    BY <1>1 DEF ToSet
<1> QED
    BY <1>1, <1>2, Retype DEF Lists

\* What every step that only moves rows between states of existing messages keeps.
Moving ==
    /\ row' \in [Ids -> Rows]
    /\ \A m \in Ids : (row'[m].state \in {"none", "deleted"}) <=> ~Exists(m)
    /\ \A m \in Ids : ~Exists(m) => row'[m] = row[m]
    /\ order' = order

LEMMA MovedKeeps ==
    ASSUME Typed, NEW S, NEW from, NEW s \in States \ {"none", "deleted"},
           from \cap {"none", "deleted"} = {},
           row' = Moved(S, from, s), order' = order
    PROVE  Moving
<1>1. row \in [Ids -> Rows] /\ s \in States
    BY DEF Typed, TypeOK, Rows
<1>2. row' \in [Ids -> Rows]
    BY <1>1, MovedType
<1>3. \A m \in Ids : row'[m] = IF m \in S /\ row[m].state \in from
                               THEN [row[m] EXCEPT !.state = s] ELSE row[m]
    BY DEF Moved
<1>4. \A m \in Ids : row'[m].state = IF m \in S /\ row[m].state \in from THEN s ELSE row[m].state
    BY <1>1, MovedType
<1> QED
    BY <1>2, <1>3, <1>4 DEF Moving, Exists

LEMMA MovingKeeps ==
    ASSUME Typed, Moving
    PROVE  /\ row' \in [Ids -> Rows]
           /\ Lists(order', {m \in Ids : Exists(m)'})
           /\ NewIsEmpty'
<1>1. {m \in Ids : Exists(m)'} = {m \in Ids : Exists(m)}
    BY DEF Moving, Exists
<1>2. Lists(order, {m \in Ids : Exists(m)})
    BY OrderLists DEF Present
<1>3. NewIsEmpty'
    <2>1. ASSUME NEW m \in Ids, row'[m].state = "none" PROVE row'[m] = NoRow
        <3>1. ~Exists(m) /\ row'[m] = row[m]
            BY <2>1 DEF Moving
        <3> QED
            BY <2>1, <3>1 DEF Typed, NewIsEmpty
    <2> QED
        BY <2>1 DEF NewIsEmpty
<1> QED
    BY <1>1, <1>2, <1>3 DEF Moving

LEMMA StutterMoves ==
    ASSUME Typed, UNCHANGED <<row, order>>
    PROVE  Moving
    BY DEF Typed, TypeOK, Rows, Moving, Exists

\* The steps that move rows, or leave them alone.
MoveStep ==
    \/ \E r \in Readers : MarkRead(r)
    \/ \E S \in SUBSET Ids \ {{}} : Ack(S)
    \/ \E n \in DOMAIN order, states \in SUBSET {"queued", "read", "acked"} : Archive(n, states)
    \/ \E m \in Ids : Cancel(m) \/ AutoArchive(m) \/ ArchiveRetired(m)
    \/ MarkUndeliverable

AsideStep ==
    \/ \E m \in Mails : StoreBlob(m)
    \/ \E r \in Readers : Fetch(r) \/ GiveUp(r) \/ RecordDelivery(r)
    \/ Recover \/ NoteAcked \/ CollectKeep \/ CollectRemove
    \/ \E p \in {"listed", "others", "none"} : Inventory(p)
    \/ Crash
    \/ UNCHANGED vars

RowStep ==
    \/ \E m \in Mails : Insert(m)
    \/ \E d \in Digests : Publish(d)
    \/ \E m \in Ids : Delete(m)

LEMMA StepKinds == [Next]_vars => MoveStep \/ AsideStep \/ RowStep
    BY DEF Next, MoveStep, AsideStep, RowStep

LEMMA MoveStepMoves ==
    ASSUME Typed, MoveStep
    PROVE  Moving
<1> USE DEF States
<1>1. CASE \E r \in Readers : MarkRead(r)
    BY <1>1, MovedKeeps DEF MarkRead, Marked
<1>2. CASE \E S \in SUBSET Ids \ {{}} : Ack(S)
    BY <1>2, MovedKeeps DEF Ack
<1>3. CASE \E n \in DOMAIN order, states \in SUBSET {"queued", "read", "acked"} : Archive(n, states)
    <2>1. PICK n \in DOMAIN order, states \in SUBSET {"queued", "read", "acked"} : Archive(n, states)
        BY <1>3
    <2>2. states \cap {"none", "deleted"} = {}
        OBVIOUS
    <2> QED
        BY <2>1, <2>2, MovedKeeps DEF Archive
<1>4. CASE \E m \in Ids : Cancel(m)
    BY <1>4, MovedKeeps DEF Cancel
<1>5. CASE \E m \in Ids : AutoArchive(m)
    BY <1>5, MovedKeeps DEF AutoArchive, Archivable
<1>6. CASE \E m \in Ids : ArchiveRetired(m)
    BY <1>6, MovedKeeps DEF ArchiveRetired
<1>7. CASE MarkUndeliverable
    BY <1>7, MovedKeeps DEF MarkUndeliverable
<1> QED
    BY <1>1, <1>2, <1>3, <1>4, <1>5, <1>6, <1>7 DEF MoveStep

LEMMA RowStepType ==
    ASSUME Typed, RowStep
    PROVE  /\ row' \in [Ids -> Rows]
           /\ Lists(order', {m \in Ids : Exists(m)'})
           /\ NewIsEmpty'
<1>1. row \in [Ids -> Rows] /\ Lists(order, Present)
    BY OrderLists DEF Typed, TypeOK, Rows
<1>2. ASSUME NEW m \in Ids, NEW r \in Rows, row' = [row EXCEPT ![m] = r]
      PROVE  /\ row' \in [Ids -> Rows]
             /\ r.state # "none" => NewIsEmpty'
             /\ r.state \notin {"none", "deleted"} =>
                    {x \in Ids : Exists(x)'} = Present \cup {m}
             /\ r.state = "deleted" => {x \in Ids : Exists(x)'} = Present \ {m}
    BY <1>1, <1>2, RowType DEF Exists, Present, Typed, NewIsEmpty
<1>3. ASSUME NEW m \in Mails, Insert(m)
      PROVE  /\ row' \in [Ids -> Rows]
             /\ Lists(order', {x \in Ids : Exists(x)'})
             /\ NewIsEmpty'
    <2>1. m \in Ids /\ m \notin Present
        BY <1>3 DEF Insert, NoRow, Present, Exists, Ids
    <2>2. [state |-> "queued", body |-> 1] \in Rows
        BY InboxAssumption DEF Rows, States
    <2>3. /\ row' \in [Ids -> Rows] /\ NewIsEmpty'
          /\ {x \in Ids : Exists(x)'} = Present \cup {m}
        BY <1>2, <1>3, <2>1, <2>2 DEF Insert
    <2>4. Lists(order', Present \cup {m})
        BY <1>1, <1>3, <2>1, AppendLists DEF Insert
    <2> QED
        BY <2>3, <2>4
<1>4. ASSUME NEW d \in Digests, Publish(d)
      PROVE  /\ row' \in [Ids -> Rows]
             /\ Lists(order', {x \in Ids : Exists(x)'})
             /\ NewIsEmpty'
    <2>1. d \in Ids /\ row[d] \in Rows /\ row[d].body + 1 \in 0..MaxBody
        BY <1>1, <1>4, InboxAssumption DEF Publish, Ids, Rows
    <2>2. [state |-> "queued", body |-> row[d].body + 1] \in Rows
        BY <2>1 DEF Rows, States
    <2>3. row' = [row EXCEPT ![d] = [state |-> "queued", body |-> row[d].body + 1]]
        BY <1>4 DEF Publish
    <2>4. /\ row' \in [Ids -> Rows] /\ NewIsEmpty'
          /\ {x \in Ids : Exists(x)'} = Present \cup {d}
        BY <1>2, <2>1, <2>2, <2>3
    <2>5. CASE row[d] = NoRow
        <3>1. d \notin Present /\ order' = Append(order, d)
            BY <1>4, <2>5 DEF Publish, Placed, Present, Exists, NoRow
        <3> QED
            BY <1>1, <2>1, <2>4, <3>1, AppendLists
    <2>6. CASE row[d] # NoRow
        <3>1. d \in Present /\ order' = order
            BY <1>4, <2>1, <2>6 DEF Publish, Placed, Present, Exists, Typed, NewIsEmpty
        <3>2. Present \cup {d} = Present
            BY <3>1
        <3> QED
            BY <1>1, <2>4, <3>1, <3>2
    <2> QED
        BY <2>5, <2>6
<1>5. ASSUME NEW m \in Ids, Delete(m)
      PROVE  /\ row' \in [Ids -> Rows]
             /\ Lists(order', {x \in Ids : Exists(x)'})
             /\ NewIsEmpty'
    <2>1. [row[m] EXCEPT !.state = "deleted"] \in Rows
        BY <1>1 DEF Rows, States
    <2>2. row' = [row EXCEPT ![m] = [row[m] EXCEPT !.state = "deleted"]]
        BY <1>1, <1>5 DEF Delete, Rows
    <2>3. [row[m] EXCEPT !.state = "deleted"].state = "deleted"
        BY <1>1 DEF Rows
    <2>4. PICK i \in DOMAIN order : order[i] = m /\ order' = RemoveAt(order, i)
        BY <1>5 DEF Delete
    <2>5. Lists(order', Present \ {m})
        BY <1>1, <2>4, RemoveLists
    <2> QED
        BY <1>2, <2>1, <2>2, <2>3, <2>5
<1> QED
    BY <1>3, <1>4, <1>5 DEF RowStep

\* The commands under way, the receipts and the file.
RestType ==
    /\ receipt \subseteq Ids /\ recorded \subseteq Ids
    /\ reader \in [Readers -> [at: {"idle", "fetched", "marked"}, batch: SUBSET Ids]]
    /\ sender \in [Mails -> {"idle", "stored"}]
    /\ acking \in BOOLEAN /\ file \in BOOLEAN
    /\ collector \in {"idle", "deleted", "sweep"}
    /\ pane \in {"listed", "others", "none"}
    /\ crashes \in 0..MaxCrashes

LEMMA BatchType == Typed => Batch \subseteq Ids
<1> SUFFICES ASSUME Typed PROVE Batch \subseteq Ids
    OBVIOUS
<1>1. ASSUME NEW i \in DOMAIN order PROVE order[i] \in Ids
    BY <1>1 DEF Typed, TypeOK
<1> QED
    BY <1>1 DEF Batch, Unread

LEMMA MoveRestType == Typed /\ MoveStep => RestType'
<1> SUFFICES ASSUME Typed, MoveStep PROVE RestType'
    OBVIOUS
<1> USE DEF Typed, TypeOK, RestType
<1>1. CASE \E r \in Readers : MarkRead(r)
    BY <1>1 DEF MarkRead
<1>2. CASE \E S \in SUBSET Ids \ {{}} : Ack(S)
    BY <1>2 DEF Ack
<1>3. CASE \E n \in DOMAIN order, states \in SUBSET {"queued", "read", "acked"} : Archive(n, states)
    BY <1>3 DEF Archive
<1>4. CASE \E m \in Ids : Cancel(m) \/ AutoArchive(m) \/ ArchiveRetired(m)
    BY <1>4 DEF Cancel, AutoArchive, ArchiveRetired
<1>5. CASE MarkUndeliverable
    BY <1>5 DEF MarkUndeliverable
<1> QED
    BY <1>1, <1>2, <1>3, <1>4, <1>5 DEF MoveStep

LEMMA AsideRestType == Typed /\ AsideStep => RestType'
<1> SUFFICES ASSUME Typed, AsideStep PROVE RestType'
    OBVIOUS
<1> USE DEF Typed, TypeOK, RestType, mailbox
<1>1. CASE \E m \in Mails : StoreBlob(m)
    BY <1>1 DEF StoreBlob
<1>2. CASE \E r \in Readers : Fetch(r)
    BY <1>2, BatchType DEF Fetch
<1>3. CASE \E r \in Readers : GiveUp(r)
    BY <1>3 DEF GiveUp, NotReading
<1>4. CASE \E r \in Readers : RecordDelivery(r)
    <2>1. PICK r \in Readers : RecordDelivery(r)
        BY <1>4
    <2>2. reader[r].batch \subseteq Ids
        OBVIOUS
    <2> QED
        BY <2>1, <2>2 DEF RecordDelivery, NotReading
<1>5. CASE Recover \/ NoteAcked
    BY <1>5 DEF Recover, NoteAcked, Pending
<1>6. CASE CollectKeep \/ CollectRemove
    BY <1>6 DEF CollectKeep, CollectRemove
<1>7. CASE \E p \in {"listed", "others", "none"} : Inventory(p)
    BY <1>7 DEF Inventory
<1>8. CASE Crash
    <2>1. reader' \in [Readers -> [at: {"idle", "fetched", "marked"}, batch: SUBSET Ids]]
        BY <1>8 DEF Crash, NotReading
    <2>2. crashes' \in 0..MaxCrashes
        BY <1>8, InboxAssumption DEF Crash
    <2> QED
        BY <1>8, <2>1, <2>2 DEF Crash
<1>9. CASE UNCHANGED vars
    BY <1>9 DEF vars
<1> QED
    BY <1>1, <1>2, <1>3, <1>4, <1>5, <1>6, <1>7, <1>8, <1>9 DEF AsideStep

LEMMA RowRestType == Typed /\ RowStep => RestType'
    BY DEF Typed, TypeOK, RestType, RowStep, Insert, Publish, Delete

LEMMA TypeStep == Typed /\ [Next]_vars => Typed'
<1> SUFFICES ASSUME Typed, [Next]_vars PROVE Typed'
    OBVIOUS
<1>1. RestType'
    BY StepKinds, MoveRestType, AsideRestType, RowRestType
<1>2. /\ row' \in [Ids -> Rows]
      /\ Lists(order', {m \in Ids : Exists(m)'})
      /\ NewIsEmpty'
    <2>1. CASE MoveStep
        BY <2>1, MoveStepMoves, MovingKeeps
    <2>2. CASE AsideStep
        <3>1. UNCHANGED <<row, order>>
            BY <2>2 DEF AsideStep, StoreBlob, Fetch, GiveUp, RecordDelivery, Recover, NoteAcked,
                        CollectKeep, CollectRemove, Inventory, Crash, vars, mailbox
        <3> QED
            BY <3>1, StutterMoves, MovingKeeps
    <2>3. CASE RowStep
        BY <2>3, RowStepType
    <2> QED
        BY StepKinds, <2>1, <2>2, <2>3
<1>3. order' \in Seq(Ids)
    BY <1>2, SeqMonotonic DEF Lists
<1> QED
    BY <1>1, <1>2, <1>3 DEF Typed, TypeOK, RestType, Rows, Lists, Exists

LEMMA TypeInit == Init => Typed
<1> SUFFICES ASSUME Init PROVE Typed
    OBVIOUS
<1>1. row \in [Ids -> Rows] /\ NewIsEmpty
    BY InboxAssumption DEF Init, NoRow, Rows, States, NewIsEmpty
<1>2. order \in Seq(Ids) /\ IsInjective(order) /\ ToSet(order) = {m \in Ids : Exists(m)}
    BY DEF Init, IsInjective, ToSet, Exists, NoRow
<1>3. reader \in [Readers -> [at: {"idle", "fetched", "marked"}, batch: SUBSET Ids]]
    BY DEF Init, NotReading
<1>4. crashes \in 0..MaxCrashes
    BY InboxAssumption DEF Init
<1> QED
    BY <1>1, <1>2, <1>3, <1>4 DEF Init, Typed, TypeOK, Rows

\* TypeOK: the order of the mailbox names every message that exists, once.
THEOREM TypeInvariance == Spec => []TypeOK
<1>1. Spec => []Typed
    BY TypeInit, TypeStep, PTL DEF Spec
<1>2. Typed => TypeOK
    BY DEF Typed
<1> QED
    BY <1>1, <1>2, PTL

-------------------------------------------------------------------------------
\* What ended stays ended

\* A step moves the state of a row only where its condition names it.
LEMMA MovedEnds ==
    ASSUME Typed, NEW S, NEW from, NEW s \in States, row' = Moved(S, from, s),
           s \in Over \/ from \cap Over = {}
    PROVE  \A m \in Ids : row[m].state \in Over => row'[m].state \in Over
    BY MovedType DEF Typed, TypeOK, Rows

\* EndedStaysEnded: acked, cancelled, archived and deleted mail is never unread again, whatever
\* reads were under way; only a digest with a new body is.
THEOREM EndedMailStaysEnded == Spec => EndedStaysEnded
<1>1. ASSUME Typed, [Next]_vars, NEW m \in Ids, row[m].state \in Over, row'[m].state \notin Over
      PROVE  row'[m].body > row[m].body
    <2> USE DEF States, Over
    <2>1. ~MoveStep
        <3>1. ~\E r \in Readers : MarkRead(r)
            BY <1>1, MovedEnds DEF MarkRead, Marked
        <3>2. ~\E S \in SUBSET Ids \ {{}} : Ack(S)
            BY <1>1, MovedEnds DEF Ack
        <3>3. ~\E n \in DOMAIN order, states \in SUBSET {"queued", "read", "acked"} :
                   Archive(n, states)
            BY <1>1, MovedEnds DEF Archive
        <3>4. ~\E x \in Ids : Cancel(x) \/ AutoArchive(x) \/ ArchiveRetired(x)
            BY <1>1, MovedEnds DEF Cancel, AutoArchive, ArchiveRetired, Archivable
        <3>5. ~MarkUndeliverable
            BY <1>1, MovedEnds DEF MarkUndeliverable
        <3> QED
            BY <3>1, <3>2, <3>3, <3>4, <3>5 DEF MoveStep
    <2>2. ~AsideStep
        <3>1. AsideStep => row' = row
            BY DEF AsideStep, StoreBlob, Fetch, GiveUp, RecordDelivery, Recover, NoteAcked,
                   CollectKeep, CollectRemove, Inventory, Crash, vars, mailbox
        <3> QED
            BY <1>1, <3>1
    <2>3. CASE \E x \in Mails : Insert(x)
        <3>1. PICK x \in Mails : Insert(x)
            BY <2>3
        <3>2. x # m
            BY <1>1, <3>1 DEF Insert, NoRow
        <3> QED
            BY <1>1, <3>1, <3>2 DEF Insert, Typed, TypeOK
    <2>4. CASE \E d \in Digests : Publish(d)
        <3>1. PICK d \in Digests : Publish(d)
            BY <2>4
        <3>2. m = d
            BY <1>1, <3>1 DEF Publish, Typed, TypeOK
        <3>3. row[m].body \in Nat /\ row'[m].body = row[m].body + 1
            BY <1>1, <3>1, <3>2 DEF Publish, Typed, TypeOK
        <3> QED
            BY <3>3
    <2>5. CASE \E x \in Ids : Delete(x)
        BY <1>1, <2>5 DEF Delete, Typed, TypeOK
    <2> QED
        BY <1>1, <2>1, <2>2, <2>3, <2>4, <2>5, StepKinds DEF RowStep
<1>2. Typed /\ [Next]_vars =>
          [\A m \in Ids : row[m].state \in Over /\ row'[m].state \notin Over
                             => row'[m].body > row[m].body]_vars
    BY <1>1
<1>3. Spec => []Typed
    BY TypeInit, TypeStep, PTL DEF Spec
<1> QED
    BY <1>2, <1>3, PTL DEF Spec, EndedStaysEnded

-------------------------------------------------------------------------------
\* Lost answers

LEMMA RecoversStep == Typed /\ LostAnswerRecovers /\ [Next]_vars => LostAnswerRecovers'
<1> SUFFICES ASSUME Typed, LostAnswerRecovers, [Next]_vars, NEW m \in recorded',
                    row'[m].state = "read"
             PROVE  m \in receipt'
    BY DEF LostAnswerRecovers
<1>1. m \in Ids
    BY StepKinds, MoveRestType, AsideRestType, RowRestType DEF RestType
<1>2. m \in recorded /\ row[m].state = "read" => m \in receipt
    BY DEF LostAnswerRecovers
<1> USE DEF States, Typed, TypeOK
<1>3. CASE \E r \in Readers : MarkRead(r)
    <2>1. PICK r \in Readers : MarkRead(r)
        BY <1>3
    <2>2. m \notin reader[r].batch /\ m \in recorded /\ receipt' = receipt
        BY <2>1 DEF MarkRead
    <2>3. row'[m].state = row[m].state
        BY <1>1, <2>1, <2>2, MovedType DEF MarkRead, Marked, Rows
    <2> QED
        BY <1>2, <2>2, <2>3
<1>4. ASSUME NEW S, NEW from, NEW s \in States \ {"read"}, row' = Moved(S, from, s),
             UNCHANGED <<receipt, recorded>>
      PROVE  m \in receipt'
    <2>1. row \in [Ids -> Rows]
        BY DEF Rows
    <2>2. row'[m].state = IF m \in S /\ row[m].state \in from THEN s ELSE row[m].state
        BY <1>1, <1>4, <2>1, MovedType
    <2> QED
        BY <1>2, <1>4, <2>2
<1>5. CASE MoveStep /\ ~\E r \in Readers : MarkRead(r)
    <2>1. CASE \E S \in SUBSET Ids \ {{}} : Ack(S)
        BY <1>4, <2>1 DEF Ack
    <2>2. CASE \E n \in DOMAIN order, states \in SUBSET {"queued", "read", "acked"} :
                   Archive(n, states)
        BY <1>4, <2>2 DEF Archive
    <2>3. CASE \E x \in Ids : Cancel(x) \/ AutoArchive(x) \/ ArchiveRetired(x)
        BY <1>4, <2>3 DEF Cancel, AutoArchive, ArchiveRetired
    <2>4. CASE MarkUndeliverable
        BY <1>4, <2>4 DEF MarkUndeliverable
    <2> QED
        BY <1>5, <2>1, <2>2, <2>3, <2>4 DEF MoveStep
<1>6. CASE Recover \/ NoteAcked
    BY <1>2, <1>6 DEF Recover, NoteAcked, Pending, Exists
<1>7. CASE \E r \in Readers : RecordDelivery(r)
    BY <1>7 DEF RecordDelivery
<1>8. CASE AsideStep /\ ~Recover /\ ~NoteAcked /\ ~\E r \in Readers : RecordDelivery(r)
    <2>1. UNCHANGED mailbox
        BY <1>8 DEF AsideStep, StoreBlob, Fetch, GiveUp, CollectKeep, CollectRemove, Inventory,
                    Crash, vars
    <2> QED
        BY <1>2, <2>1 DEF mailbox
<1>9. CASE RowStep
    <2>1. row[m].state = "read"
        <3>1. CASE \E x \in Mails : Insert(x)
            BY <1>1, <3>1 DEF Insert
        <3>2. CASE \E d \in Digests : Publish(d)
            BY <1>1, <3>2 DEF Publish
        <3>3. CASE \E x \in Ids : Delete(x)
            <4>1. PICK x \in Ids : Delete(x)
                BY <3>3
            <4>2. row'[m] = IF m = x THEN [row[m] EXCEPT !.state = "deleted"] ELSE row[m]
                BY <1>1, <4>1 DEF Delete
            <4>3. row[m] \in Rows
                BY <1>1 DEF Rows
            <4> QED
                BY <4>2, <4>3 DEF Rows
        <3> QED
            BY <1>9, <3>1, <3>2, <3>3 DEF RowStep
    <2>2. UNCHANGED <<receipt, recorded>>
        BY <1>9 DEF RowStep, Insert, Publish, Delete
    <2> QED
        BY <1>2, <2>1, <2>2
<1> QED
    BY StepKinds, <1>3, <1>5, <1>6, <1>7, <1>8, <1>9

\* LostAnswerRecovers: what the latest recorded batch marked read stays in the receipt until it
\* is acked.
THEOREM LostAnswersRecover == Spec => []LostAnswerRecovers
<1>1. Init => LostAnswerRecovers
    BY DEF Init, LostAnswerRecovers
<1>2. Spec => []Typed
    BY TypeInit, TypeStep, PTL DEF Spec
<1> QED
    BY <1>1, <1>2, RecoversStep, PTL DEF Spec
===============================================================================
