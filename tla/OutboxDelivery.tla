--------------------------- MODULE OutboxDelivery -----------------------------
(* What becomes of a message of Outbox, for any number of mails, texts, exits *)
(* and failing snapshots: it is not lost, not queued again once its decision  *)
(* is on the disk, and not typed twice in one life of the process.            *)
EXTENDS OutboxProofs

-------------------------------------------------------------------------------
\* The invariant, in parts

\* The messages the outbox still works on, and what typing one of them announces.
Live == ToSet(queue) \cup ({worker.m} \cap Calls)
Told(m) == {m} \cup msg[m].frame
RowTold(row) == {row.m} \cup row.is.frame

InFrames(c, rows) == \E i \in DOMAIN rows : c \in rows[i].is.frame
Decided(c) == \E i \in Ids : decided[i] = c \/ disk.decided[i] = c

\* Nothing knows a call that has queued nothing.
Untouched ==
    \A c \in Calls \ Numbered :
        /\ worker.m # c /\ msg[c].id = 0 /\ typed[c] = 0
        /\ c \notin accepted \cup settled \cup durable \cup history
        /\ ~Decided(c)
        /\ \A m \in Live : c \notin msg[m].frame
        /\ ~InFrames(c, snap.rows) /\ ~InFrames(c, disk.rows)

\* A message keeps its number, in the file too, and a tombstone stands under it.
RowsNumbered(rows) == \A i \in DOMAIN rows : rows[i].is.id = msg[rows[i].m].id
Numbers ==
    /\ \A i \in Ids, c \in Calls : decided[i] = c \/ disk.decided[i] = c => msg[c].id = i
    /\ RowsNumbered(snap.rows) /\ RowsNumbered(disk.rows)

Ledger == Untouched /\ Numbers

-------------------------------------------------------------------------------
\* What the steps do to messages, to the history and to the rows

LEMMA FoldFacts ==
    ASSUME Typed, NEW c, Fold(c)
    PROVE  /\ up /\ c \in Mails /\ call[c] = "new"
           /\ call' = [call EXCEPT ![c] = "note_queued"] /\ mail' = Stored(c)
           /\ UNCHANGED <<queue, worker, canceller, decided, history, accepted, settled, durable, typed,
                          up, closed, exits, failures, snap, disk, nextId>>
           /\ \E m \in ToSet(queue) \cap Mails : msg' = [msg EXCEPT ![m].frame = @ \cup {c}]
<1>1. UNCHANGED <<queue, worker, canceller, decided, history, ghosts, life, saves>>
    BY Zenon DEF Fold
<1>2. \E m \in ToSet(queue) \cap Mails : msg' = [msg EXCEPT ![m].frame = @ \cup {c}]
    BY Zenon DEF Fold
<1>3. up /\ c \in Mails /\ call[c] = "new"
    BY Zenon DEF Fold, At
<1>4. call' = [call EXCEPT ![c] = "note_queued"] /\ mail' = Stored(c)
    BY Zenon DEF Fold
<1> QED
    BY <1>1, <1>2, <1>3, <1>4 DEF ghosts, life, saves

LEMMA CancelFacts ==
    ASSUME Typed, NEW c \in Calls, Cancel(c)
    PROVE  /\ up /\ canceller = "idle" /\ c \in ToSet(queue)
           /\ ToSet(queue') = ToSet(queue) \ {c}
           /\ history' = history \cup {c} /\ settled' = settled \cup {c}
           /\ decided' = [decided EXCEPT ![msg[c].id] = c]
           /\ msg' = msg \/ (worker.m # c /\ msg' = Dropped(c))
           /\ canceller' = "save"
           /\ UNCHANGED <<call, mail, worker, accepted, durable, typed,
                          up, closed, exits, failures, snap, disk, nextId>>
<1>1. up /\ canceller = "idle" /\ c \in ToSet(queue) /\ queue' = Without(c)
    BY Zenon DEF Cancel, Queued
<1>2. ToSet(queue') = ToSet(queue) \ {c}
    BY <1>1, WithoutSet DEF Typed, QueueTyped
<1>3. /\ history' = history \cup {c} /\ settled' = settled \cup {c} /\ canceller' = "save"
      /\ decided' = [decided EXCEPT ![msg[c].id] = c]
      /\ msg' = IF worker.m = c THEN msg ELSE Dropped(c)
      /\ UNCHANGED <<call, mail, worker, accepted, durable, typed, life, saves>>
    BY Zenon DEF Cancel
<1>4. msg' = msg \/ (worker.m # c /\ msg' = Dropped(c))
    <2>1. msg' = IF worker.m = c THEN msg ELSE Dropped(c)
        BY <1>3, Zenon
    <2> HIDE DEF Dropped
    <2> QED
        BY <2>1, SMT
<1> QED
    BY <1>1, <1>2, <1>3, <1>4 DEF life, saves

\* A message is only forgotten, or held once more.
Fades == \A c \in Calls : msg'[c].id = msg[c].id /\ msg'[c].frame \subseteq msg[c].frame

LEMMA DroppedFades ==
    ASSUME Typed, NEW c \in Calls, msg' = Dropped(c)
    PROVE  Fades
    BY DEF Fades, Dropped, NoMessage, Typed, QueueTyped, Message

LEMMA WorkerFacts ==
    ASSUME Typed, WorkerStep
    PROVE  /\ up
           /\ UNCHANGED <<call, canceller, durable, accepted, up, closed, exits, failures, snap, disk, nextId>>
           /\ worker'.m \in {worker.m, Nobody} \cup ToSet(queue)
           /\ ToSet(queue') \subseteq ToSet(queue)
           /\ Fades
<1>0. UNCHANGED Aside
    BY DEF WorkerStep, Pick, Stopped, Unregister, Frame, Defer, Refuse, Hold, Type, TypingFails, Decide,
           RememberRow, RecordReceipts
<1>1. up
    BY DEF WorkerStep, Pick, Stopped, Unregister, Frame, Defer, Refuse, Type, TypingFails, Decide,
           RememberRow, RecordReceipts, WorkerAt
<1>2. WorkerTyped /\ Lists(queue, ToSet(queue)) /\ msg \in [Calls -> Message]
    BY DEF Typed, QueueTyped
<1> DEFINE Goal == /\ worker'.m \in {worker.m, Nobody} \cup ToSet(queue)
                   /\ ToSet(queue') \subseteq ToSet(queue)
                   /\ Fades
<1>3. ASSUME Pick PROVE Goal
    <2>1. queue # <<>> => Head(queue) \in ToSet(queue)
        BY <1>2 DEF Lists, ToSet
    <2> QED
        <3>1. queue' = queue /\ msg' = msg
            BY <1>3 DEF Pick
        <3>2. \/ worker' = Idle("exit")
              \/ queue # <<>> /\ worker' = [Idle("picked") EXCEPT !.m = Head(queue)]
            BY <1>3 DEF Pick
        <3>3. worker'.m \in {worker.m, Nobody} \cup ToSet(queue)
            BY <2>1, <3>2 DEF Idle
        <3> QED
            BY <3>1, <3>3 DEF Fades
<1>4. ASSUME Stopped \/ Unregister \/ Frame \/ Type \/ TypingFails \/ RememberRow PROVE Goal
    <2>1. queue' = queue /\ msg' = msg
        BY <1>4 DEF Stopped, Unregister, Frame, Type, TypingFails, RememberRow
    <2>2. worker'.m \in {worker.m, Nobody}
        <3>1. \/ \E stage \in {"off", "loop", "exit"} : worker' = Idle(stage)
              \/ \E stage \in {"framed", "typed_save", "decided_save"} : worker' = [worker EXCEPT !.at = stage]
              \/ worker' = [worker EXCEPT !.at = "decide", !.ok = FALSE]
            BY <1>4 DEF Stopped, Unregister, Frame, Type, TypingFails, RememberRow, Goto
        <3>2. ASSUME NEW stage, worker' = [worker EXCEPT !.at = stage] PROVE worker'.m = worker.m
            BY <1>2, <3>2 DEF WorkerTyped, WorkerType
        <3>3. CASE worker' = [worker EXCEPT !.at = "decide", !.ok = FALSE]
            BY <1>2, <3>3 DEF WorkerTyped, WorkerType
        <3> QED
            BY <3>1, <3>2, <3>3 DEF Idle
    <2>3. Fades
        BY <2>1 DEF Fades
    <2> QED
        BY <2>1, <2>2, <2>3
<1>5. ASSUME NEW permanent, NEW refused, Hold(permanent, refused), worker.at \in {"picked", "framed"} PROVE Goal
    <2>1. queue' = Without(worker.m) \/ queue' = queue
        BY <1>5 DEF Hold
    <2>2. worker'.m = worker.m
        <3>1. \/ worker' = [worker EXCEPT !.at = "remember", !.ok = FALSE]
              \/ worker' = [worker EXCEPT !.at = "hold_save"]
            BY <1>5 DEF Hold, Goto
        <3> QED
            BY <1>2, <3>1 DEF WorkerTyped, WorkerType
    <2>3. Fades
        BY <1>2, <1>5 DEF Hold, Fades, Message
    <2> QED
        BY <1>2, <2>1, <2>2, <2>3, WithoutSet
<1>6. ASSUME NEW confirmed \in BOOLEAN, Decide(confirmed) PROVE Goal
    <2>1. queue' = Without(worker.m) /\ msg' = msg
        BY <1>6 DEF Decide
    <2>2. worker'.m = worker.m
        BY <1>2, <1>6 DEF Decide, WorkerTyped, WorkerType
    <2> QED
        BY <1>2, <2>1, <2>2, WithoutSet DEF Fades
<1>7. ASSUME RecordReceipts PROVE Goal
    <2>1. worker'.m = Nobody /\ queue' = queue /\ msg' = Dropped(worker.m)
        BY <1>7 DEF RecordReceipts, Idle
    <2>2. worker.m \in Calls
        BY <1>2, <1>7 DEF RecordReceipts, WorkerAt, WorkerTyped, WorkerType
    <2> QED
        BY <2>1, <2>2, DroppedFades
<1>8. Goal
    BY <1>3, <1>4, <1>5, <1>6, <1>7 DEF WorkerStep, Defer, Refuse, WorkerAt
<1> QED
    BY <1>0, <1>1, <1>8 DEF Aside, life, saves

\* What the worker adds to the history variables and to the tombstones.
LEMMA WorkerRecords ==
    ASSUME Typed, WorkerStep
    PROVE  /\ settled' = settled \/ (worker.m \in Calls /\ settled' = settled \cup {worker.m})
           /\ \/ history' = history /\ decided' = decided
              \/ /\ worker.at = "remember" /\ worker.m \in Calls
                 /\ history' = history \cup {worker.m}
                 /\ decided' = [decided EXCEPT ![msg[worker.m].id] = worker.m]
           /\ \/ typed' = typed
              \/ /\ Type /\ worker.at = "framed" /\ worker.m \in Calls
                 /\ typed' = [c \in Calls |-> IF c \in Told(worker.m) THEN typed[c] + 1 ELSE typed[c]]
<1>1. WorkerTyped
    BY DEF Typed, QueueTyped
<1>2. CASE Pick \/ Stopped \/ Unregister \/ Frame \/ TypingFails \/ RecordReceipts
    <2>1. UNCHANGED <<settled, history, decided, typed>>
        BY <1>2 DEF Pick, Stopped, Unregister, Frame, TypingFails, RecordReceipts
    <2> QED
        BY <2>1
<1>3. CASE Type
    <2>1. worker.m \in Calls
        BY <1>1, <1>3 DEF Type, WorkerAt, WorkerTyped, WorkerType
    <2> QED
        BY <1>3, <2>1 DEF Type, WorkerAt, Told
<1>4. CASE RememberRow
    <2>1. worker.m \in Calls
        BY <1>1, <1>4 DEF RememberRow, WorkerAt, WorkerTyped, WorkerType
    <2> QED
        BY <1>4, <2>1 DEF RememberRow, WorkerAt
<1>5. ASSUME NEW confirmed \in BOOLEAN, Decide(confirmed)
      PROVE  worker.m \in Calls /\ settled' = settled \cup {worker.m} /\ UNCHANGED <<history, decided, typed>>
    BY <1>1, <1>5 DEF Decide, WorkerAt, WorkerTyped, WorkerType
<1>6. ASSUME NEW permanent, NEW refused, Hold(permanent, refused), worker.at \in {"picked", "framed"}
      PROVE  /\ settled' = settled \/ (worker.m \in Calls /\ settled' = settled \cup {worker.m})
             /\ UNCHANGED <<history, decided, typed>>
    <2>1. worker.m \in Calls
        BY <1>1, <1>6 DEF WorkerTyped, WorkerType
    <2> QED
        BY <1>6, <2>1 DEF Hold
<1> QED
    BY <1>2, <1>3, <1>4, <1>5, <1>6 DEF WorkerStep, Defer, Refuse, WorkerAt

\* The end of a snapshot, written or not.
LEMMA ReleasedFacts ==
    ASSUME Typed, Saving, WriteSnapshot \/ SaveFails
    PROVE  /\ up /\ snap.at = "decided" /\ snap' = NoSnap
           /\ UNCHANGED <<up, closed, exits, mail, queue, msg, decided, history, settled, typed, nextId>>
           /\ worker'.m \in {worker.m, Nobody}
           /\ \/ worker'.at = worker.at \/ worker'.at \in {"loop", "decide"}
              \/ worker.at = "decided_save" /\ worker'.at = "receipts"
           /\ \/ /\ disk' = [next |-> snap.next, rows |-> snap.rows, decided |-> decided]
                 /\ durable' = durable \cup {c \in Calls : \E i \in Ids : decided[i] = c}
              \/ disk' = disk /\ durable' = durable
           /\ \/ call' = call /\ accepted' = accepted
              \/ /\ snap.by \in Calls /\ call[snap.by] = "save"
                 /\ \/ /\ call' = [call EXCEPT ![snap.by] = Result(snap.by)]
                       /\ accepted' = accepted \cup {snap.by} /\ disk'.rows = snap.rows
                    \/ /\ call' = [call EXCEPT ![snap.by] = IF snap.by \in Mails THEN "note_failed" ELSE "done"]
                       /\ accepted' = accepted
<1>1. WorkerTyped
    BY DEF Typed, QueueTyped
<1>2. ASSUME NEW written \in BOOLEAN, Released(snap.by, written, written)
      PROVE  /\ snap' = NoSnap /\ UNCHANGED <<mail, queue, msg, decided, history, settled, typed, nextId>>
             /\ worker'.m \in {worker.m, Nobody}
             /\ \/ worker'.at = worker.at \/ worker'.at \in {"loop", "decide"}
                \/ worker.at = "decided_save" /\ worker'.at = "receipts"
             /\ \/ call' = call /\ accepted' = accepted
                \/ /\ snap.by \in Calls /\ call[snap.by] = "save"
                   /\ \/ /\ call' = [call EXCEPT ![snap.by] = Result(snap.by)] /\ accepted' = accepted \cup {snap.by}
                         /\ written
                      \/ /\ call' = [call EXCEPT ![snap.by] = IF snap.by \in Mails THEN "note_failed" ELSE "done"]
                         /\ accepted' = accepted
    <2>1. snap' = NoSnap /\ UNCHANGED <<mail, queue, msg, decided, history, settled, typed, nextId>>
        BY <1>2 DEF Released
    <2>2. worker'.m \in {worker.m, Nobody}
          /\ \/ worker'.at = worker.at \/ worker'.at \in {"loop", "decide"}
             \/ worker.at = "decided_save" /\ worker'.at = "receipts"
        BY <1>1, <1>2 DEF Released, Idle, WorkerTyped, WorkerType
    <2>3. CASE snap.by \notin Calls
        BY <1>2, <2>1, <2>2, <2>3 DEF Released
    <2>4. CASE snap.by \in Calls
        <3>1. call[snap.by] = "save"
            BY <2>4, NobodyIsNoCall DEF Saving, WantsSave, WriteSnapshot, SaveFails
        <3> QED
            BY <1>2, <2>1, <2>2, <2>4, <3>1 DEF Released
    <2> QED
        BY <2>3, <2>4
<1>3. CASE WriteSnapshot
    BY <1>2, <1>3 DEF WriteSnapshot, Saved, life
<1>4. CASE SaveFails
    BY <1>2, <1>4 DEF SaveFails, Saved
<1> QED
    BY <1>3, <1>4

\* An increasing enumeration reaches every position.
LEMMA InOrderOnto ==
    ASSUME disk.rows \in Seq(Row), NEW f \in InOrder(Kept), NEW i \in Kept
    PROVE  \E j \in DOMAIN f : f[j] = i
<1> DEFINE n == Cardinality(Kept)
<1>1. Kept \subseteq 1..Len(disk.rows) /\ Len(disk.rows) \in Nat
    BY DEF Kept
<1>2. IsFiniteSet(Kept)
    <2>1. IsFiniteSet(1..Len(disk.rows))
        BY <1>1, FS_Interval
    <2> QED
        BY <1>1, <2>1, FS_Subset
<1>3. n \in Nat
    BY <1>2, FS_CardinalityType
<1>4. IsFiniteSet(1..n) /\ Cardinality(1..n) = n
    <2> HIDE DEF n
    <2> QED
        BY <1>3, FS_Interval
<1>5. f \in [1..n -> Kept] /\ \A j, k \in DOMAIN f : j < k => f[j] < f[k]
    BY DEF InOrder
<1> HIDE DEF n
<1>6. \A j, k \in 1..n : f[j] = f[k] => j = k
    <2>1. \A j \in 1..n : f[j] \in Nat
        <3>1. \A j \in 1..n : f[j] \in Kept
            BY <1>5
        <3>2. Kept \subseteq Nat
            BY <1>1
        <3> QED
            BY <3>1, <3>2
    <2>2. \A j, k \in 1..n : j < k => f[j] < f[k]
        BY <1>5
    <2> QED
        BY <1>3, <2>1, <2>2
<1>7. f \in Injection(1..n, Kept)
    BY <1>5, <1>6 DEF Injection, IsInjective
<1>8. f \in Surjection(1..n, Kept)
    BY <1>2, <1>4, <1>7, FS_Injection DEF n
<1> QED
    BY <1>5, <1>8 DEF Surjection

LEMMA RestartFacts ==
    ASSUME Typed, Restart
    PROVE  /\ ~up /\ up'
           /\ worker'.m = Nobody /\ worker'.at \in {"off", "loop"}
           /\ decided' = disk.decided
           /\ \A c \in ToSet(queue') : \E i \in Kept : disk.rows[i].m = c
           /\ \A i \in Kept : disk.rows[i].m \in ToSet(queue')
           /\ \A c \in Calls : \/ msg'[c] = msg[c]
                               \/ \E i \in Kept : disk.rows[i].m = c /\ msg'[c] = disk.rows[i].is
           /\ \A i \in Kept : msg'[disk.rows[i].m] = disk.rows[i].is
           /\ UNCHANGED <<call, mail, canceller, history, accepted, settled, durable, typed,
                          closed, exits, failures, snap, disk, nextId>>
<1>1. disk.rows \in Seq(Row) /\ Once(disk.rows)
    BY DEF Typed, FileTyped
<1>2. PICK f \in InOrder(Kept) : queue' = [i \in DOMAIN f |-> disk.rows[f[i]].m] /\ worker' = Idle(Started(f))
    BY DEF Restart, Kept
<1>3. \A c \in ToSet(queue') : \E i \in Kept : disk.rows[i].m = c
    BY <1>1, <1>2, RestoredSet
<1>4. ASSUME NEW i \in Kept PROVE disk.rows[i].m \in ToSet(queue')
    <2>1. PICK j \in DOMAIN f : f[j] = i
        BY <1>1, InOrderOnto
    <2> QED
        BY <1>2, <2>1 DEF ToSet
<1>5. ASSUME NEW c \in Calls, NEW i \in Kept, disk.rows[i].m = c
      PROVE  msg'[c] = disk.rows[i].is
    <2> DEFINE r == CHOOSE r \in ToSet(disk.rows) : r.m = c
    <2>1. disk.rows[i] \in ToSet(disk.rows) /\ Restored(disk.rows[i])
        BY DEF Kept, ToSet
    <2>2. \E q \in ToSet(disk.rows) : q.m = c
        BY <1>5, <2>1
    <2>3. r \in ToSet(disk.rows) /\ r.m = c
        BY <2>2
    <2> HIDE DEF r
    <2>4. r = disk.rows[i]
        BY <1>1, <1>5, <2>1, <2>3 DEF Once, ToSet, Kept
    <2>5. msg' = [d \in Calls |->
                     IF \E q \in ToSet(disk.rows) : Restored(q) /\ q.m = d
                     THEN (CHOOSE q \in ToSet(disk.rows) : q.m = d).is ELSE msg[d]]
        BY DEF Restart
    <2>6. msg'[c] = r.is
        BY <1>5, <2>1, <2>5 DEF r
    <2> QED
        BY <2>4, <2>6
<1>6. ASSUME NEW c \in Calls, ~\E i \in Kept : disk.rows[i].m = c
      PROVE  msg'[c] = msg[c]
    <2>1. ~\E q \in ToSet(disk.rows) : Restored(q) /\ q.m = c
        BY <1>6 DEF Kept, ToSet
    <2> QED
        BY <2>1 DEF Restart
<1>7. \A i \in Kept : disk.rows[i].m \in Calls
    <2>1. \A i \in DOMAIN disk.rows : disk.rows[i] \in Row
        BY <1>1
    <2> QED
        BY <2>1 DEF Kept, Row
<1>8. worker'.m = Nobody /\ worker'.at \in {"off", "loop"}
    BY <1>2 DEF Idle, Started
<1>9. /\ ~up /\ up' /\ decided' = disk.decided
      /\ UNCHANGED <<call, mail, canceller, history, accepted, settled, durable, typed,
                     closed, exits, failures, snap, disk, nextId>>
    BY DEF Restart, ghosts, saves
<1> QED
    BY <1>3, <1>4, <1>5, <1>6, <1>7, <1>8, <1>9

-------------------------------------------------------------------------------
\* Untouched

\* Nothing new is worked on, and nothing announces more.
Calm == Fades /\ ToSet(queue') \subseteq ToSet(queue) /\ worker'.m \in {worker.m, Nobody} \cup ToSet(queue)

LEMMA CalmLive ==
    ASSUME Typed, Calm
    PROVE  Live' \subseteq Live /\ \A m \in Live' : m \in Calls /\ msg'[m].frame \subseteq msg[m].frame
<1>1. ToSet(queue) \subseteq Calls
    BY DEF Typed, QueueTyped
<1>2. Live' \subseteq Live /\ Live \subseteq Calls
    BY <1>1, NobodyIsNoCall DEF Calm, Live
<1> QED
    BY <1>2 DEF Calm, Fades

LEMMA SameCalm ==
    ASSUME Typed, UNCHANGED <<queue, msg>>, worker'.m \in {worker.m, Nobody}
    PROVE  Calm
    BY DEF Calm, Fades

LEMMA FrameRows ==
    ASSUME NEW rows, NEW c, rows = [i \in DOMAIN queue |-> [m |-> queue[i], is |-> msg[queue[i]]]],
           InFrames(c, rows)
    PROVE  \E m \in ToSet(queue) : c \in msg[m].frame
    BY DEF InFrames, ToSet

\* What a calm step has to leave alone.
LEMMA CalmUntouched ==
    ASSUME Typed, Untouched, Calm, Numbered \subseteq Numbered',
           \A c \in Calls \ Numbered :
               /\ typed'[c] = typed[c]
               /\ c \notin accepted' \cup settled' \cup durable' \cup history'
               /\ ~(Decided(c)')
               /\ ~(InFrames(c, snap.rows)') /\ ~(InFrames(c, disk.rows)')
    PROVE  Untouched'
<1> SUFFICES ASSUME NEW c \in Calls \ Numbered
             PROVE  /\ worker'.m # c /\ msg'[c].id = 0 /\ typed'[c] = 0
                    /\ \A m \in Live' : c \notin msg'[m].frame
    BY DEF Untouched
<1>1. c \notin ToSet(queue) /\ worker.m # c /\ c # Nobody
    BY NobodyIsNoCall DEF Typed, Fresh, Untouched
<1>2. worker'.m # c
    BY <1>1 DEF Calm
<1>3. msg'[c].id = 0 /\ typed'[c] = 0
    BY DEF Untouched, Calm, Fades
<1>4. \A m \in Live' : c \notin msg'[m].frame
    BY CalmLive DEF Untouched
<1> QED
    BY <1>2, <1>3, <1>4

LEMMA CallStepUntouched ==
    ASSUME Typed, Untouched, NEW d \in Calls, CallStep(d)
    PROVE  Untouched'
<1>1. call \in [Calls -> CallStages] /\ msg \in [Calls -> Message]
    BY DEF Typed, CallsTyped, QueueTyped
<1>2. CASE Fold(d)
    <2>1. PICK m \in ToSet(queue) \cap Mails : msg' = [msg EXCEPT ![m].frame = @ \cup {d}]
        BY <1>2, FoldFacts
    <2>2. m \in Calls /\ Live' = Live /\ d \notin Calls \ Numbered' /\ Numbered \subseteq Numbered'
        BY <1>1, <1>2, FoldFacts DEF Live, Numbered, Calls
    <2>3. \A n \in Calls : msg'[n].id = msg[n].id /\ msg'[n].frame \subseteq msg[n].frame \cup {d}
        BY <1>1, <2>1, <2>2 DEF Message
    <2>4. Live \subseteq Calls
        BY DEF Live, Typed, QueueTyped
    <2>5. UNCHANGED <<worker, decided, history, accepted, settled, durable, typed, snap, disk>>
        BY <1>2, FoldFacts
    <2> SUFFICES ASSUME NEW c \in Calls \ Numbered'
                 PROVE  /\ worker'.m # c /\ msg'[c].id = 0 /\ typed'[c] = 0
                        /\ c \notin accepted' \cup settled' \cup durable' \cup history'
                        /\ ~(Decided(c)')
                        /\ \A n \in Live' : c \notin msg'[n].frame
                        /\ ~(InFrames(c, snap.rows)') /\ ~(InFrames(c, disk.rows)')
        BY DEF Untouched
    <2>6. c \in Calls \ Numbered /\ c # d
        BY <2>2
    <2>7. ~(Decided(c)') /\ ~(InFrames(c, snap.rows)') /\ ~(InFrames(c, disk.rows)')
        BY <2>5, <2>6 DEF Untouched, Decided, InFrames
    <2>8. \A n \in Live' : c \notin msg'[n].frame
        BY <2>2, <2>3, <2>4, <2>6 DEF Untouched
    <2> QED
        BY <2>3, <2>5, <2>6, <2>7, <2>8 DEF Untouched
<1>3. CASE Push(d)
    <2>1. d \notin Numbered /\ Numbered' = Numbered \cup {d}
        BY <1>1, <1>3 DEF Push, At, Numbered
    <2>2. Lists(queue', ToSet(queue')) /\ ToSet(queue') = ToSet(queue) \cup {d}
        BY <1>3, <2>1, AppendSet DEF Push, Typed, Fresh, QueueTyped
    <2>3. msg' = [msg EXCEPT ![d] = [id |-> nextId, frame |-> {d} \cap Mails, holds |-> 0]]
        BY <1>3 DEF Push
    <2>4. worker'.m \in {worker.m, Nobody}
        BY <1>3 DEF Push, Idle
    <2>5. UNCHANGED <<decided, history, accepted, settled, durable, typed, snap, disk>>
        BY <1>3 DEF Push, ghosts
    <2> SUFFICES ASSUME NEW c \in Calls \ Numbered'
                 PROVE  /\ worker'.m # c /\ msg'[c].id = 0 /\ typed'[c] = 0
                        /\ c \notin accepted' \cup settled' \cup durable' \cup history'
                        /\ ~(Decided(c)')
                        /\ \A n \in Live' : c \notin msg'[n].frame
                        /\ ~(InFrames(c, snap.rows)') /\ ~(InFrames(c, disk.rows)')
        BY DEF Untouched
    <2>6. c \in Calls \ Numbered /\ c # d /\ c # Nobody
        BY <2>1, NobodyIsNoCall
    <2>7. ~(Decided(c)') /\ ~(InFrames(c, snap.rows)') /\ ~(InFrames(c, disk.rows)')
        BY <2>5, <2>6 DEF Untouched, Decided, InFrames
    <2>8. \A n \in Live' : n \in Calls /\ (n = d \/ n \in Live)
        BY <2>2, <2>4, NobodyIsNoCall DEF Live, Typed, QueueTyped
    <2>9. \A n \in Live' : c \notin msg'[n].frame
        BY <1>1, <2>3, <2>6, <2>8 DEF Untouched
    <2> QED
        BY <1>1, <2>3, <2>4, <2>5, <2>6, <2>7, <2>9 DEF Untouched
<1>4. CASE NothingToFold(d) \/ RecordNotify(d)
    <2>1. Numbered \subseteq Numbered'
        BY <1>1, <1>4 DEF NothingToFold, RecordNotify, At, NoteOf, Numbered
    <2>2. UNCHANGED <<queue, msg, worker, decided, history, accepted, settled, durable, typed, snap, disk>>
        BY <1>4 DEF NothingToFold, RecordNotify, ghosts, saves
    <2> QED
        BY <2>1, <2>2, SameCalm, CalmUntouched DEF Untouched, Decided, InFrames
<1> QED
    BY <1>2, <1>3, <1>4 DEF CallStep

LEMMA UntouchedStep ==
    ASSUME Typed, Saving, Untouched, [Next]_vars
    PROVE  Untouched'
<1>1. ASSUME NEW d \in Calls, Cancel(d) PROVE Untouched'
    <2>1. UNCHANGED <<call, worker, accepted, durable, typed, snap, disk>>
        BY <1>1, CancelFacts
    <2>2. Calm
        <3>1. Fades
            BY <1>1, CancelFacts, DroppedFades DEF Fades
        <3> QED
            BY <1>1, <2>1, <3>1, CancelFacts DEF Calm
    <2>3. /\ history' = history \cup {d} /\ settled' = settled \cup {d}
          /\ decided' = [decided EXCEPT ![msg[d].id] = d] /\ decided \in Tombstones
        BY <1>1, CancelFacts DEF Typed, QueueTyped
    <2>4. d \in Numbered
        BY <1>1, CancelFacts DEF Typed, Fresh
    <2> QED
        BY <2>1, <2>2, <2>3, <2>4, CalmUntouched
           DEF Untouched, Decided, InFrames, Numbered, Tombstones
<1>2. CASE WorkerStep
    <2>1. Calm /\ UNCHANGED <<call, accepted, durable, snap, disk>>
        BY <1>2, WorkerFacts DEF Calm
    <2>2. Numbered' = Numbered
        BY <2>1 DEF Numbered
    <2> SUFFICES ASSUME NEW c \in Calls \ Numbered
                 PROVE  /\ typed'[c] = typed[c] /\ c \notin settled' \cup history'
                        /\ \A i \in Ids : decided'[i] # c
        BY <2>1, <2>2, CalmUntouched DEF Untouched, Decided, InFrames
    <2>3. worker.m # c /\ c \notin settled \cup history /\ \A i \in Ids : decided[i] # c
        BY DEF Untouched, Decided
    <2>4. c \notin settled' \cup history'
        BY <1>2, <2>3, WorkerRecords
    <2>5. \A i \in Ids : decided'[i] # c
        BY <1>2, <2>3, WorkerRecords DEF Typed, QueueTyped, Tombstones
    <2>6. worker.m \in Calls => c \notin Told(worker.m)
        BY <2>3 DEF Untouched, Told, Live
    <2>7. typed'[c] = typed[c]
        BY <1>2, <2>6, WorkerRecords
    <2> QED
        BY <2>4, <2>5, <2>7
<1>3. ASSUME NEW p \in Calls \cup {"worker", "canceller"}, BeginSave(p) PROVE Untouched'
    <2>1. UNCHANGED <<call, queue, msg, worker, decided, history, accepted, settled, durable, typed, disk>>
          /\ snap'.rows = <<>>
        BY <1>3 DEF BeginSave, ghosts
    <2> QED
        BY <2>1, SameCalm, CalmUntouched DEF Untouched, Decided, InFrames, Numbered
<1>4. CASE SaveRows
    <2> DEFINE rows == [i \in DOMAIN queue |-> [m |-> queue[i], is |-> msg[queue[i]]]]
    <2>1. UNCHANGED <<call, queue, msg, worker, decided, history, accepted, settled, durable, typed, disk>>
        BY <1>4 DEF SaveRows, ghosts
    <2>2. snap'.rows = rows
        BY <1>4 DEF SaveRows, Typed, FileTyped
    <2> HIDE DEF rows
    <2>3. \A c \in Calls \ Numbered : ~InFrames(c, rows)
        BY FrameRows DEF Untouched, Live, rows
    <2>4. Numbered' = Numbered
        BY <2>1 DEF Numbered
    <2> QED
        BY <2>1, <2>2, <2>3, <2>4, SameCalm, CalmUntouched DEF Untouched, Decided, InFrames
<1>5. CASE WriteSnapshot \/ SaveFails
    <2>1. UNCHANGED <<queue, msg, decided, history, settled, typed>> /\ worker'.m \in {worker.m, Nobody}
        BY <1>5, ReleasedFacts
    <2>2. Numbered \subseteq Numbered'
        <3>1. \/ call' = call
              \/ /\ snap.by \in Calls
                 /\ \E stage \in {"done", "note_sent", "note_queued", "note_failed"} :
                        call' = [call EXCEPT ![snap.by] = stage]
            BY <1>5, ReleasedFacts DEF Result
        <3> QED
            BY <3>1 DEF Numbered, Typed, CallsTyped
    <2> SUFFICES ASSUME NEW c \in Calls \ Numbered
                 PROVE  /\ c \notin accepted' \cup durable' /\ ~(Decided(c)')
                        /\ ~(InFrames(c, snap.rows)') /\ ~(InFrames(c, disk.rows)')
        BY <2>1, <2>2, SameCalm, CalmUntouched DEF Untouched
    <2>3. c \notin accepted' \cup durable'
        BY <1>5, ReleasedFacts DEF Untouched, Decided, Numbered
    <2>4. ~(Decided(c)')
        <3>1. decided' = decided /\ (disk'.decided = decided \/ disk' = disk)
            BY <1>5, ReleasedFacts
        <3> QED
            BY <3>1 DEF Untouched, Decided
    <2>5. snap'.rows = <<>> /\ (disk'.rows = snap.rows \/ disk' = disk)
        BY <1>5, ReleasedFacts DEF NoSnap
    <2> QED
        BY <2>3, <2>4, <2>5 DEF Untouched, InFrames
<1>6. CASE Exit
    <2>1. Numbered \subseteq Numbered'
        BY <1>6 DEF Exit, Numbered, Typed, CallsTyped
    <2>2. /\ worker'.m = Nobody /\ ToSet(queue') = {} /\ UNCHANGED <<accepted, settled, durable, typed, disk>>
          /\ history' = {} /\ snap'.rows = <<>>
        BY <1>6 DEF Exit, Idle, ToSet, ghosts, NoSnap
    <2>3. Calm
        BY <1>6, <2>2 DEF Calm, Exit, Fades, NoMessage, Typed, QueueTyped, Message
    <2>4. \A c \in Calls \ Numbered : ~(Decided(c)') /\ ~(InFrames(c, snap.rows)') /\ ~(InFrames(c, disk.rows)')
        BY <1>6, <2>2, NobodyIsNoCall DEF Untouched, Exit, Decided, InFrames
    <2> QED
        BY <2>1, <2>2, <2>3, <2>4, CalmUntouched DEF Untouched
<1>7. CASE Restart
    <2>1. Numbered' = Numbered /\ UNCHANGED <<accepted, settled, durable, history, typed, snap, disk>>
          /\ decided' = disk.decided /\ worker'.m = Nobody
        BY <1>7, RestartFacts DEF Numbered
    <2> SUFFICES ASSUME NEW c \in Calls \ Numbered
                 PROVE  msg'[c].id = 0 /\ \A m \in Live' : c \notin msg'[m].frame
        BY <2>1, NobodyIsNoCall DEF Untouched, Decided, InFrames
    <2>2. ~\E i \in Kept : disk.rows[i].m = c
        BY DEF Typed, Fresh, Names, Kept
    <2>3. msg'[c].id = 0
        BY <1>7, <2>2, RestartFacts DEF Untouched
    <2>4. ASSUME NEW m \in Live' PROVE c \notin msg'[m].frame
        <3>1. m \in ToSet(queue')
            BY <2>1, <2>4, NobodyIsNoCall DEF Live
        <3>2. PICK i \in Kept : disk.rows[i].m = m /\ msg'[m] = disk.rows[i].is
            BY <1>7, <3>1, RestartFacts
        <3> QED
            BY <3>2 DEF Kept, Untouched, InFrames
    <2> QED
        BY <2>3, <2>4
<1>8. CASE Stop \/ UNCHANGED vars \/ \E d \in Mails : ReadMail(d)
    <2>1. UNCHANGED <<call, queue, msg, worker, decided, history, accepted, settled, durable, typed, snap, disk>>
        BY <1>8 DEF Stop, vars, ReadMail, ghosts, saves
    <2> QED
        BY <2>1, SameCalm, CalmUntouched DEF Untouched, Decided, InFrames, Numbered
<1> QED
    BY <1>1, <1>2, <1>3, <1>4, <1>5, <1>6, <1>7, <1>8, CallStepUntouched DEF Next, SaveStep

-------------------------------------------------------------------------------
\* Numbers

\* A call that has its number keeps it.
LEMMA SameIds ==
    ASSUME Typed, Saving, Ledger, [Next]_vars, NEW c \in Numbered
    PROVE  msg'[c].id = msg[c].id
<1>1. c \in Calls /\ msg \in [Calls -> Message]
    BY DEF Numbered, Typed, QueueTyped
<1>2. ASSUME NEW d \in Calls, CallStep(d) PROVE msg'[c].id = msg[c].id
    <2>1. CASE Fold(d)
        <3>1. PICK m \in ToSet(queue) \cap Mails : msg' = [msg EXCEPT ![m].frame = @ \cup {d}]
            BY <2>1, FoldFacts
        <3> QED
            BY <1>1, <3>1 DEF Message, Calls
    <2>2. CASE Push(d)
        <3>1. d # c
            BY <2>2 DEF Push, At, Numbered
        <3> QED
            BY <1>1, <2>2, <3>1 DEF Push
    <2>3. CASE NothingToFold(d) \/ RecordNotify(d)
        BY <2>3 DEF NothingToFold, RecordNotify
    <2> QED
        BY <1>2, <2>1, <2>2, <2>3 DEF CallStep
<1>3. ASSUME NEW d \in Calls, Cancel(d) PROVE msg'[c].id = msg[c].id
    BY <1>1, <1>3, CancelFacts, DroppedFades DEF Fades
<1>4. CASE WorkerStep
    BY <1>1, <1>4, WorkerFacts DEF Fades
<1>5. CASE WriteSnapshot \/ SaveFails
    BY <1>5, ReleasedFacts
<1>6. CASE SaveRows \/ \E p \in Calls \cup {"worker", "canceller"} : BeginSave(p)
    <2>1. msg' = msg
        BY <1>6 DEF SaveRows, BeginSave
    <2> QED
        BY <2>1
<1>7. CASE Exit
    BY <1>1, <1>7 DEF Exit, NoMessage
<1>8. CASE Restart
    BY <1>1, <1>8, RestartFacts DEF Ledger, Numbers, RowsNumbered, Kept
<1>9. CASE Stop \/ UNCHANGED vars \/ \E d \in Mails : ReadMail(d)
    <2>1. msg' = msg
        BY <1>9 DEF Stop, vars, ReadMail
    <2> QED
        BY <2>1
<1> QED
    BY <1>2, <1>3, <1>4, <1>5, <1>6, <1>7, <1>8, <1>9 DEF Next, SaveStep

\* Where the tombstones and the rows of the next state come from.
LEMMA RowsFlow ==
    ASSUME Typed, Saving, [Next]_vars
    PROVE  /\ \/ snap'.rows = snap.rows \/ snap'.rows = <<>>
              \/ /\ snap'.rows = [i \in DOMAIN queue |-> [m |-> queue[i], is |-> msg[queue[i]]]]
                 /\ UNCHANGED <<queue, msg, disk>>
           /\ \/ disk' = disk
              \/ disk'.rows = snap.rows /\ disk'.decided = decided
<1>1. CASE WriteSnapshot \/ SaveFails
    <2>1. snap' = NoSnap
          /\ (disk' = disk \/ disk' = [next |-> snap.next, rows |-> snap.rows, decided |-> decided])
        BY <1>1, ReleasedFacts
    <2> QED
        BY <2>1 DEF NoSnap
<1>2. CASE SaveRows
    BY <1>2 DEF SaveRows, Typed, FileTyped
<1>3. ASSUME NEW p \in Calls \cup {"worker", "canceller"}, BeginSave(p)
      PROVE  snap'.rows = <<>> /\ disk' = disk
    BY <1>3 DEF BeginSave
<1>4. CASE Exit
    BY <1>4 DEF Exit, NoSnap
<1>5. ASSUME NEW d \in Calls, CallStep(d) PROVE UNCHANGED <<snap, disk>>
    BY <1>5, FoldFacts DEF CallStep, NothingToFold, Push, RecordNotify, saves
<1>6. ASSUME NEW d \in Calls, Cancel(d) PROVE UNCHANGED <<snap, disk>>
    BY <1>6, CancelFacts
<1>7. CASE WorkerStep
    BY <1>7, WorkerFacts
<1>8. CASE Restart
    BY <1>8, RestartFacts
<1>9. CASE Stop \/ UNCHANGED vars \/ \E d \in Mails : ReadMail(d)
    BY <1>9 DEF Stop, vars, ReadMail, saves
<1> QED
    BY <1>1, <1>2, <1>3, <1>4, <1>5, <1>6, <1>7, <1>8, <1>9 DEF Next, SaveStep

LEMMA DecidedFlow ==
    ASSUME Typed, Saving, [Next]_vars, NEW c \in Calls, NEW i \in Ids, decided'[i] = c
    PROVE  \/ decided[i] = c /\ ~Restart
           \/ Cancel(c) /\ i = msg[c].id
           \/ WorkerStep /\ worker.at = "remember" /\ worker.m = c /\ i = msg[c].id
           \/ Restart /\ disk.decided[i] = c
<1>1. decided \in Tombstones
    BY DEF Typed, QueueTyped
<1>2. CASE Restart
    BY <1>2, RestartFacts
<1>3. CASE Exit
    BY <1>3, NobodyIsNoCall DEF Exit
<1>4. ASSUME NEW d \in Calls, Cancel(d)
      PROVE  (decided[i] = c /\ ~Restart) \/ (Cancel(c) /\ i = msg[c].id)
    <2>1. decided' = [decided EXCEPT ![msg[d].id] = d] /\ ~Restart
        BY <1>4, CancelFacts DEF Restart
    <2> QED
        BY <1>1, <1>4, <2>1 DEF Tombstones
<1>5. CASE WorkerStep
    <2>1. /\ ~Restart
          /\ \/ decided' = decided
             \/ worker.at = "remember" /\ decided' = [decided EXCEPT ![msg[worker.m].id] = worker.m]
        BY <1>5, WorkerRecords, WorkerFacts DEF Restart
    <2> QED
        BY <1>1, <1>5, <2>1 DEF Tombstones
<1>6. CASE WriteSnapshot \/ SaveFails
    BY <1>6, ReleasedFacts DEF Restart
<1>7. ASSUME NEW d \in Calls, CallStep(d) PROVE decided' = decided /\ ~Restart
    BY <1>7, FoldFacts DEF CallStep, NothingToFold, Push, RecordNotify, At, Restart
<1>8. CASE SaveRows \/ \E p \in Calls \cup {"worker", "canceller"} : BeginSave(p)
    <2>1. decided' = decided /\ up
        BY <1>8 DEF SaveRows, BeginSave
    <2> QED
        BY <2>1 DEF Restart
<1>9. CASE ~Restart /\ (Stop \/ UNCHANGED vars \/ \E d \in Mails : ReadMail(d))
    <2>1. decided' = decided
        BY <1>9 DEF Stop, vars, ReadMail
    <2> QED
        BY <1>9, <2>1
<1> QED
    BY <1>2, <1>3, <1>4, <1>5, <1>6, <1>7, <1>8, <1>9 DEF Next, SaveStep

LEMMA LedgerStep ==
    ASSUME Typed, Saving, Ledger, [Next]_vars
    PROVE  Ledger'
<1>1. Untouched'
    BY UntouchedStep DEF Ledger
<1>2. /\ Names(snap.rows) \subseteq Numbered /\ Names(disk.rows) \subseteq Numbered
      /\ ToSet(queue) \subseteq Numbered
    <2>1. ToSet(queue) \subseteq Calls /\ Names(snap.rows) \subseteq Calls /\ Names(disk.rows) \subseteq Calls
        <3>1. snap.rows \in Seq(Row) /\ disk.rows \in Seq(Row)
            BY DEF Typed, FileTyped
        <3>2. \A i \in DOMAIN snap.rows : snap.rows[i] \in Row
            BY <3>1
        <3>3. \A i \in DOMAIN disk.rows : disk.rows[i] \in Row
            BY <3>1
        <3> QED
            BY <3>2, <3>3 DEF Names, Row, Typed, QueueTyped
    <2> QED
        BY <2>1 DEF Typed, Fresh
<1>3. ASSUME NEW c \in Calls, Decided(c) PROVE c \in Numbered
    BY <1>3 DEF Ledger, Untouched
<1>4. ASSUME NEW i \in Ids, NEW c \in Calls, decided'[i] = c \/ disk'.decided[i] = c
      PROVE  msg'[c].id = i
    <2>1. c \in Numbered /\ msg[c].id = i
        <3>1. \/ decided[i] = c \/ disk.decided[i] = c
              \/ (c \in Live /\ msg[c].id = i)
            <4>1. CASE decided'[i] = c
                BY <4>1, DecidedFlow, CancelFacts DEF Live
            <4>2. CASE disk'.decided[i] = c
                BY <4>2, RowsFlow
            <4> QED
                BY <1>4, <4>1, <4>2
        <3> QED
            BY <1>2, <1>3, <3>1 DEF Decided, Ledger, Untouched, Numbers, Live
    <2> QED
        BY <2>1, SameIds
<1>5. RowsNumbered(snap.rows)' /\ RowsNumbered(disk.rows)'
    <2>1. ASSUME NEW rows \in {snap.rows, disk.rows}, NEW i \in DOMAIN rows
          PROVE  rows[i].is.id = msg'[rows[i].m].id
        <3>1. rows[i].m \in Numbered /\ rows[i].is.id = msg[rows[i].m].id
            BY <1>2 DEF Names, Ledger, Numbers, RowsNumbered
        <3> QED
            BY <3>1, SameIds
    <2>2. RowsNumbered(disk.rows)'
        BY <2>1, RowsFlow DEF RowsNumbered
    <2>3. RowsNumbered(snap.rows)'
        BY <2>1, RowsFlow DEF RowsNumbered
    <2> QED
        BY <2>2, <2>3
<1> QED
    BY <1>1, <1>4, <1>5 DEF Ledger, Numbers

LEMMA LedgerInit == Init => Ledger
<1> SUFFICES ASSUME Init PROVE Ledger
    OBVIOUS
<1>1. Live = {}
    BY NobodyIsNoCall DEF Init, Live, ToSet, Idle
<1>2. ~\E c \in Calls : Decided(c)
    BY NobodyIsNoCall DEF Init, Decided
<1>3. DOMAIN snap.rows = {} /\ DOMAIN disk.rows = {}
    BY DEF Init, NoSnap
<1>4. worker.m = Nobody /\ \A c \in Calls : msg[c].id = 0 /\ typed[c] = 0
    BY DEF Init, Idle, NoMessage
<1>5. Untouched
    BY <1>1, <1>2, <1>3, <1>4, NobodyIsNoCall DEF Init, Untouched, InFrames
<1>6. Numbers
    BY <1>2, <1>3 DEF Numbers, RowsNumbered, Decided
<1> QED
    BY <1>5, <1>6 DEF Ledger

LEMMA AlwaysLedger == Spec => [](Typed /\ Saving /\ Ledger)
<1>1. Ledger /\ (Typed /\ Saving) /\ [Next]_vars => Ledger'
    BY LedgerStep
<1> QED
    BY <1>1, LedgerInit, AlwaysTyped, PTL DEF Spec

-------------------------------------------------------------------------------
\* A decision is for good

After == {"remember", "decided_save", "receipts"}

DecidedOut ==
    /\ \A c \in Calls : (\E i \in Ids : decided[i] = c) => ~Queued(c)
    /\ worker.at \in After => ~Queued(worker.m)
    /\ \A c \in durable : ~Queued(c) /\ c \notin Names(snap.rows)
    /\ \A c \in durable : c \in Names(disk.rows) => disk.decided[msg[c].id] = c

LEMMA QueueFlow ==
    ASSUME Typed, Saving, [Next]_vars, NEW c \in ToSet(queue')
    PROVE  \/ c \in ToSet(queue)
           \/ c \in Calls \ Numbered /\ Push(c)
           \/ Restart /\ \E i \in Kept : disk.rows[i].m = c
<1>1. ASSUME NEW d \in Calls, Push(d) PROVE c \in ToSet(queue) \/ (c \in Calls \ Numbered /\ Push(c))
    <2>1. d \notin Numbered
        BY <1>1 DEF Push, At, Numbered
    <2>2. ToSet(queue') = ToSet(queue) \cup {d}
        BY <1>1, <2>1, AppendSet DEF Push, Typed, Fresh, QueueTyped
    <2> QED
        BY <1>1, <2>1, <2>2
<1>2. ASSUME NEW d \in Calls, Fold(d) \/ NothingToFold(d) \/ RecordNotify(d) PROVE queue' = queue
    BY <1>2, FoldFacts DEF NothingToFold, RecordNotify
<1>3. ASSUME NEW d \in Calls, Cancel(d) PROVE c \in ToSet(queue)
    BY <1>3, CancelFacts
<1>4. CASE WorkerStep
    BY <1>4, WorkerFacts
<1>5. CASE WriteSnapshot \/ SaveFails
    BY <1>5, ReleasedFacts
<1>6. CASE Exit
    BY <1>6 DEF Exit, ToSet
<1>7. CASE Restart
    BY <1>7, RestartFacts
<1>8. CASE SaveRows \/ Stop \/ UNCHANGED vars
           \/ (\E d \in Mails : ReadMail(d)) \/ \E p \in Calls \cup {"worker", "canceller"} : BeginSave(p)
    <2>1. queue' = queue
        BY <1>8 DEF SaveRows, Stop, vars, ReadMail, BeginSave
    <2> QED
        BY <2>1
<1> QED
    BY <1>1, <1>2, <1>3, <1>4, <1>5, <1>6, <1>7, <1>8 DEF Next, SaveStep, CallStep

\* A message whose attempt is over was taken out of the queue before.
LEMMA AfterFlow ==
    ASSUME Typed, Saving, [Next]_vars, worker'.at \in After
    PROVE  \/ worker.at \in After /\ worker'.m = worker.m /\ ~Restart
           \/ WorkerStep /\ worker'.m = worker.m /\ worker.m \in Calls /\ worker.m \notin ToSet(queue')
                /\ settled' = settled \cup {worker.m}
<1> DEFINE Goal == \/ worker.at \in After /\ worker'.m = worker.m /\ ~Restart
                   \/ WorkerStep /\ worker'.m = worker.m /\ worker.m \in Calls /\ worker.m \notin ToSet(queue')
                        /\ settled' = settled \cup {worker.m}
<1>0. WorkerTyped /\ Lists(queue, ToSet(queue))
    BY DEF Typed, QueueTyped
<1>1. ASSUME Restart \/ Exit PROVE FALSE
    BY <1>1, RestartFacts DEF Exit, Idle, After
<1>2. ASSUME worker' = worker PROVE Goal
    BY <1>1, <1>2
<1>3. ASSUME NEW d \in Calls, CallStep(d) PROVE Goal
    <2>1. worker' = worker \/ worker'.at = "loop"
        BY <1>3, FoldFacts DEF CallStep, NothingToFold, Push, RecordNotify, Idle
    <2> QED
        BY <1>2, <2>1 DEF After
<1>4. ASSUME NEW permanent, NEW refused, Hold(permanent, refused), worker.at \in {"picked", "framed"}, WorkerStep
      PROVE  Goal
    <2>1. \/ worker' = [worker EXCEPT !.at = "hold_save"]
          \/ /\ worker' = [worker EXCEPT !.at = "remember", !.ok = FALSE]
             /\ queue' = Without(worker.m) /\ settled' = settled \cup {worker.m}
        BY <1>4 DEF Hold, Goto
    <2>2. worker.m \in Calls
        BY <1>0, <1>4 DEF WorkerTyped, WorkerType
    <2>3. CASE worker' = [worker EXCEPT !.at = "hold_save"]
        BY <1>0, <2>3 DEF After, WorkerTyped, WorkerType
    <2>4. CASE /\ worker' = [worker EXCEPT !.at = "remember", !.ok = FALSE]
               /\ queue' = Without(worker.m) /\ settled' = settled \cup {worker.m}
        <3>1. worker'.m = worker.m
            BY <1>0, <2>4 DEF WorkerTyped, WorkerType
        <3>2. worker.m \notin ToSet(queue')
            BY <1>0, <2>4, WithoutSet
        <3> QED
            BY <1>4, <2>2, <2>4, <3>1, <3>2
    <2> QED
        BY <2>1, <2>3, <2>4
<1>5. ASSUME NEW confirmed \in BOOLEAN, Decide(confirmed), WorkerStep PROVE Goal
    <2>1. worker.m \in Calls
        BY <1>0, <1>5 DEF Decide, WorkerAt, WorkerTyped, WorkerType
    <2>2. worker'.m = worker.m
        BY <1>0, <1>5 DEF Decide, WorkerTyped, WorkerType
    <2>3. worker.m \notin ToSet(queue') /\ settled' = settled \cup {worker.m}
        BY <1>0, <1>5, WithoutSet DEF Decide
    <2> QED
        BY <1>5, <2>1, <2>2, <2>3
<1>6. ASSUME Pick \/ Stopped \/ Unregister \/ Frame \/ Type \/ TypingFails \/ RecordReceipts PROVE FALSE
    <2>1. CASE Pick \/ Stopped \/ Unregister \/ RecordReceipts
        BY <2>1 DEF Pick, Stopped, Unregister, RecordReceipts, Idle, After
    <2>2. CASE Frame \/ Type \/ TypingFails
        <3>1. \/ worker' = Idle("exit") \/ worker' = Idle("loop")
              \/ worker' = [worker EXCEPT !.at = "framed"] \/ worker' = [worker EXCEPT !.at = "typed_save"]
              \/ worker' = [worker EXCEPT !.at = "decide", !.ok = FALSE]
            BY <2>2 DEF Frame, Type, TypingFails, Goto
        <3> QED
            <4>1. CASE worker' = Idle("exit") \/ worker' = Idle("loop")
                BY <4>1 DEF Idle, After
            <4>2. CASE worker' = [worker EXCEPT !.at = "framed"] \/ worker' = [worker EXCEPT !.at = "typed_save"]
                BY <1>0, <4>2 DEF After, WorkerTyped, WorkerType
            <4>3. CASE worker' = [worker EXCEPT !.at = "decide", !.ok = FALSE]
                BY <1>0, <4>3 DEF After, WorkerTyped, WorkerType
            <4> QED
                BY <3>1, <4>1, <4>2, <4>3
    <2> QED
        BY <1>6, <2>1, <2>2
<1>7. ASSUME RememberRow PROVE Goal
    <2>1. worker.at \in After
        BY <1>7 DEF RememberRow, WorkerAt, After
    <2>2. worker'.m = worker.m
        BY <1>0, <1>7 DEF RememberRow, Goto, WorkerTyped, WorkerType
    <2> QED
        BY <1>1, <2>1, <2>2
<1>8. ASSUME WorkerStep PROVE Goal
    BY <1>4, <1>5, <1>6, <1>7, <1>8 DEF WorkerStep, Defer, Refuse, WorkerAt
<1>9. ASSUME WriteSnapshot \/ SaveFails PROVE Goal
    <2>1. worker.at \in After
        BY <1>9, ReleasedFacts DEF After
    <2>2. worker'.m = worker.m
        <3>1. worker'.m # Nobody
            <4>1. WorkerTyped'
                BY TypedStep DEF Typed, QueueTyped
            <4> QED
                BY <4>1 DEF WorkerTyped, After
        <3> QED
            BY <1>9, <3>1, ReleasedFacts
    <2> QED
        BY <1>1, <2>1, <2>2
<1>10. ASSUME NEW d \in Calls, Cancel(d) PROVE Goal
    BY <1>2, <1>10, CancelFacts
<1>11. ASSUME \/ SaveRows \/ Stop \/ UNCHANGED vars
              \/ (\E d \in Mails : ReadMail(d)) \/ \E p \in Calls \cup {"worker", "canceller"} : BeginSave(p)
       PROVE  Goal
    <2>1. worker' = worker
        BY <1>11 DEF SaveRows, Stop, vars, ReadMail, BeginSave
    <2> QED
        BY <1>2, <2>1
<1> QED
    BY <1>1, <1>3, <1>8, <1>9, <1>10, <1>11 DEF Next, SaveStep

LEMMA DurableFlow ==
    ASSUME Typed, Saving, [Next]_vars, NEW c \in durable', c \notin durable
    PROVE  /\ snap'.rows = <<>> /\ queue' = queue /\ msg' = msg /\ disk'.decided = decided
           /\ c \in Calls /\ \E i \in Ids : decided[i] = c
<1>1. CASE WriteSnapshot \/ SaveFails
    <2>1. /\ snap' = NoSnap /\ queue' = queue /\ msg' = msg
          /\ \/ /\ disk' = [next |-> snap.next, rows |-> snap.rows, decided |-> decided]
                /\ durable' = durable \cup {d \in Calls : \E i \in Ids : decided[i] = d}
             \/ durable' = durable
        BY <1>1, ReleasedFacts
    <2> QED
        BY <2>1 DEF NoSnap
<1>2. ASSUME ~(WriteSnapshot \/ SaveFails) PROVE durable' = durable
    <2>1. ASSUME NEW d \in Calls, CallStep(d) \/ Cancel(d) PROVE durable' = durable
        BY <2>1, FoldFacts, CancelFacts DEF CallStep, NothingToFold, Push, RecordNotify, ghosts
    <2>2. CASE WorkerStep
        BY <2>2, WorkerFacts
    <2>3. CASE Restart
        BY <2>3, RestartFacts
    <2>4. CASE SaveRows \/ Stop \/ Exit \/ UNCHANGED vars
           \/ (\E d \in Mails : ReadMail(d)) \/ \E p \in Calls \cup {"worker", "canceller"} : BeginSave(p)
        BY <2>4 DEF SaveRows, Stop, Exit, vars, ReadMail, BeginSave, ghosts
    <2> QED
        BY <1>2, <2>1, <2>2, <2>3, <2>4 DEF Next, SaveStep
<1> QED
    BY <1>1, <1>2

LEMMA DecidedOutStep ==
    ASSUME Typed, Saving, Ledger, DecidedOut, [Next]_vars
    PROVE  DecidedOut'
<1>1. ASSUME NEW c \in Calls, NEW i \in Ids, decided'[i] = c PROVE c \notin ToSet(queue')
    <2>1. CASE decided[i] = c /\ ~Restart
        <3>1. c \notin ToSet(queue) /\ c \in Numbered
            BY <2>1 DEF DecidedOut, Queued, Ledger, Untouched, Decided
        <3> QED
            BY <2>1, <3>1, QueueFlow
    <2>2. CASE Cancel(c)
        BY <2>2, CancelFacts
    <2>3. CASE WorkerStep /\ worker.at = "remember" /\ worker.m = c
        BY <2>3, WorkerFacts DEF DecidedOut, After, Queued
    <2>4. CASE Restart /\ disk.decided[i] = c
        <3>1. ASSUME NEW j \in Kept, disk.rows[j].m = c PROVE FALSE
            <4>1. msg[c].id = i /\ disk.rows[j].is.id = msg[c].id
                BY <2>4, <3>1 DEF Ledger, Numbers, RowsNumbered, Kept
            <4> QED
                BY <2>4, <3>1, <4>1 DEF Kept, Restored
        <3> QED
            BY <2>4, <3>1, RestartFacts
    <2> QED
        BY <1>1, <2>1, <2>2, <2>3, <2>4, DecidedFlow
<1>2. ASSUME worker'.at \in After PROVE worker'.m \notin ToSet(queue')
    <2>1. CASE worker.at \in After /\ worker'.m = worker.m /\ ~Restart
        <3>1. worker.m \notin ToSet(queue) /\ worker.m \notin Calls \ Numbered
            BY <2>1 DEF DecidedOut, Queued, Ledger, Untouched
        <3> QED
            BY <2>1, <3>1, QueueFlow
    <2> QED
        BY <1>2, <2>1, AfterFlow
<1>3. ASSUME NEW c \in durable'
      PROVE  /\ c \notin ToSet(queue') /\ c \notin Names(snap.rows)'
             /\ c \in Names(disk.rows)' => disk'.decided[msg'[c].id] = c
    <2>1. CASE c \in durable
        <3>1. c \in Calls /\ c \in Numbered /\ c \notin ToSet(queue) /\ c \notin Names(snap.rows)
            BY <2>1 DEF Typed, CallsTyped, DecidedOut, Queued, Ledger, Untouched
        <3>2. c \notin ToSet(queue')
            <4>1. ASSUME NEW j \in Kept, disk.rows[j].m = c PROVE FALSE
                <5>1. c \in Names(disk.rows) /\ disk.rows[j].is.id = msg[c].id
                    BY <4>1 DEF Names, Kept, Ledger, Numbers, RowsNumbered
                <5> QED
                    BY <2>1, <4>1, <5>1 DEF DecidedOut, Kept, Restored
            <4> QED
                BY <3>1, <4>1, QueueFlow
        <3>3. c \notin Names(snap.rows)'
            <4>1. c \notin {queue[i] : i \in DOMAIN queue}
                BY <3>1 DEF ToSet
            <4> QED
                BY <3>1, <4>1, RowsFlow DEF Names
        <3>4. c \in Names(disk.rows)' => disk'.decided[msg'[c].id] = c
            <4>1. msg'[c].id = msg[c].id
                BY <3>1, SameIds
            <4>2. disk' = disk \/ disk'.rows = snap.rows
                BY RowsFlow
            <4> QED
                BY <2>1, <3>1, <4>1, <4>2 DEF DecidedOut, Names
        <3> QED
            BY <3>2, <3>3, <3>4
    <2>2. CASE c \notin durable
        <3>1. /\ snap'.rows = <<>> /\ queue' = queue /\ msg' = msg /\ disk'.decided = decided
              /\ c \in Calls /\ \E i \in Ids : decided[i] = c
            BY <1>3, <2>2, DurableFlow
        <3>2. PICK i \in Ids : decided[i] = c
            BY <3>1
        <3>3. msg[c].id = i /\ c \notin ToSet(queue)
            BY <3>1, <3>2 DEF Ledger, Numbers, DecidedOut, Queued
        <3> QED
            BY <3>1, <3>2, <3>3 DEF Names
    <2> QED
        BY <2>1, <2>2
<1> QED
    BY <1>1, <1>2, <1>3 DEF DecidedOut, Queued

\* Once a tombstone is on the disk its message is out of the queue, whatever crashes, restarts
\* and saves come between, and though a later message may have the same number.
THEOREM SettledForGood == Spec => []SettledStaysOut
<1>1. Init => DecidedOut
    <2>1. ASSUME Init PROVE ~(worker.at \in After) /\ durable = {}
        BY <2>1 DEF Init, Idle, After
    <2>2. ASSUME Init, NEW c \in Calls, NEW i \in Ids PROVE decided[i] # c
        BY <2>2, NobodyIsNoCall DEF Init
    <2> QED
        BY <2>1, <2>2 DEF DecidedOut
<1>2. DecidedOut /\ (Typed /\ Saving /\ Ledger) /\ [Next]_vars => DecidedOut'
    BY DecidedOutStep
<1>3. DecidedOut => SettledStaysOut
    BY DEF DecidedOut, SettledStaysOut
<1> QED
    BY <1>1, <1>2, <1>3, AlwaysLedger, PTL DEF Spec

-------------------------------------------------------------------------------
\* Two messages never announce the same mail

DisjointRows(rows) == \A i, j \in DOMAIN rows : i # j => RowTold(rows[i]) \cap RowTold(rows[j]) = {}
Disjoint ==
    /\ \A m, n \in Live : m # n => Told(m) \cap Told(n) = {}
    /\ DisjointRows(snap.rows) /\ DisjointRows(disk.rows)

LEMMA CalmSteps ==
    ASSUME Typed, Saving, [Next]_vars, ~Restart, ~\E d \in Calls : Fold(d) \/ Push(d)
    PROVE  Calm
<1>1. CASE UNCHANGED <<queue, msg>> /\ worker'.m \in {worker.m, Nobody}
    BY <1>1, SameCalm
<1>2. ASSUME NEW d \in Calls, NothingToFold(d) \/ RecordNotify(d) PROVE Calm
    <2>1. UNCHANGED <<queue, msg, worker>>
        BY <1>2 DEF NothingToFold, RecordNotify
    <2> QED
        BY <1>1, <2>1
<1>3. ASSUME NEW d \in Calls, Cancel(d) PROVE Calm
    <2>1. Fades
        BY <1>3, CancelFacts, DroppedFades DEF Fades
    <2> QED
        BY <1>3, <2>1, CancelFacts DEF Calm
<1>4. CASE WorkerStep
    BY <1>4, WorkerFacts DEF Calm
<1>5. CASE WriteSnapshot \/ SaveFails
    BY <1>1, <1>5, ReleasedFacts
<1>6. CASE Exit
    <2>1. worker'.m = Nobody /\ ToSet(queue') = {}
        BY <1>6 DEF Exit, Idle, ToSet
    <2> QED
        BY <1>6, <2>1 DEF Calm, Exit, Fades, NoMessage, Typed, QueueTyped, Message
<1>7. CASE SaveRows \/ Stop \/ UNCHANGED vars
           \/ (\E d \in Mails : ReadMail(d)) \/ \E p \in Calls \cup {"worker", "canceller"} : BeginSave(p)
    <2>1. UNCHANGED <<queue, msg, worker>>
        BY <1>7 DEF SaveRows, Stop, vars, ReadMail, BeginSave
    <2> QED
        BY <1>1, <2>1
<1> QED
    BY <1>2, <1>3, <1>4, <1>5, <1>6, <1>7 DEF Next, SaveStep, CallStep

LEMMA PushFacts ==
    ASSUME Typed, NEW d \in Calls, Push(d)
    PROVE  /\ up /\ d \notin Numbered
           /\ ToSet(queue') = ToSet(queue) \cup {d}
           /\ msg' = [msg EXCEPT ![d] = [id |-> nextId, frame |-> {d} \cap Mails, holds |-> 0]]
           /\ \A n \in Calls \ {d} : msg'[n] = msg[n]
           /\ msg'[d] = [id |-> nextId, frame |-> {d} \cap Mails, holds |-> 0]
           /\ worker' = worker \/ (worker.at = "off" /\ worker' = Idle("loop"))
           /\ Live' \subseteq Live \cup {d}
           /\ UNCHANGED <<mail, canceller, decided, history, accepted, settled, durable, typed,
                          up, closed, exits, failures, snap, disk>>
<1>1. d \notin Numbered
    BY DEF Push, At, Numbered
<1>2. ToSet(queue') = ToSet(queue) \cup {d}
    BY <1>1, AppendSet DEF Push, Typed, Fresh, QueueTyped
<1>3. msg' = [msg EXCEPT ![d] = [id |-> nextId, frame |-> {d} \cap Mails, holds |-> 0]]
    BY DEF Push
<1>4. msg'[d] = [id |-> nextId, frame |-> {d} \cap Mails, holds |-> 0] /\ \A n \in Calls \ {d} : msg'[n] = msg[n]
    BY <1>3 DEF Typed, QueueTyped
<1>5. worker' = worker \/ (worker.at = "off" /\ worker' = Idle("loop"))
    BY DEF Push
<1>6. Live' \subseteq Live \cup {d}
    BY <1>2, <1>5, NobodyIsNoCall DEF Live, Idle
<1>7. up /\ UNCHANGED <<mail, canceller, decided, history, accepted, settled, durable, typed,
                        up, closed, exits, failures, snap, disk>>
    BY DEF Push, At, ghosts, life
<1> QED
    BY <1>1, <1>2, <1>3, <1>4, <1>5, <1>6, <1>7

LEMMA FoldFrames ==
    ASSUME Typed, NEW d \in Calls, Fold(d)
    PROVE  /\ Live' = Live /\ d \notin Numbered
           /\ \E m \in Live \cap Mails :
                 /\ msg'[m].frame = msg[m].frame \cup {d}
                 /\ \A n \in Calls \ {m} : msg'[n].frame = msg[n].frame
<1>1. PICK m \in ToSet(queue) \cap Mails : msg' = [msg EXCEPT ![m].frame = @ \cup {d}]
    BY FoldFacts
<1>2. m \in Live \cap Mails /\ m \in Calls
    BY DEF Live, Calls
<1>3. msg'[m].frame = msg[m].frame \cup {d} /\ \A n \in Calls \ {m} : msg'[n].frame = msg[n].frame
    BY <1>1, <1>2 DEF Typed, QueueTyped, Message
<1>4. Live' = Live /\ d \notin Numbered
    BY FoldFacts DEF Live, Numbered
<1> QED
    BY <1>2, <1>3, <1>4

LEMMA LiveCalls == ASSUME Typed PROVE Live \subseteq Calls
    BY DEF Live, Typed, QueueTyped

LEMMA FreshNotLive ==
    ASSUME Typed, Untouched, NEW d \in Calls \ Numbered
    PROVE  \A k \in Live : k \in Calls /\ k # d /\ d \notin Told(k)
    BY LiveCalls DEF Told, Untouched, Live, Typed, Fresh

LEMMA DisjointStep ==
    ASSUME Typed, Saving, Ledger, Disjoint, [Next]_vars
    PROVE  Disjoint'
<1>1. ASSUME NEW m \in Live', NEW n \in Live', m # n PROVE Told(m)' \cap Told(n)' = {}
    <2>1. CASE Calm
        BY <1>1, <2>1, CalmLive DEF Disjoint, Told
    <2>2. ASSUME NEW d \in Calls, Fold(d) PROVE Told(m)' \cap Told(n)' = {}
        <3>1. d \notin Told(m) /\ d \notin Told(n) /\ m \in Live /\ n \in Live /\ m \in Calls /\ n \in Calls
            BY <1>1, <2>2, FoldFrames, LiveCalls DEF Told, Ledger, Untouched, Live, Typed, Fresh
        <3>2. /\ Told(m)' = Told(m) \/ Told(m)' = Told(m) \cup {d}
              /\ Told(n)' = Told(n) \/ Told(n)' = Told(n) \cup {d}
              /\ Told(m)' = Told(m) \/ Told(n)' = Told(n)
            BY <1>1, <2>2, <3>1, FoldFrames DEF Told
        <3> QED
            BY <1>1, <3>1, <3>2 DEF Disjoint
    <2>3. ASSUME NEW d \in Calls, Push(d) PROVE Told(m)' \cap Told(n)' = {}
        <3>1. \A k \in Live : k \in Calls /\ k # d /\ d \notin Told(k)
            <4>1. d \notin Numbered
                BY <2>3, PushFacts
            <4> QED
                BY <2>3, <4>1, FreshNotLive DEF Ledger
        <3>2. Told(d)' = {d} /\ \A k \in Live : Told(k)' = Told(k)
            <4>1. msg'[d].frame = {d} \cap Mails /\ \A k \in Calls \ {d} : msg'[k] = msg[k]
                <5>1. msg'[d] = [id |-> nextId, frame |-> {d} \cap Mails, holds |-> 0]
                    BY <2>3, PushFacts
                <5>2. \A k \in Calls \ {d} : msg'[k] = msg[k]
                    BY <2>3, PushFacts
                <5> QED
                    BY <5>1, <5>2
            <4> QED
                BY <3>1, <4>1 DEF Told
        <3>3. Live' \subseteq Live \cup {d}
            BY <2>3, PushFacts
        <3> QED
            BY <1>1, <3>1, <3>2, <3>3 DEF Disjoint
    <2>4. CASE Restart
        <3>1. m \in ToSet(queue') /\ n \in ToSet(queue')
            BY <1>1, <2>4, RestartFacts, NobodyIsNoCall DEF Live
        <3>2. PICK i \in Kept, j \in Kept : disk.rows[i].m = m /\ disk.rows[j].m = n
            BY <2>4, <3>1, RestartFacts
        <3>3. Told(m)' = RowTold(disk.rows[i]) /\ Told(n)' = RowTold(disk.rows[j]) /\ i # j
            BY <1>1, <2>4, <3>2, RestartFacts DEF Told, RowTold
        <3> QED
            BY <3>3 DEF Disjoint, DisjointRows, Kept
    <2> QED
        BY <2>1, <2>2, <2>3, <2>4, CalmSteps
<1>2. DisjointRows([i \in DOMAIN queue |-> [m |-> queue[i], is |-> msg[queue[i]]]])
    <2>1. \A i, j \in DOMAIN queue : i # j => queue[i] # queue[j]
        BY DEF Typed, QueueTyped, Lists, IsInjective
    <2>2. \A i \in DOMAIN queue : queue[i] \in Live
        BY DEF Live, ToSet
    <2> QED
        BY <2>1, <2>2 DEF DisjointRows, RowTold, Told, Disjoint
<1>3. DisjointRows(snap.rows)'
    <2>1. CASE snap'.rows = snap.rows \/ snap'.rows = <<>>
        <3>1. CASE snap'.rows = snap.rows
            BY <3>1 DEF Disjoint, DisjointRows
        <3>2. CASE snap'.rows = <<>>
            BY <3>2 DEF DisjointRows
        <3> QED
            BY <2>1, <3>1, <3>2
    <2>2. CASE snap'.rows = [i \in DOMAIN queue |-> [m |-> queue[i], is |-> msg[queue[i]]]]
        BY <1>2, <2>2
    <2> QED
        BY <2>1, <2>2, RowsFlow
<1>4. DisjointRows(disk.rows)'
    BY RowsFlow DEF Disjoint, DisjointRows
<1> QED
    BY <1>1, <1>3, <1>4 DEF Disjoint

LEMMA AlwaysDisjoint == Spec => [](Typed /\ Saving /\ Ledger /\ Disjoint)
<1>1. Init => Disjoint
    <2> SUFFICES ASSUME Init PROVE Disjoint
        OBVIOUS
    <2>1. Live = {} /\ DOMAIN snap.rows = {} /\ DOMAIN disk.rows = {}
        BY NobodyIsNoCall DEF Init, Live, ToSet, Idle, NoSnap
    <2> QED
        BY <2>1 DEF Disjoint, DisjointRows
<1>2. Disjoint /\ (Typed /\ Saving /\ Ledger) /\ [Next]_vars => Disjoint'
    BY DisjointStep
<1> QED
    BY <1>1, <1>2, AlwaysLedger, PTL DEF Spec

-------------------------------------------------------------------------------
\* Typing

\* A message the worker may still type: not one it has typed and not yet taken out.
MayType(m) ==
    \/ m \in ToSet(queue) /\ ~(worker.m = m /\ worker.at \in {"typed_save", "decide"})
    \/ worker.m = m /\ worker.at \in {"picked", "framed"}

TypedBound ==
    /\ \A c \in Calls : typed[c] <= exits + 1 /\ (up \/ typed[c] <= exits)
    /\ \A m \in Calls : MayType(m) => \A c \in Told(m) : typed[c] <= exits

\* A step of the worker on what it has captured never makes a message typable again.
LEMMA WorkerMayType ==
    ASSUME Typed, WorkerStep, NEW m \in Calls, MayType(m)'
    PROVE  MayType(m) /\ (Type => m # worker.m)
<1>0. WorkerTyped /\ Lists(queue, ToSet(queue)) /\ m # Nobody
    BY NobodyIsNoCall DEF Typed, QueueTyped
<1>1. CASE Pick
    <2>1. queue' = queue /\ worker.at = "loop"
        BY <1>1 DEF Pick, WorkerAt
    <2>2. worker'.m = m => m \in ToSet(queue)
        <3>1. worker' = Idle("exit") \/ (queue # <<>> /\ worker' = [Idle("picked") EXCEPT !.m = Head(queue)])
            BY <1>1 DEF Pick
        <3>2. queue # <<>> => Head(queue) \in ToSet(queue)
            BY <1>0 DEF Lists, ToSet
        <3> QED
            BY <1>0, <3>1, <3>2 DEF Idle
    <2>3. m \in ToSet(queue)
        BY <2>1, <2>2 DEF MayType
    <2> QED
        BY <2>1, <2>3, <1>1 DEF MayType, Type, WorkerAt
<1>2. CASE Stopped \/ Unregister
    <2>1. queue' = queue /\ worker.at \in {"loop", "exit", "picked"} /\ worker'.m = Nobody
        BY <1>2 DEF Stopped, Unregister, WorkerAt, Idle
    <2> QED
        BY <1>0, <2>1, <1>2 DEF MayType, Type, WorkerAt
<1>3. CASE Frame
    <2>1. queue' = queue /\ worker.at = "picked"
        BY <1>3 DEF Frame, WorkerAt
    <2>2. worker'.m = worker.m \/ worker'.m = Nobody
        BY <1>0, <1>3 DEF Frame, Idle, WorkerTyped, WorkerType
    <2> QED
        BY <1>0, <2>1, <2>2, <1>3 DEF MayType, Type, WorkerAt
<1>4. ASSUME NEW permanent, NEW refused, Hold(permanent, refused), worker.at \in {"picked", "framed"}
      PROVE  MayType(m)
    <2>1. ToSet(queue') \subseteq ToSet(queue)
        BY WorkerFacts
    <2>2. worker'.m = worker.m
        <3>1. \/ worker' = [worker EXCEPT !.at = "remember", !.ok = FALSE]
              \/ worker' = [worker EXCEPT !.at = "hold_save"]
            BY <1>4 DEF Hold, Goto
        <3> QED
            BY <1>0, <3>1 DEF WorkerTyped, WorkerType
    <2> QED
        BY <1>4, <2>1, <2>2 DEF MayType
<1>5. CASE Type \/ TypingFails
    <2>1. queue' = queue /\ worker.at = "framed"
        BY <1>5 DEF Type, TypingFails, WorkerAt
    <2>2. worker'.m = worker.m /\ worker'.at \in {"typed_save", "decide"}
        BY <1>0, <1>5 DEF Type, TypingFails, Goto, WorkerTyped, WorkerType
    <2> QED
        BY <2>1, <2>2 DEF MayType
<1>6. ASSUME NEW confirmed \in BOOLEAN, Decide(confirmed) PROVE MayType(m)
    <2>1. ToSet(queue') = ToSet(queue) \ {worker.m}
        BY <1>0, <1>6, WithoutSet DEF Decide
    <2>2. worker'.m = worker.m /\ worker'.at = "remember"
        BY <1>0, <1>6 DEF Decide, WorkerTyped, WorkerType
    <2> QED
        BY <2>1, <2>2 DEF MayType
<1>7. CASE RememberRow \/ RecordReceipts
    <2>1. queue' = queue /\ worker.at \in {"remember", "receipts"}
        BY <1>7 DEF RememberRow, RecordReceipts, WorkerAt
    <2>2. worker'.at \in {"decided_save", "loop"}
        BY <1>0, <1>7 DEF RememberRow, RecordReceipts, Goto, Idle, WorkerTyped, WorkerType
    <2> QED
        BY <1>7, <2>1, <2>2 DEF MayType, Type, WorkerAt
<1>8. Type => worker.at = "framed"
    BY DEF Type, WorkerAt
<1> QED
    BY <1>1, <1>2, <1>3, <1>4, <1>5, <1>6, <1>7, <1>8 DEF WorkerStep, Defer, Refuse, WorkerAt

LEMMA TypedBoundStep ==
    ASSUME Typed, Saving, Ledger, Disjoint, TypedBound, [Next]_vars
    PROVE  TypedBound'
<1>0. typed \in [Calls -> Nat] /\ exits \in Nat /\ Live \subseteq Calls
    BY LiveCalls, OutboxAssumption DEF Typed, CallsTyped
\* A step that types nothing.
<1>1. ASSUME typed' = typed, exits' = exits, up' = up \/ up',
             \A m \in Calls : MayType(m)' => MayType(m) /\ Told(m)' \subseteq Told(m)
      PROVE  TypedBound'
    BY <1>1 DEF TypedBound
<1>2. ASSUME UNCHANGED <<queue, msg, worker, typed, up, exits>> PROVE TypedBound'
    BY <1>1, <1>2 DEF MayType, Told
<1>3. ASSUME NEW d \in Calls, Push(d) PROVE TypedBound'
    <2>1. d \in Calls \ Numbered /\ (worker' = worker \/ (worker.at = "off" /\ worker' = Idle("loop")))
        BY <1>3, PushFacts
    <2>2. /\ ToSet(queue') = ToSet(queue) \cup {d} /\ \A n \in Calls \ {d} : msg'[n] = msg[n]
          /\ typed' = typed /\ exits' = exits /\ up' = up
        BY <1>3, PushFacts
    <2>3. msg'[d] = [id |-> nextId, frame |-> {d} \cap Mails, holds |-> 0]
        BY <1>3, PushFacts
    <2>4. ASSUME NEW m \in Calls, MayType(m)', m # d
          PROVE  MayType(m) /\ Told(m)' = Told(m)
        <3>1. worker.at = "off" => worker.m = Nobody /\ m # Nobody
            BY NobodyIsNoCall DEF Typed, QueueTyped, WorkerTyped
        <3> QED
            BY <2>1, <2>2, <2>4, <3>1 DEF MayType, Told, Idle
    <2>5. typed[d] = 0 /\ Told(d)' = {d}
        BY <2>1, <2>3 DEF Ledger, Untouched, Told
    <2> QED
        BY <1>0, <2>2, <2>4, <2>5 DEF TypedBound
<1>4. ASSUME NEW d \in Calls, Fold(d) PROVE TypedBound'
    <2>1. UNCHANGED <<queue, worker, typed, up, exits>>
        BY <1>4, FoldFacts
    <2>2. d \in Calls \ Numbered
        BY <1>4, FoldFrames
    <2>3. \A m \in Calls : Told(m)' \subseteq Told(m) \cup {d}
        BY <1>4, FoldFrames DEF Told
    <2>4. typed[d] = 0
        BY <2>2 DEF Ledger, Untouched
    <2> QED
        BY <1>0, <2>1, <2>3, <2>4 DEF TypedBound, MayType
<1>5. ASSUME NEW d \in Calls, NothingToFold(d) \/ RecordNotify(d) PROVE TypedBound'
    <2>1. UNCHANGED <<queue, msg, worker, typed, up, exits>>
        BY <1>5 DEF NothingToFold, RecordNotify, ghosts, life
    <2> QED
        BY <1>2, <2>1
<1>6. ASSUME NEW d \in Calls, Cancel(d) PROVE TypedBound'
    <2>1. ToSet(queue') \subseteq ToSet(queue) /\ UNCHANGED <<worker, typed, up, exits>>
        BY <1>6, CancelFacts
    <2>2. Fades
        BY <1>6, CancelFacts, DroppedFades DEF Fades
    <2> QED
        BY <1>1, <2>1, <2>2 DEF MayType, Told, Fades
<1>7. CASE WorkerStep
    <2>1. \A m \in Calls : Told(m)' \subseteq Told(m)
        BY <1>7, WorkerFacts DEF Told, Fades
    <2>2. \A m \in Calls : MayType(m)' => MayType(m) /\ (Type => m # worker.m)
        BY <1>7, WorkerMayType
    <2>3. up /\ up' /\ exits' = exits
        BY <1>7, WorkerFacts
    <2>4. CASE typed' = typed
        BY <1>1, <2>1, <2>2, <2>3, <2>4
    <2>5. CASE /\ Type /\ worker.at = "framed" /\ worker.m \in Calls
               /\ typed' = [c \in Calls |-> IF c \in Told(worker.m) THEN typed[c] + 1 ELSE typed[c]]
        <3>1. \A c \in Told(worker.m) : typed[c] <= exits
            BY <2>5 DEF TypedBound, MayType
        <3>2. \A c \in Calls : typed'[c] <= exits' + 1
            BY <1>0, <2>3, <2>5, <3>1 DEF TypedBound
        <3>3. ASSUME NEW m \in Calls, MayType(m)', NEW c \in Told(m)' PROVE typed'[c] <= exits'
            <4>1. MayType(m) /\ m # worker.m /\ c \in Told(m)
                BY <2>1, <2>2, <2>5, <3>3
            <4>2. m \in Live /\ worker.m \in Live
                BY <2>5, <4>1 DEF MayType, Live
            <4>3. c \notin Told(worker.m) /\ c \in Calls /\ typed[c] <= exits
                <5>1. Told(m) \subseteq Calls
                    BY DEF Told, Typed, QueueTyped, Message, Calls
                <5> QED
                    BY <4>1, <4>2, <5>1 DEF Disjoint, TypedBound
            <4> QED
                BY <2>3, <2>5, <4>3
        <3> QED
            BY <2>3, <3>2, <3>3 DEF TypedBound
    <2> QED
        BY <1>7, <2>4, <2>5, WorkerRecords
<1>8. CASE WriteSnapshot \/ SaveFails
    <2>1. UNCHANGED <<up, exits, queue, msg, typed>> /\ worker'.m \in {worker.m, Nobody}
        BY <1>8, ReleasedFacts
    <2>2. \/ worker'.at = worker.at \/ worker'.at \in {"loop", "decide"}
          \/ worker.at = "decided_save" /\ worker'.at = "receipts"
        BY <1>8, ReleasedFacts
    <2>3. ASSUME NEW m \in Calls, MayType(m)' PROVE MayType(m)
        <3>1. worker' = worker \/ snap.by = "worker"
            BY <1>8 DEF WriteSnapshot, SaveFails, Saved, Released
        <3>2. snap.by = "worker" => worker.at \in {"typed_save", "hold_save", "decided_save"}
            BY <1>8, NobodyIsNoCall DEF WriteSnapshot, SaveFails, Saving, WantsSave
        <3>3. CASE worker' = worker
            BY <2>1, <2>3, <3>3 DEF MayType
        <3>4. CASE snap.by = "worker" /\ worker.at \in {"hold_save", "decided_save"}
            BY <2>1, <2>2, <2>3, <3>4 DEF MayType
        <3>5. CASE snap.by = "worker" /\ worker.at = "typed_save"
            <4>1. \E written \in BOOLEAN : worker' = [worker EXCEPT !.at = "decide", !.ok = written]
                BY <1>8, <3>5 DEF WriteSnapshot, SaveFails, Saved, Released
            <4>2. worker'.at = "decide" /\ worker'.m = worker.m
                BY <4>1 DEF Typed, QueueTyped, WorkerTyped, WorkerType
            <4> QED
                BY <2>1, <2>3, <4>2 DEF MayType
        <3> QED
            BY <3>1, <3>2, <3>3, <3>4, <3>5
    <2> QED
        BY <1>1, <2>1, <2>3 DEF Told
<1>9. CASE Exit
    <2>1. ToSet(queue') = {} /\ worker'.m = Nobody /\ exits' = exits + 1 /\ typed' = typed
        BY <1>9 DEF Exit, Idle, ToSet, ghosts
    <2>2. \A m \in Calls : ~(MayType(m)')
        BY <2>1, NobodyIsNoCall DEF MayType
    <2> QED
        BY <1>0, <2>1, <2>2 DEF TypedBound
<1>10. CASE Restart
    <2>1. ~up /\ up' /\ UNCHANGED <<typed, exits>>
        BY <1>10, RestartFacts
    <2>2. ASSUME NEW m \in Calls PROVE Told(m)' \subseteq Calls
        <3>1. Typed'
            BY TypedStep
        <3> QED
            BY <3>1 DEF Typed, QueueTyped, Message, Told, Calls
    <2> QED
        BY <2>1, <2>2, <1>0 DEF TypedBound
<1>11. CASE SaveRows \/ Stop \/ UNCHANGED vars
           \/ (\E d \in Mails : ReadMail(d)) \/ \E p \in Calls \cup {"worker", "canceller"} : BeginSave(p)
    <2>1. UNCHANGED <<queue, msg, worker, typed, up, exits>>
        BY <1>11 DEF SaveRows, Stop, vars, ReadMail, BeginSave, ghosts, life
    <2> QED
        BY <1>2, <2>1
<1> QED
    BY <1>3, <1>4, <1>5, <1>6, <1>7, <1>8, <1>9, <1>10, <1>11 DEF Next, SaveStep, CallStep

\* A text is typed at most once in each life of the process, and so is the notice of a mail,
\* whichever message it was folded into: what was typed is out of the queue before the worker
\* looks at the queue again, and only a restart can bring its row back.
THEOREM TypedAtMostOncePerLife == Spec => []TypedOncePerLife
<1>1. Init => TypedBound
    <2> SUFFICES ASSUME Init PROVE TypedBound
        OBVIOUS
    <2>1. ToSet(queue) = {} /\ worker.m = Nobody /\ up /\ exits = 0 /\ \A c \in Calls : typed[c] = 0
        BY DEF Init, Idle, ToSet
    <2> QED
        BY <2>1, NobodyIsNoCall DEF TypedBound, MayType
<1>2. TypedBound /\ (Typed /\ Saving /\ Ledger /\ Disjoint) /\ [Next]_vars => TypedBound'
    BY TypedBoundStep
<1>3. (Typed /\ Saving /\ Ledger /\ Disjoint) /\ TypedBound => TypedOncePerLife
    <2> SUFFICES ASSUME Typed, TypedBound PROVE TypedOncePerLife
        OBVIOUS
    <2>1. exits \in Nat /\ typed \in [Calls -> Nat]
        BY OutboxAssumption DEF Typed, CallsTyped
    <2> QED
        BY <2>1 DEF TypedBound, TypedOncePerLife
<1> QED
    BY <1>1, <1>2, <1>3, AlwaysDisjoint, PTL DEF Spec

-------------------------------------------------------------------------------
\* Receipts

\* A notice announces its own mail, and a mail whose notice was folded has none of its own.
Own(m, frame) == IF m \in Mails THEN m \in frame ELSE frame = {}
OwnRows(rows) == \A i \in DOMAIN rows : Own(rows[i].m, rows[i].is.frame)

\* The calls that were or may still be told that their message is queued.
Sent == accepted \cup {c \in Calls : call[c] = "save"}
Alone(m, frame) == \A c \in frame : c # m => c \notin Sent
AloneRows(rows) == \A i \in DOMAIN rows : Alone(rows[i].m, rows[i].is.frame)

Receipts ==
    /\ \A m \in Live : Own(m, msg[m].frame) /\ Alone(m, msg[m].frame)
    /\ OwnRows(snap.rows) /\ OwnRows(disk.rows)
    /\ AloneRows(snap.rows) /\ AloneRows(disk.rows)

\* What was decided left the queue for good.
AllSettled ==
    /\ history \subseteq settled
    /\ \A c \in Calls : Decided(c) => c \in settled
    /\ worker.at \in After => worker.m \in settled

Sound == Typed /\ Saving /\ Ledger /\ DecidedOut

LEMMA AlwaysSound == Spec => []Sound
<1>1. Init => DecidedOut
    <2>1. ASSUME Init PROVE ~(worker.at \in After) /\ durable = {}
        BY <2>1 DEF Init, Idle, After
    <2>2. ASSUME Init, NEW c \in Calls, NEW i \in Ids PROVE decided[i] # c
        BY <2>2, NobodyIsNoCall DEF Init
    <2> QED
        BY <2>1, <2>2 DEF DecidedOut
<1>2. DecidedOut /\ (Typed /\ Saving /\ Ledger) /\ [Next]_vars => DecidedOut'
    BY DecidedOutStep
<1> QED
    BY <1>1, <1>2, AlwaysLedger, PTL DEF Spec, Sound

LEMMA SentFlow ==
    ASSUME Typed, Saving, [Next]_vars, NEW c \in Sent'
    PROVE  c \in Calls /\ (c \in Sent \/ (Push(c) /\ call'[c] = "save"))
<1>0. call \in [Calls -> CallStages] /\ Sent \subseteq Calls
    BY DEF Typed, CallsTyped, Sent
<1>9. c \in Calls
    BY TypedStep DEF Typed, CallsTyped, Sent
<1>1. ASSUME call' = call, accepted' = accepted PROVE c \in Sent
    BY <1>1 DEF Sent
<1>2. ASSUME NEW d \in Calls, CallStep(d) PROVE c \in Sent \/ (Push(c) /\ call'[c] = "save")
    <2>1. CASE Push(d)
        <3>1. accepted' = accepted /\ \A n \in Calls \ {d} : call'[n] = call[n]
            BY <1>0, <2>1 DEF Push, ghosts
        <3> QED
            BY <2>1, <3>1 DEF Sent
    <2>2. CASE Fold(d) \/ NothingToFold(d) \/ RecordNotify(d)
        <3>1. accepted' = accepted /\ \E stage \in {"note_queued", "alone", "done"} : call' = [call EXCEPT ![d] = stage]
            BY <2>2, FoldFacts DEF NothingToFold, RecordNotify, ghosts
        <3> QED
            BY <1>0, <3>1 DEF Sent
    <2> QED
        BY <1>2, <2>1, <2>2 DEF CallStep
<1>3. ASSUME NEW d \in Calls, Cancel(d) PROVE c \in Sent
    BY <1>1, <1>3, CancelFacts
<1>4. CASE WorkerStep
    BY <1>1, <1>9, <1>4, WorkerFacts
<1>5. CASE WriteSnapshot \/ SaveFails
    <2>1. \/ call' = call /\ accepted' = accepted
          \/ /\ snap.by \in Calls /\ call[snap.by] = "save" /\ accepted' \subseteq accepted \cup {snap.by}
             /\ \E stage \in {"done", "note_sent", "note_queued", "note_failed"} : call' = [call EXCEPT ![snap.by] = stage]
        BY <1>5, ReleasedFacts DEF Result
    <2> QED
        BY <1>0, <1>9, <2>1 DEF Sent
<1>6. CASE Exit
    BY <1>0, <1>9, <1>6 DEF Exit, Sent, ghosts
<1>7. CASE Restart
    BY <1>1, <1>9, <1>7, RestartFacts
<1>8. CASE SaveRows \/ Stop \/ UNCHANGED vars
           \/ (\E d \in Mails : ReadMail(d)) \/ \E p \in Calls \cup {"worker", "canceller"} : BeginSave(p)
    <2>1. UNCHANGED <<call, accepted>>
        BY <1>8 DEF SaveRows, Stop, vars, ReadMail, BeginSave, ghosts
    <2> QED
        BY <1>1, <1>9, <2>1
<1> QED
    BY <1>2, <1>3, <1>4, <1>5, <1>6, <1>7, <1>8, <1>9 DEF Next, SaveStep

\* A message that is still worked on keeps its receipts; a notice may get one more.
LEMMA LiveFrames ==
    ASSUME Sound, [Next]_vars, ~Restart, ~\E d \in Calls : Fold(d) \/ Push(d), NEW m \in Live'
    PROVE  m \in Live /\ msg'[m].frame = msg[m].frame
<1> USE DEF Sound
<1>0. m \in Live /\ m \in Calls /\ msg \in [Calls -> Message]
    BY CalmSteps, CalmLive DEF Typed, QueueTyped
<1>1. ASSUME NEW d \in Calls, Cancel(d) PROVE msg'[m].frame = msg[m].frame
    <2>1. msg' = msg \/ (worker.m # d /\ msg' = Dropped(d))
        BY <1>1, CancelFacts
    <2>2. d \notin ToSet(queue') /\ worker' = worker
        BY <1>1, CancelFacts
    <2>3. worker.m # d => m # d
        BY <2>2 DEF Live
    <2> QED
        BY <1>0, <2>1, <2>3 DEF Dropped
<1>2. CASE WorkerStep
    <2>1. CASE RecordReceipts
        <3>1. queue' = queue /\ worker'.m = Nobody /\ msg' = Dropped(worker.m) /\ worker.at \in After
            BY <2>1 DEF RecordReceipts, Idle, WorkerAt, After
        <3>2. m # worker.m
            BY <3>1, NobodyIsNoCall DEF Live, DecidedOut, Queued
        <3> QED
            BY <1>0, <3>1, <3>2 DEF Dropped
    <2>2. ASSUME NEW permanent, NEW refused, Hold(permanent, refused) PROVE msg'[m].frame = msg[m].frame
        BY <1>0, <2>2 DEF Hold, Message
    <2>3. CASE Pick \/ Stopped \/ Unregister \/ Frame \/ Type \/ TypingFails \/ RememberRow
               \/ \E confirmed \in BOOLEAN : Decide(confirmed)
        <3>1. msg' = msg
            BY <2>3 DEF Pick, Stopped, Unregister, Frame, Type, TypingFails, RememberRow, Decide
        <3> QED
            BY <1>0, <3>1
    <2> QED
        BY <1>0, <1>2, <2>1, <2>2, <2>3 DEF WorkerStep, Defer, Refuse
<1>3. CASE WriteSnapshot \/ SaveFails
    BY <1>0, <1>3, ReleasedFacts
<1>4. CASE Exit
    <2>1. Live' = {}
        BY <1>4, NobodyIsNoCall DEF Exit, Idle, ToSet, Live
    <2> QED
        BY <2>1
<1>5. ASSUME NEW d \in Calls, NothingToFold(d) \/ RecordNotify(d) PROVE msg'[m].frame = msg[m].frame
    BY <1>5 DEF NothingToFold, RecordNotify
<1>6. CASE SaveRows \/ Stop \/ UNCHANGED vars
           \/ (\E d \in Mails : ReadMail(d)) \/ \E p \in Calls \cup {"worker", "canceller"} : BeginSave(p)
    <2>1. msg' = msg
        BY <1>6 DEF SaveRows, Stop, vars, ReadMail, BeginSave
    <2> QED
        BY <1>0, <2>1
<1> QED
    BY <1>0, <1>1, <1>2, <1>3, <1>4, <1>5, <1>6 DEF Next, SaveStep, CallStep

LEMMA ReceiptsStep ==
    ASSUME Sound, Receipts, [Next]_vars
    PROVE  Receipts'
<1> USE DEF Sound
<1>0. Untouched /\ Live \subseteq Calls
    BY LiveCalls DEF Ledger
\* Nothing that was announced becomes a message of its own.
<1>1. ASSUME NEW c \in Sent', c \notin Sent PROVE c \in Calls \ Numbered
    BY <1>1, SentFlow, PushFacts
<1>2. ASSUME NEW m \in Live, NEW frame \in SUBSET msg[m].frame, Alone(m, frame) PROVE Alone(m, frame)'
    BY <1>0, <1>1, <1>2 DEF Alone, Untouched
<1>3. ASSUME NEW m \in Live' PROVE Own(m, msg[m].frame)' /\ Alone(m, msg[m].frame)'
    <2>1. CASE ~Restart /\ ~\E d \in Calls : Fold(d) \/ Push(d)
        BY <1>2, <1>3, <2>1, LiveFrames DEF Receipts, Own, Alone
    <2>2. ASSUME NEW d \in Calls, Fold(d) PROVE Own(m, msg[m].frame)' /\ Alone(m, msg[m].frame)'
        <3>1. Live' = Live /\ d \in Calls \ Numbered
            BY <2>2, FoldFrames
        <3>2. PICK k \in Live \cap Mails : /\ msg'[k].frame = msg[k].frame \cup {d}
                                           /\ \A n \in Calls \ {k} : msg'[n].frame = msg[n].frame
            BY <2>2, FoldFrames
        <3>3. d \notin Sent'
            <4>1. call'[d] = "note_queued" /\ accepted' = accepted
                BY <2>2, FoldFacts DEF Typed, CallsTyped
            <4> QED
                BY <1>0, <3>1, <4>1 DEF Sent, Untouched
        <3>4. m \in Live /\ m \in Calls /\ Own(m, msg[m].frame)
              /\ \A c \in msg[m].frame : c # m => c \notin Sent'
            BY <1>0, <1>2, <1>3, <3>1 DEF Receipts, Alone
        <3>5. CASE m = k
            BY <3>2, <3>3, <3>4, <3>5 DEF Own, Alone
        <3>6. CASE m # k
            BY <3>2, <3>4, <3>6 DEF Own, Alone
        <3> QED
            BY <3>5, <3>6
    <2>3. ASSUME NEW d \in Calls, Push(d) PROVE Own(m, msg[m].frame)' /\ Alone(m, msg[m].frame)'
        <3>1. msg'[d] = [id |-> nextId, frame |-> {d} \cap Mails, holds |-> 0]
            BY <2>3, PushFacts
        <3>2. m = d \/ (m \in Live /\ msg'[m] = msg[m])
            BY <1>0, <1>3, <2>3, PushFacts
        <3>3. CASE m = d
            BY <3>1, <3>3, OutboxAssumption DEF Own, Alone, Calls
        <3>4. CASE m \in Live /\ msg'[m] = msg[m]
            BY <1>2, <3>4 DEF Receipts, Own, Alone
        <3> QED
            BY <3>2, <3>3, <3>4
    <2>4. CASE Restart
        <3>1. m \in ToSet(queue')
            BY <1>3, <2>4, RestartFacts, NobodyIsNoCall DEF Live
        <3>2. PICK i \in Kept : disk.rows[i].m = m
            BY <2>4, <3>1, RestartFacts
        <3>3. msg'[m] = disk.rows[i].is /\ Sent' = Sent /\ i \in DOMAIN disk.rows
            BY <2>4, <3>2, RestartFacts DEF Sent, Kept
        <3> QED
            BY <3>2, <3>3 DEF Receipts, OwnRows, AloneRows, Own, Alone
    <2> QED
        BY <2>1, <2>2, <2>3, <2>4
<1> DEFINE old == [i \in DOMAIN queue |-> [m |-> queue[i], is |-> msg[queue[i]]]]
<1>4. ASSUME NEW rows \in {snap.rows, disk.rows} PROVE AloneRows(rows) => \A i \in DOMAIN rows : Alone(rows[i].m, rows[i].is.frame)'
    BY <1>0, <1>1 DEF AloneRows, Alone, Untouched, InFrames
<1>5. OwnRows(old) /\ \A i \in DOMAIN old, c \in Calls :
                        c \in old[i].is.frame /\ c # old[i].m => c \notin Sent'
    <2>1. \A i \in DOMAIN queue : queue[i] \in Live
        BY DEF Live, ToSet
    <2>2. \A m \in Live : Own(m, msg[m].frame) /\ \A c \in msg[m].frame : c # m => c \notin Sent'
        BY <1>0, <1>1 DEF Receipts, Alone, Untouched
    <2> QED
        BY <2>1, <2>2 DEF OwnRows, Alone
<1> HIDE DEF old
<1>6. snap'.rows = snap.rows \/ snap'.rows = <<>> \/ snap'.rows = old
    BY RowsFlow DEF old
<1>7. disk'.rows = disk.rows \/ disk'.rows = snap.rows
    BY RowsFlow
<1>8. OwnRows(disk.rows)' /\ AloneRows(disk.rows)'
    BY <1>4, <1>7 DEF Receipts, OwnRows, AloneRows, Alone
<1>9. OwnRows(snap.rows)' /\ AloneRows(snap.rows)'
    <2>1. CASE snap'.rows = snap.rows
        BY <1>4, <2>1 DEF Receipts, OwnRows, AloneRows, Alone
    <2>2. CASE snap'.rows = <<>>
        BY <2>2 DEF OwnRows, AloneRows
    <2>3. CASE snap'.rows = old
        <3>1. Sent' \subseteq Calls
            BY TypedStep DEF Typed, CallsTyped, Sent
        <3> QED
            BY <1>5, <2>3, <3>1 DEF OwnRows, AloneRows, Alone
    <2> QED
        BY <1>6, <2>1, <2>2, <2>3
<1> QED
    BY <1>3, <1>8, <1>9 DEF Receipts

LEMMA SettledFlow ==
    ASSUME Typed, Saving, [Next]_vars
    PROVE  settled \subseteq settled'
<1>1. ASSUME NEW d \in Calls, CallStep(d) \/ Cancel(d) PROVE settled \subseteq settled'
    BY <1>1, FoldFacts, CancelFacts DEF CallStep, NothingToFold, Push, RecordNotify, ghosts
<1>2. CASE WorkerStep
    BY <1>2, WorkerRecords
<1>3. CASE WriteSnapshot \/ SaveFails
    BY <1>3, ReleasedFacts
<1>4. CASE Restart
    BY <1>4, RestartFacts
<1>5. CASE SaveRows \/ Stop \/ Exit \/ UNCHANGED vars
           \/ (\E d \in Mails : ReadMail(d)) \/ \E p \in Calls \cup {"worker", "canceller"} : BeginSave(p)
    BY <1>5 DEF SaveRows, Stop, Exit, vars, ReadMail, BeginSave, ghosts
<1> QED
    BY <1>1, <1>2, <1>3, <1>4, <1>5 DEF Next, SaveStep

LEMMA HistoryFlow ==
    ASSUME Typed, Saving, [Next]_vars, NEW c \in history', c \notin history
    PROVE  c \in settled' \/ (worker.at \in After /\ c = worker.m)
<1>1. ASSUME NEW d \in Calls, CallStep(d) PROVE history' = history
    BY <1>1, FoldFacts DEF CallStep, NothingToFold, Push, RecordNotify
<1>2. ASSUME NEW d \in Calls, Cancel(d) PROVE c \in settled'
    BY <1>2, CancelFacts
<1>3. CASE WorkerStep
    BY <1>3, WorkerRecords DEF After
<1>4. CASE WriteSnapshot \/ SaveFails
    BY <1>4, ReleasedFacts
<1>5. CASE Restart
    BY <1>5, RestartFacts
<1>6. CASE SaveRows \/ Stop \/ Exit \/ UNCHANGED vars
           \/ (\E d \in Mails : ReadMail(d)) \/ \E p \in Calls \cup {"worker", "canceller"} : BeginSave(p)
    BY <1>6 DEF SaveRows, Stop, Exit, vars, ReadMail, BeginSave
<1> QED
    BY <1>1, <1>2, <1>3, <1>4, <1>5, <1>6 DEF Next, SaveStep

LEMMA AllSettledStep ==
    ASSUME Sound, AllSettled, [Next]_vars
    PROVE  AllSettled'
<1> USE DEF Sound
<1>1. history' \subseteq settled'
    BY HistoryFlow, SettledFlow DEF AllSettled
<1>2. ASSUME NEW c \in Calls, Decided(c)' PROVE c \in settled'
    <2>1. PICK i \in Ids : decided'[i] = c \/ disk'.decided[i] = c
        BY <1>2 DEF Decided
    <2>2. \/ decided[i] = c \/ disk.decided[i] = c \/ Cancel(c)
          \/ worker.at = "remember" /\ worker.m = c
        BY <2>1, DecidedFlow, RowsFlow
    <2>3. Cancel(c) => c \in settled'
        BY CancelFacts
    <2> QED
        BY <2>2, <2>3, SettledFlow DEF AllSettled, Decided, After
<1>3. ASSUME worker'.at \in After PROVE worker'.m \in settled'
    BY <1>3, AfterFlow, SettledFlow DEF AllSettled
<1> QED
    BY <1>1, <1>2, <1>3 DEF AllSettled

-------------------------------------------------------------------------------
\* Nothing is lost

\* A call that will be told its message is queued has a number, and is not told twice.
SentNumbered ==
    /\ \A c \in Sent : msg[c].id # 0
    /\ \A c \in accepted : call[c] # "save"

\* The messages the outbox answers for.
Owed == {c \in Sent \ settled : ~Reused(c)}

Kinds == {"sent", "failed"}
Notes == {"note_sent", "note_failed"}

Promise ==
    /\ \A c \in Owed : up => c \in ToSet(queue)
    /\ ~up => \A c \in Calls : call[c] # "save"
    /\ \A c \in Owed \cap accepted : c \in Names(disk.rows)
    /\ snap.at = "decided" => \A c \in Owed : (c \in accepted \/ snap.by = c) => c \in Names(snap.rows)
    /\ \A c \in Owed \cap Mails : mail[c].notify \notin Kinds /\ call[c] \notin Notes
    /\ \A c \in Mails \ Numbered : mail[c].notify \notin Kinds

\* What a step may do to a call.
LEMMA CallFlow ==
    ASSUME Typed, Saving, [Next]_vars, NEW c \in Calls
    PROVE  \/ call'[c] = call[c]
           \/ call[c] \in {"new", "alone"} /\ call'[c] \in {"alone", "note_queued"}
           \/ Push(c) /\ call'[c] \in {"save", "note_failed", "done"}
           \/ RecordNotify(c) /\ call'[c] = "done"
           \/ /\ snap.by = c /\ call[c] = "save"
              /\ \/ accepted' = accepted \cup {c} /\ call'[c] = Result(c)
                 \/ accepted' = accepted /\ call'[c] \in {"note_failed", "done"}
           \/ Exit /\ call[c] # "new" /\ call'[c] = "gone"
<1> DEFINE Goal == \/ call'[c] = call[c]
                   \/ call[c] \in {"new", "alone"} /\ call'[c] \in {"alone", "note_queued"}
                   \/ Push(c) /\ call'[c] \in {"save", "note_failed", "done"}
                   \/ RecordNotify(c) /\ call'[c] = "done"
                   \/ /\ snap.by = c /\ call[c] = "save"
                      /\ \/ accepted' = accepted \cup {c} /\ call'[c] = Result(c)
                         \/ accepted' = accepted /\ call'[c] \in {"note_failed", "done"}
                   \/ Exit /\ call[c] # "new" /\ call'[c] = "gone"
<1>0. call \in [Calls -> CallStages]
    BY DEF Typed, CallsTyped
<1>1. ASSUME NEW d \in Calls, CallStep(d) PROVE Goal
    <2>1. CASE Push(d)
        <3>1. \E stage \in {"save", "note_failed", "done"} : call' = [call EXCEPT ![d] = stage]
            BY <2>1 DEF Push
        <3> QED
            BY <1>0, <2>1, <3>1
    <2>2. CASE Fold(d) \/ NothingToFold(d)
        <3>1. call[d] = "new" /\ \E stage \in {"alone", "note_queued"} : call' = [call EXCEPT ![d] = stage]
            BY <2>2, FoldFacts DEF NothingToFold, At
        <3> QED
            BY <1>0, <3>1
    <2>3. CASE RecordNotify(d)
        <3>1. call' = [call EXCEPT ![d] = "done"]
            BY <2>3 DEF RecordNotify
        <3> QED
            BY <1>0, <2>3, <3>1
    <2> QED
        BY <1>1, <2>1, <2>2, <2>3 DEF CallStep
<1>2. CASE WriteSnapshot \/ SaveFails
    <2>1. CASE call' = call
        BY <2>1
    <2>2. CASE /\ snap.by \in Calls /\ call[snap.by] = "save"
               /\ call' = [call EXCEPT ![snap.by] = Result(snap.by)] /\ accepted' = accepted \cup {snap.by}
        BY <1>0, <2>2
    <2>3. CASE /\ snap.by \in Calls /\ call[snap.by] = "save"
               /\ call' = [call EXCEPT ![snap.by] = IF snap.by \in Mails THEN "note_failed" ELSE "done"]
               /\ accepted' = accepted
        BY <1>0, <2>3
    <2> QED
        BY <1>2, <2>1, <2>2, <2>3, ReleasedFacts
<1>3. CASE Exit
    BY <1>0, <1>3 DEF Exit
<1>4. ASSUME NEW d \in Calls, Cancel(d) PROVE call' = call
    BY <1>4, CancelFacts
<1>5. ASSUME WorkerStep \/ Restart PROVE call' = call
    BY <1>5, WorkerFacts, RestartFacts
<1>6. ASSUME \/ SaveRows \/ Stop \/ UNCHANGED vars
             \/ (\E d \in Mails : ReadMail(d)) \/ \E p \in Calls \cup {"worker", "canceller"} : BeginSave(p)
      PROVE  call' = call
    BY <1>6 DEF SaveRows, Stop, vars, ReadMail, BeginSave
<1> QED
    BY <1>1, <1>2, <1>3, <1>4, <1>5, <1>6 DEF Next, SaveStep

LEMMA AcceptedFlow ==
    ASSUME Typed, Saving, [Next]_vars
    PROVE  accepted' = accepted \/ WriteSnapshot \/ SaveFails
<1>1. ASSUME NEW d \in Calls, CallStep(d) \/ Cancel(d) PROVE accepted' = accepted
    BY <1>1, FoldFacts, CancelFacts DEF CallStep, NothingToFold, Push, RecordNotify, ghosts
<1>2. ASSUME WorkerStep \/ Restart PROVE accepted' = accepted
    BY <1>2, WorkerFacts, RestartFacts
<1>3. ASSUME \/ SaveRows \/ Stop \/ Exit \/ UNCHANGED vars
             \/ (\E d \in Mails : ReadMail(d)) \/ \E p \in Calls \cup {"worker", "canceller"} : BeginSave(p)
      PROVE  accepted' = accepted
    BY <1>3 DEF SaveRows, Stop, Exit, vars, ReadMail, BeginSave, ghosts
<1> QED
    BY <1>1, <1>2, <1>3 DEF Next, SaveStep

LEMMA SentNumberedStep ==
    ASSUME Sound, SentNumbered, [Next]_vars
    PROVE  SentNumbered'
<1> USE DEF Sound
<1>1. ASSUME NEW c \in Sent' PROVE msg'[c].id # 0
    <2>1. CASE c \in Sent
        <3>1. c \in Numbered
            BY <2>1 DEF Sent, Numbered, Ledger, Untouched, Typed, CallsTyped
        <3> QED
            BY <2>1, <3>1, SameIds DEF SentNumbered
    <2>2. CASE c \in Calls /\ Push(c)
        <3>1. msg'[c] = [id |-> nextId, frame |-> {c} \cap Mails, holds |-> 0]
            BY <2>2, PushFacts
        <3> QED
            BY <3>1 DEF Typed, NumbersBounded
    <2> QED
        BY <1>1, <2>1, <2>2, SentFlow
<1>2. ASSUME NEW c \in accepted', call'[c] = "save" PROVE FALSE
    <2>1. c \in Calls /\ c \in Sent'
        BY <1>2, TypedStep DEF Typed, CallsTyped, Sent
    <2>2. ASSUME accepted' = accepted PROVE FALSE
        <3>1. call[c] # "save" /\ c \in Numbered
            BY <1>2, <2>1, <2>2 DEF SentNumbered, Ledger, Untouched
        <3>2. ~Push(c)
            BY <2>1, <3>1, PushFacts
        <3>3. Result(c) # "save"
            BY DEF Result
        <3> QED
            BY <1>2, <2>1, <3>1, <3>2, <3>3, CallFlow
    <2>3. CASE WriteSnapshot \/ SaveFails
        <3>1. \/ accepted' = accepted
              \/ accepted' = accepted \cup {snap.by} /\ call' = [call EXCEPT ![snap.by] = Result(snap.by)]
            BY <2>3, ReleasedFacts
        <3>2. CASE accepted' = accepted \cup {snap.by} /\ call' = [call EXCEPT ![snap.by] = Result(snap.by)]
            BY <1>2, <2>1, <3>2 DEF SentNumbered, Typed, CallsTyped, Result
        <3> QED
            BY <2>2, <3>1, <3>2
    <2> QED
        BY <2>2, <2>3, AcceptedFlow
<1> QED
    BY <1>1, <1>2 DEF SentNumbered

LEMMA OwedFlow ==
    ASSUME Sound, SentNumbered, [Next]_vars, NEW c \in Owed'
    PROVE  c \in Calls /\ (c \in Owed \/ (Push(c) /\ c \notin Sent /\ call'[c] = "save"))
<1> USE DEF Sound
<1>1. c \in Sent' /\ c \notin settled' /\ ~Reused(c)'
    BY DEF Owed
<1>2. c \in Calls /\ (c \in Sent \/ (Push(c) /\ call'[c] = "save"))
    BY <1>1, SentFlow
<1>3. ASSUME c \in Sent PROVE c \in Owed
    <2>1. c \notin settled
        BY <1>1, SettledFlow
    <2>2. ASSUME Reused(c) PROVE FALSE
        <3>1. PICK d \in Calls \ {c} : msg[c].id = msg[d].id
            BY <2>2 DEF Reused, SameNumber
        <3>2. c \in Numbered /\ d \in Numbered
            BY <1>2, <1>3, <3>1 DEF SentNumbered, Ledger, Untouched
        <3>3. msg'[c].id = msg'[d].id
            BY <3>1, <3>2, SameIds
        <3> QED
            BY <1>1, <3>1, <3>3 DEF Reused, SameNumber
    <2> QED
        BY <1>3, <2>1, <2>2 DEF Owed
<1> QED
    BY <1>2, <1>3

\* A row of the file that the outbox answers for comes back.
LEMMA RowRestored ==
    ASSUME Sound, Receipts, AllSettled, SentNumbered, Promise, NEW i \in DOMAIN disk.rows, disk.rows[i].m \in Owed
    PROVE  i \in Kept
<1> DEFINE row == disk.rows[i]
           c == row.m
<1>1. row \in Row
    BY DEF Sound, Typed, FileTyped
<1>2. c \in Calls /\ c \notin settled /\ row.is.id \in Ids \cup {0}
    BY <1>1 DEF Row, Message, Owed
<1>3. row.is.id \in Ids
    <2>1. row.is.id = msg[c].id
        BY DEF Sound, Ledger, Numbers, RowsNumbered
    <2>2. msg[c].id # 0
        BY DEF Owed, SentNumbered
    <2> QED
        BY <1>2, <2>1, <2>2
<1>4. disk.decided[row.is.id] # c
    BY <1>2, <1>3 DEF AllSettled, Decided
<1>5. Own(c, row.is.frame)
    BY DEF Receipts, OwnRows
<1>6. row.is.frame # {} => c \in Mails /\ c \in row.is.frame
    BY <1>5 DEF Own
<1>7. c \in Mails => mail[c].notify \notin Kinds
    BY DEF Promise
<1>8. Restored(row)
    BY <1>4, <1>6, <1>7 DEF Restored, Kinds
<1> QED
    BY <1>8 DEF Kept

\* Only a decision takes a message out of the queue while the process runs.
LEMMA QueueKeeps ==
    ASSUME Sound, [Next]_vars, up, up', NEW c \in ToSet(queue), c \notin settled'
    PROVE  c \in ToSet(queue')
<1> USE DEF Sound
<1>1. ASSUME NEW d \in Calls, CallStep(d) PROVE c \in ToSet(queue')
    <2>1. CASE Push(d)
        BY <2>1, PushFacts
    <2>2. CASE Fold(d) \/ NothingToFold(d) \/ RecordNotify(d)
        <3>1. queue' = queue
            BY <2>2, FoldFacts DEF NothingToFold, RecordNotify
        <3> QED
            BY <3>1
    <2> QED
        BY <1>1, <2>1, <2>2 DEF CallStep
<1>2. ASSUME NEW d \in Calls, Cancel(d) PROVE c \in ToSet(queue')
    BY <1>2, CancelFacts
<1>3. CASE WorkerStep
    <2>1. queue' = queue \/ (queue' = Without(worker.m) /\ settled' = settled \cup {worker.m})
        BY <1>3 DEF WorkerStep, Pick, Stopped, Unregister, Frame, Defer, Refuse, Hold, Type, TypingFails, Decide,
                    RememberRow, RecordReceipts
    <2> QED
        BY <2>1, WithoutSet DEF Typed, QueueTyped
<1>4. CASE WriteSnapshot \/ SaveFails
    BY <1>4, ReleasedFacts
<1>5. CASE SaveRows \/ Stop \/ UNCHANGED vars
           \/ (\E d \in Mails : ReadMail(d)) \/ \E p \in Calls \cup {"worker", "canceller"} : BeginSave(p)
    <2>1. queue' = queue
        BY <1>5 DEF SaveRows, Stop, vars, ReadMail, BeginSave
    <2> QED
        BY <2>1
<1>6. ~Exit /\ ~Restart
    BY DEF Exit, Restart
<1> QED
    BY <1>1, <1>2, <1>3, <1>4, <1>5, <1>6 DEF Next, SaveStep

\* Nobody decides about the mail of a notice that was not settled.
LEMMA NotifyFlow ==
    ASSUME Sound, Receipts, AllSettled, [Next]_vars, NEW c \in Mails, mail'[c].notify \in Kinds,
           c \in (Calls \ Numbered) \cup (Sent \ settled)
    PROVE  mail[c].notify \in Kinds \/ call[c] \in Notes
<1> USE DEF Sound
<1>0. mail \in [Mails -> [state: {"none", "unread", "read"}, notify: {"none", "queued", "sent", "failed"}]]
    BY DEF Typed, CallsTyped
<1> DEFINE Goal == mail[c].notify \in Kinds \/ call[c] \in Notes
<1>1. ASSUME mail' = mail PROVE Goal
    BY <1>1
<1>2. ASSUME NEW d \in Calls, CallStep(d) PROVE Goal
    <2>1. CASE RecordNotify(d)
        <3>1. mail' = [mail EXCEPT ![d].notify = NoteOf[call[d]]]
            BY <2>1 DEF RecordNotify, Notify
        <3>2. call[d] \in {"note_queued", "note_sent", "note_failed"}
            BY <2>1 DEF RecordNotify, NoteOf
        <3>3. CASE d = c
            <4>1. call[c] = "note_queued" => mail'[c].notify = "queued"
                BY <1>0, <3>1, <3>3 DEF NoteOf
            <4> QED
                BY <3>2, <3>3, <4>1 DEF Kinds, Notes
        <3>4. CASE d # c
            <4>1. mail'[c] = mail[c]
                BY <1>0, <3>1, <3>4
            <4> QED
                BY <4>1
        <3> QED
            BY <3>3, <3>4
    <2>2. CASE Fold(d) \/ NothingToFold(d)
        <3>1. mail' = [mail EXCEPT ![d].state = "unread"]
            BY <2>2 DEF Fold, NothingToFold, Stored
        <3>2. mail'[c].notify = mail[c].notify
            BY <1>0, <3>1
        <3> QED
            BY <3>2
    <2>3. CASE Push(d)
        BY <1>1, <2>3, PushFacts
    <2> QED
        BY <1>2, <2>1, <2>2, <2>3 DEF CallStep
<1>3. ASSUME NEW d \in Mails, ReadMail(d) PROVE Goal
    <2>1. mail' = [mail EXCEPT ![d].state = "read"]
        BY <1>3 DEF ReadMail
    <2>2. mail'[c].notify = mail[c].notify
        BY <1>0, <2>1
    <2> QED
        BY <2>2
<1>4. CASE RecordReceipts
    <2>1. worker.at \in After /\ worker.m \in Calls
        BY <1>4 DEF RecordReceipts, WorkerAt, After, Typed, QueueTyped, WorkerTyped, WorkerType
    <2>2. worker.m \in Live /\ worker.m \in settled
        BY <2>1 DEF AllSettled, Live
    <2>3. c \notin msg[worker.m].frame
        <3>1. CASE c \in Calls \ Numbered
            BY <2>2, <3>1 DEF Ledger, Untouched
        <3>2. CASE c \in Sent \ settled
            BY <2>2, <3>2 DEF Receipts, Alone
        <3> QED
            BY <3>1, <3>2
    <2>4. mail'[c] = mail[c]
        BY <1>4, <2>3 DEF RecordReceipts
    <2> QED
        BY <2>4
<1>5. CASE WorkerStep /\ ~RecordReceipts
    <2>1. mail' = mail
        BY <1>5 DEF WorkerStep, Pick, Stopped, Unregister, Frame, Defer, Refuse, Hold, Type, TypingFails, Decide,
                    RememberRow
    <2> QED
        BY <1>1, <2>1
<1>6. ASSUME NEW d \in Calls, Cancel(d) PROVE Goal
    BY <1>1, <1>6, CancelFacts
<1>7. CASE WriteSnapshot \/ SaveFails
    BY <1>1, <1>7, ReleasedFacts
<1>8. CASE Restart
    BY <1>1, <1>8, RestartFacts
<1>9. CASE SaveRows \/ Stop \/ Exit \/ UNCHANGED vars \/ \E p \in Calls \cup {"worker", "canceller"} : BeginSave(p)
    <2>1. mail' = mail
        BY <1>9 DEF SaveRows, Stop, Exit, vars, BeginSave
    <2> QED
        BY <1>1, <2>1
<1> QED
    BY <1>2, <1>3, <1>4, <1>5, <1>6, <1>7, <1>8, <1>9 DEF Next, SaveStep

\* What happens to the lock, to the file and to the process.
LEMMA LifeFlow ==
    ASSUME Typed, Saving, [Next]_vars
    PROVE  /\ ~up => Restart \/ UNCHANGED vars
           /\ up /\ ~up' => Exit
           /\ disk' = disk \/ WriteSnapshot
           /\ snap'.at = "decided" => SaveRows \/ snap' = snap
<1> DEFINE Goal == /\ ~up => Restart \/ UNCHANGED vars
                   /\ up /\ ~up' => Exit
                   /\ disk' = disk \/ WriteSnapshot
                   /\ snap'.at = "decided" => SaveRows \/ snap' = snap
<1>1. ASSUME NEW d \in Calls, CallStep(d) PROVE Goal
    <2>1. CASE Fold(d)
        BY <2>1, FoldFacts
    <2>2. CASE Push(d)
        BY <2>2, PushFacts
    <2>3. CASE NothingToFold(d) \/ RecordNotify(d)
        <3>1. up /\ up' = up /\ UNCHANGED <<snap, disk>>
            BY <2>3 DEF NothingToFold, RecordNotify, At, saves, life
        <3> QED
            BY <3>1
    <2> QED
        BY <1>1, <2>1, <2>2, <2>3 DEF CallStep
<1>2. ASSUME NEW d \in Calls, Cancel(d) PROVE Goal
    BY <1>2, CancelFacts
<1>3. CASE WorkerStep
    BY <1>3, WorkerFacts
<1>4. CASE WriteSnapshot \/ SaveFails
    <2>1. up /\ up' = up /\ snap' = NoSnap
        BY <1>4, ReleasedFacts
    <2>2. SaveFails => disk' = disk
        BY DEF SaveFails
    <2> QED
        BY <1>4, <2>1, <2>2 DEF NoSnap
<1>5. CASE Restart
    BY <1>5, RestartFacts
<1>6. CASE Exit
    BY <1>6 DEF Exit, NoSnap
<1>7. CASE SaveRows \/ Stop \/ (\E d \in Mails : ReadMail(d))
    <2>1. up /\ up' = up /\ disk' = disk /\ (SaveRows \/ snap' = snap)
        BY <1>7 DEF SaveRows, Stop, ReadMail, life, saves
    <2> QED
        BY <2>1
<1>8. ASSUME NEW p \in Calls \cup {"worker", "canceller"}, BeginSave(p) PROVE Goal
    <2>1. up /\ up' = up /\ disk' = disk /\ snap'.at = "rows"
        BY <1>8 DEF BeginSave, life
    <2> QED
        BY <2>1
<1>9. CASE UNCHANGED vars
    BY <1>9 DEF vars, life, saves
<1> QED
    BY <1>1, <1>2, <1>3, <1>4, <1>5, <1>6, <1>7, <1>8, <1>9 DEF Next, SaveStep

LEMMA PromiseStep ==
    ASSUME Sound, Receipts, AllSettled, SentNumbered, Promise, [Next]_vars
    PROVE  Promise'
<1> USE DEF Sound
\* A message the outbox is about to answer for is new to it.
<1>0. ASSUME NEW c \in Sent PROVE c \in Numbered
    BY <1>0 DEF Sent, Numbered, Ledger, Untouched, Typed, CallsTyped
<1>1. ASSUME NEW c \in Owed', up' PROVE c \in ToSet(queue')
    <2>1. CASE c \in Owed /\ up
        <3>1. c \in ToSet(queue) /\ c \notin settled'
            BY <1>1, <2>1 DEF Promise, Owed
        <3> QED
            BY <1>1, <2>1, <3>1, QueueKeeps
    <2>2. CASE c \in Owed /\ ~up
        <3>1. Restart
            BY <1>1, <2>2, LifeFlow DEF vars, life
        <3>2. c \in accepted
            BY <2>2 DEF Promise, Owed, Sent
        <3>3. PICK i \in DOMAIN disk.rows : disk.rows[i].m = c
            BY <2>2, <3>2 DEF Promise, Names
        <3> QED
            BY <2>2, <3>1, <3>3, RowRestored, RestartFacts
    <2>3. CASE c \in Calls /\ Push(c)
        BY <2>3, PushFacts
    <2> QED
        BY <1>1, <2>1, <2>2, <2>3, OwedFlow
<1>2. ASSUME ~up', NEW c \in Calls PROVE call'[c] # "save"
    <2>1. CASE up
        <3>1. Exit
            BY <1>2, <2>1, LifeFlow
        <3> QED
            BY <3>1 DEF Exit
    <2>2. CASE ~up
        <3>1. call' = call
            BY <1>2, <2>2, LifeFlow, RestartFacts DEF vars
        <3> QED
            BY <2>2, <3>1 DEF Promise
    <2> QED
        BY <2>1, <2>2
<1>3. ASSUME NEW c \in (Owed \cap accepted)' PROVE c \in Names(disk'.rows)
    <2>1. c \in Calls /\ c \in Owed
        <3>1. c \in Sent' /\ c \in accepted'
            BY <1>3 DEF Sent
        <3>2. ASSUME NEW d \in Calls, Push(d) PROVE c \in Sent
            BY <3>1, <3>2, PushFacts DEF Sent
        <3> QED
            BY <1>3, <3>2, OwedFlow
    <2>2. CASE c \in accepted /\ disk' = disk
        BY <2>1, <2>2 DEF Promise
    <2>3. CASE WriteSnapshot
        <3>1. snap.at = "decided" /\ disk'.rows = snap.rows
              /\ accepted' \subseteq accepted \cup {snap.by}
            BY <2>3, ReleasedFacts DEF WriteSnapshot
        <3>2. c \in accepted \/ snap.by = c
            BY <1>3, <3>1
        <3> QED
            BY <2>1, <3>1, <3>2 DEF Promise
    <2>4. CASE SaveFails
        <3>1. accepted' = accepted /\ disk' = disk
            BY <2>4 DEF SaveFails, Saved, Released
        <3> QED
            BY <1>3, <2>2, <3>1
    <2> QED
        BY <1>3, <2>2, <2>3, <2>4, LifeFlow, AcceptedFlow
<1>4. ASSUME snap'.at = "decided", NEW c \in Owed', c \in accepted' \/ snap'.by = c PROVE c \in Names(snap'.rows)
    <2>1. CASE SaveRows
        <3>1. up' /\ queue' = queue /\ snap'.rows = [i \in DOMAIN queue |-> [m |-> queue[i], is |-> msg[queue[i]]]]
            BY <2>1 DEF SaveRows, life, Typed, FileTyped
        <3>2. PICK i \in DOMAIN queue : queue[i] = c
            BY <1>1, <1>4, <3>1 DEF ToSet
        <3> QED
            BY <3>1, <3>2 DEF Names
    <2>2. CASE snap' = snap
        <3>1. ~(WriteSnapshot \/ SaveFails)
            <4>1. NoSnap.at # "decided"
                BY DEF NoSnap
            <4> QED
                BY <1>4, <4>1, ReleasedFacts
        <3>2. c \in accepted \/ snap.by = c
            BY <1>4, <2>2, <3>1, AcceptedFlow
        <3>3. c \in Owed
            <4>1. c \in Calls /\ (c \in Owed \/ c \notin Sent)
                BY <1>4, OwedFlow
            <4>2. c \in Sent
                BY <1>4, <2>2, <3>2, <4>1, NobodyIsNoCall DEF Sent, Saving, WantsSave
            <4> QED
                BY <4>1, <4>2
        <3> QED
            BY <1>4, <2>2, <3>2, <3>3 DEF Promise
    <2> QED
        BY <1>4, <2>1, <2>2, LifeFlow
<1>5. ASSUME NEW c \in (Owed \cap Mails)' PROVE mail'[c].notify \notin Kinds /\ call'[c] \notin Notes
    <2>0. c \in Mails /\ c \in Calls /\ c \in Owed'
        BY <1>5 DEF Calls
    <2>1. CASE c \in Owed
        <3>1. mail[c].notify \notin Kinds /\ call[c] \notin Notes /\ c \in Sent \ settled
            BY <2>0, <2>1 DEF Promise, Owed
        <3>2. mail'[c].notify \notin Kinds
            BY <2>0, <3>1, NotifyFlow
        <3>3. ~Push(c)
            BY <1>0, <2>0, <3>1, PushFacts
        <3>4. Result(c) \notin Notes
            <4>1. ASSUME NEW d \in history, SameNumber(c, d) PROVE FALSE
                BY <2>0, <2>1, <3>1, <4>1 DEF Reused, Owed, AllSettled, Typed, CallsTyped
            <4> QED
                BY <2>0, <4>1, OutboxAssumption DEF Result, Notes
        <3>5. ASSUME call[c] = "save", accepted' = accepted, call'[c] \in {"note_failed", "done"} PROVE FALSE
            BY <2>0, <3>5 DEF Owed, Sent, SentNumbered
        <3> QED
            BY <2>0, <3>1, <3>2, <3>3, <3>4, <3>5, CallFlow DEF Notes
    <2>2. CASE Push(c) /\ call'[c] = "save"
        <3>1. mail' = mail /\ c \notin Numbered
            BY <2>0, <2>2, PushFacts
        <3> QED
            BY <2>0, <2>2, <3>1 DEF Promise, Notes
    <2> QED
        BY <2>0, <2>1, <2>2, OwedFlow
<1>6. ASSUME NEW c \in Mails \ Numbered' PROVE mail'[c].notify \notin Kinds
    <2>1. c \in Calls /\ call'[c] \in {"new", "alone"}
        BY <1>6 DEF Numbered, Calls
    <2>2. call[c] \in {"new", "alone"}
        BY <2>1, CallFlow DEF Result
    <2>3. c \in Calls \ Numbered /\ call[c] \notin Notes
        BY <2>1, <2>2 DEF Numbered, Notes
    <2> QED
        BY <1>6, <2>3, NotifyFlow DEF Promise
<1> QED
    BY <1>1, <1>2, <1>3, <1>4, <1>5, <1>6 DEF Promise

\* A message whose sender was told it is queued stays in the outbox, across restarts, until it is
\* settled (enqueue answers after its snapshot; restore_outbox brings the rows back).
THEOREM AcceptedIsNotLost == Spec => []NothingLost
<1> DEFINE Inv == Receipts /\ AllSettled /\ SentNumbered /\ Promise
<1>1. ASSUME Init PROVE Inv
    <2>1. /\ Live = {} /\ history = {} /\ accepted = {} /\ snap.rows = <<>> /\ disk.rows = <<>>
          /\ up /\ worker.at \notin After /\ snap.at # "decided"
          /\ \A c \in Calls : call[c] = "new"
          /\ \A c \in Mails : mail[c].notify = "none"
        BY <1>1, NobodyIsNoCall DEF Init, Live, ToSet, Idle, NoSnap, After
    <2>2. ASSUME NEW c \in Calls PROVE ~Decided(c)
        BY <1>1, NobodyIsNoCall DEF Init, Decided
    <2>3. Sent = {}
        BY <2>1 DEF Sent
    <2>4. Receipts
        BY <2>1 DEF Receipts, OwnRows, AloneRows
    <2>5. AllSettled /\ SentNumbered
        BY <2>1, <2>2, <2>3 DEF AllSettled, SentNumbered
    <2>6. Promise
        BY <2>1, <2>3 DEF Promise, Owed, Kinds
    <2> QED
        BY <2>4, <2>5, <2>6
<1>2. Inv /\ Sound /\ [Next]_vars => Inv'
    BY ReceiptsStep, AllSettledStep, SentNumberedStep, PromiseStep
<1>3. ASSUME Inv, Sound PROVE NothingLost
    <2> SUFFICES ASSUME NEW c \in accepted \ settled, ~Reused(c)
                 PROVE  \/ up /\ Queued(c)
                        \/ ~up /\ \E row \in ToSet(disk.rows) : row.m = c /\ Restored(row)
        BY DEF NothingLost
    <2>1. c \in Owed
        BY DEF Owed, Sent
    <2>2. CASE up
        BY <1>3, <2>1, <2>2 DEF Promise, Queued
    <2>3. CASE ~up
        <3>1. PICK i \in DOMAIN disk.rows : disk.rows[i].m = c
            BY <1>3, <2>1 DEF Promise, Names
        <3>2. i \in Kept
            BY <1>3, <2>1, <3>1, RowRestored
        <3> QED
            BY <2>3, <3>1, <3>2 DEF Kept, ToSet
    <2> QED
        BY <2>2, <2>3, <1>3 DEF Sound, Typed, CallsTyped
<1> QED
    BY <1>1, <1>2, <1>3, AlwaysSound, PTL DEF Spec

===============================================================================
