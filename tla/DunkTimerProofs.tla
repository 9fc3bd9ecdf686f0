-------------------------- MODULE DunkTimerProofs ----------------------------
(* What holds of DunkTimer for any number of dunks, panes, requests and      *)
(* threads, and any cap.                                                     *)
EXTENDS DunkTimer, TLAPS

-------------------------------------------------------------------------------
\* The inductive invariant

\* A row that was never added does not run, and every other one has a pane.
Sane(r) == IF r.state = "new" THEN ~r.running ELSE r.target \in Panes
RowsSane == \A d \in Dunks : Sane(row[d]) /\ Sane(disk[d])

\* Nothing outlives the daemon but the file, and what it says of its dunks.
DownIsBlank ==
    ~up => /\ slot = [d \in Dunks |-> None] /\ thread = [t \in Threads |-> Asleep]
           /\ client = [c \in Clients |-> Idle] /\ lifecycle = None
           /\ row = disk /\ quiet = durable

\* The lifecycle lock belongs to the request that is between its change and its snapshot.
Holding == {"spawn", "cancel", "join", "leave"}
LifecycleHeld == \A c \in Clients : client[c].at \in Holding <=> lifecycle = c

\* What a request knows of its dunks while it has the lock.
Scheduled(d) == slot[d] # None /\ Live(slot[d])
RequestKnows(c, d) ==
    /\ row[d].state # "new"
    /\ client[c].at \in {"cancel", "join"} /\ client[c].stops => ~row[d].running
    /\ client[c].at = "join" => slot[d] = None
    /\ client[c].at = "spawn" => ~quiet[d] /\ client[c].ds = {d}
    /\ client[c].at = "leave" /\ IsRunning(d) => Scheduled(d)
RequestsKnow == \A c \in Clients : \A d \in client[c].ds : RequestKnows(c, d)

\* The worker map holds threads of its dunks, which nobody has told to end.
SlotsTrue ==
    \A d \in Dunks : slot[d] # None =>
        thread[slot[d]].d = d /\ thread[slot[d]].at # "free" /\ ~thread[slot[d]].cancelled

\* A thread that lives is in the map, or was told to end by a request that waits for it.
Awaited(t) ==
    /\ thread[t].cancelled /\ slot[thread[t].d] = None
    /\ lifecycle # None /\ client[lifecycle].at = "join" /\ thread[t].d \in client[lifecycle].ds
Accounted ==
    \A t \in Threads : Live(t) =>
        /\ thread[t].d \in Dunks /\ row[thread[t].d].state # "new"
        /\ slot[thread[t].d] = t \/ Awaited(t)

\* A thread that removes its row is done with it.
RemovedIsRemoved == \A t \in Threads : thread[t].at = "removed" => row[thread[t].d].state = "removed"

\* A dunk whose stop was answered does not run, and was added.
Silenced ==
    \A d \in Dunks :
        /\ quiet[d] => ~row[d].running /\ row[d].state # "new"
        /\ durable[d] => quiet[d] /\ ~disk[d].running /\ disk[d].state # "new"

\* The target a thread read, the pane it chose and the row agree as far as the target was changed.
Gated(t) ==
    /\ thread[t].at \in {"top", "fields"} => thread[t].moves = 0
    /\ thread[t].at \in {"gates", "ready", "send"} =>
        /\ thread[t].moves = 0 => row[thread[t].d].target = thread[t].target
        /\ thread[t].moves = 1 => row[thread[t].d].target # thread[t].target
    /\ thread[t].at = "send" /\ thread[t].moves = 0 => thread[t].pane = thread[t].target
    /\ thread[t].at \in {"granted", "typed"} /\ thread[t].moves < 2 => thread[t].pane = thread[t].target
AllGated == \A t \in Threads : Gated(t)

\* A thread that read fields which were edited since learns of it, at whatever stage it is.
Notified ==
    \A t \in Threads : thread[t].stale =>
        /\ thread[t].d \in Dunks
        /\ \/ thread[t].wake \/ thread[t].cancelled
           \/ \E c \in Clients : client[c].at = "wake" /\ thread[t].d \in client[c].ds
           \/ slot[thread[t].d] # t

\* A thread whose dunk was sent past the cap is on its way to the removal of the row.
Spent(t) ==
    /\ thread[t].at \in {"count", "after", "capped", "remove", "removed"}
    /\ thread[t].at = "after" => thread[t].sent
    /\ row[thread[t].d].count = Cap
AllSpent == \A t \in Threads : Live(t) /\ past[thread[t].d] # 0 => Spent(t)

\* The send lock of a pane belongs to the thread that is typing there.
Using == {"granted", "typed", "count"}
LocksTrue ==
    \A t \in Threads :
        /\ thread[t].at \in Using => thread[t].pane \in Panes /\ lock[thread[t].pane] = t
        /\ thread[t].at = "send" => thread[t].pane \in Panes

IInv ==
    /\ TypeOK /\ RowsSane /\ DownIsBlank /\ LifecycleHeld /\ RequestsKnow
    /\ SlotsTrue /\ Accounted /\ OneTimer /\ RemovedIsRemoved
    /\ NoStrandedSchedule /\ Silenced /\ StoppedStaysStopped
    /\ AllGated /\ Notified /\ AllSpent /\ CapEndsSchedule /\ LocksTrue

-------------------------------------------------------------------------------
\* Types

ThreadType == [d: Dunks \cup {None}, at: ThreadStages, target: Panes \cup {None},
               pane: Panes \cup {None}, sent: BOOLEAN, cancelled: BOOLEAN, wake: BOOLEAN,
               moves: 0..2, stale: BOOLEAN]
ClientStages == {"idle", "spawn", "cancel", "join", "leave", "wake", "save"}
ClientType == [at: ClientStages, ds: SUBSET Dunks, stops: BOOLEAN]

\* None is no dunk, pane, request or thread.
LEMMA NoneIsNobody ==
    /\ None \notin Dunks /\ None \notin Panes /\ None \notin Clients /\ None \notin Threads
    /\ Cap \in Nat /\ Cap > 0
    BY DunkAssumption

\* The types, one variable at a time and with the records named.
LEMMA TypesByParts ==
    TypeOK <=>
        /\ up \in BOOLEAN
        /\ row \in [Dunks -> Rows] /\ disk \in [Dunks -> Rows]
        /\ slot \in [Dunks -> Threads \cup {None}]
        /\ thread \in [Threads -> ThreadType]
        /\ lock \in [Panes -> Threads \cup {None}]
        /\ client \in [Clients -> ClientType]
        /\ lifecycle \in Clients \cup {None}
        /\ quiet \in [Dunks -> BOOLEAN] /\ durable \in [Dunks -> BOOLEAN]
        /\ past \in [Dunks -> 0..2]
    BY DEF TypeOK, ThreadType, ClientStages, ClientType

\* What the steps write into a row is a row again.
LEMMA RowUpdates ==
    ASSUME NEW r \in Rows
    PROVE  /\ [r EXCEPT !.due = FALSE] \in Rows /\ [r EXCEPT !.due = TRUE] \in Rows
           /\ Started(r) \in Rows /\ Stopped(r) \in Rows
           /\ [Stopped(r) EXCEPT !.state = "removed"] \in Rows
           /\ Counted(r) \in Rows /\ Counted(r).count >= r.count
           /\ \A p \in Panes : [r EXCEPT !.target = p] \in Rows
<1>1. r.count \in Nat /\ r.count <= Cap
    BY NoneIsNobody DEF Rows
<1>2. \A n \in 0..Cap : [r EXCEPT !.count = n] \in Rows /\ [r EXCEPT !.count = n].count = n
    BY DEF Rows
<1>3. Counted(r) \in Rows /\ Counted(r).count >= r.count
    <2> DEFINE n == IF r.count < Cap THEN r.count + 1 ELSE r.count
    <2>1. n \in 0..Cap /\ n >= r.count
        BY <1>1, NoneIsNobody
    <2>2. Counted(r) = [r EXCEPT !.count = n]
        BY DEF Counted
    <2> QED
        BY <1>2, <2>1, <2>2
<1>4. /\ [r EXCEPT !.due = FALSE] \in Rows /\ [r EXCEPT !.due = TRUE] \in Rows
      /\ \A p \in Panes : [r EXCEPT !.target = p] \in Rows
    BY DEF Rows
<1>5. Started(r) \in Rows /\ Stopped(r) \in Rows
    BY DEF Rows, Started, Stopped
<1>6. [Stopped(r) EXCEPT !.state = "removed"] \in Rows
    BY <1>5 DEF Rows
<1> QED
    BY <1>3, <1>4, <1>5, <1>6

\* What a variable holds before anything happened has its type.
LEMMA BlankTypes == Unlisted \in Rows /\ Asleep \in ThreadType /\ Idle \in ClientType
    BY NoneIsNobody DEF Unlisted, Rows, Asleep, ThreadType, ThreadStages, Idle, ClientType, ClientStages

\* A thread that was just spawned serves its dunk, from the top, and was told nothing.
LEMMA FreshThread ==
    ASSUME NEW d \in Dunks
    PROVE  /\ Fresh(d) \in ThreadType /\ Fresh(d).d = d /\ Fresh(d).at = "top"
           /\ Fresh(d).moves = 0 /\ ~Fresh(d).cancelled /\ ~Fresh(d).stale
    BY BlankTypes DEF Fresh, Asleep, ThreadType, ThreadStages

\* What a thread keeps from one stage to the next.
Keeps(r, s, new) ==
    /\ new \in ThreadType /\ new.at = s
    /\ new.d = r.d /\ new.cancelled = r.cancelled /\ new.wake = r.wake
    /\ s \in {"top", "over"} => new.moves = 0 /\ ~new.stale
    /\ s \notin {"top", "over"} =>
        new.target = r.target /\ new.moves = r.moves /\ new.stale = r.stale /\ new.sent = r.sent
    /\ s \in {"send", "granted", "typed", "count"} => new.pane = r.pane

\* Turned is such a step, whichever stage it leads to.
LEMMA TurnedKeeps ==
    ASSUME NEW r \in ThreadType, NEW s \in ThreadStages
    PROVE  Keeps(r, s, Turned(r, s))
<1>1. CASE s \in {"top", "over"}
    <2>1. Turned(r, s) = [Asleep EXCEPT !.d = r.d, !.at = s, !.cancelled = r.cancelled, !.wake = r.wake]
        BY <1>1 DEF Turned
    <2>2. r.d \in Dunks \cup {None} /\ r.cancelled \in BOOLEAN /\ r.wake \in BOOLEAN
        BY DEF ThreadType
    <2>3. Turned(r, s) = [d |-> r.d, at |-> s, target |-> None, pane |-> None, sent |-> FALSE,
                          cancelled |-> r.cancelled, wake |-> r.wake, moves |-> 0, stale |-> FALSE]
        BY <2>1 DEF Asleep
    <2>4. Turned(r, s) \in ThreadType
        BY <2>2, <2>3 DEF ThreadType
    <2>5. /\ Turned(r, s).d = r.d /\ Turned(r, s).at = s
          /\ Turned(r, s).cancelled = r.cancelled /\ Turned(r, s).wake = r.wake
          /\ Turned(r, s).moves = 0 /\ Turned(r, s).stale = FALSE
        BY <2>3
    <2> QED
        BY <1>1, <2>4, <2>5 DEF Keeps
<1>2. CASE s \notin {"top", "over"}
    BY <1>2, NoneIsNobody DEF Turned, ThreadType, ThreadStages, Keeps
<1> QED
    BY <1>1, <1>2

-------------------------------------------------------------------------------
\* Steps of a thread

\* The thread t, and no other, becomes what Turned makes of r.
Written(t, r, s) ==
    /\ thread' = [thread EXCEPT ![t] = thread'[t]]
    /\ Keeps(r, s, thread'[t])

\* A step that stores what Turned makes of a record writes that thread alone.
LEMMA TurnWrites ==
    ASSUME TypeOK, NEW t \in Threads, NEW r \in ThreadType, NEW s \in ThreadStages,
           thread' = [thread EXCEPT ![t] = Turned(r, s)]
    PROVE  Written(t, r, s)
<1>1. thread \in [Threads -> ThreadType]
    BY TypesByParts
<1>2. thread'[t] = Turned(r, s)
    BY <1>1
<1> QED
    BY <1>2, TurnedKeeps DEF Written

\* So does Goto, from what the thread was.
LEMMA GotoWrites ==
    ASSUME TypeOK, NEW t \in Threads, NEW s \in ThreadStages, Goto(t, s)
    PROVE  Written(t, thread[t], s)
<1>1. thread[t] \in ThreadType
    BY TypesByParts
<1> QED
    BY <1>1, TurnWrites DEF Goto

\* A thread that is told or answered something is a thread again.
LEMMA ThreadUpdates ==
    ASSUME NEW r \in ThreadType
    PROVE  /\ [r EXCEPT !.wake = FALSE] \in ThreadType
           /\ [r EXCEPT !.wake = TRUE] \in ThreadType
           /\ [r EXCEPT !.sent = TRUE] \in ThreadType
           /\ [r EXCEPT !.cancelled = TRUE] \in ThreadType
           /\ [r EXCEPT !.stale = TRUE] \in ThreadType
    BY DEF ThreadType

\* The control flow of a thread: which stage follows which, in which step, and with what.
LEMMA ThreadFlow ==
    ASSUME TypeOK, NEW t \in Threads
    PROVE  /\ Check(t) => \/ Written(t, thread[t], "fields")
                          \/ Written(t, thread[t], "over") /\ Leaves(t)
           /\ Timeout(t) => Written(t, thread[t], "top")
           /\ Woken(t) => Written(t, [thread[t] EXCEPT !.wake = FALSE], "top")
           /\ GateCloses(t) => Written(t, thread[t], "wait") \/ Written(t, thread[t], "held")
           /\ Interrupted(t) => \/ Written(t, [thread[t] EXCEPT !.wake = FALSE], "top")
                                \/ Written(t, [thread[t] EXCEPT !.wake = FALSE], "over") /\ Leaves(t)
           /\ Skip(t) => Written(t, thread[t], "held")
           /\ Pass(t) => \/ Written(t, thread[t], "ready")
                         \/ Written(t, thread[t], "over") /\ Leaves(t)
           /\ Permit(t) => \/ Written(t, thread[t], "granted") /\ Permitted(t)
                           \/ Written(t, thread[t], "after") /\ ~Permitted(t)
           /\ Blocked(t) => Written(t, thread[t], "after")
           /\ TypeDunk(t) => Written(t, thread[t], "typed")
           /\ \A ok : Confirm(t, ok) => Written(t, thread[t], "count")
           /\ SaveCount(t) => Written(t, [thread[t] EXCEPT !.sent = TRUE], "after")
           /\ SaveHeld(t) => Written(t, thread[t], "wait")
           /\ SaveCapped(t) => Written(t, thread[t], "remove")
           /\ RemoveSelf(t) => Written(t, thread[t], "removed")
           /\ SaveRemoved(t) => Written(t, thread[t], "over")
           /\ AfterSend(t) => \/ Written(t, thread[t], "over") /\ Leaves(t)
                              \/ /\ Written(t, thread[t], "top") /\ ~Leaves(t)
                                 /\ Moved(t) \/ ~thread[t].sent
                              \/ Written(t, thread[t], "capped") /\ ~Leaves(t)
                              \/ /\ Written(t, thread[t], "held") /\ ~Leaves(t) /\ ~Moved(t)
                                 /\ thread[t].sent => ~Reached(row[thread[t].d])
<1> DEFINE old == thread[t]
<1>1. /\ old \in ThreadType /\ [old EXCEPT !.wake = FALSE] \in ThreadType
      /\ [old EXCEPT !.sent = TRUE] \in ThreadType
    BY TypesByParts, ThreadUpdates
<1>2. Check(t) => Written(t, old, "fields") \/ (Written(t, old, "over") /\ Leaves(t))
    BY GotoWrites DEF Check, Leaves, ThreadStages
<1>3. Timeout(t) => Written(t, old, "top")
    BY GotoWrites DEF Timeout, ThreadStages
<1>4. Woken(t) => Written(t, [old EXCEPT !.wake = FALSE], "top")
    BY <1>1, TurnWrites DEF Woken, ThreadStages
<1>5. GateCloses(t) => Written(t, old, "wait") \/ Written(t, old, "held")
    BY GotoWrites DEF GateCloses, ThreadStages
<1>6. Interrupted(t) => \/ Written(t, [old EXCEPT !.wake = FALSE], "top")
                        \/ Written(t, [old EXCEPT !.wake = FALSE], "over") /\ Leaves(t)
    <2>1. ASSUME Interrupted(t), old.cancelled PROVE Written(t, [old EXCEPT !.wake = FALSE], "over")
        BY <1>1, <2>1, TurnWrites DEF Interrupted, ThreadStages
    <2>2. ASSUME Interrupted(t), ~old.cancelled PROVE Written(t, [old EXCEPT !.wake = FALSE], "top")
        BY <1>1, <2>2, TurnWrites DEF Interrupted, ThreadStages
    <2> QED
        BY <2>1, <2>2 DEF Leaves
<1>7. Skip(t) => Written(t, old, "held")
    BY GotoWrites DEF Skip, ThreadStages
<1>8. Pass(t) => Written(t, old, "ready") \/ (Written(t, old, "over") /\ Leaves(t))
    BY GotoWrites DEF Pass, Leaves, ThreadStages
<1>9. Permit(t) => \/ Written(t, old, "granted") /\ Permitted(t)
                   \/ Written(t, old, "after") /\ ~Permitted(t)
    BY GotoWrites DEF Permit, ThreadStages
<1>10. Blocked(t) => Written(t, old, "after")
    BY GotoWrites DEF Blocked, ThreadStages
<1>11. TypeDunk(t) => Written(t, old, "typed")
    BY GotoWrites DEF TypeDunk, ThreadStages
<1>12. \A ok : Confirm(t, ok) => Written(t, old, "count")
    BY GotoWrites DEF Confirm, ThreadStages
<1>13. SaveCount(t) => Written(t, [old EXCEPT !.sent = TRUE], "after")
    BY <1>1, TurnWrites DEF SaveCount, ThreadStages
<1>14. SaveHeld(t) => Written(t, old, "wait")
    BY GotoWrites DEF SaveHeld, ThreadStages
<1>15. SaveCapped(t) => Written(t, old, "remove")
    BY GotoWrites DEF SaveCapped, ThreadStages
<1>16. RemoveSelf(t) => Written(t, old, "removed")
    BY GotoWrites DEF RemoveSelf, ThreadStages
<1>17. SaveRemoved(t) => Written(t, old, "over")
    BY GotoWrites DEF SaveRemoved, ThreadStages
<1>18. ASSUME AfterSend(t), ~Leaves(t), ~Moved(t)
       PROVE  \/ Written(t, old, "top") /\ ~old.sent
              \/ Written(t, old, "capped")
              \/ Written(t, old, "held") /\ (old.sent => ~Reached(row[old.d]))
    <2>1. CASE old.sent
        BY <1>18, <2>1, GotoWrites DEF AfterSend, ThreadStages
    <2>2. CASE ~old.sent
        BY <1>18, <2>2, GotoWrites DEF AfterSend, ThreadStages
    <2> QED
        BY <2>1, <2>2
<1>19. /\ AfterSend(t) /\ Leaves(t) => Written(t, old, "over")
       /\ AfterSend(t) /\ ~Leaves(t) /\ Moved(t) => Written(t, old, "top")
    BY GotoWrites DEF AfterSend, ThreadStages
<1> QED
    BY <1>2, <1>3, <1>4, <1>5, <1>6, <1>7, <1>8, <1>9, <1>10, <1>11, <1>12, <1>13, <1>14, <1>15,
       <1>16, <1>17, <1>18, <1>19

\* The two steps that read the row: the target is read with the deadline, the pane on its own.
LEMMA ThreadReads ==
    ASSUME TypeOK, NEW t \in Threads, thread[t].d \in Dunks
    PROVE  LET old == thread[t]
               new == thread'[t]
               Kept == /\ thread' = [thread EXCEPT ![t] = new] /\ new \in ThreadType
                       /\ new.d = old.d /\ new.cancelled = old.cancelled /\ new.wake = old.wake
                       /\ new.moves = old.moves /\ new.stale = old.stale /\ new.sent = old.sent
           IN  /\ ReadFields(t) => /\ Kept /\ new.at \in {"gates", "wait"}
                                   /\ new.target = row[old.d].target
               /\ Snapshot(t) => /\ Kept /\ new.at = "send" /\ new.target = old.target
                                 /\ new.pane = row[old.d].target
<1> DEFINE old == thread[t]
<1>1. old \in ThreadType /\ thread \in [Threads -> ThreadType] /\ row[old.d].target \in Panes \cup {None}
    BY TypesByParts DEF Rows
<1>2. ASSUME ReadFields(t)
      PROVE  /\ thread' = [thread EXCEPT ![t] = thread'[t]]
             /\ \E s \in {"gates", "wait"} :
                  thread'[t] = [old EXCEPT !.target = row[old.d].target, !.at = s]
    BY <1>1, <1>2 DEF ReadFields
<1>3. ASSUME Snapshot(t)
      PROVE  /\ thread' = [thread EXCEPT ![t] = thread'[t]]
             /\ thread'[t] = [old EXCEPT !.pane = row[old.d].target, !.at = "send"]
    BY <1>1, <1>3 DEF Snapshot
<1> QED
    BY <1>1, <1>2, <1>3 DEF ThreadType, ThreadStages

\* What happens to a row while its thread is at work: it is counted, put off or removed.
Aged(old, new) ==
    /\ new \in Rows /\ new.target = old.target /\ new.count >= old.count
    /\ new.running => old.running
    /\ new.state = old.state \/ (new.state = "removed" /\ ~new.running)

\* The four ways in which a thread writes a row only age it.
LEMMA RowsAge ==
    ASSUME NEW r \in Rows
    PROVE  /\ Aged(r, r) /\ Aged(r, Counted(r)) /\ Aged(r, [r EXCEPT !.due = FALSE])
           /\ Aged(r, [r EXCEPT !.due = TRUE])
           /\ Aged(r, [Stopped(r) EXCEPT !.state = "removed"])
           /\ [Stopped(r) EXCEPT !.state = "removed"].state = "removed"
<1>1. r.count \in Nat
    BY NoneIsNobody DEF Rows
<1>2. Aged(r, r) /\ \A b \in BOOLEAN : Aged(r, [r EXCEPT !.due = b])
    <2>1. \A b \in BOOLEAN : [r EXCEPT !.due = b] \in Rows
        BY DEF Rows
    <2>2. \A b \in BOOLEAN : LET new == [r EXCEPT !.due = b] IN
            new.target = r.target /\ new.count = r.count /\ new.running = r.running /\ new.state = r.state
        BY DEF Rows
    <2> QED
        BY <1>1, <2>1, <2>2 DEF Aged
<1>3. Aged(r, Counted(r))
    BY RowUpdates DEF Aged, Rows, Counted
<1>4. /\ Aged(r, [Stopped(r) EXCEPT !.state = "removed"])
      /\ [Stopped(r) EXCEPT !.state = "removed"].state = "removed"
    <2> DEFINE new == [Stopped(r) EXCEPT !.state = "removed"]
    <2>1. new \in Rows
        BY RowUpdates
    <2>2. /\ new.target = r.target /\ new.count = r.count /\ new.running = FALSE
          /\ new.state = "removed"
        BY DEF Rows, Stopped
    <2> QED
        BY <1>1, <2>1, <2>2 DEF Aged
<1> QED
    BY <1>2, <1>3, <1>4

\* A step of a thread changes no row but its own, the file only to the rows there are, and hands
\* no lock to anybody else.
LEMMA ThreadRows ==
    ASSUME TypeOK, NEW t \in Threads, Looping(t) \/ Sending(t), thread[t].d \in Dunks
    PROVE  /\ row' \in [Dunks -> Rows]
           /\ \A d \in Dunks : Aged(row[d], row'[d]) /\ (d # thread[t].d => row'[d] = row[d])
           /\ RemoveSelf(t) => row'[thread[t].d].state = "removed"
           /\ disk' = disk \/ Save
           /\ lock' \in [Panes -> Threads \cup {None}]
<1> DEFINE own == thread[t].d
<1>1. row \in [Dunks -> Rows] /\ lock \in [Panes -> Threads \cup {None}]
    BY TypesByParts
<1>2. ASSUME NEW r \in Rows, Aged(row[own], r), row' = [row EXCEPT ![own] = r]
      PROVE  /\ row' \in [Dunks -> Rows] /\ row'[own] = r
             /\ \A d \in Dunks : Aged(row[d], row'[d]) /\ (d # own => row'[d] = row[d])
    BY <1>1, <1>2, RowsAge
<1>3. ASSUME row' = row
      PROVE  /\ row' \in [Dunks -> Rows]
             /\ \A d \in Dunks : Aged(row[d], row'[d]) /\ (d # own => row'[d] = row[d])
    BY <1>1, <1>3, RowsAge
<1> DEFINE Counts == row' = [row EXCEPT ![own] = Counted(row[own])]
           PutsOff == row' = [row EXCEPT ![own] = [row[own] EXCEPT !.due = FALSE]]
           Removes == row' = [row EXCEPT ![own] = [Stopped(row[own]) EXCEPT !.state = "removed"]]
<1>4. row' = row \/ Counts \/ PutsOff \/ Removes
    <2>1. Skip(t) => PutsOff
        BY DEF Skip
    <2>2. AfterSend(t) => row' = row \/ PutsOff
        BY DEF AfterSend
    <2>3. RemoveSelf(t) => Removes
        BY DEF RemoveSelf
    <2>4. Looping(t) /\ ~Skip(t) /\ ~AfterSend(t) /\ ~RemoveSelf(t) => row' = row
        BY DEF Looping, Check, ReadFields, Woken, Timeout, GateCloses, Interrupted, Pass, Snapshot,
               SaveCount, SaveHeld, SaveCapped, SaveRemoved
    <2>5. Sending(t) => row' = row \/ Counts
        BY DEF Sending, Permit, Blocked, TypeDunk, Confirm
    <2> QED
        BY <2>1, <2>2, <2>3, <2>4, <2>5
<1>5. row[own] \in Rows
    BY <1>1
<1>6. /\ row' \in [Dunks -> Rows]
      /\ \A d \in Dunks : Aged(row[d], row'[d]) /\ (d # own => row'[d] = row[d])
    <2>1. /\ Aged(row[own], Counted(row[own])) /\ Aged(row[own], [row[own] EXCEPT !.due = FALSE])
          /\ Aged(row[own], [Stopped(row[own]) EXCEPT !.state = "removed"])
          /\ Counted(row[own]) \in Rows /\ [row[own] EXCEPT !.due = FALSE] \in Rows
          /\ [Stopped(row[own]) EXCEPT !.state = "removed"] \in Rows
        BY <1>5, RowsAge, RowUpdates
    <2> QED
        BY <1>2, <1>3, <1>4, <2>1
<1>7. RemoveSelf(t) => row'[own].state = "removed"
    BY <1>2, <1>5, RowsAge, RowUpdates DEF RemoveSelf
<1>8. disk' = disk \/ Save
    BY DEF Looping, Check, ReadFields, Woken, Timeout, GateCloses, Interrupted, Pass, Snapshot, Skip,
           AfterSend, RemoveSelf, SaveCount, SaveHeld, SaveCapped, SaveRemoved, Sending, Permit,
           Blocked, TypeDunk, Confirm
<1>9. lock' \in [Panes -> Threads \cup {None}]
    <2>1. Looping(t) /\ ~SaveCount(t) => lock' = lock
        BY DEF Looping, Check, ReadFields, Woken, Timeout, GateCloses, Interrupted, Pass, Snapshot,
               Skip, AfterSend, RemoveSelf, SaveHeld, SaveCapped, SaveRemoved
    <2>2. SaveCount(t) \/ Blocked(t) => lock' = [lock EXCEPT ![thread[t].pane] = None]
        BY DEF SaveCount, Blocked
    <2>3. Sending(t) /\ ~Blocked(t) =>
            lock' = lock \/ lock' = [lock EXCEPT ![thread[t].pane] = t]
        BY DEF Sending, Permit, TypeDunk, Confirm
    <2> QED
        BY <1>1, <2>1, <2>2, <2>3
<1> QED
    BY <1>6, <1>7, <1>8, <1>9

\* What the rest of the system sees of a step of a thread.
ThreadChange(t) ==
    /\ up /\ Live(t) /\ UNCHANGED Outside
    /\ thread' \in [Threads -> ThreadType]
    /\ \A s \in Threads : s # t => thread'[s] = thread[s]
    /\ thread'[t].d = thread[t].d /\ thread'[t].cancelled = thread[t].cancelled
    /\ thread'[t].at # "free"
    /\ thread'[t].at = "over" =>
            thread[t].cancelled \/ ~IsRunning(thread[t].d) \/ thread[t].at = "removed"
    /\ thread'[t].at = "removed" => row'[thread[t].d].state = "removed"
    /\ thread'[t].stale => thread[t].stale /\ (thread[t].wake => thread'[t].wake)

\* The steps of a thread do no more than that.
LEMMA ThreadChanges ==
    ASSUME IInv, NEW t \in Threads, Looping(t) \/ Sending(t)
    PROVE  ThreadChange(t) /\ thread[t].d \in Dunks
<1> DEFINE old == thread[t]
           new == thread'[t]
<1>1. TypeOK
    BY DEF IInv
<1>2. up /\ Live(t) /\ UNCHANGED Outside
    BY DEF Looping, Check, ReadFields, Woken, Timeout, GateCloses, Interrupted, Pass, Snapshot, Skip,
           AfterSend, RemoveSelf, SaveCount, SaveHeld, SaveCapped, SaveRemoved, Sending, Permit,
           Blocked, TypeDunk, Confirm, At, Live
<1>3. old.d \in Dunks
    BY <1>2 DEF IInv, Accounted
<1>4. old \in ThreadType /\ thread \in [Threads -> ThreadType]
    BY <1>1, TypesByParts
<1> DEFINE Turns(s) == \/ Written(t, old, s) \/ Written(t, [old EXCEPT !.sent = TRUE], s)
                       \/ s \in {"top", "over"} /\ Written(t, [old EXCEPT !.wake = FALSE], s)
           Changed == /\ thread' = [thread EXCEPT ![t] = new] /\ new \in ThreadType
                      /\ new.d = old.d /\ new.cancelled = old.cancelled /\ new.at # "free"
                      /\ new.stale => old.stale /\ (old.wake => new.wake)
<1>5. ASSUME NEW s \in ThreadStages \ {"free"}, Turns(s) PROVE Changed /\ new.at = s
    <2>1. /\ [old EXCEPT !.sent = TRUE].d = old.d /\ [old EXCEPT !.sent = TRUE].cancelled = old.cancelled
          /\ [old EXCEPT !.sent = TRUE].wake = old.wake /\ [old EXCEPT !.sent = TRUE].stale = old.stale
          /\ [old EXCEPT !.wake = FALSE].d = old.d
          /\ [old EXCEPT !.wake = FALSE].cancelled = old.cancelled
        BY <1>4 DEF ThreadType
    <2>2. CASE Written(t, old, s)
        BY <2>2 DEF Written, Keeps
    <2>3. CASE Written(t, [old EXCEPT !.sent = TRUE], s)
        BY <2>1, <2>3 DEF Written, Keeps
    <2>4. CASE s \in {"top", "over"} /\ Written(t, [old EXCEPT !.wake = FALSE], s)
        BY <2>1, <2>4 DEF Written, Keeps
    <2> QED
        BY <1>5, <2>2, <2>3, <2>4
<1>6. \/ ReadFields(t) \/ Snapshot(t)
      \/ \E s \in ThreadStages \ {"free", "over", "removed"} : Turns(s)
      \/ Turns("over") /\ (Leaves(t) \/ old.at = "removed")
      \/ Turns("removed") /\ RemoveSelf(t)
    BY <1>1, ThreadFlow DEF Looping, Sending, SaveRemoved, At, ThreadStages
<1>7. ReadFields(t) \/ Snapshot(t) => Changed /\ new.at \in {"gates", "wait", "send"}
    BY <1>1, <1>3, ThreadReads
<1>8. Changed
    BY <1>5, <1>6, <1>7 DEF ThreadStages
<1>9. new.at = "over" => old.cancelled \/ ~IsRunning(old.d) \/ old.at = "removed"
    BY <1>5, <1>6, <1>7 DEF ThreadStages, Leaves
<1>10. new.at = "removed" => row'[old.d].state = "removed"
    <2>1. RemoveSelf(t) => row'[old.d].state = "removed"
        BY <1>1, <1>3, ThreadRows DEF Looping
    <2> HIDE DEF Turns, Changed
    <2>2. new.at = "removed" => RemoveSelf(t)
        <3>1. /\ ReadFields(t) \/ Snapshot(t) => new.at # "removed"
              /\ \A s \in ThreadStages \ {"free", "over", "removed"} : Turns(s) => new.at # "removed"
              /\ Turns("over") => new.at # "removed"
            BY <1>5, <1>7 DEF ThreadStages
        <3> QED
            BY <1>6, <3>1
    <2> QED
        BY <2>1, <2>2
<1>11. /\ thread' \in [Threads -> ThreadType]
       /\ \A s \in Threads : s # t => thread'[s] = thread[s]
    BY <1>4, <1>8
<1> QED
    BY <1>2, <1>3, <1>8, <1>9, <1>10, <1>11 DEF ThreadChange

\* None of it disturbs the map, the requests or what they promised.
LEMMA ThreadKeepsMap ==
    ASSUME IInv, NEW t \in Threads, Looping(t) \/ Sending(t)
    PROVE  /\ RowsSane' /\ DownIsBlank' /\ LifecycleHeld' /\ RequestsKnow' /\ SlotsTrue'
           /\ Accounted' /\ OneTimer' /\ RemovedIsRemoved' /\ NoStrandedSchedule' /\ Silenced'
           /\ StoppedStaysStopped' /\ Notified'
<1> DEFINE own == thread[t].d
<1>1. ThreadChange(t) /\ own \in Dunks
    BY ThreadChanges
<1>2. /\ \A d \in Dunks : Aged(row[d], row'[d]) /\ (d # own => row'[d] = row[d])
      /\ row' \in [Dunks -> Rows]
      /\ disk' = disk \/ Save
    BY <1>1, ThreadRows DEF IInv
<1>3. /\ TypeOK /\ RowsSane /\ LifecycleHeld /\ RequestsKnow /\ SlotsTrue /\ Accounted /\ OneTimer
      /\ RemovedIsRemoved /\ NoStrandedSchedule /\ Silenced /\ StoppedStaysStopped /\ Notified
    BY DEF IInv
<1>4. /\ slot' = slot /\ client' = client /\ lifecycle' = lifecycle /\ quiet' = quiet
      /\ durable' = durable /\ up' = up /\ up
    BY <1>1 DEF ThreadChange, Outside, requests
<1>5. row[own].state # "new" /\ Live(t)
    BY <1>1, <1>3 DEF Accounted, ThreadChange
<1>6. \A d \in Dunks : /\ row'[d].state # "new" <=> row[d].state # "new"
                       /\ row'[d].running => row[d].running
                       /\ IsRunning(d)' => IsRunning(d)
                       /\ row[d].state = "removed" => row'[d].state = "removed"
    BY <1>2, <1>5 DEF Aged, IsRunning, Listed
<1>7. \A s \in Threads : /\ thread'[s].d = thread[s].d /\ thread'[s].cancelled = thread[s].cancelled
                         /\ Live(s)' => Live(s)
    BY <1>1 DEF ThreadChange, Live
<1>8. /\ slot \in [Dunks -> Threads \cup {None}] /\ disk \in [Dunks -> Rows] /\ row \in [Dunks -> Rows]
      /\ lifecycle \in Clients \cup {None} /\ client \in [Clients -> ClientType]
    BY <1>3, TypesByParts
<1>9. \A d \in Dunks : Scheduled(d) /\ ~thread[slot[d]].cancelled /\ IsRunning(d)' => Scheduled(d)'
    <2> SUFFICES ASSUME NEW d \in Dunks, Scheduled(d), ~thread[slot[d]].cancelled, IsRunning(d)'
                 PROVE  Scheduled(d)'
        OBVIOUS
    <2>1. slot[d] \in Threads /\ thread[slot[d]].d = d
        BY <1>3, <1>8 DEF Scheduled, SlotsTrue
    <2>2. CASE slot[d] # t
        BY <1>1, <1>4, <2>1, <2>2 DEF ThreadChange, Scheduled, Live
    <2>3. CASE slot[d] = t
        <3>1. d = own /\ IsRunning(own) /\ row'[own].state = "listed" /\ row[own].state = "listed"
            BY <1>6, <2>1, <2>3 DEF IsRunning, Listed
        <3>2. thread[t].at # "removed"
            BY <1>3, <3>1 DEF RemovedIsRemoved
        <3>3. thread'[t].at \notin {"free", "over"}
            BY <1>1, <2>3, <3>1, <3>2 DEF ThreadChange
        <3> QED
            BY <1>4, <2>3, <3>3, <2>1, NoneIsNobody DEF Scheduled, Live
    <2> QED
        BY <2>2, <2>3
<1>10. RowsSane'
    <2>1. \A d \in Dunks : Sane(row'[d])
        BY <1>2, <1>3, <1>5 DEF RowsSane, Sane, Aged
    <2>2. \A d \in Dunks : Sane(disk'[d])
        <3>1. CASE disk' = disk
            BY <1>3, <3>1 DEF RowsSane
        <3>2. CASE Save
            <4>1. ASSUME NEW d \in Dunks PROVE Sane([row[d] EXCEPT !.due = FALSE])
                BY <1>3, <1>8 DEF RowsSane, Sane, Rows
            <4> QED
                BY <3>2, <4>1 DEF Save
        <3> QED
            BY <1>2, <3>1, <3>2
    <2> QED
        BY <2>1, <2>2 DEF RowsSane
<1>11. DownIsBlank' /\ LifecycleHeld'
    BY <1>3, <1>4 DEF DownIsBlank, LifecycleHeld
<1>12. RequestsKnow'
    <2> SUFFICES ASSUME NEW c \in Clients, NEW d \in client[c].ds PROVE RequestKnows(c, d)'
        BY <1>4 DEF RequestsKnow
    <2>1. d \in Dunks /\ RequestKnows(c, d)
        BY <1>3, <1>8 DEF RequestsKnow, ClientType
    <2>2. Scheduled(d) => ~thread[slot[d]].cancelled
        BY <1>3, <2>1 DEF Scheduled, SlotsTrue
    <2> QED
        BY <1>4, <1>6, <1>9, <2>1, <2>2 DEF RequestKnows
<1>13. SlotsTrue'
    BY <1>1, <1>3, <1>4, <1>7, <1>8, NoneIsNobody DEF SlotsTrue, ThreadChange
<1>14. Accounted'
    BY <1>1, <1>3, <1>4, <1>6, <1>7 DEF Accounted, Awaited
<1>15. OneTimer'
    BY <1>3, <1>7 DEF OneTimer
<1>16. RemovedIsRemoved'
    <2> SUFFICES ASSUME NEW s \in Threads, thread'[s].at = "removed"
                 PROVE  row'[thread[s].d].state = "removed"
        BY <1>7 DEF RemovedIsRemoved
    <2>1. CASE s = t
        BY <1>1, <2>1 DEF ThreadChange
    <2>2. CASE s # t
        <3>1. thread[s].at = "removed" /\ thread[s].d \in Dunks
            BY <1>1, <1>3, <2>2 DEF ThreadChange, Accounted, Live
        <3> QED
            BY <1>3, <1>6, <3>1 DEF RemovedIsRemoved
    <2> QED
        BY <2>1, <2>2
<1>17. NoStrandedSchedule'
    <2> SUFFICES ASSUME NEW d \in Dunks, IsRunning(d)',
                        ~(lifecycle # None /\ d \in client[lifecycle].ds)
                 PROVE  (slot[d] # None /\ Live(slot[d]) /\ ~thread[slot[d]].cancelled)'
        BY <1>4 DEF NoStrandedSchedule
    <2>1. Scheduled(d) /\ ~thread[slot[d]].cancelled
        BY <1>3, <1>4, <1>6 DEF NoStrandedSchedule, Scheduled
    <2> QED
        BY <1>4, <1>7, <1>8, <1>9, <2>1 DEF Scheduled
<1>18. Silenced'
    <2>1. \A d \in Dunks : \/ disk'[d] = disk[d]
                           \/ disk'[d].running = row[d].running /\ disk'[d].state = row[d].state
        BY <1>2, <1>8 DEF Save, Rows
    <2> QED
        BY <1>3, <1>4, <1>6, <2>1 DEF Silenced
<1>19. StoppedStaysStopped'
    BY <1>3, <1>4, <1>7, <1>18 DEF StoppedStaysStopped, Silenced
<1>20. Notified'
    <2> SUFFICES ASSUME NEW s \in Threads, thread'[s].stale
                 PROVE  /\ thread[s].d \in Dunks
                        /\ \/ thread'[s].wake \/ thread[s].cancelled
                           \/ \E c \in Clients : client[c].at = "wake" /\ thread[s].d \in client[c].ds
                           \/ slot[thread[s].d] # s
        BY <1>4, <1>7 DEF Notified
    <2>1. thread[s].stale /\ (thread[s].wake => thread'[s].wake)
        BY <1>1 DEF ThreadChange
    <2> QED
        BY <1>3, <2>1 DEF Notified
<1> QED
    BY <1>10, <1>11, <1>12, <1>13, <1>14, <1>15, <1>16, <1>17, <1>18, <1>19, <1>20

\* Nor does it type anywhere but where it passed the gates.
LEMMA ThreadKeepsGates ==
    ASSUME IInv, NEW t \in Threads, Looping(t) \/ Sending(t)
    PROVE  AllGated'
<1> DEFINE old == thread[t]
           new == thread'[t]
<1>1. ThreadChange(t) /\ old.d \in Dunks
    BY ThreadChanges
<1>2. TypeOK /\ AllGated /\ Accounted
    BY DEF IInv
<1>3. /\ row \in [Dunks -> Rows]
      /\ \A d \in Dunks : row'[d].target = row[d].target
    BY <1>1, <1>2, ThreadRows, TypesByParts DEF Aged
<1>4. old \in ThreadType /\ old.moves \in 0..2
    BY <1>2, TypesByParts DEF ThreadType
<1>5. ASSUME NEW s \in Threads, s # t PROVE Gated(s)'
    <2>1. thread'[s] = thread[s] /\ (Live(s) => thread[s].d \in Dunks)
        BY <1>1, <1>2, <1>5 DEF ThreadChange, Accounted
    <2>2. Gated(s)
        BY <1>2 DEF AllGated
    <2> QED
        BY <1>3, <2>1, <2>2 DEF Gated, Live
<1>6. Gated(t)
    BY <1>2 DEF AllGated
<1> SUFFICES Gated(t)'
    BY <1>5 DEF AllGated
<1>7. CASE ReadFields(t)
    <2>1. /\ new.at \in {"gates", "wait"} /\ new.moves = old.moves
          /\ new.target = row[old.d].target /\ new.d = old.d
        BY <1>1, <1>2, <1>7, ThreadReads
    <2>2. old.moves = 0
        BY <1>6, <1>7 DEF Gated, ReadFields, At
    <2> QED
        BY <1>1, <1>3, <2>1, <2>2 DEF Gated
<1>8. CASE Snapshot(t)
    <2>1. /\ new.at = "send" /\ new.moves = old.moves /\ new.target = old.target /\ new.d = old.d
          /\ new.pane = row[old.d].target
        BY <1>1, <1>2, <1>8, ThreadReads
    <2> QED
        BY <1>1, <1>3, <1>6, <1>8, <2>1 DEF Gated, Snapshot, At
<1>9. CASE Check(t) \/ Pass(t)
    <2>1. \/ Written(t, old, "fields") /\ old.at = "top"
          \/ Written(t, old, "ready") /\ old.at = "gates"
          \/ Written(t, old, "over")
        BY <1>2, <1>9, ThreadFlow DEF Check, Pass, At
    <2> QED
        BY <1>1, <1>3, <1>6, <2>1 DEF Gated, Written, Keeps
<1>10. CASE Permit(t)
    <2>1. \/ Written(t, old, "granted") /\ Permitted(t) /\ old.at = "send"
          \/ Written(t, old, "after")
        BY <1>2, <1>10, ThreadFlow DEF Permit, At
    <2> QED
        BY <1>4, <1>6, <2>1 DEF Gated, Written, Keeps, Permitted
<1>11. CASE TypeDunk(t)
    <2>1. Written(t, old, "typed") /\ old.at = "granted"
        BY <1>2, <1>11, ThreadFlow DEF TypeDunk, At
    <2> QED
        BY <1>6, <2>1 DEF Gated, Written, Keeps
<1>12. CASE ~(ReadFields(t) \/ Snapshot(t) \/ Check(t) \/ Pass(t) \/ Permit(t) \/ TypeDunk(t))
    <2>1. \E s \in {"top", "wait", "held", "over", "after", "count", "capped", "remove", "removed"} :
            \E r : Written(t, r, s)
        BY <1>2, <1>12, ThreadFlow DEF Looping, Sending
    <2> QED
        BY <2>1 DEF Gated, Written, Keeps
<1> QED
    BY <1>7, <1>8, <1>9, <1>10, <1>11, <1>12

\* A send past the cap is the last one of its thread.
LEMMA ThreadKeepsCap ==
    ASSUME IInv, NEW t \in Threads, Looping(t) \/ Sending(t)
    PROVE  past' \in [Dunks -> 0..2] /\ AllSpent' /\ CapEndsSchedule'
<1> DEFINE old == thread[t]
           new == thread'[t]
           own == old.d
<1>1. ThreadChange(t) /\ own \in Dunks
    BY ThreadChanges
<1>2. TypeOK /\ Accounted /\ OneTimer /\ AllSpent /\ CapEndsSchedule
    BY DEF IInv
<1>3. /\ row \in [Dunks -> Rows] /\ row' \in [Dunks -> Rows] /\ past \in [Dunks -> 0..2]
      /\ \A d \in Dunks : Aged(row[d], row'[d]) /\ (d # own => row'[d] = row[d])
    BY <1>1, <1>2, ThreadRows, TypesByParts
<1>4. \A d \in Dunks : row[d].count = Cap => row'[d].count = Cap
    <2>1. \A d \in Dunks : row'[d].count \in 0..Cap /\ row'[d].count >= row[d].count
        BY <1>3 DEF Aged, Rows
    <2> QED
        BY <2>1, NoneIsNobody
<1>5. \A d \in Dunks : past[d] \in {0, 1}
    BY <1>2, <1>3 DEF CapEndsSchedule
<1>6. \/ past' = past
      \/ past' = [past EXCEPT ![own] = 0]
      \/ /\ past' = [past EXCEPT ![own] = IF past[own] < 2 THEN past[own] + 1 ELSE past[own]]
         /\ row[own].count = Cap /\ old.at = "typed" /\ new.at = "count"
    <2>1. ASSUME NEW ok, Confirm(t, ok) PROVE new.at = "count" /\ old.at = "typed"
        BY <1>2, <2>1, ThreadFlow DEF Written, Keeps, Confirm, At
    <2>2. ASSUME NEW ok, Confirm(t, ok) PROVE <1>6
        BY <2>1, <2>2 DEF Confirm
    <2>3. AfterSend(t) => past' = past \/ past' = [past EXCEPT ![own] = 0]
        BY DEF AfterSend
    <2>4. Looping(t) /\ ~AfterSend(t) => past' = past
        BY DEF Looping, Check, ReadFields, Woken, Timeout, GateCloses, Interrupted, Pass, Snapshot,
               Skip, RemoveSelf, SaveCount, SaveHeld, SaveCapped, SaveRemoved
    <2>5. Permit(t) \/ Blocked(t) \/ TypeDunk(t) => past' = past
        BY DEF Permit, Blocked, TypeDunk
    <2> QED
        BY <2>2, <2>3, <2>4, <2>5 DEF Sending
<1>7. old.at = "typed" => past[own] = 0
    BY <1>1, <1>2 DEF AllSpent, Spent, ThreadChange
<1>8. /\ past' \in [Dunks -> 0..2] /\ \A d \in Dunks : past'[d] \in {0, 1}
      /\ \A d \in Dunks : d # own => past'[d] = past[d]
    BY <1>1, <1>3, <1>5, <1>6, <1>7
<1>9. ASSUME NEW s \in Threads, s # t, Live(s)', past'[thread'[s].d] # 0 PROVE Spent(s)'
    <2>1. thread'[s] = thread[s] /\ Live(s) /\ thread[s].d \in Dunks
        BY <1>1, <1>2, <1>9 DEF ThreadChange, Accounted, Live
    <2>2. thread[s].d # own
        BY <1>1, <1>2, <1>9, <2>1 DEF OneTimer, ThreadChange
    <2>3. Spent(s) /\ row'[thread[s].d] = row[thread[s].d]
        BY <1>2, <1>3, <1>8, <1>9, <2>1, <2>2 DEF AllSpent
    <2> QED
        BY <2>1, <2>3 DEF Spent
<1>10. ASSUME Live(t)', past'[new.d] # 0 PROVE Spent(t)'
    <2>1. new.d = own
        BY <1>1 DEF ThreadChange
    <2>2. CASE past[own] = 0
        <3>1. new.at = "count" /\ row[own].count = Cap
            BY <1>1, <1>3, <1>6, <1>10, <2>1, <2>2
        <3> QED
            BY <1>1, <1>4, <2>1, <3>1 DEF Spent
    <2>3. CASE past[own] # 0
        <3>1. Spent(t) /\ past'[own] = past[own] /\ row'[own].count = Cap
            BY <1>1, <1>2, <1>3, <1>4, <1>6, <1>7, <1>10, <2>1, <2>3 DEF AllSpent, Spent, ThreadChange
        <3>2. \/ SaveCount(t) \/ SaveCapped(t) \/ RemoveSelf(t) \/ SaveRemoved(t)
              \/ AfterSend(t)
            BY <3>1 DEF Spent, Looping, Check, ReadFields, Woken, Timeout, GateCloses, Interrupted,
                        Pass, Snapshot, Skip, SaveHeld, Sending, Permit, Blocked, TypeDunk, Confirm, At
        <3>3. AfterSend(t) => new.at \in {"over", "capped"}
            <4>1. ASSUME AfterSend(t) PROVE old.sent /\ Reached(row[own]) /\ (Leaves(t) \/ ~Moved(t))
                BY <1>1, <1>3, <2>3, <3>1, <4>1, NoneIsNobody DEF AfterSend, At, Spent, Reached
            <4> QED
                BY <1>2, <4>1, ThreadFlow DEF Written, Keeps
        <3>4. SaveCount(t) => new.at = "after" /\ new.sent
            <4>1. old \in ThreadType
                BY <1>2, TypesByParts
            <4>2. [old EXCEPT !.sent = TRUE].sent
                BY <4>1 DEF ThreadType
            <4> QED
                BY <1>2, <4>2, ThreadFlow DEF Written, Keeps
        <3>5. SaveCapped(t) \/ RemoveSelf(t) \/ SaveRemoved(t) => new.at \in {"remove", "removed", "over"}
            BY <1>2, ThreadFlow DEF Written, Keeps
        <3> QED
            BY <1>10, <2>1, <3>1, <3>2, <3>3, <3>4, <3>5 DEF Spent, Live
    <2> QED
        BY <2>2, <2>3
<1> QED
    BY <1>8, <1>9, <1>10 DEF AllSpent, CapEndsSchedule

\* Nor does it take or give back anybody else's pane.
LEMMA ThreadKeepsLocks ==
    ASSUME IInv, NEW t \in Threads, Looping(t) \/ Sending(t)
    PROVE  LocksTrue'
<1> DEFINE old == thread[t]
           new == thread'[t]
<1>1. ThreadChange(t) /\ old.d \in Dunks
    BY ThreadChanges
<1>2. TypeOK /\ LocksTrue /\ Accounted /\ RowsSane
    BY DEF IInv
<1>3. lock \in [Panes -> Threads \cup {None}] /\ None \notin Threads
    BY <1>2, TypesByParts, NoneIsNobody
<1> DEFINE Held(s, r, l) == /\ r.at \in Using => r.pane \in Panes /\ l[r.pane] = s
                            /\ r.at = "send" => r.pane \in Panes
<1>4. \A s \in Threads : Held(s, thread[s], lock)
    BY <1>2 DEF LocksTrue
<1>5. SUFFICES \A s \in Threads : Held(s, thread'[s], lock')
    BY DEF LocksTrue
<1>6. \A s \in Threads : s # t => thread'[s] = thread[s]
    BY <1>1 DEF ThreadChange
<1>7. CASE Snapshot(t)
    <2>1. new.at = "send" /\ new.pane = row[old.d].target /\ lock' = lock
        BY <1>1, <1>2, <1>7, ThreadReads DEF Snapshot
    <2>2. row[old.d].target \in Panes
        BY <1>1, <1>2 DEF ThreadChange, Accounted, RowsSane, Sane
    <2> QED
        BY <1>4, <1>6, <2>1, <2>2 DEF Using
<1>8. CASE ReadFields(t)
    <2>1. new.at \in {"gates", "wait"} /\ lock' = lock
        BY <1>1, <1>2, <1>8, ThreadReads DEF ReadFields
    <2> QED
        BY <1>4, <1>6, <2>1 DEF Using
<1>9. CASE Permit(t)
    <2>1. /\ old.at = "send" /\ lock[old.pane] = None
          /\ \/ Written(t, old, "granted") /\ Permitted(t)
             \/ Written(t, old, "after") /\ ~Permitted(t)
        BY <1>2, <1>9, ThreadFlow DEF Permit, At
    <2>2. CASE Permitted(t)
        <3>1. new.at = "granted" /\ new.pane = old.pane /\ lock' = [lock EXCEPT ![old.pane] = t]
            BY <1>9, <2>1, <2>2 DEF Permit, Written, Keeps
        <3> QED
            BY <1>3, <1>4, <1>6, <2>1, <3>1 DEF Using
    <2>3. CASE ~Permitted(t)
        <3>1. new.at = "after" /\ lock' = lock
            BY <1>9, <2>1, <2>3 DEF Permit, Written, Keeps
        <3> QED
            BY <1>4, <1>6, <3>1 DEF Using
    <2> QED
        BY <2>2, <2>3
<1>10. CASE Blocked(t) \/ SaveCount(t)
    <2>1. /\ old.at \in Using /\ lock' = [lock EXCEPT ![old.pane] = None]
          /\ new.at = "after"
        BY <1>2, <1>10, ThreadFlow DEF Blocked, SaveCount, At, Written, Keeps, Using
    <2> QED
        BY <1>3, <1>4, <1>6, <2>1 DEF Using
<1>11. CASE TypeDunk(t) \/ \E ok \in BOOLEAN : Confirm(t, ok)
    <2>1. /\ old.at \in Using /\ new.at \in Using /\ new.pane = old.pane /\ lock' = lock
        BY <1>2, <1>11, ThreadFlow DEF TypeDunk, Confirm, At, Written, Keeps, Using
    <2> QED
        BY <1>4, <1>6, <2>1 DEF Using
<1>12. CASE Looping(t) /\ ~(Snapshot(t) \/ ReadFields(t) \/ SaveCount(t))
    <2>1. /\ \E s \in ThreadStages \ (Using \cup {"send"}) : \E r : Written(t, r, s)
        BY <1>2, <1>12, ThreadFlow DEF Looping, ThreadStages, Using
    <2>2. lock' = lock
        BY <1>12 DEF Looping, Check, Woken, Timeout, GateCloses, Interrupted, Pass, Skip, AfterSend,
                     RemoveSelf, SaveHeld, SaveCapped, SaveRemoved
    <2> QED
        BY <1>4, <1>6, <2>1, <2>2 DEF Written, Keeps, Using
<1> QED
    BY <1>7, <1>8, <1>9, <1>10, <1>11, <1>12 DEF Sending

\* So every step of a thread keeps the invariant.
LEMMA ThreadStep ==
    ASSUME IInv, NEW t \in Threads, Looping(t) \/ Sending(t)
    PROVE  IInv'
<1>1. TypeOK'
    <2>1. TypeOK /\ ThreadChange(t) /\ thread[t].d \in Dunks
        BY ThreadChanges DEF IInv
    <2>2. /\ row' \in [Dunks -> Rows] /\ lock' \in [Panes -> Threads \cup {None}]
          /\ disk' = disk \/ Save
        BY <2>1, ThreadRows
    <2>3. disk' \in [Dunks -> Rows]
        BY <2>1, <2>2, TypesByParts, RowUpdates DEF Save
    <2>4. past' \in [Dunks -> 0..2]
        BY ThreadKeepsCap
    <2> QED
        BY <2>1, <2>2, <2>3, <2>4 DEF TypeOK, ThreadType, ThreadChange, Outside, requests
<1> QED
    BY <1>1, ThreadKeepsMap, ThreadKeepsGates, ThreadKeepsCap, ThreadKeepsLocks DEF IInv

-------------------------------------------------------------------------------
\* Steps that start and end no thread, and neither take nor hand on the lifecycle lock

\* A snapshot has the rows as they are, but for their deadlines.
LEMMA SaveCopies ==
    ASSUME TypeOK, RowsSane, Save
    PROVE  /\ disk' \in [Dunks -> Rows]
           /\ \A d \in Dunks : /\ Sane(disk'[d]) /\ disk'[d].running = row[d].running
                               /\ disk'[d].state = row[d].state
<1>1. row \in [Dunks -> Rows]
    BY TypesByParts
<1>2. \A d \in Dunks : [row[d] EXCEPT !.due = FALSE] \in Rows
    BY <1>1, RowUpdates
<1> QED
    BY <1>1, <1>2 DEF Save, RowsSane, Sane, Rows

\* Rows are counted, ticked or given another target, the file is written, threads are told
\* something, and requests without the lock go on.
Minor ==
    /\ up /\ UNCHANGED <<up, slot, lock, lifecycle, quiet, past>>
    /\ row' \in [Dunks -> Rows] /\ disk' \in [Dunks -> Rows]
    /\ thread' \in [Threads -> ThreadType]
    /\ client' \in [Clients -> ClientType] /\ durable' \in [Dunks -> BOOLEAN]
    /\ \A d \in Dunks :
        /\ row'[d].state = row[d].state /\ row'[d].running = row[d].running
        /\ row'[d].count >= row[d].count /\ Sane(row'[d]) /\ Sane(disk'[d])
        /\ durable'[d] => quiet[d] /\ ~disk'[d].running /\ disk'[d].state # "new"
    /\ \A t \in Threads :
        /\ thread'[t].d = thread[t].d /\ thread'[t].at = thread[t].at
        /\ thread'[t].pane = thread[t].pane /\ thread'[t].sent = thread[t].sent
        /\ thread'[t].target = thread[t].target /\ thread'[t].cancelled = thread[t].cancelled
    /\ \A c \in Clients :
        \/ client'[c] = client[c]
        \/ /\ client[c].at \notin Holding /\ client'[c].at \notin Holding
           /\ \A d \in client'[c].ds : row[d].state # "new"

\* None of it disturbs the map, the lock, the promises or the cap.
LEMMA MinorKeeps ==
    ASSUME IInv, Minor
    PROVE  /\ TypeOK' /\ RowsSane' /\ DownIsBlank' /\ LifecycleHeld' /\ RequestsKnow' /\ SlotsTrue'
           /\ Accounted' /\ OneTimer' /\ RemovedIsRemoved' /\ NoStrandedSchedule' /\ Silenced'
           /\ StoppedStaysStopped' /\ AllSpent' /\ CapEndsSchedule' /\ LocksTrue'
<1>1. /\ TypeOK /\ RowsSane /\ LifecycleHeld /\ RequestsKnow /\ SlotsTrue /\ Accounted /\ OneTimer
      /\ RemovedIsRemoved /\ NoStrandedSchedule /\ Silenced /\ StoppedStaysStopped /\ AllSpent
      /\ CapEndsSchedule /\ LocksTrue
    BY DEF IInv
<1>2. TypeOK'
    BY <1>1 DEF Minor, TypeOK, ThreadType, ClientType, ClientStages
<1>3. /\ up /\ up' = up /\ slot' = slot /\ lock' = lock /\ lifecycle' = lifecycle /\ quiet' = quiet
      /\ past' = past
    BY DEF Minor
<1>4. /\ slot \in [Dunks -> Threads \cup {None}] /\ lifecycle \in Clients \cup {None}
      /\ client \in [Clients -> ClientType] /\ row \in [Dunks -> Rows] /\ row' \in [Dunks -> Rows]
      /\ client' \in [Clients -> ClientType]
    BY <1>1, TypesByParts DEF Minor
<1>5. \A t \in Threads : /\ thread'[t].d = thread[t].d /\ thread'[t].at = thread[t].at
                         /\ thread'[t].cancelled = thread[t].cancelled
                         /\ Live(t)' <=> Live(t)
    BY DEF Minor, Live
<1>6. \A d \in Dunks : /\ row'[d].state = row[d].state /\ row'[d].running = row[d].running
                       /\ IsRunning(d)' <=> IsRunning(d)
                       /\ Scheduled(d)' <=> Scheduled(d)
    BY <1>3, <1>4, <1>5 DEF Minor, IsRunning, Listed, Scheduled
<1>7. \A c \in Clients : client[c].at \in Holding \/ client'[c].at \in Holding => client'[c] = client[c]
    BY DEF Minor
<1>8. RowsSane' /\ DownIsBlank' /\ LifecycleHeld'
    BY <1>1, <1>3, <1>7 DEF Minor, RowsSane, DownIsBlank, LifecycleHeld
<1>9. RequestsKnow'
    <2> SUFFICES ASSUME NEW c \in Clients, NEW d \in client'[c].ds PROVE RequestKnows(c, d)'
        BY DEF RequestsKnow
    <2>1. d \in Dunks
        BY <1>4 DEF ClientType
    <2>2. CASE client'[c] = client[c]
        BY <1>1, <1>3, <1>6, <2>1, <2>2 DEF RequestsKnow, RequestKnows
    <2>3. CASE client'[c] # client[c]
        BY <1>6, <2>1, <2>3 DEF Minor, RequestKnows, Holding
    <2> QED
        BY <2>2, <2>3
<1>10. SlotsTrue'
    BY <1>1, <1>3, <1>4, <1>5 DEF SlotsTrue
<1>11. Accounted'
    BY <1>1, <1>3, <1>4, <1>5, <1>6, <1>7 DEF Accounted, Awaited, Holding
<1>12. OneTimer' /\ RemovedIsRemoved'
    BY <1>1, <1>5, <1>6 DEF OneTimer, RemovedIsRemoved, Accounted, Live
<1>13. NoStrandedSchedule'
    <2> SUFFICES ASSUME NEW d \in Dunks, IsRunning(d)'
                 PROVE  \/ Scheduled(d) /\ ~thread'[slot[d]].cancelled
                        \/ lifecycle # None /\ d \in client'[lifecycle].ds
        BY <1>3, <1>6 DEF NoStrandedSchedule, Scheduled
    <2>1. \/ Scheduled(d) /\ ~thread[slot[d]].cancelled
          \/ lifecycle # None /\ d \in client[lifecycle].ds
        BY <1>1, <1>3, <1>6 DEF NoStrandedSchedule, Scheduled
    <2>2. lifecycle # None => client'[lifecycle] = client[lifecycle]
        BY <1>1, <1>4, <1>7 DEF LifecycleHeld
    <2> QED
        BY <1>4, <1>5, <2>1, <2>2 DEF Scheduled
<1>14. Silenced'
    BY <1>1, <1>3, <1>6 DEF Minor, Silenced
<1>15. StoppedStaysStopped'
    BY <1>1, <1>3, <1>5, <1>14 DEF StoppedStaysStopped, Silenced
<1>16. AllSpent'
    <2>1. \A d \in Dunks : row[d].count = Cap => row'[d].count = Cap
        <3>1. \A d \in Dunks : row'[d].count \in 0..Cap /\ row'[d].count >= row[d].count
            BY <1>4 DEF Minor, Rows
        <3> QED
            BY <3>1, NoneIsNobody
    <2> QED
        BY <1>1, <1>3, <1>5, <2>1 DEF Minor, AllSpent, Spent, Accounted
<1>17. CapEndsSchedule' /\ LocksTrue'
    BY <1>1, <1>3, <1>5 DEF Minor, CapEndsSchedule, LocksTrue
<1> QED
    BY <1>2, <1>8, <1>9, <1>10, <1>11, <1>12, <1>13, <1>14, <1>15, <1>16, <1>17

\* Threads that nobody told anything keep what the gates showed them.
LEMMA SameThreads ==
    ASSUME IInv, Minor, thread' = thread, \A d \in Dunks : row'[d].target = row[d].target,
           \A c \in Clients : client[c].at = "wake" => client'[c] = client[c]
    PROVE  AllGated' /\ Notified'
<1>1. TypeOK /\ Accounted /\ AllGated /\ Notified /\ slot' = slot
    BY DEF IInv, Minor
<1>2. AllGated'
    BY <1>1 DEF AllGated, Gated, Accounted, Live
<1> QED
    BY <1>1, <1>2 DEF Notified

\* The others' snapshots, the clock and a test send are such steps.
LEMMA RowStep ==
    ASSUME IInv, SaveByOthers \/ \E d \in Dunks : Tick(d) \/ TestSend(d)
    PROVE  IInv'
<1>1. TypeOK /\ RowsSane /\ Silenced
    BY DEF IInv
<1>2. /\ up /\ UNCHANGED <<up, slot, lock, lifecycle, quiet, past>>
      /\ thread' = thread /\ client' = client /\ durable' = durable
    BY DEF SaveByOthers, Tick, TestSend, requests
<1>3. row \in [Dunks -> Rows] /\ disk \in [Dunks -> Rows]
    BY <1>1, TypesByParts
<1>4. row' \in [Dunks -> Rows] /\ \A d \in Dunks :
        /\ row'[d].state = row[d].state /\ row'[d].running = row[d].running
        /\ row'[d].target = row[d].target /\ row'[d].count >= row[d].count
    <2>1. CASE SaveByOthers
        BY <1>3, <2>1, NoneIsNobody DEF SaveByOthers, Rows
    <2>2. ASSUME NEW d \in Dunks, NEW r \in Rows, row' = [row EXCEPT ![d] = r],
                 r.state = row[d].state, r.running = row[d].running, r.target = row[d].target,
                 r.count >= row[d].count
          PROVE  <1>4
        <3>1. \A e \in Dunks : row[e].count \in Nat
            BY <1>3, NoneIsNobody DEF Rows
        <3> QED
            BY <1>3, <2>2, <3>1
    <2>3. ASSUME NEW d \in Dunks, Tick(d) PROVE <1>4
        <3>1. row' = [row EXCEPT ![d] = [row[d] EXCEPT !.due = TRUE]] /\ row[d] \in Rows
            BY <1>3, <2>3 DEF Tick
        <3>2. row[d].count >= row[d].count
            BY <3>1, NoneIsNobody DEF Rows
        <3>3. [row[d] EXCEPT !.due = TRUE] \in Rows
            BY <3>1, RowUpdates
        <3> QED
            BY <2>2, <3>1, <3>2, <3>3 DEF Rows
    <2>4. ASSUME NEW d \in Dunks, TestSend(d) PROVE <1>4
        <3>1. row' = [row EXCEPT ![d] = Counted(row[d])] /\ row[d] \in Rows
            BY <1>3, <2>4 DEF TestSend
        <3>2. Counted(row[d]) \in Rows /\ Counted(row[d]).count >= row[d].count
            BY <3>1, RowUpdates
        <3>3. /\ Counted(row[d]).state = row[d].state /\ Counted(row[d]).running = row[d].running
              /\ Counted(row[d]).target = row[d].target
            BY <3>1 DEF Counted, Rows
        <3> QED
            BY <2>2, <3>1, <3>2, <3>3
    <2> QED
        BY <2>1, <2>3, <2>4
<1>5. disk' \in [Dunks -> Rows] /\ \A d \in Dunks :
        /\ Sane(disk'[d])
        /\ durable[d] => ~disk'[d].running /\ disk'[d].state # "new"
    <2>1. CASE SaveByOthers
        BY <1>1, <2>1, SaveCopies DEF SaveByOthers, Silenced
    <2>2. CASE disk' = disk
        BY <1>1, <1>3, <2>2 DEF Silenced, RowsSane
    <2> QED
        BY <2>1, <2>2 DEF Tick, TestSend
<1>6. Minor
    <2>1. \A d \in Dunks : Sane(row'[d])
        BY <1>1, <1>4 DEF RowsSane, Sane
    <2>2. /\ thread' \in [Threads -> ThreadType] /\ client' \in [Clients -> ClientType]
          /\ durable' \in [Dunks -> BOOLEAN]
        BY <1>1, <1>2, TypesByParts
    <2>3. \A d \in Dunks : durable[d] => quiet[d]
        BY <1>1 DEF Silenced
    <2> QED
        BY <1>2, <1>4, <1>5, <2>1, <2>2, <2>3 DEF Minor
<1> QED
    BY <1>2, <1>4, <1>6, MinorKeeps, SameThreads DEF IInv

\* A request that does not have the lock writes no more than its own record.
LEMMA OneClient ==
    ASSUME TypeOK, NEW c \in Clients, NEW r \in ClientType, client' = [client EXCEPT ![c] = r]
    PROVE  /\ client' \in [Clients -> ClientType] /\ client'[c] = r
           /\ \A e \in Clients : e # c => client'[e] = client[e]
<1>1. client \in [Clients -> ClientType]
    BY TypesByParts
<1> QED
    BY <1>1

\* A request is answered: what it stopped is stopped in the file as well.
LEMMA AnswerStep ==
    ASSUME IInv, NEW c \in Clients, SaveAnswer(c)
    PROVE  IInv'
<1>1. TypeOK /\ RowsSane /\ Silenced
    BY DEF IInv
<1>2. /\ up /\ UNCHANGED <<up, slot, lock, lifecycle, quiet, past>>
      /\ thread' = thread /\ row' = row /\ Save /\ client[c].at = "save"
      /\ durable' = [d \in Dunks |-> durable[d] \/ (d \in client[c].ds /\ quiet[d])]
      /\ client' = [client EXCEPT ![c] = Idle]
    BY DEF SaveAnswer
<1>3. /\ client' \in [Clients -> ClientType] /\ client'[c] = Idle
      /\ \A e \in Clients : e # c => client'[e] = client[e]
    BY <1>1, <1>2, BlankTypes, OneClient
<1>4. Minor
    <2>1. /\ row' \in [Dunks -> Rows] /\ thread' \in [Threads -> ThreadType]
          /\ quiet \in [Dunks -> BOOLEAN] /\ durable \in [Dunks -> BOOLEAN]
        BY <1>1, <1>2, TypesByParts
    <2>2. durable' \in [Dunks -> BOOLEAN] /\ \A d \in Dunks : durable'[d] => quiet[d]
        BY <1>1, <1>2, <2>1 DEF Silenced
    <2>3. disk' \in [Dunks -> Rows] /\ \A d \in Dunks :
            /\ Sane(disk'[d]) /\ disk'[d].running = row[d].running /\ disk'[d].state = row[d].state
        BY <1>1, <1>2, SaveCopies
    <2>4. \A d \in Dunks : row[d].count >= row[d].count
        BY <1>2, <2>1, NoneIsNobody DEF Rows
    <2>5. Idle.at \notin Holding /\ Idle.ds = {} /\ "save" \notin Holding
        BY DEF Idle, Holding
    <2> QED
        BY <1>1, <1>2, <1>3, <2>1, <2>2, <2>3, <2>4, <2>5 DEF Minor, Silenced, RowsSane
<1> QED
    BY <1>2, <1>3, <1>4, MinorKeeps, SameThreads DEF IInv

\* What an edit tells the threads of its dunk, and what interval_changed tells the registered one.
LEMMA EditedThreads ==
    ASSUME TypeOK, NEW d \in Dunks
    PROVE  /\ Edited(d) \in [Threads -> ThreadType]
           /\ \A t \in Threads :
                LET new == Edited(d)[t]
                    old == thread[t]
                IN  /\ new.d = old.d /\ new.at = old.at /\ new.pane = old.pane /\ new.sent = old.sent
                    /\ new.target = old.target /\ new.cancelled = old.cancelled
                    /\ new.wake = old.wake /\ new.moves = old.moves
                    /\ new.stale => old.stale \/ old.d = d
<1>1. thread \in [Threads -> ThreadType]
    BY TypesByParts
<1>2. \A t \in Threads : [thread[t] EXCEPT !.stale = TRUE] \in ThreadType
    BY <1>1, ThreadUpdates
<1>3. Edited(d) \in [Threads -> ThreadType]
    BY <1>1, <1>2 DEF Edited
<1> QED
    BY <1>1, <1>3 DEF Edited, Knows, ThreadType

\* The record of a request that edited a dunk.
LEMMA WakingRequest ==
    ASSUME NEW d \in Dunks
    PROVE  LET r == [Idle EXCEPT !.at = "wake", !.ds = {d}]
           IN  r \in ClientType /\ r.at = "wake" /\ r.ds = {d} /\ r.at \notin Holding
    BY DEF Idle, ClientType, ClientStages, Holding

\* An edit of the schedule: the thread that read the old one is owed a wake.
LEMMA RescheduleStep ==
    ASSUME IInv, NEW c \in Clients, NEW d \in Dunks, Reschedule(c, d)
    PROVE  IInv'
<1>1. TypeOK /\ RowsSane /\ Silenced /\ AllGated /\ Accounted /\ Notified
    BY DEF IInv
<1>2. /\ up /\ UNCHANGED <<up, slot, lock, lifecycle, quiet, past>> /\ disk' = disk /\ durable' = durable
      /\ client[c].at = "idle" /\ row[d].state = "listed" /\ thread' = Edited(d)
      /\ row' = [row EXCEPT ![d] = [row[d] EXCEPT !.due = FALSE]]
      /\ client' = [client EXCEPT ![c] = [Idle EXCEPT !.at = "wake", !.ds = {d}]]
    BY DEF Reschedule, IsRunning, Listed
<1>3. /\ row \in [Dunks -> Rows] /\ disk \in [Dunks -> Rows] /\ durable \in [Dunks -> BOOLEAN]
      /\ thread \in [Threads -> ThreadType] /\ client \in [Clients -> ClientType]
    BY <1>1, TypesByParts
<1>4. /\ client' \in [Clients -> ClientType]
      /\ client'[c].at = "wake" /\ client'[c].ds = {d}
      /\ \A e \in Clients : e # c => client'[e] = client[e]
    BY <1>1, <1>2, WakingRequest, OneClient
<1>5. row' \in [Dunks -> Rows] /\ \A e \in Dunks :
        /\ row'[e].state = row[e].state /\ row'[e].running = row[e].running
        /\ row'[e].target = row[e].target /\ row'[e].count >= row[e].count
    <2>1. \A e \in Dunks : row[e].count \in Nat
        BY <1>3, NoneIsNobody DEF Rows
    <2>2. [row[d] EXCEPT !.due = FALSE] \in Rows
        BY <1>3, RowUpdates
    <2>3. \A e \in Dunks : /\ row'[e].state = row[e].state /\ row'[e].running = row[e].running
                           /\ row'[e].target = row[e].target /\ row'[e].count = row[e].count
        BY <1>2, <1>3 DEF Rows
    <2> QED
        BY <1>2, <1>3, <2>1, <2>2, <2>3
<1>6. Minor
    <2>1. \A e \in Dunks : Sane(row'[e]) /\ Sane(disk[e])
        BY <1>1, <1>5 DEF RowsSane, Sane
    <2>2. client[c].at \notin Holding /\ client'[c].at \notin Holding
        BY <1>2, <1>4 DEF Holding
    <2>3. /\ thread' \in [Threads -> ThreadType]
          /\ \A t \in Threads :
                /\ thread'[t].d = thread[t].d /\ thread'[t].at = thread[t].at
                /\ thread'[t].pane = thread[t].pane /\ thread'[t].sent = thread[t].sent
                /\ thread'[t].target = thread[t].target /\ thread'[t].cancelled = thread[t].cancelled
        BY <1>1, <1>2, EditedThreads
    <2>4. \A e \in client'[c].ds : row[e].state # "new"
        BY <1>2, <1>4
    <2> QED
        BY <1>1, <1>2, <1>3, <1>4, <1>5, <2>1, <2>2, <2>3, <2>4 DEF Minor, Silenced
<1>7. AllGated'
    BY <1>1, <1>2, <1>5, EditedThreads DEF AllGated, Gated, Accounted, Live
<1>8. Notified'
    <2> SUFFICES ASSUME NEW t \in Threads, thread'[t].stale
                 PROVE  /\ thread'[t].d \in Dunks
                        /\ \/ thread'[t].wake \/ thread'[t].cancelled
                           \/ \E e \in Clients : client'[e].at = "wake" /\ thread'[t].d \in client'[e].ds
                           \/ slot[thread'[t].d] # t
        BY <1>2 DEF Notified
    <2>1. CASE thread[t].d = d
        BY <1>1, <1>2, <1>4, <2>1, EditedThreads
    <2>2. CASE thread[t].d # d
        BY <1>1, <1>2, <1>4, <2>2, EditedThreads DEF Notified
    <2> QED
        BY <2>1, <2>2
<1> QED
    BY <1>6, <1>7, <1>8, MinorKeeps DEF IInv

\* An edit of the target: the same, and each thread counts one move more.
LEMMA RetargetStep ==
    ASSUME IInv, NEW c \in Clients, NEW d \in Dunks, NEW p \in Panes, Retarget(c, d, p)
    PROVE  IInv'
<1>1. TypeOK /\ RowsSane /\ Silenced /\ AllGated /\ Accounted /\ Notified
    BY DEF IInv
<1> DEFINE Counts(t) == /\ Knows(t, d) /\ thread[t].at \in {"gates", "ready", "send", "granted"}
                        /\ thread[t].moves < 2
<1>2. /\ up /\ UNCHANGED <<up, slot, lock, lifecycle, quiet, past>> /\ disk' = disk /\ durable' = durable
      /\ client[c].at = "idle" /\ row[d].state = "listed" /\ row[d].target # p
      /\ row' = [row EXCEPT ![d] = [row[d] EXCEPT !.target = p]]
      /\ client' = [client EXCEPT ![c] = [Idle EXCEPT !.at = "wake", !.ds = {d}]]
    BY DEF Retarget, Listed
<1>3. /\ row \in [Dunks -> Rows] /\ disk \in [Dunks -> Rows] /\ durable \in [Dunks -> BOOLEAN]
      /\ thread \in [Threads -> ThreadType] /\ client \in [Clients -> ClientType]
    BY <1>1, TypesByParts
<1>4. /\ client' \in [Clients -> ClientType]
      /\ client'[c].at = "wake" /\ client'[c].ds = {d}
      /\ \A e \in Clients : e # c => client'[e] = client[e]
    BY <1>1, <1>2, WakingRequest, OneClient
<1>5. row' \in [Dunks -> Rows] /\ \A e \in Dunks :
        /\ row'[e].state = row[e].state /\ row'[e].running = row[e].running
        /\ row'[e].target = (IF e = d THEN p ELSE row[e].target) /\ row'[e].count >= row[e].count
    <2>1. \A e \in Dunks : row[e].count \in Nat
        BY <1>3, NoneIsNobody DEF Rows
    <2>2. [row[d] EXCEPT !.target = p] \in Rows
        BY <1>3, RowUpdates
    <2>3. \A e \in Dunks : /\ row'[e].state = row[e].state /\ row'[e].running = row[e].running
                           /\ row'[e].target = (IF e = d THEN p ELSE row[e].target)
                           /\ row'[e].count = row[e].count
        BY <1>2, <1>3 DEF Rows
    <2> QED
        BY <1>2, <1>3, <2>1, <2>2, <2>3
<1>6. thread' \in [Threads -> ThreadType] /\ \A t \in Threads :
        LET new == thread'[t]
            old == thread[t]
        IN  /\ new.d = old.d /\ new.at = old.at /\ new.pane = old.pane /\ new.sent = old.sent
            /\ new.target = old.target /\ new.cancelled = old.cancelled /\ new.wake = old.wake
            /\ new.stale => old.stale \/ old.d = d
            /\ new.moves = IF Counts(t) THEN old.moves + 1 ELSE old.moves
    <2>1. thread' = [t \in Threads |-> IF Counts(t)
                                       THEN [Edited(d)[t] EXCEPT !.moves = Edited(d)[t].moves + 1]
                                       ELSE Edited(d)[t]]
        BY DEF Retarget
    <2>2. \A t \in Threads : Counts(t) => Edited(d)[t].moves + 1 \in 0..2
        <3>1. \A t \in Threads : thread[t].moves \in 0..2 /\ Edited(d)[t].moves = thread[t].moves
            BY <1>1, <1>3, EditedThreads DEF ThreadType
        <3> QED
            BY <3>1
    <2>3. \A t \in Threads : \A n \in 0..2 : [Edited(d)[t] EXCEPT !.moves = n] \in ThreadType
        BY <1>1, EditedThreads DEF ThreadType
    <2>4. \A t \in Threads : \A n \in 0..2 :
            LET new == [Edited(d)[t] EXCEPT !.moves = n]
                old == Edited(d)[t]
            IN  /\ new.d = old.d /\ new.at = old.at /\ new.pane = old.pane /\ new.sent = old.sent
                /\ new.target = old.target /\ new.cancelled = old.cancelled
                /\ new.wake = old.wake /\ new.stale = old.stale /\ new.moves = n
        BY <1>1, EditedThreads DEF ThreadType
    <2> HIDE DEF Counts
    <2>5. ASSUME NEW t \in Threads, Counts(t)
          PROVE  thread'[t] = [Edited(d)[t] EXCEPT !.moves = Edited(d)[t].moves + 1]
        BY <2>1, <2>5
    <2>6. ASSUME NEW t \in Threads, ~Counts(t) PROVE thread'[t] = Edited(d)[t]
        BY <2>1, <2>6
    <2>7. thread' \in [Threads -> ThreadType]
        <3>1. \A t \in Threads : thread'[t] \in ThreadType
            BY <1>1, <2>2, <2>3, <2>5, <2>6, EditedThreads
        <3>2. thread' = [t \in Threads |-> thread'[t]]
            BY <2>1
        <3> QED
            BY <3>1, <3>2
    <2>8. ASSUME NEW t \in Threads
          PROVE  LET new == thread'[t]
                     old == Edited(d)[t]
                 IN  /\ new.d = old.d /\ new.at = old.at /\ new.pane = old.pane /\ new.sent = old.sent
                     /\ new.target = old.target /\ new.cancelled = old.cancelled
                     /\ new.wake = old.wake /\ new.stale = old.stale
                     /\ new.moves = IF Counts(t) THEN old.moves + 1 ELSE old.moves
        <3>1. CASE Counts(t)
            <4> DEFINE n == Edited(d)[t].moves + 1
            <4>1. n \in 0..2 /\ thread'[t] = [Edited(d)[t] EXCEPT !.moves = n]
                BY <2>2, <2>5, <3>1
            <4> HIDE DEF n
            <4>2. LET new == thread'[t]
                      old == Edited(d)[t]
                  IN  /\ new.d = old.d /\ new.at = old.at /\ new.pane = old.pane
                      /\ new.sent = old.sent /\ new.target = old.target
                      /\ new.cancelled = old.cancelled /\ new.wake = old.wake
                      /\ new.stale = old.stale /\ new.moves = n
                BY <2>4, <4>1
            <4> QED
                BY <3>1, <4>2 DEF n
        <3>2. CASE ~Counts(t)
            BY <2>6, <3>2
        <3> QED
            BY <3>1, <3>2
    <2> QED
        BY <1>1, <2>7, <2>8, EditedThreads
<1>7. Minor
    <2>1. \A e \in Dunks : Sane(row'[e]) /\ Sane(disk[e])
        BY <1>1, <1>2, <1>5 DEF RowsSane, Sane
    <2>2. client[c].at \notin Holding /\ client'[c].at \notin Holding
        BY <1>2, <1>4 DEF Holding
    <2> QED
        BY <1>1, <1>2, <1>3, <1>4, <1>5, <1>6, <2>1, <2>2 DEF Minor, Silenced
<1>8. ASSUME NEW t \in Threads PROVE Gated(t)'
    <2>1. Gated(t) /\ (Live(t) => thread[t].d \in Dunks) /\ thread[t].moves \in 0..2
        BY <1>1, <1>3 DEF AllGated, Accounted, ThreadType
    <2>2. CASE thread[t].d # d
        BY <1>5, <1>6, <2>1, <2>2 DEF Gated, Live, Knows
    <2>3. CASE thread[t].d = d
        BY <1>2, <1>5, <1>6, <2>1, <2>3 DEF Gated, Live, Knows
    <2> QED
        BY <2>2, <2>3
<1>9. Notified'
    <2> SUFFICES ASSUME NEW t \in Threads, thread'[t].stale
                 PROVE  /\ thread'[t].d \in Dunks
                        /\ \/ thread'[t].wake \/ thread'[t].cancelled
                           \/ \E e \in Clients : client'[e].at = "wake" /\ thread'[t].d \in client'[e].ds
                           \/ slot[thread'[t].d] # t
        BY <1>2 DEF Notified
    <2>1. CASE thread[t].d = d
        BY <1>4, <1>6, <2>1
    <2>2. CASE thread[t].d # d
        BY <1>1, <1>2, <1>4, <1>6, <2>2 DEF Notified
    <2> QED
        BY <2>1, <2>2
<1> QED
    BY <1>7, <1>8, <1>9, MinorKeeps DEF IInv, AllGated

\* The wake is delivered to the threads that are in the map by then.
LEMMA WakeStep ==
    ASSUME IInv, NEW c \in Clients, Wake(c)
    PROVE  IInv'
<1>1. TypeOK /\ RowsSane /\ Silenced /\ AllGated /\ Accounted /\ Notified /\ SlotsTrue /\ RequestsKnow
    BY DEF IInv
<1> DEFINE ds == client[c].ds
           ts == {slot[d] : d \in ds} \ {None}
<1>2. /\ up /\ UNCHANGED <<up, slot, lock, lifecycle, quiet, past>> /\ disk' = disk /\ durable' = durable
      /\ row' = row /\ client[c].at = "wake"
      /\ thread' = [t \in Threads |-> IF t \in ts THEN [thread[t] EXCEPT !.wake = TRUE] ELSE thread[t]]
      /\ client' = [client EXCEPT ![c] = IF \A d \in ds : Listed(d)
                                          THEN [client[c] EXCEPT !.at = "save"] ELSE Idle]
    BY DEF Wake
<1>3. /\ row \in [Dunks -> Rows] /\ disk \in [Dunks -> Rows] /\ durable \in [Dunks -> BOOLEAN]
      /\ thread \in [Threads -> ThreadType] /\ client \in [Clients -> ClientType]
      /\ slot \in [Dunks -> Threads \cup {None}]
    BY <1>1, TypesByParts
<1>4. /\ client' \in [Clients -> ClientType]
      /\ client'[c].at \in {"save", "idle"} /\ client'[c].ds \subseteq ds
      /\ \A e \in Clients : e # c => client'[e] = client[e]
    <2>1. /\ [client[c] EXCEPT !.at = "save"] \in ClientType
          /\ [client[c] EXCEPT !.at = "save"].at = "save" /\ [client[c] EXCEPT !.at = "save"].ds = ds
        BY <1>3 DEF ClientType, ClientStages
    <2>2. Idle \in ClientType /\ Idle.at = "idle" /\ Idle.ds = {}
        BY BlankTypes DEF Idle
    <2> QED
        BY <1>1, <1>2, <2>1, <2>2, OneClient
<1>5. thread' \in [Threads -> ThreadType] /\ \A t \in Threads :
        LET new == thread'[t]
            old == thread[t]
        IN  /\ new.d = old.d /\ new.at = old.at /\ new.pane = old.pane /\ new.sent = old.sent
            /\ new.target = old.target /\ new.cancelled = old.cancelled /\ new.stale = old.stale
            /\ new.moves = old.moves /\ (old.wake => new.wake) /\ (t \in ts => new.wake)
    <2>1. \A t \in Threads : [thread[t] EXCEPT !.wake = TRUE] \in ThreadType
        BY <1>3, ThreadUpdates
    <2>2. thread' \in [Threads -> ThreadType]
        BY <1>2, <1>3, <2>1
    <2> HIDE DEF ts
    <2> QED
        BY <1>2, <1>3, <2>2 DEF ThreadType
<1>6. Minor
    <2>1. \A e \in Dunks : row[e].count >= row[e].count
        BY <1>3, NoneIsNobody DEF Rows
    <2>2. client[c].at \notin Holding /\ client'[c].at \notin Holding
        BY <1>2, <1>4 DEF Holding
    <2>3. \A d \in client'[c].ds : row[d].state # "new"
        BY <1>1, <1>4 DEF RequestsKnow, RequestKnows
    <2> HIDE DEF ts
    <2> QED
        BY <1>1, <1>2, <1>3, <1>4, <1>5, <2>1, <2>2, <2>3 DEF Minor, Silenced, RowsSane
<1>7. AllGated'
    BY <1>1, <1>2, <1>5 DEF AllGated, Gated
<1>8. Notified'
    <2> SUFFICES ASSUME NEW t \in Threads, thread'[t].stale
                 PROVE  /\ thread'[t].d \in Dunks
                        /\ \/ thread'[t].wake \/ thread'[t].cancelled
                           \/ \E e \in Clients : client'[e].at = "wake" /\ thread'[t].d \in client'[e].ds
                           \/ slot[thread'[t].d] # t
        BY <1>2 DEF Notified
    <2>1. CASE thread[t].d \in ds /\ slot[thread[t].d] = t
        <3>1. t \in ts
            BY <2>1, NoneIsNobody
        <3> QED
            BY <1>1, <1>5, <3>1 DEF Notified
    <2>2. CASE ~(thread[t].d \in ds /\ slot[thread[t].d] = t)
        BY <1>1, <1>4, <1>5, <2>2 DEF Notified
    <2> QED
        BY <2>1, <2>2
<1> QED
    BY <1>6, <1>7, <1>8, MinorKeeps DEF IInv

-------------------------------------------------------------------------------
\* Requests that take the lifecycle lock

\* A request for the dunks ds gets the lock, and changes the rows of these dunks before anything
\* else happens.  A dunk it starts is not a stopped one any more.
EntryChange(c, ds) ==
    /\ up /\ UNCHANGED <<up, disk, slot, thread, lock, past>>
    /\ lifecycle = None /\ lifecycle' = c /\ client[c].at = "idle"
    /\ row' \in [Dunks -> Rows]
    /\ client' \in [Clients -> ClientType]
    /\ \A e \in Clients : e # c => client'[e] = client[e]
    /\ client'[c].ds = ds /\ client'[c].at \in {"spawn", "leave", "cancel"}
    /\ quiet' \in [Dunks -> BOOLEAN] /\ durable' \in [Dunks -> BOOLEAN]
    /\ \A d \in Dunks \ ds : row'[d] = row[d]
    /\ \A d \in Dunks : /\ quiet'[d] => quiet[d] /\ ~row'[d].running
                        /\ durable'[d] => durable[d] /\ quiet'[d]
    /\ \A d \in ds :
        /\ row'[d].state = "listed" /\ row'[d].target \in Panes
        /\ row[d].state # "new" => /\ row[d].state = "listed"
                                   /\ row'[d].target = row[d].target /\ row'[d].count = row[d].count
        /\ client'[c].at = "spawn" => ~quiet'[d] /\ ds = {d}
        /\ client'[c].at = "leave" /\ row'[d].running => Scheduled(d)
        /\ client'[c].at = "cancel" /\ client'[c].stops => ~row'[d].running

\* They keep the invariant, because no other request is in the middle of its own.
LEMMA EntryKeeps ==
    ASSUME IInv, NEW c \in Clients, NEW ds \in SUBSET Dunks, EntryChange(c, ds)
    PROVE  IInv'
<1>1. /\ TypeOK /\ RowsSane /\ LifecycleHeld /\ RequestsKnow /\ SlotsTrue /\ Accounted /\ OneTimer
      /\ RemovedIsRemoved /\ NoStrandedSchedule /\ Silenced /\ StoppedStaysStopped /\ AllGated
      /\ Notified /\ AllSpent /\ CapEndsSchedule /\ LocksTrue
    BY DEF IInv
<1>2. /\ up /\ up' = up /\ disk' = disk /\ slot' = slot /\ thread' = thread /\ lock' = lock
      /\ past' = past /\ lifecycle = None /\ lifecycle' = c
    BY DEF EntryChange
<1>3. TypeOK'
    BY <1>1, <1>2 DEF EntryChange, TypeOK, ClientType, ClientStages
<1>4. \A e \in Clients : client[e].at \notin Holding
    BY <1>1, <1>2, NoneIsNobody DEF LifecycleHeld
<1>5. \A d \in Dunks : row[d].state # "new" => /\ row'[d].state = row[d].state
                                               /\ row'[d].target = row[d].target
                                               /\ row'[d].count = row[d].count
    BY DEF EntryChange
<1>6. \A t \in Threads : Live(t) =>
        thread[t].d \in Dunks /\ row[thread[t].d].state # "new" /\ slot[thread[t].d] = t
    BY <1>1, <1>2 DEF Accounted, Awaited
<1>7. RowsSane' /\ DownIsBlank'
    BY <1>1, <1>2 DEF EntryChange, RowsSane, Sane, DownIsBlank
<1>8. LifecycleHeld'
    BY <1>2, <1>4 DEF EntryChange, LifecycleHeld, Holding
<1>9. RequestsKnow'
    <2> SUFFICES ASSUME NEW e \in Clients, NEW d \in client'[e].ds PROVE RequestKnows(e, d)'
        BY DEF RequestsKnow
    <2>1. CASE e = c
        BY <1>2, <2>1 DEF EntryChange, RequestKnows, IsRunning, Scheduled, Live
    <2>2. CASE e # c
        <3>1. client'[e] = client[e] /\ d \in Dunks /\ row[d].state # "new"
            BY <1>1, <2>2, TypesByParts DEF EntryChange, RequestsKnow, RequestKnows, ClientType
        <3> QED
            BY <1>4, <1>5, <3>1 DEF RequestKnows, Holding
    <2> QED
        BY <2>1, <2>2
<1>10. SlotsTrue' /\ OneTimer'
    BY <1>1, <1>2 DEF SlotsTrue, OneTimer, Live
<1>11. Accounted'
    BY <1>2, <1>5, <1>6 DEF Accounted, Live
<1>12. RemovedIsRemoved'
    BY <1>1, <1>2, <1>5, <1>6 DEF RemovedIsRemoved, Live
<1>13. NoStrandedSchedule'
    <2> SUFFICES ASSUME NEW d \in Dunks, IsRunning(d)', d \notin ds
                 PROVE  slot[d] # None /\ Live(slot[d]) /\ ~thread[slot[d]].cancelled
        BY <1>2, NoneIsNobody DEF EntryChange, NoStrandedSchedule, Live
    <2>1. IsRunning(d)
        BY DEF EntryChange, IsRunning, Listed
    <2> QED
        BY <1>1, <1>2, <2>1 DEF NoStrandedSchedule
<1>14. Silenced'
    BY <1>1, <1>2, <1>5 DEF EntryChange, Silenced
<1>15. StoppedStaysStopped'
    BY <1>1, <1>2, <1>14 DEF EntryChange, StoppedStaysStopped, Silenced, Live
<1>16. AllGated'
    BY <1>1, <1>2, <1>5, <1>6 DEF AllGated, Gated, Live
<1>17. Notified'
    BY <1>1, <1>2 DEF EntryChange, Notified
<1>18. AllSpent' /\ CapEndsSchedule' /\ LocksTrue'
    BY <1>1, <1>2, <1>5, <1>6 DEF AllSpent, Spent, CapEndsSchedule, LocksTrue, Live
<1> QED
    BY <1>3, <1>7, <1>8, <1>9, <1>10, <1>11, <1>12, <1>13, <1>14, <1>15, <1>16, <1>17, <1>18 DEF IInv

\* The rows a request with the lock writes.
LEMMA ScheduleUpdates ==
    ASSUME NEW r \in Rows
    PROVE  /\ Started(r) \in Rows /\ Started(r).state = r.state /\ Started(r).target = r.target
           /\ Started(r).count = r.count
           /\ Stopped(r) \in Rows /\ Stopped(r).state = r.state /\ Stopped(r).target = r.target
           /\ Stopped(r).count = r.count /\ ~Stopped(r).running
    BY RowUpdates DEF Started, Stopped, Rows

\* A dunk that is added is listed and has its pane.
LEMMA AddedRow ==
    ASSUME NEW p \in Panes, NEW start \in BOOLEAN
    PROVE  LET r == [Unlisted EXCEPT !.state = "listed", !.target = p, !.running = start]
           IN  r \in Rows /\ r.state = "listed" /\ r.target = p
    BY BlankTypes DEF Unlisted, Rows

\* A request that took the lock knows which dunks it is about.
LEMMA EntryRequest ==
    ASSUME NEW ds \in SUBSET Dunks, NEW s \in ClientStages
    PROVE  LET r == [Idle EXCEPT !.at = s, !.ds = ds]
           IN  r \in ClientType /\ r.at = s /\ r.ds = ds
    BY DEF Idle, ClientType, ClientStages

\* Which requests they are.
LEMMA EntryStep ==
    ASSUME IInv, NEW c \in Clients, NEW d \in Dunks,
           \/ \E p \in Panes, start \in BOOLEAN : Add(c, d, p, start)
           \/ Start(c, d) \/ ToggleOn(c, d) \/ Stop(c, d) \/ Remove(c, d)
           \/ \E panes \in SUBSET Panes : Halt(c, panes)
    PROVE  IInv'
<1>1. TypeOK /\ RowsSane /\ Silenced
    BY DEF IInv
<1>2. /\ row \in [Dunks -> Rows] /\ client \in [Clients -> ClientType]
      /\ quiet \in [Dunks -> BOOLEAN] /\ durable \in [Dunks -> BOOLEAN]
      /\ \A e \in Dunks : /\ quiet[e] => ~row[e].running /\ row[e].state # "new"
                          /\ durable[e] => quiet[e]
                          /\ row[e].state # "new" => row[e].target \in Panes
    BY <1>1, TypesByParts DEF Silenced, RowsSane, Sane
<1>3. ASSUME NEW p \in Panes, NEW start \in BOOLEAN, Add(c, d, p, start) PROVE EntryChange(c, {d})
    <2>1. /\ row[d].state = "new"
          /\ row' = [row EXCEPT ![d] = [Unlisted EXCEPT !.state = "listed", !.target = p, !.running = start]]
          /\ client' = [client EXCEPT ![c] = [Idle EXCEPT !.at = IF start THEN "spawn" ELSE "leave",
                                                          !.ds = {d}]]
        <3>1. row[d] = Unlisted /\ Unlisted.state = "new"
            BY <1>3 DEF Add, Unlisted
        <3> QED
            BY <1>3, <3>1 DEF Add
    <2>2. row' \in [Dunks -> Rows] /\ row'[d].state = "listed" /\ row'[d].target \in Panes
          /\ row'[d].running = start /\ \A e \in Dunks : e # d => row'[e] = row[e]
        BY <1>2, <2>1, AddedRow DEF Unlisted
    <2>3. /\ client' \in [Clients -> ClientType] /\ client'[c].ds = {d}
          /\ client'[c].at = IF start THEN "spawn" ELSE "leave"
          /\ \A e \in Clients : e # c => client'[e] = client[e]
        <3> DEFINE s == IF start THEN "spawn" ELSE "leave"
                   r == [Idle EXCEPT !.at = s, !.ds = {d}]
        <3>1. s \in ClientStages /\ {d} \in SUBSET Dunks
            BY DEF ClientStages
        <3> HIDE DEF s
        <3>2. r \in ClientType /\ r.at = s /\ r.ds = {d}
            BY <3>1, EntryRequest
        <3>3. client' = [client EXCEPT ![c] = r]
            BY <2>1 DEF s
        <3> HIDE DEF r
        <3>4. /\ client' \in [Clients -> ClientType] /\ client'[c] = r
              /\ \A e \in Clients : e # c => client'[e] = client[e]
            BY <1>1, <3>2, <3>3, OneClient
        <3> QED
            BY <3>2, <3>4 DEF s
    <2>4. ~quiet[d] /\ quiet' = quiet /\ durable' = durable
        BY <1>2, <1>3, <2>1 DEF Add
    <2> QED
        BY <1>2, <1>3, <2>1, <2>2, <2>3, <2>4 DEF Add, Enter, EntryChange
<1>4. ASSUME NEW r \in Rows, Listed(d), row' = [row EXCEPT ![d] = r], r.state = "listed",
             r.target = row[d].target, r.count = row[d].count, NEW s \in {"spawn", "leave"},
             client' = [client EXCEPT ![c] = [Idle EXCEPT !.at = s, !.ds = {d}]],
             s = "leave" => Scheduled(d),
             Restless({d}), Enter(c), UNCHANGED <<up, disk, slot, thread, lock, past>>
      PROVE  EntryChange(c, {d})
    <2>1. /\ row' \in [Dunks -> Rows] /\ row'[d] = r /\ \A e \in Dunks : e # d => row'[e] = row[e]
          /\ r.target \in Panes
        BY <1>2, <1>4 DEF Listed
    <2>2. /\ client' \in [Clients -> ClientType] /\ client'[c].ds = {d} /\ client'[c].at = s
          /\ \A e \in Clients : e # c => client'[e] = client[e]
        <3> DEFINE q == [Idle EXCEPT !.at = s, !.ds = {d}]
        <3>1. s \in ClientStages /\ {d} \in SUBSET Dunks /\ client' = [client EXCEPT ![c] = q]
            BY <1>4 DEF ClientStages
        <3>2. q \in ClientType /\ q.at = s /\ q.ds = {d}
            BY <3>1, EntryRequest
        <3> HIDE DEF q
        <3> QED
            BY <1>1, <3>1, <3>2, OneClient
    <2>3. /\ quiet' \in [Dunks -> BOOLEAN] /\ durable' \in [Dunks -> BOOLEAN]
          /\ ~quiet'[d] /\ ~durable'[d]
          /\ \A e \in Dunks : (quiet'[e] => quiet[e] /\ e # d) /\ (durable'[e] => durable[e] /\ e # d)
          /\ \A e \in Dunks : e # d => quiet'[e] = quiet[e]
        BY <1>2, <1>4 DEF Restless
    <2>4. Enter(c) /\ row[d].state = "listed" /\ UNCHANGED <<up, disk, slot, thread, lock, past>>
        BY <1>4 DEF Listed
    <2> QED
        BY <1>2, <1>4, <2>1, <2>2, <2>3, <2>4 DEF Enter, EntryChange
<1>5. ASSUME Start(c, d) PROVE EntryChange(c, {d})
    <2> DEFINE runs == row[d].running /\ slot[d] # None /\ Live(slot[d])
    <2>1. CASE runs
        <3>1. row' = [row EXCEPT ![d] = row[d]] /\ row[d] \in Rows
            BY <1>2, <1>5, <2>1 DEF Start
        <3> QED
            BY <1>4, <1>5, <2>1, <3>1 DEF Start, Listed, Scheduled
    <2>2. CASE ~runs
        <3>1. /\ row' = [row EXCEPT ![d] = Started(row[d])]
              /\ client' = [client EXCEPT ![c] = [Idle EXCEPT !.at = "spawn", !.ds = {d}]]
            BY <1>5, <2>2 DEF Start
        <3>2. /\ Started(row[d]) \in Rows /\ Started(row[d]).state = "listed"
              /\ Started(row[d]).target = row[d].target /\ Started(row[d]).count = row[d].count
            BY <1>2, <1>5, ScheduleUpdates DEF Start, Listed
        <3> QED
            BY <1>4, <1>5, <3>1, <3>2 DEF Start
    <2> QED
        BY <2>1, <2>2
<1>6. ASSUME ToggleOn(c, d) PROVE EntryChange(c, {d})
    <2>1. /\ Started(row[d]) \in Rows /\ Started(row[d]).state = "listed"
          /\ Started(row[d]).target = row[d].target /\ Started(row[d]).count = row[d].count
        BY <1>2, <1>6, ScheduleUpdates DEF ToggleOn, Listed
    <2> QED
        BY <1>4, <1>6, <2>1 DEF ToggleOn
<1>7. ASSUME NEW ds \in SUBSET Dunks, NEW stops \in BOOLEAN, Enter(c),
             \A e \in ds : row[e].state = "listed",
             row' \in [Dunks -> Rows], \A e \in Dunks : e \notin ds => row'[e] = row[e],
             \A e \in ds : row'[e] = IF stops THEN Stopped(row[e]) ELSE row[e],
             client' = [client EXCEPT ![c] = [at |-> "cancel", ds |-> ds, stops |-> stops]],
             UNCHANGED <<up, disk, slot, thread, lock, quiet, durable, past>>
      PROVE  EntryChange(c, ds)
    <2>1. [at |-> "cancel", ds |-> ds, stops |-> stops] \in ClientType
        BY DEF ClientType, ClientStages
    <2>2. /\ client' \in [Clients -> ClientType] /\ client'[c].ds = ds /\ client'[c].at = "cancel"
          /\ client'[c].stops = stops /\ \A e \in Clients : e # c => client'[e] = client[e]
        BY <1>1, <1>7, <2>1, OneClient
    <2>3. \A e \in ds : /\ row'[e].state = "listed" /\ row'[e].target = row[e].target
                        /\ row'[e].count = row[e].count /\ (stops => ~row'[e].running)
                        /\ row'[e].running => row[e].running
        BY <1>2, <1>7, ScheduleUpdates
    <2>4. \A e \in Dunks : quiet[e] => ~row'[e].running
        BY <1>2, <1>7, <2>3
    <2> QED
        BY <1>2, <1>7, <2>2, <2>3, <2>4 DEF Enter, EntryChange
<1>8. ASSUME Stop(c, d) PROVE EntryChange(c, {d})
    <2>1. Stopped(row[d]) \in Rows
        BY <1>2, ScheduleUpdates
    <2>2. row' = [row EXCEPT ![d] = Stopped(row[d])] /\ row[d].state = "listed"
        BY <1>8 DEF Stop, Listed
    <2>3. /\ row' \in [Dunks -> Rows] /\ row'[d] = Stopped(row[d])
          /\ \A e \in Dunks : e # d => row'[e] = row[e]
        BY <1>2, <2>1, <2>2
    <2>4. /\ \A e \in {d} : row[e].state = "listed" /\ row'[e] = Stopped(row[e])
          /\ \A e \in Dunks : e \notin {d} => row'[e] = row[e]
          /\ {d} \in SUBSET Dunks
        BY <2>2, <2>3
    <2> QED
        BY <1>7, <1>8, <2>3, <2>4 DEF Stop
<1>9. ASSUME Remove(c, d) PROVE EntryChange(c, {d})
    <2>1. /\ \A e \in {d} : row[e].state = "listed" /\ row'[e] = row[e]
          /\ \A e \in Dunks : e \notin {d} => row'[e] = row[e]
          /\ row' \in [Dunks -> Rows] /\ {d} \in SUBSET Dunks
        BY <1>2, <1>9 DEF Remove, Listed
    <2> QED
        BY <1>7, <1>9, <2>1 DEF Remove
<1>10. ASSUME NEW panes \in SUBSET Panes, Halt(c, panes) PROVE \E ds \in SUBSET Dunks : EntryChange(c, ds)
    <2> DEFINE ds == {e \in Dunks : IsRunning(e) /\ row[e].target \in panes}
    <2>1. /\ Enter(c) /\ row' = [e \in Dunks |-> IF e \in ds THEN Stopped(row[e]) ELSE row[e]]
          /\ client' = [client EXCEPT ![c] = [at |-> "cancel", ds |-> ds, stops |-> TRUE]]
          /\ UNCHANGED <<up, disk, slot, thread, lock, quiet, durable, past>>
        BY <1>10 DEF Halt
    <2>2. ds \in SUBSET Dunks /\ \A e \in ds : row[e].state = "listed"
        BY DEF IsRunning, Listed
    <2> HIDE DEF ds
    <2>3. \A e \in Dunks : Stopped(row[e]) \in Rows
        BY <1>2, ScheduleUpdates
    <2>4. /\ row' \in [Dunks -> Rows] /\ \A e \in Dunks : e \notin ds => row'[e] = row[e]
          /\ \A e \in ds : row'[e] = Stopped(row[e])
        BY <1>2, <2>1, <2>2, <2>3
    <2>5. EntryChange(c, ds)
        BY <1>7, <2>1, <2>2, <2>4
    <2> QED
        BY <2>2, <2>5
<1> QED
    BY <1>3, <1>5, <1>6, <1>8, <1>9, <1>10, EntryKeeps

-------------------------------------------------------------------------------
\* The request with the lifecycle lock

\* The request with the lock goes on, and no other one does.
HolderChange(c, stage) ==
    /\ client[c].at \in Holding /\ lifecycle = c
    /\ client' \in [Clients -> ClientType]
    /\ client'[c].at = stage /\ client'[c].ds = client[c].ds /\ client'[c].stops = client[c].stops
    /\ client[c].ds \in SUBSET Dunks
    /\ \A e \in Clients : e # c => client'[e] = client[e] /\ client[e].at \notin Holding
    /\ \A e \in Clients : \A d \in client[e].ds : d \in Dunks /\ row[d].state # "new"
    /\ \A d \in client[c].ds : RequestKnows(c, d)

\* Going on to the next stage is such a step.
LEMMA HolderChanges ==
    ASSUME IInv, NEW c \in Clients, NEW stage \in ClientStages, client[c].at \in Holding, Step(c, stage)
    PROVE  HolderChange(c, stage)
<1>1. /\ client \in [Clients -> ClientType] /\ LifecycleHeld /\ RequestsKnow
    BY TypesByParts DEF IInv
<1>2. [client[c] EXCEPT !.at = stage] \in ClientType
    BY <1>1 DEF ClientType
<1>3. client' = [client EXCEPT ![c] = [client[c] EXCEPT !.at = stage]]
    BY DEF Step
<1>4. /\ client' \in [Clients -> ClientType] /\ client'[c] = [client[c] EXCEPT !.at = stage]
      /\ \A e \in Clients : e # c => client'[e] = client[e]
    BY <1>1, <1>2, <1>3
<1>5. client'[c].at = stage /\ client'[c].ds = client[c].ds /\ client'[c].stops = client[c].stops
    BY <1>1, <1>4 DEF ClientType
<1>6. lifecycle = c /\ \A e \in Clients : e # c => client[e].at \notin Holding
    BY <1>1 DEF LifecycleHeld
<1>7. /\ \A e \in Clients : \A d \in client[e].ds : d \in Dunks /\ row[d].state # "new"
      /\ client[c].ds \in SUBSET Dunks
    BY <1>1 DEF RequestsKnow, RequestKnows, ClientType
<1> QED
    BY <1>1, <1>4, <1>5, <1>6, <1>7 DEF HolderChange, RequestsKnow

\* The thread of a dunk is woken, or there is a new one.
LEMMA SpawnStep ==
    ASSUME IInv, NEW c \in Clients, NEW d \in Dunks, Spawn(c, d)
    PROVE  IInv'
<1>1. /\ TypeOK /\ RowsSane /\ LifecycleHeld /\ RequestsKnow /\ SlotsTrue /\ Accounted /\ OneTimer
      /\ RemovedIsRemoved /\ NoStrandedSchedule /\ Silenced /\ StoppedStaysStopped /\ AllGated
      /\ Notified /\ AllSpent /\ CapEndsSchedule /\ LocksTrue
    BY DEF IInv
<1>2. /\ up /\ UNCHANGED <<up, row, disk, lock, lifecycle, quiet, durable>>
      /\ client[c].at = "spawn" /\ d \in client[c].ds /\ Step(c, "leave")
    BY DEF Spawn
<1>3. HolderChange(c, "leave")
    BY <1>2, HolderChanges DEF Holding, ClientStages
<1>4. /\ slot \in [Dunks -> Threads \cup {None}] /\ thread \in [Threads -> ThreadType]
      /\ past \in [Dunks -> 0..2]
    BY <1>1, TypesByParts
<1>5. row[d].state # "new" /\ ~quiet[d] /\ client[c].ds = {d}
    BY <1>2, <1>3 DEF HolderChange, RequestKnows
<1>6. \A t \in Threads : Live(t) =>
        thread[t].d \in Dunks /\ row[thread[t].d].state # "new" /\ slot[thread[t].d] = t
    BY <1>1, <1>2, <1>3 DEF Accounted, Awaited, HolderChange
<1> DEFINE Lives(t) ==
        Live(t)' => /\ thread'[t].d \in Dunks /\ row[thread'[t].d].state # "new"
                    /\ slot'[thread'[t].d] = t
                    /\ thread'[t].d = d \/ (Live(t) /\ thread'[t].d = thread[t].d)
           Told(t) ==
        thread'[t].stale => /\ thread[t].stale /\ thread'[t].d = thread[t].d
                            /\ thread[t].wake => thread'[t].wake
                            /\ thread[t].cancelled => thread'[t].cancelled
                            /\ slot[thread[t].d] # t => slot'[thread[t].d] # t
           Mapped ==
        /\ slot' \in [Dunks -> Threads \cup {None}] /\ thread' \in [Threads -> ThreadType]
        /\ past' \in [Dunks -> 0..2] /\ CapEndsSchedule'
        /\ SlotsTrue' /\ OneTimer' /\ RemovedIsRemoved' /\ AllGated' /\ AllSpent' /\ LocksTrue'
        /\ \A e \in Dunks : e = d \/ Scheduled(e) => Scheduled(e)'
        /\ \A t \in Threads : Lives(t) /\ Told(t)
<1>7. ASSUME Wakes(d) PROVE Mapped
    <2> DEFINE s == slot[d]
    <2>1. s \in Threads /\ Live(s)
        BY <1>4, <1>7 DEF Wakes
    <2>2. /\ thread' = [thread EXCEPT ![s] = [thread[s] EXCEPT !.wake = TRUE]]
          /\ slot' = slot /\ past' = past
        BY <1>7 DEF Spawn
    <2> HIDE DEF s
    <2>3. [thread[s] EXCEPT !.wake = TRUE] \in ThreadType
        BY <1>4, <2>1, ThreadUpdates
    <2>4. thread' \in [Threads -> ThreadType]
        BY <1>4, <2>1, <2>2, <2>3
    <2>5. \A t \in Threads :
            LET new == thread'[t]
                old == thread[t]
            IN  /\ new.d = old.d /\ new.at = old.at /\ new.pane = old.pane /\ new.sent = old.sent
                /\ new.target = old.target /\ new.cancelled = old.cancelled /\ new.stale = old.stale
                /\ new.moves = old.moves /\ (old.wake => new.wake)
        BY <1>4, <2>1, <2>2 DEF ThreadType
    <2>6. \A t \in Threads : Live(t)' <=> Live(t)
        BY <2>5 DEF Live
    <2>7. SlotsTrue' /\ OneTimer' /\ RemovedIsRemoved'
        BY <1>1, <1>2, <1>4, <2>2, <2>5, <2>6 DEF SlotsTrue, OneTimer, RemovedIsRemoved
    <2>8. AllGated' /\ AllSpent' /\ LocksTrue' /\ CapEndsSchedule'
        BY <1>1, <1>2, <2>2, <2>5, <2>6 DEF AllGated, Gated, AllSpent, Spent, LocksTrue, CapEndsSchedule
    <2>9. \A e \in Dunks : e = d \/ Scheduled(e) => Scheduled(e)'
        BY <1>4, <1>7, <2>2, <2>6 DEF Scheduled, Wakes
    <2> QED
        <3>1. ASSUME NEW t \in Threads PROVE Lives(t) /\ Told(t)
            BY <1>6, <2>2, <2>5, <2>6
        <3> HIDE DEF Lives, Told
        <3> QED
            BY <1>4, <2>2, <2>4, <2>7, <2>8, <2>9, <3>1
<1>8. ASSUME ~Wakes(d) PROVE Mapped
    <2>1. PICK t \in Threads :
            /\ thread[t].at = "free" \/ t = slot[d]
            /\ thread' = [thread EXCEPT ![t] = Fresh(d)]
            /\ slot' = [slot EXCEPT ![d] = t] /\ past' = [past EXCEPT ![d] = 0]
        BY <1>8 DEF Spawn
    <2>2. ~Live(t)
        BY <1>8, <2>1, NoneIsNobody DEF Wakes, Live
    <2>3. \A s \in Threads : Live(s) => thread[s].d # d
        BY <1>6, <1>8, NoneIsNobody DEF Wakes
    <2>4. /\ thread'[t] = Fresh(d) /\ \A s \in Threads : s # t => thread'[s] = thread[s]
          /\ slot'[d] = t /\ \A e \in Dunks : e # d => slot'[e] = slot[e] /\ past'[e] = past[e]
          /\ past'[d] = 0
        BY <1>4, <2>1
    <2>5. \A e \in Dunks : e # d => slot[e] # t
        BY <1>1, <2>1, NoneIsNobody DEF SlotsTrue
    <2>6. /\ Fresh(d) \in ThreadType /\ Fresh(d).d = d /\ Fresh(d).at = "top"
          /\ Fresh(d).moves = 0 /\ ~Fresh(d).cancelled /\ ~Fresh(d).stale
        BY FreshThread
    <2>7. /\ Live(t)' /\ \A s \in Threads : s # t => (Live(s)' <=> Live(s))
        BY <2>4, <2>6 DEF Live
    <2>8. /\ slot' \in [Dunks -> Threads \cup {None}] /\ thread' \in [Threads -> ThreadType]
          /\ past' \in [Dunks -> 0..2] /\ CapEndsSchedule'
        BY <1>1, <1>4, <2>1, <2>4, <2>6 DEF CapEndsSchedule
    <2>9. SlotsTrue'
        BY <1>1, <1>4, <2>4, <2>5, <2>6 DEF SlotsTrue
    <2>10. OneTimer' /\ RemovedIsRemoved' /\ AllGated' /\ LocksTrue'
        BY <1>1, <1>2, <2>3, <2>4, <2>6, <2>7 DEF OneTimer, RemovedIsRemoved, AllGated, Gated,
           LocksTrue, Using
    <2>11. AllSpent'
        BY <1>1, <1>2, <1>6, <2>3, <2>4, <2>6, <2>7 DEF AllSpent, Spent
    <2>12. \A e \in Dunks : e = d \/ Scheduled(e) => Scheduled(e)'
        BY <1>4, <2>4, <2>5, <2>7, NoneIsNobody DEF Scheduled
    <2>13. ASSUME NEW s \in Threads, slot[thread[s].d] # s, s # t PROVE slot'[thread[s].d] # s
        BY <1>4, <2>1, <2>13
    <2> QED
        <3>1. ASSUME NEW s \in Threads PROVE Lives(s)
            BY <1>5, <1>6, <2>3, <2>4, <2>6, <2>7
        <3>2. ASSUME NEW s \in Threads PROVE Told(s)
            BY <2>4, <2>6, <2>13
        <3> HIDE DEF Lives, Told
        <3> QED
            BY <2>8, <2>9, <2>10, <2>11, <2>12, <3>1, <3>2
<1>9. Mapped
    <2> HIDE DEF Mapped
    <2> QED
        BY <1>7, <1>8
<1>10. TypeOK'
    BY <1>1, <1>2, <1>3, <1>9 DEF TypeOK, HolderChange, ThreadType, ClientType, ClientStages
<1>11. RowsSane' /\ DownIsBlank' /\ LifecycleHeld'
    BY <1>1, <1>2, <1>3 DEF RowsSane, DownIsBlank, LifecycleHeld, HolderChange, Holding
<1>12. RequestsKnow'
    <2> SUFFICES ASSUME NEW e \in Clients, NEW f \in client'[e].ds PROVE RequestKnows(e, f)'
        BY DEF RequestsKnow
    <2>1. CASE e = c
        BY <1>2, <1>3, <1>5, <1>9, <2>1 DEF HolderChange, RequestKnows
    <2>2. CASE e # c
        BY <1>2, <1>3, <2>2 DEF HolderChange, RequestKnows, Holding
    <2> QED
        BY <2>1, <2>2
<1>13. Accounted'
    BY <1>2, <1>9 DEF Accounted
<1>14. NoStrandedSchedule'
    <2> SUFFICES ASSUME NEW e \in Dunks, IsRunning(e), e \notin client[c].ds
                 PROVE  (slot[e] # None /\ Live(slot[e]) /\ ~thread[slot[e]].cancelled)'
        BY <1>2, <1>3, NoneIsNobody DEF NoStrandedSchedule, HolderChange, IsRunning, Listed
    <2>1. Scheduled(e)'
        BY <1>1, <1>2, <1>3, <1>9 DEF NoStrandedSchedule, HolderChange, Scheduled
    <2> QED
        BY <1>9, <2>1 DEF Scheduled, SlotsTrue
<1>15. Silenced' /\ StoppedStaysStopped'
    BY <1>1, <1>2, <1>5, <1>9 DEF Silenced, StoppedStaysStopped
<1>16. Notified'
    <2>1. \A e \in Clients : client[e].at = "wake" => client'[e] = client[e]
        BY <1>2, <1>3 DEF HolderChange
    <2> QED
        BY <1>1, <1>9, <2>1 DEF Notified
<1> QED
    BY <1>9, <1>10, <1>11, <1>12, <1>13, <1>14, <1>15, <1>16 DEF IInv

\* The threads of the dunks leave the map, told to end.
LEMMA CancelStep ==
    ASSUME IInv, NEW c \in Clients, CancelTimer(c)
    PROVE  IInv'
<1> DEFINE ds == client[c].ds
           ts == {slot[d] : d \in ds} \ {None}
<1>1. /\ TypeOK /\ RowsSane /\ LifecycleHeld /\ RequestsKnow /\ SlotsTrue /\ Accounted /\ OneTimer
      /\ RemovedIsRemoved /\ NoStrandedSchedule /\ Silenced /\ StoppedStaysStopped /\ AllGated
      /\ Notified /\ AllSpent /\ CapEndsSchedule /\ LocksTrue
    BY DEF IInv
<1>2. /\ up /\ UNCHANGED <<up, row, disk, lock, lifecycle, quiet, durable, past>>
      /\ client[c].at = "cancel" /\ Step(c, "join")
      /\ thread' = [t \in Threads |-> IF t \in ts THEN [thread[t] EXCEPT !.cancelled = TRUE]
                                      ELSE thread[t]]
      /\ slot' = [d \in Dunks |-> IF d \in ds THEN None ELSE slot[d]]
    BY DEF CancelTimer
<1>3. HolderChange(c, "join")
    BY <1>2, HolderChanges DEF Holding, ClientStages
<1>4. slot \in [Dunks -> Threads \cup {None}] /\ thread \in [Threads -> ThreadType]
    BY <1>1, TypesByParts
<1>5. \A t \in Threads : Live(t) =>
        thread[t].d \in Dunks /\ row[thread[t].d].state # "new" /\ slot[thread[t].d] = t
    BY <1>1, <1>2, <1>3 DEF Accounted, Awaited, HolderChange
<1>6. slot' \in [Dunks -> Threads \cup {None}]
    BY <1>2, <1>4
<1>7. thread' \in [Threads -> ThreadType] /\ \A t \in Threads :
        LET new == thread'[t]
            old == thread[t]
        IN  /\ new.d = old.d /\ new.at = old.at /\ new.pane = old.pane /\ new.sent = old.sent
            /\ new.target = old.target /\ new.wake = old.wake /\ new.stale = old.stale
            /\ new.moves = old.moves /\ new.cancelled = (old.cancelled \/ t \in ts)
    <2>1. \A t \in Threads : [thread[t] EXCEPT !.cancelled = TRUE] \in ThreadType
        BY <1>4, ThreadUpdates
    <2> HIDE DEF ts
    <2>2. thread' \in [Threads -> ThreadType]
        BY <1>2, <1>4, <2>1
    <2> QED
        BY <1>2, <1>4, <2>2 DEF ThreadType
<1>8. \A d \in Dunks : d \notin ds => slot'[d] = slot[d] /\ slot[d] \notin ts
    <2> SUFFICES ASSUME NEW d \in Dunks, d \notin ds, slot[d] \in ts PROVE FALSE
        BY <1>2
    <2>1. PICK e \in ds : slot[d] = slot[e] /\ slot[e] # None
        OBVIOUS
    <2>2. e \in Dunks /\ thread[slot[e]].d = e /\ thread[slot[d]].d = d
        BY <1>1, <1>3, <2>1 DEF HolderChange, SlotsTrue
    <2> QED
        BY <2>1, <2>2
<1>9. \A t \in Threads : Live(t) /\ thread[t].d \in ds => t \in ts
    BY <1>5, NoneIsNobody
<1> HIDE DEF ts
<1>10. \A t \in Threads : Live(t)' <=> Live(t)
    BY <1>7 DEF Live
<1>11. TypeOK'
    BY <1>1, <1>2, <1>3, <1>6, <1>7 DEF TypeOK, HolderChange, ThreadType, ClientType, ClientStages
<1>12. RowsSane' /\ DownIsBlank' /\ LifecycleHeld'
    BY <1>1, <1>2, <1>3 DEF RowsSane, DownIsBlank, LifecycleHeld, HolderChange, Holding
<1>13. RequestsKnow'
    <2> SUFFICES ASSUME NEW e \in Clients, NEW f \in client'[e].ds PROVE RequestKnows(e, f)'
        BY DEF RequestsKnow
    <2>1. CASE e = c
        BY <1>2, <1>3, <2>1 DEF HolderChange, RequestKnows
    <2>2. CASE e # c
        BY <1>2, <1>3, <2>2 DEF HolderChange, RequestKnows, Holding
    <2> QED
        BY <2>1, <2>2
<1>14. SlotsTrue'
    <2> SUFFICES ASSUME NEW d \in Dunks, slot'[d] # None
                 PROVE  /\ thread'[slot'[d]].d = d /\ thread'[slot'[d]].at # "free"
                        /\ ~thread'[slot'[d]].cancelled
        BY DEF SlotsTrue
    <2>1. d \notin ds /\ slot'[d] = slot[d] /\ slot[d] \in Threads /\ slot[d] \notin ts
        BY <1>2, <1>4, <1>8
    <2> QED
        <3>1. thread[slot[d]].d = d /\ thread[slot[d]].at # "free" /\ ~thread[slot[d]].cancelled
            BY <1>1, <2>1, NoneIsNobody DEF SlotsTrue
        <3> QED
            BY <1>7, <2>1, <3>1
<1>15. Accounted'
    <2> SUFFICES ASSUME NEW t \in Threads, Live(t)'
                 PROVE  /\ thread'[t].d \in Dunks /\ row'[thread'[t].d].state # "new"
                        /\ slot'[thread'[t].d] = t \/ Awaited(t)'
        BY DEF Accounted
    <2>1. /\ Live(t) /\ thread'[t].d = thread[t].d /\ thread[t].d \in Dunks
          /\ row[thread[t].d].state # "new" /\ slot[thread[t].d] = t
        BY <1>5, <1>7, <1>10
    <2>2. CASE thread[t].d \in ds
        BY <1>2, <1>3, <1>7, <1>9, <2>1, <2>2, NoneIsNobody DEF Awaited, HolderChange
    <2>3. CASE thread[t].d \notin ds
        BY <1>2, <1>8, <2>1, <2>3
    <2> QED
        BY <1>2, <2>1, <2>2, <2>3
<1>16. OneTimer' /\ RemovedIsRemoved'
    BY <1>1, <1>2, <1>7, <1>10 DEF OneTimer, RemovedIsRemoved
<1>17. NoStrandedSchedule'
    <2> SUFFICES ASSUME NEW e \in Dunks, IsRunning(e), e \notin ds
                 PROVE  (slot[e] # None /\ Live(slot[e]) /\ ~thread[slot[e]].cancelled)'
        BY <1>2, <1>3, NoneIsNobody DEF NoStrandedSchedule, HolderChange, IsRunning, Listed
    <2>1. slot[e] # None /\ Live(slot[e]) /\ ~thread[slot[e]].cancelled
        BY <1>1, <1>2, <1>3 DEF NoStrandedSchedule, HolderChange
    <2>2. slot'[e] = slot[e] /\ slot[e] \in Threads /\ slot[e] \notin ts
        BY <1>4, <1>8, <2>1
    <2> QED
        BY <1>7, <1>10, <2>1, <2>2 DEF Live
<1>18. Silenced' /\ StoppedStaysStopped'
    BY <1>1, <1>2, <1>7, <1>10 DEF Silenced, StoppedStaysStopped
<1>19. AllGated' /\ AllSpent' /\ CapEndsSchedule' /\ LocksTrue'
    BY <1>1, <1>2, <1>7, <1>10 DEF AllGated, Gated, AllSpent, Spent, CapEndsSchedule, LocksTrue
<1>20. Notified'
    <2> SUFFICES ASSUME NEW t \in Threads, thread'[t].stale
                 PROVE  /\ thread'[t].d \in Dunks
                        /\ \/ thread'[t].wake \/ thread'[t].cancelled
                           \/ \E e \in Clients : client'[e].at = "wake" /\ thread'[t].d \in client'[e].ds
                           \/ slot'[thread'[t].d] # t
        BY DEF Notified
    <2>1. /\ thread[t].d \in Dunks
          /\ \/ thread[t].wake \/ thread[t].cancelled
             \/ \E e \in Clients : client[e].at = "wake" /\ thread[t].d \in client[e].ds
             \/ slot[thread[t].d] # t
        BY <1>1, <1>7 DEF Notified
    <2>2. slot[thread[t].d] # t => slot'[thread[t].d] # t
        BY <1>2, <2>1, NoneIsNobody
    <2>3. \A e \in Clients : client[e].at = "wake" => client'[e] = client[e]
        BY <1>2, <1>3 DEF HolderChange
    <2> QED
        BY <1>7, <2>1, <2>2, <2>3
<1> QED
    BY <1>11, <1>12, <1>13, <1>14, <1>15, <1>16, <1>17, <1>18, <1>19, <1>20 DEF IInv

\* The threads of the dunks have ended, and a removal removes the rows.
LEMMA JoinStep ==
    ASSUME IInv, NEW c \in Clients, Join(c)
    PROVE  IInv'
<1> DEFINE ds == client[c].ds
<1>1. /\ TypeOK /\ RowsSane /\ LifecycleHeld /\ RequestsKnow /\ SlotsTrue /\ Accounted /\ OneTimer
      /\ RemovedIsRemoved /\ NoStrandedSchedule /\ Silenced /\ StoppedStaysStopped /\ AllGated
      /\ Notified /\ AllSpent /\ CapEndsSchedule /\ LocksTrue
    BY DEF IInv
<1>2. /\ up /\ UNCHANGED <<up, disk, slot, lock, lifecycle, durable, past>>
      /\ client[c].at = "join" /\ Step(c, "leave") /\ Ended(ds)
      /\ row' = IF client[c].stops THEN row
                ELSE [d \in Dunks |-> IF d \in ds THEN [Stopped(row[d]) EXCEPT !.state = "removed"]
                                      ELSE row[d]]
      /\ thread' = [t \in Threads |-> IF thread[t].d \in ds /\ thread[t].at = "over"
                                      THEN Asleep ELSE thread[t]]
      /\ quiet' = [d \in Dunks |-> quiet[d] \/ (d \in ds)]
    BY DEF Join
<1>3. HolderChange(c, "leave")
    BY <1>2, HolderChanges DEF Holding, ClientStages
<1>4. /\ slot \in [Dunks -> Threads \cup {None}] /\ thread \in [Threads -> ThreadType]
      /\ row \in [Dunks -> Rows] /\ quiet \in [Dunks -> BOOLEAN]
    BY <1>1, TypesByParts
<1>5. /\ row' \in [Dunks -> Rows] /\ \A d \in Dunks : d \notin ds => row'[d] = row[d]
      /\ \A d \in ds : ~row'[d].running
      /\ \A d \in Dunks : Aged(row[d], row'[d])
    <2>1. CASE client[c].stops
        BY <1>2, <1>3, <1>4, <2>1, RowsAge DEF HolderChange, RequestKnows
    <2>2. CASE ~client[c].stops
        <3> DEFINE gone(d) == [Stopped(row[d]) EXCEPT !.state = "removed"]
        <3>1. \A d \in Dunks : /\ gone(d) \in Rows /\ Aged(row[d], gone(d)) /\ ~gone(d).running
                               /\ Aged(row[d], row[d])
            <4>1. \A d \in Dunks : gone(d).running = Stopped(row[d]).running /\ Stopped(row[d]) \in Rows
                BY <1>4, ScheduleUpdates DEF Rows
            <4> QED
                BY <1>4, <4>1, RowsAge, RowUpdates, ScheduleUpdates
        <3>2. row' = [d \in Dunks |-> IF d \in ds THEN gone(d) ELSE row[d]]
            BY <1>2, <2>2
        <3> HIDE DEF gone
        <3> QED
            BY <1>3, <1>4, <3>1, <3>2 DEF HolderChange
    <2> QED
        BY <2>1, <2>2
<1>6. \A d \in Dunks : /\ row'[d].state # "new" <=> row[d].state # "new"
                       /\ row[d].state # "new" => row'[d].state # "new"
                       /\ row[d].state = "removed" => row'[d].state = "removed"
                       /\ row'[d].running => row[d].running
                       /\ row'[d].target = row[d].target
    <2>1. \A d \in ds : row[d].state # "new"
        BY <1>3 DEF HolderChange
    <2> QED
        BY <1>5, <2>1 DEF Aged
<1>7. /\ thread' \in [Threads -> ThreadType]
      /\ \A t \in Threads : thread'[t] = thread[t] \/ (thread'[t] = Asleep /\ thread[t].d \in ds)
      /\ \A t \in Threads : thread[t].d \notin ds => thread'[t] = thread[t]
    BY <1>2, <1>4, BlankTypes
<1>8. /\ Asleep.at = "free" /\ ~Asleep.stale /\ Asleep.d = None
    BY DEF Asleep
<1>9. \A t \in Threads : Live(t)' => Live(t) /\ thread'[t] = thread[t] /\ thread[t].d \notin ds
    BY <1>2, <1>7, <1>8 DEF Live, Ended
<1>10. quiet' \in [Dunks -> BOOLEAN] /\ \A d \in Dunks : quiet'[d] <=> quiet[d] \/ d \in ds
    BY <1>2, <1>4
<1>11. TypeOK'
    BY <1>1, <1>2, <1>3, <1>5, <1>7, <1>10 DEF TypeOK, HolderChange, ThreadType, ClientType, ClientStages
<1>12. RowsSane' /\ DownIsBlank' /\ LifecycleHeld'
    <2>1. RowsSane'
        BY <1>1, <1>2, <1>5, <1>6 DEF RowsSane, Sane, Aged
    <2> QED
        BY <1>1, <1>2, <1>3, <2>1 DEF DownIsBlank, LifecycleHeld, HolderChange, Holding
<1>13. RequestsKnow'
    <2> SUFFICES ASSUME NEW e \in Clients, NEW f \in client'[e].ds PROVE RequestKnows(e, f)'
        BY DEF RequestsKnow
    <2>1. CASE e = c
        BY <1>3, <1>5, <1>6, <2>1 DEF HolderChange, RequestKnows, IsRunning
    <2>2. CASE e # c
        BY <1>3, <1>6, <2>2 DEF HolderChange, RequestKnows, Holding
    <2> QED
        BY <2>1, <2>2
<1>14. SlotsTrue'
    <2> SUFFICES ASSUME NEW d \in Dunks, slot[d] # None
                 PROVE  /\ thread'[slot[d]].d = d /\ thread'[slot[d]].at # "free"
                        /\ ~thread'[slot[d]].cancelled
        BY <1>2 DEF SlotsTrue
    <2>1. slot[d] \in Threads /\ thread[slot[d]].d = d /\ d \notin ds
        BY <1>1, <1>2, <1>3, <1>4 DEF SlotsTrue, HolderChange, RequestKnows
    <2> QED
        BY <1>1, <1>7, <2>1 DEF SlotsTrue
<1>15. Accounted'
    BY <1>1, <1>2, <1>3, <1>6, <1>9 DEF Accounted, Awaited, HolderChange
<1>16. OneTimer'
    BY <1>1, <1>9 DEF OneTimer
<1>17. RemovedIsRemoved'
    <2> SUFFICES ASSUME NEW t \in Threads, thread'[t].at = "removed"
                 PROVE  row'[thread'[t].d].state = "removed"
        BY DEF RemovedIsRemoved
    <2>1. Live(t)'
        BY DEF Live
    <2> QED
        BY <1>1, <1>6, <1>9, <2>1 DEF RemovedIsRemoved, Accounted
<1>18. NoStrandedSchedule'
    <2> SUFFICES ASSUME NEW e \in Dunks, IsRunning(e)', e \notin ds
                 PROVE  (slot[e] # None /\ Live(slot[e]) /\ ~thread[slot[e]].cancelled)'
        BY <1>2, <1>3, NoneIsNobody DEF NoStrandedSchedule, HolderChange
    <2>1. slot[e] # None /\ Live(slot[e]) /\ ~thread[slot[e]].cancelled
        BY <1>1, <1>2, <1>3, <1>5 DEF NoStrandedSchedule, HolderChange, IsRunning, Listed
    <2>2. thread'[slot[e]] = thread[slot[e]]
        BY <1>1, <1>4, <1>7, <2>1 DEF SlotsTrue
    <2> QED
        BY <1>2, <2>1, <2>2 DEF Live
<1>19. Silenced'
    BY <1>1, <1>2, <1>3, <1>5, <1>6, <1>10 DEF Silenced, HolderChange
<1>20. StoppedStaysStopped'
    BY <1>1, <1>2, <1>9, <1>10, <1>19 DEF StoppedStaysStopped, Silenced
<1>21. AllGated'
    <2> SUFFICES ASSUME NEW t \in Threads PROVE Gated(t)'
        BY DEF AllGated
    <2>1. CASE Live(t)'
        BY <1>1, <1>6, <1>9, <2>1 DEF AllGated, Gated, Accounted
    <2>2. CASE ~Live(t)'
        BY <2>2 DEF Gated, Live
    <2> QED
        BY <2>1, <2>2
<1>22. Notified'
    <2>1. \A e \in Clients : client[e].at = "wake" => client'[e] = client[e]
        BY <1>2, <1>3 DEF HolderChange
    <2> QED
        BY <1>1, <1>2, <1>7, <1>8, <2>1 DEF Notified
<1>23. AllSpent' /\ CapEndsSchedule'
    <2>1. AllSpent'
        BY <1>1, <1>2, <1>5, <1>9 DEF AllSpent, Spent, Accounted
    <2> QED
        BY <1>1, <1>2, <2>1 DEF CapEndsSchedule
<1>24. LocksTrue'
    BY <1>1, <1>2, <1>7, <1>8 DEF LocksTrue, Using
<1> QED
    BY <1>11, <1>12, <1>13, <1>14, <1>15, <1>16, <1>17, <1>18, <1>19, <1>20, <1>21, <1>22, <1>23,
       <1>24 DEF IInv

\* The lock is given back.
LEMMA LeaveStep ==
    ASSUME IInv, NEW c \in Clients, Leave(c)
    PROVE  IInv'
<1>1. /\ TypeOK /\ RowsSane /\ LifecycleHeld /\ RequestsKnow /\ SlotsTrue /\ Accounted /\ OneTimer
      /\ RemovedIsRemoved /\ NoStrandedSchedule /\ Silenced /\ StoppedStaysStopped /\ AllGated
      /\ Notified /\ AllSpent /\ CapEndsSchedule /\ LocksTrue
    BY DEF IInv
<1>2. /\ up /\ UNCHANGED <<up, row, disk, slot, thread, lock, quiet, durable, past>>
      /\ client[c].at = "leave" /\ Step(c, "save") /\ lifecycle' = None
    BY DEF Leave
<1>3. HolderChange(c, "save")
    BY <1>2, HolderChanges DEF Holding, ClientStages
<1>4. TypeOK'
    BY <1>1, <1>2, <1>3 DEF TypeOK, HolderChange, ClientType, ClientStages
<1>5. RowsSane' /\ DownIsBlank' /\ SlotsTrue' /\ OneTimer' /\ RemovedIsRemoved' /\ Silenced'
      /\ StoppedStaysStopped' /\ AllGated' /\ AllSpent' /\ CapEndsSchedule' /\ LocksTrue'
    BY <1>1, <1>2 DEF RowsSane, DownIsBlank, SlotsTrue, OneTimer, RemovedIsRemoved, Silenced,
       StoppedStaysStopped, AllGated, Gated, AllSpent, Spent, CapEndsSchedule, LocksTrue, Live
<1>6. LifecycleHeld'
    BY <1>2, <1>3, NoneIsNobody DEF LifecycleHeld, HolderChange, Holding
<1>7. RequestsKnow'
    <2> SUFFICES ASSUME NEW e \in Clients, NEW f \in client'[e].ds PROVE RequestKnows(e, f)'
        BY DEF RequestsKnow
    <2>1. CASE e = c
        BY <1>2, <1>3, <2>1 DEF HolderChange, RequestKnows
    <2>2. CASE e # c
        BY <1>2, <1>3, <2>2 DEF HolderChange, RequestKnows, Holding
    <2> QED
        BY <2>1, <2>2
<1>8. Accounted'
    BY <1>1, <1>2, <1>3 DEF Accounted, Awaited, HolderChange, Live
<1>9. NoStrandedSchedule'
    <2> SUFFICES ASSUME NEW e \in Dunks, IsRunning(e)
                 PROVE  slot[e] # None /\ Live(slot[e]) /\ ~thread[slot[e]].cancelled
        BY <1>2 DEF NoStrandedSchedule, IsRunning, Listed, Live
    <2>1. e \in client[c].ds => Scheduled(e)
        BY <1>2, <1>3 DEF HolderChange, RequestKnows
    <2> QED
        BY <1>1, <1>2, <1>3, <2>1 DEF NoStrandedSchedule, HolderChange, Scheduled, SlotsTrue
<1>10. Notified'
    <2>1. \A e \in Clients : client[e].at = "wake" => client'[e] = client[e]
        BY <1>2, <1>3 DEF HolderChange
    <2> QED
        BY <1>1, <1>2, <2>1 DEF Notified
<1> QED
    BY <1>4, <1>5, <1>6, <1>7, <1>8, <1>9, <1>10 DEF IInv

-------------------------------------------------------------------------------
\* The end and the start of the daemon

\* While the daemon is down nothing can be wrong but the file.
LEMMA BlankIsFine ==
    ASSUME slot = [d \in Dunks |-> None], thread = [t \in Threads |-> Asleep],
           client = [c \in Clients |-> Idle], lifecycle = None
    PROVE  /\ LifecycleHeld /\ RequestsKnow /\ SlotsTrue /\ Accounted /\ OneTimer /\ RemovedIsRemoved
           /\ AllGated /\ Notified /\ AllSpent /\ LocksTrue
           /\ \A t \in Threads : ~Live(t)
<1>1. /\ Asleep.at = "free" /\ ~Asleep.stale /\ Idle.at = "idle" /\ Idle.ds = {}
    BY DEF Asleep, Idle
<1>2. /\ \A t \in Threads : thread[t].at = "free" /\ ~thread[t].stale
      /\ \A c \in Clients : client[c].at = "idle" /\ client[c].ds = {}
      /\ \A d \in Dunks : slot[d] = None
    BY <1>1
<1>3. \A t \in Threads : ~Live(t)
    BY <1>2 DEF Live
<1>4. LifecycleHeld /\ RequestsKnow
    BY <1>2, NoneIsNobody DEF LifecycleHeld, Holding, RequestsKnow
<1> QED
    BY <1>2, <1>3, <1>4 DEF SlotsTrue, Accounted, OneTimer, RemovedIsRemoved, AllGated, Gated, Notified,
       AllSpent, LocksTrue, Using

\* The daemon ends: its threads, its map and its requests end with it.
LEMMA ExitStep ==
    ASSUME IInv, Exit
    PROVE  IInv'
<1>1. TypeOK /\ RowsSane /\ Silenced /\ StoppedStaysStopped /\ CapEndsSchedule
    BY DEF IInv
<1>2. /\ up' = FALSE /\ row' = disk /\ disk' = disk /\ durable' = durable /\ quiet' = durable
      /\ past' = past
      /\ slot' = [d \in Dunks |-> None] /\ thread' = [t \in Threads |-> Asleep]
      /\ lock' = [p \in Panes |-> None] /\ client' = [c \in Clients |-> Idle] /\ lifecycle' = None
    BY DEF Exit
<1>3. TypeOK'
    <2>1. /\ slot' \in [Dunks -> Threads \cup {None}] /\ thread' \in [Threads -> ThreadType]
          /\ lock' \in [Panes -> Threads \cup {None}] /\ client' \in [Clients -> ClientType]
        BY <1>2, BlankTypes
    <2> QED
        BY <1>1, <1>2, <2>1 DEF TypeOK, ThreadType, ClientType, ClientStages
<1>4. /\ LifecycleHeld' /\ RequestsKnow' /\ SlotsTrue' /\ Accounted' /\ OneTimer' /\ RemovedIsRemoved'
      /\ AllGated' /\ Notified' /\ AllSpent' /\ LocksTrue'
      /\ \A t \in Threads : ~Live(t)'
    <2>1. /\ Asleep.at = "free" /\ ~Asleep.stale /\ Idle.at = "idle" /\ Idle.ds = {}
        BY DEF Asleep, Idle
    <2>2. /\ \A t \in Threads : thread'[t].at = "free" /\ ~thread'[t].stale
          /\ \A c \in Clients : client'[c].at = "idle" /\ client'[c].ds = {}
          /\ \A d \in Dunks : slot'[d] = None
        BY <1>2, <2>1
    <2>3. \A t \in Threads : ~Live(t)'
        BY <2>2 DEF Live
    <2>4. LifecycleHeld' /\ RequestsKnow'
        BY <1>2, <2>2, NoneIsNobody DEF LifecycleHeld, Holding, RequestsKnow
    <2> QED
        BY <2>2, <2>3, <2>4 DEF SlotsTrue, Accounted, OneTimer, RemovedIsRemoved, AllGated, Gated,
           Notified, AllSpent, LocksTrue, Using
<1>5. RowsSane' /\ DownIsBlank'
    BY <1>1, <1>2 DEF RowsSane, DownIsBlank
<1>6. NoStrandedSchedule' /\ CapEndsSchedule'
    BY <1>1, <1>2 DEF NoStrandedSchedule, CapEndsSchedule
<1>7. Silenced' /\ StoppedStaysStopped'
    BY <1>1, <1>2, <1>4 DEF Silenced, StoppedStaysStopped
<1> QED
    BY <1>3, <1>4, <1>5, <1>6, <1>7 DEF IInv

\* Every dunk that runs gets a thread of its own, and no other one does.
LEMMA RestartStep ==
    ASSUME IInv, Restart
    PROVE  IInv'
<1>1. TypeOK /\ RowsSane /\ Silenced /\ StoppedStaysStopped
    BY DEF IInv
<1> DEFINE running == {d \in Dunks : row[d].running}
<1>2. /\ up' = TRUE /\ disk' = disk /\ lock' = lock /\ durable' = durable /\ quiet' = quiet
      /\ client' = client /\ lifecycle' = lifecycle /\ past' = [d \in Dunks |-> 0]
      /\ row' = [d \in Dunks |-> [row[d] EXCEPT !.due = FALSE]]
      /\ client = [c \in Clients |-> Idle] /\ lifecycle = None
    BY DEF Restart, requests, IInv, DownIsBlank
<1>3. PICK f \in [running -> Threads] :
        /\ \A d, e \in running : f[d] = f[e] => d = e
        /\ slot' = [d \in Dunks |-> IF d \in running THEN f[d] ELSE None]
        /\ thread' = [t \in Threads |-> IF \E d \in running : f[d] = t
                                        THEN Fresh(CHOOSE d \in running : f[d] = t) ELSE Asleep]
    <2>1. PICK f \in [running -> Threads] :
            /\ \A d, e \in DOMAIN f : f[d] = f[e] => d = e
            /\ slot' = [d \in Dunks |-> IF d \in DOMAIN f THEN f[d] ELSE None]
            /\ thread' = [t \in Threads |-> IF \E d \in DOMAIN f : f[d] = t
                                            THEN Fresh(CHOOSE d \in DOMAIN f : f[d] = t) ELSE Asleep]
        BY Zenon DEF Restart
    <2>2. DOMAIN f = running
        BY <2>1
    <2> HIDE DEF running
    <2>3. /\ \A d, e \in running : f[d] = f[e] => d = e
          /\ slot' = [d \in Dunks |-> IF d \in running THEN f[d] ELSE None]
        BY <2>1, <2>2
    <2>4. thread' = [t \in Threads |-> IF \E d \in running : f[d] = t
                                       THEN Fresh(CHOOSE d \in running : f[d] = t) ELSE Asleep]
        BY <2>1, <2>2, Zenon
    <2> QED
        BY <2>1, <2>3, <2>4
<1>4. /\ row \in [Dunks -> Rows] /\ disk \in [Dunks -> Rows]
      /\ lock \in [Panes -> Threads \cup {None}]
    BY <1>1, TypesByParts
<1>5. /\ row' \in [Dunks -> Rows]
      /\ \A d \in Dunks : /\ row'[d].state = row[d].state /\ row'[d].running = row[d].running
                          /\ row'[d].target = row[d].target
    <2>1. \A d \in Dunks : [row[d] EXCEPT !.due = FALSE] \in Rows
        BY <1>4, RowUpdates
    <2> QED
        BY <1>2, <1>4, <2>1 DEF Rows
<1>6. \A d \in running : /\ d \in Dunks /\ row[d].state # "new" /\ ~quiet[d]
                         /\ f[d] \in Threads /\ slot'[d] = f[d]
    BY <1>1, <1>3 DEF RowsSane, Sane, Silenced
<1>7. ASSUME NEW t \in Threads
      PROVE  \/ thread'[t] = Asleep /\ \A d \in Dunks : slot'[d] # t
             \/ \E d \in running : f[d] = t /\ thread'[t] = Fresh(d)
    <2>1. CASE \E d \in running : f[d] = t
        <3>1. PICK d \in running : f[d] = t
            BY <2>1
        <3>2. (CHOOSE e \in running : f[e] = t) = d
            BY <1>3, <3>1
        <3> QED
            BY <1>3, <2>1, <3>1, <3>2
    <2>2. CASE ~\E d \in running : f[d] = t
        BY <1>3, <2>2, NoneIsNobody
    <2> QED
        BY <2>1, <2>2
<1> HIDE DEF running
<1>8. \A d \in running : /\ Fresh(d) \in ThreadType /\ Fresh(d).d = d /\ Fresh(d).at = "top"
                         /\ Fresh(d).moves = 0 /\ ~Fresh(d).cancelled /\ ~Fresh(d).stale
    BY <1>6, FreshThread
<1>9. Asleep \in ThreadType /\ Asleep.at = "free" /\ ~Asleep.stale
    BY BlankTypes DEF Asleep
<1>10. \A t \in Threads : /\ thread'[t] \in ThreadType /\ ~thread'[t].stale
                          /\ thread'[t].at \in {"free", "top"}
                          /\ thread'[t].at = "top" => thread'[t].moves = 0
                          /\ Live(t)' => /\ thread'[t].d \in running /\ f[thread'[t].d] = t
                                         /\ slot'[thread'[t].d] = t
    BY <1>6, <1>7, <1>8, <1>9 DEF Live
<1>11. \A d \in running : thread'[f[d]] = Fresh(d) /\ Live(f[d])'
    <2> SUFFICES ASSUME NEW d \in running PROVE thread'[f[d]] = Fresh(d)
        BY <1>8 DEF Live
    <2> QED
        BY <1>3, <1>6, <1>7
<1>12. \A d \in Dunks : slot'[d] # None => d \in running /\ slot'[d] = f[d]
    BY <1>3
<1>13. TypeOK'
    <2>1. thread' \in [Threads -> ThreadType]
        <3>1. thread' = [t \in Threads |-> thread'[t]]
            BY <1>3
        <3> QED
            BY <1>10, <3>1
    <2>2. slot' \in [Dunks -> Threads \cup {None}] /\ past' \in [Dunks -> 0..2]
        BY <1>2, <1>3
    <2> QED
        BY <1>1, <1>2, <1>5, <2>1, <2>2 DEF TypeOK, ThreadType
<1>14. RowsSane' /\ DownIsBlank' /\ CapEndsSchedule'
    BY <1>1, <1>2, <1>5 DEF RowsSane, Sane, DownIsBlank, CapEndsSchedule
<1>15. LifecycleHeld' /\ RequestsKnow'
    <2>1. \A c \in Clients : client'[c].at = "idle" /\ client'[c].ds = {}
        BY <1>2 DEF Idle
    <2> QED
        BY <1>2, <2>1, NoneIsNobody DEF LifecycleHeld, Holding, RequestsKnow
<1>16. SlotsTrue'
    BY <1>8, <1>11, <1>12 DEF SlotsTrue
<1>17. Accounted' /\ OneTimer'
    BY <1>5, <1>6, <1>10 DEF Accounted, OneTimer
<1>18. RemovedIsRemoved' /\ AllGated' /\ Notified' /\ LocksTrue'
    BY <1>10 DEF RemovedIsRemoved, AllGated, Gated, Notified, LocksTrue, Using
<1>19. AllSpent'
    BY <1>2, <1>6, <1>10 DEF AllSpent
<1>20. NoStrandedSchedule'
    <2> SUFFICES ASSUME NEW d \in Dunks, IsRunning(d)'
                 PROVE  (slot[d] # None /\ Live(slot[d]) /\ ~thread[slot[d]].cancelled)'
        BY DEF NoStrandedSchedule
    <2>1. d \in running
        BY <1>5 DEF IsRunning, running
    <2> QED
        BY <1>6, <1>8, <1>11, <2>1, NoneIsNobody DEF Live
<1>21. Silenced' /\ StoppedStaysStopped'
    <2>1. Silenced'
        BY <1>1, <1>2, <1>5 DEF Silenced
    <2>2. \A d \in Dunks : quiet'[d] => \A t \in Threads : thread'[t].d = d => ~Live(t)'
        BY <1>2, <1>6, <1>10
    <2> QED
        BY <1>1, <1>2, <2>1, <2>2 DEF Silenced, StoppedStaysStopped
<1> QED
    BY <1>13, <1>14, <1>15, <1>16, <1>17, <1>18, <1>19, <1>20, <1>21 DEF IInv

-------------------------------------------------------------------------------
\* The invariant

\* At first there is no dunk, no thread and no request.
LEMMA Initially == Init => IInv
<1> SUFFICES ASSUME Init PROVE IInv
    OBVIOUS
<1>1. /\ up = TRUE /\ row = [d \in Dunks |-> Unlisted] /\ disk = row
      /\ slot = [d \in Dunks |-> None] /\ thread = [t \in Threads |-> Asleep]
      /\ lock = [p \in Panes |-> None] /\ client = [c \in Clients |-> Idle] /\ lifecycle = None
      /\ quiet = [d \in Dunks |-> FALSE] /\ durable = quiet /\ past = [d \in Dunks |-> 0]
    BY DEF Init
<1>2. TypeOK
    BY <1>1, BlankTypes DEF TypeOK, ThreadType, ClientType, ClientStages
<1>3. Unlisted.state = "new" /\ Unlisted.running = FALSE
    BY DEF Unlisted
<1>4. RowsSane /\ DownIsBlank /\ NoStrandedSchedule
    BY <1>1, <1>3 DEF RowsSane, Sane, DownIsBlank, NoStrandedSchedule, IsRunning, Listed
<1>5. Silenced /\ StoppedStaysStopped /\ CapEndsSchedule
    BY <1>1 DEF Silenced, StoppedStaysStopped, CapEndsSchedule
<1> QED
    BY <1>1, <1>2, <1>4, <1>5, BlankIsFine DEF IInv

\* A step that changes nothing changes none of it.
LEMMA StutterStep == ASSUME IInv, UNCHANGED vars PROVE IInv'
<1>1. /\ UNCHANGED <<up, row, disk, slot, thread, lock, past>>
      /\ UNCHANGED <<client, lifecycle, quiet, durable>>
    BY DEF vars, requests
<1> QED
    BY <1>1 DEF IInv, TypeOK, RowsSane, DownIsBlank, LifecycleHeld, RequestsKnow, RequestKnows, Scheduled,
       SlotsTrue, Accounted, Awaited, OneTimer, RemovedIsRemoved, NoStrandedSchedule, Silenced,
       StoppedStaysStopped, AllGated, Gated, Notified, AllSpent, Spent, CapEndsSchedule, LocksTrue,
       Live, IsRunning, Listed

\* Each action in its own lemma above, together.
LEMMA Inductive == IInv /\ [Next]_vars => IInv'
<1> SUFFICES ASSUME IInv, [Next]_vars PROVE IInv'
    OBVIOUS
<1>1. ASSUME NEW c \in Clients, Request(c) PROVE IInv'
    <2>1. ASSUME NEW d \in Dunks, NEW p \in Panes, Retarget(c, d, p) PROVE IInv'
        BY <2>1, RetargetStep
    <2>2. ASSUME NEW d \in Dunks, Reschedule(c, d) PROVE IInv'
        BY <2>2, RescheduleStep
    <2>3. ASSUME NEW panes \in SUBSET Panes, Halt(c, panes) PROVE IInv'
        <3>1. \E d \in Dunks : TRUE
            BY <2>3 DEF Halt
        <3> QED
            BY <2>3, <3>1, EntryStep
    <2> QED
        BY <1>1, <2>1, <2>2, <2>3, EntryStep DEF Request
<1>2. ASSUME NEW c \in Clients, Served(c) PROVE IInv'
    BY <1>2, SpawnStep, CancelStep, JoinStep, LeaveStep, WakeStep, AnswerStep DEF Served
<1>3. CASE SaveByOthers \/ \E d \in Dunks : Tick(d) \/ TestSend(d)
    BY <1>3, RowStep
<1>4. ASSUME NEW t \in Threads, Looping(t) \/ Sending(t) PROVE IInv'
    BY <1>4, ThreadStep
<1>5. CASE Exit
    BY <1>5, ExitStep
<1>6. CASE Restart
    BY <1>6, RestartStep
<1>7. CASE UNCHANGED vars
    BY <1>7, StutterStep
<1> QED
    BY <1>1, <1>2, <1>3, <1>4, <1>5, <1>6, <1>7 DEF Next

\* The invariant holds of every reachable state.
LEMMA AlwaysIInv == Spec => []IInv
    BY Initially, Inductive, PTL DEF Spec

-------------------------------------------------------------------------------
\* Theorems

\* Every variable keeps its type: no step of a request, a thread or a restart leaves the dunk list,
\* the worker map or a timer in a state the code has no name for.
THEOREM TypeInvariance == Spec => []TypeOK
<1>1. IInv => TypeOK
    BY DEF IInv
<1> QED
    BY <1>1, AlwaysIInv, PTL

\* A dunk never has two timer threads, however starts, stops, removals, restarts and threads that
\* end by themselves interleave (DunkTimerOwner::start, stop).
THEOREM NeverTwoTimers == Spec => []OneTimer
<1>1. IInv => OneTimer
    BY DEF IInv
<1> QED
    BY <1>1, AlwaysIInv, PTL

\* What was stopped with an answer stays stopped, over a restart too: no thread of it lives, and
\* neither the list nor the file has it running (stop_dunk, remove_dunk, halt_dunks_aimed_at).
THEOREM StopsHold == Spec => []StoppedStaysStopped
<1>1. IInv => StoppedStaysStopped
    BY DEF IInv
<1> QED
    BY <1>1, AlwaysIInv, PTL

\* A dunk that is shown as running has a living thread that nobody told to end, unless the request
\* with the lifecycle lock is at work on it (start_dunk, toggle_dunk, OutboxRuntime::new).
THEOREM SchedulesAreServed == Spec => []NoStrandedSchedule
<1>1. IInv => NoStrandedSchedule
    BY DEF IInv
<1> QED
    BY <1>1, AlwaysIInv, PTL

\* A prompt is typed into the pane whose gates it passed, however often the target was changed
\* before (send_dunk_now, the permission asked for under the lock of the pane).
THEOREM TypedBehindItsGates == Spec => []TypedWhereGated
<1>1. IInv => TypedWhereGated
    <2> SUFFICES ASSUME IInv, NEW t \in Threads, At(t, "typed"), thread[t].moves < 2
                 PROVE  thread[t].pane = thread[t].target
        BY DEF TypedWhereGated
    <2> QED
        BY DEF IInv, AllGated, Gated, At
<1> QED
    BY <1>1, AlwaysIInv, PTL

\* An edit is never slept through: the wake is on its way, was given, or is not needed
\* (interval_changed, timer_wait).
THEOREM EditsWake == Spec => []EditWakesTimer
<1>1. IInv => EditWakesTimer
    BY DEF IInv, Notified, EditWakesTimer
<1> QED
    BY <1>1, AlwaysIInv, PTL

\* No dunk is sent more than once past its cap for each start of its timer or change of its target
\* (finish_do_send, timer_after_send).
THEOREM CapsHold == Spec => []CapEndsSchedule
<1>1. IInv => CapEndsSchedule
    BY DEF IInv
<1> QED
    BY <1>1, AlwaysIInv, PTL

\* At most one thread types into a pane.
OneTyper ==
    \A s, t \in Threads :
        thread[s].at \in Using /\ thread[t].at \in Using /\ thread[s].pane = thread[t].pane => s = t

\* Two timers never type into one pane at the same time, whichever dunks they serve and wherever
\* these are aimed meanwhile: each has the send lock of the pane it chose (send_dunk_now).
THEOREM PanesAreTypedAlone == Spec => []OneTyper
<1>1. IInv => OneTyper
    BY DEF IInv, LocksTrue, OneTyper
<1> QED
    BY <1>1, AlwaysIInv, PTL

===============================================================================
