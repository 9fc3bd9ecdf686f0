----------------------------- MODULE DunkTimer ------------------------------
(***************************************************************************)
(* Dunks: prompts typed into a pane on a timer.  Every running dunk has a  *)
(* thread of its own (rust/crates/ds-core/src/server_runtime/              *)
(* outbox_runtime/dunk_timers.rs) over a row of the dunk list              *)
(* (flock/dunks.rs), which is part of the snapshot file.  Requests start,  *)
(* stop, edit and remove dunks; a test send (manual_fire.rs) types the     *)
(* same text from a thread that no stop reaches.                           *)
(*                                                                         *)
(* Steps.  A step is what happens under one lock: the row, the worker map, *)
(* the signal of a thread, the lock of a pane.  A snapshot is one step     *)
(* too: the lock of `save` spans its selection and its replacement, so     *)
(* only a crash could tell the two apart, and it sees the older file.      *)
(*                                                                         *)
(* Abstractions.  The clock is a flag: a deadline passed or it did not.    *)
(* Counts stop at the cap.  A dunk has a target and a cap.  Panicking      *)
(* threads and snapshots that cannot be written are left out.              *)
(***************************************************************************)
EXTENDS Naturals, FiniteSets

CONSTANTS
    Dunks,    \* rows of the dunk list: one for each lifetime of a row
    Panes,
    Clients,  \* requests served at the same time
    Threads,  \* bound: timer threads at one time
    Cap,      \* max_sends
    None

ASSUME DunkAssumption ==
    /\ Cap \in Nat \ {0}
    /\ Panes # {}
    /\ None \notin Dunks \cup Panes \cup Clients \cup Threads

VARIABLES
    up,        \* the daemon runs
    row,       \* the dunk list
    disk,      \* the dunk list in the snapshot file
    slot,      \* the worker map: the thread registered for each dunk
    thread,    \* the timer threads
    lock,      \* the send lock of each pane: the thread that has it
    client,    \* the requests
    lifecycle, \* the lifecycle lock: the request that has it
    quiet,     \* history variable: the last request that finished with a dunk stopped it
    durable,   \* history variable: and its answer was given
    past       \* history variable: scheduled sends past the cap since the timer was started, or
               \* since the target was changed during a send

requests == <<client, lifecycle, quiet, durable>>
vars == <<up, row, disk, slot, thread, lock, requests, past>>

Unlisted == [state |-> "new", running |-> FALSE, target |-> None, due |-> FALSE, count |-> 0]
Asleep == [d |-> None, at |-> "free", target |-> None, pane |-> None, sent |-> FALSE,
           cancelled |-> FALSE, wake |-> FALSE, moves |-> 0, stale |-> FALSE]
Idle == [at |-> "idle", ds |-> {}, stops |-> FALSE]

Init ==
    /\ up = TRUE
    /\ row = [d \in Dunks |-> Unlisted] /\ disk = row
    /\ slot = [d \in Dunks |-> None]
    /\ thread = [t \in Threads |-> Asleep]
    /\ lock = [p \in Panes |-> None]
    /\ client = [c \in Clients |-> Idle] /\ lifecycle = None
    /\ quiet = [d \in Dunks |-> FALSE] /\ durable = quiet
    /\ past = [d \in Dunks |-> 0]

---------------------------------------------------------------------------
\* Helpers

Listed(d) == row[d].state = "listed"

\* is_running: the row is listed and runs.
IsRunning(d) == Listed(d) /\ row[d].running

Live(t) == thread[t].at \notin {"free", "over"}

At(t, stage) == up /\ thread[t].at = stage

\* What a thread knows ends with its turn of the loop, and its pane with the send.
Turned(r, stage) ==
    IF stage \in {"top", "over"}
    THEN [Asleep EXCEPT !.d = r.d, !.at = stage, !.cancelled = r.cancelled, !.wake = r.wake]
    ELSE [r EXCEPT !.at = stage, !.pane = IF stage \in {"send", "granted", "typed", "count"}
                                          THEN @ ELSE None]

Goto(t, stage) == thread' = [thread EXCEPT ![t] = Turned(@, stage)]

\* FlockSnapshot::save.  A deadline in the file is only ever put off by the restart that reads it.
Save == disk' = [d \in Dunks |-> [row[d] EXCEPT !.due = FALSE]]

\* mutant: a start counts as a send.
StartedCounted(r) == [r EXCEPT !.running = TRUE, !.due = FALSE, !.count = @ + 1]
Started(r) == [r EXCEPT !.running = TRUE, !.due = FALSE]
Stopped(r) == [r EXCEPT !.running = FALSE, !.due = FALSE]

Fresh(d) == [Asleep EXCEPT !.d = d, !.at = "top"]

\* A snapshot after somebody else's change of the state, which has nothing to do with dunks.
SaveByOthers ==
    /\ up /\ Save
    /\ UNCHANGED <<up, row, slot, thread, lock, requests, past>>

\* The deadline of a running dunk passes.
Tick(d) ==
    /\ up /\ row[d].running
    /\ row' = [row EXCEPT ![d].due = TRUE]
    /\ UNCHANGED <<up, disk, slot, thread, lock, requests, past>>

---------------------------------------------------------------------------
\* Requests.  The lifecycle lock is held from the change of the row until the thread is started,
\* or has ended; the snapshot and the answer follow.

\* mutant: requests do not exclude each other.
EnterUnlocked(c) == up /\ client[c].at = "idle" /\ lifecycle' = c
Enter(c) == up /\ client[c].at = "idle" /\ lifecycle = None /\ lifecycle' = c

Step(c, stage) == client' = [client EXCEPT ![c].at = stage]

\* A dunk that is started is not stopped any more, whatever was answered.
Restless(ds) ==
    /\ quiet' = [d \in Dunks |-> quiet[d] /\ d \notin ds]
    /\ durable' = [d \in Dunks |-> durable[d] /\ d \notin ds]

\* add_dunk, with or without `start`.
Add(c, d, p, start) ==
    /\ Enter(c) /\ row[d] = Unlisted
    /\ row' = [row EXCEPT ![d] = [Unlisted EXCEPT !.state = "listed", !.target = p,
                                                  !.running = start]]
    /\ client' = [client EXCEPT ![c] = [Idle EXCEPT !.at = IF start THEN "spawn" ELSE "leave",
                                                     !.ds = {d}]]
    /\ UNCHANGED <<up, disk, slot, thread, lock, quiet, durable, past>>

\* start_dunk: nothing changes when the dunk runs and its thread lives.
Start(c, d) ==
    /\ Enter(c) /\ Listed(d)
    /\ LET runs == row[d].running /\ slot[d] # None /\ Live(slot[d])
       IN  /\ row' = IF runs THEN row ELSE [row EXCEPT ![d] = Started(@)]
           /\ client' = [client EXCEPT ![c] = [Idle EXCEPT
                             !.at = IF runs THEN "leave" ELSE "spawn", !.ds = {d}]]
    /\ Restless({d})
    /\ UNCHANGED <<up, disk, slot, thread, lock, past>>

\* toggle_dunk of a dunk that is stopped.
ToggleOn(c, d) ==
    /\ Enter(c) /\ Listed(d) /\ ~row[d].running
    /\ row' = [row EXCEPT ![d] = Started(@)]
    /\ client' = [client EXCEPT ![c] = [Idle EXCEPT !.at = "spawn", !.ds = {d}]]
    /\ Restless({d})
    /\ UNCHANGED <<up, disk, slot, thread, lock, past>>

\* DunkTimerOwner::start: a registered thread that has not ended is woken, otherwise there is a
\* new one.
Wakes(d) == slot[d] # None /\ Live(slot[d])

Spawn(c, d) ==
    /\ up /\ client[c].at = "spawn" /\ d \in client[c].ds
    /\ IF Wakes(d)
       THEN /\ thread' = [thread EXCEPT ![slot[d]].wake = TRUE]
            /\ UNCHANGED <<slot, past>>
       ELSE \E t \in Threads :
                /\ thread[t].at = "free" \/ t = slot[d]
                /\ thread' = [thread EXCEPT ![t] = Fresh(d)]
                /\ slot' = [slot EXCEPT ![d] = t]
                /\ past' = [past EXCEPT ![d] = 0]
    /\ Step(c, "leave")
    /\ UNCHANGED <<up, row, disk, lock, lifecycle, quiet, durable>>

\* stop_dunk, and toggle_dunk of a dunk that runs.
Stop(c, d) ==
    /\ Enter(c) /\ Listed(d)
    /\ row' = [row EXCEPT ![d] = Stopped(@)]
    /\ client' = [client EXCEPT ![c] = [at |-> "cancel", ds |-> {d}, stops |-> TRUE]]
    /\ UNCHANGED <<up, disk, slot, thread, lock, quiet, durable, past>>

\* stop_all_dunks and halt_dunks_aimed_at: every running dunk, or those aimed at panes that
\* close.  Their threads are cancelled together here, one after the other in the code.
Halt(c, panes) ==
    LET ds == {d \in Dunks : IsRunning(d) /\ row[d].target \in panes}
    IN  /\ Enter(c) /\ ds # {}
        /\ row' = [d \in Dunks |-> IF d \in ds THEN Stopped(row[d]) ELSE row[d]]
        /\ client' = [client EXCEPT ![c] = [at |-> "cancel", ds |-> ds, stops |-> TRUE]]
        /\ UNCHANGED <<up, disk, slot, thread, lock, quiet, durable, past>>

\* remove_dunk: the thread is stopped first, and the row removed when it has ended.
Remove(c, d) ==
    /\ Enter(c) /\ Listed(d)
    /\ client' = [client EXCEPT ![c] = [at |-> "cancel", ds |-> {d}, stops |-> FALSE]]
    /\ UNCHANGED <<up, row, disk, slot, thread, lock, quiet, durable, past>>

\* DunkTimerOwner::stop: the thread leaves the map and is told to end; a finished one is joined.
CancelTimer(c) ==
    /\ up /\ client[c].at = "cancel"
    /\ LET ts == {slot[d] : d \in client[c].ds} \ {None}
       IN  thread' = [t \in Threads |-> IF t \in ts THEN [thread[t] EXCEPT !.cancelled = TRUE]
                                        ELSE thread[t]]
    /\ slot' = [d \in Dunks |-> IF d \in client[c].ds THEN None ELSE slot[d]]
    /\ Step(c, "join")
    /\ UNCHANGED <<up, row, disk, lock, lifecycle, quiet, durable, past>>

\* The threads of these dunks have ended.
\* mutant: nobody waits for a thread that was told to end.
EndedUnchecked(ds) == TRUE
Ended(ds) == \A t \in Threads : thread[t].d \in ds => ~Live(t)

Join(c) ==
    /\ up /\ client[c].at = "join"
    /\ LET ds == client[c].ds
       IN  /\ Ended(ds)
           /\ row' = IF client[c].stops THEN row
                     ELSE [d \in Dunks |-> IF d \in ds
                                           THEN [Stopped(row[d]) EXCEPT !.state = "removed"]
                                           ELSE row[d]]
           /\ thread' = [t \in Threads |-> IF thread[t].d \in ds /\ thread[t].at = "over"
                                           THEN Asleep ELSE thread[t]]
           /\ quiet' = [d \in Dunks |-> quiet[d] \/ (d \in ds)]
    /\ Step(c, "leave")
    /\ UNCHANGED <<up, disk, slot, lock, lifecycle, durable, past>>

Leave(c) ==
    /\ up /\ client[c].at = "leave"
    /\ lifecycle' = None
    /\ Step(c, "save")
    /\ UNCHANGED <<up, row, disk, slot, thread, lock, quiet, durable, past>>

\* update_with_change, without the lifecycle lock: a new target, or a new interval.
Knows(t, d) == thread[t].d = d /\ thread[t].at \in {"wait", "gates", "held", "ready", "send",
                                                    "granted", "typed", "count", "after"}

Edited(d) == [t \in Threads |-> IF Knows(t, d) THEN [thread[t] EXCEPT !.stale = TRUE]
                                ELSE thread[t]]

Retarget(c, d, p) ==
    /\ up /\ client[c].at = "idle" /\ Listed(d) /\ row[d].target # p
    /\ row' = [row EXCEPT ![d].target = p]
    /\ thread' = [t \in Threads |->
                    IF Knows(t, d) /\ thread[t].at \in {"gates", "ready", "send", "granted"}
                                   /\ thread[t].moves < 2
                    THEN [Edited(d)[t] EXCEPT !.moves = @ + 1] ELSE Edited(d)[t]]
    /\ client' = [client EXCEPT ![c] = [Idle EXCEPT !.at = "wake", !.ds = {d}]]
    /\ UNCHANGED <<up, disk, slot, lock, lifecycle, quiet, durable, past>>

Reschedule(c, d) ==
    /\ up /\ client[c].at = "idle" /\ IsRunning(d)
    /\ row' = [row EXCEPT ![d].due = FALSE]
    /\ thread' = Edited(d)
    /\ client' = [client EXCEPT ![c] = [Idle EXCEPT !.at = "wake", !.ds = {d}]]
    /\ UNCHANGED <<up, disk, slot, lock, lifecycle, quiet, durable, past>>

\* interval_changed: the registered thread is woken, unless the dunk has gone meanwhile.
Wake(c) ==
    /\ up /\ client[c].at = "wake"
    /\ LET ts == {slot[d] : d \in client[c].ds} \ {None}
       IN  thread' = [t \in Threads |-> IF t \in ts THEN [thread[t] EXCEPT !.wake = TRUE]
                                        ELSE thread[t]]
    /\ client' = [client EXCEPT ![c] = IF \A d \in @.ds : Listed(d)
                                        THEN [@ EXCEPT !.at = "save"] ELSE Idle]
    /\ UNCHANGED <<up, row, disk, slot, lock, lifecycle, quiet, durable, past>>

\* The change is saved and the request answered.
SaveAnswer(c) ==
    /\ up /\ client[c].at = "save"
    /\ Save
    /\ durable' = [d \in Dunks |-> durable[d] \/ (d \in client[c].ds /\ quiet[d])]
    /\ client' = [client EXCEPT ![c] = Idle]
    /\ UNCHANGED <<up, row, slot, thread, lock, lifecycle, quiet, past>>

---------------------------------------------------------------------------
\* The thread of a dunk: run_dunk_timer

\* The parts no step of a thread changes.
Outside == <<up, slot, requests>>

Check(t) ==
    /\ At(t, "top")
    /\ Goto(t, IF thread[t].cancelled \/ ~IsRunning(thread[t].d) THEN "over" ELSE "fields")
    /\ UNCHANGED <<row, disk, lock, past, Outside>>

\* timer_fields.  A stopped dunk has no deadline: one is made up, and waited for.
ReadFields(t) ==
    /\ At(t, "fields")
    /\ thread' = [thread EXCEPT ![t].target = row[thread[t].d].target,
                                ![t].at = IF row[thread[t].d].due THEN "gates" ELSE "wait"]
    /\ UNCHANGED <<row, disk, lock, past, Outside>>

\* timer_wait: a wake since the last one ends it, also one from before it began.
\* mutant: only a wake ends it.
WokenNotCancelled(t) ==
    /\ At(t, "wait") /\ thread[t].wake
    /\ thread' = [thread EXCEPT ![t] = Turned([@ EXCEPT !.wake = FALSE], "top")]
    /\ UNCHANGED <<row, disk, lock, past, Outside>>
Woken(t) ==
    /\ At(t, "wait") /\ (thread[t].wake \/ thread[t].cancelled)
    /\ thread' = [thread EXCEPT ![t] = Turned([@ EXCEPT !.wake = FALSE], "top")]
    /\ UNCHANGED <<row, disk, lock, past, Outside>>

Timeout(t) ==
    /\ At(t, "wait") /\ ~thread[t].wake /\ ~thread[t].cancelled
    /\ Goto(t, "top")
    /\ UNCHANGED <<row, disk, lock, past, Outside>>

\* The agent is busy, or somebody is typing: the hold is saved.
GateCloses(t) ==
    /\ At(t, "gates")
    /\ \E stage \in {"wait", "held"} : Goto(t, stage)
    /\ UNCHANGED <<row, disk, lock, past, Outside>>

\* The wait for the box to settle is a timer_wait too.
Interrupted(t) ==
    /\ At(t, "gates") /\ (thread[t].wake \/ thread[t].cancelled)
    /\ thread' = [thread EXCEPT ![t] = Turned([@ EXCEPT !.wake = FALSE],
                                              IF @.cancelled THEN "over" ELSE "top")]
    /\ UNCHANGED <<row, disk, lock, past, Outside>>

\* The last prompt still waits in the box (skip_if_unconsumed).
Skip(t) ==
    /\ At(t, "gates") /\ ~thread[t].cancelled /\ row[thread[t].d].count > 0
    /\ row' = [row EXCEPT ![thread[t].d].due = FALSE]
    /\ Goto(t, "held")
    /\ UNCHANGED <<disk, lock, past, Outside>>

Pass(t) ==
    /\ At(t, "gates")
    /\ Goto(t, IF thread[t].cancelled THEN "over" ELSE "ready")
    /\ UNCHANGED <<row, disk, lock, past, Outside>>

\* send_dunk_now: the pane is that of the row, as it is now.
Snapshot(t) ==
    /\ At(t, "ready")
    /\ thread' = [thread EXCEPT ![t].pane = row[thread[t].d].target, ![t].at = "send"]
    /\ UNCHANGED <<row, disk, lock, past, Outside>>

\* The permission is asked for under the lock of the pane.
\* mutant: the target is not compared again.
PermittedAnywhere(t) == ~thread[t].cancelled /\ IsRunning(thread[t].d)
Permitted(t) ==
    /\ ~thread[t].cancelled /\ IsRunning(thread[t].d)
    /\ row[thread[t].d].target = thread[t].target

Permit(t) ==
    /\ At(t, "send") /\ lock[thread[t].pane] = None
    /\ Goto(t, IF Permitted(t) THEN "granted" ELSE "after")
    /\ lock' = IF Permitted(t) THEN [lock EXCEPT ![thread[t].pane] = t] ELSE lock
    /\ UNCHANGED <<row, disk, past, Outside>>

\* The box is not clear after all, or the session is dead.
Blocked(t) ==
    /\ At(t, "granted")
    /\ Goto(t, "after")
    /\ lock' = [lock EXCEPT ![thread[t].pane] = None]
    /\ UNCHANGED <<row, disk, past, Outside>>

TypeDunk(t) ==
    /\ At(t, "granted")
    /\ Goto(t, "typed")
    /\ UNCHANGED <<row, disk, lock, past, Outside>>

\* finish_do_send: a confirmed send counts, also when the dunk was stopped meanwhile.
Counted(r) == [r EXCEPT !.count = IF @ < Cap THEN @ + 1 ELSE @]

Confirm(t, ok) ==
    /\ At(t, "typed")
    /\ row' = IF ok THEN [row EXCEPT ![thread[t].d] = Counted(@)] ELSE row
    /\ past' = IF ok /\ row[thread[t].d].count = Cap
               THEN [past EXCEPT ![thread[t].d] = IF @ < 2 THEN @ + 1 ELSE @] ELSE past
    /\ Goto(t, "count")
    /\ UNCHANGED <<disk, lock, Outside>>

SaveCount(t) ==
    /\ At(t, "count") /\ Save
    /\ thread' = [thread EXCEPT ![t] = Turned([@ EXCEPT !.sent = TRUE], "after")]
    /\ lock' = [lock EXCEPT ![thread[t].pane] = None]
    /\ UNCHANGED <<row, past, Outside>>

\* timer_after_send.
\* mutant: one send more.
ReachedLate(r) == r.count > Cap
Reached(r) == r.count >= Cap

\* What the send came to is looked at only while the dunk runs and has the same target.
Leaves(t) == thread[t].cancelled \/ ~IsRunning(thread[t].d)
Moved(t) == row[thread[t].d].target # thread[t].target

AfterSend(t) ==
    /\ At(t, "after")
    /\ CASE Leaves(t) -> Goto(t, "over") /\ UNCHANGED row
         [] ~Leaves(t) /\ Moved(t) -> Goto(t, "top") /\ UNCHANGED row
         [] ~Leaves(t) /\ ~Moved(t) /\ thread[t].sent ->
                /\ row' = [row EXCEPT ![thread[t].d].due = FALSE]
                /\ Goto(t, IF Reached(row[thread[t].d]) THEN "capped" ELSE "held")
         [] OTHER -> (Goto(t, "held") \/ Goto(t, "top")) /\ UNCHANGED row
    /\ past' = IF ~Leaves(t) /\ Moved(t) THEN [past EXCEPT ![thread[t].d] = 0] ELSE past
    /\ UNCHANGED <<disk, lock, Outside>>

\* mutant: wakes are counted from the start of the wait.
SaveHeldForgets(t) ==
    /\ At(t, "held") /\ Save
    /\ thread' = [thread EXCEPT ![t] = Turned([@ EXCEPT !.wake = FALSE], "wait")]
    /\ UNCHANGED <<row, lock, past, Outside>>
SaveHeld(t) ==
    /\ At(t, "held") /\ Save
    /\ Goto(t, "wait")
    /\ UNCHANGED <<row, lock, past, Outside>>

SaveCapped(t) ==
    /\ At(t, "capped") /\ Save
    /\ Goto(t, "remove")
    /\ UNCHANGED <<row, lock, past, Outside>>

RemoveSelf(t) ==
    /\ At(t, "remove")
    /\ row' = [row EXCEPT ![thread[t].d] = [Stopped(@) EXCEPT !.state = "removed"]]
    /\ Goto(t, "removed")
    /\ UNCHANGED <<disk, lock, past, Outside>>

SaveRemoved(t) ==
    /\ At(t, "removed") /\ Save
    /\ Goto(t, "over")
    /\ UNCHANGED <<row, lock, past, Outside>>

---------------------------------------------------------------------------
\* A test send (fire, fire_captured) of a dunk that is on the list or was when it was asked for.
\* It has the lock of the pane from its last look at the box until it is counted, so the threads
\* see it as one step, and the save that follows is one of SaveByOthers.  A held test does
\* nothing, or is tried again later from the outbox.
TestSend(d) ==
    /\ up /\ row[d].state # "new" /\ lock[row[d].target] = None
    /\ row' = [row EXCEPT ![d] = Counted(@)]
    /\ UNCHANGED <<up, disk, slot, thread, lock, requests, past>>

---------------------------------------------------------------------------
\* The daemon ends, by a shutdown that joins the threads or by being killed, and starts again.

Exit ==
    /\ up /\ up' = FALSE
    /\ row' = disk
    /\ slot' = [d \in Dunks |-> None] /\ thread' = [t \in Threads |-> Asleep]
    /\ lock' = [p \in Panes |-> None]
    /\ client' = [c \in Clients |-> Idle] /\ lifecycle' = None
    /\ quiet' = durable
    /\ UNCHANGED <<disk, durable, past>>

\* load and OutboxRuntime::new: a missed deadline is put off, and every running dunk gets a
\* thread.
\* mutant: the dunks of the file are not started.
RestartIdle ==
    /\ ~up /\ up' = TRUE
    /\ row' = [d \in Dunks |-> [row[d] EXCEPT !.due = FALSE]]
    /\ past' = [d \in Dunks |-> 0]
    /\ UNCHANGED <<disk, slot, thread, lock, requests>>
Restart ==
    /\ ~up /\ up' = TRUE
    /\ row' = [d \in Dunks |-> [row[d] EXCEPT !.due = FALSE]]
    /\ \E f \in [{d \in Dunks : row[d].running} -> Threads] :
        /\ \A d, e \in DOMAIN f : f[d] = f[e] => d = e
        /\ slot' = [d \in Dunks |-> IF d \in DOMAIN f THEN f[d] ELSE None]
        /\ thread' = [t \in Threads |-> IF \E d \in DOMAIN f : f[d] = t
                                        THEN Fresh(CHOOSE d \in DOMAIN f : f[d] = t) ELSE Asleep]
    /\ past' = [d \in Dunks |-> 0]
    /\ UNCHANGED <<disk, lock, requests>>

---------------------------------------------------------------------------
Request(c) ==
    \/ \E d \in Dunks :
        \/ \E p \in Panes : Retarget(c, d, p) \/ (\E start \in BOOLEAN : Add(c, d, p, start))
        \/ Start(c, d) \/ ToggleOn(c, d) \/ Stop(c, d) \/ Remove(c, d) \/ Reschedule(c, d)
    \/ \E panes \in SUBSET Panes : Halt(c, panes)

Served(c) ==
    \/ \E d \in Dunks : Spawn(c, d)
    \/ CancelTimer(c) \/ Join(c) \/ Leave(c) \/ Wake(c) \/ SaveAnswer(c)

Sending(t) == Permit(t) \/ Blocked(t) \/ TypeDunk(t) \/ (\E ok \in BOOLEAN : Confirm(t, ok))

Looping(t) ==
    \/ Check(t) \/ ReadFields(t) \/ Woken(t) \/ Timeout(t)
    \/ GateCloses(t) \/ Interrupted(t) \/ Skip(t) \/ Pass(t) \/ Snapshot(t)
    \/ SaveCount(t) \/ AfterSend(t) \/ SaveHeld(t) \/ SaveCapped(t) \/ RemoveSelf(t)
    \/ SaveRemoved(t)

Next ==
    \/ SaveByOthers
    \/ \E d \in Dunks : Tick(d) \/ TestSend(d)
    \/ \E c \in Clients : Request(c) \/ Served(c)
    \/ \E t \in Threads : Looping(t) \/ Sending(t)
    \/ Exit \/ Restart

\* Threads run, clocks advance, the lock of a pane is handed on, and the daemon is restarted.
Fairness ==
    /\ \A t \in Threads : WF_vars(Looping(t)) /\ SF_vars(Sending(t))
    /\ \A c \in Clients : WF_vars(Served(c))
    /\ \A d \in Dunks : WF_vars(Tick(d))
    /\ WF_vars(Restart)

Spec == Init /\ [][Next]_vars /\ Fairness

---------------------------------------------------------------------------
\* Properties

ThreadStages == {"free", "top", "fields", "wait", "gates", "held", "ready", "send", "granted",
                 "typed", "count", "after", "capped", "remove", "removed", "over"}
Rows == [state: {"new", "listed", "removed"}, running: BOOLEAN, target: Panes \cup {None},
         due: BOOLEAN, count: 0..Cap]

\* Every variable keeps its type.
TypeOK ==
    /\ up \in BOOLEAN
    /\ row \in [Dunks -> Rows] /\ disk \in [Dunks -> Rows]
    /\ slot \in [Dunks -> Threads \cup {None}]
    /\ thread \in [Threads -> [d: Dunks \cup {None}, at: ThreadStages,
                               target: Panes \cup {None}, pane: Panes \cup {None},
                               sent: BOOLEAN, cancelled: BOOLEAN, wake: BOOLEAN, moves: 0..2,
                               stale: BOOLEAN]]
    /\ lock \in [Panes -> Threads \cup {None}]
    /\ client \in [Clients -> [at: {"idle", "spawn", "cancel", "join", "leave", "wake", "save"},
                               ds: SUBSET Dunks, stops: BOOLEAN]]
    /\ lifecycle \in Clients \cup {None}
    /\ quiet \in [Dunks -> BOOLEAN] /\ durable \in [Dunks -> BOOLEAN]
    /\ past \in [Dunks -> 0..2]

\* A dunk never has two timer threads, which would type its prompt twice (DunkTimerOwner).
OneTimer ==
    \A s, t \in Threads : Live(s) /\ Live(t) /\ thread[s].d = thread[t].d => s = t

\* When a stop, a removal or a halt is answered nothing is typed for the dunk any more, not even
\* by a send that was under way, and a restart does not bring it back.
StoppedStaysStopped ==
    \A d \in Dunks :
        /\ quiet[d] => \A t \in Threads : thread[t].d = d => ~Live(t)
        /\ durable[d] => ~disk[d].running /\ (up => ~row[d].running)

\* A dunk that is shown as running has a thread that will send it, or a request at work on it.
NoStrandedSchedule ==
    \A d \in Dunks : up /\ IsRunning(d) =>
        \/ slot[d] # None /\ Live(slot[d]) /\ ~thread[slot[d]].cancelled
        \/ lifecycle # None /\ d \in client[lifecycle].ds

\* Text goes into the pane whose gates it passed: the target may change at any time.  (Changed
\* there and back it passes the comparison: two edits within one send are outside this.)
TypedWhereGated ==
    \A t \in Threads : At(t, "typed") /\ thread[t].moves < 2 => thread[t].pane = thread[t].target

\* No lost wake: a thread that sleeps on fields that were edited since is about to be woken.
EditWakesTimer ==
    \A t \in Threads : At(t, "wait") /\ thread[t].stale =>
        \/ thread[t].wake \/ thread[t].cancelled
        \/ \E c \in Clients : client[c].at = "wake" /\ thread[t].d \in client[c].ds
        \/ slot[thread[t].d] # t

\* Past its cap a dunk is sent at most once for each time its timer is started or its target is
\* changed during a send, whoever else counts: test sends, a stop during the last send, a crash
\* before the row was removed.
CapEndsSchedule == \A d \in Dunks : past[d] <= 1

\* A stop does not wait for ever, and everybody else behind the lifecycle lock it has, for the
\* thread it cancelled, which may itself be waiting for the lock of the pane or for the clock.
StopReturns == lifecycle # None ~> lifecycle = None

\* Once its gates stay open and nobody changes targets any more, a prompt that is due is
\* attempted, or put off, or its dunk ends.
DueIsServed ==
    <>[][/\ \A t \in Threads : ~GateCloses(t) /\ ~Blocked(t)
         /\ \A d \in Dunks : row'[d].target = row[d].target]_vars
        => \A d \in Dunks : (up /\ IsRunning(d) /\ row[d].due) ~> ~(IsRunning(d) /\ row[d].due)
============================================================================
