------------------------------ MODULE TaskStore ------------------------------
(***************************************************************************)
(* The shared work queue of the daemon (rust/crates/ds-core/src/tasks).    *)
(*                                                                         *)
(* Every operation on the store is a closure run by the one writer thread  *)
(* of the database (db.rs), so an operation is one action.  What is NOT    *)
(* atomic is kept apart: a completion request reads and authorises the     *)
(* task, then runs the advance transaction, then, for unmerged work,       *)
(* writes the `landed` flag in a call of its own; and set_status is a list *)
(* of autocommitted statements that a crash can cut after the first.       *)
(*                                                                         *)
(* Time is abstracted: lease_seconds is an argument of every claim and     *)
(* heartbeat, so any live lease may be the next one to run out.  The       *)
(* scope, kind and author filters of a pull, and the priority order inside *)
(* them, are data: any task that passes the claim rules may be the first   *)
(* that also passes the filters.                                           *)
(***************************************************************************)
EXTENDS Naturals, FiniteSets

CONSTANTS
    MaxTask,        \* bound: how many ids the counter may hand out
    Panes,          \* the terminal panes agents run in
    Operators,      \* panes on the superusers allowlist
    PullRequests,   \* sets of task ids that name one and the same pull request
    Drafts,         \* what `task add` is called with
    Edits,          \* what `task update` is called with
    Grants,         \* assignee lists `task assign` is called with
    Commands,       \* <<status, reason>> of `task block`, `task unblock`, `task cancel`
    Landings,       \* what `task complete` says of the work: {TRUE} is no --unmerged
    BusyOK,         \* whether callers pass --allow-busy
    LateHeartbeats, \* whether an agent heartbeats a lease that has run out
    TornWrites      \* whether the daemon may die inside set_status

Tasks    == 1..MaxTask
Statuses == {"open", "in_progress", "blocked", "done", "cancelled"}
Terminal == {"done", "cancelled"}                  \* is_terminal
EndsClaim == {"done", "cancelled", "blocked"}      \* ends_claim

\* A block reason as the auto-unblock reads it: NULL or empty, `blocked-by:*`, or any
\* other text, which belongs to the owner.
Reasons == {"none", "dependency", "owner"}

Row == [status: Statuses \cup {"absent"}, assignees: SUBSET Panes, multi: BOOLEAN,
        deps: SUBSET Tasks, reason: Reasons, landed: BOOLEAN]

Lease == [state: {"none", "live", "expired"}, callerDead: BOOLEAN, added: BOOLEAN]

Request == [pc: {"idle", "authorised", "unlanding"}, task: Tasks, landed: BOOLEAN]

\* An optional field of an edit: {} leaves the column, {v} writes v.
Opt(S) == {{}} \cup {{v} : v \in S}
Given(option, old) == IF option = {} THEN old ELSE CHOOSE v \in option : TRUE

DraftType == [assignees: SUBSET Panes, multi: BOOLEAN, deps: SUBSET Tasks,
              status: Statuses]
EditType == [assignees: Opt(SUBSET Panes), multi: Opt(BOOLEAN), deps: Opt(SUBSET Tasks),
             status: Opt(Statuses), reason: Opt(Reasons)]

ASSUME StoreAssumption ==
    /\ MaxTask \in Nat \ {0}
    /\ Operators \subseteq Panes
    /\ PullRequests \subseteq SUBSET Tasks
    /\ Drafts \subseteq DraftType
    /\ Edits \subseteq EditType
    /\ Grants \subseteq SUBSET Panes
    /\ Commands \subseteq {"blocked", "open", "cancelled"} \X Reasons
    /\ Landings \subseteq BOOLEAN
    /\ BusyOK \in BOOLEAN
    /\ LateHeartbeats \in BOOLEAN
    /\ TornWrites \in BOOLEAN

VARIABLES
    task,       \* the tasks table: one row per id
    lease,      \* the task_leases table: one row per (task, pane)
    request,    \* per pane, its `task complete` request being served
    nextId      \* the `task` counter

vars == <<task, lease, request, nextId>>

NoLease  == [state |-> "none", callerDead |-> FALSE, added |-> FALSE]
NoLeases == [p \in Panes |-> NoLease]
Idle     == [pc |-> "idle", task |-> 1, landed |-> TRUE]
Absent   == [status |-> "absent", assignees |-> {}, multi |-> FALSE, deps |-> {},
             reason |-> "none", landed |-> TRUE]

-----------------------------------------------------------------------------
(* What the operations read.  T and L are the two tables as the transaction *)
(* sees them, which inside an advance is after the completion it made.     *)

Exists(t)     == task[t].status # "absent"
Held(t, p)    == lease[t][p].state # "none"
Live(t, p)    == lease[t][p].state = "live"
Holders(L, t) == {p \in Panes : L[t][p].state = "live"}

\* dependency_state: missing, unfinished or unlanded; a cancelled one counts as satisfied.
BlockedBy(T, t) ==
    {d \in T[t].deps : /\ T[d].status # "cancelled"
                       /\ ~(T[d].status = "done" /\ T[d].landed)}

\* auto_unblock: here a cancelled dependency does not count.
Satisfied(t) ==
    /\ task[t].deps # {}
    /\ \A d \in task[t].deps : task[d].status = "done" /\ task[d].landed

\* mutant: a task somebody holds is still offered to its other assignees.
ClaimableHeld(T, L, t, p) ==
    /\ p \notin Holders(L, t)
    /\ T[t].status \in {"open", "in_progress"}
    /\ T[t].assignees = {} \/ T[t].multi \/ p \in T[t].assignees

Claimable(T, L, t, p) ==
    LET owned == T[t].multi \/ p \in T[t].assignees
    IN  /\ p \notin Holders(L, t)
        /\ IF Holders(L, t) # {} THEN T[t].multi
           ELSE \/ T[t].status = "open" /\ (T[t].assignees = {} \/ owned)
                \/ T[t].status = "in_progress" /\ owned

Busy(T, L, p) == \E t \in Tasks : T[t].status = "in_progress" /\ p \in Holders(L, t)

Owners(T, L, t) == T[t].assignees \cup Holders(L, t)

\* mutant: the hand-over does not ask whether the pane is busy.
PlannedWhileBusy(T, L, p) ==
    {t \in Tasks : /\ T[t].status = "open"
                   /\ p \in T[t].assignees
                   /\ T[t].reason = "none"
                   /\ BlockedBy(T, t) = {}
                   /\ Claimable(T, L, t, p)}

\* next_job_plan: open, assigned to this pane, no dependency and no reason holding it.
Planned(T, L, p) ==
    {t \in Tasks : /\ T[t].status = "open"
                   /\ p \in T[t].assignees
                   /\ T[t].reason = "none"
                   /\ BlockedBy(T, t) = {}
                   /\ Claimable(T, L, t, p)
                   /\ ~Busy(T, L, p)}

\* _claim_locked: the row and the lease a claim writes.
ClaimRow(T, t, p) ==
    [T EXCEPT ![t].status = "in_progress", ![t].assignees = @ \cup {p}, ![t].reason = "none"]
ClaimLease(T, L, t, p) ==
    [L EXCEPT ![t][p] = [state |-> "live", callerDead |-> FALSE,
                         added |-> p \notin T[t].assignees]]

-----------------------------------------------------------------------------
(* Creating, editing and deleting                                          *)

Init ==
    /\ task = [t \in Tasks |-> Absent]
    /\ lease = [t \in Tasks |-> NoLeases]
    /\ request = [p \in Panes |-> Idle]
    /\ nextId = 1

Add(d) ==
    /\ nextId <= MaxTask
    /\ \A dep \in d.deps : Exists(dep)
    /\ task' = [task EXCEPT ![nextId] =
                  [status |-> d.status, assignees |-> d.assignees, multi |-> d.multi,
                   deps |-> d.deps, reason |-> "none", landed |-> TRUE]]
    /\ nextId' = nextId + 1
    /\ UNCHANGED <<lease, request>>

\* update_with_status: any set of columns in one transaction.  It opens no dependent.
Update(t, e) ==
    LET row    == task[t]
        status == Given(e.status, row.status)
        deps   == Given(e.deps, row.deps)
        kept   == IF e.status = {} \/ status = "blocked" THEN row.reason ELSE "none"
    IN  /\ Exists(t)
        /\ e.deps # {} => t \notin deps /\ \A d \in deps : Exists(d)
        /\ row.status \in Terminal => status = row.status
        /\ task' = [task EXCEPT ![t] =
                      [status |-> status, assignees |-> Given(e.assignees, row.assignees),
                       multi |-> Given(e.multi, row.multi), deps |-> deps,
                       reason |-> Given(e.reason, kept), landed |-> row.landed]]
        /\ lease' = IF status # row.status /\ status \in EndsClaim
                    THEN [lease EXCEPT ![t] = NoLeases] ELSE lease
        /\ UNCHANGED <<request, nextId>>

Assign(t, panes, mode) ==
    /\ Exists(t)
    /\ panes # {}
    /\ task' = [task EXCEPT ![t].assignees =
                  CASE mode = "add"    -> @ \cup panes
                    [] mode = "remove" -> @ \ panes
                    [] mode = "set"    -> panes]
    /\ UNCHANGED <<lease, request, nextId>>

\* mutant: the id of a deleted newest row is handed out again.
DeleteFreesId(t) ==
    /\ Exists(t)
    /\ \A other \in Tasks : t \notin task[other].deps
    /\ task' = [task EXCEPT ![t] = Absent]
    /\ nextId' = IF t = nextId - 1 THEN t ELSE nextId
    /\ UNCHANGED <<lease, request>>

\* mutant: the rows that depend on the task are not looked for.
DeleteDependedOn(t) ==
    /\ Exists(t)
    /\ task' = [task EXCEPT ![t] = Absent]
    /\ UNCHANGED <<lease, request, nextId>>

\* Leases of a deleted row stay behind; the reaper drops them.
Delete(t) ==
    /\ Exists(t)
    /\ \A other \in Tasks : t \notin task[other].deps
    /\ task' = [task EXCEPT ![t] = Absent]
    /\ UNCHANGED <<lease, request, nextId>>

-----------------------------------------------------------------------------
(* set_status, as `task block`, `task unblock` and `task cancel` call it    *)

MayBecome(t, s) == Exists(t) /\ (task[t].status \in Terminal => s = task[t].status)

\* mutant: the two bound parameters of the UPDATE change places.
StatusRowSwapped(t, s, r) ==
    [task EXCEPT ![t].status = r,
                 ![t].reason = IF s \in {"blocked", "cancelled"} THEN s ELSE "none"]

StatusRow(t, s, r) ==
    [task EXCEPT ![t].status = s,
                 ![t].reason = IF s \in {"blocked", "cancelled"} THEN r ELSE "none"]

SetStatus(t, s, r) ==
    /\ MayBecome(t, s)
    /\ task' = StatusRow(t, s, r)
    /\ lease' = IF s \in EndsClaim THEN [lease EXCEPT ![t] = NoLeases] ELSE lease
    /\ UNCHANGED <<request, nextId>>

\* The daemon dies after the UPDATE and before the DELETE of the leases.
CrashInSetStatus(t, s, r) ==
    /\ TornWrites
    /\ MayBecome(t, s)
    /\ task' = StatusRow(t, s, r)
    /\ request' = [p \in Panes |-> Idle]
    /\ UNCHANGED <<lease, nextId>>

-----------------------------------------------------------------------------
(* Claims                                                                  *)

\* mutant: the pull trusts the claim rules to look at the status.
ClaimNextAnyStatus(p, t) ==
    /\ BusyOK \/ ~Busy(task, lease, p)
    /\ BlockedBy(task, t) = {}
    /\ Claimable(task, lease, t, p)
    /\ task' = ClaimRow(task, t, p)
    /\ lease' = ClaimLease(task, lease, t, p)
    /\ UNCHANGED <<request, nextId>>

ClaimNext(p, t) ==
    /\ task[t].status \in {"open", "in_progress"}
    /\ BusyOK \/ ~Busy(task, lease, p)
    /\ BlockedBy(task, t) = {}
    /\ Claimable(task, lease, t, p)
    /\ task' = ClaimRow(task, t, p)
    /\ lease' = ClaimLease(task, lease, t, p)
    /\ UNCHANGED <<request, nextId>>

\* The UPDATE does not look at expires_at; `caller` says whether the agent's process is known.
Heartbeat(p, t, caller) ==
    /\ Exists(t)
    /\ Held(t, p)
    /\ LateHeartbeats \/ Live(t, p)
    /\ lease' = [lease EXCEPT ![t][p].state = "live",
                              ![t][p].callerDead = @ /\ ~caller]
    /\ UNCHANGED <<task, request, nextId>>

\* mutant (the t872 defect): any task whose last lease goes is reopened.
ReopenAny(T, L, t) ==
    IF T[t].status # "absent" /\ \A p \in Panes : L[t][p].state = "none"
    THEN [T[t] EXCEPT !.status = "open"] ELSE T[t]

\* mutant: the lease goes and the status stays.
ReopenNone(T, L, t) == T[t]

\* after_lease_change for task t once the leases in L are what is left.
AfterLeaseChange(T, L, t) ==
    IF T[t].status = "in_progress" /\ \A p \in Panes : L[t][p].state = "none"
    THEN [T[t] EXCEPT !.status = "open"] ELSE T[t]

Release(p, t) ==
    LET left     == [lease EXCEPT ![t][p] = NoLease]
        unlisted == IF lease[t][p].added
                    THEN [task EXCEPT ![t].assignees = @ \ {p}] ELSE task
    IN  /\ Exists(t)
        /\ lease' = left
        /\ task' = [unlisted EXCEPT ![t] = AfterLeaseChange(unlisted, left, t)]
        /\ UNCHANGED <<request, nextId>>

\* A lease is reaped for its deadline or for a dead caller, never for a vanished pane.
Doomed(t, p) == Held(t, p) /\ (lease[t][p].state = "expired" \/ lease[t][p].callerDead)

Reap ==
    LET left == [t \in Tasks |-> [p \in Panes |-> IF Doomed(t, p) THEN NoLease
                                                  ELSE lease[t][p]]]
    IN  /\ \E t \in Tasks, p \in Panes : Doomed(t, p)
        /\ lease' = left
        /\ task' = [t \in Tasks |-> IF \E p \in Panes : Doomed(t, p)
                                    THEN AfterLeaseChange(task, left, t) ELSE task[t]]
        /\ UNCHANGED <<request, nextId>>

\* mutant: only a recorded dependency reason is swept, never an empty one.
SweepRecorded ==
    LET opened == {t \in Tasks : /\ task[t].status = "blocked"
                                 /\ task[t].reason = "dependency"
                                 /\ Satisfied(t)}
    IN  /\ opened # {}
        /\ task' = [t \in Tasks |-> IF t \in opened
                                    THEN [task[t] EXCEPT !.status = "open", !.reason = "none"]
                                    ELSE task[t]]
        /\ UNCHANGED <<lease, request, nextId>>

\* sweep_auto_unblock, the first store call of a reaper tick.
Sweep ==
    LET opened == {t \in Tasks : /\ task[t].status = "blocked"
                                 /\ task[t].reason # "owner"
                                 /\ Satisfied(t)}
    IN  /\ opened # {}
        /\ task' = [t \in Tasks |-> IF t \in opened
                                    THEN [task[t] EXCEPT !.status = "open", !.reason = "none"]
                                    ELSE task[t]]
        /\ UNCHANGED <<lease, request, nextId>>

-----------------------------------------------------------------------------
(* Completion: Flock::task_complete_async                                  *)

\* The task is read and the caller authorised before anything is written.
BeginComplete(p, t, landed) ==
    /\ request[p].pc = "idle"
    /\ Exists(t)
    /\ p \in Owners(task, lease, t) \cup Operators
    /\ request' = [request EXCEPT ![p] = [pc |-> "authorised", task |-> t, landed |-> landed]]
    /\ UNCHANGED <<task, lease, nextId>>

AfterAdvance(p) == IF request[p].landed THEN Idle ELSE [request[p] EXCEPT !.pc = "unlanding"]

\* advance_in's completion half; auto_unblock is not called here.
DoneRow(t)    == [task EXCEPT ![t].status = "done", ![t].reason = "none"]
DoneLeases(t) == [lease EXCEPT ![t] = NoLeases]

\* mutant: the authorisation of the request is not asked again.
MayCompleteUnchecked(p, t) == TRUE

\* Ownership is checked on the fresh row, and once more before the commit, when the leases
\* of the completed task are already gone.
MayComplete(p, t) ==
    /\ p \in Owners(task, lease, t) \cup Operators
    /\ p \in Owners(DoneRow(t), DoneLeases(t), t) \cup Operators

RefuseComplete(p) ==
    LET t == request[p].task
    IN  /\ request[p].pc = "authorised"
        /\ ~Exists(t) \/ (task[t].status # "done" /\ ~MayComplete(p, t))
        /\ request' = [request EXCEPT ![p] = Idle]
        /\ UNCHANGED <<task, lease, nextId>>

\* `already_completed`: nothing written, and the request goes on.
AlreadyComplete(p) ==
    /\ request[p].pc = "authorised"
    /\ task[request[p].task].status = "done"
    /\ request' = [request EXCEPT ![p] = AfterAdvance(p)]
    /\ UNCHANGED <<task, lease, nextId>>

\* Complete and, in the same transaction, hand the pane its next job or skip.
Advance(p, next) ==
    LET t == request[p].task
        T == DoneRow(t)
        L == DoneLeases(t)
    IN  /\ request[p].pc = "authorised"
        /\ Exists(t)
        /\ task[t].status # "done"
        /\ MayComplete(p, t)
        /\ next \subseteq Planned(T, L, p)
        /\ task' = [u \in Tasks |-> IF u \in next THEN ClaimRow(T, u, p)[u] ELSE T[u]]
        /\ lease' = [u \in Tasks |-> IF u \in next THEN ClaimLease(T, L, u, p)[u] ELSE L[u]]
        /\ request' = [request EXCEPT ![p] = AfterAdvance(p)]
        /\ UNCHANGED nextId

\* set_landed(false), a writer call of its own after the advance committed.
SetUnlanded(p) ==
    LET t == request[p].task
    IN  /\ request[p].pc = "unlanding"
        /\ task' = IF Exists(t) THEN [task EXCEPT ![t].landed = FALSE] ELSE task
        /\ request' = [request EXCEPT ![p] = Idle]
        /\ UNCHANGED <<lease, nextId>>

\* advance with trigger turn_end or restart: no completion, only the next job.
AdvanceIdle(p, t) ==
    /\ t \in Planned(task, lease, p)
    /\ task' = ClaimRow(task, t, p)
    /\ lease' = ClaimLease(task, lease, t, p)
    /\ UNCHANGED <<request, nextId>>

MarkLandedForPr(pr) ==
    LET unlanded == {t \in pr : task[t].status = "done" /\ ~task[t].landed}
    IN  /\ unlanded # {}
        /\ task' = [t \in Tasks |-> IF t \in unlanded THEN [task[t] EXCEPT !.landed = TRUE]
                                    ELSE task[t]]
        /\ UNCHANGED <<lease, request, nextId>>

-----------------------------------------------------------------------------
(* The environment                                                         *)

LeaseExpires(t, p) ==
    /\ Live(t, p)
    /\ lease' = [lease EXCEPT ![t][p].state = "expired"]
    /\ UNCHANGED <<task, request, nextId>>

\* The agent's process behind this pane's leases exits.
CallerDies(p) ==
    /\ \E t \in Tasks : Held(t, p) /\ ~lease[t][p].callerDead
    /\ lease' = [t \in Tasks |-> [lease[t] EXCEPT ![p].callerDead = Held(t, p)]]
    /\ UNCHANGED <<task, request, nextId>>

\* A restart of the daemon: the tables survive, the requests in flight do not.
Crash ==
    /\ \E p \in Panes : request[p].pc # "idle"
    /\ request' = [p \in Panes |-> Idle]
    /\ UNCHANGED <<task, lease, nextId>>

-----------------------------------------------------------------------------
OwnerStep ==
    \/ \E d \in Drafts : Add(d)
    \/ \E t \in Tasks, e \in Edits : Update(t, e)
    \/ \E t \in Tasks, g \in Grants, mode \in {"add", "remove", "set"} : Assign(t, g, mode)
    \/ \E t \in Tasks : Delete(t)
    \/ \E t \in Tasks, c \in Commands : SetStatus(t, c[1], c[2])
    \/ \E pr \in PullRequests : MarkLandedForPr(pr)

\* The steps of the claim machinery: none of them is somebody's decision about the task.
ClaimStep ==
    \/ \E p \in Panes, t \in Tasks : ClaimNext(p, t)
    \/ \E p \in Panes, t \in Tasks : AdvanceIdle(p, t)
    \/ \E p \in Panes, t \in Tasks, caller \in BOOLEAN : Heartbeat(p, t, caller)
    \/ \E p \in Panes, t \in Tasks : Release(p, t)
    \/ \E p \in Panes, t \in Tasks : LeaseExpires(t, p)
    \/ \E p \in Panes : CallerDies(p)
    \/ Reap

CompletionStep ==
    \/ \E p \in Panes, t \in Tasks, landed \in Landings : BeginComplete(p, t, landed)
    \/ \E p \in Panes : RefuseComplete(p)
    \/ \E p \in Panes : AlreadyComplete(p)
    \/ \E p \in Panes : Advance(p, {})
    \/ \E p \in Panes, t \in Tasks : Advance(p, {t})
    \/ \E p \in Panes : SetUnlanded(p)

CrashStep ==
    \/ Crash
    \/ \E t \in Tasks, c \in Commands : CrashInSetStatus(t, c[1], c[2])

Next == OwnerStep \/ ClaimStep \/ CompletionStep \/ CrashStep \/ Sweep

Spec == Init /\ [][Next]_vars

\* The reaper loop ticks every DUNKINGSHEEP_REAP_S seconds for as long as the daemon runs;
\* each tick sweeps, and reaps when the terminal backend answers live.
FairSpec == Spec /\ WF_vars(Sweep) /\ WF_vars(Reap)

-----------------------------------------------------------------------------
(* Properties                                                              *)

\* The tables, the requests and the counter stay within their columns' values.
TypeOK ==
    /\ task \in [Tasks -> Row]
    /\ lease \in [Tasks -> [Panes -> Lease]]
    /\ request \in [Panes -> Request]
    /\ nextId \in 1..(MaxTask + 1)

Exclusive(t) == Exists(t) /\ ~task[t].multi

\* "two agents never win the same exclusive task" (docs/GUIDE.md): across pulls, next-job
\* hand-overs, expiries, re-claims and reassignments, a task for one is live for one.
ExclusiveLease ==
    \A t \in Tasks : Exclusive(t) => \A p, q \in Panes : Live(t, p) /\ Live(t, q) => p = q

\* Without --allow-busy a pane works on one exclusive task: a pull and the next-job
\* transaction each check it (t145), whatever else happened to the pane's older leases.
OneJobPerPane ==
    \A p \in Panes : \A t, u \in Tasks :
        /\ Exclusive(t) /\ task[t].status = "in_progress" /\ Live(t, p)
        /\ Exclusive(u) /\ task[u].status = "in_progress" /\ Live(u, p)
        => t = u

\* A task in progress has a lease, so the reaper can find it: no release, reap, reassignment
\* or crash leaves one that nobody holds and nobody will requeue.
NoStrandedClaim ==
    \A t \in Tasks : task[t].status = "in_progress" => \E p \in Panes : Held(t, p)

\* Every dependency of an existing task exists: add, update and delete check it in three
\* transactions that see different tables.
NoDanglingDeps == \A t \in Tasks : \A d \in task[t].deps : Exists(d) /\ d # t

\* A lease that outlived its row is of a deleted id, and ids are not used again: a new task
\* never starts with somebody's lease.
NoInheritedLease == \A t \in Tasks : t >= nextId => ~Exists(t) /\ lease[t] = NoLeases

\* A finished task is not reopened (t854), by no path: edits, reaped or released leases left
\* by a torn write, sweeps, claims, and completions authorised before it ended.
FinishedNeverReopens ==
    [][\A t \in Tasks : task[t].status \in Terminal
                          => task'[t].status \in Terminal \cup {"absent"}]_vars

\* t872: a lease that survived on a blocked or finished task never moves it; the claim
\* machinery has no say over a task that is not being worked.
ClaimsLeaveEndedTasksAlone ==
    [][ClaimStep => \A t \in Tasks : task[t].status \in EndsClaim
                                  => task'[t].status = task[t].status]_vars

\* A completion authorised before the pane lost the task completes nothing: ownership is
\* decided on the row the transaction reads (t423).
StaleAuthorisationRefused ==
    [][\A p \in Panes :
         LET t == request[p].task
         IN  /\ request[p].pc = "authorised" /\ request'[p] # request[p]
             /\ p \notin Owners(task, lease, t) \cup Operators
                /\ task'[t].status = "done"
             => task[t].status = "done"]_vars

\* A blocked task whose dependencies are all done and on main does not stay blocked: the
\* completion path opens nothing, the sweep of the reaper tick must.
DependencyBlockLifts ==
    \A t \in Tasks : (task[t].status = "blocked" /\ task[t].reason # "owner" /\ Satisfied(t))
        ~> ~(task[t].status = "blocked" /\ task[t].reason # "owner" /\ Satisfied(t))

\* Work whose every holder is dead or out of time leaves in_progress or is taken up again.
AbandonedWorkReturns ==
    \A t \in Tasks :
        (task[t].status = "in_progress" /\ \A p \in Panes : Held(t, p) => Doomed(t, p))
        ~> ~(task[t].status = "in_progress" /\ \A p \in Panes : Held(t, p) => Doomed(t, p))
=============================================================================
