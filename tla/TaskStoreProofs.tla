--------------------------- MODULE TaskStoreProofs ---------------------------
(* What holds of TaskStore for any number of tasks, panes and operators.     *)
EXTENDS TaskStore, TLAPS

\* The columns an edit leaves out keep a value of their type.
LEMMA GivenType ==
    ASSUME NEW S, NEW old \in S, NEW option \in Opt(S)
    PROVE  Given(option, old) \in S
<1>1. CASE option = {}
    BY <1>1 DEF Given
<1>2. CASE option # {}
    <2>1. PICK v \in S : option = {v}
        BY <1>2 DEF Opt
    <2>2. (CHOOSE w \in {v} : TRUE) \in {v}
        OBVIOUS
    <2> QED
        BY <1>2, <2>1, <2>2 DEF Given
<1> QED
    BY <1>1, <1>2

LEMMA GivenNothing == ASSUME NEW old PROVE Given({}, old) = old
    BY DEF Given

\* A row with a column rewritten is a row.
LEMMA RowUpdates ==
    ASSUME NEW row \in Row, NEW s \in Statuses \cup {"absent"}, NEW r \in Reasons,
           NEW a \in SUBSET Panes
    PROVE  /\ [row EXCEPT !.status = s] \in Row
           /\ [row EXCEPT !.assignees = a] \in Row
           /\ [row EXCEPT !.landed = TRUE] \in Row
           /\ [row EXCEPT !.landed = FALSE] \in Row
           /\ [row EXCEPT !.status = s, !.reason = r] \in Row
           /\ [row EXCEPT !.status = s, !.assignees = a, !.reason = r] \in Row
    BY DEF Row

\* The rows and leases a claim writes are rows and leases.
LEMMA ClaimTypes ==
    ASSUME NEW T \in [Tasks -> Row], NEW L \in [Tasks -> [Panes -> Lease]],
           NEW t \in Tasks, NEW p \in Panes
    PROVE  /\ ClaimRow(T, t, p) \in [Tasks -> Row]
           /\ ClaimLease(T, L, t, p) \in [Tasks -> [Panes -> Lease]]
<1>1. /\ T[t].assignees \cup {p} \in SUBSET Panes
      /\ (p \notin T[t].assignees) \in BOOLEAN
    BY DEF Row
<1>2. [T[t] EXCEPT !.status = "in_progress", !.assignees = @ \cup {p}, !.reason = "none"]
        \in Row
    BY <1>1, T[t] \in Row, RowUpdates DEF Statuses, Reasons
<1>3. ClaimRow(T, t, p) \in [Tasks -> Row]
    BY <1>2 DEF ClaimRow
<1>4. \A b \in BOOLEAN : [state |-> "live", callerDead |-> FALSE, added |-> b] \in Lease
    BY DEF Lease
<1>5. ClaimLease(T, L, t, p) \in [Tasks -> [Panes -> Lease]]
    BY <1>1, <1>4 DEF ClaimLease
<1> QED
    BY <1>3, <1>5

LEMMA StatusRowType ==
    ASSUME TypeOK, NEW t \in Tasks, NEW s \in Statuses, NEW r \in Reasons
    PROVE  StatusRow(t, s, r) \in [Tasks -> Row]
<1>1. task \in [Tasks -> Row] /\ task[t] \in Row
    BY DEF TypeOK
<1> DEFINE reason == IF s \in {"blocked", "cancelled"} THEN r ELSE "none"
<1>2. [task[t] EXCEPT !.status = s, !.reason = reason] \in Row
    <2>1. reason \in Reasons
        BY DEF Reasons
    <2> QED
        BY <1>1, <2>1 DEF Row
<1>3. StatusRow(t, s, r)
        = [task EXCEPT ![t] = [task[t] EXCEPT !.status = s, !.reason = reason]]
    BY <1>1 DEF StatusRow, Row
<1> QED
    BY <1>1, <1>2, <1>3

LEMMA NoLeaseType == NoLeases \in [Panes -> Lease]
    BY DEF NoLeases, NoLease, Lease

LEMMA SameCallerFlag ==
    ASSUME NEW r \in Lease, NEW b \in BOOLEAN, r.callerDead = b
    PROVE  [r EXCEPT !.callerDead = b] = r
    BY DEF Lease

LEMMA IdleType == Idle \in Request
    BY StoreAssumption DEF Idle, Request, Tasks

LEMMA AbsentType == Absent \in Row
    BY DEF Absent, Row, Statuses, Reasons

LEMMA DoneTypes ==
    ASSUME TypeOK, NEW t \in Tasks
    PROVE  /\ DoneRow(t) \in [Tasks -> Row]
           /\ DoneLeases(t) \in [Tasks -> [Panes -> Lease]]
    BY NoLeaseType DEF TypeOK, DoneRow, DoneLeases, Row, Statuses, Reasons

LEMMA AfterAdvanceType ==
    ASSUME TypeOK, NEW p \in Panes
    PROVE  AfterAdvance(p) \in Request
    BY IdleType DEF TypeOK, AfterAdvance, Request

LEMMA RequestTask ==
    ASSUME TypeOK, NEW p \in Panes
    PROVE  request[p].task \in Tasks
    BY DEF TypeOK, Request

LEMMA AfterLeaseChangeType ==
    ASSUME NEW T \in [Tasks -> Row], NEW L, NEW t \in Tasks
    PROVE  AfterLeaseChange(T, L, t) \in Row
    BY DEF AfterLeaseChange, Row, Statuses

-----------------------------------------------------------------------------
LEMMA InitType == Init => TypeOK
    BY StoreAssumption, NoLeaseType, IdleType, AbsentType DEF Init, TypeOK

LEMMA OwnerType == TypeOK /\ OwnerStep => TypeOK'
<1> SUFFICES ASSUME TypeOK, OwnerStep PROVE TypeOK'
    OBVIOUS
<1>1. CASE \E d \in Drafts : Add(d)
    <2> PICK d \in Drafts : Add(d)
        BY <1>1
    <2>1. d \in DraftType /\ MaxTask \in Nat
        BY StoreAssumption
    <2>2. task' \in [Tasks -> Row]
        BY <2>1 DEF TypeOK, Add, DraftType, Row, Statuses, Reasons
    <2>3. nextId' \in 1..(MaxTask + 1)
        BY <2>1 DEF TypeOK, Add
    <2> QED
        BY <2>2, <2>3 DEF TypeOK, Add
<1>2. CASE \E t \in Tasks, e \in Edits : Update(t, e)
    <2> PICK t \in Tasks, e \in Edits : Update(t, e)
        BY <1>2
    <2> DEFINE row  == task[t]
               kept == IF e.status = {} \/ Given(e.status, row.status) = "blocked"
                       THEN row.reason ELSE "none"
    <2>1. e \in EditType /\ row \in Row
        BY StoreAssumption DEF TypeOK
    <2>2. /\ Given(e.status, row.status) \in Statuses \cup {"absent"}
          /\ Given(e.assignees, row.assignees) \in SUBSET Panes
          /\ Given(e.multi, row.multi) \in BOOLEAN
          /\ Given(e.deps, row.deps) \in SUBSET Tasks
        <3>1. /\ row.status \in Statuses \cup {"absent"}
              /\ e.status \in Opt(Statuses \cup {"absent"})
            BY <2>1 DEF Row, EditType, Opt
        <3>2. /\ row.assignees \in SUBSET Panes /\ e.assignees \in Opt(SUBSET Panes)
              /\ row.multi \in BOOLEAN /\ e.multi \in Opt(BOOLEAN)
              /\ row.deps \in SUBSET Tasks /\ e.deps \in Opt(SUBSET Tasks)
            BY <2>1 DEF Row, EditType
        <3> QED
            BY <3>1, <3>2, GivenType
    <2>3. Given(e.reason, kept) \in Reasons
        <3>1. kept \in Reasons /\ e.reason \in Opt(Reasons)
            BY <2>1 DEF Row, EditType, Reasons
        <3> QED
            BY <3>1, GivenType
    <2>4. task' \in [Tasks -> Row]
        BY <2>1, <2>2, <2>3 DEF TypeOK, Update, Row
    <2>5. lease' \in [Tasks -> [Panes -> Lease]]
        BY NoLeaseType DEF TypeOK, Update
    <2> QED
        BY <2>4, <2>5 DEF TypeOK, Update
<1>3. CASE \E t \in Tasks, g \in Grants, mode \in {"add", "remove", "set"} : Assign(t, g, mode)
    <2> PICK t \in Tasks, g \in Grants, mode \in {"add", "remove", "set"} : Assign(t, g, mode)
        BY <1>3
    <2>1. g \in SUBSET Panes
        BY StoreAssumption
    <2>2. task' \in [Tasks -> Row]
        <3>1. CASE mode = "add"
            BY <2>1, <3>1 DEF TypeOK, Assign, Row
        <3>2. CASE mode = "remove"
            BY <2>1, <3>2 DEF TypeOK, Assign, Row
        <3>3. CASE mode = "set"
            BY <2>1, <3>3 DEF TypeOK, Assign, Row
        <3> QED
            BY <3>1, <3>2, <3>3
    <2> QED
        BY <2>2 DEF TypeOK, Assign
<1>4. CASE \E t \in Tasks : Delete(t)
    BY <1>4, AbsentType DEF TypeOK, Delete
<1>5. CASE \E t \in Tasks, c \in Commands : SetStatus(t, c[1], c[2])
    <2> PICK t \in Tasks, c \in Commands : SetStatus(t, c[1], c[2])
        BY <1>5
    <2>1. c[1] \in Statuses /\ c[2] \in Reasons
        BY StoreAssumption DEF Statuses
    <2>2. task' \in [Tasks -> Row]
        BY <2>1, StatusRowType DEF SetStatus
    <2> QED
        BY <2>2, NoLeaseType DEF TypeOK, SetStatus
<1>6. CASE \E pr \in PullRequests : MarkLandedForPr(pr)
    <2>1. ASSUME NEW t \in Tasks
          PROVE  task[t] \in Row /\ [task[t] EXCEPT !.landed = TRUE] \in Row
        <3>1. task[t] \in Row
            BY DEF TypeOK
        <3> QED
            BY <3>1 DEF Row
    <2> QED
        BY <1>6, <2>1 DEF TypeOK, MarkLandedForPr
<1> QED
    BY <1>1, <1>2, <1>3, <1>4, <1>5, <1>6 DEF OwnerStep

LEMMA ClaimType == TypeOK /\ ClaimStep => TypeOK'
<1> SUFFICES ASSUME TypeOK, ClaimStep PROVE TypeOK'
    OBVIOUS
<1>1. CASE \E p \in Panes, t \in Tasks : ClaimNext(p, t)
    BY <1>1, ClaimTypes DEF TypeOK, ClaimNext
<1>2. CASE \E p \in Panes, t \in Tasks : AdvanceIdle(p, t)
    BY <1>2, ClaimTypes DEF TypeOK, AdvanceIdle
<1>3. CASE \E p \in Panes, t \in Tasks, caller \in BOOLEAN : Heartbeat(p, t, caller)
    <2> PICK p \in Panes, t \in Tasks, caller \in BOOLEAN : Heartbeat(p, t, caller)
        BY <1>3
    <2>1. lease[t][p] \in Lease /\ lease[t] \in [Panes -> Lease]
        BY DEF TypeOK
    <2> DEFINE beat == [lease[t][p] EXCEPT !.state = "live", !.callerDead = @ /\ ~caller]
    <2>2. beat \in Lease
        BY <2>1 DEF Lease
    <2>3. lease' = [lease EXCEPT ![t] = [lease[t] EXCEPT ![p] = beat]]
        BY <2>1 DEF TypeOK, Heartbeat, Lease
    <2>4. lease' \in [Tasks -> [Panes -> Lease]]
        <3> HIDE DEF beat
        <3> QED
            BY <2>1, <2>2, <2>3 DEF TypeOK
    <2> QED
        BY <2>4 DEF TypeOK, Heartbeat
<1>4. CASE \E p \in Panes, t \in Tasks : Release(p, t)
    <2> PICK p \in Panes, t \in Tasks : Release(p, t)
        BY <1>4
    <2> DEFINE left     == [lease EXCEPT ![t][p] = NoLease]
               unlisted == IF lease[t][p].added
                           THEN [task EXCEPT ![t].assignees = @ \ {p}] ELSE task
    <2>1. left \in [Tasks -> [Panes -> Lease]]
        BY DEF TypeOK, NoLease, Lease
    <2>2. unlisted \in [Tasks -> Row]
        BY DEF TypeOK, Row
    <2>3. task' = [unlisted EXCEPT ![t] = AfterLeaseChange(unlisted, left, t)]
        BY DEF Release
    <2>4. AfterLeaseChange(unlisted, left, t) \in Row
        BY <2>2, AfterLeaseChangeType
    <2>5. task' \in [Tasks -> Row]
        <3> HIDE DEF unlisted, left
        <3> QED
            BY <2>2, <2>3, <2>4
    <2> QED
        BY <2>1, <2>5 DEF TypeOK, Release
<1>5. CASE \E p \in Panes, t \in Tasks : LeaseExpires(t, p)
    <2> PICK p \in Panes, t \in Tasks : LeaseExpires(t, p)
        BY <1>5
    <2>1. lease' \in [Tasks -> [Panes -> Lease]]
        BY DEF TypeOK, LeaseExpires, Lease
    <2> QED
        BY <2>1 DEF TypeOK, LeaseExpires
<1>6. CASE \E p \in Panes : CallerDies(p)
    <2> PICK p \in Panes : CallerDies(p)
        BY <1>6
    <2>1. ASSUME NEW t \in Tasks
          PROVE  [lease[t] EXCEPT ![p].callerDead = Held(t, p)] \in [Panes -> Lease]
        <3>1. lease[t] \in [Panes -> Lease] /\ Held(t, p) \in BOOLEAN
            BY DEF TypeOK, Held
        <3> QED
            BY <3>1 DEF Lease
    <2> QED
        BY <2>1 DEF TypeOK, CallerDies
<1>7. CASE Reap
    <2> DEFINE left == [t \in Tasks |-> [p \in Panes |-> IF Doomed(t, p) THEN NoLease
                                                         ELSE lease[t][p]]]
    <2>1. left \in [Tasks -> [Panes -> Lease]]
        BY DEF TypeOK, NoLease, Lease
    <2>2. /\ lease' = left
          /\ task' = [t \in Tasks |-> IF \E p \in Panes : Doomed(t, p)
                                      THEN AfterLeaseChange(task, left, t) ELSE task[t]]
        BY <1>7 DEF Reap
    <2>3. \A t \in Tasks : AfterLeaseChange(task, left, t) \in Row
        <3> HIDE DEF left
        <3> QED
            BY AfterLeaseChangeType DEF TypeOK
    <2>4. task' \in [Tasks -> Row]
        <3> HIDE DEF left
        <3> QED
            BY <2>2, <2>3 DEF TypeOK
    <2> QED
        BY <1>7, <2>1, <2>2, <2>4 DEF TypeOK, Reap
<1> QED
    BY <1>1, <1>2, <1>3, <1>4, <1>5, <1>6, <1>7 DEF ClaimStep

LEMMA CompletionType == TypeOK /\ CompletionStep => TypeOK'
<1> SUFFICES ASSUME TypeOK, CompletionStep PROVE TypeOK'
    OBVIOUS
<1>1. CASE \E p \in Panes, t \in Tasks, landed \in Landings : BeginComplete(p, t, landed)
    <2> PICK p \in Panes, t \in Tasks, landed \in Landings : BeginComplete(p, t, landed)
        BY <1>1
    <2>1. [pc |-> "authorised", task |-> t, landed |-> landed] \in Request
        BY StoreAssumption DEF Request
    <2> QED
        BY <2>1 DEF TypeOK, BeginComplete
<1>2. CASE \E p \in Panes : RefuseComplete(p)
    BY <1>2, IdleType DEF TypeOK, RefuseComplete
<1>3. CASE \E p \in Panes : AlreadyComplete(p)
    BY <1>3, AfterAdvanceType DEF TypeOK, AlreadyComplete
<1>4. ASSUME NEW p \in Panes, NEW next \in SUBSET Tasks, Advance(p, next) PROVE TypeOK'
    <2> DEFINE t == request[p].task
               T == DoneRow(t)
               L == DoneLeases(t)
    <2>1. t \in Tasks
        BY RequestTask
    <2>2. T \in [Tasks -> Row] /\ L \in [Tasks -> [Panes -> Lease]]
        BY <2>1, DoneTypes
    <2>3. /\ task' = [u \in Tasks |-> IF u \in next THEN ClaimRow(T, u, p)[u] ELSE T[u]]
          /\ lease' = [u \in Tasks |-> IF u \in next THEN ClaimLease(T, L, u, p)[u] ELSE L[u]]
          /\ request' = [request EXCEPT ![p] = AfterAdvance(p)]
          /\ nextId' = nextId
        BY <1>4 DEF Advance
    <2>4. /\ task' \in [Tasks -> Row]
          /\ lease' \in [Tasks -> [Panes -> Lease]]
        <3> HIDE DEF T, L
        <3> QED
            BY <2>2, <2>3, ClaimTypes
    <2> QED
        BY <2>3, <2>4, AfterAdvanceType DEF TypeOK
<1>5. CASE \E p \in Panes : SetUnlanded(p)
    <2> PICK p \in Panes : SetUnlanded(p)
        BY <1>5
    <2>1. request[p].task \in Tasks
        BY RequestTask
    <2>2. task' \in [Tasks -> Row]
        BY <2>1 DEF TypeOK, SetUnlanded, Row
    <2> QED
        BY <2>2, IdleType DEF TypeOK, SetUnlanded
<1> QED
    BY <1>1, <1>2, <1>3, <1>4, <1>5 DEF CompletionStep

LEMMA CrashType == TypeOK /\ CrashStep => TypeOK'
<1> SUFFICES ASSUME TypeOK, CrashStep PROVE TypeOK'
    OBVIOUS
<1>1. CASE Crash
    BY <1>1, IdleType DEF TypeOK, Crash
<1>2. CASE \E t \in Tasks, c \in Commands : CrashInSetStatus(t, c[1], c[2])
    <2> PICK t \in Tasks, c \in Commands : CrashInSetStatus(t, c[1], c[2])
        BY <1>2
    <2>1. c[1] \in Statuses /\ c[2] \in Reasons
        BY StoreAssumption DEF Statuses
    <2> QED
        BY <2>1, StatusRowType, IdleType DEF TypeOK, CrashInSetStatus
<1> QED
    BY <1>1, <1>2 DEF CrashStep

LEMMA SweepType == TypeOK /\ Sweep => TypeOK'
<1> SUFFICES ASSUME TypeOK, Sweep PROVE TypeOK'
    OBVIOUS
<1>1. ASSUME NEW t \in Tasks
      PROVE  task[t] \in Row /\ [task[t] EXCEPT !.status = "open", !.reason = "none"] \in Row
    <2>1. task[t] \in Row
        BY DEF TypeOK
    <2> QED
        BY <2>1 DEF Row, Statuses, Reasons
<1> QED
    BY <1>1 DEF TypeOK, Sweep

\* The tables, the requests and the counter keep their types: every operation writes whole
\* rows and leases, whatever the drafts, edits and commands are.
THEOREM TypeInvariance == Spec => []TypeOK
<1>1. Init => TypeOK
    BY InitType
<1>2. TypeOK /\ [Next]_vars => TypeOK'
    <2> SUFFICES ASSUME TypeOK, [Next]_vars PROVE TypeOK'
        OBVIOUS
    <2>1. CASE Next
        BY <2>1, OwnerType, ClaimType, CompletionType, CrashType, SweepType DEF Next
    <2>2. CASE UNCHANGED vars
        BY <2>2 DEF vars, TypeOK
    <2> QED
        BY <2>1, <2>2
<1> QED
    BY <1>1, <1>2, PTL DEF Spec

-----------------------------------------------------------------------------
(* What a step does to a row.  Only add, update and delete create a row, end *)
(* it, or change its dependencies; every other step keeps these.             *)

KeepsRow(t) ==
    /\ task'[t].deps = task[t].deps
    /\ task'[t].multi = task[t].multi
    /\ task'[t].status = "absent" <=> task[t].status = "absent"

\* The steps that are not add, update or delete.
Keeping ==
    \/ \E t \in Tasks, g \in Grants, mode \in {"add", "remove", "set"} : Assign(t, g, mode)
    \/ \E t \in Tasks, c \in Commands : SetStatus(t, c[1], c[2])
    \/ \E pr \in PullRequests : MarkLandedForPr(pr)
    \/ ClaimStep
    \/ CompletionStep
    \/ CrashStep
    \/ Sweep
    \/ UNCHANGED vars

LEMMA NextSplit ==
    [Next]_vars <=> \/ \E d \in Drafts : Add(d)
                    \/ \E t \in Tasks, e \in Edits : Update(t, e)
                    \/ \E t \in Tasks : Delete(t)
                    \/ Keeping
    BY DEF Next, OwnerStep, Keeping

LEMMA ClaimRowKeeps ==
    ASSUME NEW T \in [Tasks -> Row], NEW t \in Tasks, NEW p \in Panes, NEW u \in Tasks
    PROVE  /\ ClaimRow(T, t, p)[u].deps = T[u].deps
           /\ ClaimRow(T, t, p)[u].multi = T[u].multi
           /\ u # t => ClaimRow(T, t, p)[u] = T[u]
           /\ ClaimRow(T, t, p)[t].status = "in_progress"
    BY DEF ClaimRow, Row

LEMMA AfterLeaseChangeKeeps ==
    ASSUME NEW T \in [Tasks -> Row], NEW L, NEW t \in Tasks
    PROVE  /\ AfterLeaseChange(T, L, t).deps = T[t].deps
           /\ AfterLeaseChange(T, L, t).multi = T[t].multi
           /\ \/ AfterLeaseChange(T, L, t).status = T[t].status
              \/ /\ T[t].status = "in_progress"
                 /\ AfterLeaseChange(T, L, t).status = "open"
    BY DEF AfterLeaseChange, Row

\* A step of the claim machinery moves a row only between open and in_progress.
LEMMA ClaimStatus ==
    ASSUME TypeOK, ClaimStep, NEW u \in Tasks
    PROVE  /\ task'[u].deps = task[u].deps
           /\ task'[u].multi = task[u].multi
           /\ \/ task'[u].status = task[u].status
              \/ /\ task[u].status \in {"open", "in_progress"}
                 /\ task'[u].status \in {"open", "in_progress"}
<1>0. task \in [Tasks -> Row] /\ task[u] \in Row
    BY DEF TypeOK
<1>1. CASE \E p \in Panes, t \in Tasks : ClaimNext(p, t)
    BY <1>0, <1>1, ClaimRowKeeps DEF ClaimNext
<1>2. CASE \E p \in Panes, t \in Tasks : AdvanceIdle(p, t)
    BY <1>0, <1>2, ClaimRowKeeps DEF AdvanceIdle, Planned
<1>3. CASE task' = task
    BY <1>3
<1>4. CASE \E p \in Panes, t \in Tasks : Release(p, t)
    <2> PICK p \in Panes, t \in Tasks : Release(p, t)
        BY <1>4
    <2> DEFINE left     == [lease EXCEPT ![t][p] = NoLease]
               unlisted == IF lease[t][p].added
                           THEN [task EXCEPT ![t].assignees = @ \ {p}] ELSE task
    <2>1. /\ unlisted \in [Tasks -> Row]
          /\ unlisted[u].deps = task[u].deps
          /\ unlisted[u].multi = task[u].multi
          /\ unlisted[u].status = task[u].status
        BY <1>0 DEF Row
    <2>2. task' = [unlisted EXCEPT ![t] = AfterLeaseChange(unlisted, left, t)]
        BY DEF Release
    <2> HIDE DEF left, unlisted
    <2> QED
        BY <2>1, <2>2, AfterLeaseChangeKeeps
<1>5. CASE Reap
    <2> DEFINE left == [t \in Tasks |-> [p \in Panes |-> IF Doomed(t, p) THEN NoLease
                                                         ELSE lease[t][p]]]
    <2>1. task' = [t \in Tasks |-> IF \E p \in Panes : Doomed(t, p)
                                  THEN AfterLeaseChange(task, left, t) ELSE task[t]]
        BY <1>5 DEF Reap
    <2> HIDE DEF left
    <2> QED
        BY <1>0, <2>1, AfterLeaseChangeKeeps
<1> QED
    BY <1>1, <1>2, <1>3, <1>4, <1>5 DEF ClaimStep, Heartbeat, LeaseExpires, CallerDies

\* A completion makes one existing row done and may claim open ones.
LEMMA CompletionStatus ==
    ASSUME TypeOK, CompletionStep, NEW u \in Tasks
    PROVE  /\ task'[u].deps = task[u].deps
           /\ task'[u].multi = task[u].multi
           /\ \/ task'[u].status = task[u].status
              \/ task[u].status # "absent" /\ task'[u].status = "done"
              \/ task[u].status = "open" /\ task'[u].status = "in_progress"
<1>0. task \in [Tasks -> Row] /\ task[u] \in Row
    BY DEF TypeOK
<1>1. CASE task' = task
    BY <1>1
<1>2. ASSUME NEW p \in Panes, NEW next \in SUBSET Tasks, Advance(p, next)
      PROVE  /\ task'[u].deps = task[u].deps
             /\ task'[u].multi = task[u].multi
             /\ \/ task'[u].status = task[u].status
                \/ task[u].status # "absent" /\ task'[u].status = "done"
                \/ task[u].status = "open" /\ task'[u].status = "in_progress"
    <2> DEFINE t == request[p].task
               T == DoneRow(t)
               L == DoneLeases(t)
    <2>1. t \in Tasks
        BY RequestTask
    <2>2. /\ T \in [Tasks -> Row]
          /\ T[u].deps = task[u].deps
          /\ T[u].multi = task[u].multi
          /\ u # t => T[u] = task[u]
          /\ T[t].status = "done"
        <3>1. T \in [Tasks -> Row]
            BY <2>1, DoneTypes
        <3>2. /\ u # t => T[u] = task[u]
              /\ T[t] = [task[t] EXCEPT !.status = "done", !.reason = "none"]
            BY <1>0, <2>1 DEF DoneRow
        <3>3. task[t] \in Row
            BY <1>0, <2>1
        <3> HIDE DEF t, T
        <3> QED
            BY <3>1, <3>2, <3>3 DEF Row
    <2>3. /\ task'[u] = IF u \in next THEN ClaimRow(T, u, p)[u] ELSE T[u]
          /\ next \subseteq Planned(T, L, p)
          /\ task[t].status # "absent"
        BY <1>2 DEF Advance, Exists
    <2>4. u \in next => T[u].status = "open"
        BY <2>3 DEF Planned
    <2> HIDE DEF t, T, L
    <2> QED
        BY <2>1, <2>2, <2>3, <2>4, ClaimRowKeeps
<1>3. CASE \E p \in Panes : SetUnlanded(p)
    BY <1>0, <1>3, RequestTask DEF SetUnlanded, Row
<1> QED
    BY <1>1, <1>2, <1>3 DEF CompletionStep, BeginComplete, RefuseComplete, AlreadyComplete

\* What the operators' calls, a torn call and the sweep do to a row.
LEMMA StatusRowKeeps ==
    ASSUME TypeOK, NEW t \in Tasks, NEW s \in Statuses, NEW r, MayBecome(t, s),
           NEW u \in Tasks
    PROVE  /\ StatusRow(t, s, r)[u].deps = task[u].deps
           /\ StatusRow(t, s, r)[u].multi = task[u].multi
           /\ \/ StatusRow(t, s, r)[u].status = task[u].status
              \/ /\ task[u].status \notin Terminal \cup {"absent"}
                 /\ StatusRow(t, s, r)[u].status # "absent"
    BY DEF TypeOK, StatusRow, MayBecome, Exists, Row, Statuses

LEMMA KeepingStatus ==
    ASSUME TypeOK, Keeping, NEW u \in Tasks
    PROVE  /\ KeepsRow(u)
           /\ task[u].status \in Terminal => task'[u].status \in Terminal
<1>0. task \in [Tasks -> Row] /\ task[u] \in Row
    BY DEF TypeOK
<1>1. CASE \E t \in Tasks, g \in Grants, mode \in {"add", "remove", "set"} : Assign(t, g, mode)
    BY <1>0, <1>1 DEF Assign, KeepsRow, Row
<1>2. CASE \E t \in Tasks, c \in Commands : SetStatus(t, c[1], c[2])
    <2> PICK t \in Tasks, c \in Commands : SetStatus(t, c[1], c[2])
        BY <1>2
    <2>1. c[1] \in Statuses
        BY StoreAssumption DEF Statuses
    <2> QED
        BY <2>1, StatusRowKeeps DEF SetStatus, KeepsRow
<1>3. CASE \E pr \in PullRequests : MarkLandedForPr(pr)
    BY <1>0, <1>3 DEF MarkLandedForPr, KeepsRow, Row
<1>4. CASE ClaimStep
    BY <1>4, ClaimStatus DEF KeepsRow, Terminal
<1>5. CASE CompletionStep
    BY <1>5, CompletionStatus DEF KeepsRow, Terminal
<1>6. CASE CrashStep
    <2>1. CASE Crash
        BY <2>1 DEF Crash, KeepsRow
    <2>2. CASE \E t \in Tasks, c \in Commands : CrashInSetStatus(t, c[1], c[2])
        <3> PICK t \in Tasks, c \in Commands : CrashInSetStatus(t, c[1], c[2])
            BY <2>2
        <3>1. c[1] \in Statuses
            BY StoreAssumption DEF Statuses
        <3> QED
            BY <3>1, StatusRowKeeps DEF CrashInSetStatus, KeepsRow
    <2> QED
        BY <1>6, <2>1, <2>2 DEF CrashStep
<1>7. CASE Sweep
    BY <1>0, <1>7 DEF Sweep, KeepsRow, Row, Terminal
<1>8. CASE UNCHANGED vars
    BY <1>8 DEF vars, KeepsRow
<1> QED
    BY <1>1, <1>2, <1>3, <1>4, <1>5, <1>6, <1>7, <1>8 DEF Keeping

LEMMA UpdateKeeps ==
    ASSUME TypeOK, NEW t \in Tasks, NEW e \in Edits, Update(t, e), NEW u \in Tasks
    PROVE  /\ task'[u].status = "absent" <=> task[u].status = "absent"
           /\ task[u].status \in Terminal => task'[u].status = task[u].status
           /\ task'[u].deps = IF u = t THEN Given(e.deps, task[t].deps) ELSE task[u].deps
           /\ task'[u].multi = IF u = t THEN Given(e.multi, task[t].multi) ELSE task[u].multi
<1>0. task \in [Tasks -> Row] /\ task[t] \in Row /\ e \in EditType
    BY StoreAssumption DEF TypeOK
<1>1. CASE u # t
    BY <1>0, <1>1 DEF Update
<1>2. CASE u = t
    <2>1. /\ task'[t].status = Given(e.status, task[t].status)
          /\ task'[t].deps = Given(e.deps, task[t].deps)
          /\ task'[t].multi = Given(e.multi, task[t].multi)
        BY <1>0 DEF Update
    <2>2. task[t].status \in Terminal => Given(e.status, task[t].status) = task[t].status
        BY DEF Update
    <2>3. task[t].status # "absent" /\ task[t].status \in Statuses
        BY <1>0 DEF Update, Exists, Row
    <2>4. e.status \in Opt(Statuses)
        BY <1>0 DEF EditType
    <2>5. Given(e.status, task[t].status) \in Statuses
        BY <2>3, <2>4, GivenType
    <2> QED
        BY <1>2, <2>1, <2>2, <2>3, <2>5 DEF Statuses
<1> QED
    BY <1>1, <1>2

-----------------------------------------------------------------------------
(* A new task starts with nobody's lease.                                    *)

\* A row that does not exist and has no lease gets none.
LEMMA NoLeaseKept ==
    ASSUME TypeOK, Keeping, NEW u \in Tasks, ~Exists(u), lease[u] = NoLeases
    PROVE  lease'[u] = NoLeases
<1>0. lease \in [Tasks -> [Panes -> Lease]] /\ task[u].status = "absent"
    BY DEF TypeOK, Exists
<1>1. \A p \in Panes : /\ lease[u][p] = NoLease
                       /\ ~Held(u, p) /\ ~Live(u, p) /\ ~Doomed(u, p)
    BY DEF NoLeases, NoLease, Held, Live, Doomed
<1>2. CASE lease' = lease
    BY <1>2
<1>3. CASE \E t \in Tasks, c \in Commands : SetStatus(t, c[1], c[2])
    BY <1>0, <1>3 DEF SetStatus
<1>4. CASE \E p \in Panes, t \in Tasks : ClaimNext(p, t) \/ AdvanceIdle(p, t)
    <2> PICK p \in Panes, t \in Tasks : ClaimNext(p, t) \/ AdvanceIdle(p, t)
        BY <1>4
    <2>1. t # u
        BY <1>0 DEF ClaimNext, AdvanceIdle, Planned
    <2> QED
        BY <1>0, <2>1 DEF ClaimNext, AdvanceIdle, ClaimLease
<1>5. CASE \E p \in Panes, t \in Tasks, caller \in BOOLEAN : Heartbeat(p, t, caller)
    BY <1>0, <1>1, <1>5 DEF Heartbeat
<1>6. CASE \E p \in Panes, t \in Tasks : Release(p, t)
    <2> PICK p \in Panes, t \in Tasks : Release(p, t)
        BY <1>6
    <2>1. t # u /\ lease' = [lease EXCEPT ![t][p] = NoLease]
        BY DEF Release
    <2> QED
        BY <1>0, <2>1
<1>7. CASE \E p \in Panes, t \in Tasks : LeaseExpires(t, p)
    BY <1>0, <1>1, <1>7 DEF LeaseExpires
<1>8. CASE \E p \in Panes : CallerDies(p)
    <2> PICK p \in Panes : CallerDies(p)
        BY <1>8
    <2>1. lease'[u] = [lease[u] EXCEPT ![p] = [lease[u][p] EXCEPT !.callerDead = Held(u, p)]]
        BY DEF CallerDies
    <2>2. [NoLease EXCEPT !.callerDead = Held(u, p)] = NoLease
        <3>1. Held(u, p) <=> FALSE
            BY <1>1
        <3>2. Held(u, p) \in BOOLEAN
            BY DEF Held
        <3>3. Held(u, p) = FALSE
            BY <3>1, <3>2
        <3>4. NoLease \in Lease /\ NoLease.callerDead = FALSE
            BY DEF NoLease, Lease
        <3> QED
            BY <3>2, <3>3, <3>4, SameCallerFlag
    <2>3. lease[u][p] = NoLease
        BY <1>1
    <2>4. lease'[u] = [NoLeases EXCEPT ![p] = NoLease]
        BY <2>1, <2>2, <2>3
    <2> QED
        BY <2>4 DEF NoLeases
<1>9. CASE Reap
    BY <1>1, <1>9 DEF Reap, NoLeases
<1>10. ASSUME NEW p \in Panes, NEW next \in SUBSET Tasks, Advance(p, next)
       PROVE  lease'[u] = NoLeases
    <2> DEFINE t == request[p].task
               T == DoneRow(t)
               L == DoneLeases(t)
    <2>1. t \in Tasks /\ t # u
        BY <1>10, RequestTask DEF Advance
    <2>2. T[u] = task[u] /\ L[u] = NoLeases
        BY <1>0, <2>1 DEF TypeOK, DoneRow, DoneLeases
    <2>3. u \notin next
        BY <1>0, <1>10, <2>2 DEF Advance, Planned
    <2>4. lease'[u] = IF u \in next THEN ClaimLease(T, L, u, p)[u] ELSE L[u]
        BY <1>10 DEF Advance
    <2> QED
        BY <2>2, <2>3, <2>4
<1> QED
    BY <1>2, <1>3, <1>4, <1>5, <1>6, <1>7, <1>8, <1>9, <1>10
       DEF Keeping, Assign, MarkLandedForPr, ClaimStep, CompletionStep, BeginComplete,
           RefuseComplete, AlreadyComplete, SetUnlanded, CrashStep, Crash, CrashInSetStatus,
           Sweep, vars

\* Only add moves the counter.
LEMMA CounterKept == (Keeping \/ (\E t \in Tasks, e \in Edits : Update(t, e))
                              \/ (\E t \in Tasks : Delete(t))) => nextId' = nextId
    BY DEF Keeping, Assign, SetStatus, MarkLandedForPr, ClaimStep, ClaimNext, AdvanceIdle,
           Heartbeat, Release, LeaseExpires, CallerDies, Reap, CompletionStep, BeginComplete,
           RefuseComplete, AlreadyComplete, Advance, SetUnlanded, CrashStep, Crash,
           CrashInSetStatus, Sweep, vars, Update, Delete

LEMMA FreshStep == TypeOK /\ NoInheritedLease /\ [Next]_vars => NoInheritedLease'
<1> SUFFICES ASSUME TypeOK, NoInheritedLease, [Next]_vars, NEW u \in Tasks, u >= nextId'
             PROVE  ~Exists(u)' /\ lease'[u] = NoLeases
    BY DEF NoInheritedLease
<1>1. CASE \E d \in Drafts : Add(d)
    <2>1. u > nextId /\ u # nextId
        BY <1>1, StoreAssumption DEF Add, TypeOK, Tasks
    <2>2. ~Exists(u) /\ lease[u] = NoLeases
        BY <2>1, StoreAssumption DEF NoInheritedLease, TypeOK, Tasks
    <2> QED
        BY <1>1, <2>1, <2>2 DEF Add, TypeOK, Exists
<1>2. CASE ~\E d \in Drafts : Add(d)
    <2>1. nextId' = nextId
        BY <1>2, NextSplit, CounterKept
    <2>2. ~Exists(u) /\ lease[u] = NoLeases
        BY <2>1 DEF NoInheritedLease
    <2>3. CASE \E t \in Tasks, e \in Edits : Update(t, e)
        <3> PICK t \in Tasks, e \in Edits : Update(t, e)
            BY <2>3
        <3>1. ~Exists(u)'
            BY <2>2, UpdateKeeps DEF Exists
        <3> QED
            BY <2>2, <3>1 DEF Update, TypeOK
    <2>4. CASE \E t \in Tasks : Delete(t)
        BY <2>2, <2>4 DEF Delete, TypeOK, Exists
    <2>5. CASE Keeping
        BY <2>2, <2>5, NoLeaseKept, KeepingStatus DEF KeepsRow, Exists
    <2> QED
        BY <1>2, <2>3, <2>4, <2>5, NextSplit
<1> QED
    BY <1>1, <1>2

LEMMA FreshInit == Init => NoInheritedLease
    BY DEF Init, NoInheritedLease, Exists, Absent

\* Ids are not used again and a claim needs a row, so whatever deletes and reaps are still
\* to come, a task is created without a lease (delete leaves leases of its row behind).
THEOREM NewTasksAreUnclaimed == Spec => []NoInheritedLease
<1>1. Init => TypeOK /\ NoInheritedLease
    BY InitType, FreshInit
<1>2. TypeOK /\ NoInheritedLease /\ [Next]_vars => NoInheritedLease'
    BY FreshStep
<1> QED
    BY <1>1, <1>2, TypeInvariance, PTL DEF Spec

-----------------------------------------------------------------------------
(* Dependencies                                                              *)

LEMMA DepsStep ==
    TypeOK /\ NoInheritedLease /\ NoDanglingDeps /\ [Next]_vars => NoDanglingDeps'
<1> SUFFICES ASSUME TypeOK, NoInheritedLease, NoDanglingDeps, [Next]_vars,
                    NEW u \in Tasks, NEW v \in task'[u].deps
             PROVE  Exists(v)' /\ v # u
    BY DEF NoDanglingDeps
<1>0. task \in [Tasks -> Row] /\ \A t \in Tasks : task[t].deps \in SUBSET Tasks
    BY DEF TypeOK, Row
<1>1. CASE \E d \in Drafts : Add(d)
    <2> PICK d \in Drafts : Add(d)
        BY <1>1
    <2>1. nextId \in Tasks /\ d.deps \in SUBSET Tasks
        BY StoreAssumption DEF Add, TypeOK, Tasks, DraftType
    <2>2. ~Exists(nextId)
        BY <2>1, StoreAssumption DEF NoInheritedLease, TypeOK
    <2>3. /\ task' = [task EXCEPT ![nextId] = task'[nextId]]
          /\ task'[nextId].deps = d.deps
          /\ task'[nextId].status = d.status /\ d.status \in Statuses
        BY <1>0, <2>1, StoreAssumption DEF Add, DraftType
    <2>4. v \in Tasks /\ Exists(v) /\ v # u
        BY <1>0, <2>1, <2>2, <2>3 DEF Add, NoDanglingDeps
    <2>5. v # nextId
        BY <2>2, <2>4
    <2> QED
        BY <1>0, <2>3, <2>4, <2>5 DEF Exists
<1>2. CASE \E t \in Tasks, e \in Edits : Update(t, e)
    <2> PICK t \in Tasks, e \in Edits : Update(t, e)
        BY <1>2
    <2>1. task'[u].deps = IF u = t THEN Given(e.deps, task[t].deps) ELSE task[u].deps
        BY UpdateKeeps
    <2>2. Exists(v) /\ v # u /\ v \in Tasks
        <3>1. CASE u # t \/ e.deps = {}
            BY <1>0, <2>1, <3>1, GivenNothing DEF NoDanglingDeps
        <3>2. CASE u = t /\ e.deps # {}
            <4>1. v \in Given(e.deps, task[t].deps)
                BY <2>1, <3>2
            <4>2. /\ t \notin Given(e.deps, task[t].deps)
                  /\ \A d \in Given(e.deps, task[t].deps) : Exists(d)
                BY <3>2 DEF Update
            <4>3. Given(e.deps, task[t].deps) \in SUBSET Tasks
                <5>1. e.deps \in Opt(SUBSET Tasks)
                    BY StoreAssumption DEF EditType
                <5> QED
                    BY <1>0, <5>1, GivenType
            <4> QED
                BY <3>2, <4>1, <4>2, <4>3
        <3> QED
            BY <3>1, <3>2
    <2> QED
        BY <2>2, UpdateKeeps DEF Exists
<1>3. CASE \E t \in Tasks : Delete(t)
    <2> PICK t \in Tasks : Delete(t)
        BY <1>3
    <2>1. u # t /\ task'[u] = task[u]
        BY <1>0 DEF Delete, Absent
    <2>2. v # t /\ v \in Tasks /\ task'[v] = task[v]
        BY <1>0, <2>1 DEF Delete
    <2> QED
        BY <2>1, <2>2 DEF NoDanglingDeps, Exists
<1>4. CASE Keeping
    <2>1. v \in task[u].deps /\ v \in Tasks
        BY <1>0, <1>4, KeepingStatus DEF KeepsRow
    <2>2. Exists(v) /\ v # u
        BY <2>1 DEF NoDanglingDeps
    <2> QED
        BY <1>4, <2>1, <2>2, KeepingStatus DEF KeepsRow, Exists
<1> QED
    BY <1>1, <1>2, <1>3, <1>4, NextSplit

\* Add and update check that dependencies exist and delete that nobody depends, each on the
\* tables as they then are: no row ever waits for a row that does not exist, or for itself.
THEOREM DependenciesExist == Spec => []NoDanglingDeps
<1>1. Init => NoDanglingDeps
    BY DEF Init, NoDanglingDeps, Absent
<1>2. TypeOK /\ NoInheritedLease /\ NoDanglingDeps /\ [Next]_vars => NoDanglingDeps'
    BY DepsStep
<1> QED
    BY <1>1, <1>2, TypeInvariance, NewTasksAreUnclaimed, PTL DEF Spec

-----------------------------------------------------------------------------
(* Ended tasks                                                               *)

LEMMA FinishedStep ==
    ASSUME TypeOK, NoInheritedLease, [Next]_vars, NEW u \in Tasks,
           task[u].status \in Terminal
    PROVE  task'[u].status \in Terminal \cup {"absent"}
<1>0. task \in [Tasks -> Row]
    BY DEF TypeOK
<1>1. CASE \E d \in Drafts : Add(d)
    <2>1. nextId \in Tasks /\ ~Exists(nextId)
        BY <1>1, StoreAssumption DEF Add, NoInheritedLease, TypeOK, Tasks
    <2>2. u # nextId
        BY <2>1 DEF Exists, Terminal
    <2> QED
        BY <1>0, <1>1, <2>2 DEF Add
<1>2. CASE \E t \in Tasks, e \in Edits : Update(t, e)
    BY <1>2, UpdateKeeps
<1>3. CASE \E t \in Tasks : Delete(t)
    BY <1>0, <1>3 DEF Delete, Absent
<1>4. CASE Keeping
    BY <1>4, KeepingStatus
<1> QED
    BY <1>1, <1>2, <1>3, <1>4, NextSplit

\* No path reopens a finished task: not an edit (t854), not a lease that a torn status write
\* left behind, not the sweep, not a completion authorised before the task ended.
THEOREM FinishedStaysFinished == Spec => FinishedNeverReopens
<1>1. TypeOK /\ NoInheritedLease /\ [Next]_vars
        => [\A t \in Tasks : task[t].status \in Terminal
                             => task'[t].status \in Terminal \cup {"absent"}]_vars
    BY FinishedStep
<1> QED
    BY <1>1, TypeInvariance, NewTasksAreUnclaimed, PTL DEF Spec, FinishedNeverReopens

\* The claim machinery never moves a blocked, cancelled or done task (t872), whatever leases
\* survive on it.
THEOREM ClaimsOnlyMoveWork == Spec => ClaimsLeaveEndedTasksAlone
<1>1. TypeOK /\ [Next]_vars
        => [ClaimStep => \A t \in Tasks : task[t].status \in EndsClaim
                                        => task'[t].status = task[t].status]_vars
    BY ClaimStatus DEF EndsClaim
<1> QED
    BY <1>1, TypeInvariance, PTL DEF Spec, ClaimsLeaveEndedTasksAlone

-----------------------------------------------------------------------------
(* Exclusive leases                                                          *)

\* Heartbeats come in time, and no edit turns a task for several into a task for one.
InTime == LateHeartbeats = FALSE /\ \A e \in Edits : e.multi = {}

\* Who holds a task after the claim of t by p.
LEMMA ClaimHolders ==
    ASSUME NEW T \in [Tasks -> Row], NEW L \in [Tasks -> [Panes -> Lease]],
           NEW t \in Tasks, NEW p \in Panes
    PROVE  /\ Holders(ClaimLease(T, L, t, p), t) = Holders(L, t) \cup {p}
           /\ \A u \in Tasks \ {t} : ClaimLease(T, L, t, p)[u] = L[u]
    BY DEF Holders, ClaimLease

LEMMA ClaimableHolders ==
    ASSUME NEW T \in [Tasks -> Row], NEW L, NEW t \in Tasks, NEW p \in Panes,
           Claimable(T, L, t, p), ~T[t].multi
    PROVE  Holders(L, t) = {}
    BY DEF Claimable

\* A step gives a task no new holder, or its only one, or the task is for several.
LEMMA HoldersStep ==
    ASSUME InTime, TypeOK, Keeping, NEW u \in Tasks
    PROVE  \/ Holders(lease', u) \subseteq Holders(lease, u)
           \/ \E p \in Panes : Holders(lease', u) \subseteq {p}
           \/ task[u].multi
<1> DEFINE Goal == \/ Holders(lease', u) \subseteq Holders(lease, u)
                   \/ \E p \in Panes : Holders(lease', u) \subseteq {p}
                   \/ task[u].multi
<1>0. task \in [Tasks -> Row] /\ lease \in [Tasks -> [Panes -> Lease]]
    BY DEF TypeOK
<1>1. ASSUME lease'[u] = lease[u] \/ lease'[u] = NoLeases PROVE Goal
    BY <1>1 DEF Holders, NoLeases, NoLease
<1>2. CASE lease' = lease
    BY <1>1, <1>2
<1>3. CASE \E t \in Tasks, c \in Commands : SetStatus(t, c[1], c[2])
    <2>1. lease'[u] = lease[u] \/ lease'[u] = NoLeases
        BY <1>0, <1>3 DEF SetStatus
    <2> QED
        BY <1>1, <2>1
<1>4. ASSUME NEW p \in Panes, NEW t \in Tasks, Claimable(task, lease, t, p),
             lease' = ClaimLease(task, lease, t, p)
      PROVE  Goal
    <2>1. CASE u # t
        BY <1>0, <1>1, <1>4, <2>1, ClaimHolders
    <2>2. CASE u = t
        BY <1>0, <1>4, <2>2, ClaimHolders, ClaimableHolders
    <2> QED
        BY <2>1, <2>2
<1>5. CASE \E p \in Panes, t \in Tasks, caller \in BOOLEAN : Heartbeat(p, t, caller)
    <2> PICK p \in Panes, t \in Tasks, caller \in BOOLEAN : Heartbeat(p, t, caller)
        BY <1>5
    <2>1. Live(t, p)
        BY DEF Heartbeat, InTime
    <2>2. \A q \in Panes : q # p \/ u # t => lease'[u][q] = lease[u][q]
        BY <1>0 DEF Heartbeat
    <2> QED
        BY <1>0, <2>1, <2>2 DEF Holders, Live
<1>6. CASE \E p \in Panes, t \in Tasks : Release(p, t)
    <2> PICK p \in Panes, t \in Tasks : Release(p, t)
        BY <1>6
    <2>1. lease' = [lease EXCEPT ![t][p] = NoLease]
        BY DEF Release
    <2> QED
        BY <1>0, <2>1 DEF Holders, NoLease
<1>7. CASE \E p \in Panes, t \in Tasks : LeaseExpires(t, p)
    <2> PICK p \in Panes, t \in Tasks : LeaseExpires(t, p)
        BY <1>7
    <2>1. /\ lease'[t][p].state = "expired"
          /\ \A q \in Panes : q # p \/ u # t => lease'[u][q] = lease[u][q]
        BY <1>0 DEF LeaseExpires, Lease
    <2> QED
        BY <2>1 DEF Holders
<1>8. CASE \E p \in Panes : CallerDies(p)
    <2> PICK p \in Panes : CallerDies(p)
        BY <1>8
    <2>1. \A q \in Panes : lease'[u][q].state = lease[u][q].state
        BY <1>0 DEF CallerDies, Lease
    <2> QED
        BY <2>1 DEF Holders
<1>9. CASE Reap
    BY <1>0, <1>9 DEF Reap, Holders, NoLease
<1>10. ASSUME NEW p \in Panes, NEW next \in SUBSET Tasks, Advance(p, next) PROVE Goal
    <2> DEFINE t == request[p].task
               T == DoneRow(t)
               L == DoneLeases(t)
    <2>1. /\ t \in Tasks
          /\ T \in [Tasks -> Row]
          /\ L \in [Tasks -> [Panes -> Lease]]
        BY RequestTask, DoneTypes
    <2>2. /\ lease'[u] = IF u \in next THEN ClaimLease(T, L, u, p)[u] ELSE L[u]
          /\ next \subseteq Planned(T, L, p)
        BY <1>10 DEF Advance
    <2>3. L[u] = lease[u] \/ L[u] = NoLeases
        BY <1>0, <2>1 DEF DoneLeases
    <2>4. T[u].multi = task[u].multi
        BY <1>0, <2>1 DEF DoneRow, Row
    <2>5. CASE u \notin next
        BY <1>1, <2>2, <2>3, <2>5
    <2>6. CASE u \in next
        <3>1. Claimable(T, L, u, p)
            BY <2>2, <2>6 DEF Planned
        <3>2. Holders(lease', u) = Holders(ClaimLease(T, L, u, p), u)
            BY <2>2, <2>6 DEF Holders
        <3> HIDE DEF t, T, L
        <3>3. Holders(lease', u) = Holders(L, u) \cup {p}
            BY <2>1, <3>2, ClaimHolders
        <3>4. T[u].multi \/ Holders(L, u) = {}
            BY <2>1, <3>1, ClaimableHolders
        <3> QED
            BY <2>4, <3>3, <3>4
    <2> QED
        BY <2>5, <2>6
<1> QED
    BY <1>2, <1>3, <1>4, <1>5, <1>6, <1>7, <1>8, <1>9, <1>10
       DEF Keeping, Assign, MarkLandedForPr, ClaimStep, ClaimNext, AdvanceIdle, Planned,
           CompletionStep, BeginComplete, RefuseComplete, AlreadyComplete, SetUnlanded,
           CrashStep, Crash, CrashInSetStatus, Sweep, vars

LEMMA ExclusiveStep ==
    ASSUME InTime, TypeOK, NoInheritedLease, ExclusiveLease, [Next]_vars
    PROVE  ExclusiveLease'
<1> SUFFICES ASSUME NEW u \in Tasks, Exclusive(u)', NEW p \in Panes, NEW q \in Panes,
                    p \in Holders(lease', u), q \in Holders(lease', u)
             PROVE  p = q
    BY DEF ExclusiveLease, Live, Holders
<1>0. task \in [Tasks -> Row] /\ lease \in [Tasks -> [Panes -> Lease]]
    BY DEF TypeOK
<1>1. ASSUME Exclusive(u), Holders(lease', u) \subseteq Holders(lease, u) PROVE p = q
    BY <1>1 DEF ExclusiveLease, Live, Holders
<1>2. CASE \E d \in Drafts : Add(d)
    <2>1. CASE u = nextId
        <3>1. lease'[u] = NoLeases
            BY <1>2, <2>1, StoreAssumption DEF Add, NoInheritedLease, TypeOK
        <3> QED
            BY <3>1 DEF Holders, NoLeases, NoLease
    <2>2. CASE u # nextId
        BY <1>0, <1>1, <1>2, <2>2 DEF Add, Exclusive, Exists
    <2> QED
        BY <2>1, <2>2
<1>3. CASE \E t \in Tasks, e \in Edits : Update(t, e)
    <2> PICK t \in Tasks, e \in Edits : Update(t, e)
        BY <1>3
    <2>1. e.multi = {}
        BY DEF InTime
    <2>2. Exclusive(u)
        <3>1. Given(e.multi, task[t].multi) = task[t].multi
            BY <2>1, GivenNothing
        <3>2. task'[u].multi = task[u].multi
            BY <3>1, UpdateKeeps
        <3>3. Exists(u) <=> Exists(u)'
            BY UpdateKeeps DEF Exists
        <3> QED
            BY <3>2, <3>3 DEF Exclusive
    <2>3. lease'[u] = lease[u] \/ lease'[u] = NoLeases
        BY <1>0 DEF Update
    <2>4. Holders(lease', u) \subseteq Holders(lease, u)
        BY <2>3 DEF Holders, NoLeases, NoLease
    <2> QED
        BY <1>1, <2>2, <2>4
<1>4. CASE \E t \in Tasks : Delete(t)
    BY <1>0, <1>1, <1>4 DEF Delete, Exclusive, Exists, Absent
<1>5. CASE Keeping
    <2>1. Exclusive(u) /\ ~task[u].multi
        BY <1>5, KeepingStatus DEF KeepsRow, Exclusive, Exists
    <2> QED
        BY <1>1, <1>5, <2>1, HoldersStep
<1> QED
    BY <1>2, <1>3, <1>4, <1>5, NextSplit

\* Two panes never hold one exclusive task, through pulls, hand-overs, expiries, re-claims and
\* reassignments, provided no heartbeat comes after its deadline (the code lets it) and no
\* edit turns the task exclusive while several hold it.
THEOREM ExclusiveLeases == InTime => (Spec => []ExclusiveLease)
<1> SUFFICES ASSUME InTime PROVE Spec => []ExclusiveLease
    OBVIOUS
<1>1. Init => ExclusiveLease
    BY DEF Init, ExclusiveLease, Exclusive, Exists, Absent
<1>2. TypeOK /\ NoInheritedLease /\ ExclusiveLease /\ [Next]_vars => ExclusiveLease'
    BY ExclusiveStep
<1> QED
    BY <1>1, <1>2, TypeInvariance, NewTasksAreUnclaimed, PTL DEF Spec

-----------------------------------------------------------------------------
(* Stale authorisations                                                      *)

LEMMA StaleStep ==
    ASSUME TypeOK, [Next]_vars, NEW p \in Panes, request[p].pc = "authorised",
           request'[p] # request[p], p \notin Owners(task, lease, request[p].task) \cup Operators,
           task'[request[p].task].status = "done"
    PROVE  task[request[p].task].status = "done"
<1> DEFINE t == request[p].task
<1>0. t \in Tasks /\ task \in [Tasks -> Row] /\ request \in [Panes -> Request]
    BY RequestTask DEF TypeOK
<1>1. ASSUME task' = task PROVE task[t].status = "done"
    BY <1>1
<1>2. ASSUME NEW q \in Panes, NEW next \in SUBSET Tasks, Advance(q, next) PROVE FALSE
    <2>1. q = p
        BY <1>0, <1>2 DEF Advance
    <2> QED
        BY <1>2, <2>1 DEF Advance, MayComplete
<1>3. CASE \E q \in Panes : SetUnlanded(q)
    BY <1>0, <1>3 DEF SetUnlanded
<1>4. CASE \E u \in Tasks, c \in Commands : CrashInSetStatus(u, c[1], c[2])
    <2> PICK u \in Tasks, c \in Commands : CrashInSetStatus(u, c[1], c[2])
        BY <1>4
    <2>1. c[1] # "done" /\ task' = StatusRow(u, c[1], c[2])
        BY StoreAssumption DEF CrashInSetStatus
    <2>2. task[u] \in Row /\ task[t] \in Row
        BY <1>0
    <2>3. CASE u = t
        <3>1. task'[t].status = c[1]
            BY <1>0, <2>1, <2>2, <2>3 DEF StatusRow, Row
        <3> QED
            BY <2>1, <3>1
    <2>4. CASE u # t
        BY <1>0, <2>1, <2>4 DEF StatusRow
    <2> QED
        BY <2>3, <2>4
<1>5. ASSUME OwnerStep \/ ClaimStep \/ Sweep PROVE FALSE
    <2>1. request' = request
        BY <1>5 DEF OwnerStep, Add, Update, Assign, Delete, SetStatus, MarkLandedForPr, ClaimStep, ClaimNext,
                    AdvanceIdle, Heartbeat, Release, LeaseExpires, CallerDies, Reap, Sweep
    <2> QED
        BY <2>1
<1> QED
    BY <1>1, <1>2, <1>3, <1>4, <1>5
       DEF Next, CompletionStep, BeginComplete, RefuseComplete, AlreadyComplete, CrashStep, Crash, vars

\* A completion that was authorised completes nothing once the pane neither is on the list nor
\* holds the task: ownership is asked again on the row of the transaction (t423).
THEOREM StaleAuthorisations == Spec => StaleAuthorisationRefused
<1>1. TypeOK /\ [Next]_vars
      => [\A p \in Panes :
             LET t == request[p].task
             IN  /\ request[p].pc = "authorised" /\ request'[p] # request[p]
                 /\ p \notin Owners(task, lease, t) \cup Operators
                    /\ task'[t].status = "done"
                 => task[t].status = "done"]_vars
    BY StaleStep
<1> QED
    BY <1>1, TypeInvariance, PTL DEF Spec, StaleAuthorisationRefused

-----------------------------------------------------------------------------
(* Work in progress                                                          *)

\* Only a claim puts a task in progress: nobody adds or edits one to that status.
OnlyClaimsStart ==
    /\ \A d \in Drafts : d.status # "in_progress"
    /\ \A e \in Edits : "in_progress" \notin e.status

LEMMA EditStatus ==
    ASSUME OnlyClaimsStart, TypeOK, NEW t \in Tasks, NEW e \in Edits, Update(t, e), NEW u \in Tasks,
           task'[u].status = "in_progress"
    PROVE  task[u].status = "in_progress" /\ (lease'[u] = lease[u])
<1>0. task \in [Tasks -> Row] /\ task[u] \in Row /\ task[t] \in Row /\ lease \in [Tasks -> [Panes -> Lease]]
    BY DEF TypeOK
<1>1. CASE u # t
    BY <1>0, <1>1 DEF Update
<1>2. CASE u = t
    <2>1. task'[u].status = Given(e.status, task[u].status)
        BY <1>0, <1>2 DEF Update
    <2>2. e.status = {}
        <3>1. e.status \in Opt(Statuses)
            BY StoreAssumption DEF EditType
        <3> QED
            BY <2>1, <3>1 DEF OnlyClaimsStart, Opt, Given
    <2>3. task[u].status = "in_progress"
        BY <2>1, <2>2, GivenNothing
    <2>4. lease' = lease
        BY <1>2, <2>1, <2>3 DEF Update, EndsClaim
    <2> QED
        BY <2>3, <2>4
<1> QED
    BY <1>1, <1>2

\* A call of an operator, whole or cut short, starts nothing.
LEMMA CommandStatus ==
    ASSUME TypeOK, NEW t \in Tasks, NEW c \in Commands, NEW u \in Tasks,
           task' = StatusRow(t, c[1], c[2]), task'[u].status = "in_progress"
    PROVE  u # t /\ task'[u] = task[u]
<1>1. c[1] # "in_progress" /\ task \in [Tasks -> Row]
    BY StoreAssumption DEF TypeOK
<1>2. StatusRow(t, c[1], c[2])[t].status = c[1]
    BY <1>1 DEF StatusRow, Row
<1> QED
    BY <1>1, <1>2 DEF StatusRow

\* A release may take the pane off the list, and leaves the status to what follows.
LEMMA UnlistedKeeps ==
    ASSUME task \in [Tasks -> Row], NEW t \in Tasks, NEW p \in Panes, NEW u \in Tasks
    PROVE  LET unlisted == IF lease[t][p].added
                           THEN [task EXCEPT ![t].assignees = @ \ {p}] ELSE task
           IN  unlisted \in [Tasks -> Row] /\ unlisted[u].status = task[u].status
<1>1. [task[t] EXCEPT !.assignees = @ \ {p}] \in Row
      /\ [task[t] EXCEPT !.assignees = @ \ {p}].status = task[t].status
    BY DEF Row
<1> QED
    BY <1>1

LEMMA HeldStep ==
    ASSUME OnlyClaimsStart, TypeOK, NoStrandedClaim, [Next]_vars
    PROVE  NoStrandedClaim'
<1> SUFFICES ASSUME NEW u \in Tasks, task'[u].status = "in_progress"
             PROVE  \E p \in Panes : lease'[u][p].state # "none"
    BY DEF NoStrandedClaim, Held
<1>0. task \in [Tasks -> Row] /\ lease \in [Tasks -> [Panes -> Lease]]
    BY DEF TypeOK
<1> DEFINE Goal == \E p \in Panes : lease'[u][p].state # "none"
<1>1. ASSUME task[u].status = "in_progress", \A p \in Panes : lease[u][p].state # "none" => lease'[u][p].state # "none"
      PROVE  Goal
    BY <1>1 DEF NoStrandedClaim, Held
<1>2. CASE \E d \in Drafts : Add(d)
    BY <1>0, <1>1, <1>2, StoreAssumption DEF Add, OnlyClaimsStart, TypeOK
<1>3. CASE \E t \in Tasks, e \in Edits : Update(t, e)
    BY <1>1, <1>3, EditStatus
<1>4. CASE \E t \in Tasks : Delete(t)
    BY <1>0, <1>1, <1>4 DEF Delete, Absent
<1>5. ASSUME NEW t \in Tasks, NEW c \in Commands, SetStatus(t, c[1], c[2]) \/ CrashInSetStatus(t, c[1], c[2])
      PROVE  Goal
    <2>1. u # t /\ task'[u] = task[u]
        BY <1>5, CommandStatus DEF SetStatus, CrashInSetStatus
    <2>2. lease'[u] = lease[u]
        BY <1>0, <1>5, <2>1 DEF SetStatus, CrashInSetStatus
    <2> QED
        BY <1>1, <2>1, <2>2
<1>6. ASSUME NEW p \in Panes, NEW t \in Tasks, task' = ClaimRow(task, t, p), lease' = ClaimLease(task, lease, t, p)
      PROVE  Goal
    <2>1. lease'[t][p].state = "live" /\ \A v \in Tasks \ {t} : lease'[v] = lease[v]
        BY <1>0, <1>6 DEF ClaimLease
    <2>2. u # t => task'[u] = task[u]
        BY <1>0, <1>6, ClaimRowKeeps
    <2> QED
        BY <1>1, <2>1, <2>2
<1>7. ASSUME NEW p \in Panes, NEW t \in Tasks, NEW caller \in BOOLEAN, Heartbeat(p, t, caller) PROVE Goal
    <2>1. \A q \in Panes : lease[u][q].state # "none" => lease'[u][q].state # "none"
        BY <1>0, <1>7 DEF Heartbeat, Lease
    <2> QED
        BY <1>1, <1>7, <2>1 DEF Heartbeat
<1>8. ASSUME NEW p \in Panes, NEW t \in Tasks, Release(p, t) PROVE Goal
    <2> DEFINE left     == [lease EXCEPT ![t][p] = NoLease]
               unlisted == IF lease[t][p].added
                           THEN [task EXCEPT ![t].assignees = @ \ {p}] ELSE task
    <2>1. unlisted \in [Tasks -> Row] /\ unlisted[u].status = task[u].status
        BY <1>0, UnlistedKeeps
    <2>2. lease' = left /\ task' = [unlisted EXCEPT ![t] = AfterLeaseChange(unlisted, left, t)]
        BY <1>8 DEF Release
    <2>3. CASE u # t
        <3>1. lease'[u] = lease[u]
            BY <1>0, <2>2, <2>3
        <3>2. task'[u].status = task[u].status
            <4> HIDE DEF left, unlisted
            <4> QED
                BY <2>1, <2>2, <2>3
        <3> QED
            BY <1>1, <3>1, <3>2
    <2>4. CASE u = t
        <3>1. AfterLeaseChange(unlisted, left, t).status = "in_progress"
            <4> HIDE DEF left, unlisted
            <4> QED
                BY <2>1, <2>2, <2>4
        <3>2. ~\A q \in Panes : left[t][q].state = "none"
            <4> HIDE DEF left, unlisted
            <4> QED
                BY <2>1, <3>1 DEF AfterLeaseChange, Row
        <3> QED
            BY <2>2, <2>4, <3>2
    <2> QED
        BY <2>3, <2>4
<1>9. CASE Reap
    <2> DEFINE left == [t \in Tasks |-> [p \in Panes |-> IF Doomed(t, p) THEN NoLease
                                                         ELSE lease[t][p]]]
    <2>1. lease' = left /\ task'[u] = IF \E p \in Panes : Doomed(u, p)
                                     THEN AfterLeaseChange(task, left, u) ELSE task[u]
        BY <1>9 DEF Reap
    <2>2. CASE \E p \in Panes : Doomed(u, p)
        <3>1. ~\A q \in Panes : left[u][q].state = "none"
            <4>1. AfterLeaseChange(task, left, u).status = "in_progress" /\ task[u] \in Row
                BY <1>0, <2>1, <2>2
            <4> HIDE DEF left
            <4> QED
                BY <4>1 DEF AfterLeaseChange, Row
        <3> QED
            BY <2>1, <3>1
    <2>3. CASE ~\E p \in Panes : Doomed(u, p)
        <3>1. \A p \in Panes : left[u][p] = lease[u][p]
            BY <2>3
        <3> QED
            BY <1>1, <2>1, <2>3, <3>1
    <2> QED
        BY <2>2, <2>3
<1>10. CASE (\E p \in Panes, t \in Tasks : LeaseExpires(t, p)) \/ \E p \in Panes : CallerDies(p)
    <2>1. \A q \in Panes : lease[u][q].state # "none" => lease'[u][q].state # "none"
        <3>1. CASE \E p \in Panes, t \in Tasks : LeaseExpires(t, p)
            BY <1>0, <3>1 DEF LeaseExpires, Lease
        <3>2. CASE \E p \in Panes : CallerDies(p)
            BY <1>0, <3>2 DEF CallerDies, Lease
        <3> QED
            BY <1>10, <3>1, <3>2
    <2> QED
        BY <1>1, <1>10, <2>1 DEF LeaseExpires, CallerDies
<1>11. ASSUME NEW p \in Panes, NEW next \in SUBSET Tasks, Advance(p, next) PROVE Goal
    <2> DEFINE t == request[p].task
               T == DoneRow(t)
               L == DoneLeases(t)
    <2>1. /\ t \in Tasks
          /\ T \in [Tasks -> Row]
          /\ L \in [Tasks -> [Panes -> Lease]]
        BY RequestTask, DoneTypes
    <2>2. /\ lease'[u] = IF u \in next THEN ClaimLease(T, L, u, p)[u] ELSE L[u]
          /\ task'[u] = IF u \in next THEN ClaimRow(T, u, p)[u] ELSE T[u]
        BY <1>11 DEF Advance
    <2>3. u = t => T[u].status = "done"
        BY <1>0, <2>1 DEF DoneRow, Row
    <2>4. u # t => T[u] = task[u] /\ L[u] = lease[u]
        BY <1>0, <2>1 DEF DoneRow, DoneLeases
    <2> HIDE DEF t, T, L
    <2>5. ClaimLease(T, L, u, p)[u][p].state = "live"
        BY <2>1 DEF ClaimLease
    <2> QED
        BY <1>1, <2>2, <2>3, <2>4, <2>5
<1>12. CASE \/ \E t \in Tasks, g \in Grants, mode \in {"add", "remove", "set"} : Assign(t, g, mode)
            \/ \E pr \in PullRequests : MarkLandedForPr(pr)
            \/ \E p \in Panes : SetUnlanded(p)
            \/ Sweep
    <2>1. lease' = lease
        BY <1>12 DEF Assign, MarkLandedForPr, SetUnlanded, Sweep
    <2>2. task[u].status = "in_progress"
        <3>0. task[u] \in Row
            BY <1>0
        <3>1. CASE \E t \in Tasks, g \in Grants, mode \in {"add", "remove", "set"} : Assign(t, g, mode)
            BY <1>0, <3>0, <3>1 DEF Assign, Row
        <3>2. CASE \E pr \in PullRequests : MarkLandedForPr(pr)
            BY <1>0, <3>0, <3>2 DEF MarkLandedForPr, Row
        <3>3. CASE \E p \in Panes : SetUnlanded(p)
            BY <1>0, <3>0, <3>3, RequestTask DEF SetUnlanded, Row
        <3>4. CASE Sweep
            BY <1>0, <3>0, <3>4 DEF Sweep, Row
        <3> QED
            BY <1>12, <3>1, <3>2, <3>3, <3>4
    <2> QED
        BY <1>1, <2>1, <2>2
<1>13. CASE UNCHANGED <<task, lease>>
    BY <1>1, <1>13
<1> QED
    BY <1>2, <1>3, <1>4, <1>5, <1>6, <1>7, <1>8, <1>9, <1>10, <1>11, <1>12, <1>13
       DEF Next, OwnerStep, ClaimStep, ClaimNext, AdvanceIdle, CompletionStep, BeginComplete, RefuseComplete,
           AlreadyComplete, CrashStep, Crash, vars

\* A task in progress has a lease, so the reaper can find it, through releases, reaps,
\* reassignments, torn writes and crashes, unless somebody sets the status by hand.
THEOREM ClaimsAreHeld == OnlyClaimsStart => (Spec => []NoStrandedClaim)
<1> SUFFICES ASSUME OnlyClaimsStart PROVE Spec => []NoStrandedClaim
    OBVIOUS
<1>1. Init => NoStrandedClaim
    BY DEF Init, NoStrandedClaim, Absent
<1>2. TypeOK /\ NoStrandedClaim /\ [Next]_vars => NoStrandedClaim'
    BY HeldStep
<1> QED
    BY <1>1, <1>2, TypeInvariance, PTL DEF Spec

-----------------------------------------------------------------------------
(* One job per pane                                                          *)

\* No caller passes --allow-busy.
OneAtATime == InTime /\ OnlyClaimsStart /\ BusyOK = FALSE

\* The exclusive tasks pane p works on.
Work(p) == {t \in Tasks : Exclusive(t) /\ task[t].status = "in_progress" /\ Live(t, p)}

Claimed(p, t) == ClaimNext(p, t) \/ AdvanceIdle(p, t) \/ Advance(p, {t})

\* A claim by another pane gives p nothing: p does not hold what is exclusive and claimable.
LEMMA OthersClaim ==
    ASSUME NEW T \in [Tasks -> Row], NEW L \in [Tasks -> [Panes -> Lease]],
           NEW t \in Tasks, NEW p \in Panes, NEW q \in Panes \ {p}, Claimable(T, L, t, q), ~T[t].multi
    PROVE  ClaimLease(T, L, t, q)[t][p].state # "live"
    BY ClaimableHolders DEF Holders, ClaimLease

\* Only its own claim gives a pane new work.
LEMMA NewWork ==
    ASSUME OneAtATime, TypeOK, NoInheritedLease, [Next]_vars, NEW p \in Panes, NEW u \in Work(p)', ~Claimed(p, u)
    PROVE  u \in Work(p)
<1>0. /\ task \in [Tasks -> Row] /\ lease \in [Tasks -> [Panes -> Lease]]
      /\ u \in Tasks /\ task'[u].status = "in_progress" /\ lease'[u][p].state = "live"
      /\ ~task'[u].multi /\ task[u] \in Row
    BY DEF TypeOK, Work, Live, Exclusive
<1> DEFINE Same == task[u].status = "in_progress" /\ lease[u][p].state = "live"
<1>1. CASE \E d \in Drafts : Add(d)
    <2>1. CASE u = nextId
        <3>1. lease'[u] = NoLeases
            BY <1>0, <1>1, <2>1, StoreAssumption DEF Add, NoInheritedLease, TypeOK
        <3> QED
            BY <1>0, <3>1 DEF NoLeases, NoLease
    <2>2. CASE u # nextId
        BY <1>0, <1>1, <2>2 DEF Add, Work, Exclusive, Exists, Live
    <2> QED
        BY <2>1, <2>2
<1>2. CASE \E t \in Tasks, e \in Edits : Update(t, e)
    <2> PICK t \in Tasks, e \in Edits : Update(t, e)
        BY <1>2
    <2>1. Same
        BY <1>0, EditStatus DEF OneAtATime
    <2>2. task'[u].multi = task[u].multi
        <3>1. Given(e.multi, task[t].multi) = task[t].multi
            BY GivenNothing DEF OneAtATime, InTime
        <3> QED
            BY <1>0, <3>1, UpdateKeeps
    <2> QED
        BY <1>0, <2>1, <2>2 DEF Work, Exclusive, Exists, Live
<1>3. CASE \E t \in Tasks : Delete(t)
    BY <1>0, <1>3 DEF Delete, Absent, Work, Exclusive, Exists, Live
<1>4. ASSUME Keeping, Same PROVE u \in Work(p)
    BY <1>0, <1>4, KeepingStatus DEF KeepsRow, Work, Exclusive, Exists, Live
<1>5. ASSUME NEW t \in Tasks, NEW c \in Commands, SetStatus(t, c[1], c[2]) \/ CrashInSetStatus(t, c[1], c[2])
      PROVE  Same
    <2>1. u # t /\ task'[u] = task[u]
        BY <1>0, <1>5, CommandStatus DEF SetStatus, CrashInSetStatus
    <2>2. lease'[u] = lease[u]
        BY <1>0, <1>5, <2>1 DEF SetStatus, CrashInSetStatus
    <2> QED
        BY <1>0, <2>1, <2>2
<1>6. ASSUME NEW q \in Panes, NEW t \in Tasks, Keeping, ClaimNext(q, t) \/ AdvanceIdle(q, t) PROVE Same
    <2>1. task' = ClaimRow(task, t, q) /\ lease' = ClaimLease(task, lease, t, q) /\ Claimable(task, lease, t, q)
        BY <1>6 DEF ClaimNext, AdvanceIdle, Planned
    <2>2. CASE u # t
        BY <1>0, <2>1, <2>2, ClaimRowKeeps DEF ClaimLease
    <2>3. CASE u = t
        <3>1. q # p
            BY <1>6, <2>3 DEF Claimed
        <3>2. ~task[u].multi
            BY <1>0, <1>6, KeepingStatus DEF KeepsRow
        <3> QED
            BY <1>0, <2>1, <2>3, <3>1, <3>2, OthersClaim
    <2> QED
        BY <2>2, <2>3
<1>7. ASSUME NEW q \in Panes, NEW t \in Tasks, NEW caller \in BOOLEAN, Heartbeat(q, t, caller) PROVE Same
    <2>1. Live(t, q) /\ task' = task
        BY <1>7 DEF Heartbeat, OneAtATime, InTime
    <2>2. t # u \/ q # p => lease'[u][p] = lease[u][p]
        BY <1>0, <1>7 DEF Heartbeat
    <2> QED
        BY <1>0, <2>1, <2>2 DEF Live
<1>8. ASSUME NEW q \in Panes, NEW t \in Tasks, Release(q, t) PROVE Same
    <2> DEFINE left     == [lease EXCEPT ![t][q] = NoLease]
               unlisted == IF lease[t][q].added
                           THEN [task EXCEPT ![t].assignees = @ \ {q}] ELSE task
    <2>1. unlisted \in [Tasks -> Row] /\ unlisted[u].status = task[u].status
        BY <1>0, UnlistedKeeps
    <2>2. lease' = left /\ task' = [unlisted EXCEPT ![t] = AfterLeaseChange(unlisted, left, t)]
        BY <1>8 DEF Release
    <2>3. lease[u][p].state = "live"
        BY <1>0, <2>2 DEF NoLease
    <2> HIDE DEF left, unlisted
    <2>4. task'[u] = unlisted[u] \/ task'[u] = AfterLeaseChange(unlisted, left, u)
        BY <2>1, <2>2
    <2> QED
        BY <1>0, <2>1, <2>3, <2>4, AfterLeaseChangeKeeps
<1>9. CASE Reap
    <2> DEFINE left == [t \in Tasks |-> [q \in Panes |-> IF Doomed(t, q) THEN NoLease
                                                         ELSE lease[t][q]]]
    <2>1. lease' = left /\ task'[u] \in {task[u], AfterLeaseChange(task, left, u)}
        BY <1>0, <1>9 DEF Reap
    <2>2. lease[u][p].state = "live"
        BY <1>0, <2>1 DEF NoLease
    <2> HIDE DEF left
    <2> QED
        <3>1. Same
            BY <1>0, <2>1, <2>2, AfterLeaseChangeKeeps
        <3> QED
            BY <1>4, <1>9, <3>1 DEF Keeping, ClaimStep
<1>10. CASE (\E q \in Panes, t \in Tasks : LeaseExpires(t, q)) \/ \E q \in Panes : CallerDies(q)
    <2>1. Same
        <3>1. CASE \E q \in Panes, t \in Tasks : LeaseExpires(t, q)
            BY <1>0, <3>1 DEF LeaseExpires, Lease
        <3>2. CASE \E q \in Panes : CallerDies(q)
            BY <1>0, <3>2 DEF CallerDies, Lease
        <3> QED
            BY <1>10, <3>1, <3>2
    <2> QED
        BY <1>4, <1>10, <2>1 DEF Keeping, ClaimStep
<1>11. ASSUME NEW q \in Panes, NEW next, (next = {} \/ \E t \in Tasks : next = {t}), Advance(q, next), Keeping
       PROVE  Same
    <2> DEFINE t == request[q].task
               T == DoneRow(t)
               L == DoneLeases(t)
    <2>1. /\ t \in Tasks
          /\ T \in [Tasks -> Row]
          /\ L \in [Tasks -> [Panes -> Lease]]
        BY RequestTask, DoneTypes
    <2>2. /\ lease'[u] = IF u \in next THEN ClaimLease(T, L, u, q)[u] ELSE L[u]
          /\ task'[u] = IF u \in next THEN ClaimRow(T, u, q)[u] ELSE T[u]
          /\ next \subseteq Planned(T, L, q)
        BY <1>0, <1>11 DEF Advance
    <2>3. u = t => T[u].status = "done"
        BY <1>0, <2>1 DEF DoneRow, Row
    <2>4. u # t => T[u] = task[u] /\ L[u] = lease[u]
        BY <1>0, <2>1 DEF DoneRow, DoneLeases
    <2>5. T[u].multi = task[u].multi
        BY <1>0, <2>1 DEF DoneRow, Row
    <2>6. u \in next => Claimable(T, L, u, q)
        BY <2>2 DEF Planned
    <2> HIDE DEF t, T, L
    <2>7. u \notin next
        <3> SUFFICES ASSUME u \in next PROVE FALSE
            OBVIOUS
        <3>1. q # p
            BY <1>11 DEF Claimed
        <3>2. ~T[u].multi
            BY <1>0, <1>11, <2>5, KeepingStatus DEF KeepsRow
        <3> QED
            BY <1>0, <2>1, <2>2, <2>6, <3>1, <3>2, OthersClaim
    <2> QED
        BY <1>0, <2>2, <2>3, <2>4, <2>7
<1>12. CASE \/ \E t \in Tasks, g \in Grants, mode \in {"add", "remove", "set"} : Assign(t, g, mode)
            \/ \E pr \in PullRequests : MarkLandedForPr(pr)
            \/ \E q \in Panes : SetUnlanded(q)
            \/ Sweep
    <2>1. lease' = lease
        BY <1>12 DEF Assign, MarkLandedForPr, SetUnlanded, Sweep
    <2>2. task[u].status = "in_progress"
        <3>1. CASE \E t \in Tasks, g \in Grants, mode \in {"add", "remove", "set"} : Assign(t, g, mode)
            BY <1>0, <3>1 DEF Assign, Row
        <3>2. CASE \E pr \in PullRequests : MarkLandedForPr(pr)
            BY <1>0, <3>2 DEF MarkLandedForPr, Row
        <3>3. CASE \E q \in Panes : SetUnlanded(q)
            BY <1>0, <3>3, RequestTask DEF SetUnlanded, Row
        <3>4. CASE Sweep
            BY <1>0, <3>4 DEF Sweep, Row
        <3> QED
            BY <1>12, <3>1, <3>2, <3>3, <3>4
    <2> QED
        BY <1>0, <1>4, <1>12, <2>1, <2>2 DEF Keeping, CompletionStep
<1>13. ASSUME UNCHANGED <<task, lease>> PROVE Same
    BY <1>0, <1>13
<1>14. CASE Keeping
    <2>1. CASE ClaimStep
        BY <1>4, <1>6, <1>7, <1>8, <1>9, <1>10, <1>14, <2>1 DEF ClaimStep
    <2>2. CASE CompletionStep
        BY <1>4, <1>11, <1>12, <1>13, <1>14, <2>2
           DEF CompletionStep, BeginComplete, RefuseComplete, AlreadyComplete
    <2>3. CASE CrashStep \/ UNCHANGED vars
        BY <1>4, <1>5, <1>13, <1>14, <2>3 DEF CrashStep, Crash, vars
    <2> QED
        BY <1>4, <1>5, <1>12, <1>14, <2>1, <2>2, <2>3 DEF Keeping
<1> QED
    BY <1>1, <1>2, <1>3, <1>14, NextSplit

\* A claim finds the pane without work, apart from what the same transaction completes.
LEMMA ClaimedIdle ==
    ASSUME OneAtATime, TypeOK, NEW p \in Panes, NEW u \in Tasks, Claimed(p, u), NEW v \in Work(p)
    PROVE  v \notin Work(p)' \/ v = u
<1>0. /\ task \in [Tasks -> Row] /\ lease \in [Tasks -> [Panes -> Lease]]
      /\ v \in Tasks /\ task[v].status = "in_progress" /\ p \in Holders(lease, v)
    BY DEF TypeOK, Work, Live, Holders
<1>1. CASE ClaimNext(p, u) \/ AdvanceIdle(p, u)
    <2>1. ~Busy(task, lease, p)
        BY <1>1 DEF ClaimNext, AdvanceIdle, Planned, OneAtATime
    <2> QED
        BY <1>0, <2>1 DEF Busy
<1>2. CASE Advance(p, {u})
    <2> DEFINE t == request[p].task
               T == DoneRow(t)
               L == DoneLeases(t)
    <2>1. t \in Tasks
        BY RequestTask
    <2>2. ~Busy(T, L, p) /\ \A w \in Tasks \ {u} : task'[w] = T[w]
        BY <1>2 DEF Advance, Planned
    <2>3. v # t => T[v] = task[v] /\ L[v] = lease[v]
        BY <1>0, <2>1 DEF DoneRow, DoneLeases
    <2>4. v = t => T[v].status = "done"
        BY <1>0, <2>1 DEF DoneRow, Row
    <2>5. v = t
        <3> HIDE DEF t, T, L
        <3> QED
            BY <1>0, <2>2, <2>3 DEF Busy, Holders
    <2> HIDE DEF t, T, L
    <2> QED
        BY <1>0, <2>2, <2>4, <2>5 DEF Work
<1> QED
    BY <1>1, <1>2 DEF Claimed

\* What else the claiming step leaves to p was its work before.
LEMMA ClaimedOnce ==
    ASSUME TypeOK, NEW p \in Panes, NEW u \in Tasks, Claimed(p, u), NEW v \in Work(p)', v # u
    PROVE  v \in Work(p)
<1>0. task \in [Tasks -> Row] /\ lease \in [Tasks -> [Panes -> Lease]] /\ v \in Tasks
    BY DEF TypeOK, Work
<1>1. CASE ClaimNext(p, u) \/ AdvanceIdle(p, u)
    <2>1. task'[v] = task[v] /\ lease'[v] = lease[v]
        <3>1. task' = ClaimRow(task, u, p) /\ lease' = ClaimLease(task, lease, u, p)
            BY <1>1 DEF ClaimNext, AdvanceIdle
        <3>2. ClaimRow(task, u, p)[v] = task[v]
            BY <1>0, ClaimRowKeeps
        <3>3. ClaimLease(task, lease, u, p)[v] = lease[v]
            BY <1>0, ClaimHolders
        <3> QED
            BY <3>1, <3>2, <3>3
    <2> QED
        BY <2>1 DEF Work, Exclusive, Exists, Live
<1>2. CASE Advance(p, {u})
    <2> DEFINE t == request[p].task
    <2>1. t \in Tasks
        BY RequestTask
    <2>2. task'[v] = DoneRow(t)[v] /\ lease'[v] = DoneLeases(t)[v]
        BY <1>0, <1>2 DEF Advance
    <2>3. v = t => task'[v].status = "done"
        BY <1>0, <2>1, <2>2 DEF DoneRow, Row
    <2>4. v # t => task'[v] = task[v] /\ lease'[v] = lease[v]
        BY <1>0, <2>1, <2>2 DEF DoneRow, DoneLeases
    <2> HIDE DEF t
    <2> QED
        BY <2>3, <2>4 DEF Work, Exclusive, Exists, Live
<1> QED
    BY <1>1, <1>2 DEF Claimed

\* A pane works on one exclusive task (t145), whatever happened to its older leases, provided no
\* caller passes --allow-busy, no heartbeat comes after its deadline, and nobody sets a task in
\* progress or turns it exclusive by hand.
THEOREM OneJob == OneAtATime => (Spec => []OneJobPerPane)
<1> SUFFICES ASSUME OneAtATime PROVE Spec => []OneJobPerPane
    OBVIOUS
<1> DEFINE Single == \A p \in Panes : \A t, u \in Work(p) : t = u
<1>1. Init => Single
    BY DEF Init, Work, Exclusive, Exists, Absent
<1>2. ASSUME TypeOK, NoInheritedLease, Single, [Next]_vars PROVE Single'
    <2> SUFFICES ASSUME NEW p \in Panes, NEW t \in Work(p)', NEW u \in Work(p)', t # u PROVE FALSE
        OBVIOUS
    <2>0. t \in Tasks /\ u \in Tasks
        BY DEF Work
    <2>1. CASE ~Claimed(p, t) /\ ~Claimed(p, u)
        BY <1>2, <2>1, NewWork
    <2>2. CASE Claimed(p, t)
        BY <1>2, <2>0, <2>2, ClaimedOnce, ClaimedIdle
    <2>3. CASE Claimed(p, u)
        BY <1>2, <2>0, <2>3, ClaimedOnce, ClaimedIdle
    <2> QED
        BY <2>1, <2>2, <2>3
<1>3. Single => OneJobPerPane
    BY DEF OneJobPerPane, Work
<1> QED
    BY <1>1, <1>2, <1>3, TypeInvariance, NewTasksAreUnclaimed, PTL DEF Spec

=============================================================================
