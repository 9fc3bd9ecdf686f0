---------------------------- MODULE MCTaskStore ----------------------------
(* Instances of TaskStore for TLC: small sets of drafts and edits, each one *)
(* a call an agent or an operator makes with the command line.             *)
EXTENDS TaskStore, TLC

CONSTANTS p1, p2

PaneSymmetry == Permutations(Panes)

Plain == [assignees |-> {}, multi |-> FALSE, deps |-> {}, status |-> "open"]
Keep  == [assignees |-> {}, multi |-> {}, deps |-> {}, status |-> {}, reason |-> {}]

\* An unowned task, a task for two, a task both panes are named on, a dependent.
ClaimDrafts ==
    {Plain, [Plain EXCEPT !.multi = TRUE], [Plain EXCEPT !.assignees = Panes]}

Unblock == {<<"open", "none">>}
AllCommands == Unblock \cup {<<"blocked", "owner">>, <<"blocked", "none">>, <<"cancelled", "none">>}

\* bound: one completion request is served at a time
OneRequest == Cardinality({p \in Panes : request[p].pc # "idle"}) <= 1

JobDrafts == {Plain, [Plain EXCEPT !.assignees = Panes]}

DepDrafts ==
    {Plain, [Plain EXCEPT !.deps = {1}, !.assignees = Panes],
     [Plain EXCEPT !.deps = {1}, !.status = "blocked"]}

\* task update --status blocked keeps the old reason; --depends-on may close a cycle.
DepEdits ==
    {[Keep EXCEPT !.deps = {{2}}],
     [Keep EXCEPT !.status = {"blocked"}, !.reason = {"dependency"}],
     [Keep EXCEPT !.status = {"done"}]}

OwnerEdits ==
    {[Keep EXCEPT !.assignees = {{}}], [Keep EXCEPT !.status = {"blocked"}],
     [Keep EXCEPT !.status = {"cancelled"}]}
=============================================================================
