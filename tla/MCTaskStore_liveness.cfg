\* Two tasks, one pane that is an operator: dependencies, deletes, and what the reaper loop owes
\* to blocked and abandoned work.
SPECIFICATION FairSpec
CONSTANTS
    p1 = p1
    p2 = p2
    MaxTask = 2
    Panes = {p1}
    Operators = {p1}
    PullRequests = {{1, 2}}
    Drafts <- DepDrafts
    Edits <- DepEdits
    Grants = {}
    Commands <- AllCommands
    Landings = {TRUE, FALSE}
    BusyOK = FALSE
    LateHeartbeats = TRUE
    TornWrites = TRUE
CHECK_DEADLOCK FALSE
PROPERTIES
    DependencyBlockLifts
    AbandonedWorkReturns
INVARIANTS
    NoDanglingDeps
    NoInheritedLease
