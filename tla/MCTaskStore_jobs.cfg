\* Two tasks, two panes: pulls, hand-overs, expiries and re-claims compete for the panes.
SPECIFICATION Spec
CONSTANTS
    p1 = p1
    p2 = p2
    MaxTask = 2
    Panes = {p1, p2}
    Operators = {}
    PullRequests = {}
    Drafts <- JobDrafts
    Edits = {}
    Grants = {}
    Commands <- Unblock
    Landings = {TRUE}
    BusyOK = FALSE
    LateHeartbeats = FALSE
    TornWrites = FALSE
SYMMETRY PaneSymmetry
CONSTRAINT OneRequest
CHECK_DEADLOCK FALSE
INVARIANTS
    OneJobPerPane
