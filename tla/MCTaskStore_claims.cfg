\* One task, two panes, every step: claims, expiries, deaths, releases, edits, completions.
SPECIFICATION Spec
CONSTANTS
    p1 = p1
    p2 = p2
    MaxTask = 1
    Panes = {p1, p2}
    Operators = {}
    PullRequests = {{1}}
    Drafts <- ClaimDrafts
    Edits <- OwnerEdits
    Grants = {{p1}, {p2}}
    Commands <- AllCommands
    Landings = {TRUE, FALSE}
    BusyOK = FALSE
    LateHeartbeats = FALSE
    TornWrites = TRUE
SYMMETRY PaneSymmetry
CHECK_DEADLOCK FALSE
INVARIANTS
    TypeOK
    ExclusiveLease
    NoStrandedClaim
PROPERTIES
    FinishedNeverReopens
    ClaimsLeaveEndedTasksAlone
    StaleAuthorisationRefused
