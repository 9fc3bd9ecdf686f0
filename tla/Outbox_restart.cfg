\* Two mails, the process ends once and one snapshot cannot be written.
CONSTANTS
    Mails = {m1, m2}
    Texts = {}
    HoldLimit = 1
    MaxExits = 1
    MaxFailures = 1

SPECIFICATION Spec
CHECK_DEADLOCK FALSE
INVARIANTS TypeOK NoStrandedQueue NothingLost SettledStaysOut TypedOncePerLife
