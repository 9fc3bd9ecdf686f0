\* The least instance with a turn.
CONSTANTS
    Msgs = {m1}
    NoMsg = nomsg
    NumProcs = 1
    MaxAttempts = 2
    MaxErrors = 0
    Misreads = FALSE
    Overlap = FALSE

SPECIFICATION Spec
INVARIANTS TurnIsPersisted

