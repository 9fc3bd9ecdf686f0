\* One daemon at a time, killed anywhere, restarted twice; one store call fails.
CONSTANTS
    Msgs = {m1}
    NoMsg = nomsg
    NumProcs = 3
    MaxAttempts = 2
    MaxErrors = 1
    Misreads = FALSE
    Overlap = FALSE

SPECIFICATION Spec
INVARIANTS TypeOK WaitingIsUntyped SentAgrees
PROPERTIES KeepsPromise AttemptsAreSpent
