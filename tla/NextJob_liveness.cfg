\* Two restarts, the attempts of the code, no failing store call but the read of a receipt.
CONSTANTS
    Msgs = {m1}
    NoMsg = nomsg
    NumProcs = 3
    MaxAttempts = 4
    MaxErrors = 0
    Misreads = TRUE
    Overlap = FALSE

SPECIFICATION FairSpec
PROPERTIES EveryHandoffSettles

