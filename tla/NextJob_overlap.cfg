\* A second daemon is started while the first one runs; receipts cannot always be read, and one
\* store call fails.
CONSTANTS
    Msgs = {m1}
    NoMsg = nomsg
    NumProcs = 2
    MaxAttempts = 3
    MaxErrors = 1
    Misreads = TRUE
    Overlap = TRUE

SPECIFICATION Spec
INVARIANTS TypedOnceByLiving TypedPerDaemon
