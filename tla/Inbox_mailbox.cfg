\* A mail with a file and a digest, two readers, the daemon dies once.
CONSTANTS
    Mails = {m1}
    WithFile = {m1}
    Digests = {d}
    Readers = {r1, r2}
    Limit = 2
    MaxBody = 2
    MaxCrashes = 1

SPECIFICATION FairSpec
CHECK_DEADLOCK FALSE
INVARIANTS TypeOK LostAnswerRecovers
PROPERTIES EndedStaysEnded DeadMailIsRetired
