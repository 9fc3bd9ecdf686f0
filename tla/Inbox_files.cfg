\* Two mails with the same file: one is sent while the other is deleted.
CONSTANTS
    Mails = {m1, m2}
    WithFile = {m1, m2}
    Digests = {}
    Readers = {r1}
    Limit = 1
    MaxBody = 1
    MaxCrashes = 0

SPECIFICATION Spec
CHECK_DEADLOCK FALSE
INVARIANTS AttachmentsAreKept
