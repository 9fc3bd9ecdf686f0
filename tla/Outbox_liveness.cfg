\* Two texts in one queue, and a restart.
CONSTANTS
    Mails = {}
    Texts = {t1, t2}
    HoldLimit = 1
    MaxExits = 1
    MaxFailures = 0

SPECIFICATION Spec
CHECK_DEADLOCK FALSE
PROPERTIES EveryMessageSettles
