\* One dunk, two panes, two requests at a time, any number of restarts.
CONSTANTS
    Dunks = {d1}
    Panes = {p1, p2}
    Clients = {c1, c2}
    Threads = {t1, t2}
    Cap = 1
    None = none

SPECIFICATION Spec
INVARIANTS TypeOK OneTimer StoppedStaysStopped NoStrandedSchedule TypedWhereGated EditWakesTimer CapEndsSchedule
PROPERTIES StopReturns DueIsServed
