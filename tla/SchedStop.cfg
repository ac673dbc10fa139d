SPECIFICATION Spec
CONSTANTS
    Sched = {s1, s2}
    Rows = {s1}
    Fire = {f1}
    Web = {w1}
    Targets = 1
    MaxNow = 1
    MaxEvents = 1
PROPERTIES StopCancels
CHECK_DEADLOCK FALSE
