\* An interval may end while a thread is in maybeRotate.
SPECIFICATION Spec
CONSTANTS
    t1 = t1
    t2 = t2
    t3 = t3
    Thread <- MCThread
    f1 = f1
    FileName = {f1}
    NoName = NoName
    Interval = 2
    Minute = 1
    ClockMax = 4
    CrashMax = 0
    Prompt = FALSE
    Disks = {"sound"}
SYMMETRY Symmetry
INVARIANT RotatesWithOldValue
CHECK_DEADLOCK FALSE
