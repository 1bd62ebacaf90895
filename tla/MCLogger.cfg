\* Three threads, three intervals of two minutes, a restart, failing system calls.
SPECIFICATION Spec
CONSTANTS
    t1 = t1
    t2 = t2
    t3 = t3
    Thread <- MCThread
    f1 = f1
    FileName = {f1}
    NoName = NoName
    Interval = 2
    Minute = 1
    ClockMax = 4
    CrashMax = 1
    Prompt = TRUE
    Disks = {"sound", "failing"}
SYMMETRY Symmetry
INVARIANTS TypeOK NothingLost OneRotation FdIsNamed FileOfTheDay
CHECK_DEADLOCK FALSE
