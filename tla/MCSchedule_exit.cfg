SPECIFICATION Spec
CONSTANTS
    t1 = t1
    t2 = t2
    t3 = t3
    e1 = e1
    e2 = e2
    NoTask = NoTask
    Tasks = {t1, t2}
    ExitTasks = {e1, e2}
    Flags <- TolerantKinds
    MaxTime = 1
    MaxFrame = 0
    MaxGen = 1
INVARIANTS
    HandlesStable
PROPERTIES
    NeverCalledDead
    DueRuns
