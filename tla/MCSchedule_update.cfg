SPECIFICATION Spec
CONSTANTS
    t1 = t1
    t2 = t2
    t3 = t3
    e1 = e1
    e2 = e2
    NoTask = NoTask
    Tasks = {t1, t2, t3}
    ExitTasks = {}
    Flags <- BothKinds
    MaxTime = 1
    MaxFrame = 2
    MaxGen = 3
SYMMETRY Symmetry
INVARIANTS IInv
PROPERTIES OneShotOnce AbstractSpec
