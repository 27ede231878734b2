SPECIFICATION Spec
CONSTANTS
    t1 = t1
    t2 = t2
    NoThread = NoThread
    Threads = {t1, t2}
    MaxRecursionCount = 1
    StackDepth = 0
    MaxModules = 0
    MaxEvents = 3
SYMMETRY Symmetry
INVARIANTS
    TypeOK
    EnterCountExact
    LockedFlagReliable
    LoaderLockBalanced
