SPECIFICATION Spec
CONSTANTS
    t1 = t1
    t2 = t2
    NoThread = NoThread
    Threads = {t1}
    MaxRecursionCount = 1
    StackDepth = 1
    MaxModules = 1
    MaxEvents = 2
INVARIANTS
    HeapAccounted
    LibrariesReleased
    LastEntryOnce
PROPERTIES
    HandlersReturn
