CONSTANTS
    th1 = th1
    th2 = th2
    NoThread = NoThread
    Threads <- MCThreads
    ThreadSafety = TRUE
    MaxSets = 3
    SetCounts = {1, 2}
SPECIFICATION Spec
\* The pool is destroyed at device teardown; nothing runs after it.
CHECK_DEADLOCK FALSE
INVARIANTS
    TypeOK
    PoolCallsSerialized
PROPERTIES
    MutexReleased
