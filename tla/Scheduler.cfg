SPECIFICATION FairSpec
CONSTANTS
    t1 = t1
    t2 = t2
    p1 = p1
    j1 = j1
    Threads = {t1, t2}
    Producers = {p1}
    Jobs = {j1}
    MaxTime = 1
    MaxCallbacks = 2
INVARIANTS
    TypeOK
    SerialInOrder
    NoneStranded
PROPERTIES
    CallbacksRun
    
