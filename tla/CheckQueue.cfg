SPECIFICATION Spec
CONSTANTS
    m1 = m1  w1 = w1  w2 = w2
    Masters = {m1}
    Workers = {w1, w2}
    NoThread = NoThread
    nBatchSize = 2
    MaxAdd = 2
    MaxChecks = 4
INVARIANTS
    NoCheckOutlivesWait
    WaitTellsAll
    TodoIsExact
PROPERTIES
    WaitEnds
