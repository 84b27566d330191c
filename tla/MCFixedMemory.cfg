\* Two threads, stores of two and of four blocks.
CONSTANTS
    t1 = t1  t2 = t2
    Threads = {t1, t2}
    Requests = {8, 9}
    FirstCapacity = 1
    MaxStores = 2
    MaxUsed = 4
SPECIFICATION Spec
INVARIANTS NoDoubleAllocation FreeListWhole GivenBackToItsChunk
CONSTRAINT FewUsed
