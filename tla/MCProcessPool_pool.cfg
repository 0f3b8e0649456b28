SPECIFICATION FairPoolSpec
CONSTANTS
    Threads = {t1, t2}
    Cwds = {c1, c2}
    Processes = {p1, p2, p3, p4}
    NoThread = NoThread
    NoProcess = NoProcess
    NoCwd = NoCwd
    Acquirers = {k1, k2}
    Turns = {u1}
    MaxProcesses = 1
INVARIANTS IndexInLockstep NoOrphan OverCapBounded
PROPERTIES AcquireEnds
