SPECIFICATION FairSpec
CONSTANTS
    Streams = {s1, s2}
    NoStream = NoStream
    Notifiers = {}
    Callers = {c1}
    MaxMsgs = 1
    BytesEvict = FALSE
    MaxSeq = 0
    InFlight = 0
    ExplicitResume = FALSE
    ReaperRuns = FALSE
INVARIANTS TablesInLockstep
PROPERTIES DrainerEnds AttachedGetsAll RequestReturns
CHECK_DEADLOCK FALSE
