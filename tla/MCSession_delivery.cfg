SPECIFICATION Spec
CONSTANTS
    Streams = {s1, s2}
    NoStream = NoStream
    Notifiers = {n1}
    Callers = {}
    MaxMsgs = 2
    BytesEvict = TRUE
    MaxSeq = 3
    InFlight = 0
    ExplicitResume = FALSE
    ReaperRuns = FALSE
SYMMETRY Symmetry
INVARIANTS NothingSkipped 
CHECK_DEADLOCK FALSE
