SPECIFICATION Spec
CONSTANTS
    Streams = {s1, s2}
    NoStream = NoStream
    Notifiers = {n1}
    Callers = {c1}
    MaxMsgs = 1
    BytesEvict = FALSE
    MaxSeq = 1
    InFlight = 0
    ExplicitResume = TRUE
    ReaperRuns = TRUE
SYMMETRY Symmetry
INVARIANTS ResumedSeesPrompts 
CHECK_DEADLOCK FALSE
