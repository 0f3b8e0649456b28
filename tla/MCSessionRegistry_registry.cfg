SPECIFICATION FairRegistrySpec
CONSTANTS
    Keys = {k1, k2}
    Sessions = {s1, s2, s3}
    NoSession = NoSession
    Streams = {c1, c2, c3}
    NoStream = NoStream
    ResponseFails = TRUE
    MaxPrompts = 1
INVARIANTS NoneReplaced
PROPERTIES AbandonedIsDropped
