SPECIFICATION FairSpec
CONSTANTS
    Turns = {u1, u2}
    NoTurn = NoTurn
    Overlap = FALSE
    Steering = TRUE
    Interrupts = TRUE
    Exits = TRUE
    Capacity = 1
    MaxDeltas = 1
INVARIANTS CompletedByOwnResult QuietIsIdle
 
CHECK_DEADLOCK FALSE
