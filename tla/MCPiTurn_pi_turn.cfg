SPECIFICATION FairSpec
CONSTANTS
    Turns <- MCTurns
    None = None
    Script <- MCScript
    Exits = TRUE
    Capacity = 2
    Interruptible <- MCInterruptible
INVARIANTS ClosedAtEnd QuietIsIdle
PROPERTIES ItemsStream 
CHECK_DEADLOCK FALSE
