SPECIFICATION Spec
CONSTANTS
    task = task
    ask = ask
    text = text
    bash = bash
    Blocks <- MCBlocks
    Main = Main
    Kind <- MCKind
    StreamOf <- MCStreamOf
    MaxIndex = 1
    Unruly = TRUE
    MaxLost = 1
    BufferCap = 3
    None = None
INVARIANTS SettledIsDone 
PROPERTIES ItemsStream InOrder
CHECK_DEADLOCK FALSE
