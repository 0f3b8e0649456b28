SPECIFICATION Spec
CONSTANTS
    Ids = {1, 2, 3}
    Times = {1, 2}
    Calls = {c1, c2}
    Hydrator = Hydrator
    Pagers = {p1}
    Limit = 1
    Scanned = {1, 2}
    MaxCrashes = 1
SYMMETRY Symmetry
INVARIANTS  PagesExact
 
CHECK_DEADLOCK FALSE
