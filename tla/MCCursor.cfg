SPECIFICATION FairSpec
CONSTANTS
    row1 = row1
    row2 = row2
    row3 = row3
    NoCursor = NoCursor
    Rows = {row1, row2, row3}
    Width = 3
    Contents <- ThreeColumns
    PageSize = 1
CHECK_DEADLOCK FALSE
INVARIANTS
    WalkInv
    CursorIsExact
    NeverTwice
    NoneMissed
    TotalIsServed
PROPERTIES
    ScanSpec
    WalkEnds
