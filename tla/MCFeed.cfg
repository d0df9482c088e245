SPECIFICATION FairSpec
CONSTANTS
    here = here
    there = there
    Project <- Both
    Scope = {here}
    View <- OneFeed
    Writer = {w1, w2}
    Screen = {a}
    PageSize = 1
    InitialCursor = 1
    MaxSeq = 3
    MaxFaults = 1
INVARIANTS
    TypeOK
    OnlyCommittedIsHeld
    NewsIsReported
PROPERTIES
    CursorIsHighWater
    ShownIsAcknowledged
