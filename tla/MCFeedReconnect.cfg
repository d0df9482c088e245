SPECIFICATION Spec
CONSTANTS
    here = here
    there = there
    Project <- Both
    Scope <- Both
    View <- OneFeed
    Writer = {w1}
    Screen = {a}
    PageSize = 3
    InitialCursor = 0
    MaxSeq = 3
    MaxFaults = 1
INVARIANT OpenFeedIsBackfilled
