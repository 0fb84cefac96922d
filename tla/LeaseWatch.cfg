SPECIFICATION FairSpec
CONSTANTS
    Prefix = {p1, p2}
    Capacity = 2
    MaxWrites = 3
    None = None
CHECK_DEADLOCK FALSE
INVARIANT TypeOK
INVARIANT FreshTail
INVARIANT HangNeedsWrites
PROPERTY Converges
PROPERTY WatcherStops
