CONSTANTS
    Deadline = 3
    Horizon = 1
    MaxRetries = 2
    MaxTime = 4
    Reliable = FALSE
    Bids <- MCBids
    AuctionId = 1
    Capacity = 1
    MaxBids = 3
SPECIFICATION AuctionSpec
INVARIANTS
    HighestSoFar
PROPERTIES
    WatchEnds
CHECK_DEADLOCK FALSE
