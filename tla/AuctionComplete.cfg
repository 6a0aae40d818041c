CONSTANTS
    Deadline = 3
    Horizon = 1
    MaxRetries = 2
    MaxTime = 4
    Reliable = TRUE
    Bids <- MCBids
    AuctionId = 1
    Capacity = 1
    MaxBids = 3
SPECIFICATION AuctionSpec
PROPERTIES SetCompleteOnceReturned
CHECK_DEADLOCK FALSE
