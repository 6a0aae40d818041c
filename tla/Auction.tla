------------------------------ MODULE Auction ------------------------------
(***************************************************************************)
(* The watcher of an optimistic auction (examples/auction): its tasks      *)
(* follow the bids through a subscription and a channel until the wait for *)
(* the deadline returns, the wait of AuctionClient::wait_for_auction_end.  *)
(* fetch_bids and fetch_bids_for_deadline only query the log: OfAuction    *)
(* and OfDeadline, whenever a caller asks.                                 *)
(*                                                                         *)
(* A bid is [tx, auction, deadline, value].  The auction precompile is not *)
(* in this repository: it accepts bids of a deadline that has not passed,  *)
(* and past perfection of the deadline means that none will follow.        *)
(***************************************************************************)
EXTENDS PastPerfectTime, Sequences, FiniteSets, SequencesExt

CONSTANTS
    Bids,           \* what bidders may bid
    AuctionId,      \* the auction watched
    Capacity,       \* of the channel between the tasks
    MaxBids         \* bound: bids accepted

\* Each bid is the only one of its transaction.
ASSUME AuctionAssumption ==
    /\ \A bid \in Bids : bid.deadline \in Nat /\ bid.value \in Nat
    /\ \A a, b \in Bids : a.tx = b.tx => a = b

VARIABLES
    log,          \* the bids the node has accepted, in the order of their events
    delivered,    \* how many bids the subscription of the watcher has delivered
    channel,      \* bids on their way to the main task
    processed,    \* processed_txs
    highest,      \* highest_bid
    announced     \* the main loop has ended

watchVars   == <<delivered, channel, processed, highest, announced>>
auctionVars == <<waitVars, log, watchVars>>

AuctionInit ==
    /\ WaitInit
    /\ log = <<>> /\ delivered = 0 /\ channel = <<>>
    /\ processed = {} /\ highest = 0 /\ announced = FALSE

SubmitBid(bid) ==
    /\ Len(log) < MaxBids
    /\ bid.deadline > ppt
    /\ bid \notin Range(log)
    /\ log' = Append(log, bid)
    /\ UNCHANGED <<waitVars, watchVars>>

\* The loop of the provider, under the deadline task and wait_for_auction_end.
Wait == WaitNext /\ UNCHANGED <<log, watchVars>>

-----------------------------------------------------------------------------
OfAuction(bids)  == {bid \in Range(bids) : bid.auction = AuctionId}
OfDeadline(bids) == {bid \in Range(bids) : bid.deadline = Deadline}

\* The log task: the next bid of the auction goes into the channel, if there is room.
Deliver ==
    /\ ~announced
    /\ Len(channel) < Capacity
    /\ delivered < Len(log)
    /\ delivered' = delivered + 1
    /\ channel' = IF log[delivered + 1].auction = AuctionId
                  THEN Append(channel, log[delivered + 1]) ELSE channel
    /\ UNCHANGED <<waitVars, log, processed, highest, announced>>

\* A node may deliver an event again, as often as it likes.
DeliverAgain(i) ==
    /\ ~announced
    /\ Len(channel) < Capacity
    /\ log[i].auction = AuctionId
    /\ channel' = Append(channel, log[i])
    /\ UNCHANGED <<waitVars, log, delivered, processed, highest, announced>>

\* Mutant of HigherOf: the latest bid wins.
HigherOfLatest(bid, value) == bid.value

HigherOf(bid, value) == IF bid.value > value THEN bid.value ELSE value

\* The main task takes a bid; of a transaction it has seen, it takes no further bid.
ReceiveBid ==
    /\ ~announced
    /\ channel # <<>>
    /\ channel' = Tail(channel)
    /\ processed' = processed \cup {Head(channel).tx}
    /\ highest' = IF Head(channel).tx \in processed THEN highest ELSE HigherOf(Head(channel), highest)
    /\ UNCHANGED <<waitVars, log, delivered, announced>>

\* Mutant of DeadlineReached: a biased select!, which takes bids first.
DeadlineReachedBiased ==
    /\ ~announced
    /\ Returned /\ channel = <<>>
    /\ announced' = TRUE
    /\ UNCHANGED <<waitVars, log, delivered, channel, processed, highest>>

\* The other branch of select!: the deadline task has returned, whatever is still in
\* the channel.
DeadlineReached ==
    /\ ~announced
    /\ Returned
    /\ announced' = TRUE
    /\ UNCHANGED <<waitVars, log, delivered, channel, processed, highest>>

AuctionNext ==
    \/ \E bid \in Bids : SubmitBid(bid)
    \/ Wait
    \/ Deliver \/ (\E i \in 1..delivered : DeliverAgain(i))
    \/ ReceiveBid \/ DeadlineReached

\* The tasks are scheduled by tokio; select! picks a ready branch at random, so that a
\* branch that stays ready is taken in the end.
AuctionSpec ==
    /\ AuctionInit /\ [][AuctionNext]_auctionVars /\ WaitFairness
    /\ WF_auctionVars(Deliver) /\ WF_auctionVars(ReceiveBid) /\ WF_auctionVars(DeadlineReached)

-----------------------------------------------------------------------------
\* The highest bid the watcher holds is the highest of those it has received: of the
\* auction's bids only some that are still on their way, undelivered or in the
\* channel, can be higher, in whatever order they arrive and however often.
WatchMisses ==
    OfAuction(SubSeq(log, delivered + 1, Len(log))) \cup Range(channel)

HighestSoFar ==
    /\ \A bid \in OfAuction(log) : bid.value > highest => bid \in WatchMisses
    /\ highest > 0 => \E bid \in OfAuction(log) : bid.value = highest

\* The watcher stops in the end, also when bids never stop coming through the channel.
WatchEnds == <>announced

\* "Once it returns, the bid set is complete" (optimistic-auction.md:72).
SetCompleteOnceReturned ==
    [][Returned => OfDeadline(log') = OfDeadline(log)]_auctionVars
=============================================================================
