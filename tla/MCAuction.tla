----------------------------- MODULE MCAuction -----------------------------
(***************************************************************************)
(* Two auctions and two deadlines; three bids compete.                     *)
(***************************************************************************)
EXTENDS Auction

Bid(tx, auction, deadline, value) ==
    [tx |-> tx, auction |-> auction, deadline |-> deadline, value |-> value]

MCBids == {Bid("t1", 1, 3, 2), Bid("t2", 1, 3, 3), Bid("t3", 2, 3, 4), Bid("t4", 1, 4, 1)}
=============================================================================
