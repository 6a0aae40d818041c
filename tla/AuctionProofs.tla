--------------------------- MODULE AuctionProofs ---------------------------
(***************************************************************************)
(* What the watcher of an auction can rely on, for every deadline, set of  *)
(* bids, capacity of the channel and number of retries.                    *)
(***************************************************************************)
EXTENDS Auction, TLAPS

LEMMA AppendRange ==
    ASSUME NEW S, NEW s \in Seq(S), NEW e \in S
    PROVE  Range(Append(s, e)) = Range(s) \cup {e}
<1>1. /\ DOMAIN Append(s, e) = DOMAIN s \cup {Len(s) + 1}
      /\ \A i \in DOMAIN s : Append(s, e)[i] = s[i]
      /\ Append(s, e)[Len(s) + 1] = e
  OBVIOUS
<1> QED
  BY <1>1, Zenon DEF Range

\* Undelivered bids of the auction, and those in the channel.
Undelivered == {bid \in {log[i] : i \in delivered + 1 .. Len(log)} : bid.auction = AuctionId}

\* A transaction once processed never has a higher bid than the one held.
WatchInv ==
    /\ log \in Seq(Bids) /\ channel \in Seq(Bids)
    /\ delivered \in 0 .. Len(log) /\ highest \in Nat
    /\ Range(channel) \subseteq OfAuction(log)
    /\ processed \subseteq {bid.tx : bid \in Range(log)}
    /\ \A bid \in OfAuction(log) : bid.tx \in processed => bid.value <= highest
    /\ \A bid \in OfAuction(log) : bid.value > highest => bid \in Undelivered \cup Range(channel)
    /\ highest > 0 => \E bid \in OfAuction(log) : bid.value = highest

LEMMA SuffixRange ==
    ASSUME NEW S, NEW s \in Seq(S), NEW n \in 0 .. Len(s)
    PROVE  Range(SubSeq(s, n + 1, Len(s))) = {s[i] : i \in n + 1 .. Len(s)}
<1> DEFINE t == SubSeq(s, n + 1, Len(s))
<1>1. DOMAIN t = 1 .. Len(s) - n /\ \A i \in 1 .. Len(s) - n : t[i] = s[n + i]
  OBVIOUS
<1>2. ASSUME NEW i \in n + 1 .. Len(s)
      PROVE  i - n \in 1 .. Len(s) - n /\ s[i] = t[i - n]
  <2>1. i - n \in 1 .. Len(s) - n /\ n + (i - n) = i
    OBVIOUS
  <2> HIDE DEF t
  <2> QED  BY <1>1, <2>1
<1>3. \A i \in 1 .. Len(s) - n : n + i \in n + 1 .. Len(s)
  OBVIOUS
<1> HIDE DEF t
<1>4. Range(t) = {s[i] : i \in n + 1 .. Len(s)}
  <2>1. \A i \in DOMAIN t : t[i] \in {s[j] : j \in n + 1 .. Len(s)}
    BY <1>1, <1>3
  <2>2. \A i \in n + 1 .. Len(s) : i - n \in DOMAIN t /\ s[i] = t[i - n]
    BY <1>1, <1>2
  <2> QED  BY <2>1, <2>2, Zenon DEF Range
<1> QED
  BY <1>4 DEF t

\* The first of a channel and what is behind it.
LEMMA HeadTailRange ==
    ASSUME NEW S, NEW s \in Seq(S), s # <<>>
    PROVE  /\ Head(s) \in S /\ Tail(s) \in Seq(S)
           /\ Range(s) = {Head(s)} \cup Range(Tail(s))
<1>1. /\ DOMAIN Tail(s) = 1 .. Len(s) - 1 /\ Len(s) \in Nat /\ Len(s) >= 1
      /\ DOMAIN s = 1 .. Len(s) /\ Head(s) = s[1]
      /\ \A i \in 1 .. Len(s) - 1 : Tail(s)[i] = s[i + 1]
  OBVIOUS
<1>2. ASSUME NEW i \in 1 .. Len(s), i # 1
      PROVE  i - 1 \in 1 .. Len(s) - 1 /\ s[i] = Tail(s)[i - 1]
  <2>1. i - 1 \in 1 .. Len(s) - 1 /\ (i - 1) + 1 = i
    BY <1>1, <1>2
  <2> QED  BY <1>1, <2>1
<1>3. 1 \in 1 .. Len(s) /\ \A i \in 1 .. Len(s) - 1 : i + 1 \in 1 .. Len(s)
  BY <1>1
<1>4. Range(s) = {Head(s)} \cup Range(Tail(s))
  <2> DEFINE tail == Tail(s)
  <2>1. \A i \in DOMAIN tail : i + 1 \in DOMAIN s /\ tail[i] = s[i + 1]
    BY <1>1, <1>3
  <2>2. \A i \in DOMAIN s : s[i] = Head(s) \/ (i - 1 \in DOMAIN tail /\ s[i] = tail[i - 1])
    BY <1>1, <1>2
  <2>3. 1 \in DOMAIN s /\ Head(s) = s[1]
    BY <1>1, <1>3
  <2> HIDE DEF tail
  <2>4. ASSUME NEW e \in Range(s)
        PROVE  e = Head(s) \/ e \in Range(tail)
    BY <2>2 DEF Range
  <2>5. ASSUME NEW e \in Range(tail)
        PROVE  e \in Range(s)
    BY <2>1 DEF Range
  <2>6. Head(s) \in Range(s)
    BY <2>3 DEF Range
  <2>7. Range(s) = {Head(s)} \cup Range(tail)
    BY <2>4, <2>5, <2>6
  <2> QED  BY <2>7 DEF tail
<1> QED
  BY <1>4

\* A new bid is undelivered, and nobody has processed its transaction.
LEMMA SubmitKeepsWatch ==
    ASSUME WatchInv, NEW bid \in Bids, SubmitBid(bid)
    PROVE  WatchInv'
<1>1. /\ log' = Append(log, bid) /\ bid \notin Range(log)
      /\ UNCHANGED <<channel, delivered, highest, processed>>
  BY DEF SubmitBid, watchVars
<1>2. /\ Range(log') = Range(log) \cup {bid} /\ log' \in Seq(Bids)
      /\ Range(log) \subseteq Bids
  BY <1>1, AppendRange DEF WatchInv, Range
<1>3. /\ Len(log') = Len(log) + 1 /\ Len(log) \in Nat /\ log'[Len(log) + 1] = bid
      /\ \A i \in 1 .. Len(log) : log'[i] = log[i]
  BY <1>1 DEF WatchInv
<1>4. /\ delivered \in 0 .. Len(log) /\ delivered' = delivered
  BY <1>1 DEF WatchInv
<1>5. \A i \in delivered + 1 .. Len(log) : i \in 1 .. Len(log) /\ i \in delivered + 1 .. Len(log')
  BY <1>3, <1>4
<1>6. Len(log) + 1 \in delivered + 1 .. Len(log')
  BY <1>3, <1>4
<1>7. /\ Undelivered \subseteq Undelivered'
      /\ bid.auction = AuctionId => bid \in Undelivered'
  BY <1>3, <1>4, <1>5, <1>6 DEF Undelivered
<1>8. bid.tx \notin processed
  BY <1>1, <1>2, AuctionAssumption DEF WatchInv
<1>9. /\ OfAuction(log) \subseteq OfAuction(log')
      /\ OfAuction(log') \subseteq OfAuction(log) \cup {bid}
      /\ bid \in OfAuction(log') => bid.auction = AuctionId
  BY <1>2 DEF OfAuction
<1>10. delivered' \in 0 .. Len(log')
  BY <1>3, <1>4
<1> QED
  BY <1>1, <1>2, <1>7, <1>8, <1>9, <1>10 DEF WatchInv

\* What is delivered goes into the channel, if it is of the auction.
LEMMA DeliverKeepsWatch ==
    ASSUME WatchInv, Deliver
    PROVE  WatchInv'
<1> DEFINE next == log[delivered + 1]
<1>1. /\ delivered < Len(log) /\ delivered' = delivered + 1
      /\ channel' = IF next.auction = AuctionId THEN Append(channel, next) ELSE channel
      /\ UNCHANGED <<log, highest, processed>>
  BY DEF Deliver
<1>2. /\ delivered \in Nat /\ Len(log) \in Nat /\ DOMAIN log = 1 .. Len(log)
      /\ \A i \in DOMAIN log : log[i] \in Bids
  BY DEF WatchInv
<1>3. delivered + 1 \in DOMAIN log /\ delivered' \in 0 .. Len(log')
  BY <1>1, <1>2
<1>4. next \in Bids /\ next \in Range(log)
  BY <1>2, <1>3 DEF Range
<1>5. \A i \in delivered + 1 .. Len(log) : i = delivered + 1 \/ i \in delivered' + 1 .. Len(log')
  BY <1>1, <1>2
<1>6. Undelivered \subseteq Undelivered' \cup {bid \in {next} : bid.auction = AuctionId}
  BY <1>1, <1>5 DEF Undelivered
<1> HIDE DEF next
<1>7. /\ channel' \in Seq(Bids)
      /\ IF next.auction = AuctionId THEN Range(channel') = Range(channel) \cup {next}
                                     ELSE Range(channel') = Range(channel)
  <2>1. channel \in Seq(Bids)
    BY DEF WatchInv
  <2>2. /\ Range(Append(channel, next)) = Range(channel) \cup {next}
        /\ Append(channel, next) \in Seq(Bids)
    BY <1>4, <2>1, AppendRange
  <2> QED  BY <1>1, <2>1, <2>2
<1>8. next.auction = AuctionId => next \in OfAuction(log)
  BY <1>4 DEF OfAuction
<1>9. OfAuction(log') = OfAuction(log) /\ Range(log') = Range(log)
  BY <1>1
<1> QED
  BY <1>1, <1>3, <1>6, <1>7, <1>8, <1>9 DEF WatchInv

LEMMA DeliverAgainKeepsWatch ==
    ASSUME WatchInv, NEW i \in 1 .. delivered, DeliverAgain(i)
    PROVE  WatchInv'
<1>1. /\ channel' = Append(channel, log[i]) /\ log[i].auction = AuctionId
      /\ UNCHANGED <<log, delivered, highest, processed>>
  BY DEF DeliverAgain
<1>2. i \in DOMAIN log /\ log[i] \in Bids
  BY DEF WatchInv
<1>3. channel' \in Seq(Bids) /\ Range(channel') = Range(channel) \cup {log[i]}
  BY <1>1, <1>2, AppendRange DEF WatchInv
<1>4. log[i] \in OfAuction(log)
  BY <1>1, <1>2 DEF OfAuction, Range
<1>5. OfAuction(log') = OfAuction(log) /\ Range(log') = Range(log) /\ Undelivered' = Undelivered
  BY <1>1 DEF Undelivered
<1> QED
  BY <1>1, <1>3, <1>4, <1>5 DEF WatchInv

\* A bid taken from the channel is no higher than what is held then.
LEMMA ReceiveKeepsWatch ==
    ASSUME WatchInv, ReceiveBid
    PROVE  WatchInv'
<1> DEFINE bid == Head(channel)
<1>1. /\ channel # <<>> /\ channel' = Tail(channel) /\ processed' = processed \cup {bid.tx}
      /\ highest' = IF bid.tx \in processed THEN highest ELSE HigherOf(bid, highest)
      /\ UNCHANGED <<log, delivered>>
  BY DEF ReceiveBid
<1>2. bid \in Bids /\ channel' \in Seq(Bids) /\ Range(channel) = {bid} \cup Range(channel')
  BY <1>1, HeadTailRange DEF WatchInv
<1> HIDE DEF bid
<1>3. bid \in OfAuction(log) /\ Range(channel') \subseteq OfAuction(log)
  BY <1>2 DEF WatchInv
<1>4. bid \in Range(log) /\ OfAuction(log) \subseteq Bids
  BY <1>3 DEF OfAuction, WatchInv, Range
<1>5. /\ highest' \in Nat /\ highest \in Nat /\ highest' >= highest /\ bid.value \in Nat
      /\ bid.value <= highest' /\ highest' \in {highest, bid.value}
  BY <1>1, <1>2, <1>3, AuctionAssumption DEF WatchInv, HigherOf
<1>6. OfAuction(log') = OfAuction(log) /\ Range(log') = Range(log) /\ Undelivered' = Undelivered
  BY <1>1 DEF Undelivered
<1>7. \A b \in OfAuction(log) : b.tx = bid.tx => b = bid
  BY <1>2, <1>4, AuctionAssumption
<1>8. \A b \in OfAuction(log) : b.value \in Nat
  BY <1>4, AuctionAssumption
<1>9. \A b \in OfAuction(log) : b.tx \in processed' => b.value <= highest'
  BY <1>1, <1>5, <1>7, <1>8 DEF WatchInv
<1>10. \A b \in OfAuction(log) : b.value > highest' => b \in Undelivered \cup Range(channel')
  BY <1>2, <1>5, <1>8 DEF WatchInv
<1>11. highest' > 0 => \E b \in OfAuction(log) : b.value = highest'
  BY <1>3, <1>5 DEF WatchInv
<1>12. processed' \subseteq {b.tx : b \in Range(log)}
  BY <1>1, <1>4 DEF WatchInv
<1> QED
  BY <1>1, <1>2, <1>3, <1>5, <1>6, <1>9, <1>10, <1>11, <1>12 DEF WatchInv

\* The watcher holds the highest of the bids it has received, for every order and repetition
\* of deliveries, every capacity of the channel and whenever it stops.
THEOREM HighestSoFarSafety == AuctionSpec => []HighestSoFar
<1>1. AuctionInit => WatchInv
  BY DEF AuctionInit, WatchInv, OfAuction, Range
<1>2. WatchInv /\ [AuctionNext]_auctionVars => WatchInv'
  <2> SUFFICES ASSUME WatchInv, [AuctionNext]_auctionVars
               PROVE  WatchInv'
    OBVIOUS
  <2>1. CASE UNCHANGED <<log, delivered, channel, processed, highest>>
    BY <2>1 DEF WatchInv, OfAuction, Undelivered
  <2>2. CASE Wait \/ DeadlineReached \/ UNCHANGED auctionVars
    BY <2>1, <2>2 DEF Wait, DeadlineReached, auctionVars, watchVars
  <2> QED
    BY <2>2, SubmitKeepsWatch, DeliverKeepsWatch, DeliverAgainKeepsWatch, ReceiveKeepsWatch
    DEF AuctionNext
<1>3. WatchInv => HighestSoFar
  <2> SUFFICES ASSUME WatchInv
               PROVE  HighestSoFar
    OBVIOUS
  <2>1. log \in Seq(Bids) /\ delivered \in 0 .. Len(log)
    BY DEF WatchInv
  <2>2. OfAuction(SubSeq(log, delivered + 1, Len(log))) = Undelivered
    BY <2>1, SuffixRange, Zenon DEF OfAuction, Undelivered
  <2> QED
    BY <2>2 DEF WatchInv, HighestSoFar, WatchMisses
<1> QED
  BY <1>1, <1>2, <1>3, PTL DEF AuctionSpec
=============================================================================
