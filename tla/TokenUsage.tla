----------------------------- MODULE TokenUsage -----------------------------
(***************************************************************************)
(* The daily rate limiter of protocol/src/Bridge.sol: the TokenUsage       *)
(* struct and _checkInLimits, as operators on one usage record.  A charge  *)
(* either fits in what is left of the current period, or, at least Day     *)
(* after the period began, fills it up and carries the excess into a new   *)
(* period that begins now.                                                 *)
(***************************************************************************)
EXTENDS Integers

CONSTANT Day          \* `1 days`, in the model's unit of time

ASSUME DayAssumption == Day \in Nat \ {0}

\* The usage counters and the limits they are charged against are uint256;
\* the checked addition that would overflow them is out of the model's range.
Usage == [consumed : Nat, lastUpdated : Nat]

FreshUsage(time) == [consumed |-> 0, lastUpdated |-> time]

Fits(usage, limit, amount) == usage.consumed + amount <= limit

\* Mutants of Rolls: the excess is not limited; the day ends one unit late; an excess
\* equal to the limit is turned away.
RollsUnlimited(usage, limit, amount, time) ==
    ~ Fits(usage, limit, amount) /\ time >= usage.lastUpdated + Day

RollsLate(usage, limit, amount, time) ==
    /\ ~ Fits(usage, limit, amount)
    /\ time > usage.lastUpdated + Day
    /\ usage.consumed + amount - limit <= limit

RollsBelow(usage, limit, amount, time) ==
    /\ ~ Fits(usage, limit, amount)
    /\ time >= usage.lastUpdated + Day
    /\ usage.consumed + amount - limit < limit

\* The day is over, and what exceeds the old period's limit fits into a new one.
Rolls(usage, limit, amount, time) ==
    /\ ~ Fits(usage, limit, amount)
    /\ time >= usage.lastUpdated + Day
    /\ usage.consumed + amount - limit <= limit

\* _checkInLimits does not revert.
Admits(usage, minAmount, limit, amount, time) ==
    /\ minAmount # 0
    /\ amount >= minAmount
    /\ Fits(usage, limit, amount) \/ Rolls(usage, limit, amount, time)

\* Mutants of Charged: a new period does not note when it began; it is charged the whole
\* amount, though the old one had room for some of it.
ChargedUndated(usage, limit, amount, time) ==
    IF Fits(usage, limit, amount)
    THEN [usage EXCEPT !.consumed = @ + amount]
    ELSE [usage EXCEPT !.consumed = @ + amount - limit]

ChargedWhole(usage, limit, amount, time) ==
    IF Fits(usage, limit, amount)
    THEN [usage EXCEPT !.consumed = @ + amount]
    ELSE [consumed |-> amount, lastUpdated |-> time]

\* The usage _checkInLimits leaves when it does not revert.
Charged(usage, limit, amount, time) ==
    IF Fits(usage, limit, amount)
    THEN [usage EXCEPT !.consumed = @ + amount]
    ELSE [consumed |-> usage.consumed + amount - limit, lastUpdated |-> time]
=============================================================================
