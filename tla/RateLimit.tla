------------------------------ MODULE RateLimit ------------------------------
(***************************************************************************)
(* One rate-limited flow of one token (its deposits, or its claims): what  *)
(* Bridge.sol promises about a TokenUsage counter, whoever charges it.     *)
(* Bridge.tla is checked to implement this specification for each token    *)
(* and each direction; a batch that charges several amounts in one         *)
(* transaction implements one Charge of their sum (SplitInvariance).       *)
(***************************************************************************)
EXTENDS TokenUsage

CONSTANTS
    Amounts,     \* amounts a caller may present
    Limits,      \* limits and minimum amounts the admin may configure
    Times        \* block timestamps

ASSUME RateLimitAssumption ==
    /\ Amounts \subseteq Nat
    /\ Limits \subseteq Nat
    /\ Times \subseteq Nat

VARIABLES
    now,         \* block.timestamp
    minAmount,   \* tokenData[token].minAmount, 0 while the token is unknown
    limit,       \* tokenData[token].depositLimit (or claimLimit)
    usage        \* tokenData[token].depositUsage (or claimUsage)

rateVars == <<now, minAmount, limit, usage>>

RateInit ==
    /\ now \in Times
    /\ minAmount = 0
    /\ limit = 0
    /\ usage = FreshUsage(0)

\* whiteListToken and configureToken: a new configuration starts a new period.
Configure(newMin, newLimit) ==
    /\ newMin # 0
    /\ minAmount' = newMin
    /\ limit' = newLimit
    /\ usage' = FreshUsage(now)
    /\ UNCHANGED now

\* A deposit or a claim of the given amount.
Charge(amount) ==
    /\ Admits(usage, minAmount, limit, amount, now)
    /\ usage' = Charged(usage, limit, amount, now)
    /\ UNCHANGED <<now, minAmount, limit>>

\* Blocks carry increasing timestamps; how far they jump is not up to the code.
Advance ==
    /\ \E time \in Times : time > now /\ now' = time
    /\ UNCHANGED <<minAmount, limit, usage>>

RateNext ==
    \/ \E newMin, newLimit \in Limits : Configure(newMin, newLimit)
    \/ \E amount \in Amounts : Charge(amount)
    \/ Advance

RateSpec == RateInit /\ [][RateNext]_rateVars

-----------------------------------------------------------------------------

RateTypeOK ==
    /\ now \in Times
    /\ minAmount \in Limits \cup {0}
    /\ limit \in Limits \cup {0}
    /\ usage \in Usage

\* The counter never exceeds the limit it is charged against and never runs
\* ahead of the clock, in particular not after the admin lowers the limit.
UsageBounded ==
    /\ usage.consumed <= limit
    /\ usage.lastUpdated <= now

\* A day after the period began, any amount the configuration allows is
\* admitted, however much was consumed before: nobody can keep the counter in a
\* state that turns a legal deposit away for good.
AdmitsAfterDay ==
    \A amount \in Amounts :
        (minAmount # 0 /\ minAmount <= amount /\ amount <= limit /\ now >= usage.lastUpdated + Day)
            => Admits(usage, minAmount, limit, amount, now)

\* Splitting an amount into two charges in one block neither gains nor loses
\* capacity: the pair is admitted exactly when the sum is, with the same usage
\* afterwards (_checkInLimits, called per item by batchDeposit and batchClaim).
SplitInvariance ==
    \A a, b \in Amounts :
        (a >= minAmount /\ b >= minAmount) =>
            LET first == Charged(usage, limit, a, now)
            IN  /\ Admits(usage, minAmount, limit, a + b, now) <=>
                     /\ Admits(usage, minAmount, limit, a, now)
                     /\ Admits(first, minAmount, limit, b, now)
                /\ Admits(usage, minAmount, limit, a + b, now) =>
                     Charged(usage, limit, a + b, now) = Charged(first, limit, b, now)
=============================================================================
