--------------------------- MODULE RateLimitWindow ---------------------------
(***************************************************************************)
(* RateLimit with a history: an observer picks any 24 h window and counts  *)
(* what is admitted inside it since the token was last configured.  The    *)
(* comment in Bridge._checkInLimits says the configured limit is half the  *)
(* desired one "to handle boundary conditions"; WindowBound is that claim. *)
(***************************************************************************)
EXTENDS RateLimit

VARIABLES
    windowStart,   \* the window is [windowStart, windowStart + Day)
    admitted       \* total admitted in it since the last Configure

windowVars == <<now, minAmount, limit, usage, windowStart, admitted>>

InWindow == windowStart <= now /\ now < windowStart + Day

WindowInit == RateInit /\ windowStart \in Times /\ admitted = 0

WindowConfigure(newMin, newLimit) ==
    /\ Configure(newMin, newLimit)
    /\ admitted' = 0
    /\ UNCHANGED windowStart

WindowCharge(amount) ==
    /\ Charge(amount)
    /\ admitted' = IF InWindow THEN admitted + amount ELSE admitted
    /\ UNCHANGED windowStart

WindowAdvance == Advance /\ UNCHANGED <<windowStart, admitted>>

WindowNext ==
    \/ \E newMin, newLimit \in Limits : WindowConfigure(newMin, newLimit)
    \/ \E amount \in Amounts : WindowCharge(amount)
    \/ WindowAdvance

WindowSpec == WindowInit /\ [][WindowNext]_windowVars

-----------------------------------------------------------------------------

\* In no 24 hours is more than twice the configured limit admitted, wherever
\* the 24 hours lie with respect to the periods of the counter.
WindowBound == admitted <= 2 * limit

\* Why: what was admitted before the last reset is bounded by what was left of
\* the earlier period, and what came after it is in the counter.
WindowAccount ==
    /\ admitted \in Nat
    /\ now < windowStart => admitted = 0
    /\ usage.lastUpdated < windowStart => admitted <= usage.consumed
    /\ (windowStart <= usage.lastUpdated /\ usage.lastUpdated < windowStart + Day)
           => admitted <= limit + usage.consumed
    /\ windowStart + Day <= usage.lastUpdated => WindowBound

WindowInv == RateTypeOK /\ windowStart \in Times /\ UsageBounded /\ WindowAccount
=============================================================================
