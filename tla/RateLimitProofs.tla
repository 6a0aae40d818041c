--------------------------- MODULE RateLimitProofs ---------------------------
(***************************************************************************)
(* Theorems about the rate limiter, for every length of the day, every set *)
(* of amounts, limits and timestamps, and every window.                    *)
(***************************************************************************)
EXTENDS RateLimitWindow, Lemmas

USE DEF Usage, FreshUsage, Fits, Rolls, Admits, Charged

-----------------------------------------------------------------------------

\* The variables keep their types and the counter stays within the limit and
\* behind the clock.
LEMMA RateInductive ==
    ASSUME RateTypeOK, UsageBounded, [RateNext]_rateVars
    PROVE  RateTypeOK' /\ UsageBounded'
<1> USE DEF RateTypeOK, UsageBounded
<1> USE RateLimitAssumption, DayAssumption
<1>1. ASSUME NEW newMin \in Limits, NEW newLimit \in Limits, Configure(newMin, newLimit)
      PROVE  RateTypeOK' /\ UsageBounded'
  BY <1>1 DEF Configure
<1>2. ASSUME NEW amount \in Amounts, Charge(amount)
      PROVE  RateTypeOK' /\ UsageBounded'
  <2>1. /\ Charged(usage, limit, amount, now) \in Usage
        /\ Charged(usage, limit, amount, now).consumed <= limit
        /\ Charged(usage, limit, amount, now).lastUpdated \in {usage.lastUpdated, now}
    BY <1>2, ChargedUsage DEF Charge
  <2> QED
    BY <1>2, <2>1 DEF Charge
<1>3. ASSUME Advance
      PROVE  RateTypeOK' /\ UsageBounded'
  BY <1>3 DEF Advance
<1>4. CASE UNCHANGED rateVars
  BY <1>4 DEF rateVars
<1> QED
  BY <1>1, <1>2, <1>3, <1>4 DEF RateNext

\* One step of the observed specification is one step of the rate limiter.
LEMMA WindowStepIsRateStep ==
    ASSUME [WindowNext]_windowVars
    PROVE  [RateNext]_rateVars
  BY DEF WindowNext, WindowConfigure, WindowCharge, WindowAdvance, RateNext,
         windowVars, rateVars

\* The window's account is inductive together with the counter's bounds.
LEMMA WindowInductive ==
    ASSUME WindowInv, [WindowNext]_windowVars
    PROVE  WindowInv'
<1>1. RateTypeOK' /\ UsageBounded'
  BY WindowStepIsRateStep, RateInductive DEF WindowInv
<1>2. windowStart' \in Times
  BY DEF WindowInv, WindowNext, WindowConfigure, WindowCharge, WindowAdvance, windowVars
<1>3. WindowAccount'
  <2> USE RateLimitAssumption, DayAssumption
  <2> USE DEF WindowInv, WindowAccount, WindowBound, RateTypeOK, UsageBounded
  <2>1. ASSUME NEW newMin \in Limits, NEW newLimit \in Limits,
               WindowConfigure(newMin, newLimit)
        PROVE  WindowAccount'
    BY <2>1, <1>1 DEF WindowConfigure, Configure
  <2>2. ASSUME NEW amount \in Amounts, WindowCharge(amount)
        PROVE  WindowAccount'
    <3>1. /\ usage' = Charged(usage, limit, amount, now)
          /\ now' = now /\ limit' = limit /\ windowStart' = windowStart
          /\ admitted' = IF InWindow THEN admitted + amount ELSE admitted
          /\ Admits(usage, minAmount, limit, amount, now)
          /\ amount \in Nat
      BY <2>2 DEF WindowCharge, Charge
    <3>2. admitted' \in Nat
      BY <3>1
    <3>3. CASE Fits(usage, limit, amount)
      <4>1. /\ usage'.consumed = usage.consumed + amount
            /\ usage'.lastUpdated = usage.lastUpdated
        BY <3>1, <3>3
      <4> QED
        BY <3>1, <3>2, <3>3, <4>1 DEF InWindow
    <3>4. CASE Rolls(usage, limit, amount, now)
      <4>1. /\ usage'.consumed = usage.consumed + amount - limit
            /\ usage'.lastUpdated = now
        BY <3>1, <3>4
      <4> QED
        BY <3>1, <3>2, <3>4, <4>1 DEF InWindow
    <3> QED
      BY <3>1, <3>3, <3>4
  <2>3. CASE WindowAdvance
    BY <2>3 DEF WindowAdvance, Advance
  <2>4. CASE UNCHANGED windowVars
    BY <2>4 DEF windowVars
  <2> QED
    BY <2>1, <2>2, <2>3, <2>4 DEF WindowNext
<1> QED
  BY <1>1, <1>2, <1>3 DEF WindowInv

LEMMA WindowInitial == WindowInit => WindowInv
  BY RateLimitAssumption, DayAssumption
  DEF WindowInit, RateInit, WindowInv, RateTypeOK, UsageBounded, WindowAccount, WindowBound

\* The inductive invariant, and with it the types and the bounds of the counter.
THEOREM WindowInvariance == WindowSpec => []WindowInv
<1>1. WindowInv /\ [WindowNext]_windowVars => WindowInv'
  BY WindowInductive
<1> QED
  BY WindowInitial, <1>1, PTL DEF WindowSpec

\* In any 24 hours at most twice the configured limit is admitted: the claim of
\* the comment in Bridge._checkInLimits.
THEOREM WindowSafety == WindowSpec => []WindowBound
<1>1. WindowInv => WindowBound
  BY RateLimitAssumption, DayAssumption
  DEF WindowInv, WindowAccount, WindowBound, UsageBounded, RateTypeOK
<1> QED
  BY WindowInvariance, <1>1, PTL

\* A day after the period began every amount the configuration allows is
\* admitted, so the counter alone never shuts a legal deposit out for good.
THEOREM DayAdmits == WindowSpec => []AdmitsAfterDay
<1>1. WindowInv => AdmitsAfterDay
  BY RateLimitAssumption, DayAssumption
  DEF WindowInv, AdmitsAfterDay, UsageBounded, RateTypeOK
<1> QED
  BY WindowInvariance, <1>1, PTL

\* In every reachable state a split charge equals the whole one.
THEOREM SplitSafety == WindowSpec => []SplitInvariance
<1>1. WindowInv => SplitInvariance
  <2> SUFFICES ASSUME WindowInv, NEW a \in Amounts, NEW b \in Amounts,
                      a >= minAmount, b >= minAmount
               PROVE  /\ Admits(usage, minAmount, limit, a + b, now) <=>
                           /\ Admits(usage, minAmount, limit, a, now)
                           /\ Admits(Charged(usage, limit, a, now), minAmount, limit, b, now)
                      /\ Admits(usage, minAmount, limit, a + b, now) =>
                           Charged(usage, limit, a + b, now)
                             = Charged(Charged(usage, limit, a, now), limit, b, now)
    BY DEF SplitInvariance
  <2>1. /\ usage \in Usage /\ minAmount \in Nat /\ limit \in Nat
        /\ now \in Nat /\ a \in Nat /\ b \in Nat
    BY RateLimitAssumption DEF WindowInv, RateTypeOK
  <2> HIDE DEF Usage, FreshUsage, Fits, Rolls, Admits, Charged
  <2>2. Admits(usage, minAmount, limit, a + b, now) <=>
          (Admits(usage, minAmount, limit, a, now)
             /\ Admits(Charged(usage, limit, a, now), minAmount, limit, b, now))
    BY <2>1, ChargeSplit
  <2>3. Admits(usage, minAmount, limit, a + b, now) =>
          Charged(usage, limit, a + b, now)
            = Charged(Charged(usage, limit, a, now), limit, b, now)
    BY <2>1, ChargeSplit
  <2> QED
    BY <2>2, <2>3
<1> QED
  BY WindowInvariance, <1>1, PTL
=============================================================================
