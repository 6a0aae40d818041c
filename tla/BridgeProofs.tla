---------------------------- MODULE BridgeProofs ----------------------------
(***************************************************************************)
(* Theorems about the bridge contract for every set of validators, tokens, *)
(* accounts and arguments.                                                 *)
(***************************************************************************)
EXTENDS Bridge, Lemmas

\* Removing a subset of a finite set and adding elements it does not hold
\* afterwards changes its cardinality by exactly the two sizes.
LEMMA ReplacedCardinality ==
    ASSUME NEW S, NEW A, NEW R, IsFiniteSet(S), IsFiniteSet(A), IsFiniteSet(R),
           R \subseteq S, A \cap (S \ R) = {}
    PROVE  /\ IsFiniteSet((S \ R) \cup A)
           /\ Cardinality((S \ R) \cup A) = Cardinality(S) + Cardinality(A) - Cardinality(R)
<1>1. S \cap R = R
  OBVIOUS
<1>2. /\ IsFiniteSet(S \ R)
      /\ Cardinality(S \ R) = Cardinality(S) - Cardinality(R)
  BY <1>1, FS_Difference
<1>3. /\ Cardinality(S) \in Nat /\ Cardinality(A) \in Nat /\ Cardinality(R) \in Nat
      /\ Cardinality(S \ R) \in Nat
  BY <1>2, FS_CardinalityType
<1>4. (S \ R) \cap A = {}
  OBVIOUS
<1>5. /\ IsFiniteSet((S \ R) \cup A)
      /\ Cardinality((S \ R) \cup A)
           = Cardinality(S \ R) + Cardinality(A) - Cardinality((S \ R) \cap A)
  BY <1>2, FS_Union
<1>6. Cardinality((S \ R) \cap A) = 0
  BY <1>4, FS_EmptySet
<1> DEFINE s == Cardinality(S)  a == Cardinality(A)  r == Cardinality(R)
           rest == Cardinality(S \ R)  both == Cardinality((S \ R) \cap A)
           all == Cardinality((S \ R) \cup A)
<1>7. /\ s \in Nat /\ a \in Nat /\ r \in Nat
      /\ rest = s - r /\ both = 0 /\ all = rest + a - both
  BY <1>2, <1>3, <1>5, <1>6
<1>8. all = s + a - r
  <2> HIDE DEF s, a, r, rest, both, all
  <2> QED
    BY <1>7
<1> QED
  BY <1>5, <1>8

-----------------------------------------------------------------------------
\* validatorCount is the number of active validators.

\* The count is exact when the bridge is deployed.
LEMMA ValidatorCountInitial == BridgeInit => ValidatorCountExact
  BY BridgeAssumption DEF BridgeInit, ValidatorCountExact

\* What a deposit, direct or in a batch, leaves alone.
LEMMA DepositedKeeps ==
    ASSUME NEW t, NEW ds, NEW permits, NEW callContract, NEW reserveBalance,
           Deposited(t, ds, permits, callContract, reserveBalance)
    PROVE  UNCHANGED <<configVars, stateVars, processedRequests, paid>>
BY DEF Deposited

\* The same of every call that deposits.
LEMMA DepositCallsKeep ==
    ASSUME DepositCalls
    PROVE  UNCHANGED <<configVars, stateVars, processedRequests, paid>>
<1>1. CASE DirectDepositCalls
  <2>1. PICK sender, t, amount, reserveBalance, callContract, permits :
           Deposit(sender, t, amount, sender, callContract, reserveBalance, permits)
    BY <1>1, Zenon DEF DirectDepositCalls
  <2> QED
    BY <2>1, DepositedKeeps, Zenon DEF Deposit
<1>2. CASE BatchDepositCalls
  <2>1. PICK sender, t, ds, reserveBalance, callContract, permits :
           BatchDeposit(sender, t, ds, permits, callContract, reserveBalance)
    BY <1>2, Zenon DEF BatchDepositCalls
  <2> QED
    BY <2>1, DepositedKeeps, Zenon DEF BatchDeposit
<1> QED
  BY <1>1, <1>2 DEF DepositCalls

\* Only updateValidatorConfig touches the variables of the validator set.
LEMMA OtherCallsKeepConfig ==
    ASSUME [BridgeNext]_bridgeVars, ~ ValidatorConfigCalls
    PROVE  UNCHANGED configVars
<1>1. CASE DepositCalls
  BY <1>1, DepositCallsKeep
<1>2. CASE ClaimCalls
  BY <1>2 DEF ClaimCalls, Claim, BatchClaim, Claimed
<1>3. CASE TokenConfigCalls
  BY <1>3 DEF TokenConfigCalls, WhiteListToken, ConfigureToken, TokenConfigured
<1>4. CASE StateCalls
  BY <1>4 DEF StateCalls, SetState, MaySetState, Migrate, TransferTokensToMigrated, SetCallContractWhitelist
<1>5. CASE TokenCalls
  BY <1>5 DEF TokenCalls
<1>6. CASE Tick
  BY <1>6 DEF Tick
<1>7. CASE UNCHANGED bridgeVars
  BY <1>7 DEF bridgeVars
<1> QED
  BY <1>1, <1>2, <1>3, <1>4, <1>5, <1>6, <1>7 DEF BridgeNext

\* updateValidatorConfig moves the count with the set, though its lists may repeat addresses.
LEMMA ValidatorConfigKeepsCount ==
    ASSUME ValidatorCountExact,
           NEW sender, NEW f \in Resiliences, NEW v, NEW root,
           NEW add \in ValidatorLists, NEW remove \in ValidatorLists,
           UpdateValidatorConfig(sender, f, v, root, add, remove)
    PROVE  ValidatorCountExact'
<1> DEFINE A == {add[i] : i \in DOMAIN add}
<1> DEFINE R == {remove[i] : i \in DOMAIN remove}
<1>1. /\ Distinct(add) /\ Distinct(remove)
      /\ R \subseteq activeValidators /\ A \cap (activeValidators \ R) = {}
      /\ activeValidators' = (activeValidators \ R) \cup A
      /\ validatorCount' = validatorCount + Len(add) - Len(remove)
      /\ f <= validatorCount'
      /\ adversarialResilience' = f
  BY DEF UpdateValidatorConfig
<1>2. /\ IsFiniteSet(A) /\ Cardinality(A) = Len(add)
      /\ IsFiniteSet(R) /\ Cardinality(R) = Len(remove)
  BY <1>1, ListCardinality, BridgeAssumption DEF Distinct
<1> HIDE DEF A, R
<1>3. IsFiniteSet(activeValidators) /\ validatorCount = Cardinality(activeValidators)
  BY DEF ValidatorCountExact
<1>4. /\ IsFiniteSet(activeValidators')
      /\ Cardinality(activeValidators') = Cardinality(activeValidators) + Cardinality(A) - Cardinality(R)
  <2> DEFINE V == activeValidators
             W == (V \ R) \cup A
  <2>1. R \subseteq V /\ A \cap (V \ R) = {} /\ IsFiniteSet(V) /\ activeValidators' = W
    BY <1>1, <1>3
  <2> HIDE DEF V
  <2>2. IsFiniteSet(V) /\ IsFiniteSet(A) /\ IsFiniteSet(R) /\ R \subseteq V /\ A \cap (V \ R) = {}
    BY <1>2, <2>1
  <2>3. IsFiniteSet(W)
    BY <2>2, ReplacedCardinality
  <2>4. Cardinality(W) = Cardinality(V) + Cardinality(A) - Cardinality(R)
    BY ONLY <2>2, ReplacedCardinality
  <2> HIDE DEF W
  <2> QED
    BY <2>1, <2>3, <2>4 DEF V
<1>5. Cardinality(activeValidators') \in Nat
  BY <1>4, FS_CardinalityType
<1>6. f \in Nat
  BY BridgeAssumption
<1> QED
  BY <1>1, <1>2, <1>3, <1>4, <1>5, <1>6 DEF ValidatorCountExact

\* The count kept by list lengths is the number of active validators, and the
\* resilience never exceeds it, whatever lists the admin passes.
THEOREM ValidatorCountSafety == BridgeSpec => []ValidatorCountExact
<1>1. ASSUME ValidatorCountExact, [BridgeNext]_bridgeVars
      PROVE  ValidatorCountExact'
  <2>1. CASE ValidatorConfigCalls
    BY <1>1, <2>1, ValidatorConfigKeepsCount DEF ValidatorConfigCalls
  <2>2. CASE ~ ValidatorConfigCalls
    <3>1. UNCHANGED configVars
      BY <1>1, <2>2, OtherCallsKeepConfig
    <3> QED
      BY <1>1, <3>1 DEF configVars, ValidatorCountExact
  <2> QED
    BY <2>1, <2>2
<1> QED
  BY ValidatorCountInitial, <1>1, PTL DEF BridgeSpec

-----------------------------------------------------------------------------
\* No hash is paid twice.

\* Only claims touch processedRequests and the history of payouts.
LEMMA OtherCallsKeepClaims ==
    ASSUME [BridgeNext]_bridgeVars, ~ ClaimCalls
    PROVE  UNCHANGED <<processedRequests, paid>>
<1>1. CASE DepositCalls
  BY <1>1, DepositCallsKeep
<1>2. CASE TokenConfigCalls
  BY <1>2 DEF TokenConfigCalls, WhiteListToken, ConfigureToken, TokenConfigured
<1>3. CASE ValidatorConfigCalls
  BY <1>3 DEF ValidatorConfigCalls, UpdateValidatorConfig, flowVars
<1>4. CASE StateCalls
  BY <1>4 DEF StateCalls, SetState, MaySetState, Migrate, TransferTokensToMigrated,
              SetCallContractWhitelist, flowVars
<1>5. CASE TokenCalls
  BY <1>5 DEF TokenCalls, flowVars
<1>6. CASE Tick
  BY <1>6 DEF Tick, flowVars
<1>7. CASE UNCHANGED bridgeVars
  BY <1>7 DEF bridgeVars, flowVars
<1> QED
  BY <1>1, <1>2, <1>3, <1>4, <1>5, <1>6, <1>7 DEF BridgeNext

\* A batch whose hashes pass NotProcessed names each of them at one place, and
\* none that was paid before.
LEMMA HashesFresh ==
    ASSUME NEW n \in Nat, NEW hashes, DOMAIN hashes = 1 .. n, NotProcessed(hashes), NEW h
    PROVE  Cardinality({i \in 1 .. n : hashes[i] = h}) =
             IF h \in {hashes[i] : i \in 1 .. n} THEN 1 ELSE 0
<1> DEFINE at == {i \in 1 .. n : hashes[i] = h}
<1>1. CASE h \notin {hashes[i] : i \in 1 .. n}
  <2>1. at = {}
    BY <1>1
  <2> QED
    BY <1>1, <2>1, FS_EmptySet
<1>2. CASE h \in {hashes[i] : i \in 1 .. n}
  <2>1. PICK i \in 1 .. n : hashes[i] = h
    BY <1>2
  <2>2. \A j \in 1 .. n : hashes[j] = h => j = i
    <3> SUFFICES ASSUME NEW j \in 1 .. n, hashes[j] = h, j # i
                 PROVE  FALSE
      OBVIOUS
    <3>1. j \in 1 .. i - 1 \/ i \in 1 .. j - 1
      OBVIOUS
    <3> QED
      BY <2>1, <3>1 DEF NotProcessed
  <2>3. at = {i}
    BY <2>1, <2>2
  <2> QED
    BY <1>2, <2>3, FS_Singleton
<1> QED
  BY <1>1, <1>2

\* A batch of claims that passes marks every request before the payouts: none was paid before, and
\* none is twice in the batch.
LEMMA ClaimedPaysOnce ==
    ASSUME PaidOnce, NEW t, NEW cs, Len(cs) \in Nat, DOMAIN cs = 1 .. Len(cs), Claimed(t, cs)
    PROVE  PaidOnce'
<1> DEFINE n == Len(cs)
           hashes == [i \in DOMAIN cs |-> TxHash(t, cs[i])]
           new == {hashes[i] : i \in DOMAIN cs}
<1>1. /\ NotProcessed(hashes)
      /\ processedRequests' = processedRequests \cup new
      /\ paid' = [h \in DOMAIN paid \cup new |->
                    (IF h \in DOMAIN paid THEN paid[h] ELSE 0)
                      + Cardinality({i \in DOMAIN cs : hashes[i] = h})]
  BY Zenon DEF Claimed
<1>2. DOMAIN hashes = 1 .. n /\ DOMAIN cs = 1 .. n /\ n \in Nat
  OBVIOUS
<1> HIDE DEF n, hashes
<1>3. \A h : Cardinality({i \in DOMAIN cs : hashes[i] = h}) = IF h \in new THEN 1 ELSE 0
  <2> SUFFICES ASSUME NEW h
               PROVE  Cardinality({i \in DOMAIN cs : hashes[i] = h}) = IF h \in new THEN 1 ELSE 0
    OBVIOUS
  <2>1. Cardinality({i \in 1 .. n : hashes[i] = h}) =
          IF h \in {hashes[i] : i \in 1 .. n} THEN 1 ELSE 0
    BY ONLY <1>1, <1>2, HashesFresh
  <2>2. {i \in 1 .. n : hashes[i] = h} = {i \in DOMAIN cs : hashes[i] = h}
    BY <1>2
  <2>3. {hashes[i] : i \in 1 .. n} = new
    BY <1>2
  <2> QED
    BY ONLY <2>1, <2>2, <2>3
<1>4. processedRequests \cap new = {}
  BY <1>1, <1>2 DEF NotProcessed
<1>5. DOMAIN paid = processedRequests /\ \A h \in processedRequests : paid[h] = 1
  BY DEF PaidOnce
<1> HIDE DEF new
<1>6. DOMAIN paid' = processedRequests'
  BY <1>1, <1>5
<1>7. ASSUME NEW h \in processedRequests'
      PROVE  paid'[h] = 1
  <2>1. paid'[h] = (IF h \in processedRequests THEN 1 ELSE 0) + (IF h \in new THEN 1 ELSE 0)
    BY <1>1, <1>3, <1>5, <1>7
  <2> QED
    BY <1>1, <1>4, <2>1
<1> QED
  BY <1>6, <1>7 DEF PaidOnce

\* No withdrawal is paid twice, whatever batches claimants assemble and
\* whatever the admin does to validators, versions and roots in between.
THEOREM PaidOnceSafety == BridgeSpec => []PaidOnce
<1>1. BridgeInit => PaidOnce
  BY DEF BridgeInit, PaidOnce
<1>2. ASSUME PaidOnce, [BridgeNext]_bridgeVars
      PROVE  PaidOnce'
  <2>1. CASE ClaimCalls
    <3>1. PICK t \in Tokens, cs \in ClaimBatches : Claim(t, cs[1]) \/ BatchClaim(t, cs)
      BY <2>1 DEF ClaimCalls
    <3>2. CASE Claim(t, cs[1])
      <4> DEFINE one == <<cs[1]>>
      <4>1. Len(one) \in Nat /\ DOMAIN one = 1 .. Len(one)
        OBVIOUS
      <4>2. Claimed(t, one)
        BY <3>2 DEF Claim
      <4> HIDE DEF one
      <4> QED
        BY <1>2, <4>1, <4>2, ClaimedPaysOnce
    <3>3. CASE BatchClaim(t, cs)
      <4>1. Len(cs) \in Nat /\ DOMAIN cs = 1 .. Len(cs)
        BY BridgeAssumption
      <4>2. Claimed(t, cs)
        BY <3>3 DEF BatchClaim
      <4> QED
        BY <1>2, <4>1, <4>2, ClaimedPaysOnce
    <3> QED
      BY <3>1, <3>2, <3>3
  <2>2. CASE ~ ClaimCalls
    <3>1. UNCHANGED <<processedRequests, paid>>
      BY <1>2, <2>2, OtherCallsKeepClaims
    <3> QED
      BY <1>2, <3>1 DEF PaidOnce
  <2> QED
    BY <2>1, <2>2
<1> QED
  BY <1>1, <1>2, PTL DEF BridgeSpec

-----------------------------------------------------------------------------
\* Migration is for good: from the Migrated state no call, of the admin either,
\* leads back, and the contract the tokens go to is never replaced.
THEOREM MigrationIsFinal == BridgeSpec => MigrationFinal
<1>1. ASSUME [BridgeNext]_bridgeVars, contractState = "Migrated"
      PROVE  UNCHANGED <<contractState, migratedContract>>
  <2>1. CASE DepositCalls
    BY <2>1, DepositCallsKeep DEF stateVars
  <2>2. CASE ClaimCalls
    BY <2>2 DEF ClaimCalls, Claim, BatchClaim, Claimed, stateVars
  <2>3. CASE TokenConfigCalls
    BY <2>3 DEF TokenConfigCalls, WhiteListToken, ConfigureToken, TokenConfigured, stateVars
  <2>4. CASE ValidatorConfigCalls
    BY <2>4 DEF ValidatorConfigCalls, UpdateValidatorConfig, stateVars
  <2>5. CASE StateCalls
    BY <1>1, <2>5 DEF StateCalls, SetState, MaySetState, Migrate, TransferTokensToMigrated,
                      SetCallContractWhitelist, stateVars
  <2>6. CASE TokenCalls
    BY <2>6 DEF TokenCalls, stateVars
  <2>7. CASE Tick
    BY <2>7 DEF Tick, stateVars
  <2>8. CASE UNCHANGED bridgeVars
    BY <2>8 DEF bridgeVars, stateVars
  <2> QED
    BY <1>1, <2>1, <2>2, <2>3, <2>4, <2>5, <2>6, <2>7, <2>8 DEF BridgeNext
<1> QED
  BY <1>1, PTL DEF BridgeSpec, MigrationFinal

-----------------------------------------------------------------------------
\* Ids of deposits

\* The ids are dense, and the events are a list.
DepositIdsInv ==
    /\ DepositIdsDense
    /\ \E S : deposits \in Seq(S)

\* A call appends its events.
Appends(events, n) ==
    /\ \E S : deposits' \in Seq(S)
    /\ Len(deposits) \in Nat /\ DOMAIN deposits = 1 .. Len(deposits)
    /\ Len(deposits') = Len(deposits) + n /\ DOMAIN deposits' = 1 .. Len(deposits')
    /\ \A i \in DOMAIN deposits' : IF i \in DOMAIN deposits THEN deposits'[i] = deposits[i]
                                   ELSE /\ i - Len(deposits) \in 1 .. n
                                        /\ deposits'[i] = events[i - Len(deposits)]

\* A deposit appends one event for each item of its batch.
LEMMA EventsAppended ==
    ASSUME DepositIdsInv, NEW t, NEW ds, Len(ds) \in Nat, DOMAIN ds = 1 .. Len(ds),
           NEW permits, NEW callContract, NEW reserveBalance,
           Deposited(t, ds, permits, callContract, reserveBalance)
    PROVE  Appends(DepositEvents(t, ds, callContract, reserveBalance), Len(ds))
<1> DEFINE events == DepositEvents(t, ds, callContract, reserveBalance)
           n == Len(ds)
<1>1. deposits' = deposits \o events
  BY DEF Deposited
<1>2. PICK S : deposits \in Seq(S)
  BY DEF DepositIdsInv
<1>3. DOMAIN events = 1 .. n /\ n \in Nat /\ events = [i \in 1 .. n |-> events[i]]
  BY DEF DepositEvents
<1> HIDE DEF events, n
<1> DEFINE All == S \cup {events[i] : i \in 1 .. n}
<1>4. deposits \in Seq(All) /\ events \in Seq(All) /\ Len(events) = n
  <2>1. S \subseteq All /\ \A i \in 1 .. n : events[i] \in All
    OBVIOUS
  <2> HIDE DEF All
  <2> QED  BY <1>2, <1>3, <2>1
<1> HIDE DEF All
<1>5. /\ deposits' \in Seq(All) /\ Len(deposits') = Len(deposits) + n
      /\ Len(deposits) \in Nat /\ DOMAIN deposits = 1 .. Len(deposits)
      /\ DOMAIN deposits' = 1 .. Len(deposits')
      /\ \A i \in DOMAIN deposits' : IF i \in DOMAIN deposits THEN deposits'[i] = deposits[i]
                                     ELSE i - Len(deposits) \in 1 .. n
                                            /\ deposits'[i] = events[i - Len(deposits)]
  BY <1>1, <1>3, <1>4
<1>6. Appends(events, n)
  BY <1>5, Zenon DEF Appends
<1> QED
  BY <1>6 DEF events, n

\* So it continues the ids.
LEMMA DepositedKeepsIds ==
    ASSUME DepositIdsInv, NEW t, NEW ds, Len(ds) \in Nat, DOMAIN ds = 1 .. Len(ds),
           NEW permits, NEW callContract, NEW reserveBalance,
           Deposited(t, ds, permits, callContract, reserveBalance)
    PROVE  DepositIdsInv'
<1> DEFINE events == DepositEvents(t, ds, callContract, reserveBalance)
           n == Len(ds)
<1>1. depositIndex' = depositIndex + n
  BY DEF Deposited
<1>2. Appends(events, n)
  BY EventsAppended
<1>3. \A i \in 1 .. n : events[i].id = depositIndex + i - 1
  BY DEF DepositEvents, DepositId
<1> HIDE DEF events, n
<1>4. depositIndex = Len(deposits) /\ \A i \in DOMAIN deposits : deposits[i].id = i - 1
  BY DEF DepositIdsInv, DepositIdsDense
<1>5. ASSUME NEW i \in DOMAIN deposits'
      PROVE  deposits'[i].id = i - 1
  <2>1. CASE i \in DOMAIN deposits
    BY <1>2, <1>4, <2>1 DEF Appends
  <2>2. CASE i \notin DOMAIN deposits
    <3>1. i - Len(deposits) \in 1 .. n /\ deposits'[i] = events[i - Len(deposits)]
      BY <1>2, <2>2 DEF Appends
    <3>2. deposits'[i].id = depositIndex + (i - Len(deposits)) - 1
      BY <1>3, <3>1
    <3>3. i \in Int /\ Len(deposits) \in Int
      BY <1>2 DEF Appends
    <3> QED  BY <1>4, <3>2, <3>3
  <2> QED  BY <2>1, <2>2
<1> QED
  BY <1>1, <1>2, <1>4, <1>5 DEF DepositIdsInv, DepositIdsDense, Appends

\* Only deposits move the index or emit Deposit events.
LEMMA OtherCallsKeepDeposits ==
    ASSUME [BridgeNext]_bridgeVars, ~ DepositCalls
    PROVE  UNCHANGED <<depositIndex, deposits>>
<1>1. CASE ClaimCalls
  BY <1>1 DEF ClaimCalls, Claim, BatchClaim, Claimed
<1>2. CASE TokenConfigCalls
  BY <1>2 DEF TokenConfigCalls, WhiteListToken, ConfigureToken, TokenConfigured
<1>3. CASE ValidatorConfigCalls
  BY <1>3 DEF ValidatorConfigCalls, UpdateValidatorConfig, flowVars
<1>4. CASE StateCalls
  BY <1>4 DEF StateCalls, SetState, MaySetState, Migrate, TransferTokensToMigrated,
              SetCallContractWhitelist, flowVars
<1>5. CASE TokenCalls
  BY <1>5 DEF TokenCalls, flowVars
<1>6. CASE Tick
  BY <1>6 DEF Tick, flowVars
<1>7. CASE UNCHANGED bridgeVars
  BY <1>7 DEF bridgeVars, flowVars
<1> QED
  BY <1>1, <1>2, <1>3, <1>4, <1>5, <1>6, <1>7 DEF BridgeNext

\* Neither kind of step disturbs the ids, or that deposits is a sequence.
LEMMA DepositIdsInvStep == DepositIdsInv /\ [BridgeNext]_bridgeVars => DepositIdsInv'
<1> SUFFICES ASSUME DepositIdsInv, [BridgeNext]_bridgeVars
             PROVE  DepositIdsInv'
  OBVIOUS
<1>1. CASE DirectDepositCalls
  <2>1. PICK sender, t, amount, reserveBalance, callContract, permits :
           Deposit(sender, t, amount, sender, callContract, reserveBalance, permits)
    BY <1>1, Zenon DEF DirectDepositCalls
  <2> DEFINE one == <<[from |-> sender, to |-> sender, amount |-> amount]>>
  <2>2. Len(one) \in Nat /\ DOMAIN one = 1 .. Len(one)
    OBVIOUS
  <2>3. Deposited(t, one, permits, callContract, reserveBalance)
    BY <2>1, Zenon DEF Deposit
  <2> HIDE DEF one
  <2> QED  BY <2>2, <2>3, DepositedKeepsIds, Zenon
<1>2. CASE BatchDepositCalls
  <2>1. PICK sender, t, ds, reserveBalance, callContract, permits :
           ds \in DepositBatches /\ BatchDeposit(sender, t, ds, permits, callContract, reserveBalance)
    BY <1>2, Zenon DEF BatchDepositCalls
  <2>2. Deposited(t, ds, permits, callContract, reserveBalance)
    BY <2>1, Zenon DEF BatchDeposit
  <2>3. Len(ds) \in Nat /\ DOMAIN ds = 1 .. Len(ds)
    BY <2>1, BridgeAssumption
  <2> QED  BY <2>2, <2>3, DepositedKeepsIds, Zenon
<1>3. CASE ~ DepositCalls
  BY <1>3, OtherCallsKeepDeposits DEF DepositIdsInv, DepositIdsDense
<1> QED
  BY <1>1, <1>2, <1>3 DEF DepositCalls

\* The ids are dense when the bridge is deployed, and so they stay.
LEMMA DepositIdsInvInit == BridgeInit => DepositIdsInv
<1> SUFFICES ASSUME BridgeInit
             PROVE  DepositIdsInv
  OBVIOUS
<1>1. deposits = <<>> /\ depositIndex = 0
  BY DEF BridgeInit
<1>2. <<>> \in Seq({})
  OBVIOUS
<1> QED  BY <1>1, <1>2 DEF DepositIdsInv, DepositIdsDense

\* The deposit ids are dense in every state.
LEMMA DepositIdsInvariant == BridgeSpec => []DepositIdsInv
  BY DepositIdsInvInit, DepositIdsInvStep, PTL DEF BridgeSpec

\* Deposit ids are dense and never reused, for batches of every length and any mix of
\* relayers and depositors.
THEOREM DepositIdsSafety == BridgeSpec => []DepositIdsDense
<1>1. DepositIdsInv => DepositIdsDense
  BY DEF DepositIdsInv
<1> QED
  BY <1>1, DepositIdsInvariant, PTL

-----------------------------------------------------------------------------
\* Mirrors

TokenFields == {"minAmount", "depositLimit", "claimLimit", "depositUsage", "claimUsage", "mirrorToken"}

\* A token without a minimum has not been listed: that is what whiteListToken looks at.
UnlistedInv ==
    /\ tokenData = [t \in Tokens |-> tokenData[t]]
    /\ \A t \in Tokens : /\ DOMAIN tokenData[t] = TokenFields
                         /\ tokenData[t].minAmount = 0 => tokenData[t].mirrorToken = NoAddress

MirrorsKept ==
    \A t \in Tokens : tokenData[t].mirrorToken # NoAddress =>
        tokenData'[t].mirrorToken = tokenData[t].mirrorToken

\* What a step does to the entries of the tokens: a usage changes, or a configuration that
\* gives no listed token another mirror.
LEMMA TokenDataSteps ==
    ASSUME UnlistedInv, [BridgeNext]_bridgeVars
    PROVE  UnlistedInv' /\ MirrorsKept
<1>1. ASSUME NEW t, NEW u, \/ tokenData' = [tokenData EXCEPT ![t].depositUsage = u]
                           \/ tokenData' = [tokenData EXCEPT ![t].claimUsage = u]
      PROVE  UnlistedInv' /\ MirrorsKept
  BY <1>1 DEF UnlistedInv, TokenFields, MirrorsKept
<1>2. ASSUME NEW t \in Tokens, NEW m, NEW minAmount, NEW depositLimit, NEW claimLimit,
             TokenConfigured(t, m, minAmount, depositLimit, claimLimit),
             tokenData[t].mirrorToken = NoAddress \/ m = tokenData[t].mirrorToken
      PROVE  UnlistedInv' /\ MirrorsKept
  BY <1>2 DEF UnlistedInv, TokenFields, TokenConfigured, ConfiguredData, MirrorsKept
<1>3. ASSUME tokenData' = tokenData
      PROVE  UnlistedInv' /\ MirrorsKept
  BY <1>3 DEF UnlistedInv, MirrorsKept
<1>4. ASSUME NEW t, NEW ds, NEW permits, NEW callContract, NEW reserveBalance,
             Deposited(t, ds, permits, callContract, reserveBalance)
      PROVE  UnlistedInv' /\ MirrorsKept
  BY <1>1, <1>4, Zenon DEF Deposited
<1>5. CASE DepositCalls
  <2>1. CASE DirectDepositCalls
    BY <1>4, <2>1, Zenon DEF DirectDepositCalls, Deposit
  <2>2. CASE BatchDepositCalls
    BY <1>4, <2>2, Zenon DEF BatchDepositCalls, BatchDeposit
  <2> QED
    BY <1>5, <2>1, <2>2 DEF DepositCalls
<1>6. CASE ClaimCalls
  BY <1>1, <1>6, Zenon DEF ClaimCalls, Claim, BatchClaim, Claimed
<1>7. CASE TokenConfigCalls
  <2>1. PICK sender \in Admins, t \in Tokens, c \in Configurations :
          \/ \E m \in MirrorTokens :
                WhiteListToken(sender, t, m, c.minAmount, c.depositLimit, c.claimLimit)
          \/ ConfigureToken(sender, t, c.minAmount, c.depositLimit, c.claimLimit)
    BY <1>7, Zenon DEF TokenConfigCalls
  <2>2. ASSUME NEW m, WhiteListToken(sender, t, m, c.minAmount, c.depositLimit, c.claimLimit)
        PROVE  UnlistedInv' /\ MirrorsKept
    <3>1. tokenData[t].mirrorToken = NoAddress
      BY <2>2 DEF WhiteListToken, Unknown, UnlistedInv
    <3> QED  BY <1>2, <2>2, <3>1 DEF WhiteListToken
  <2>3. CASE ConfigureToken(sender, t, c.minAmount, c.depositLimit, c.claimLimit)
    BY <1>2, <2>3 DEF ConfigureToken
  <2> QED
    BY <2>1, <2>2, <2>3
<1>8. CASE ValidatorConfigCalls
  BY <1>3, <1>8 DEF ValidatorConfigCalls, UpdateValidatorConfig, flowVars
<1>9. CASE StateCalls
  BY <1>3, <1>9 DEF StateCalls, SetState, MaySetState, Migrate, TransferTokensToMigrated,
                    SetCallContractWhitelist, flowVars
<1>10. CASE TokenCalls
  BY <1>3, <1>10 DEF TokenCalls, flowVars
<1>11. CASE Tick
  BY <1>3, <1>11 DEF Tick, flowVars
<1>12. CASE UNCHANGED bridgeVars
  BY <1>3, <1>12 DEF bridgeVars, flowVars
<1> QED
  BY <1>5, <1>6, <1>7, <1>8, <1>9, <1>10, <1>11, <1>12 DEF BridgeNext

\* A token keeps its mirror, for every order of listing, configuration, deposits, claims
\* and migration.
THEOREM MirrorFixedSafety == BridgeSpec => MirrorFixed
<1>1. BridgeInit => UnlistedInv
  BY DEF BridgeInit, UnlistedInv, UnknownToken, TokenFields
<1>2. UnlistedInv /\ [BridgeNext]_bridgeVars => UnlistedInv'
  BY TokenDataSteps
<1>3. UnlistedInv /\ [BridgeNext]_bridgeVars =>
        [\A t \in Tokens : tokenData[t].mirrorToken # NoAddress =>
            tokenData'[t].mirrorToken = tokenData[t].mirrorToken]_bridgeVars
  BY TokenDataSteps DEF MirrorsKept
<1> QED
  BY <1>1, <1>2, <1>3, PTL DEF BridgeSpec, MirrorFixed

-----------------------------------------------------------------------------
\* The ledger operators of the token, on the states a loop passes through.  A loop does not stop
\* when an iteration reverts, so a balance or an allowance may leave Nat on the way.

LoopLedger == [balance   : [Accounts -> Int],
               allowance : [Accounts -> [Spenders -> Int]],
               nonce     : [Accounts -> Nat],
               paused    : BOOLEAN]

LoopUsage == [consumed : Int, lastUpdated : Nat]

LoopState == [ok : BOOLEAN, usage : LoopUsage, ledger : LoopLedger]

\* An approval changes one allowance and nothing else.
LEMMA ApprovedEffect ==
    ASSUME NEW l \in LoopLedger, NEW owner \in Accounts, NEW spender \in Spenders,
           NEW v \in Int
    PROVE  LET n == Approved(l, owner, spender, v)
           IN  /\ n \in LoopLedger
               /\ n.balance = l.balance /\ n.nonce = l.nonce /\ n.paused = l.paused
               /\ n.allowance[owner][spender] = v
               /\ \A a \in Accounts, s \in Spenders :
                    (a # owner \/ s # spender) => n.allowance[a][s] = l.allowance[a][s]
  BY DEF Approved, LoopLedger

\* A debit and a credit change one balance and nothing else.
LEMMA DebitedEffect ==
    ASSUME NEW l \in LoopLedger, NEW from \in Accounts, NEW v \in Int
    PROVE  LET n == Debited(l, from, v)
           IN  /\ n \in LoopLedger
               /\ n.allowance = l.allowance /\ n.nonce = l.nonce /\ n.paused = l.paused
               /\ \A a \in Accounts : n.balance[a] = l.balance[a] - (IF a = from THEN v ELSE 0)
  BY DEF Debited, LoopLedger

\* Credit adds to one balance and leaves the others.
LEMMA CreditedEffect ==
    ASSUME NEW l \in LoopLedger, NEW to, NEW v \in Int
    PROVE  LET n == Credited(l, to, v)
           IN  /\ n \in LoopLedger
               /\ n.allowance = l.allowance /\ n.nonce = l.nonce /\ n.paused = l.paused
               /\ \A a \in Accounts : n.balance[a] = l.balance[a] + (IF a = to THEN v ELSE 0)
  BY DEF Credited, LoopLedger

\* A transfer moves the tokens, also from an account to itself.
LEMMA TransferredEffect ==
    ASSUME NEW l \in LoopLedger, NEW from \in Accounts, NEW to, NEW v \in Int
    PROVE  LET n == Transferred(l, from, to, v)
           IN  /\ n \in LoopLedger
               /\ n.allowance = l.allowance /\ n.nonce = l.nonce /\ n.paused = l.paused
               /\ \A a \in Accounts :
                    n.balance[a] = l.balance[a] - (IF a = from THEN v ELSE 0) + (IF a = to THEN v ELSE 0)
<1> DEFINE d == Debited(l, from, v)
<1>1. d \in LoopLedger /\ d.allowance = l.allowance /\ d.nonce = l.nonce /\ d.paused = l.paused
  BY DebitedEffect
<1>2. \A a \in Accounts : d.balance[a] = l.balance[a] - (IF a = from THEN v ELSE 0)
  BY DebitedEffect
<1> HIDE DEF d
<1> DEFINE n == Credited(d, to, v)
<1>3. n \in LoopLedger /\ n.allowance = d.allowance /\ n.nonce = d.nonce /\ n.paused = d.paused
      /\ \A a \in Accounts : n.balance[a] = d.balance[a] + (IF a = to THEN v ELSE 0)
  BY <1>1, CreditedEffect
<1>4. Transferred(l, from, to, v) = n
  BY DEF Transferred, d
<1> HIDE DEF n
<1> QED
  BY <1>1, <1>2, <1>3, <1>4

\* A ledger in the loop is a ledger once its balances and allowances are natural numbers.
LEMMA LedgerIs ==
    ASSUME NEW l \in LoopLedger
    PROVE  l \in Ledger <=> /\ \A a \in Accounts : l.balance[a] \in Nat
                            /\ \A a \in Accounts, s \in Spenders : l.allowance[a][s] \in Nat
<1>1. ASSUME \A a \in Accounts : l.balance[a] \in Nat,
             \A a \in Accounts, s \in Spenders : l.allowance[a][s] \in Nat
      PROVE  l \in Ledger
  <2>1. l.balance \in [Accounts -> Nat]
    BY <1>1 DEF LoopLedger
  <2>2. l.allowance \in [Accounts -> [Spenders -> Nat]]
    <3>1. \A a \in Accounts : l.allowance[a] \in [Spenders -> Nat]
      BY <1>1 DEF LoopLedger
    <3> QED  BY <3>1 DEF LoopLedger
  <2> QED  BY <2>1, <2>2 DEF LoopLedger, Ledger
<1> QED
  BY <1>1 DEF Ledger

\* A used nonce is the next natural number.
LEMMA NonceUsed ==
    ASSUME NEW l \in LoopLedger, NEW owner \in Accounts
    PROVE  LET n == [l EXCEPT !.nonce[owner] = @ + 1]
           IN  /\ n \in LoopLedger
               /\ n.balance = l.balance /\ n.paused = l.paused /\ n.allowance = l.allowance
               /\ \A a \in Accounts : n.nonce[a] \in Nat /\ n.nonce[a] >= l.nonce[a]
<1> DEFINE N == [l.nonce EXCEPT ![owner] = @ + 1]
           n == [l EXCEPT !.nonce[owner] = @ + 1]
<1>1. l.nonce \in [Accounts -> Nat]
  BY DEF LoopLedger
<1>2. N \in [Accounts -> Nat] /\ \A a \in Accounts : N[a] \in Nat /\ N[a] >= l.nonce[a]
  BY <1>1
<1>3. /\ n = [l EXCEPT !.nonce = N] /\ n.nonce = N
      /\ n.balance = l.balance /\ n.paused = l.paused /\ n.allowance = l.allowance
  BY DEF LoopLedger
<1>4. n \in LoopLedger
  <2> HIDE DEF N
  <2> QED  BY <1>2, <1>3 DEF LoopLedger
<1> QED
  BY <1>2, <1>3, <1>4

\* A permit changes what the spender may take of its owner's tokens, and the owner's nonce.
PermitEffect(n, l, owner, spender, v, permit) ==
    /\ n \in LoopLedger
    /\ n.balance = l.balance /\ n.paused = l.paused
    /\ \A a \in Accounts : n.nonce[a] \in Nat /\ n.nonce[a] >= l.nonce[a]
    /\ n.allowance[owner][spender] \in {v, l.allowance[owner][spender]}
    /\ \A a \in Accounts, s \in Spenders :
         (a # owner \/ s # spender) => n.allowance[a][s] = l.allowance[a][s]
    /\ permit.owner # owner => n = l

\* Whether the permit succeeds or not, it touches its owner's allowance and nonce only.
LEMMA TryPermitEffect ==
    ASSUME NEW l \in LoopLedger, NEW t, NEW owner \in Accounts, NEW spender \in Spenders, NEW v \in Nat,
           NEW permit
    PROVE  PermitEffect(TryPermit(l, t, owner, spender, v, permit), l, owner, spender, v, permit)
<1> USE DEF PermitEffect
<1> DEFINE m == Approved(l, owner, spender, v)
           n == [m EXCEPT !.nonce[owner] = @ + 1]
<1>1. /\ m \in LoopLedger
      /\ m.balance = l.balance /\ m.nonce = l.nonce /\ m.paused = l.paused
      /\ m.allowance[owner][spender] = v
      /\ \A a \in Accounts, s \in Spenders :
           (a # owner \/ s # spender) => m.allowance[a][s] = l.allowance[a][s]
  BY ApprovedEffect
<1>2. /\ n \in LoopLedger
      /\ n.balance = m.balance /\ n.paused = m.paused /\ n.allowance = m.allowance
      /\ \A a \in Accounts : n.nonce[a] \in Nat /\ n.nonce[a] >= m.nonce[a]
  BY <1>1, NonceUsed
<1>3. /\ TryPermit(l, t, owner, spender, v, permit) \in {l, n}
      /\ TryPermit(l, t, owner, spender, v, permit) = n =>
            permit.owner = owner \/ n = l
  BY DEF TryPermit, Permitted, PermitValid
<1>4. \A a \in Accounts : l.nonce[a] \in Nat
  BY DEF LoopLedger
<1> HIDE DEF n, m
<1>5. CASE TryPermit(l, t, owner, spender, v, permit) = n
  BY <1>1, <1>2, <1>3, <1>4, <1>5
<1>6. CASE TryPermit(l, t, owner, spender, v, permit) = l
  BY <1>4, <1>6
<1> QED
  BY <1>3, <1>5, <1>6

\* transferFrom moves the tokens and uses up the allowance, unless it is unlimited.
LEMMA TransferredFromEffect ==
    ASSUME NEW l \in LoopLedger, NEW spender \in Spenders, NEW from \in Accounts, NEW to, NEW v \in Nat
    PROVE  LET n == TransferredFrom(l, spender, from, to, v)
           IN  /\ n \in LoopLedger /\ n.nonce = l.nonce /\ n.paused = l.paused
               /\ \A a \in Accounts :
                    n.balance[a] = l.balance[a] - (IF a = from THEN v ELSE 0) + (IF a = to THEN v ELSE 0)
               /\ n.allowance[from][spender] \in {MaxUint, l.allowance[from][spender] - v}
               /\ \A a \in Accounts, s \in Spenders :
                    (a # from \/ s # spender) => n.allowance[a][s] = l.allowance[a][s]
<1> DEFINE left == IF l.allowance[from][spender] = MaxUint
                   THEN MaxUint ELSE l.allowance[from][spender] - v
           m == Approved(l, from, spender, left)
           n == Transferred(m, from, to, v)
<1>1. left \in Int /\ left \in {MaxUint, l.allowance[from][spender] - v}
  BY TokenAssumption DEF LoopLedger
<1> HIDE DEF left
<1>2. /\ m \in LoopLedger
      /\ m.balance = l.balance /\ m.nonce = l.nonce /\ m.paused = l.paused
      /\ m.allowance[from][spender] = left
      /\ \A a \in Accounts, s \in Spenders :
           (a # from \/ s # spender) => m.allowance[a][s] = l.allowance[a][s]
  BY <1>1, ApprovedEffect
<1> HIDE DEF m
<1>3. /\ n \in LoopLedger
      /\ n.allowance = m.allowance /\ n.nonce = m.nonce /\ n.paused = m.paused
      /\ \A a \in Accounts :
           n.balance[a] = m.balance[a] - (IF a = from THEN v ELSE 0) + (IF a = to THEN v ELSE 0)
  BY <1>2, TransferredEffect
<1>4. TransferredFrom(l, spender, from, to, v) = n
  BY DEF TransferredFrom, m, left
<1> HIDE DEF n
<1> QED
  BY <1>1, <1>2, <1>3, <1>4

\* A charged counter stays a counter of the loop.
LEMMA LoopCharged ==
    ASSUME NEW u \in LoopUsage, NEW limit \in Nat, NEW amount \in Nat, NEW time \in Nat
    PROVE  Charged(u, limit, amount, time) \in LoopUsage
  BY DEF LoopUsage, Charged

-----------------------------------------------------------------------------
\* The loop of _processBatchDeposit

Batch(ds) ==
    /\ Len(ds) \in Nat \ {0} /\ DOMAIN ds = 1 .. Len(ds)
    /\ \A i \in DOMAIN ds : ds[i].amount \in Nat

DepositBatch(ds) == Batch(ds) /\ \A i \in DOMAIN ds : ds[i].from \in Accounts

IsDepositLoop(r, t, ds, permits, callContract, reserveBalance) ==
    /\ r \in [0 .. Len(ds) -> LoopState]
    /\ r[0] = [ok |-> TRUE, usage |-> tokenData[t].depositUsage, ledger |-> ledger[t]]
    /\ \A k \in 1 .. Len(ds) :
          r[k] = DepositStep(t, ds, permits, callContract, reserveBalance, r[k - 1], k)

\* The loop starts from a ledger.
LEMMA LedgerLoops == Ledger \subseteq LoopLedger
  BY DEF Ledger, LoopLedger

\* The types of what a loop reads.
LEMMA TypesUsed ==
    ASSUME BridgeTypeOK, NEW t \in Tokens
    PROVE  /\ now \in Nat /\ tokenData[t] \in TokenData
           /\ ledger[t] \in Ledger /\ ledger[t] \in LoopLedger
           /\ tokenData[t].minAmount \in Nat
           /\ tokenData[t].depositLimit \in Nat /\ tokenData[t].claimLimit \in Nat
           /\ tokenData[t].depositUsage \in Usage /\ tokenData[t].claimUsage \in Usage
           /\ tokenData[t].depositUsage \in LoopUsage /\ tokenData[t].claimUsage \in LoopUsage
<1>1. now \in Nat /\ tokenData[t] \in TokenData /\ ledger[t] \in Ledger
  BY DEF BridgeTypeOK, TokenTypeOK
<1>2. Usage \subseteq LoopUsage
  BY DEF Usage, LoopUsage
<1> QED
  BY <1>1, <1>2, LedgerLoops DEF TokenData

\* An iteration of a deposit leads from a loop state to a loop state.
LEMMA DepositStepType ==
    ASSUME BridgeTypeOK, NEW t \in Tokens, NEW ds, DepositBatch(ds), NEW permits,
           NEW callContract, NEW reserveBalance, NEW s \in LoopState, NEW i \in DOMAIN ds
    PROVE  DepositStep(t, ds, permits, callContract, reserveBalance, s, i) \in LoopState
<1> DEFINE d == ds[i]
           l == IF i \in DOMAIN permits
                THEN TryPermit(s.ledger, t, d.from, BridgeAddress, d.amount, permits[i])
                ELSE s.ledger
           n == TransferredFrom(l, BridgeAddress, d.from, BridgeAddress, d.amount)
           u == Charged(s.usage, tokenData[t].depositLimit, d.amount, now)
<1>1. d.from \in Accounts /\ d.amount \in Nat /\ BridgeAddress \in Spenders
  BY BridgeAssumption DEF DepositBatch, Batch
<1>2. s.ledger \in LoopLedger /\ s.usage \in LoopUsage
  BY DEF LoopState
<1> HIDE DEF d
<1>3. l \in LoopLedger
  BY <1>1, <1>2, TryPermitEffect DEF PermitEffect
<1> HIDE DEF l
<1>4. n \in LoopLedger
  BY <1>1, <1>3, TransferredFromEffect
<1>5. u \in LoopUsage
  BY <1>1, <1>2, TypesUsed, LoopCharged
<1> HIDE DEF n, u
<1> DEFINE ok == /\ s.ok
                 /\ callContract # NoAddress => d.amount >= reserveBalance
                 /\ d.to # NoAddress
                 /\ Admits(s.usage, tokenData[t].minAmount, tokenData[t].depositLimit, d.amount, now)
                 /\ TransferableFrom(l, BridgeAddress, d.from, d.amount)
<1>6. ok \in BOOLEAN
  OBVIOUS
<1> HIDE DEF ok
<1>7. DepositStep(t, ds, permits, callContract, reserveBalance, s, i)
        = [ok |-> ok, usage |-> u, ledger |-> n]
  BY DEF DepositStep, ok, u, n, l, d
<1> QED
  BY <1>4, <1>5, <1>6, <1>7 DEF LoopState

\* The fold of _processBatchDeposit is a loop over the states r[0], ..., r[Len(ds)].
LEMMA DepositLoop ==
    ASSUME BridgeTypeOK, NEW t \in Tokens, NEW ds, DepositBatch(ds), NEW permits,
           NEW callContract, NEW reserveBalance
    PROVE  \E r : /\ IsDepositLoop(r, t, ds, permits, callContract, reserveBalance)
                  /\ DepositRun(t, ds, permits, callContract, reserveBalance) = r[Len(ds)]
<1> DEFINE n == Len(ds)
           seq == [i \in DOMAIN ds |-> i]
           start == [ok |-> TRUE, usage |-> tokenData[t].depositUsage, ledger |-> ledger[t]]
           Step(s, i) == DepositStep(t, ds, permits, callContract, reserveBalance, s, i)
           F == [i \in 1 .. n |-> [s \in LoopState |-> Step(s, i)]]
           iter == CHOOSE iter : iter = [T \in SUBSET DOMAIN seq |->
                     IF T = {} THEN start ELSE Step(iter[T \ {Max(T)}], seq[Max(T)])]
           r == [k \in 0 .. n |-> iter[1 .. k]]
<1>1. n \in Nat /\ DOMAIN ds = 1 .. n /\ DOMAIN seq = 1 .. n
  BY DEF DepositBatch, Batch
<1>2. start \in LoopState
  BY TypesUsed DEF LoopState
<1>3. DepositRun(t, ds, permits, callContract, reserveBalance) = iter[DOMAIN seq]
  BY DEF DepositRun, FoldLeft, MapThenFoldSet
<1>4. F \in [1 .. n -> [LoopState -> LoopState]]
  BY <1>1, DepositStepType
<1>5. iter = [T \in SUBSET DOMAIN seq |->
                IF T = {} THEN start ELSE Step(iter[T \ {Max(T)}], seq[Max(T)])]
  <2>1. PICK w \in [SUBSET (1 .. n) -> LoopState] : IsLoop(w, n, start, F)
    <3>1. n \in Nat /\ start \in LoopState /\ F \in [1 .. n -> [LoopState -> LoopState]]
      BY <1>1, <1>2, <1>4
    <3> HIDE DEF n, start, F
    <3> QED  BY ONLY <3>1, LoopDefined
  <2>2. ASSUME NEW T \in SUBSET (1 .. n), T # {}
        PROVE  w[T] = Step(w[T \ {Max(T)}], seq[Max(T)])
    <3>1. Max(T) \in 1 .. n
      BY ONLY <1>1, <2>2, MaxOfPart
    <3>2. w[T \ {Max(T)}] \in LoopState /\ seq[Max(T)] = Max(T)
      BY <1>1, <3>1
    <3>3. w[T] = F[Max(T)][w[T \ {Max(T)}]]
      BY <2>1, <2>2 DEF IsLoop
    <3> HIDE DEF Step
    <3> QED  BY <3>1, <3>2, <3>3
  <2> HIDE DEF Step
  <2>3. w = [T \in SUBSET DOMAIN seq |->
               IF T = {} THEN start ELSE Step(w[T \ {Max(T)}], seq[Max(T)])]
    <3> HIDE DEF n, start, F, seq
    <3> QED  BY <1>1, <2>1, <2>2 DEF IsLoop
  <2> QED  BY <2>3
<1> HIDE DEF iter, Step
<1>6. r[0] = start /\ \A k \in 1 .. n : r[k] = Step(r[k - 1], k)
  <2>1. r[0] = start
    <3>1. 1 .. 0 = {} /\ {} \in SUBSET DOMAIN seq /\ 0 \in 0 .. n
      BY <1>1
    <3> HIDE DEF start, seq
    <3> QED  BY <1>5, <3>1
  <2>2. ASSUME NEW k \in 1 .. n
        PROVE  r[k] = Step(r[k - 1], k)
    <3>1. /\ 1 .. k \in SUBSET (1 .. n) /\ 1 .. k # {}
          /\ Max(1 .. k) = k /\ (1 .. k) \ {Max(1 .. k)} = 1 .. k - 1
      BY ONLY <1>1, <2>2, LoopPrefixes
    <3>2. k \in 0 .. n /\ k - 1 \in 0 .. n /\ seq[k] = k
      BY <1>1
    <3>3. iter[1 .. k] = Step(iter[1 .. k - 1], k)
      <4> HIDE DEF start, seq
      <4> QED  BY <1>1, <1>5, <3>1, <3>2
    <3> QED  BY <3>2, <3>3
  <2> QED  BY <2>1, <2>2
<1> HIDE DEF r, start
<1> DEFINE S == {k \in 0 .. n : r[k] \in LoopState}
<1>7. 0 \in S /\ \A k \in 0 .. n - 1 : k \in S => k + 1 \in S
  <2>1. 0 \in S
    BY <1>1, <1>2, <1>6
  <2>2. ASSUME NEW k \in 0 .. n - 1, k \in S
        PROVE  k + 1 \in S
    <3>1. k + 1 \in 1 .. n /\ k + 1 \in 0 .. n /\ (k + 1) - 1 = k
      BY <1>1
    <3>2. r[k + 1] = Step(r[k], k + 1)
      BY <1>6, <3>1
    <3>3. Step(r[k], k + 1) \in LoopState
      BY <1>1, <2>2, <3>1, DepositStepType DEF Step
    <3> QED  BY <3>1, <3>2, <3>3
  <2> QED  BY <2>1, <2>2
<1> HIDE DEF S
<1>8. \A k \in 0 .. n : k \in S
  BY <1>1, <1>7, UpTo
<1>9. r \in [0 .. n -> LoopState]
  BY <1>8 DEF S, r
<1>10. r[n] = iter[DOMAIN seq]
  BY <1>1 DEF r
<1> QED
  BY <1>3, <1>6, <1>9, <1>10 DEF IsDepositLoop, start, Step

-----------------------------------------------------------------------------
\* The loop of batchClaim

IsClaimLoop(r, t, cs) ==
    /\ r \in [0 .. Len(cs) -> LoopState]
    /\ r[0] = [ok |-> TRUE, usage |-> tokenData[t].claimUsage, ledger |-> ledger[t]]
    /\ \A k \in 1 .. Len(cs) : r[k] = ClaimStep(t, r[k - 1], cs[k])

\* An iteration of a claim leads from a loop state to a loop state.
LEMMA ClaimStepType ==
    ASSUME BridgeTypeOK, NEW t \in Tokens, NEW cs, Batch(cs), NEW s \in LoopState, NEW i \in DOMAIN cs
    PROVE  ClaimStep(t, s, cs[i]) \in LoopState
<1> DEFINE c == cs[i]
           n == Transferred(s.ledger, BridgeAddress, c.to, c.amount)
           u == Charged(s.usage, tokenData[t].claimLimit, c.amount, now)
           ok == /\ s.ok
                 /\ Admits(s.usage, tokenData[t].minAmount, tokenData[t].claimLimit, c.amount, now)
                 /\ Transferable(s.ledger, BridgeAddress, c.amount)
                 /\ c.to # NoAddress
<1>1. /\ c.amount \in Nat /\ BridgeAddress \in Accounts
      /\ s.ledger \in LoopLedger /\ s.usage \in LoopUsage
  BY BridgeAssumption DEF Batch, LoopState
<1> HIDE DEF c
<1>2. n \in LoopLedger
  BY <1>1, TransferredEffect
<1>3. u \in LoopUsage
  BY <1>1, TypesUsed, LoopCharged
<1>4. ok \in BOOLEAN
  OBVIOUS
<1> HIDE DEF n, u, ok
<1>5. ClaimStep(t, s, cs[i]) = [ok |-> ok, usage |-> u, ledger |-> n]
  BY DEF ClaimStep, ClaimLimit, ok, u, n, c
<1> QED
  BY <1>2, <1>3, <1>4, <1>5 DEF LoopState

\* The fold of batchClaim is a loop over the states r[0], ..., r[Len(cs)].
LEMMA ClaimLoop ==
    ASSUME BridgeTypeOK, NEW t \in Tokens, NEW cs, Batch(cs)
    PROVE  \E r : /\ IsClaimLoop(r, t, cs)
                  /\ ClaimRun(t, cs) = r[Len(cs)]
<1> DEFINE n == Len(cs)
           seq == cs
           start == [ok |-> TRUE, usage |-> tokenData[t].claimUsage, ledger |-> ledger[t]]
           Step(s, i) == ClaimStep(t, s, i)
           F == [i \in 1 .. n |-> [s \in LoopState |-> Step(s, cs[i])]]
           iter == CHOOSE iter : iter = [T \in SUBSET DOMAIN seq |->
                     IF T = {} THEN start ELSE Step(iter[T \ {Max(T)}], seq[Max(T)])]
           r == [k \in 0 .. n |-> iter[1 .. k]]
<1>1. n \in Nat /\ DOMAIN cs = 1 .. n /\ DOMAIN seq = 1 .. n
  BY DEF Batch
<1>2. start \in LoopState
  BY TypesUsed DEF LoopState
<1>3. ClaimRun(t, cs) = iter[DOMAIN seq]
  BY DEF ClaimRun, FoldLeft, MapThenFoldSet
<1>4. F \in [1 .. n -> [LoopState -> LoopState]]
  BY <1>1, ClaimStepType
<1>5. iter = [T \in SUBSET DOMAIN seq |->
                IF T = {} THEN start ELSE Step(iter[T \ {Max(T)}], seq[Max(T)])]
  <2>1. PICK w \in [SUBSET (1 .. n) -> LoopState] : IsLoop(w, n, start, F)
    <3>1. n \in Nat /\ start \in LoopState /\ F \in [1 .. n -> [LoopState -> LoopState]]
      BY <1>1, <1>2, <1>4
    <3> HIDE DEF n, start, F
    <3> QED  BY ONLY <3>1, LoopDefined
  <2>2. ASSUME NEW T \in SUBSET (1 .. n), T # {}
        PROVE  w[T] = Step(w[T \ {Max(T)}], seq[Max(T)])
    <3>1. Max(T) \in 1 .. n
      BY ONLY <1>1, <2>2, MaxOfPart
    <3>2. w[T \ {Max(T)}] \in LoopState /\ seq[Max(T)] = cs[Max(T)]
      BY <1>1, <3>1
    <3>3. w[T] = F[Max(T)][w[T \ {Max(T)}]]
      BY <2>1, <2>2 DEF IsLoop
    <3> HIDE DEF Step
    <3> QED  BY <3>1, <3>2, <3>3
  <2> HIDE DEF Step
  <2>3. w = [T \in SUBSET DOMAIN seq |->
               IF T = {} THEN start ELSE Step(w[T \ {Max(T)}], seq[Max(T)])]
    <3> HIDE DEF n, start, F, seq
    <3> QED  BY <1>1, <2>1, <2>2 DEF IsLoop
  <2> QED  BY <2>3
<1> HIDE DEF iter, Step
<1>6. r[0] = start /\ \A k \in 1 .. n : r[k] = Step(r[k - 1], cs[k])
  <2>1. r[0] = start
    <3>1. 1 .. 0 = {} /\ {} \in SUBSET DOMAIN seq /\ 0 \in 0 .. n
      BY <1>1
    <3> HIDE DEF start, seq
    <3> QED  BY <1>5, <3>1
  <2>2. ASSUME NEW k \in 1 .. n
        PROVE  r[k] = Step(r[k - 1], cs[k])
    <3>1. /\ 1 .. k \in SUBSET (1 .. n) /\ 1 .. k # {}
          /\ Max(1 .. k) = k /\ (1 .. k) \ {Max(1 .. k)} = 1 .. k - 1
      BY ONLY <1>1, <2>2, LoopPrefixes
    <3>2. k \in 0 .. n /\ k - 1 \in 0 .. n /\ seq[k] = cs[k]
      BY <1>1
    <3>3. iter[1 .. k] = Step(iter[1 .. k - 1], cs[k])
      <4> HIDE DEF start, seq
      <4> QED  BY <1>1, <1>5, <3>1, <3>2
    <3> QED  BY <3>2, <3>3
  <2> QED  BY <2>1, <2>2
<1> HIDE DEF r, start
<1> DEFINE S == {k \in 0 .. n : r[k] \in LoopState}
<1>7. 0 \in S /\ \A k \in 0 .. n - 1 : k \in S => k + 1 \in S
  <2>1. 0 \in S
    BY <1>1, <1>2, <1>6
  <2>2. ASSUME NEW k \in 0 .. n - 1, k \in S
        PROVE  k + 1 \in S
    <3>1. k + 1 \in 1 .. n /\ k + 1 \in 0 .. n /\ (k + 1) - 1 = k
      BY <1>1
    <3>2. r[k + 1] = Step(r[k], cs[k + 1])
      BY <1>6, <3>1
    <3>3. Step(r[k], cs[k + 1]) \in LoopState
      BY <1>1, <2>2, <3>1, ClaimStepType DEF Step
    <3> QED  BY <3>1, <3>2, <3>3
  <2> QED  BY <2>1, <2>2
<1> HIDE DEF S
<1>8. \A k \in 0 .. n : k \in S
  BY <1>1, <1>7, UpTo
<1>9. r \in [0 .. n -> LoopState]
  BY <1>8 DEF S, r
<1>10. r[n] = iter[DOMAIN seq]
  BY <1>1 DEF r
<1> QED
  BY <1>3, <1>6, <1>9, <1>10 DEF IsClaimLoop, start, Step

-----------------------------------------------------------------------------
\* What an iteration that does not revert does

\* A ledger in which nobody may take the bridge's own tokens.
BridgeClosed(l) == \A s \in Spenders : l.allowance[BridgeAddress][s] = 0

GoodLedger(l) == l \in Ledger /\ BridgeClosed(l)

GoodPermits(permits) == \A i \in DOMAIN permits : permits[i].owner # BridgeAddress

\* What one iteration of a deposit does when it does not revert: s is the state before it and
\* n the one after it.
DepositEffect(s, n, t, d, callContract, reserveBalance) ==
    LET data == tokenData[t]
    IN  /\ s.ok /\ ~ s.ledger.paused
        /\ d.from # BridgeAddress /\ d.to # NoAddress
        /\ callContract # NoAddress => d.amount >= reserveBalance
        /\ Admits(s.usage, data.minAmount, data.depositLimit, d.amount, now)
        /\ n.usage = Charged(s.usage, data.depositLimit, d.amount, now) /\ n.usage \in Usage
        /\ GoodLedger(n.ledger) /\ n.ledger.paused = s.ledger.paused
        /\ \A a \in Accounts :
             /\ n.ledger.nonce[a] >= s.ledger.nonce[a]
             /\ n.ledger.balance[a] = s.ledger.balance[a]
                  + ((IF a = BridgeAddress THEN d.amount ELSE 0)
                      - (IF a = d.from THEN d.amount ELSE 0))

\* An iteration of _processBatchDeposit that does not revert has this effect.
LEMMA DepositStepEffect ==
    ASSUME BridgeTypeOK, NEW t \in Tokens, NEW ds, DepositBatch(ds), NEW permits, GoodPermits(permits),
           NEW callContract, NEW reserveBalance, NEW s \in LoopState, NEW i \in DOMAIN ds,
           GoodLedger(s.ledger), s.usage \in Usage,
           DepositStep(t, ds, permits, callContract, reserveBalance, s, i).ok
    PROVE  DepositEffect(s, DepositStep(t, ds, permits, callContract, reserveBalance, s, i), t, ds[i],
                         callContract, reserveBalance)
<1> DEFINE d == ds[i]
           data == tokenData[t]
           l == IF i \in DOMAIN permits
                THEN TryPermit(s.ledger, t, d.from, BridgeAddress, d.amount, permits[i])
                ELSE s.ledger
           m == TransferredFrom(l, BridgeAddress, d.from, BridgeAddress, d.amount)
           u == Charged(s.usage, data.depositLimit, d.amount, now)
           n == DepositStep(t, ds, permits, callContract, reserveBalance, s, i)
<1>1. /\ n.ledger = m /\ n.usage = u /\ s.ok
      /\ callContract # NoAddress => d.amount >= reserveBalance
      /\ d.to # NoAddress
      /\ Admits(s.usage, data.minAmount, data.depositLimit, d.amount, now)
      /\ TransferableFrom(l, BridgeAddress, d.from, d.amount)
  BY DEF DepositStep
<1> HIDE DEF n
<1>2. /\ d.from \in Accounts /\ d.amount \in Nat
      /\ BridgeAddress \in Accounts /\ BridgeAddress \in Spenders
      /\ MaxUint \in Nat
  BY BridgeAssumption, TokenAssumption DEF DepositBatch, Batch
<1>3. data.minAmount \in Nat /\ data.depositLimit \in Nat /\ now \in Nat
  BY TypesUsed
<1>4. u \in Usage
  BY <1>1, <1>2, <1>3, ChargedUsage
<1>5. d.amount > 0
  BY <1>1, <1>2, <1>3 DEF Admits
<1>6. s.ledger \in Ledger /\ s.ledger \in LoopLedger /\ BridgeClosed(s.ledger)
  BY LedgerLoops DEF GoodLedger
<1> HIDE DEF d, data, u
<1>7. /\ l \in LoopLedger /\ l.balance = s.ledger.balance /\ l.paused = s.ledger.paused
      /\ \A a \in Accounts : l.nonce[a] \in Nat /\ l.nonce[a] >= s.ledger.nonce[a]
      /\ l.allowance[d.from][BridgeAddress] \in {d.amount, s.ledger.allowance[d.from][BridgeAddress]}
      /\ \A a \in Accounts, sp \in Spenders :
           (a # d.from \/ sp # BridgeAddress) => l.allowance[a][sp] = s.ledger.allowance[a][sp]
      /\ d.from = BridgeAddress => l = s.ledger
  <2>1. CASE i \in DOMAIN permits
    <3>1. permits[i].owner # BridgeAddress
      BY <2>1 DEF GoodPermits
    <3> DEFINE p == permits[i]
    <3>2. l = TryPermit(s.ledger, t, d.from, BridgeAddress, d.amount, p)
      BY <2>1
    <3>3. p.owner # BridgeAddress
      BY <3>1
    <3> HIDE DEF l, p
    <3>4. PermitEffect(l, s.ledger, d.from, BridgeAddress, d.amount, p)
      BY <1>2, <1>6, <3>2, TryPermitEffect
    <3> QED  BY <3>3, <3>4 DEF PermitEffect
  <2>2. CASE i \notin DOMAIN permits
    <3>1. \A a \in Accounts : s.ledger.nonce[a] \in Nat
      BY <1>6 DEF Ledger
    <3> QED  BY <1>6, <2>2, <3>1
  <2> QED  BY <2>1, <2>2
<1> HIDE DEF l
<1>8. d.from # BridgeAddress
  BY <1>1, <1>2, <1>5, <1>6, <1>7 DEF TransferableFrom, BridgeClosed
<1>9. /\ m \in LoopLedger /\ m.nonce = l.nonce /\ m.paused = l.paused
      /\ \A a \in Accounts :
           m.balance[a] = l.balance[a] - (IF a = d.from THEN d.amount ELSE 0)
                            + (IF a = BridgeAddress THEN d.amount ELSE 0)
      /\ m.allowance[d.from][BridgeAddress] \in {MaxUint, l.allowance[d.from][BridgeAddress] - d.amount}
      /\ \A a \in Accounts, sp \in Spenders :
           (a # d.from \/ sp # BridgeAddress) => m.allowance[a][sp] = l.allowance[a][sp]
  BY <1>2, <1>7, TransferredFromEffect
<1> HIDE DEF m
<1>10. /\ \A a \in Accounts : s.ledger.balance[a] \in Nat
       /\ \A a \in Accounts, sp \in Spenders : s.ledger.allowance[a][sp] \in Nat
  BY <1>6 DEF Ledger
<1>11. /\ ~ l.paused
       /\ s.ledger.balance[d.from] >= d.amount
       /\ l.allowance[d.from][BridgeAddress] >= d.amount
       /\ l.allowance[d.from][BridgeAddress] \in Nat
  BY <1>1, <1>2, <1>7, <1>10 DEF TransferableFrom, Transferable
<1>12. \A a \in Accounts : /\ m.balance[a] \in Nat
                           /\ m.balance[a] = s.ledger.balance[a]
                                 + ((IF a = BridgeAddress THEN d.amount ELSE 0)
                                    - (IF a = d.from THEN d.amount ELSE 0))
  BY <1>2, <1>7, <1>9, <1>10, <1>11
<1>13. \A a \in Accounts, sp \in Spenders : m.allowance[a][sp] \in Nat
  BY <1>2, <1>7, <1>9, <1>10, <1>11
<1>14. m \in Ledger
  BY <1>9, <1>12, <1>13, LedgerIs
<1>15. BridgeClosed(m)
  BY <1>2, <1>6, <1>7, <1>8, <1>9 DEF BridgeClosed
<1>16. m.paused = s.ledger.paused /\ \A a \in Accounts : m.nonce[a] >= s.ledger.nonce[a]
  BY <1>7, <1>9
<1> QED
  BY <1>1, <1>4, <1>7, <1>8, <1>11, <1>12, <1>14, <1>15, <1>16 DEF GoodLedger, DepositEffect, d, data, n, u

\* What one iteration of a claim does when it does not revert.
ClaimEffect(s, n, t, c) ==
    LET data == tokenData[t]
    IN  /\ s.ok /\ ~ s.ledger.paused /\ c.to # NoAddress
        /\ Admits(s.usage, data.minAmount, data.claimLimit, c.amount, now)
        /\ n.usage = Charged(s.usage, data.claimLimit, c.amount, now) /\ n.usage \in Usage
        /\ GoodLedger(n.ledger) /\ n.ledger.paused = s.ledger.paused
        /\ n.ledger.nonce = s.ledger.nonce
        /\ \A a \in Accounts :
             n.ledger.balance[a] = s.ledger.balance[a]
                  + ((IF a = c.to THEN c.amount ELSE 0)
                      - (IF a = BridgeAddress THEN c.amount ELSE 0))

\* An iteration of batchClaim that does not revert has this effect.
LEMMA ClaimStepEffect ==
    ASSUME BridgeTypeOK, NEW t \in Tokens, NEW c, c.amount \in Nat, NEW s \in LoopState,
           GoodLedger(s.ledger), s.usage \in Usage, ClaimStep(t, s, c).ok
    PROVE  ClaimEffect(s, ClaimStep(t, s, c), t, c)
<1> DEFINE data == tokenData[t]
           m == Transferred(s.ledger, BridgeAddress, c.to, c.amount)
           u == Charged(s.usage, data.claimLimit, c.amount, now)
           n == ClaimStep(t, s, c)
<1>1. /\ n.ledger = m /\ n.usage = u /\ s.ok
      /\ c.to # NoAddress
      /\ Admits(s.usage, data.minAmount, data.claimLimit, c.amount, now)
      /\ Transferable(s.ledger, BridgeAddress, c.amount)
  BY DEF ClaimStep, ClaimLimit
<1> HIDE DEF n
<1>2. BridgeAddress \in Accounts
  BY BridgeAssumption
<1>3. data.minAmount \in Nat /\ data.claimLimit \in Nat /\ now \in Nat
  BY TypesUsed
<1>4. u \in Usage
  BY <1>1, <1>3, ChargedUsage
<1>5. s.ledger \in Ledger /\ s.ledger \in LoopLedger /\ BridgeClosed(s.ledger)
  BY LedgerLoops DEF GoodLedger
<1> HIDE DEF data, u
<1>6. /\ m \in LoopLedger
      /\ m.allowance = s.ledger.allowance /\ m.nonce = s.ledger.nonce /\ m.paused = s.ledger.paused
      /\ \A a \in Accounts :
           m.balance[a] = s.ledger.balance[a] - (IF a = BridgeAddress THEN c.amount ELSE 0)
                            + (IF a = c.to THEN c.amount ELSE 0)
  BY <1>2, <1>5, TransferredEffect
<1> HIDE DEF m
<1>7. /\ \A a \in Accounts : s.ledger.balance[a] \in Nat
      /\ \A a \in Accounts, sp \in Spenders : s.ledger.allowance[a][sp] \in Nat
  BY <1>5 DEF Ledger
<1>8. ~ s.ledger.paused /\ s.ledger.balance[BridgeAddress] >= c.amount
  BY <1>1 DEF Transferable
<1>9. \A a \in Accounts : /\ m.balance[a] \in Nat
                          /\ m.balance[a] = s.ledger.balance[a]
                               + ((IF a = c.to THEN c.amount ELSE 0)
                                  - (IF a = BridgeAddress THEN c.amount ELSE 0))
  BY <1>2, <1>6, <1>7, <1>8
<1>10. m \in Ledger /\ BridgeClosed(m)
  BY <1>5, <1>6, <1>7, <1>9, LedgerIs DEF BridgeClosed
<1> QED
  BY <1>1, <1>4, <1>6, <1>8, <1>9, <1>10 DEF GoodLedger, ClaimEffect, data, n, u

-----------------------------------------------------------------------------
\* What a whole batch does: sums over its items

AmountsOf(seq) == [i \in 1 .. Len(seq) |-> seq[i].amount]

TotalOf(seq) == SumFunctionOnSet(AmountsOf(seq), 1 .. Len(seq))

\* A batch has a total.
LEMMA TotalOfBatch ==
    ASSUME NEW seq, Batch(seq)
    PROVE  AmountsOf(seq) \in [1 .. Len(seq) -> Nat] /\ TotalOf(seq) \in Nat
<1> DEFINE n == Len(seq)
           a == AmountsOf(seq)
<1>1. n \in Nat /\ \A i \in 1 .. n : seq[i].amount \in Nat
  BY DEF Batch
<1>2. a \in [1 .. n -> Nat]
  <2> HIDE DEF n
  <2> QED  BY <1>1 DEF AmountsOf, n
<1> HIDE DEF n, a
<1>3. \A i \in 1 .. n : a[i] \in Nat
  BY <1>2
<1>4. IsFiniteSet(1 .. n)
  BY <1>1, FS_Interval
<1>5. SumFunctionOnSet(a, 1 .. n) \in Nat
  BY ONLY <1>3, <1>4, SumNonNegative
<1> QED
  BY <1>2, <1>5 DEF TotalOf, a, n

\* How the balance of a changes with each item of a deposit, or of a claim.
DepositChange(ds, a) ==
    [i \in 1 .. Len(ds) |-> (IF a = BridgeAddress THEN ds[i].amount ELSE 0)
                               - (IF a = ds[i].from THEN ds[i].amount ELSE 0)]

ClaimChange(cs, a) ==
    [i \in 1 .. Len(cs) |-> (IF a = cs[i].to THEN cs[i].amount ELSE 0)
                               - (IF a = BridgeAddress THEN cs[i].amount ELSE 0)]

\* A deposit that does not revert charges its total to the limiter in one charge, and changes
\* every balance by the sum of what its items change.
LEMMA DepositRunEffect ==
    ASSUME BridgeTypeOK, NEW t \in Tokens, NEW ds, DepositBatch(ds), NEW permits, GoodPermits(permits),
           NEW callContract, NEW reserveBalance, GoodLedger(ledger[t]),
           DepositRun(t, ds, permits, callContract, reserveBalance).ok
    PROVE  LET run == DepositRun(t, ds, permits, callContract, reserveBalance)
               data == tokenData[t]
           IN  /\ ~ ledger[t].paused /\ run.ledger.paused = ledger[t].paused
               /\ GoodLedger(run.ledger)
               /\ \A i \in 1 .. Len(ds) : /\ ds[i].from # BridgeAddress /\ ds[i].to # NoAddress
                                          /\ callContract # NoAddress => ds[i].amount >= reserveBalance
               /\ Admits(data.depositUsage, data.minAmount, data.depositLimit, TotalOf(ds), now)
               /\ run.usage = Charged(data.depositUsage, data.depositLimit, TotalOf(ds), now)
               /\ run.usage \in Usage
               /\ \A a \in Accounts :
                    /\ run.ledger.nonce[a] >= ledger[t].nonce[a]
                    /\ run.ledger.balance[a] =
                         ledger[t].balance[a] + SumFunctionOnSet(DepositChange(ds, a), 1 .. Len(ds))
<1> DEFINE n == Len(ds)
           data == tokenData[t]
           run == DepositRun(t, ds, permits, callContract, reserveBalance)
           Step(s, i) == DepositStep(t, ds, permits, callContract, reserveBalance, s, i)
<1>1. /\ n \in Nat \ {0} /\ DOMAIN ds = 1 .. n
      /\ \A i \in 1 .. n : ds[i].amount \in Nat
  BY DEF DepositBatch, Batch
<1>2. PICK r : /\ IsDepositLoop(r, t, ds, permits, callContract, reserveBalance)
               /\ run = r[n]
  BY DepositLoop
<1>3. /\ r \in [0 .. n -> LoopState]
      /\ r[0].usage = data.depositUsage /\ r[0].ledger = ledger[t]
      /\ \A k \in 1 .. n : r[k] = Step(r[k - 1], k)
  BY <1>2 DEF IsDepositLoop
<1>4. \A k \in 0 .. n : r[k].ok
  <2>1. ASSUME NEW k \in 1 .. n, r[k].ok
        PROVE  r[k - 1].ok
    <3>1. Step(r[k - 1], k).ok
      BY <1>3, <2>1
    <3> QED  BY <3>1 DEF DepositStep
  <2> HIDE DEF n, run
  <2>2. r[n].ok
    BY <1>2 DEF run
  <2> QED  BY <1>1, <2>1, <2>2, LoopOk
<1> DEFINE Effect(k) == DepositEffect(r[k - 1], r[k], t, ds[k], callContract, reserveBalance)
           Good(k) == GoodLedger(r[k].ledger) /\ r[k].usage \in Usage
<1>5. ASSUME NEW k \in 1 .. n, Good(k - 1)
      PROVE  Effect(k)
  <2>1. k \in DOMAIN ds /\ k - 1 \in 0 .. n /\ k \in 0 .. n
    BY <1>1
  <2>2. r[k - 1] \in LoopState /\ r[k] = Step(r[k - 1], k) /\ r[k].ok
    BY <1>3, <1>4, <2>1
  <2> HIDE DEF data
  <2> QED  BY <1>5, <2>1, <2>2, DepositStepEffect DEF data
<1> HIDE DEF Step, run
<1> DEFINE S == {k \in 0 .. n : Good(k) /\ r[k].ledger.paused = ledger[t].paused
                                 /\ \A a \in Accounts : r[k].ledger.nonce[a] >= ledger[t].nonce[a]}
<1>6. 0 \in S
  <2>1. data.depositUsage \in Usage /\ \A a \in Accounts : ledger[t].nonce[a] \in Nat
    BY TypesUsed DEF GoodLedger, Ledger
  <2> QED  BY <1>1, <1>3, <2>1
<1>7. ASSUME NEW k \in 0 .. n - 1, k \in S
      PROVE  k + 1 \in S
  <2>1. k + 1 \in 1 .. n /\ k + 1 \in 0 .. n /\ (k + 1) - 1 = k /\ k \in 0 .. n
    BY <1>1
  <2>2. DepositEffect(r[k], r[k + 1], t, ds[k + 1], callContract, reserveBalance)
    BY <1>5, <1>7, <2>1
  <2>3. \A a \in Accounts : /\ r[k].ledger.nonce[a] \in Nat /\ ledger[t].nonce[a] \in Nat
                            /\ r[k + 1].ledger.nonce[a] \in Nat
    BY <1>7, <2>2 DEF GoodLedger, Ledger, DepositEffect
  <2> QED  BY <1>7, <2>1, <2>2, <2>3 DEF DepositEffect
<1> HIDE DEF S
<1>8. \A k \in 0 .. n : k \in S
  BY <1>1, <1>6, <1>7, UpTo
<1>9. \A k \in 0 .. n : Good(k)
  BY <1>8 DEF S
<1>10. \A k \in 1 .. n : k - 1 \in 0 .. n /\ Effect(k)
  <2> TAKE k \in 1 .. n
  <2>1. k - 1 \in 0 .. n
    BY <1>1
  <2> QED  BY <1>5, <1>9, <2>1
<1>11. /\ Admits(data.depositUsage, data.minAmount, data.depositLimit, TotalOf(ds), now)
       /\ run.usage = Charged(data.depositUsage, data.depositLimit, TotalOf(ds), now)
       /\ run.usage \in Usage
  <2> DEFINE u == [k \in 0 .. n |-> r[k].usage]
             min == data.minAmount  lim == data.depositLimit  a == AmountsOf(ds)
  <2>1. /\ u \in [0 .. n -> Usage] /\ a \in [1 .. n -> Nat]
        /\ min \in Nat /\ lim \in Nat /\ now \in Nat
    BY <1>9, TypesUsed, TotalOfBatch DEF DepositBatch
  <2>2. n \in Nat \ {0} /\ AreCharges(u, n, min, lim, now, a)
    BY <1>1, <1>10 DEF DepositEffect, AmountsOf, AreCharges
  <2>3. u[0] = data.depositUsage /\ u[n] = run.usage /\ u[n] \in Usage
    BY <1>1, <1>2, <1>3, <1>9
  <2> HIDE DEF u, min, lim, a, n
  <2>4. Admits(u[0], min, lim, SumFunctionOnSet(a, 1 .. n), now)
        /\ u[n] = Charged(u[0], lim, SumFunctionOnSet(a, 1 .. n), now)
    BY ONLY <2>1, <2>2, ChargesAdd
  <2> QED  BY <2>3, <2>4 DEF min, lim, a, n, TotalOf
<1>12. ASSUME NEW a \in Accounts
       PROVE  run.ledger.balance[a] =
                ledger[t].balance[a] + SumFunctionOnSet(DepositChange(ds, a), 1 .. n)
  <2> DEFINE x == [k \in 0 .. n |-> r[k].ledger.balance[a]]
             f == DepositChange(ds, a)
  <2>1. \A k \in 0 .. n : r[k].ledger.balance[a] \in Nat
    BY <1>9 DEF GoodLedger, Ledger
  <2>2. x \in [0 .. n -> Int]
    BY <2>1
  <2>3. f \in [1 .. n -> Int]
    BY <1>1 DEF DepositChange
  <2>4. \A k \in 1 .. n : x[k] = x[k - 1] + f[k]
    BY <1>1, <1>10 DEF DepositEffect, DepositChange
  <2>5. x[0] = ledger[t].balance[a] /\ x[n] = run.ledger.balance[a]
    BY <1>1, <1>2, <1>3
  <2> HIDE DEF x, f, n
  <2>6. x[n] = x[0] + SumFunctionOnSet(f, 1 .. n)
    BY ONLY <1>1, <2>2, <2>3, <2>4, ChangesAdd
  <2> QED  BY <2>5, <2>6 DEF f
<1>13. /\ ~ ledger[t].paused
       /\ \A i \in 1 .. n : /\ ds[i].from # BridgeAddress /\ ds[i].to # NoAddress
                            /\ callContract # NoAddress => ds[i].amount >= reserveBalance
  <2>1. 1 \in 1 .. n /\ 1 - 1 = 0
    BY <1>1
  <2> QED  BY <1>3, <1>10, <2>1 DEF DepositEffect
<1>14. /\ run.ledger.paused = ledger[t].paused /\ GoodLedger(run.ledger)
       /\ \A a \in Accounts : run.ledger.nonce[a] >= ledger[t].nonce[a]
  <2>1. n \in S
    BY <1>1, <1>8
  <2> QED  BY <1>2, <2>1 DEF S
<1> QED
  BY <1>11, <1>12, <1>13, <1>14 DEF run

\* What a loop of claims that does not revert has done: it has paid every item, out of the
\* bridge's balance.
LEMMA ClaimRunEffect ==
    ASSUME BridgeTypeOK, NEW t \in Tokens, NEW cs, Batch(cs), GoodLedger(ledger[t]), ClaimRun(t, cs).ok
    PROVE  LET run == ClaimRun(t, cs)
               data == tokenData[t]
           IN  /\ ~ ledger[t].paused /\ run.ledger.paused = ledger[t].paused
               /\ GoodLedger(run.ledger)
               /\ \A i \in 1 .. Len(cs) : cs[i].to # NoAddress
               /\ Admits(data.claimUsage, data.minAmount, data.claimLimit, TotalOf(cs), now)
               /\ run.usage = Charged(data.claimUsage, data.claimLimit, TotalOf(cs), now)
               /\ run.usage \in Usage
               /\ \A a \in Accounts :
                    /\ run.ledger.nonce[a] = ledger[t].nonce[a]
                    /\ run.ledger.balance[a] =
                         ledger[t].balance[a] + SumFunctionOnSet(ClaimChange(cs, a), 1 .. Len(cs))
<1> DEFINE n == Len(cs)
           data == tokenData[t]
           run == ClaimRun(t, cs)
           Step(s, c) == ClaimStep(t, s, c)
<1>1. /\ n \in Nat \ {0} /\ DOMAIN cs = 1 .. n
      /\ \A i \in 1 .. n : cs[i].amount \in Nat
  BY DEF Batch
<1>2. PICK r : /\ IsClaimLoop(r, t, cs)
               /\ run = r[n]
  BY ClaimLoop
<1>3. /\ r \in [0 .. n -> LoopState]
      /\ r[0].usage = data.claimUsage /\ r[0].ledger = ledger[t]
      /\ \A k \in 1 .. n : r[k] = Step(r[k - 1], cs[k])
  BY <1>2 DEF IsClaimLoop
<1>4. \A k \in 0 .. n : r[k].ok
  <2>1. ASSUME NEW k \in 1 .. n, r[k].ok
        PROVE  r[k - 1].ok
    <3>1. Step(r[k - 1], cs[k]).ok
      BY <1>3, <2>1
    <3> QED  BY <3>1 DEF ClaimStep
  <2> HIDE DEF n, run
  <2>2. r[n].ok
    BY <1>2 DEF run
  <2> QED  BY <1>1, <2>1, <2>2, LoopOk
<1> DEFINE Effect(k) == ClaimEffect(r[k - 1], r[k], t, cs[k])
           Good(k) == GoodLedger(r[k].ledger) /\ r[k].usage \in Usage
<1>5. ASSUME NEW k \in 1 .. n, Good(k - 1)
      PROVE  Effect(k)
  <2>1. k \in DOMAIN cs /\ k - 1 \in 0 .. n /\ k \in 0 .. n
    BY <1>1
  <2>2. r[k - 1] \in LoopState /\ r[k] = Step(r[k - 1], cs[k]) /\ r[k].ok
    BY <1>3, <1>4, <2>1
  <2>3. cs[k].amount \in Nat
    BY <1>1
  <2> DEFINE c == cs[k]  s == r[k - 1]  m == r[k]
  <2>4. /\ c.amount \in Nat /\ s \in LoopState /\ GoodLedger(s.ledger) /\ s.usage \in Usage
        /\ ClaimStep(t, s, c).ok /\ m = ClaimStep(t, s, c)
    BY <1>5, <2>2, <2>3
  <2>5. ClaimEffect(s, m, t, c)
    <3> HIDE DEF c, s, m
    <3> QED  BY ONLY <2>4, ClaimStepEffect, BridgeTypeOK, t \in Tokens
  <2> QED  BY <2>5
<1> HIDE DEF Step, run
<1> DEFINE S == {k \in 0 .. n : Good(k) /\ r[k].ledger.paused = ledger[t].paused
                                 /\ \A a \in Accounts : r[k].ledger.nonce[a] = ledger[t].nonce[a]}
<1>6. 0 \in S
  <2>1. data.claimUsage \in Usage /\ \A a \in Accounts : ledger[t].nonce[a] \in Nat
    BY TypesUsed DEF GoodLedger, Ledger
  <2> QED  BY <1>1, <1>3, <2>1
<1>7. ASSUME NEW k \in 0 .. n - 1, k \in S
      PROVE  k + 1 \in S
  <2>1. k + 1 \in 1 .. n /\ k + 1 \in 0 .. n /\ (k + 1) - 1 = k /\ k \in 0 .. n
    BY <1>1
  <2>2. ClaimEffect(r[k], r[k + 1], t, cs[k + 1])
    BY <1>5, <1>7, <2>1
  <2>3. \A a \in Accounts : /\ r[k].ledger.nonce[a] \in Nat /\ ledger[t].nonce[a] \in Nat
                            /\ r[k + 1].ledger.nonce[a] \in Nat
    BY <1>7, <2>2 DEF GoodLedger, Ledger, ClaimEffect
  <2> QED  BY <1>7, <2>1, <2>2, <2>3 DEF ClaimEffect
<1> HIDE DEF S
<1>8. \A k \in 0 .. n : k \in S
  BY <1>1, <1>6, <1>7, UpTo
<1>9. \A k \in 0 .. n : Good(k)
  BY <1>8 DEF S
<1>10. \A k \in 1 .. n : k - 1 \in 0 .. n /\ Effect(k)
  <2> TAKE k \in 1 .. n
  <2>1. k - 1 \in 0 .. n
    BY <1>1
  <2> QED  BY <1>5, <1>9, <2>1
<1>11. /\ Admits(data.claimUsage, data.minAmount, data.claimLimit, TotalOf(cs), now)
       /\ run.usage = Charged(data.claimUsage, data.claimLimit, TotalOf(cs), now)
       /\ run.usage \in Usage
  <2> DEFINE u == [k \in 0 .. n |-> r[k].usage]
             min == data.minAmount  lim == data.claimLimit  a == AmountsOf(cs)
  <2>1. /\ u \in [0 .. n -> Usage] /\ a \in [1 .. n -> Nat]
        /\ min \in Nat /\ lim \in Nat /\ now \in Nat
    BY <1>9, TypesUsed, TotalOfBatch DEF Batch
  <2>2. n \in Nat \ {0} /\ AreCharges(u, n, min, lim, now, a)
    BY <1>1, <1>10 DEF ClaimEffect, AmountsOf, AreCharges
  <2>3. u[0] = data.claimUsage /\ u[n] = run.usage /\ u[n] \in Usage
    BY <1>1, <1>2, <1>3, <1>9
  <2> HIDE DEF u, min, lim, a, n
  <2>4. Admits(u[0], min, lim, SumFunctionOnSet(a, 1 .. n), now)
        /\ u[n] = Charged(u[0], lim, SumFunctionOnSet(a, 1 .. n), now)
    BY ONLY <2>1, <2>2, ChargesAdd
  <2> QED  BY <2>3, <2>4 DEF min, lim, a, n, TotalOf
<1>12. ASSUME NEW a \in Accounts
       PROVE  run.ledger.balance[a] =
                ledger[t].balance[a] + SumFunctionOnSet(ClaimChange(cs, a), 1 .. n)
  <2> DEFINE x == [k \in 0 .. n |-> r[k].ledger.balance[a]]
             f == ClaimChange(cs, a)
  <2>1. \A k \in 0 .. n : r[k].ledger.balance[a] \in Nat
    BY <1>9 DEF GoodLedger, Ledger
  <2>2. x \in [0 .. n -> Int]
    BY <2>1
  <2>3. f \in [1 .. n -> Int]
    BY <1>1 DEF ClaimChange
  <2>4. \A k \in 1 .. n : x[k] = x[k - 1] + f[k]
    BY <1>1, <1>10 DEF ClaimEffect, ClaimChange
  <2>5. x[0] = ledger[t].balance[a] /\ x[n] = run.ledger.balance[a]
    BY <1>1, <1>2, <1>3
  <2> HIDE DEF x, f, n
  <2>6. x[n] = x[0] + SumFunctionOnSet(f, 1 .. n)
    BY ONLY <1>1, <2>2, <2>3, <2>4, ChangesAdd
  <2> QED  BY <2>5, <2>6 DEF f
<1>13. /\ ~ ledger[t].paused
       /\ \A i \in 1 .. n : cs[i].to # NoAddress
  <2>1. 1 \in 1 .. n /\ 1 - 1 = 0
    BY <1>1
  <2> QED  BY <1>3, <1>10, <2>1 DEF ClaimEffect
<1>14. /\ run.ledger.paused = ledger[t].paused /\ GoodLedger(run.ledger)
       /\ \A a \in Accounts : run.ledger.nonce[a] = ledger[t].nonce[a]
  <2>1. n \in S
    BY <1>1, <1>8
  <2> QED  BY <1>2, <2>1 DEF S
<1> QED
  BY <1>11, <1>12, <1>13, <1>14 DEF run

-----------------------------------------------------------------------------
\* Deposits and claims as calls of the bridge

\* The invariant: nobody has, or can get, an allowance of the bridge's own tokens.
BridgeInv ==
    /\ BridgeTypeOK
    /\ \A t \in Tokens : BridgeClosed(ledger[t])
    /\ \A p \in signedPermits : p.owner \in Callers

\* A deposit, direct or in a batch, and a claim, as calls of the bridge.
IsDeposit(t, ds, permits, callContract, reserveBalance) ==
    /\ t \in Tokens /\ DepositBatch(ds) /\ GoodPermits(permits)
    /\ Operational /\ CallAllowed(callContract, reserveBalance)
    /\ Deposited(t, ds, permits, callContract, reserveBalance)

IsClaim(t, cs) == t \in Tokens /\ Batch(cs) /\ Claimed(t, cs)

\* deposit and batchDeposit are deposits in this sense; claim and batchClaim are claims.
\* Depositors deposit what is theirs, and relayers one of the batches they are given.
Presented(ds) ==
    ds \in DepositBatches \/ \A i \in DOMAIN ds : ds[i].from \in Callers /\ ds[i].to \in Callers

\* Every call that deposits is such a deposit.
LEMMA DepositCallsPresented ==
    ASSUME BridgeInv, DepositCalls
    PROVE  \E t, ds, permits, callContract, reserveBalance :
              IsDeposit(t, ds, permits, callContract, reserveBalance) /\ Presented(ds)
<1>1. CASE DirectDepositCalls
  <2>1. PICK sender \in Callers, t \in Tokens, amount \in Amounts, reserveBalance \in Reserves,
             callContract \in CallContracts \cup {NoAddress},
             permits \in {<<>>} \cup {<<p>> : p \in signedPermits} :
               Deposit(sender, t, amount, sender, callContract, reserveBalance, permits)
    BY <1>1, Zenon DEF DirectDepositCalls
  <2> DEFINE one == <<[from |-> sender, to |-> sender, amount |-> amount]>>
  <2>2. Public /\ CallAllowed(callContract, reserveBalance)
        /\ Deposited(t, one, permits, callContract, reserveBalance)
    BY <2>1, Zenon DEF Deposit
  <2>3. sender \in Accounts /\ amount \in Nat
    BY BridgeAssumption
  <2>4. DepositBatch(one)
    BY <2>3 DEF DepositBatch, Batch
  <2>5. GoodPermits(permits)
    BY <2>1, BridgeAssumption DEF GoodPermits, BridgeInv
  <2>7. Presented(one)
    BY DEF Presented
  <2> HIDE DEF one
  <2>6. IsDeposit(t, one, permits, callContract, reserveBalance)
    BY <2>2, <2>4, <2>5 DEF IsDeposit, Public, Operational
  <2> QED  BY <2>6, <2>7
<1>2. CASE BatchDepositCalls
  <2>1. PICK sender \in Relayers, t \in Tokens, ds \in DepositBatches, reserveBalance \in Reserves,
             callContract \in CallContracts \cup {NoAddress} :
               \E permits \in SeqOf(signedPermits, Len(ds)) :
                   BatchDeposit(sender, t, ds, permits, callContract, reserveBalance)
    BY <1>2, Zenon DEF BatchDepositCalls
  <2> PICK permits \in SeqOf(signedPermits, Len(ds)) :
            BatchDeposit(sender, t, ds, permits, callContract, reserveBalance)
    BY <2>1
  <2>2. /\ Operational /\ CallAllowed(callContract, reserveBalance)
        /\ Deposited(t, ds, permits, callContract, reserveBalance)
    BY Zenon DEF BatchDeposit
  <2>3. DepositBatch(ds)
    BY <2>1, BridgeAssumption DEF DepositBatch, Batch
  <2>4. GoodPermits(permits)
    <3>1. PICK m \in 0 .. Len(ds) : permits \in [1 .. m -> signedPermits]
      BY DEF SeqOf
    <3>2. \A i \in DOMAIN permits : permits[i] \in signedPermits
      BY <3>1
    <3> QED  BY <3>2, BridgeAssumption DEF GoodPermits, BridgeInv
  <2>5. IsDeposit(t, ds, permits, callContract, reserveBalance)
    BY <2>1, <2>2, <2>3, <2>4 DEF IsDeposit
  <2>6. Presented(ds)
    BY <2>1 DEF Presented
  <2> QED  BY <2>5, <2>6
<1> QED
  BY <1>1, <1>2 DEF DepositCalls

\* Every call that deposits is a deposit.
LEMMA DepositCallsDeposit ==
    ASSUME BridgeInv, DepositCalls
    PROVE  \E t, ds, permits, callContract, reserveBalance :
              IsDeposit(t, ds, permits, callContract, reserveBalance)
  BY DepositCallsPresented, Zenon

\* Every call that claims is a claim.
LEMMA ClaimCallsClaim ==
    ASSUME ClaimCalls
    PROVE  \E t, cs : IsClaim(t, cs)
<1>1. PICK t \in Tokens, cs \in ClaimBatches : Claim(t, cs[1]) \/ BatchClaim(t, cs)
  BY Zenon DEF ClaimCalls
<1>2. Len(cs) \in Nat \ {0} /\ DOMAIN cs = 1 .. Len(cs) /\ \A i \in DOMAIN cs : cs[i].amount \in Nat
  BY BridgeAssumption
<1>3. CASE Claim(t, cs[1])
  <2> DEFINE one == <<cs[1]>>
  <2>1. Claimed(t, one)
    BY <1>3 DEF Claim
  <2>2. cs[1].amount \in Nat
    BY <1>2
  <2>3. Batch(one)
    BY <2>2 DEF Batch
  <2> HIDE DEF one
  <2>4. IsClaim(t, one)
    BY <2>1, <2>3 DEF IsClaim
  <2> QED  BY <2>4
<1>4. CASE BatchClaim(t, cs)
  <2>1. IsClaim(t, cs)
    BY <1>2, <1>4 DEF BatchClaim, IsClaim, Batch
  <2> QED  BY <2>1
<1> QED
  BY <1>1, <1>3, <1>4

\* What a step does to one token's ledger, and to nothing else.
LEMMA LedgerReplaced ==
    ASSUME BridgeInv, NEW t \in Tokens, NEW l, GoodLedger(l), ledger' = [ledger EXCEPT ![t] = l]
    PROVE  /\ ledger' \in [Tokens -> Ledger]
           /\ \A u \in Tokens : BridgeClosed(ledger'[u])
           /\ ledger'[t] = l
           /\ \A u \in Tokens \ {t} : ledger'[u] = ledger[u]
  BY DEF BridgeInv, BridgeTypeOK, TokenTypeOK, GoodLedger

\* What a deposit does to the state of the bridge and of the token.
LEMMA DepositedEffect ==
    ASSUME BridgeInv, NEW t, NEW ds, NEW permits, NEW callContract, NEW reserveBalance,
           IsDeposit(t, ds, permits, callContract, reserveBalance)
    PROVE  LET data == tokenData[t]
           IN  /\ Operational /\ ~ ledger[t].paused
               /\ Len(ds) \in Nat \ {0} /\ TotalOf(ds) \in Nat
               /\ \A i \in 1 .. Len(ds) : /\ ds[i].from # BridgeAddress /\ ds[i].to # NoAddress
                                          /\ callContract # NoAddress => ds[i].amount >= reserveBalance
               /\ Admits(data.depositUsage, data.minAmount, data.depositLimit, TotalOf(ds), now)
               /\ \E u \in Usage : /\ u = Charged(data.depositUsage, data.depositLimit, TotalOf(ds), now)
                                   /\ tokenData' = [tokenData EXCEPT ![t].depositUsage = u]
               /\ ledger' \in [Tokens -> Ledger]
               /\ \A u \in Tokens : BridgeClosed(ledger'[u])
               /\ \A u \in Tokens \ {t} : ledger'[u] = ledger[u]
               /\ ledger'[t].paused = ledger[t].paused
               /\ \A a \in Accounts :
                    /\ ledger'[t].nonce[a] >= ledger[t].nonce[a]
                    /\ ledger'[t].balance[a] =
                         ledger[t].balance[a] + SumFunctionOnSet(DepositChange(ds, a), 1 .. Len(ds))
<1> DEFINE run == DepositRun(t, ds, permits, callContract, reserveBalance)
           data == tokenData[t]
<1>1. /\ BridgeTypeOK /\ t \in Tokens /\ DepositBatch(ds) /\ GoodPermits(permits)
      /\ GoodLedger(ledger[t])
      /\ Operational
  BY DEF IsDeposit, BridgeInv, BridgeTypeOK, TokenTypeOK, GoodLedger
<1>2. /\ run.ok
      /\ tokenData' = [tokenData EXCEPT ![t].depositUsage = run.usage]
      /\ ledger' = [ledger EXCEPT ![t] = run.ledger]
  BY DEF IsDeposit, Deposited
<1>3. /\ ~ ledger[t].paused /\ run.ledger.paused = ledger[t].paused
      /\ GoodLedger(run.ledger)
      /\ \A i \in 1 .. Len(ds) : /\ ds[i].from # BridgeAddress /\ ds[i].to # NoAddress
                                 /\ callContract # NoAddress => ds[i].amount >= reserveBalance
      /\ Admits(data.depositUsage, data.minAmount, data.depositLimit, TotalOf(ds), now)
      /\ run.usage = Charged(data.depositUsage, data.depositLimit, TotalOf(ds), now)
      /\ run.usage \in Usage
      /\ \A a \in Accounts :
           /\ run.ledger.nonce[a] >= ledger[t].nonce[a]
           /\ run.ledger.balance[a] =
                ledger[t].balance[a] + SumFunctionOnSet(DepositChange(ds, a), 1 .. Len(ds))
  BY <1>1, <1>2, DepositRunEffect
<1> HIDE DEF run
<1>4. /\ ledger' \in [Tokens -> Ledger]
      /\ \A u \in Tokens : BridgeClosed(ledger'[u])
      /\ ledger'[t] = run.ledger
      /\ \A u \in Tokens \ {t} : ledger'[u] = ledger[u]
  BY <1>1, <1>2, <1>3, LedgerReplaced
<1>5. Len(ds) \in Nat \ {0} /\ TotalOf(ds) \in Nat
  BY <1>1, TotalOfBatch DEF DepositBatch, Batch
<1> QED
  BY <1>1, <1>2, <1>3, <1>4, <1>5

\* What a claim does to the state of the bridge and of the token.
LEMMA ClaimedEffect ==
    ASSUME BridgeInv, NEW t, NEW cs, IsClaim(t, cs)
    PROVE  LET data == tokenData[t]
           IN  /\ Operational /\ ~ ledger[t].paused
               /\ Len(cs) \in Nat \ {0} /\ TotalOf(cs) \in Nat
               /\ \A i \in 1 .. Len(cs) : cs[i].to # NoAddress
               /\ Admits(data.claimUsage, data.minAmount, data.claimLimit, TotalOf(cs), now)
               /\ \E u \in Usage : /\ u = Charged(data.claimUsage, data.claimLimit, TotalOf(cs), now)
                                   /\ tokenData' = [tokenData EXCEPT ![t].claimUsage = u]
               /\ ledger' \in [Tokens -> Ledger]
               /\ \A u \in Tokens : BridgeClosed(ledger'[u])
               /\ \A u \in Tokens \ {t} : ledger'[u] = ledger[u]
               /\ ledger'[t].paused = ledger[t].paused
               /\ \A a \in Accounts :
                    /\ ledger'[t].nonce[a] = ledger[t].nonce[a]
                    /\ ledger'[t].balance[a] =
                         ledger[t].balance[a] + SumFunctionOnSet(ClaimChange(cs, a), 1 .. Len(cs))
<1> DEFINE run == ClaimRun(t, cs)
           data == tokenData[t]
<1>1. /\ BridgeTypeOK /\ t \in Tokens /\ Batch(cs) /\ GoodLedger(ledger[t])
  BY DEF IsClaim, BridgeInv, BridgeTypeOK, TokenTypeOK, GoodLedger
<1>2. /\ run.ok /\ Operational
      /\ tokenData' = [tokenData EXCEPT ![t].claimUsage = run.usage]
      /\ ledger' = [ledger EXCEPT ![t] = run.ledger]
  BY DEF IsClaim, Claimed
<1>3. /\ ~ ledger[t].paused /\ run.ledger.paused = ledger[t].paused
      /\ GoodLedger(run.ledger)
      /\ \A i \in 1 .. Len(cs) : cs[i].to # NoAddress
      /\ Admits(data.claimUsage, data.minAmount, data.claimLimit, TotalOf(cs), now)
      /\ run.usage = Charged(data.claimUsage, data.claimLimit, TotalOf(cs), now)
      /\ run.usage \in Usage
      /\ \A a \in Accounts :
           /\ run.ledger.nonce[a] = ledger[t].nonce[a]
           /\ run.ledger.balance[a] =
                ledger[t].balance[a] + SumFunctionOnSet(ClaimChange(cs, a), 1 .. Len(cs))
  BY <1>1, <1>2, ClaimRunEffect
<1> HIDE DEF run
<1>4. /\ ledger' \in [Tokens -> Ledger]
      /\ \A u \in Tokens : BridgeClosed(ledger'[u])
      /\ ledger'[t] = run.ledger
      /\ \A u \in Tokens \ {t} : ledger'[u] = ledger[u]
  BY <1>1, <1>2, <1>3, LedgerReplaced
<1>5. Len(cs) \in Nat \ {0} /\ TotalOf(cs) \in Nat
  BY <1>1, TotalOfBatch DEF Batch
<1> QED
  BY <1>1, <1>2, <1>3, <1>4, <1>5

-----------------------------------------------------------------------------
\* What is done to the tokens directly

\* What users and the token's operators may do to a token's ledger.
LedgerStep(l, n) ==
    /\ n \in Ledger
    /\ l.paused => n.balance = l.balance
    /\ \A a \in Accounts : n.nonce[a] >= l.nonce[a]
    /\ \A a \in Accounts \ Holders : n.balance[a] >= l.balance[a]
    /\ \A a \in Accounts \ (Holders \cup Callers), s \in Spenders : n.allowance[a][s] = l.allowance[a][s]

\* The fields of a ledger.
LEMMA LedgerFacts ==
    ASSUME NEW l \in Ledger
    PROVE  /\ l \in LoopLedger
           /\ \A a \in Accounts : l.balance[a] \in Nat /\ l.nonce[a] \in Nat
           /\ \A a \in Accounts, s \in Spenders : l.allowance[a][s] \in Nat
           /\ l.paused \in BOOLEAN
  BY LedgerLoops DEF Ledger

\* Each of the ledger operators the token's calls use is such a step.
LEMMA LedgerSteps ==
    ASSUME NEW l \in Ledger, NEW v \in Nat
    PROVE  /\ LedgerStep(l, l)
           /\ \A from \in Holders, to \in Accounts :
                 Transferable(l, from, v) => LedgerStep(l, Transferred(l, from, to, v))
           /\ \A from \in Holders : Transferable(l, from, v) => LedgerStep(l, Debited(l, from, v))
           /\ \A to \in Accounts : ~ l.paused => LedgerStep(l, Credited(l, to, v))
           /\ \A owner \in Holders, s \in Spenders : LedgerStep(l, Approved(l, owner, s, v))
           /\ \A owner \in Callers, s \in Spenders : LedgerStep(l, Permitted(l, owner, s, v))
           /\ \A b \in BOOLEAN : LedgerStep(l, [l EXCEPT !.paused = b])
<1>1. /\ l \in LoopLedger
      /\ \A a \in Accounts : l.balance[a] \in Nat /\ l.nonce[a] \in Nat
      /\ \A a \in Accounts, s \in Spenders : l.allowance[a][s] \in Nat
  BY LedgerFacts
<1>2. Holders \subseteq Accounts /\ Callers \subseteq Accounts
  BY BridgeAssumption
<1>3. LedgerStep(l, l)
  BY <1>1 DEF LedgerStep
<1>4. ASSUME NEW from \in Holders, NEW to \in Accounts, Transferable(l, from, v)
      PROVE  LedgerStep(l, Transferred(l, from, to, v))
  <2> DEFINE n == Transferred(l, from, to, v)
  <2>1. /\ n \in LoopLedger
        /\ n.allowance = l.allowance /\ n.nonce = l.nonce /\ n.paused = l.paused
        /\ \A a \in Accounts :
             n.balance[a] = l.balance[a] - (IF a = from THEN v ELSE 0) + (IF a = to THEN v ELSE 0)
    BY <1>1, <1>2, TransferredEffect
  <2>2. ~ l.paused /\ l.balance[from] >= v
    BY <1>4 DEF Transferable
  <2> HIDE DEF n
  <2>3. \A a \in Accounts : n.balance[a] \in Nat
    BY <1>1, <2>1, <2>2
  <2>4. n \in Ledger
    BY <1>1, <2>1, <2>3, LedgerIs
  <2>5. LedgerStep(l, n)
    BY <1>1, <2>1, <2>2, <2>4 DEF LedgerStep
  <2> QED  BY <2>5 DEF n
<1>5. ASSUME NEW from \in Holders, Transferable(l, from, v)
      PROVE  LedgerStep(l, Debited(l, from, v))
  <2> DEFINE n == Debited(l, from, v)
  <2>1. /\ n \in LoopLedger
        /\ n.allowance = l.allowance /\ n.nonce = l.nonce /\ n.paused = l.paused
        /\ \A a \in Accounts : n.balance[a] = l.balance[a] - (IF a = from THEN v ELSE 0)
    BY <1>1, <1>2, DebitedEffect
  <2>2. ~ l.paused /\ l.balance[from] >= v
    BY <1>5 DEF Transferable
  <2> HIDE DEF n
  <2>3. \A a \in Accounts : n.balance[a] \in Nat
    BY <1>1, <2>1, <2>2
  <2>4. n \in Ledger
    BY <1>1, <2>1, <2>3, LedgerIs
  <2>5. LedgerStep(l, n)
    BY <1>1, <2>1, <2>2, <2>4 DEF LedgerStep
  <2> QED  BY <2>5 DEF n
<1>6. ASSUME NEW to \in Accounts, ~ l.paused
      PROVE  LedgerStep(l, Credited(l, to, v))
  <2> DEFINE n == Credited(l, to, v)
  <2>1. /\ n \in LoopLedger
        /\ n.allowance = l.allowance /\ n.nonce = l.nonce /\ n.paused = l.paused
        /\ \A a \in Accounts : n.balance[a] = l.balance[a] + (IF a = to THEN v ELSE 0)
    BY <1>1, CreditedEffect
  <2> HIDE DEF n
  <2>2. \A a \in Accounts : n.balance[a] \in Nat
    BY <1>1, <2>1
  <2>3. n \in Ledger
    BY <1>1, <2>1, <2>2, LedgerIs
  <2>4. LedgerStep(l, n)
    BY <1>1, <1>6, <2>1, <2>3 DEF LedgerStep
  <2> QED  BY <2>4 DEF n
<1>7. ASSUME NEW owner \in Holders \cup Callers, NEW s \in Spenders
      PROVE  /\ LedgerStep(l, Approved(l, owner, s, v))
             /\ LedgerStep(l, Permitted(l, owner, s, v))
  <2> DEFINE m == Approved(l, owner, s, v)
             n == [m EXCEPT !.nonce[owner] = @ + 1]
  <2>1. /\ m \in LoopLedger /\ owner \in Accounts
        /\ m.balance = l.balance /\ m.nonce = l.nonce /\ m.paused = l.paused
        /\ m.allowance[owner][s] = v
        /\ \A a \in Accounts, p \in Spenders :
             (a # owner \/ p # s) => m.allowance[a][p] = l.allowance[a][p]
    BY <1>1, <1>2, ApprovedEffect
  <2> HIDE DEF m
  <2>2. /\ n \in LoopLedger
        /\ n.balance = m.balance /\ n.paused = m.paused /\ n.allowance = m.allowance
        /\ \A a \in Accounts : n.nonce[a] \in Nat /\ n.nonce[a] >= m.nonce[a]
    BY <2>1, NonceUsed
  <2> HIDE DEF n
  <2>3. \A a \in Accounts, p \in Spenders : m.allowance[a][p] \in Nat
    BY <1>1, <2>1
  <2>4. m \in Ledger /\ n \in Ledger
    BY <1>1, <2>1, <2>2, <2>3, LedgerIs
  <2>5. LedgerStep(l, m)
    BY <1>1, <2>1, <2>4 DEF LedgerStep
  <2>6. LedgerStep(l, n)
    BY <1>1, <2>1, <2>2, <2>4 DEF LedgerStep
  <2> QED  BY <2>5, <2>6 DEF Permitted, m, n
<1>8. ASSUME NEW b \in BOOLEAN
      PROVE  LedgerStep(l, [l EXCEPT !.paused = b])
  <2> DEFINE n == [l EXCEPT !.paused = b]
  <2>1. n \in Ledger /\ n.balance = l.balance /\ n.nonce = l.nonce /\ n.allowance = l.allowance
    BY DEF Ledger
  <2> HIDE DEF n
  <2>2. LedgerStep(l, n)
    BY <1>1, <2>1 DEF LedgerStep
  <2> QED  BY <2>2 DEF n
<1> QED
  BY <1>3, <1>4, <1>5, <1>6, <1>7, <1>8

\* A call changes one token's ledger; the others step by standing still.
LEMMA LedgersStep ==
    ASSUME BridgeInv, NEW t \in Tokens, NEW l, LedgerStep(ledger[t], l),
           ledger' = [ledger EXCEPT ![t] = l]
    PROVE  /\ ledger' \in [Tokens -> Ledger]
           /\ \A u \in Tokens : LedgerStep(ledger[u], ledger'[u])
<1>1. ledger \in [Tokens -> Ledger]
  BY DEF BridgeInv, BridgeTypeOK, TokenTypeOK
<1>2. \A u \in Tokens : LedgerStep(ledger[u], ledger[u])
  <2> TAKE u \in Tokens
  <2>1. ledger[u] \in Ledger /\ 0 \in Nat
    BY <1>1
  <2> QED  BY <2>1, LedgerSteps
<1>3. l \in Ledger
  BY DEF LedgerStep
<1> QED
  BY <1>1, <1>2, <1>3

\* A call of a token steps its ledger and leaves the bridge alone.
LEMMA TokenCallsEffect ==
    ASSUME BridgeInv, TokenCalls
    PROVE  /\ ledger' \in [Tokens -> Ledger]
           /\ \A t \in Tokens : LedgerStep(ledger[t], ledger'[t])
           /\ signedPermits' \subseteq Permit
           /\ \A p \in signedPermits' : p.owner \in Callers
           /\ UNCHANGED <<stateVars, configVars, flowVars, whitelistedCallContracts, now>>
<1>1. /\ ledger \in [Tokens -> Ledger] /\ signedPermits \subseteq Permit
      /\ \A p \in signedPermits : p.owner \in Callers
  BY DEF BridgeInv, BridgeTypeOK, TokenTypeOK
<1>2. /\ Amounts \subseteq Nat /\ Minters \subseteq Accounts
      /\ Callers \subseteq Accounts
  BY BridgeAssumption, TokenAssumption
<1> DEFINE Goal == /\ ledger' \in [Tokens -> Ledger]
                   /\ \A t \in Tokens : LedgerStep(ledger[t], ledger'[t])
                   /\ signedPermits' \subseteq Permit
                   /\ \A p \in signedPermits' : p.owner \in Callers
<1>3. ASSUME NEW t \in Tokens, NEW l, LedgerStep(ledger[t], l),
             ledger' = [ledger EXCEPT ![t] = l], UNCHANGED signedPermits
      PROVE  Goal
  BY <1>1, <1>3, LedgersStep
<1>4. ASSUME NEW t \in Tokens, NEW from \in Holders, NEW to \in Accounts, NEW v \in Amounts,
             Transfer(t, from, to, v)
      PROVE  Goal
  BY <1>1, <1>2, <1>3, <1>4, LedgerSteps DEF Transfer
<1>5. ASSUME NEW t \in Tokens, NEW from \in Holders, NEW v \in Amounts, Burn(t, from, v)
      PROVE  Goal
  BY <1>1, <1>2, <1>3, <1>5, LedgerSteps DEF Burn
<1>6. ASSUME NEW t \in Tokens, NEW owner \in Holders, NEW spender \in Spenders, NEW v \in Amounts,
             Approve(t, owner, spender, v)
      PROVE  Goal
  BY <1>1, <1>2, <1>3, <1>6, LedgerSteps DEF Approve
<1>7. ASSUME NEW t \in Tokens, NEW owner \in Callers, NEW spender \in Spenders, NEW v \in Amounts,
             SignPermit(t, owner, spender, v)
      PROVE  Goal
  <2>1. UNCHANGED ledger /\ \A u \in Tokens : LedgerStep(ledger[u], ledger[u])
    <3>1. \A u \in Tokens : ledger[u] \in Ledger
      BY <1>1
    <3>2. 0 \in Nat
      OBVIOUS
    <3> QED  BY <1>7, <3>1, <3>2, LedgerSteps DEF SignPermit
  <2> DEFINE p == [token |-> t, owner |-> owner, spender |-> spender,
                   value |-> v, nonce |-> ledger[t].nonce[owner]]
  <2>2. p \in Permit /\ p.owner \in Callers
    <3>1. ledger[t].nonce[owner] \in Nat
      BY <1>1, <1>2, LedgerFacts
    <3> QED  BY <1>2, <3>1 DEF Permit
  <2>3. signedPermits' = signedPermits \cup {p}
    BY <1>7 DEF SignPermit
  <2> HIDE DEF p
  <2> QED  BY <1>1, <2>1, <2>2, <2>3
<1>8. ASSUME NEW p \in signedPermits, SubmitPermit(p)
      PROVE  Goal
  <2>1. p.token \in Tokens /\ p.owner \in Callers /\ p.spender \in Spenders /\ p.value \in Nat
    BY <1>1 DEF Permit
  <2> DEFINE l == Permitted(ledger[p.token], p.owner, p.spender, p.value)
  <2>2. LedgerStep(ledger[p.token], l)
    <3>1. ledger[p.token] \in Ledger
      BY <1>1, <2>1
    <3> QED  BY <2>1, <3>1, LedgerSteps
  <2>3. ledger' = [ledger EXCEPT ![p.token] = l] /\ UNCHANGED signedPermits
    BY <1>8 DEF SubmitPermit
  <2> HIDE DEF l
  <2> QED  BY <1>3, <2>1, <2>2, <2>3
<1>9. ASSUME NEW t \in Tokens, NEW sender \in Minters, NEW to \in Minters, NEW v \in Amounts,
             Mint(sender, t, to, v)
      PROVE  Goal
  BY <1>1, <1>2, <1>3, <1>9, LedgerSteps DEF Mint
<1>10. ASSUME NEW t \in Tokens, NEW sender, Pause(sender, t) \/ Unpause(sender, t)
       PROVE  Goal
  <2>1. PICK b \in BOOLEAN : ledger' = [ledger EXCEPT ![t] = [ledger[t] EXCEPT !.paused = b]]
    BY <1>1, <1>10 DEF Pause, Unpause
  <2>2. UNCHANGED signedPermits
    BY <1>10 DEF Pause, Unpause
  <2>3. LedgerStep(ledger[t], [ledger[t] EXCEPT !.paused = b])
    <3>1. ledger[t] \in Ledger /\ 0 \in Nat
      BY <1>1
    <3> QED  BY <3>1, LedgerSteps
  <2> QED  BY <1>3, <2>1, <2>2, <2>3
<1> HIDE DEF Goal
<1>11. Goal
  BY <1>4, <1>5, <1>6, <1>7, <1>8, <1>9, <1>10 DEF TokenCalls
<1>12. UNCHANGED <<stateVars, configVars, flowVars, whitelistedCallContracts, now>>
  BY DEF TokenCalls
<1> QED
  BY <1>11, <1>12 DEF Goal

-----------------------------------------------------------------------------
\* Migration, and the inductive invariant of the bridge

\* A migration moves all of a token's balance or none of it.
LEMMA MigratedEffect ==
    ASSUME BridgeInv, NEW sender, NEW tokens, TransferTokensToMigrated(sender, tokens)
    PROVE  /\ contractState = "Migrated"
           /\ ledger' \in [Tokens -> Ledger]
           /\ \A t \in Tokens :
                LET held == ledger[t].balance[BridgeAddress]
                IN  /\ ledger'[t].allowance = ledger[t].allowance /\ ledger'[t].nonce = ledger[t].nonce
                    /\ ledger'[t].paused = ledger[t].paused
                    /\ \/ ledger'[t] = ledger[t]
                       \/ /\ ~ ledger[t].paused /\ migratedContract \in Accounts
                          /\ \A a \in Accounts :
                                ledger'[t].balance[a] = ledger[t].balance[a]
                                  - (IF a = BridgeAddress THEN held ELSE 0)
                                  + (IF a = migratedContract THEN held ELSE 0)
<1>1. /\ contractState = "Migrated"
      /\ ledger \in [Tokens -> Ledger] /\ BridgeAddress \in Accounts
      /\ migratedContract \in Accounts \cup {NoAddress}
  BY BridgeAssumption DEF TransferTokensToMigrated, BridgeInv, BridgeTypeOK, TokenTypeOK
<1> DEFINE held(t) == ledger[t].balance[BridgeAddress]
           moved(t) == Transferred(ledger[t], BridgeAddress, migratedContract, held(t))
           Moves(t) == t \in tokens /\ held(t) > 0
<1>2. /\ \A t \in tokens : held(t) > 0 => /\ migratedContract # NoAddress
                                          /\ Transferable(ledger[t], BridgeAddress, held(t))
      /\ ledger' = [t \in Tokens |-> IF Moves(t) THEN moved(t) ELSE ledger[t]]
  BY DEF TransferTokensToMigrated
<1>3. ASSUME NEW t \in Tokens, Moves(t)
      PROVE  /\ moved(t) \in Ledger
             /\ moved(t).allowance = ledger[t].allowance /\ moved(t).nonce = ledger[t].nonce
             /\ moved(t).paused = ledger[t].paused
             /\ ~ ledger[t].paused /\ migratedContract \in Accounts
             /\ \A a \in Accounts :
                   moved(t).balance[a] = ledger[t].balance[a]
                     - (IF a = BridgeAddress THEN held(t) ELSE 0)
                     + (IF a = migratedContract THEN held(t) ELSE 0)
  <2> DEFINE l == ledger[t]  v == held(t)  n == moved(t)
  <2>1. /\ l \in Ledger /\ l \in LoopLedger /\ v \in Nat
        /\ \A a \in Accounts : l.balance[a] \in Nat
        /\ \A a \in Accounts, s \in Spenders : l.allowance[a][s] \in Nat
    BY <1>1, LedgerFacts
  <2>2. ~ l.paused /\ migratedContract \in Accounts /\ v = l.balance[BridgeAddress]
    BY <1>1, <1>2, <1>3 DEF Transferable
  <2>3. n = Transferred(l, BridgeAddress, migratedContract, v)
    OBVIOUS
  <2> HIDE DEF l, v, n
  <2>4. /\ n \in LoopLedger
        /\ n.allowance = l.allowance /\ n.nonce = l.nonce /\ n.paused = l.paused
        /\ \A a \in Accounts :
             n.balance[a] = l.balance[a] - (IF a = BridgeAddress THEN v ELSE 0)
                              + (IF a = migratedContract THEN v ELSE 0)
    BY <1>1, <2>1, <2>3, TransferredEffect
  <2>5. \A a \in Accounts : n.balance[a] \in Nat
    BY <2>1, <2>2, <2>4
  <2>6. n \in Ledger
    BY <2>1, <2>4, <2>5, LedgerIs
  <2> QED  BY <2>2, <2>4, <2>6 DEF l, v, n
<1> HIDE DEF moved
<1>4. \A t \in Tokens : ledger'[t] = IF Moves(t) THEN moved(t) ELSE ledger[t]
  BY <1>2
<1>5. ledger' \in [Tokens -> Ledger]
  BY <1>1, <1>2, <1>3
<1> QED
  BY <1>1, <1>3, <1>4, <1>5

-----------------------------------------------------------------------------
\* The types, and the closed allowance, are inductive.

\* A charged counter keeps the token's data typed.
LEMMA TokenDataTyped ==
    ASSUME BridgeTypeOK, NEW t \in Tokens, NEW u \in Usage,
           \/ tokenData' = [tokenData EXCEPT ![t].depositUsage = u]
           \/ tokenData' = [tokenData EXCEPT ![t].claimUsage = u]
    PROVE  tokenData' \in [Tokens -> TokenData]
  BY DEF BridgeTypeOK, TokenData

\* The invariant holds at the start.
LEMMA BridgeInvInit == BridgeInit => BridgeInv
<1> SUFFICES ASSUME BridgeInit
             PROVE  BridgeInv
  OBVIOUS
<1>1. tokenData \in [Tokens -> TokenData]
  <2>1. UnknownToken \in TokenData
    BY DEF UnknownToken, TokenData, Usage, FreshUsage
  <2> QED  BY <2>1 DEF BridgeInit
<1>2. /\ ledger \in [Tokens -> Ledger] /\ signedPermits = {}
      /\ \A t \in Tokens : BridgeClosed(ledger[t])
  BY BridgeAssumption, TokenAssumption DEF BridgeInit, TokenInit, BridgeClosed
<1>3. /\ contractState \in ContractState /\ migratedContract \in Accounts \cup {NoAddress}
      /\ depositIndex \in Nat /\ now \in Nat /\ version \in Versions
      /\ activeValidators \subseteq Nat \ {ZeroAddress}
      /\ whitelistedCallContracts \subseteq CallContracts
  BY BridgeAssumption DEF BridgeInit, ContractState
<1> QED
  BY <1>1, <1>2, <1>3 DEF BridgeInv, BridgeTypeOK, TokenTypeOK

\* A deposit, whoever makes it, keeps the invariant.
LEMMA DepositKeepsInv ==
    ASSUME BridgeInv, NEW t, NEW ds, NEW permits, NEW callContract, NEW reserveBalance,
           IsDeposit(t, ds, permits, callContract, reserveBalance)
    PROVE  BridgeInv'
<1> USE DEF BridgeInv, BridgeTypeOK, TokenTypeOK
<1>1. t \in Tokens /\ depositIndex' = depositIndex + Len(ds)
      /\ UNCHANGED <<stateVars, configVars, whitelistedCallContracts, now, signedPermits>>
  BY DEF IsDeposit, Deposited
<1>2. /\ Len(ds) \in Nat
      /\ \E u \in Usage : tokenData' = [tokenData EXCEPT ![t].depositUsage = u]
      /\ ledger' \in [Tokens -> Ledger]
      /\ \A u \in Tokens : BridgeClosed(ledger'[u])
  BY DepositedEffect
<1>3. tokenData' \in [Tokens -> TokenData]
  BY <1>1, <1>2, TokenDataTyped
<1> QED  BY <1>1, <1>2, <1>3 DEF stateVars, configVars

\* A claim keeps the bridge's invariant.
LEMMA ClaimKeepsInv ==
    ASSUME BridgeInv, NEW t, NEW cs, IsClaim(t, cs)
    PROVE  BridgeInv'
<1> USE DEF BridgeInv, BridgeTypeOK, TokenTypeOK
<1>1. t \in Tokens
      /\ UNCHANGED <<stateVars, configVars, depositIndex, whitelistedCallContracts, now,
                     signedPermits>>
  BY DEF IsClaim, Claimed
<1>2. /\ \E u \in Usage : tokenData' = [tokenData EXCEPT ![t].claimUsage = u]
      /\ ledger' \in [Tokens -> Ledger]
      /\ \A u \in Tokens : BridgeClosed(ledger'[u])
  BY ClaimedEffect
<1>3. tokenData' \in [Tokens -> TokenData]
  BY <1>1, <1>2, TokenDataTyped
<1> QED  BY <1>1, <1>2, <1>3 DEF stateVars, configVars

\* So does updateValidatorConfig, whatever root it commits.
LEMMA ValidatorConfigKeepsInv ==
    ASSUME BridgeInv, NEW sender, NEW f, NEW v \in Versions, NEW root,
           NEW add \in ValidatorLists, NEW remove \in ValidatorLists,
           UpdateValidatorConfig(sender, f, v, root, add, remove)
    PROVE  BridgeInv'
<1> USE DEF BridgeInv, BridgeTypeOK, TokenTypeOK
<1>1. /\ version' = v
      /\ activeValidators' = (activeValidators \ {remove[i] : i \in DOMAIN remove})
                                \cup {add[i] : i \in DOMAIN add}
      /\ ZeroAddress \notin {add[i] : i \in DOMAIN add}
      /\ UNCHANGED <<stateVars, flowVars, whitelistedCallContracts, now, tokenVars>>
  BY DEF UpdateValidatorConfig
<1>2. \A i \in DOMAIN add : add[i] \in Nat
  <2>1. add \in Seq(Nat)
    BY BridgeAssumption
  <2> QED  BY <2>1
<1>3. activeValidators' \subseteq Nat \ {ZeroAddress}
  BY <1>1, <1>2
<1> QED  BY <1>1, <1>3 DEF stateVars, flowVars, tokenVars

\* Every call keeps the invariant.
LEMMA BridgeInvStep == BridgeInv /\ [BridgeNext]_bridgeVars => BridgeInv'
<1> SUFFICES ASSUME BridgeInv, [BridgeNext]_bridgeVars
             PROVE  BridgeInv'
  OBVIOUS
<1> USE DEF BridgeInv, BridgeTypeOK, TokenTypeOK
<1>1. CASE DepositCalls
  <2>1. PICK t, ds, permits, callContract, reserveBalance :
            IsDeposit(t, ds, permits, callContract, reserveBalance)
    BY <1>1, DepositCallsDeposit
  <2> QED  BY <2>1, DepositKeepsInv
<1>2. CASE ClaimCalls
  <2>1. PICK t, cs : IsClaim(t, cs)
    BY <1>2, ClaimCallsClaim
  <2> QED  BY <2>1, ClaimKeepsInv
<1>3. CASE TokenConfigCalls
  <2>1. ASSUME NEW t \in Tokens, NEW m \in MirrorTokens \cup {NoAddress}, NEW c \in Configurations,
               TokenConfigured(t, m, c.minAmount, c.depositLimit, c.claimLimit)
        PROVE  BridgeInv'
    <3>1. ConfiguredData(t, m, c.minAmount, c.depositLimit, c.claimLimit) \in TokenData
      <4>1. c.minAmount \in Nat /\ c.depositLimit \in Nat /\ c.claimLimit \in Nat
        BY BridgeAssumption
      <4> QED  BY <4>1 DEF ConfiguredData, TokenData, Usage, FreshUsage
    <3>2. tokenData' \in [Tokens -> TokenData]
      BY <2>1, <3>1 DEF TokenConfigured
    <3> QED  BY <2>1, <3>2 DEF TokenConfigured, stateVars, configVars, tokenVars
  <2>2. PICK sender \in Admins, t \in Tokens, c \in Configurations :
          \/ \E m \in MirrorTokens :
                WhiteListToken(sender, t, m, c.minAmount, c.depositLimit, c.claimLimit)
          \/ ConfigureToken(sender, t, c.minAmount, c.depositLimit, c.claimLimit)
    BY <1>3, Zenon DEF TokenConfigCalls
  <2>3. tokenData[t].mirrorToken \in MirrorTokens \cup {NoAddress}
    BY DEF TokenData
  <2> QED  BY <2>1, <2>2, <2>3, Zenon DEF WhiteListToken, ConfigureToken
<1>4. CASE ValidatorConfigCalls
  <2>1. PICK sender \in Admins, f \in Resiliences, v \in Versions, root \in MerkleRoots,
            add, remove \in ValidatorLists :
          UpdateValidatorConfig(sender, f, v, root, add, remove)
    BY <1>4, Zenon DEF ValidatorConfigCalls
  <2> QED  BY <2>1, ValidatorConfigKeepsInv
<1>5. CASE StateCalls
  <2>1. ASSUME NEW sender, NEW s \in ContractState, SetState(sender, s)
        PROVE  BridgeInv'
    BY <2>1 DEF SetState, configVars, flowVars, tokenVars
  <2>2. ASSUME NEW sender, NEW new \in NewContracts, Migrate(sender, new)
        PROVE  BridgeInv'
    BY <2>2, BridgeAssumption DEF Migrate, configVars, flowVars, tokenVars, ContractState
  <2>3. ASSUME NEW sender, NEW tokens, TransferTokensToMigrated(sender, tokens)
        PROVE  BridgeInv'
    <3>1. /\ ledger' \in [Tokens -> Ledger]
          /\ \A t \in Tokens : ledger'[t].allowance = ledger[t].allowance
      BY <2>3, MigratedEffect
    <3>2. UNCHANGED <<stateVars, configVars, flowVars, whitelistedCallContracts, now, signedPermits>>
      BY <2>3 DEF TransferTokensToMigrated
    <3> QED  BY <3>1, <3>2 DEF stateVars, configVars, flowVars, BridgeClosed
  <2>4. ASSUME NEW sender, NEW callContract \in CallContracts, NEW whitelisted,
               SetCallContractWhitelist(sender, callContract, whitelisted)
        PROVE  BridgeInv'
    BY <2>4 DEF SetCallContractWhitelist, stateVars, configVars, flowVars, tokenVars
  <2> QED  BY <1>5, <2>1, <2>2, <2>3, <2>4, Zenon DEF StateCalls
<1>6. CASE TokenCalls
  <2>1. /\ ledger' \in [Tokens -> Ledger]
        /\ \A t \in Tokens : LedgerStep(ledger[t], ledger'[t])
        /\ signedPermits' \subseteq Permit
        /\ \A p \in signedPermits' : p.owner \in Callers
        /\ UNCHANGED <<stateVars, configVars, flowVars, whitelistedCallContracts, now>>
    BY <1>6, TokenCallsEffect
  <2>2. BridgeAddress \in Accounts \ (Holders \cup Callers)
    BY BridgeAssumption
  <2>3. \A t \in Tokens : BridgeClosed(ledger'[t])
    BY <2>1, <2>2 DEF LedgerStep, BridgeClosed
  <2> QED  BY <2>1, <2>3 DEF stateVars, configVars, flowVars
<1>7. CASE Tick
  BY <1>7 DEF Tick, stateVars, configVars, flowVars, tokenVars
<1>8. CASE UNCHANGED bridgeVars
  BY <1>8 DEF bridgeVars, stateVars, configVars, flowVars, tokenVars
<1> QED
  BY <1>1, <1>2, <1>3, <1>4, <1>5, <1>6, <1>7, <1>8 DEF BridgeNext

-----------------------------------------------------------------------------
\* The types of the bridge, and what a paused token does

\* The inductive invariant of the bridge holds in every state.
LEMMA BridgeInvariant == BridgeSpec => []BridgeInv
  BY BridgeInvInit, BridgeInvStep, PTL DEF BridgeSpec

\* The state of the bridge and of its tokens is well typed whatever is called: in particular no
\* balance and no allowance is ever driven below zero, though transferFrom and the batch loops
\* subtract from them item by item.
THEOREM BridgeTypeSafety == BridgeSpec => []BridgeTypeOK
<1>1. BridgeInv => BridgeTypeOK
  BY DEF BridgeInv
<1> QED
  BY <1>1, BridgeInvariant, PTL

-----------------------------------------------------------------------------
\* A paused token does not move: no deposit, claim, migration or direct call of the token changes
\* a balance of it.
THEOREM TokenPauseSafety == BridgeSpec => TokenPauseFreezes
<1>1. ASSUME BridgeInv, [BridgeNext]_bridgeVars, NEW t \in Tokens, ledger[t].paused
      PROVE  ledger'[t].balance = ledger[t].balance
  <2>1. CASE DepositCalls
    BY <1>1, <2>1, DepositCallsDeposit, DepositedEffect
  <2>2. CASE ClaimCalls
    BY <1>1, <2>2, ClaimCallsClaim, ClaimedEffect
  <2>3. CASE TokenConfigCalls
    BY <2>3 DEF TokenConfigCalls, WhiteListToken, ConfigureToken, TokenConfigured, tokenVars
  <2>4. CASE ValidatorConfigCalls
    BY <2>4 DEF ValidatorConfigCalls, UpdateValidatorConfig, tokenVars
  <2>5. CASE StateCalls
    <3>1. ASSUME NEW sender, NEW tokens, TransferTokensToMigrated(sender, tokens)
          PROVE  ledger'[t].balance = ledger[t].balance
      BY <1>1, <3>1, MigratedEffect
    <3> QED
      BY <2>5, <3>1, Zenon DEF StateCalls, SetState, Migrate, SetCallContractWhitelist, tokenVars
  <2>6. CASE TokenCalls
    BY <1>1, <2>6, TokenCallsEffect DEF LedgerStep
  <2>7. CASE Tick
    BY <2>7 DEF Tick, tokenVars
  <2>8. CASE UNCHANGED bridgeVars
    BY <2>8 DEF bridgeVars, tokenVars
  <2> QED
    BY <1>1, <2>1, <2>2, <2>3, <2>4, <2>5, <2>6, <2>7, <2>8 DEF BridgeNext
<1>2. BridgeInv /\ [BridgeNext]_bridgeVars =>
        [\A t \in Tokens : ledger[t].paused => ledger'[t].balance = ledger[t].balance]_bridgeVars
  BY <1>1
<1> QED
  BY <1>2, BridgeInvariant, PTL DEF BridgeSpec, TokenPauseFreezes

-----------------------------------------------------------------------------
\* What happens while the bridge is stopped, and what a Deposit event may say

\* A deposit appends its events.
LEMMA DepositAppends ==
    ASSUME DepositIdsInv, NEW t, NEW ds, NEW permits, NEW callContract, NEW reserveBalance,
           IsDeposit(t, ds, permits, callContract, reserveBalance)
    PROVE  Appends(DepositEvents(t, ds, callContract, reserveBalance), Len(ds))
<1>1. /\ Len(ds) \in Nat /\ DOMAIN ds = 1 .. Len(ds)
      /\ Deposited(t, ds, permits, callContract, reserveBalance)
  BY DEF IsDeposit, DepositBatch, Batch
<1> QED  BY <1>1, EventsAppended

\* The steps that leave the tokens alone.
LEMMA LedgerCalls ==
    ASSUME [BridgeNext]_bridgeVars,
           ~ DepositCalls, ~ ClaimCalls, ~ TokenCalls, ~ StateCalls
    PROVE  UNCHANGED tokenVars
<1>1. CASE TokenConfigCalls
  BY <1>1 DEF TokenConfigCalls, WhiteListToken, ConfigureToken, TokenConfigured
<1>2. CASE ValidatorConfigCalls
  BY <1>2 DEF ValidatorConfigCalls, UpdateValidatorConfig
<1>3. CASE Tick
  BY <1>3 DEF Tick
<1>4. CASE UNCHANGED bridgeVars
  BY <1>4 DEF bridgeVars
<1> QED
  BY <1>1, <1>2, <1>3, <1>4 DEF BridgeNext

\* Of the calls that change the contract's state only transferTokensToMigrated touches a token.
LEMMA StateCallsLedger ==
    ASSUME StateCalls
    PROVE  UNCHANGED tokenVars \/ \E sender, tokens : TransferTokensToMigrated(sender, tokens)
  BY Zenon DEF StateCalls, SetState, Migrate, SetCallContractWhitelist

-----------------------------------------------------------------------------
\* While the bridge is paused or migrated it takes no deposit and pays no claim, and it loses
\* tokens only by transferTokensToMigrated, which sends all of them to the new contract: nobody
\* else has, or can be given, an allowance of the bridge's tokens.
THEOREM StoppedHoldsSafety == BridgeSpec => StoppedHolds
<1> DEFINE Holds(t) == LET held == ledger[t].balance[BridgeAddress]
                       IN  ledger'[t].balance[BridgeAddress] < held =>
                             /\ contractState = "Migrated"
                             /\ ledger'[t].balance[BridgeAddress] = 0
                             /\ ledger'[t].balance[migratedContract]
                                  = ledger[t].balance[migratedContract] + held
<1>1. ASSUME BridgeInv, [BridgeNext]_bridgeVars, contractState \in {"Paused", "Migrated"}
      PROVE  UNCHANGED <<deposits, paid>> /\ \A t \in Tokens : Holds(t)
  <2>1. ~ DepositCalls
    <3> SUFFICES ASSUME DepositCalls
                 PROVE  FALSE
      OBVIOUS
    <3>1. Operational
      BY <1>1, DepositCallsDeposit DEF IsDeposit
    <3> QED  BY <1>1, <3>1 DEF Operational
  <2>2. ~ ClaimCalls
    <3> SUFFICES ASSUME ClaimCalls
                 PROVE  FALSE
      OBVIOUS
    <3>1. Operational
      BY ClaimCallsClaim DEF IsClaim, Claimed
    <3> QED  BY <1>1, <3>1 DEF Operational
  <2>3. UNCHANGED <<deposits, paid>>
    BY <1>1, <2>1, <2>2, OtherCallsKeepDeposits, OtherCallsKeepClaims
  <2>4. ASSUME NEW t \in Tokens
        PROVE  Holds(t)
    <3>1. ledger[t].balance[BridgeAddress] \in Nat /\ BridgeAddress \in Accounts
      BY <1>1, LedgerFacts, BridgeAssumption DEF BridgeInv, BridgeTypeOK, TokenTypeOK
    <3>2. CASE UNCHANGED tokenVars
      BY <3>1, <3>2 DEF tokenVars
    <3>3. CASE TokenCalls
      <4>1. LedgerStep(ledger[t], ledger'[t]) /\ BridgeAddress \in Accounts \ Holders
        BY <1>1, <3>3, TokenCallsEffect, BridgeAssumption
      <4>2. ledger'[t].balance[BridgeAddress] >= ledger[t].balance[BridgeAddress]
        BY <4>1 DEF LedgerStep
      <4>3. ledger'[t].balance[BridgeAddress] \in Nat
        BY <3>1, <4>1, LedgerFacts DEF LedgerStep
      <4> QED  BY <3>1, <4>2, <4>3
    <3>4. ASSUME NEW sender, NEW tokens, TransferTokensToMigrated(sender, tokens)
          PROVE  Holds(t)
      <4> DEFINE held == ledger[t].balance[BridgeAddress]
      <4>1. /\ contractState = "Migrated"
            /\ \/ ledger'[t] = ledger[t]
               \/ /\ ~ ledger[t].paused /\ migratedContract \in Accounts
                  /\ \A a \in Accounts :
                        ledger'[t].balance[a] = ledger[t].balance[a]
                          - (IF a = BridgeAddress THEN held ELSE 0)
                          + (IF a = migratedContract THEN held ELSE 0)
        BY <1>1, <3>4, MigratedEffect
      <4>2. \A a \in Accounts : ledger[t].balance[a] \in Nat
        BY <1>1, LedgerFacts DEF BridgeInv, BridgeTypeOK, TokenTypeOK
      <4> QED  BY <3>1, <4>1, <4>2
    <3> HIDE DEF Holds
    <3> QED  BY <1>1, <2>1, <2>2, <3>2, <3>3, <3>4, LedgerCalls, StateCallsLedger
  <2> QED  BY <2>3, <2>4
<1>2. BridgeInv /\ [BridgeNext]_bridgeVars =>
        [(contractState \in {"Paused", "Migrated"}) =>
            UNCHANGED <<deposits, paid>> /\ \A t \in Tokens : Holds(t)]_bridgeVars
  BY <1>1
<1> QED
  BY <1>2, BridgeInvariant, PTL DEF BridgeSpec, StoppedHolds

-----------------------------------------------------------------------------
Covered(e) == e.reserveBalance <= (IF e.callContract = NoAddress THEN 0 ELSE e.amount)

\* No Deposit event reserves more than its amount, and none without a call contract reserves
\* anything: what the other chain subtracts never underflows.
THEOREM ReserveCoveredSafety == BridgeSpec => []ReserveCovered
<1>1. BridgeInit => ReserveCovered
  BY DEF BridgeInit, ReserveCovered
<1>2. ASSUME BridgeInv, DepositIdsInv, ReserveCovered, [BridgeNext]_bridgeVars
      PROVE  ReserveCovered'
  <2>1. CASE DepositCalls
    <3>1. PICK t, ds, permits, callContract, reserveBalance :
              IsDeposit(t, ds, permits, callContract, reserveBalance)
      BY <1>2, <2>1, DepositCallsDeposit
    <3> DEFINE events == DepositEvents(t, ds, callContract, reserveBalance)
    <3>2. Appends(events, Len(ds)) /\ DOMAIN ds = 1 .. Len(ds)
      BY <1>2, <3>1, DepositAppends DEF IsDeposit, DepositBatch, Batch
    <3>3. \A i \in 1 .. Len(ds) : callContract # NoAddress => ds[i].amount >= reserveBalance
      BY <1>2, <3>1, DepositedEffect
    <3>4. callContract = NoAddress => reserveBalance = 0
      BY <3>1 DEF IsDeposit, CallAllowed
    <3>5. ASSUME NEW i \in 1 .. Len(ds)
          PROVE  Covered(events[i])
      <4>1. /\ events[i].callContract = callContract /\ events[i].reserveBalance = reserveBalance
            /\ events[i].amount = ds[i].amount
        BY <3>2 DEF DepositEvents, EventAmount
      <4>2. 0 <= 0 /\ ds[i].amount \in Nat
        BY <3>1, <3>2 DEF IsDeposit, DepositBatch, Batch
      <4> QED  BY <3>3, <3>4, <4>1, <4>2 DEF Covered
    <3> HIDE DEF events
    <3>6. ASSUME NEW i \in DOMAIN deposits'
          PROVE  Covered(deposits'[i])
      <4>1. CASE i \in DOMAIN deposits
        BY <1>2, <3>2, <4>1 DEF Appends, ReserveCovered, Covered
      <4>2. CASE i \notin DOMAIN deposits
        BY <3>2, <3>5, <4>2 DEF Appends
      <4> QED  BY <4>1, <4>2
    <3> QED  BY <3>6 DEF ReserveCovered, Covered
  <2>2. CASE ~ DepositCalls
    BY <1>2, <2>2, OtherCallsKeepDeposits DEF ReserveCovered
  <2> QED  BY <2>1, <2>2
<1> QED
  BY <1>1, <1>2, BridgeInvariant, DepositIdsInvariant, PTL DEF BridgeSpec

-----------------------------------------------------------------------------
\* Events and balances

\* The bridge receives the sum of the amounts of a deposit.
LEMMA DepositReceived ==
    ASSUME BridgeInv, NEW t, NEW ds, NEW permits, NEW callContract, NEW reserveBalance,
           IsDeposit(t, ds, permits, callContract, reserveBalance)
    PROVE  ledger'[t].balance[BridgeAddress] = ledger[t].balance[BridgeAddress] + TotalOf(ds)
<1> DEFINE n == Len(ds)
           f == AmountsOf(ds)
           g == DepositChange(ds, BridgeAddress)
<1>1. /\ n \in Nat /\ \A i \in 1 .. n : ds[i].from # BridgeAddress
      /\ \A a \in Accounts : ledger'[t].balance[a] = ledger[t].balance[a]
                               + SumFunctionOnSet(DepositChange(ds, a), 1 .. Len(ds))
  BY DepositedEffect
<1>2. \A i \in 1 .. n : ds[i].amount \in Nat
  BY DEF IsDeposit, DepositBatch, Batch
<1>3. \A i \in 1 .. n : f[i] \in Int /\ g[i] = f[i]
  BY <1>1, <1>2 DEF DepositChange, AmountsOf
<1>4. IsFiniteSet(1 .. n)
  BY <1>1, FS_Interval
<1>5. BridgeAddress \in Accounts
  BY BridgeAssumption
<1> HIDE DEF f, g, n
<1>6. SumFunctionOnSet(g, 1 .. n) = SumFunctionOnSet(f, 1 .. n)
  BY ONLY <1>3, <1>4, SumEqual
<1> QED
  BY <1>1, <1>5, <1>6 DEF TotalOf, f, g, n

\* An event of a deposit of t: it announces one of its items.
ItemEvent(e, t, ds) ==
    e.token = t /\ \E k \in 1 .. Len(ds) : e.amount = ds[k].amount /\ e.to = ds[k].to

\* The events a deposit adds are of its token, and announce its items and its total.
LEMMA NewEvents ==
    ASSUME DepositIdsInv, NEW t, NEW ds, NEW permits, NEW callContract, NEW reserveBalance,
           IsDeposit(t, ds, permits, callContract, reserveBalance)
    PROVE  LET amount == [i \in DOMAIN deposits' |-> deposits'[i].amount]
               new    == DOMAIN deposits' \ DOMAIN deposits
           IN  /\ \A i \in DOMAIN deposits : i \in DOMAIN deposits' /\ deposits'[i] = deposits[i]
               /\ \A i \in new : i \in Nat /\ ItemEvent(deposits'[i], t, ds)
               /\ new # {} /\ IsFiniteSet(new) /\ \A i \in new : amount[i] \in Int
               /\ SumFunctionOnSet(amount, new) = TotalOf(ds)
<1> DEFINE amount == [i \in DOMAIN deposits' |-> deposits'[i].amount]
           new    == DOMAIN deposits' \ DOMAIN deposits
           events == DepositEvents(t, ds, callContract, reserveBalance)
           n == Len(ds)
           h == [k \in 1 .. n |-> Len(deposits) + k]
           g == AmountsOf(ds)
<1>1. Appends(events, n) /\ DOMAIN ds = 1 .. n /\ n \in Nat \ {0} /\ \A i \in 1 .. n : ds[i].amount \in Nat
  BY DepositAppends DEF IsDeposit, DepositBatch, Batch
<1>2. \A k \in 1 .. n : /\ events[k].token = t /\ events[k].amount = ds[k].amount
                        /\ events[k].to = ds[k].to
  BY <1>1 DEF DepositEvents, EventAmount
<1> HIDE DEF events, n
<1>3. ASSUME NEW k \in 1 .. n
      PROVE  h[k] \in new /\ deposits'[h[k]] = events[k]
  <2>1. Len(deposits) \in Nat /\ Len(deposits) + k - Len(deposits) = k
    BY <1>1 DEF Appends
  <2>2. h[k] \in DOMAIN deposits' /\ h[k] \notin DOMAIN deposits /\ h[k] - Len(deposits) = k
    BY <1>1, <2>1 DEF Appends
  <2> QED  BY <1>1, <2>2 DEF Appends
<1>4. ASSUME NEW i \in new
      PROVE  \E k \in 1 .. n : i = h[k]
  <2>1. i - Len(deposits) \in 1 .. n /\ Len(deposits) \in Nat /\ i \in Nat
    BY <1>1 DEF Appends
  <2>2. i = Len(deposits) + (i - Len(deposits))
    BY <2>1
  <2> QED  BY <2>1, <2>2
<1>5. \A k \in 1 .. n : g[k] \in Int /\ amount[h[k]] = g[k]
  BY <1>1, <1>2, <1>3 DEF AmountsOf, n
<1>6. IsFiniteSet(1 .. n) /\ \A j, k \in 1 .. n : h[j] = h[k] => j = k
  <2>1. Len(deposits) \in Nat
    BY <1>1 DEF Appends
  <2> QED  BY <1>1, <2>1, FS_Interval
<1>7. \A i \in DOMAIN deposits : i \in DOMAIN deposits' /\ deposits'[i] = deposits[i]
  BY <1>1 DEF Appends
<1>8. ASSUME NEW i \in new
      PROVE  i \in Nat /\ ItemEvent(deposits'[i], t, ds)
  <2>1. i \in Nat
    BY <1>1 DEF Appends
  <2>2. PICK k \in 1 .. n : i = h[k]
    BY <1>4
  <2>3. deposits'[i] = events[k]
    BY <1>3, <2>2
  <2>4. k \in 1 .. Len(ds)
    BY DEF n
  <2> QED  BY <1>2, <2>1, <2>3, <2>4 DEF ItemEvent
<1>9. h[1] \in new
  BY <1>1, <1>3
<1>10. {h[k] : k \in 1 .. n} = new
  BY <1>3, <1>4
<1>11. \A i \in new : amount[i] \in Int
  BY <1>4, <1>5
<1>12. OneToOne(h, 1 .. n, new) /\ AgreeAlong(amount, h, g, 1 .. n)
  BY <1>3, <1>4, <1>5, <1>6 DEF OneToOne, AgreeAlong
<1> DEFINE S == 1 .. n
<1> HIDE DEF amount, h, g, new, S
<1>13. IsFiniteSet(new)
  <2>1. IsFiniteSet(S)
    BY <1>6 DEF S
  <2>2. IsFiniteSet({h[k] : k \in S})
    BY ONLY <2>1, FiniteImage
  <2> QED  BY <1>10, <2>2 DEF S
<1>14. IsFiniteSet(S) /\ OneToOne(h, S, new) /\ AgreeAlong(amount, h, g, S)
  BY <1>6, <1>12 DEF S
<1>15. SumFunctionOnSet(amount, new) = SumFunctionOnSet(g, S)
  BY ONLY <1>14, SumImage
<1>16. SumFunctionOnSet(amount, new) = TotalOf(ds)
  BY <1>15 DEF TotalOf, g, n, S
<1> QED
  BY <1>7, <1>8, <1>9, <1>11, <1>13, <1>16 DEF new, amount, n

\* A batch emits events for exactly the amount of tokens that the bridge's balance grows by, for
\* a batch of any length with any amounts and senders.
THEOREM EventsFundedSafety == BridgeSpec => EventsFunded
<1> DEFINE amount == [i \in DOMAIN deposits' |-> deposits'[i].amount]
           new(t) == {i \in DOMAIN deposits' \ DOMAIN deposits : deposits'[i].token = t}
           Funded(t) == new(t) # {} =>
                ledger'[t].balance[BridgeAddress] =
                    ledger[t].balance[BridgeAddress] + SumFunctionOnSet(amount, new(t))
<1>1. ASSUME BridgeInv, DepositIdsInv, [BridgeNext]_bridgeVars, NEW t \in Tokens
      PROVE  Funded(t)
  <2>1. CASE DepositCalls
    <3>1. PICK u, ds, permits, callContract, reserveBalance :
              IsDeposit(u, ds, permits, callContract, reserveBalance)
      BY <1>1, <2>1, DepositCallsDeposit
    <3>2. LET all == DOMAIN deposits' \ DOMAIN deposits
          IN  /\ \A i \in all : i \in Nat /\ ItemEvent(deposits'[i], u, ds)
              /\ SumFunctionOnSet(amount, all) = TotalOf(ds)
      BY <1>1, <3>1, NewEvents
    <3>3. CASE t = u
      <4>1. new(t) = DOMAIN deposits' \ DOMAIN deposits
        BY <3>2, <3>3 DEF ItemEvent
      <4>2. ledger'[t].balance[BridgeAddress] = ledger[t].balance[BridgeAddress] + TotalOf(ds)
        BY <1>1, <3>1, <3>3, DepositReceived
      <4> QED  BY <3>2, <4>1, <4>2
    <3>4. CASE t # u
      <4>1. new(t) = {}
        BY <3>2, <3>4 DEF ItemEvent
      <4> QED  BY <4>1
    <3> QED  BY <3>3, <3>4
  <2>2. CASE ~ DepositCalls
    BY <1>1, <2>2, OtherCallsKeepDeposits
  <2> QED  BY <2>1, <2>2
<1>2. BridgeInv /\ DepositIdsInv /\ [BridgeNext]_bridgeVars => [\A t \in Tokens : Funded(t)]_bridgeVars
  <2> HIDE DEF Funded
  <2> QED  BY <1>1
<1> QED
  BY <1>2, BridgeInvariant, DepositIdsInvariant, PTL DEF BridgeSpec, EventsFunded

-----------------------------------------------------------------------------
\* The rate limiter

\* What one step does to the configuration and the usages of token t: it charges one of them the
\* total of a batch, configures the token, is a later block, or leaves them alone.
DepositCharged(t, amount) ==
    LET data == tokenData[t]
    IN  /\ Admits(data.depositUsage, data.minAmount, data.depositLimit, amount, now)
        /\ tokenData'[t] = [data EXCEPT !.depositUsage =
                               Charged(data.depositUsage, data.depositLimit, amount, now)]
        /\ now' = now

ClaimCharged(t, amount) ==
    LET data == tokenData[t]
    IN  /\ Admits(data.claimUsage, data.minAmount, data.claimLimit, amount, now)
        /\ tokenData'[t] = [data EXCEPT !.claimUsage =
                               Charged(data.claimUsage, data.claimLimit, amount, now)]
        /\ now' = now

Reconfigured(t, c) ==
    /\ c.minAmount # 0
    /\ tokenData'[t].minAmount = c.minAmount
    /\ tokenData'[t].depositLimit = c.depositLimit
    /\ tokenData'[t].claimLimit = c.claimLimit
    /\ tokenData'[t].depositUsage = FreshUsage(now)
    /\ tokenData'[t].claimUsage = FreshUsage(now)
    /\ now' = now

FlowStep(t) ==
    \/ tokenData'[t] = tokenData[t] /\ now' = now
    \/ \E amount \in Nat : DepositCharged(t, amount) \/ ClaimCharged(t, amount)
    \/ \E c \in Configurations : Reconfigured(t, c)
    \/ tokenData'[t] = tokenData[t] /\ now' = now + 1 /\ now < MaxTime

\* Every step of the bridge is one of these for every token.
LEMMA FlowSteps ==
    ASSUME BridgeInv, [BridgeNext]_bridgeVars, NEW t \in Tokens
    PROVE  FlowStep(t)
<1>0. tokenData \in [Tokens -> TokenData]
  BY DEF BridgeInv, BridgeTypeOK
<1>1. CASE DepositCalls
  <2>1. PICK u, ds, permits, callContract, reserveBalance :
            IsDeposit(u, ds, permits, callContract, reserveBalance)
    BY <1>1, DepositCallsDeposit
  <2> DEFINE data == tokenData[u]
             c == Charged(data.depositUsage, data.depositLimit, TotalOf(ds), now)
  <2>2. u \in Tokens /\ now' = now
    BY <2>1 DEF IsDeposit, Deposited
  <2>3. /\ TotalOf(ds) \in Nat
        /\ Admits(data.depositUsage, data.minAmount, data.depositLimit, TotalOf(ds), now)
        /\ tokenData' = [tokenData EXCEPT ![u].depositUsage = c]
    BY <2>1, DepositedEffect
  <2> HIDE DEF c
  <2>4. CASE t = u
    <3>1. tokenData'[t] = [tokenData[t] EXCEPT !.depositUsage = c]
      BY <1>0, <2>2, <2>3, <2>4
    <3>2. DepositCharged(t, TotalOf(ds))
      BY <2>2, <2>3, <2>4, <3>1 DEF DepositCharged, c
    <3> QED  BY <2>3, <3>2 DEF FlowStep
  <2>5. CASE t # u
    <3>1. tokenData'[t] = tokenData[t]
      BY <1>0, <2>2, <2>3, <2>5
    <3> QED  BY <2>2, <3>1 DEF FlowStep
  <2> QED  BY <2>4, <2>5
<1>2. CASE ClaimCalls
  <2>1. PICK u, cs : IsClaim(u, cs)
    BY <1>2, ClaimCallsClaim
  <2> DEFINE data == tokenData[u]
             c == Charged(data.claimUsage, data.claimLimit, TotalOf(cs), now)
  <2>2. u \in Tokens /\ now' = now
    BY <2>1 DEF IsClaim, Claimed
  <2>3. /\ TotalOf(cs) \in Nat
        /\ Admits(data.claimUsage, data.minAmount, data.claimLimit, TotalOf(cs), now)
        /\ tokenData' = [tokenData EXCEPT ![u].claimUsage = c]
    BY <2>1, ClaimedEffect
  <2> HIDE DEF c
  <2>4. CASE t = u
    <3>1. tokenData'[t] = [tokenData[t] EXCEPT !.claimUsage = c]
      BY <1>0, <2>2, <2>3, <2>4
    <3>2. ClaimCharged(t, TotalOf(cs))
      BY <2>2, <2>3, <2>4, <3>1 DEF ClaimCharged, c
    <3> QED  BY <2>3, <3>2 DEF FlowStep
  <2>5. CASE t # u
    <3>1. tokenData'[t] = tokenData[t]
      BY <1>0, <2>2, <2>3, <2>5
    <3> QED  BY <2>2, <3>1 DEF FlowStep
  <2> QED  BY <2>4, <2>5
<1>3. CASE TokenConfigCalls
  <2>1. PICK u \in Tokens, c \in Configurations :
            \E m : TokenConfigured(u, m, c.minAmount, c.depositLimit, c.claimLimit)
    BY <1>3, Zenon DEF TokenConfigCalls, WhiteListToken, ConfigureToken
  <2>2. PICK m : TokenConfigured(u, m, c.minAmount, c.depositLimit, c.claimLimit)
    BY <2>1
  <2> DEFINE d == ConfiguredData(u, m, c.minAmount, c.depositLimit, c.claimLimit)
  <2>3. c.minAmount # 0 /\ now' = now /\ tokenData' = [tokenData EXCEPT ![u] = d]
    BY <2>2 DEF TokenConfigured
  <2>4. CASE t = u
    <3>1. tokenData'[t] = d
      BY <1>0, <2>3, <2>4
    <3>2. Reconfigured(t, c)
      BY <2>3, <3>1 DEF Reconfigured, ConfiguredData
    <3> QED  BY <3>2 DEF FlowStep
  <2>5. CASE t # u
    <3> HIDE DEF d
    <3>1. tokenData'[t] = tokenData[t]
      BY <1>0, <2>3, <2>5
    <3> QED  BY <2>3, <3>1 DEF FlowStep
  <2> QED  BY <2>4, <2>5
<1>4. CASE ValidatorConfigCalls
  BY <1>4 DEF ValidatorConfigCalls, UpdateValidatorConfig, flowVars, FlowStep
<1>5. CASE StateCalls
  <2>1. UNCHANGED <<flowVars, now>>
    BY <1>5, Zenon DEF StateCalls, SetState, Migrate, TransferTokensToMigrated,
                       SetCallContractWhitelist
  <2> QED  BY <2>1 DEF flowVars, FlowStep
<1>6. CASE TokenCalls
  BY <1>6, TokenCallsEffect DEF flowVars, FlowStep
<1>7. CASE now < MaxTime /\ Tick
  BY <1>7 DEF Tick, flowVars, FlowStep
<1>8. CASE UNCHANGED bridgeVars
  BY <1>8 DEF bridgeVars, flowVars, FlowStep
<1> QED
  BY <1>1, <1>2, <1>3, <1>4, <1>5, <1>6, <1>7, <1>8 DEF BridgeNext

\* The clock is within its bound, and the token's limits are limits the admin has configured.
FlowInv(t) ==
    /\ now \in 0 .. MaxTime
    /\ tokenData[t].minAmount \in ConfiguredLimits \cup {0}
    /\ tokenData[t].depositLimit \in ConfiguredLimits \cup {0}
    /\ tokenData[t].claimLimit \in ConfiguredLimits \cup {0}

RateInv == BridgeInv /\ \A t \in Tokens : FlowInv(t)

\* The limits of a configuration are configured limits.
LEMMA ConfiguredLimit ==
    ASSUME NEW c \in Configurations
    PROVE  {c.minAmount, c.depositLimit, c.claimLimit} \subseteq ConfiguredLimits
  BY DEF ConfiguredLimits

\* The invariant holds at the start, and every call keeps it.
LEMMA RateInvInit == BridgeInit => RateInv
  BY BridgeInvInit, BridgeAssumption DEF BridgeInit, RateInv, FlowInv, UnknownToken

\* Charging a limiter, waiting, and reconfiguring a token keep what was admitted within the bound.
LEMMA RateInvStep == RateInv /\ [BridgeNext]_bridgeVars => RateInv'
<1> SUFFICES ASSUME RateInv, [BridgeNext]_bridgeVars
             PROVE  RateInv'
  OBVIOUS
<1>1. ASSUME NEW t \in Tokens
      PROVE  FlowInv(t)'
  <2>1. FlowStep(t) /\ FlowInv(t)
    BY FlowSteps DEF RateInv
  <2>2. tokenData[t] \in TokenData
    BY DEF RateInv, BridgeInv, BridgeTypeOK
  <2>3. CASE \E amount \in Nat : DepositCharged(t, amount) \/ ClaimCharged(t, amount)
    BY <2>1, <2>2, <2>3 DEF FlowInv, DepositCharged, ClaimCharged, TokenData
  <2>4. CASE \E c \in Configurations : Reconfigured(t, c)
    BY <2>1, <2>4, ConfiguredLimit DEF FlowInv, Reconfigured
  <2>5. CASE tokenData'[t] = tokenData[t] /\ now' = now + 1 /\ now < MaxTime
    BY <2>1, <2>5, BridgeAssumption DEF FlowInv
  <2>6. CASE tokenData'[t] = tokenData[t] /\ now' = now
    BY <2>1, <2>6 DEF FlowInv
  <2> QED  BY <2>1, <2>3, <2>4, <2>5, <2>6 DEF FlowStep
<1> QED
  BY <1>1, BridgeInvStep DEF RateInv

\* The limiters are within their bounds in every state.
LEMMA RateInvariant == BridgeSpec => []RateInv
  BY RateInvInit, RateInvStep, PTL DEF BridgeSpec

\* What the limiter admits in one transaction is at most twice the limit.
LEMMA AdmittedBound ==
    ASSUME NEW u \in Usage, NEW m \in Nat, NEW l \in Nat, NEW a \in Nat, NEW time \in Nat,
           Admits(u, m, l, a, time)
    PROVE  m # 0 /\ l # 0 /\ a \in 0 .. 2 * l
  BY DEF Admits, Fits, Rolls, Usage

\* Such an amount is one of those the limiter is specified for.
LEMMA ChargedAmount ==
    ASSUME NEW l \in ConfiguredLimits, NEW a \in 0 .. 2 * l
    PROVE  a \in ChargedAmounts
  BY DEF ChargedAmounts

\* The deposits of every token implement RateLimit: a deposit or a batch of any length is one
\* Charge of its total, configuring the token is Configure, and nothing else touches the counter.
THEOREM DepositsRateLimitedSafety == BridgeSpec => DepositsRateLimited
<1>1. BridgeInit => \A t \in Tokens : DepositRate(t)!RateInit
  <2> SUFFICES ASSUME BridgeInit, NEW t \in Tokens
               PROVE  DepositRate(t)!RateInit
    OBVIOUS
  <2>1. now = 0 /\ tokenData[t] = UnknownToken /\ 0 \in 0 .. MaxTime
    BY BridgeAssumption DEF BridgeInit
  <2>2. /\ tokenData[t].minAmount = 0 /\ tokenData[t].depositLimit = 0
        /\ tokenData[t].depositUsage = [consumed |-> 0, lastUpdated |-> 0]
    BY <2>1 DEF UnknownToken, FreshUsage
  <2> QED  BY <2>1, <2>2 DEF DepositRate!RateInit, DepositRate!FreshUsage
<1>2. ASSUME RateInv, [BridgeNext]_bridgeVars, NEW t \in Tokens
      PROVE  [DepositRate(t)!RateNext]_(DepositRate(t)!rateVars)
  <2> DEFINE data == tokenData[t]
  <2>1. FlowStep(t) /\ FlowInv(t) /\ now \in 0 .. MaxTime
    BY <1>2, FlowSteps DEF RateInv, FlowInv
  <2>2. data \in TokenData
    BY <1>2 DEF RateInv, BridgeInv, BridgeTypeOK
  <2>3. ASSUME NEW amount \in Nat, DepositCharged(t, amount)
        PROVE  DepositRate(t)!RateNext
    <3>1. amount \in ChargedAmounts
      <4>1. data.depositLimit # 0 /\ amount \in 0 .. 2 * data.depositLimit
        BY <2>1, <2>2, <2>3, AdmittedBound DEF DepositCharged, TokenData
      <4>2. data.depositLimit \in ConfiguredLimits
        BY <2>1, <4>1 DEF FlowInv
      <4> QED  BY <4>1, <4>2, ChargedAmount
    <3>2. DepositRate(t)!Charge(amount)
      BY <2>2, <2>3 DEF DepositCharged, TokenData, DepositRate!Charge, DepositRate!Admits,
            DepositRate!Charged, DepositRate!Fits, DepositRate!Rolls, Admits, Charged, Fits, Rolls
    <3> QED  BY <3>1, <3>2 DEF DepositRate!RateNext
  <2>4. ASSUME NEW amount \in Nat, ClaimCharged(t, amount)
        PROVE  UNCHANGED DepositRate(t)!rateVars
    BY <2>2, <2>4 DEF ClaimCharged, TokenData, DepositRate!rateVars
  <2>5. ASSUME NEW c \in Configurations, Reconfigured(t, c)
        PROVE  DepositRate(t)!RateNext
    <3>1. c.minAmount \in ConfiguredLimits /\ c.depositLimit \in ConfiguredLimits
      BY ConfiguredLimit
    <3>2. DepositRate(t)!Configure(c.minAmount, c.depositLimit)
      BY <2>5 DEF Reconfigured, FreshUsage, DepositRate!Configure, DepositRate!FreshUsage
    <3> QED  BY <3>1, <3>2 DEF DepositRate!RateNext
  <2>6. CASE tokenData'[t] = tokenData[t] /\ now' = now + 1 /\ now < MaxTime
    <3>1. now' \in 0 .. MaxTime /\ now' > now
      BY <2>1, <2>6, BridgeAssumption
    <3>2. DepositRate(t)!Advance
      BY <2>6, <3>1 DEF DepositRate!Advance
    <3> QED  BY <3>2 DEF DepositRate!RateNext
  <2>7. CASE tokenData'[t] = tokenData[t] /\ now' = now
    BY <2>7 DEF DepositRate!rateVars
  <2> QED  BY <2>1, <2>3, <2>4, <2>5, <2>6, <2>7 DEF FlowStep
<1>3. RateInv /\ [BridgeNext]_bridgeVars =>
        [\A t \in Tokens : [DepositRate(t)!RateNext]_(DepositRate(t)!rateVars)]_bridgeVars
  BY <1>2
<1> QED
  BY <1>1, <1>3, RateInvariant, PTL DEF BridgeSpec, DepositsRateLimited

\* The claims of every token implement RateLimit in the same way.
THEOREM ClaimsRateLimitedSafety == BridgeSpec => ClaimsRateLimited
<1>1. BridgeInit => \A t \in Tokens : ClaimRate(t)!RateInit
  <2> SUFFICES ASSUME BridgeInit, NEW t \in Tokens
               PROVE  ClaimRate(t)!RateInit
    OBVIOUS
  <2>1. now = 0 /\ tokenData[t] = UnknownToken /\ 0 \in 0 .. MaxTime
    BY BridgeAssumption DEF BridgeInit
  <2>2. /\ tokenData[t].minAmount = 0 /\ tokenData[t].claimLimit = 0
        /\ tokenData[t].claimUsage = [consumed |-> 0, lastUpdated |-> 0]
    BY <2>1 DEF UnknownToken, FreshUsage
  <2> QED  BY <2>1, <2>2 DEF ClaimRate!RateInit, ClaimRate!FreshUsage
<1>2. ASSUME RateInv, [BridgeNext]_bridgeVars, NEW t \in Tokens
      PROVE  [ClaimRate(t)!RateNext]_(ClaimRate(t)!rateVars)
  <2> DEFINE data == tokenData[t]
  <2>1. FlowStep(t) /\ FlowInv(t) /\ now \in 0 .. MaxTime
    BY <1>2, FlowSteps DEF RateInv, FlowInv
  <2>2. data \in TokenData
    BY <1>2 DEF RateInv, BridgeInv, BridgeTypeOK
  <2>3. ASSUME NEW amount \in Nat, ClaimCharged(t, amount)
        PROVE  ClaimRate(t)!RateNext
    <3>1. amount \in ChargedAmounts
      <4>1. data.claimLimit # 0 /\ amount \in 0 .. 2 * data.claimLimit
        BY <2>1, <2>2, <2>3, AdmittedBound DEF ClaimCharged, TokenData
      <4>2. data.claimLimit \in ConfiguredLimits
        BY <2>1, <4>1 DEF FlowInv
      <4> QED  BY <4>1, <4>2, ChargedAmount
    <3>2. ClaimRate(t)!Charge(amount)
      BY <2>2, <2>3 DEF ClaimCharged, TokenData, ClaimRate!Charge, ClaimRate!Admits,
            ClaimRate!Charged, ClaimRate!Fits, ClaimRate!Rolls, Admits, Charged, Fits, Rolls
    <3> QED  BY <3>1, <3>2 DEF ClaimRate!RateNext
  <2>4. ASSUME NEW amount \in Nat, DepositCharged(t, amount)
        PROVE  UNCHANGED ClaimRate(t)!rateVars
    BY <2>2, <2>4 DEF DepositCharged, TokenData, ClaimRate!rateVars
  <2>5. ASSUME NEW c \in Configurations, Reconfigured(t, c)
        PROVE  ClaimRate(t)!RateNext
    <3>1. c.minAmount \in ConfiguredLimits /\ c.claimLimit \in ConfiguredLimits
      BY ConfiguredLimit
    <3>2. ClaimRate(t)!Configure(c.minAmount, c.claimLimit)
      BY <2>5 DEF Reconfigured, FreshUsage, ClaimRate!Configure, ClaimRate!FreshUsage
    <3> QED  BY <3>1, <3>2 DEF ClaimRate!RateNext
  <2>6. CASE tokenData'[t] = tokenData[t] /\ now' = now + 1 /\ now < MaxTime
    <3>1. now' \in 0 .. MaxTime /\ now' > now
      BY <2>1, <2>6, BridgeAssumption
    <3>2. ClaimRate(t)!Advance
      BY <2>6, <3>1 DEF ClaimRate!Advance
    <3> QED  BY <3>2 DEF ClaimRate!RateNext
  <2>7. CASE tokenData'[t] = tokenData[t] /\ now' = now
    BY <2>7 DEF ClaimRate!rateVars
  <2> QED  BY <2>1, <2>3, <2>4, <2>5, <2>6, <2>7 DEF FlowStep
<1>3. RateInv /\ [BridgeNext]_bridgeVars =>
        [\A t \in Tokens : [ClaimRate(t)!RateNext]_(ClaimRate(t)!rateVars)]_bridgeVars
  BY <1>2
<1> QED
  BY <1>1, <1>3, RateInvariant, PTL DEF BridgeSpec, ClaimsRateLimited

-----------------------------------------------------------------------------
\* Permits

\* A permit is signed for a nonce its owner has reached.
PermitsReached ==
    \A p \in signedPermits : p.nonce <= ledger[p.token].nonce[p.owner]

PermitInv == BridgeInv /\ PermitsReached

\* A nonce never goes back.
LEMMA NoncesGrow ==
    ASSUME BridgeInv, [BridgeNext]_bridgeVars, NEW t \in Tokens, NEW a \in Accounts
    PROVE  ledger'[t].nonce[a] >= ledger[t].nonce[a] /\ ledger'[t].nonce[a] \in Nat
<1>1. ledger[t].nonce[a] \in Nat
  BY LedgerFacts DEF BridgeInv, BridgeTypeOK, TokenTypeOK
<1>2. BridgeInv'
  BY BridgeInvStep
<1>3. ledger'[t].nonce[a] \in Nat
  BY <1>2, LedgerFacts DEF BridgeInv, BridgeTypeOK, TokenTypeOK
<1>4. ledger'[t].nonce[a] >= ledger[t].nonce[a]
  <2>1. CASE DepositCalls
    <3>1. PICK u, ds, permits, callContract, reserveBalance :
              IsDeposit(u, ds, permits, callContract, reserveBalance)
      BY <2>1, DepositCallsDeposit
    <3>2. /\ \A v \in Tokens \ {u} : ledger'[v] = ledger[v]
          /\ ledger'[u].nonce[a] >= ledger[u].nonce[a]
      BY <3>1, DepositedEffect
    <3> QED  BY <1>1, <3>2
  <2>2. CASE ClaimCalls
    <3>1. PICK u, cs : IsClaim(u, cs)
      BY <2>2, ClaimCallsClaim
    <3>2. /\ \A v \in Tokens \ {u} : ledger'[v] = ledger[v]
          /\ ledger'[u].nonce[a] = ledger[u].nonce[a]
      BY <3>1, ClaimedEffect
    <3> QED  BY <1>1, <3>2
  <2>3. CASE TokenCalls
    BY <2>3, TokenCallsEffect DEF LedgerStep
  <2>4. CASE UNCHANGED tokenVars
    BY <1>1, <2>4 DEF tokenVars
  <2>5. ASSUME NEW sender, NEW tokens, TransferTokensToMigrated(sender, tokens)
        PROVE  ledger'[t].nonce[a] >= ledger[t].nonce[a]
    <3>1. ledger'[t].nonce = ledger[t].nonce
      BY <2>5, MigratedEffect
    <3> QED  BY <1>1, <3>1
  <2> QED  BY <2>1, <2>2, <2>3, <2>4, <2>5, LedgerCalls, StateCallsLedger
<1> QED
  BY <1>3, <1>4

\* A permit is new only when its owner has just signed it.
LEMMA NewPermits ==
    ASSUME BridgeInv, [BridgeNext]_bridgeVars
    PROVE  \/ UNCHANGED signedPermits
           \/ /\ UNCHANGED ledger
              /\ \E t \in Tokens, owner \in Callers, spender \in Spenders, v \in Amounts :
                   SignPermit(t, owner, spender, v)
<1>1. CASE DepositCalls
  BY <1>1, DepositCallsDeposit DEF IsDeposit, Deposited
<1>2. CASE ClaimCalls
  BY <1>2, ClaimCallsClaim DEF IsClaim, Claimed
<1>3. CASE TokenCalls
  <2>1. CASE \E t \in Tokens, owner \in Callers, spender \in Spenders, v \in Amounts :
               ledger[t].nonce[owner] < MaxNonce /\ SignPermit(t, owner, spender, v)
    <3>1. PICK t \in Tokens, owner \in Callers, spender \in Spenders, v \in Amounts :
              SignPermit(t, owner, spender, v)
      BY <2>1, Zenon
    <3>2. UNCHANGED ledger
      BY <3>1 DEF SignPermit
    <3> QED  BY <3>1, <3>2
  <2>2. CASE ~ \E t \in Tokens, owner \in Callers, spender \in Spenders, v \in Amounts :
                 ledger[t].nonce[owner] < MaxNonce /\ SignPermit(t, owner, spender, v)
    <3>1. UNCHANGED signedPermits
      BY <1>3, <2>2, Zenon DEF TokenCalls, Transfer, Burn, Approve, SubmitPermit, Mint, Pause, Unpause
    <3> QED  BY <3>1
  <2> QED  BY <2>1, <2>2
<1>4. CASE StateCalls
  BY <1>4, StateCallsLedger DEF tokenVars, TransferTokensToMigrated
<1> QED
  BY <1>1, <1>2, <1>3, <1>4, LedgerCalls DEF tokenVars

\* Every call keeps permits within the nonces their owners have reached.
LEMMA PermitInvStep == PermitInv /\ [BridgeNext]_bridgeVars => PermitInv'
<1> SUFFICES ASSUME PermitInv, [BridgeNext]_bridgeVars, NEW p \in signedPermits'
             PROVE  p.nonce <= ledger'[p.token].nonce[p.owner]
  BY BridgeInvStep DEF PermitInv, PermitsReached
<1>1. BridgeInv /\ signedPermits \subseteq Permit
  BY DEF PermitInv, BridgeInv, BridgeTypeOK, TokenTypeOK
<1>2. CASE p \in signedPermits
  <2>1. /\ p.nonce \in Nat /\ p.token \in Tokens /\ p.owner \in Accounts
        /\ p.nonce <= ledger[p.token].nonce[p.owner]
    BY <1>1, <1>2 DEF Permit, PermitInv, PermitsReached
  <2>2. /\ ledger'[p.token].nonce[p.owner] >= ledger[p.token].nonce[p.owner]
        /\ ledger'[p.token].nonce[p.owner] \in Nat
        /\ ledger[p.token].nonce[p.owner] \in Nat
    BY <1>1, <2>1, NoncesGrow, LedgerFacts DEF BridgeInv, BridgeTypeOK, TokenTypeOK
  <2> QED  BY <2>1, <2>2
<1>3. CASE p \notin signedPermits
  <2>1. PICK t \in Tokens, owner \in Callers, spender \in Spenders, v \in Amounts :
            SignPermit(t, owner, spender, v)
    BY <1>1, <1>3, NewPermits
  <2>2. p.token = t /\ p.owner = owner /\ p.nonce = ledger[t].nonce[owner] /\ UNCHANGED ledger
    BY <1>3, <2>1 DEF SignPermit
  <2>3. ledger[t].nonce[owner] \in Nat
    BY <1>1, LedgerFacts, BridgeAssumption DEF BridgeInv, BridgeTypeOK, TokenTypeOK
  <2> QED  BY <2>1, <2>2, <2>3
<1> QED
  BY <1>2, <1>3

\* The signed permits are within reach in every state.
LEMMA PermitInvariant == BridgeSpec => []PermitInv
<1>1. BridgeInit => PermitInv
  BY BridgeInvInit DEF PermitInv, PermitsReached, BridgeInit, TokenInit
<1> QED
  BY <1>1, PermitInvStep, PTL DEF BridgeSpec

-----------------------------------------------------------------------------
\* The tokens that a deposit with permit p needs are there.
Payable(l, p) ==
    TransferableFrom(TryPermit(l, p.token, p.owner, BridgeAddress, p.value, p),
                     BridgeAddress, p.owner, p.value)

OpenTerms(p) ==
    LET data == tokenData[p.token]
    IN  /\ p.owner # NoAddress
        /\ Admits(data.depositUsage, data.minAmount, data.depositLimit, p.value, now)
        /\ Payable(ledger[p.token], p)

DepositsOpen == \A p \in signedPermits : DepositOpen(p) <=> OpenTerms(p)

\* The deposit of one item succeeds exactly under these terms, now and in the next state.
LEMMA DepositOpenIs == BridgeInv => DepositsOpen
<1> SUFFICES ASSUME BridgeInv, NEW p \in signedPermits
             PROVE  DepositOpen(p) <=> OpenTerms(p)
  BY DEF DepositsOpen
<1> DEFINE t == p.token
           permits == <<p>>
           none == 0
           ds == <<[from |-> p.owner, to |-> p.owner, amount |-> p.value]>>
<1>1. BridgeTypeOK /\ p \in Permit
  BY DEF BridgeInv, BridgeTypeOK, TokenTypeOK
<1>2. t \in Tokens /\ p.owner \in Accounts /\ p.value \in Nat
  BY <1>1 DEF Permit
<1>3. /\ DepositBatch(ds) /\ Len(ds) = 1 /\ 1 \in DOMAIN ds /\ 1 \in DOMAIN permits /\ permits[1] = p
      /\ ds[1].from = p.owner /\ ds[1].to = p.owner /\ ds[1].amount = p.value
  BY <1>2 DEF DepositBatch, Batch
<1>4. DepositOpen(p) <=> DepositRun(t, ds, permits, NoAddress, none).ok
  BY DEF DepositOpen
<1> HIDE DEF ds, permits, t, none
<1>9. BridgeTypeOK /\ t \in Tokens /\ DepositBatch(ds)
  BY <1>1, <1>2, <1>3
<1>8. \E r : /\ IsDepositLoop(r, t, ds, permits, NoAddress, none)
             /\ DepositRun(t, ds, permits, NoAddress, none) = r[Len(ds)]
  BY ONLY <1>9, DepositLoop
<1>5. PICK r : /\ IsDepositLoop(r, t, ds, permits, NoAddress, none)
               /\ DepositRun(t, ds, permits, NoAddress, none) = r[Len(ds)]
  BY <1>8
<1>6. /\ r[0] = [ok |-> TRUE, usage |-> tokenData[t].depositUsage, ledger |-> ledger[t]]
      /\ r[1] = DepositStep(t, ds, permits, NoAddress, none, r[0], 1)
  <2>1. 1 \in 1 .. Len(ds) /\ 1 - 1 = 0
    BY <1>3
  <2> QED  BY <1>5, <2>1 DEF IsDepositLoop
<1>7. r[1].ok <=> OpenTerms(p)
  BY <1>3, <1>6 DEF DepositStep, Payable, OpenTerms, t
<1> QED
  BY <1>3, <1>4, <1>5, <1>7

\* The same in the next state.
LEMMA DepositOpenNext == BridgeInv' => DepositsOpen'
<1>1. (BridgeInv => DepositsOpen)'
  BY DepositOpenIs, PTL
<1> QED
  BY <1>1

\* permit changes one allowance and one nonce.
LEMMA PermittedEffect ==
    ASSUME NEW l \in LoopLedger, NEW owner \in Accounts, NEW spender \in Spenders, NEW v \in Nat
    PROVE  LET n == Permitted(l, owner, spender, v)
           IN  /\ n \in LoopLedger
               /\ n.balance = l.balance /\ n.paused = l.paused
               /\ n.nonce[owner] = l.nonce[owner] + 1 /\ n.allowance[owner][spender] = v
               /\ \A a \in Accounts \ {owner} :
                     n.nonce[a] = l.nonce[a] /\ n.allowance[a] = l.allowance[a]
<1> DEFINE m == Approved(l, owner, spender, v)
           n == [m EXCEPT !.nonce[owner] = @ + 1]
<1>1. /\ m \in LoopLedger
      /\ m.balance = l.balance /\ m.nonce = l.nonce /\ m.paused = l.paused
      /\ m.allowance[owner][spender] = v
      /\ \A a \in Accounts, s \in Spenders : a # owner => m.allowance[a][s] = l.allowance[a][s]
  BY ApprovedEffect
<1>2. \A a \in Accounts \ {owner} : m.allowance[a] = l.allowance[a]
  BY DEF Approved, LoopLedger
<1> HIDE DEF m
<1>3. /\ n \in LoopLedger
      /\ n.balance = m.balance /\ n.paused = m.paused /\ n.allowance = m.allowance
  BY <1>1, NonceUsed
<1>4. n.nonce[owner] = m.nonce[owner] + 1 /\ \A a \in Accounts \ {owner} : n.nonce[a] = m.nonce[a]
  BY <1>1 DEF LoopLedger
<1>5. Permitted(l, owner, spender, v) = n
  BY DEF Permitted, m
<1> HIDE DEF n
<1> QED
  BY <1>1, <1>2, <1>3, <1>4, <1>5

\* A permit that somebody submits does not make another deposit unpayable: it is the deposit's
\* own permit, which has then done its work, or another owner's.
LEMMA StaysPayable ==
    ASSUME NEW l \in Ledger, NEW p \in Permit, NEW q \in Permit, p.spender = BridgeAddress,
           q.nonce = l.nonce[q.owner], q.owner = p.owner => q = p, Payable(l, p)
    PROVE  Payable(Permitted(l, q.owner, q.spender, q.value), p)
<1> DEFINE m == Permitted(l, q.owner, q.spender, q.value)
<1>1. /\ q.owner \in Accounts /\ q.spender \in Spenders /\ q.value \in Nat
      /\ p.owner \in Accounts /\ p.value \in Nat /\ BridgeAddress \in Spenders
      /\ p = [token |-> p.token, owner |-> p.owner, spender |-> p.spender, value |-> p.value,
              nonce |-> p.nonce]
  BY BridgeAssumption DEF Permit
<1> DEFINE o == q.owner  sp == q.spender  v == q.value
<1>5. /\ l \in LoopLedger /\ o \in Accounts /\ sp \in Spenders /\ v \in Nat
      /\ m = Permitted(l, o, sp, v)
  BY <1>1, LedgerFacts
<1> HIDE DEF m, o, sp, v
<1>6. /\ m \in LoopLedger /\ m.balance = l.balance /\ m.paused = l.paused
      /\ m.nonce[o] = l.nonce[o] + 1 /\ m.allowance[o][sp] = v
      /\ \A a \in Accounts \ {o} : m.nonce[a] = l.nonce[a] /\ m.allowance[a] = l.allowance[a]
  BY <1>5, PermittedEffect
<1> USE DEF m, o, sp, v
<1>2. /\ m \in LoopLedger /\ m.balance = l.balance /\ m.paused = l.paused
      /\ m.nonce[q.owner] = l.nonce[q.owner] + 1 /\ m.allowance[q.owner][q.spender] = q.value
      /\ \A a \in Accounts \ {q.owner} :
            m.nonce[a] = l.nonce[a] /\ m.allowance[a] = l.allowance[a]
  BY <1>6
<1>3. CASE q = p
  <2>1. TryPermit(l, p.token, p.owner, BridgeAddress, p.value, p) = m
    BY <1>1, <1>3 DEF TryPermit, PermitValid
  <2>2. TryPermit(m, p.token, p.owner, BridgeAddress, p.value, p) = m
    <3>1. m.nonce[p.owner] # p.nonce
      BY <1>1, <1>2, <1>3 DEF Permit
    <3> HIDE DEF m
    <3> QED  BY <1>1, <3>1 DEF TryPermit, PermitValid
  <2> QED  BY <2>1, <2>2 DEF Payable
<1>4. CASE q.owner # p.owner
  <2>1. m.nonce[p.owner] = l.nonce[p.owner] /\ m.allowance[p.owner] = l.allowance[p.owner]
    BY <1>1, <1>2, <1>4
  <2> DEFINE a == TryPermit(l, p.token, p.owner, BridgeAddress, p.value, p)
             b == TryPermit(m, p.token, p.owner, BridgeAddress, p.value, p)
  <2>2. /\ a.balance = b.balance /\ a.paused = b.paused
        /\ a.allowance[p.owner][BridgeAddress] = b.allowance[p.owner][BridgeAddress]
    <3>1. l \in LoopLedger /\ m \in LoopLedger
      BY <1>2, LedgerFacts
    <3>2. CASE PermitValid(l, p.token, p.owner, BridgeAddress, p.value, p)
      <4>1. /\ a = Permitted(l, p.owner, BridgeAddress, p.value)
            /\ b = Permitted(m, p.owner, BridgeAddress, p.value)
        <5> HIDE DEF m
        <5> QED  BY <2>1, <3>2 DEF TryPermit, PermitValid
      <4> HIDE DEF m, a, b
      <4>2. /\ a.balance = l.balance /\ a.paused = l.paused
            /\ a.allowance[p.owner][BridgeAddress] = p.value
        BY <1>1, <3>1, <4>1, PermittedEffect
      <4>3. /\ b.balance = m.balance /\ b.paused = m.paused
            /\ b.allowance[p.owner][BridgeAddress] = p.value
        BY <1>1, <3>1, <4>1, PermittedEffect
      <4> QED  BY <1>2, <4>2, <4>3
    <3>3. CASE ~ PermitValid(l, p.token, p.owner, BridgeAddress, p.value, p)
      <4>1. a = l /\ b = m
        <5> HIDE DEF m
        <5> QED  BY <2>1, <3>3 DEF TryPermit, PermitValid
      <4> HIDE DEF m, a, b
      <4> QED  BY <1>2, <2>1, <4>1
    <3> QED  BY <3>2, <3>3
  <2> HIDE DEF a, b, m
  <2>3. TransferableFrom(b, BridgeAddress, p.owner, p.value)
    BY <2>2 DEF Payable, TransferableFrom, Transferable, a
  <2> QED  BY <2>3 DEF Payable, b, m
<1> QED
  BY <1>3, <1>4

\* Only a call of the token's permit looks like one: whatever else advances a nonce, a deposit
\* with a permit, moves tokens as well.
LEMMA SubmitPermitCalls ==
    ASSUME BridgeInv, [BridgeNext]_bridgeVars, NEW q \in signedPermits, SubmitPermit(q)
    PROVE  TokenCalls
<1> DEFINE t == q.token
           l == Permitted(ledger[t], q.owner, q.spender, q.value)
<1>1. /\ t \in Tokens /\ q.owner \in Accounts /\ q.spender \in Spenders /\ q.value \in Nat
      /\ ledger \in [Tokens -> Ledger] /\ ledger[t] \in Ledger /\ BridgeAddress \in Accounts
  BY BridgeAssumption DEF BridgeInv, BridgeTypeOK, TokenTypeOK, Permit
<1>2. ledger' = [ledger EXCEPT ![t] = l]
  BY DEF SubmitPermit
<1>3. l.balance = ledger[t].balance /\ l.nonce[q.owner] = ledger[t].nonce[q.owner] + 1
  <2> DEFINE m == ledger[t]  o == q.owner  s == q.spender  v == q.value
  <2>1. /\ m \in LoopLedger /\ o \in Accounts /\ s \in Spenders /\ v \in Nat /\ l = Permitted(m, o, s, v)
    BY <1>1, LedgerFacts
  <2> HIDE DEF m, o, s, v, l
  <2>2. l.balance = m.balance /\ l.nonce[o] = m.nonce[o] + 1
    BY <2>1, PermittedEffect
  <2> QED  BY <2>2 DEF m, o
<1> HIDE DEF t, l
<1>4. ledger'[t] = l /\ \A u \in Tokens \ {t} : ledger'[u] = ledger[u]
  BY <1>1, <1>2
<1>5. ledger[t].nonce[q.owner] \in Nat /\ \A u \in Tokens : ledger[u].balance[BridgeAddress] \in Nat
  BY <1>1, LedgerFacts
<1>6. ledger'[t].nonce[q.owner] # ledger[t].nonce[q.owner]
  BY <1>3, <1>4, <1>5
<1>7. ~ DepositCalls
  <2> SUFFICES ASSUME DepositCalls
               PROVE  FALSE
    OBVIOUS
  <2>1. PICK u, ds, permits, callContract, reserveBalance :
            IsDeposit(u, ds, permits, callContract, reserveBalance)
    BY DepositCallsDeposit
  <2>2. /\ u \in Tokens
        /\ ledger'[u].balance[BridgeAddress] = ledger[u].balance[BridgeAddress] + TotalOf(ds)
    BY <2>1, DepositReceived DEF IsDeposit
  <2>3. /\ TotalOf(ds) \in Nat
        /\ Admits(tokenData[u].depositUsage, tokenData[u].minAmount, tokenData[u].depositLimit,
                  TotalOf(ds), now)
    BY <2>1, DepositedEffect
  <2>4. TotalOf(ds) > 0
    BY <2>2, <2>3, TypesUsed DEF Admits, BridgeInv
  <2>5. ledger'[u].balance = ledger[u].balance
    BY <1>3, <1>4, <2>2
  <2> QED  BY <1>5, <2>2, <2>3, <2>4, <2>5
<1>8. ~ ClaimCalls
  BY <1>1, <1>4, <1>6, ClaimCallsClaim, ClaimedEffect
<1>9. ~ UNCHANGED tokenVars
  BY <1>6 DEF tokenVars
<1>10. ~ \E sender, tokens : TransferTokensToMigrated(sender, tokens)
  BY <1>1, <1>4, <1>6, MigratedEffect
<1> QED
  BY <1>7, <1>8, <1>9, <1>10, LedgerCalls, StateCallsLedger

\* Whoever submits a permit before the deposit it was signed for, the deposit succeeds if it
\* would have succeeded before (the try/catch in Bridge._applyPermit), as long as the owner has
\* signed no other permit from that nonce on.
THEOREM FrontRunSafety == BridgeSpec => FrontRunTolerated
<1> DEFINE Tolerates == (\E q \in signedPermits : SubmitPermit(q)) =>
              \A p \in signedPermits :
                 (p.spender = BridgeAddress /\ OnlyPermit(p) /\ DepositOpen(p)) => DepositOpen(p)'
<1>1. ASSUME PermitInv, [BridgeNext]_bridgeVars
      PROVE  [Tolerates]_bridgeVars
  <2> SUFFICES ASSUME NEW q \in signedPermits, SubmitPermit(q), bridgeVars' # bridgeVars,
                      NEW p \in signedPermits, p.spender = BridgeAddress, OnlyPermit(p), DepositOpen(p)
               PROVE  DepositOpen(p)'
    OBVIOUS
  <2>1. TokenCalls
    BY <1>1, SubmitPermitCalls DEF PermitInv
  <2>2. /\ BridgeInv /\ BridgeInv' /\ signedPermits \subseteq Permit
        /\ UNCHANGED <<tokenData, now, signedPermits>>
    BY <1>1, <2>1, BridgeInvStep, TokenCallsEffect
         DEF PermitInv, BridgeInv, BridgeTypeOK, TokenTypeOK, flowVars, SubmitPermit
  <2>3. p \in Permit /\ q \in Permit /\ p.token \in Tokens /\ ledger[p.token] \in Ledger
    BY <2>2 DEF Permit, BridgeInv, BridgeTypeOK, TokenTypeOK
  <2>4. OpenTerms(p)
    BY <2>2, DepositOpenIs DEF DepositsOpen
  <2>5. Payable(ledger'[p.token], p)
    <3> DEFINE l == ledger[p.token]
    <3>1. Payable(l, p)
      BY <2>4 DEF OpenTerms
    <3>2. CASE q.token # p.token
      <4>1. ledger'[p.token] = l
        BY <2>3, <3>2 DEF SubmitPermit
      <4> QED  BY <3>1, <4>1
    <3>3. CASE q.token = p.token
      <4>1. ledger'[p.token] = Permitted(l, q.owner, q.spender, q.value) /\ q.nonce = l.nonce[q.owner]
        BY <2>2, <2>3, <3>3 DEF SubmitPermit, PermitValid, BridgeInv, BridgeTypeOK, TokenTypeOK
      <4>2. p.nonce <= l.nonce[p.owner]
        BY <1>1 DEF PermitInv, PermitsReached
      <4>3. q.owner = p.owner => q = p
        BY <3>3, <4>1, <4>2 DEF OnlyPermit
      <4> QED
        BY ONLY <2>3, <3>1, <4>1, <4>3, p.spender = BridgeAddress, StaysPayable
    <3> QED  BY <3>2, <3>3
  <2>6. DepositOpen(p)'
    BY <2>2, <2>4, <2>5, DepositOpenNext DEF DepositsOpen, OpenTerms
  <2> QED  BY <2>6
<1> QED
  BY <1>1, PermitInvariant, PTL DEF BridgeSpec, FrontRunTolerated
=============================================================================
