------------------------- MODULE NativeBridgeProofs -------------------------
(***************************************************************************)
(* Why a withdrawal that Pod did not execute is never paid: what honest    *)
(* validators sign and what roots commit to are executed withdrawals, and  *)
(* a certificate that the contract accepts has an honest signer.  And why  *)
(* every mirror token is backed: each step moves the same amount out of    *)
(* one and into another of four sums, the tokens in custody, the balances  *)
(* on Pod, the deposits on their way and the withdrawals on their way.     *)
(* And why no upgrade strands a withdrawal: the root covers those of the   *)
(* versions the contract has left, and for those of the version it is in   *)
(* its honest validators are enough.                                       *)
(***************************************************************************)
EXTENDS Upgrades, BridgeProofs

\* Whoever can make a claim valid vouches for executed withdrawals only.
VouchersSound ==
    /\ \A s \in signatures : s[1] \in Byzantine \/ s[2] \in withdrawals
    /\ merkleRoot \subseteq withdrawals

\* The active Byzantine validators are fewer than a quorum.
HonestQuorums ==
    /\ ValidatorCountExact
    /\ activeValidators \subseteq Nat
    /\ Cardinality(activeValidators \cap Byzantine) <= adversarialResilience
    /\ adversarialResilience < validatorCount - adversarialResilience

\* The inductive invariant of NoForgedClaim.
NoForgedClaimInv == VouchersSound /\ HonestQuorums /\ NoForgedClaim

-----------------------------------------------------------------------------
\* A set of active validators as large as a quorum has an honest member.
LEMMA HonestSigner ==
    ASSUME HonestQuorums, NEW S \in SUBSET activeValidators,
           Cardinality(S) >= validatorCount - adversarialResilience
    PROVE  \E v \in S : v \notin Byzantine
<1> DEFINE B == activeValidators \cap Byzantine
<1>1. SUFFICES ASSUME S \subseteq B
               PROVE  FALSE
  OBVIOUS
<1>2. IsFiniteSet(activeValidators) /\ B \subseteq activeValidators
  BY DEF HonestQuorums, ValidatorCountExact
<1>3. IsFiniteSet(B) /\ IsFiniteSet(S)
  <2> HIDE DEF B
  <2> QED  BY <1>2, FS_Subset
<1>4. Cardinality(S) <= Cardinality(B)
  <2> HIDE DEF B
  <2> QED  BY <1>1, <1>3, FS_Subset
<1>5. Cardinality(S) \in Nat /\ Cardinality(B) \in Nat /\ Cardinality(activeValidators) \in Nat
  <2> HIDE DEF B
  <2> QED  BY <1>2, <1>3, FS_CardinalityType
<1>6. Cardinality(B) <= adversarialResilience
  BY DEF HonestQuorums
<1>7. adversarialResilience \in Nat /\ validatorCount \in Nat
  BY <1>5 DEF HonestQuorums, ValidatorCountExact
<1> HIDE DEF B
<1> QED
  BY <1>4, <1>5, <1>6, <1>7 DEF HonestQuorums

\* A proof that exists and that the contract accepts for a hash is for a withdrawal.
LEMMA AcceptedProof ==
    ASSUME VouchersSound, HonestQuorums, NEW proof, NEW h,
           proof.type = "Certificate" => proof.signers \in Seq(Nat),
           ProofExists(proof, h), VerifyProof(proof, h)
    PROVE  h \in withdrawals
<1>1. CASE proof.type = "Certificate"
  <2> DEFINE list == proof.signers
             S == {list[i] : i \in DOMAIN list}
  <2>1. SignaturesOK(list, activeValidators) /\ list \in Seq(Nat)
        /\ ComputeTxWeight(list) >= validatorCount - adversarialResilience
    BY <1>1 DEF VerifyProof
  <2>2. S \subseteq activeValidators /\ Cardinality(S) = ComputeTxWeight(list)
    <3> HIDE DEF list
    <3> QED  BY <2>1, SignersCounted
  <2>3. PICK v \in S : v \notin Byzantine
    <3> HIDE DEF list, S
    <3> QED  BY <2>1, <2>2, HonestSigner
  <2>4. PICK i \in DOMAIN list : v = list[i]
    BY <2>3
  <2>5. <<v, h>> \in signatures
    BY <1>1, <2>4 DEF ProofExists
  <2>6. <<v, h>>[1] = v /\ <<v, h>>[2] = h
    OBVIOUS
  <2> QED  BY <2>3, <2>5, <2>6, Zenon DEF VouchersSound
<1>2. CASE proof.type # "Certificate"
  BY <1>2 DEF VerifyProof, VerifyMerkleProof, VouchersSound
<1> QED
  BY <1>1, <1>2

-----------------------------------------------------------------------------
\* Claimants present lists of signers.
LEMMA ClaimSigners ==
    ASSUME NEW c \in Claims, c.proof.type = "Certificate"
    PROVE  \E m \in Nat : \E S : c.proof.signers \in [1 .. m -> S]
<1>1. PICK h : c.proof \in ProofsFor(h)
  BY DEF Claims, ClaimsFor
<1>2. PICK list \in SeqOf(SignersOf(h), MaxSigners) :
        c.proof = [type |-> "Certificate", signers |-> list]
  <2>1. \A v : c.proof # [type |-> "Merkle", version |-> v]
    OBVIOUS
  <2> QED  BY <1>1, <2>1 DEF ProofsFor, MerkleProofs
<1>3. PICK m \in 0 .. MaxSigners : list \in [1 .. m -> SignersOf(h)]
  BY DEF SeqOf
<1>4. MaxSigners \in Nat
  BY NativeAssumption
<1>5. m \in Nat /\ c.proof.signers \in [1 .. m -> SignersOf(h)]
  BY <1>2, <1>3, <1>4
<1> QED
  BY <1>5

\* A list of signers that is accepted is a sequence of numbers.
LEMMA SignerList ==
    ASSUME activeValidators \subseteq Nat, NEW m \in Nat, NEW S, NEW list \in [1 .. m -> S],
           SignaturesOK(list, activeValidators)
    PROVE  list \in Seq(Nat)
<1>1. \A i \in 1 .. m : list[i] \in Nat
  BY DEF SignaturesOK
<1> QED
  BY <1>1

\* Whatever is claimed, what is paid has been executed.
LEMMA ClaimsKeepInv ==
    ASSUME NoForgedClaimInv, SubmitClaims
    PROVE  NoForgedClaimInv'
<1>1. PICK t \in Tokens, cs \in SeqOf(Claims, MaxClaims) :
        /\ \A i \in DOMAIN cs : ProofExists(cs[i].proof, TxHash(t, cs[i]))
        /\ BatchClaim(t, cs)
        /\ UNCHANGED podVars
  BY DEF SubmitClaims
<1> DEFINE hash(i) == TxHash(t, cs[i])
           new == {hash(i) : i \in DOMAIN cs}
<1>2. /\ \A i \in DOMAIN cs : VerifyProof(cs[i].proof, hash(i))
      /\ DOMAIN paid' = DOMAIN paid \cup new
      /\ UNCHANGED <<version, merkleRoot, adversarialResilience, validatorCount, activeValidators>>
  <2>1. Claimed(t, cs)
    BY <1>1 DEF BatchClaim
  <2>2. {[j \in DOMAIN cs |-> TxHash(t, cs[j])][i] : i \in DOMAIN cs} = new
    OBVIOUS
  <2> QED  BY <2>1, <2>2 DEF Claimed, configVars
<1>3. ASSUME NEW i \in DOMAIN cs
      PROVE  hash(i) \in withdrawals
  <2>1. cs[i] \in Claims
    <3>1. PICK m \in 0 .. MaxClaims : cs \in [1 .. m -> Claims]
      BY DEF SeqOf
    <3> QED  BY <3>1
  <2> DEFINE proof == cs[i].proof
  <2>2. proof.type = "Certificate" => proof.signers \in Seq(Nat)
    <3> SUFFICES ASSUME proof.type = "Certificate"
                 PROVE  proof.signers \in Seq(Nat)
      OBVIOUS
    <3>1. PICK m \in Nat : \E S : proof.signers \in [1 .. m -> S]
      BY <2>1, ClaimSigners
    <3>2. SignaturesOK(proof.signers, activeValidators)
      BY <1>2 DEF VerifyProof
    <3> QED  BY <3>1, <3>2, SignerList DEF NoForgedClaimInv, HonestQuorums
  <2>3. ProofExists(proof, hash(i)) /\ VerifyProof(proof, hash(i))
    BY <1>1, <1>2
  <2> HIDE DEF proof, hash
  <2> QED  BY <2>2, <2>3, AcceptedProof DEF NoForgedClaimInv
<1>4. UNCHANGED <<withdrawals, signatures>>
  BY <1>1 DEF podVars
<1> HIDE DEF new
<1>5. new \subseteq withdrawals
  BY <1>3 DEF new
<1> QED
  BY <1>2, <1>4, <1>5
  DEF NoForgedClaimInv, NoForgedClaim, VouchersSound, HonestQuorums, ValidatorCountExact

\* The admin keeps honest quorums and commits roots over withdrawals.
LEMMA UpdateKeepsInv ==
    ASSUME NoForgedClaimInv, UpdateNetwork
    PROVE  NoForgedClaimInv'
<1>1. PICK sender \in Admins, f \in Resiliences, v \in Versions, root \in SUBSET withdrawals,
           add \in ValidatorLists, remove \in ValidatorLists :
        /\ UpdateValidatorConfig(sender, f, v, root, add, remove)
        /\ Cardinality(activeValidators' \cap Byzantine) <= f
        /\ f < validatorCount' - f
        /\ UNCHANGED podVars
  BY Zenon DEF UpdateNetwork
<1>2. ValidatorCountExact'
  BY <1>1, ValidatorConfigKeepsCount DEF NoForgedClaimInv, HonestQuorums
<1>3. /\ activeValidators' \subseteq activeValidators \cup {add[i] : i \in DOMAIN add}
      /\ adversarialResilience' = f /\ merkleRoot' = root /\ paid' = paid
  BY <1>1 DEF UpdateValidatorConfig, flowVars
<1>4. {add[i] : i \in DOMAIN add} \subseteq Nat
  BY BridgeAssumption
<1>5. HonestQuorums'
  BY <1>1, <1>2, <1>3, <1>4 DEF NoForgedClaimInv, HonestQuorums
<1> QED
  BY <1>1, <1>3, <1>5 DEF NoForgedClaimInv, NoForgedClaim, VouchersSound, podVars

\* At the start nothing is signed and nothing committed.
LEMMA NoForgedClaimInvInit == Init => NoForgedClaimInv
<1> SUFFICES ASSUME Init
             PROVE  NoForgedClaimInv
  OBVIOUS
<1>1. ValidatorCountExact
  BY ValidatorCountInitial DEF Init
<1>2. /\ activeValidators = InitialValidators /\ adversarialResilience = InitialResilience
      /\ validatorCount = Cardinality(InitialValidators) /\ merkleRoot = {} /\ DOMAIN paid = {}
      /\ signatures = {}
  BY DEF Init, BridgeInit
<1>3. Cardinality(InitialValidators) \in Nat /\ InitialResilience \in Nat
  BY BridgeAssumption, FS_CardinalityType
<1>4. HonestQuorums
  BY <1>1, <1>2, <1>3, BridgeAssumption, NativeAssumption DEF HonestQuorums
<1> QED
  BY <1>2, <1>4 DEF NoForgedClaimInv, NoForgedClaim, VouchersSound

\* Every step keeps the invariant.
LEMMA NoForgedClaimInvStep == NoForgedClaimInv /\ [Next]_vars => NoForgedClaimInv'
<1> SUFFICES ASSUME NoForgedClaimInv, [Next]_vars
             PROVE  NoForgedClaimInv'
  OBVIOUS
<1>1. ASSUME UNCHANGED <<configVars, paid>>, withdrawals \subseteq withdrawals',
             \A s \in signatures' : s \in signatures \/ s[1] \in Byzantine \/ s[2] \in withdrawals
      PROVE  NoForgedClaimInv'
  BY <1>1 DEF NoForgedClaimInv, NoForgedClaim, VouchersSound, HonestQuorums,
              ValidatorCountExact, configVars
<1>2. ASSUME NEW e, CreditDeposit(e)
      PROVE  NoForgedClaimInv'
  BY <1>1, <1>2 DEF CreditDeposit, bridgeVars, flowVars
<1>3. ASSUME NEW from, NEW m, NEW amount, NEW to, NEW suffix, PodWithdraw(from, m, amount, to, suffix)
      PROVE  NoForgedClaimInv'
  BY <1>1, <1>3 DEF PodWithdraw, bridgeVars, flowVars
<1>4. ASSUME NEW v, PodUpgrade(v)
      PROVE  NoForgedClaimInv'
  BY <1>1, <1>4 DEF PodUpgrade, bridgeVars, flowVars
<1>5. ASSUME NEW v, NEW h, Sign(v, h)
      PROVE  NoForgedClaimInv'
  <2>1. /\ UNCHANGED <<configVars, paid, withdrawals>>
        /\ signatures' = signatures \cup {<<v, h>>}
        /\ v \in Byzantine \/ h \in withdrawals
    BY <1>5 DEF Sign, bridgeVars, flowVars
  <2>2. <<v, h>>[1] = v /\ <<v, h>>[2] = h
    OBVIOUS
  <2> QED  BY <1>1, <2>1, <2>2
<1>6. CASE DepositCalls /\ UNCHANGED podVars
  BY <1>1, <1>6, DepositCallsKeep DEF podVars
<1>7. CASE TokenConfigCalls /\ UNCHANGED podVars
  BY <1>1, <1>7
  DEF TokenConfigCalls, WhiteListToken, ConfigureToken, TokenConfigured, podVars
<1>8. CASE StateCalls /\ UNCHANGED podVars
  BY <1>1, <1>8
  DEF StateCalls, SetState, MaySetState, Migrate, TransferTokensToMigrated,
      SetCallContractWhitelist, flowVars, podVars
<1>9. CASE Tick /\ UNCHANGED podVars
  BY <1>1, <1>9 DEF Tick, flowVars, podVars
<1>10. CASE UNCHANGED vars
  BY <1>1, <1>10 DEF vars, bridgeVars, flowVars, podVars
<1>11. CASE SubmitClaims
  BY <1>11, ClaimsKeepInv
<1>12. CASE UpdateNetwork
  BY <1>12, UpdateKeepsInv
<1> QED
  BY <1>2, <1>3, <1>4, <1>5, <1>6, <1>7, <1>8, <1>9, <1>10, <1>11, <1>12 DEF Next, Traffic

\* Nothing is paid that Pod has not executed: for every committee of which the Byzantine
\* validators are fewer than a quorum, every list of signatures, every reconfiguration
\* that keeps them so, every batch.
THEOREM NoForgedClaimSafety == Spec => []NoForgedClaim
<1>1. NoForgedClaimInv => NoForgedClaim
  BY DEF NoForgedClaimInv
<1> QED
  BY <1>1, NoForgedClaimInvInit, NoForgedClaimInvStep, PTL DEF Spec

-----------------------------------------------------------------------------
\* The sums of a backed mirror are over finite sets of numbers.

\* What is known of Pod's state.
PodTyped ==
    /\ podBalance \in [MirrorTokens -> [Accounts -> Nat]]
    /\ IsFiniteSet(withdrawals)
    /\ \A h \in withdrawals : h.token \in MirrorTokens /\ h.amount \in Nat /\ h.to \in Callers
    /\ \A s \in signatures : s[2].amount \in Nat
    /\ processedRequests \subseteq withdrawals
    /\ \A c \in credited : c \in Nat /\ c + 1 \in DOMAIN deposits

\* Deposits are of listed tokens, for accounts of Pod.
DepositsListed ==
    \A i \in DOMAIN deposits :
        LET e == deposits[i]
        IN  /\ e.token \in Tokens /\ e.amount \in Nat /\ e.to \in Accounts
            /\ tokenData[e.token].mirrorToken # NoAddress

\* The contracts hold nothing of a token that is not listed.
TokensListed ==
    \A t \in Tokens :
        /\ tokenData[t].minAmount = 0 <=> tokenData[t].mirrorToken = NoAddress
        /\ tokenData[t].mirrorToken = NoAddress => \A a \in Custodians : ledger[t].balance[a] = 0

\* The successor, once there is one, is a custodian.
SuccessorKnown == migratedContract \in NewContracts \cup {NoAddress}

\* What the sums, and the lemmas about the contract, need.
BackingTypes ==
    /\ BridgeInv /\ DepositIdsInv
    /\ PodTyped /\ DepositsListed /\ TokensListed /\ SuccessorKnown

\* Custodians are accounts, finitely many, and none of them is a user.
LEMMA CustodiansAre ==
    /\ IsFiniteSet(Custodians) /\ Custodians \subseteq Accounts /\ BridgeAddress \in Custodians
    /\ Custodians \cap Callers = {}
<1>1. Custodians \subseteq Accounts /\ BridgeAddress \in Custodians /\ Custodians \cap Callers = {}
  BY BridgeAssumption, NativeAssumption DEF Custodians
<1> QED
  BY <1>1, NativeAssumption, FS_Subset

\* Balances and what is in custody are numbers.
LEMMA CustodyType ==
    ASSUME BridgeInv, NEW t \in Tokens
    PROVE  /\ \A a \in Custodians : ledger[t].balance[a] \in Nat
           /\ Custody(t) \in Int
<1>1. \A a \in Custodians : ledger[t].balance[a] \in Nat
  BY CustodiansAre, LedgerFacts DEF BridgeInv, BridgeTypeOK, TokenTypeOK
<1> DEFINE f == ledger[t].balance
<1>2. \A a \in Custodians : f[a] \in Int
  BY <1>1
<1> HIDE DEF f
<1>3. SumFunctionOnSet(f, Custodians) \in Int
  BY ONLY <1>2, CustodiansAre, SumType
<1> QED
  BY <1>1, <1>3 DEF f, Custody

\* The functions that are summed up.
CustodyOf == [t \in Tokens |-> Custody(t)]
DepositAmounts == [i \in DOMAIN deposits |-> deposits[i].amount]
WithdrawalAmounts == [h \in withdrawals |-> h.amount]

\* What is summed up.
LEMMA SumTypes ==
    ASSUME BackingTypes, NEW m \in MirrorTokens
    PROVE  /\ IsFiniteSet(TokensOf(m)) /\ \A t \in TokensOf(m) : CustodyOf[t] \in Int
           /\ IsFiniteSet(Accounts) /\ \A a \in Accounts : podBalance[m][a] \in Int
           /\ IsFiniteSet(Incoming(m)) /\ \A i \in Incoming(m) : DepositAmounts[i] \in Int
           /\ IsFiniteSet(Unpaid(m)) /\ \A h \in Unpaid(m) : WithdrawalAmounts[h] \in Int
<1>1. IsFiniteSet(TokensOf(m)) /\ \A t \in TokensOf(m) : CustodyOf[t] \in Int
  <2>1. TokensOf(m) \subseteq Tokens
    BY DEF TokensOf
  <2>2. IsFiniteSet(TokensOf(m))
    BY <2>1, NativeAssumption, FS_Subset
  <2>3. \A t \in Tokens : Custody(t) \in Int
    BY CustodyType DEF BackingTypes
  <2> QED  BY <2>1, <2>2, <2>3 DEF CustodyOf
<1>2. IsFiniteSet(Accounts) /\ \A a \in Accounts : podBalance[m][a] \in Int
  BY NativeAssumption DEF BackingTypes, PodTyped
<1>3. IsFiniteSet(Incoming(m)) /\ \A i \in Incoming(m) : DepositAmounts[i] \in Int
  <2>1. Incoming(m) \subseteq DOMAIN deposits
    BY DEF Incoming
  <2>2. IsFiniteSet(DOMAIN deposits)
    <3>1. \E S : deposits \in Seq(S)
      BY DEF BackingTypes, DepositIdsInv
    <3>2. DOMAIN deposits = 1 .. Len(deposits) /\ Len(deposits) \in Nat
      BY <3>1
    <3> DEFINE n == Len(deposits)
    <3> HIDE DEF n
    <3>3. 0 \in Int /\ n \in Int => IsFiniteSet(1 .. n)
      BY FS_Interval
    <3> QED  BY <3>2, <3>3 DEF n
  <2>3. IsFiniteSet(Incoming(m))
    BY <2>1, <2>2, FS_Subset
  <2>4. \A i \in DOMAIN deposits : deposits[i].amount \in Nat
    BY DEF BackingTypes, DepositsListed
  <2> QED  BY <2>1, <2>3, <2>4 DEF DepositAmounts
<1>4. IsFiniteSet(Unpaid(m)) /\ \A h \in Unpaid(m) : WithdrawalAmounts[h] \in Int
  <2>1. Unpaid(m) \subseteq withdrawals
    BY DEF Unpaid
  <2>2. IsFiniteSet(Unpaid(m))
    BY <2>1, FS_Subset DEF BackingTypes, PodTyped
  <2>3. \A h \in withdrawals : h.amount \in Nat
    BY DEF BackingTypes, PodTyped
  <2> QED  BY <2>1, <2>2, <2>3 DEF WithdrawalAmounts
<1> QED
  BY <1>1, <1>2, <1>3, <1>4

\* So are the sums.
LEMMA SumsType ==
    ASSUME BackingTypes, NEW m \in MirrorTokens
    PROVE  Locked(m) \in Int /\ OnPod(m) \in Int /\ Arriving(m) \in Int /\ Returning(m) \in Int
<1>1. SumFunctionOnSet(CustodyOf, TokensOf(m)) \in Int
  BY SumTypes, SumType
<1>2. SumFunctionOnSet(podBalance[m], Accounts) \in Int
  <2> DEFINE f == podBalance[m]
  <2>1. IsFiniteSet(Accounts) /\ \A a \in Accounts : f[a] \in Int
    BY SumTypes
  <2> HIDE DEF f
  <2>2. SumFunctionOnSet(f, Accounts) \in Int
    BY ONLY <2>1, SumType
  <2> QED  BY <2>2 DEF f
<1>3. SumFunctionOnSet(DepositAmounts, Incoming(m)) \in Int
  BY SumTypes, SumType
<1>4. SumFunctionOnSet(WithdrawalAmounts, Unpaid(m)) \in Int
  BY SumTypes, SumType
<1> QED
  BY <1>1, <1>2, <1>3, <1>4
  DEF Locked, OnPod, Arriving, Returning, CustodyOf, DepositAmounts, WithdrawalAmounts

\* A step that changes the bridge's balance of a token, and no other custodian's, by d.
LEMMA CustodyMoves ==
    ASSUME BridgeInv, NEW t \in Tokens, NEW d \in Int,
           \A a \in Custodians :
              ledger'[t].balance[a] = ledger[t].balance[a] + (IF a = BridgeAddress THEN d ELSE 0)
    PROVE  Custody(t)' = Custody(t) + d
<1> DEFINE f == ledger[t].balance
           g == ledger'[t].balance
<1>1. \A a \in Custodians :
         f[a] \in Int /\ g[a] = f[a] + (IF a = BridgeAddress THEN d ELSE 0)
  BY CustodyType
<1>2. BridgeAddress \in Custodians /\ IsFiniteSet(Custodians)
  BY CustodiansAre
<1> HIDE DEF f, g
<1>3. SumFunctionOnSet(g, Custodians)
        = SumFunctionOnSet(f, Custodians) + (IF BridgeAddress \in Custodians THEN d ELSE 0)
  BY ONLY <1>1, <1>2, d \in Int, SumChange
<1> QED
  BY <1>2, <1>3 DEF f, g, Custody

\* A token whose ledger stays keeps what is in custody.
LEMMA CustodyStays ==
    ASSUME NEW t \in Tokens, ledger'[t] = ledger[t]
    PROVE  Custody(t)' = Custody(t)
  BY DEF Custody

\* A deposit takes its total into custody.
LEMMA CustodyDeposited ==
    ASSUME BridgeInv, NEW t, NEW ds, NEW permits, NEW callContract, NEW reserveBalance,
           IsDeposit(t, ds, permits, callContract, reserveBalance), Presented(ds)
    PROVE  \A u \in Tokens : Custody(u)' = Custody(u) + (IF u = t THEN TotalOf(ds) ELSE 0)
<1> DEFINE n == Len(ds)
<1>1. /\ t \in Tokens /\ n \in Nat /\ DOMAIN ds = 1 .. n /\ TotalOf(ds) \in Nat
      /\ \A u \in Tokens \ {t} : ledger'[u] = ledger[u]
      /\ \A a \in Accounts : ledger'[t].balance[a] = ledger[t].balance[a]
                               + SumFunctionOnSet(DepositChange(ds, a), 1 .. n)
  BY DepositedEffect DEF IsDeposit, DepositBatch, Batch
<1>2. \A i \in 1 .. n : ds[i].from \notin NewContracts
  BY <1>1, NativeAssumption DEF Presented
<1>3. ASSUME NEW a \in Custodians, a # BridgeAddress
      PROVE  ledger'[t].balance[a] = ledger[t].balance[a]
  <2> DEFINE g == DepositChange(ds, a)
  <2>1. a \in Accounts /\ a \in NewContracts
    BY <1>3 DEF Custodians
  <2>2. \A i \in 1 .. n : g[i] = 0
    BY <1>2, <1>3, <2>1 DEF DepositChange
  <2>3. IsFiniteSet(1 .. n)
    <3> HIDE DEF n
    <3> QED  BY <1>1, FS_Interval
  <2>6. ledger'[t].balance[a] = ledger[t].balance[a] + SumFunctionOnSet(g, 1 .. n)
    BY <1>1, <2>1
  <2> HIDE DEF g, n
  <2>4. SumFunctionOnSet(g, 1 .. n) = 0
    BY ONLY <2>2, <2>3, SumZero
  <2>5. ledger[t].balance[a] \in Nat
    BY <1>1, <1>3, CustodyType
  <2> QED  BY <2>4, <2>5, <2>6
<1>4. ledger'[t].balance[BridgeAddress] = ledger[t].balance[BridgeAddress] + TotalOf(ds)
  BY DepositReceived
<1>5. \A a \in Custodians : ledger[t].balance[a] \in Nat
  BY <1>1, CustodyType
<1>6. Custody(t)' = Custody(t) + TotalOf(ds)
  <2>1. \A a \in Custodians : ledger'[t].balance[a] = ledger[t].balance[a]
                                + (IF a = BridgeAddress THEN TotalOf(ds) ELSE 0)
    BY <1>3, <1>4, <1>5
  <2> QED  BY <1>1, <2>1, CustodyMoves
<1>7. \A u \in Tokens \ {t} : Custody(u)' = Custody(u) /\ Custody(u) \in Int
  BY <1>1, CustodyStays, CustodyType
<1> QED
  BY <1>6, <1>7

\* A claim for users gives its total out of custody.
LEMMA CustodyClaimed ==
    ASSUME BridgeInv, NEW t, NEW cs, IsClaim(t, cs), \A i \in 1 .. Len(cs) : cs[i].to \in Callers
    PROVE  \A u \in Tokens : Custody(u)' = Custody(u) + (IF u = t THEN - TotalOf(cs) ELSE 0)
<1> DEFINE n == Len(cs)
<1>1. /\ t \in Tokens /\ n \in Nat /\ DOMAIN cs = 1 .. n /\ TotalOf(cs) \in Nat
      /\ \A u \in Tokens \ {t} : ledger'[u] = ledger[u]
      /\ \A a \in Accounts : ledger'[t].balance[a] = ledger[t].balance[a]
                               + SumFunctionOnSet(ClaimChange(cs, a), 1 .. n)
  BY ClaimedEffect DEF IsClaim, Batch
<1>2. \A i \in 1 .. n : cs[i].amount \in Nat
  BY DEF IsClaim, Batch
<1>3. IsFiniteSet(1 .. n)
  <2> HIDE DEF n
  <2> QED  BY <1>1, FS_Interval
<1>4. ASSUME NEW a \in Custodians
      PROVE  ledger'[t].balance[a] = ledger[t].balance[a]
               + (IF a = BridgeAddress THEN - TotalOf(cs) ELSE 0)
  <2> DEFINE g == ClaimChange(cs, a)
             f == AmountsOf(cs)
  <2>1. a \in Accounts /\ \A i \in 1 .. n : cs[i].to # a
    BY <1>4, CustodiansAre
  <2>2. ledger'[t].balance[a] = ledger[t].balance[a] + SumFunctionOnSet(g, 1 .. n)
    BY <1>1, <2>1
  <2>3. ledger[t].balance[a] \in Nat
    BY <1>1, <1>4, CustodyType
  <2>4. CASE a = BridgeAddress
    <3>1. \A i \in 1 .. n : f[i] \in Int /\ g[i] = - f[i]
      BY <1>2, <2>1, <2>4 DEF ClaimChange, AmountsOf
    <3> HIDE DEF f, g, n
    <3>2. SumFunctionOnSet(g, 1 .. n) = - SumFunctionOnSet(f, 1 .. n)
      BY ONLY <1>3, <3>1, SumOpposite
    <3>3. SumFunctionOnSet(f, 1 .. n) = TotalOf(cs)
      BY DEF TotalOf, f, n
    <3> QED  BY <1>1, <2>2, <2>3, <2>4, <3>2, <3>3
  <2>5. CASE a # BridgeAddress
    <3>1. \A i \in 1 .. n : g[i] = 0
      BY <1>2, <2>1, <2>5 DEF ClaimChange
    <3> HIDE DEF f, g, n
    <3>2. SumFunctionOnSet(g, 1 .. n) = 0
      BY ONLY <1>3, <3>1, SumZero
    <3> QED  BY <2>2, <2>3, <2>5, <3>2
  <2> QED  BY <2>4, <2>5
<1>5. Custody(t)' = Custody(t) + (- TotalOf(cs))
  <2> DEFINE d == - TotalOf(cs)
  <2>1. d \in Int /\ \A a \in Custodians : ledger'[t].balance[a] = ledger[t].balance[a]
                                             + (IF a = BridgeAddress THEN d ELSE 0)
    BY <1>1, <1>4
  <2> HIDE DEF d
  <2>2. Custody(t)' = Custody(t) + d
    BY <1>1, <2>1, CustodyMoves
  <2> QED  BY <2>2 DEF d
<1>6. \A u \in Tokens \ {t} : Custody(u)' = Custody(u) /\ Custody(u) \in Int
  BY <1>1, CustodyStays, CustodyType
<1> QED
  BY <1>5, <1>6

\* A migration keeps it in custody: the successor is a custodian.
LEMMA CustodyMigrated ==
    ASSUME BridgeInv, SuccessorKnown, NEW sender, NEW tokens, TransferTokensToMigrated(sender, tokens),
           NEW t \in Tokens
    PROVE  Custody(t)' = Custody(t)
<1> DEFINE held == ledger[t].balance[BridgeAddress]
<1>1. CASE ledger'[t] = ledger[t]
  BY <1>1, CustodyStays
<1>2. CASE ledger'[t] # ledger[t]
  <2> DEFINE f == ledger[t].balance
             g == [a \in Custodians |-> f[a] + (IF a = BridgeAddress THEN - held ELSE 0)]
             h == ledger'[t].balance
  <2>1. /\ migratedContract \in Accounts
        /\ \A a \in Accounts :
             ledger'[t].balance[a] = ledger[t].balance[a]
               - (IF a = BridgeAddress THEN held ELSE 0) + (IF a = migratedContract THEN held ELSE 0)
    BY <1>2, MigratedEffect
  <2>2. migratedContract \in Custodians
    BY <2>1, BridgeAssumption DEF SuccessorKnown, Custodians
  <2>3. /\ IsFiniteSet(Custodians) /\ Custodians \subseteq Accounts /\ BridgeAddress \in Custodians
        /\ \A a \in Custodians : f[a] \in Nat
    BY CustodiansAre, CustodyType
  <2>4. held \in Int /\ - held \in Int
    BY <2>3
  <2>5. \A a \in Custodians : f[a] \in Int /\ g[a] = f[a] + (IF a = BridgeAddress THEN - held ELSE 0)
    BY <2>3
  <2>6. \A a \in Custodians : g[a] \in Int /\ h[a] = g[a] + (IF a = migratedContract THEN held ELSE 0)
    BY <2>1, <2>3, <2>4
  <2> DEFINE v == - held  w == held
  <2>7. /\ v \in Int /\ w \in Int /\ v + w = 0
        /\ \A a \in Custodians : f[a] \in Int /\ g[a] = f[a] + (IF a = BridgeAddress THEN v ELSE 0)
        /\ \A a \in Custodians : g[a] \in Int /\ h[a] = g[a] + (IF a = migratedContract THEN w ELSE 0)
    BY <2>4, <2>5, <2>6
  <2>11. Custody(t) = SumFunctionOnSet(f, Custodians) /\ Custody(t)' = SumFunctionOnSet(h, Custodians)
    BY DEF Custody
  <2> HIDE DEF f, g, h, v, w, held
  <2>8. SumFunctionOnSet(g, Custodians)
          = SumFunctionOnSet(f, Custodians) + (IF BridgeAddress \in Custodians THEN v ELSE 0)
    BY ONLY <2>3, <2>7, SumChange
  <2>9. SumFunctionOnSet(h, Custodians)
          = SumFunctionOnSet(g, Custodians) + (IF migratedContract \in Custodians THEN w ELSE 0)
    BY ONLY <2>3, <2>7, SumChange
  <2>10. SumFunctionOnSet(f, Custodians) \in Int
    BY ONLY <2>3, <2>7, SumType
  <2> QED  BY <2>2, <2>3, <2>7, <2>8, <2>9, <2>10, <2>11
<1> QED
  BY <1>1, <1>2

\* No token changes its mirror.
SameMirrors == \A u \in Tokens : tokenData'[u].mirrorToken = tokenData[u].mirrorToken

\* Then each mirror stands for the same tokens.
LEMMA SameTokens ==
    ASSUME SameMirrors, NEW m
    PROVE  TokensOf(m)' = TokensOf(m)
  BY DEF SameMirrors, TokensOf

\* What is locked for a mirror, when the custody of one token changes.
LEMMA LockedMoves ==
    ASSUME BackingTypes, SameMirrors, NEW t \in Tokens, NEW d \in Int,
           \A u \in Tokens : Custody(u)' = Custody(u) + (IF u = t THEN d ELSE 0),
           NEW m \in MirrorTokens
    PROVE  Locked(m)' = Locked(m) + (IF tokenData[t].mirrorToken = m THEN d ELSE 0)
<1> DEFINE f == CustodyOf
           g == CustodyOf'
           S == TokensOf(m)
<1>1. IsFiniteSet(S) /\ \A u \in S : f[u] \in Int
  BY SumTypes
<1>2. \A u \in S : g[u] = f[u] + (IF u = t THEN d ELSE 0)
  BY DEF CustodyOf, TokensOf
<1>3. t \in S <=> tokenData[t].mirrorToken = m
  BY DEF TokensOf
<1>4. Locked(m) = SumFunctionOnSet(f, S) /\ Locked(m)' = SumFunctionOnSet(g, S)
  BY SameTokens DEF Locked, CustodyOf
<1> HIDE DEF f, g, S
<1>5. SumFunctionOnSet(g, S) = SumFunctionOnSet(f, S) + (IF t \in S THEN d ELSE 0)
  BY ONLY <1>1, <1>2, d \in Int, SumChange
<1> QED
  BY <1>3, <1>4, <1>5

\* When no token's custody changes, it stays.
LEMMA LockedStays ==
    ASSUME BackingTypes, SameMirrors, \A u \in Tokens : Custody(u)' = Custody(u), NEW m \in MirrorTokens
    PROVE  Locked(m)' = Locked(m)
<1>1. CustodyOf' = CustodyOf
  BY DEF CustodyOf
<1> QED
  BY <1>1, SameTokens DEF Locked, CustodyOf

\* Listing a token adds one of which nothing is in custody.
LEMMA LockedListed ==
    ASSUME BackingTypes, NEW t \in Tokens, tokenData[t].mirrorToken = NoAddress,
           \A u \in Tokens \ {t} : tokenData'[u].mirrorToken = tokenData[u].mirrorToken,
           UNCHANGED ledger, NEW m \in MirrorTokens
    PROVE  Locked(m)' = Locked(m)
<1> DEFINE f == CustodyOf
           S == TokensOf(m)
<1>1. IsFiniteSet(S) /\ (\A u \in S : f[u] \in Int) /\ t \notin S
  BY SumTypes, BridgeAssumption DEF TokensOf
<1>2. f[t] = 0
  <2> DEFINE b == ledger[t].balance
  <2>1. \A a \in Custodians : b[a] = 0
    BY DEF BackingTypes, TokensListed
  <2> HIDE DEF b
  <2>2. SumFunctionOnSet(b, Custodians) = 0
    BY ONLY <2>1, CustodiansAre, SumZero
  <2> QED  BY <2>2 DEF b, CustodyOf, Custody
<1>3. TokensOf(m)' = S \/ TokensOf(m)' = S \cup {t}
  <2>1. \A u \in Tokens \ {t} : u \in TokensOf(m)' <=> u \in S
    BY DEF TokensOf
  <2>2. TokensOf(m)' \subseteq Tokens /\ S \subseteq Tokens
    BY DEF TokensOf
  <2> HIDE DEF S
  <2>3. CASE t \in TokensOf(m)'
    BY <1>1, <2>1, <2>2, <2>3
  <2>4. CASE t \notin TokensOf(m)'
    BY <1>1, <2>1, <2>2, <2>4
  <2> QED  BY <2>3, <2>4
<1>4. Locked(m) = SumFunctionOnSet(f, S) /\ Locked(m)' = SumFunctionOnSet(f, TokensOf(m)')
  BY DEF Locked, CustodyOf, Custody
<1> HIDE DEF f, S
<1>5. SumFunctionOnSet(f, S \cup {t}) = f[t] + SumFunctionOnSet(f, S)
  BY <1>1, <1>2, SumAdd
<1>6. SumFunctionOnSet(f, S) \in Int
  BY ONLY <1>1, SumType
<1>7. SumFunctionOnSet(f, TokensOf(m)') = SumFunctionOnSet(f, S)
  <2>1. SumFunctionOnSet(f, S \cup {t}) = SumFunctionOnSet(f, S)
    BY <1>2, <1>5, <1>6
  <2> QED  BY <1>3, <2>1
<1> QED
  BY <1>4, <1>7

\* Balances on Pod.
LEMMA OnPodMoves ==
    ASSUME BackingTypes, NEW p \in MirrorTokens, NEW z \in Accounts, NEW d \in Int,
           podBalance' = [podBalance EXCEPT ![p][z] = @ + d], NEW m \in MirrorTokens
    PROVE  OnPod(m)' = OnPod(m) + (IF m = p THEN d ELSE 0)
<1> DEFINE f == podBalance[m]
           g == podBalance'[m]
<1>1. /\ podBalance \in [MirrorTokens -> [Accounts -> Nat]]
      /\ IsFiniteSet(Accounts) /\ \A a \in Accounts : f[a] \in Int
  BY SumTypes DEF BackingTypes, PodTyped
<1>4. OnPod(m) = SumFunctionOnSet(f, Accounts) /\ OnPod(m)' = SumFunctionOnSet(g, Accounts)
  BY DEF OnPod
<1>2. CASE m = p
  <2>1. \A a \in Accounts : f[a] \in Int /\ g[a] = f[a] + (IF a = z THEN d ELSE 0)
    BY <1>1, <1>2
  <2> HIDE DEF f, g
  <2>3. IsFiniteSet(Accounts)
    BY <1>1
  <2>2. SumFunctionOnSet(g, Accounts) = SumFunctionOnSet(f, Accounts) + (IF z \in Accounts THEN d ELSE 0)
    BY ONLY <2>1, <2>3, d \in Int, SumChange
  <2> QED  BY <1>2, <1>4, <2>2
<1>3. CASE m # p
  <2>1. g = f
    BY <1>1, <1>3
  <2>2. OnPod(m) \in Int
    BY SumsType
  <2> QED  BY <1>3, <1>4, <2>1, <2>2
<1> QED
  BY <1>2, <1>3

\* Deposits on their way stay as they are while no token changes its mirror.
LEMMA ArrivingStays ==
    ASSUME BackingTypes, \A i \in DOMAIN deposits : LET t == deposits[i].token
                                                    IN  tokenData'[t].mirrorToken = tokenData[t].mirrorToken,
           UNCHANGED <<deposits, credited>>, NEW m \in MirrorTokens
    PROVE  Arriving(m)' = Arriving(m)
<1>1. Incoming(m)' = Incoming(m)
  BY DEF Incoming, TokensOf, BackingTypes, DepositsListed
<1> QED
  BY <1>1 DEF Arriving

\* A deposit that is credited is no longer on its way.
LEMMA ArrivingCredited ==
    ASSUME BackingTypes, NEW k \in DOMAIN deposits, deposits[k].id \notin credited,
           credited' = credited \cup {deposits[k].id}, UNCHANGED <<deposits, tokenData>>,
           NEW m \in MirrorTokens
    PROVE  Arriving(m) = Arriving(m)'
             + (IF tokenData[deposits[k].token].mirrorToken = m THEN deposits[k].amount ELSE 0)
<1> DEFINE f == DepositAmounts
           S == Incoming(m)
<1>1. IsFiniteSet(S) /\ \A i \in S : f[i] \in Int
  BY SumTypes
<1>2. \A i, j \in DOMAIN deposits : deposits[i].id = deposits[j].id => i = j
  <2>1. \A i \in DOMAIN deposits : deposits[i].id = i - 1 /\ i \in Int
    <3>1. \E Q : deposits \in Seq(Q)
      BY DEF BackingTypes, DepositIdsInv
    <3> QED  BY <3>1 DEF BackingTypes, DepositIdsInv, DepositIdsDense
  <2> QED  BY <2>1
<1>3. Incoming(m)' = S \ {k}
  BY <1>2 DEF Incoming, TokensOf
<1>4. k \in S <=> tokenData[deposits[k].token].mirrorToken = m
  BY DEF Incoming, TokensOf, BackingTypes, DepositsListed
<1>5. f[k] = deposits[k].amount /\ Arriving(m) = SumFunctionOnSet(f, S)
      /\ Arriving(m)' = SumFunctionOnSet(f, S \ {k})
  BY <1>3 DEF Arriving, DepositAmounts
<1> HIDE DEF f, S
<1>6. CASE k \in S
  <2>1. SumFunctionOnSet(f, S) = f[k] + SumFunctionOnSet(f, S \ {k})
    BY ONLY <1>1, <1>6, SumRemove
  <2>2. IsFiniteSet(S \ {k}) /\ \A i \in S \ {k} : f[i] \in Int
    BY <1>1, FS_RemoveElement
  <2>3. SumFunctionOnSet(f, S \ {k}) \in Int /\ f[k] \in Int
    BY <1>1, <1>6, <2>2, SumType
  <2> DEFINE x == SumFunctionOnSet(f, S \ {k})  y == SumFunctionOnSet(f, S)
  <2>4. y = f[k] + x /\ x \in Int /\ f[k] \in Int
    BY <2>1, <2>3
  <2>5. Arriving(m) = y /\ Arriving(m)' = x
    BY <1>5
  <2> HIDE DEF x, y
  <2>6. y = x + f[k]
    BY <2>4
  <2> QED  BY <1>4, <1>5, <1>6, <2>5, <2>6
<1>7. CASE k \notin S
  <2>1. S \ {k} = S
    BY <1>7
  <2>2. SumFunctionOnSet(f, S) \in Int
    BY ONLY <1>1, SumType
  <2>3. Arriving(m)' = Arriving(m) /\ Arriving(m) \in Int
    BY <1>5, <2>1, <2>2
  <2> QED  BY <1>4, <1>7, <2>3
<1> QED
  BY <1>6, <1>7

\* Withdrawals on their way stay.
LEMMA ReturningStays ==
    ASSUME UNCHANGED <<withdrawals, processedRequests>>, NEW m
    PROVE  Returning(m)' = Returning(m)
  BY DEF Returning, Unpaid

\* A withdrawal sets out.
LEMMA ReturningWithdrawn ==
    ASSUME BackingTypes, NEW h, h \notin withdrawals, withdrawals' = withdrawals \cup {h},
           h.amount \in Nat, UNCHANGED processedRequests, NEW m \in MirrorTokens
    PROVE  Returning(m)' = Returning(m) + (IF m = h.token THEN h.amount ELSE 0)
<1> DEFINE f == WithdrawalAmounts
           g == WithdrawalAmounts'
           S == Unpaid(m)
<1>1. IsFiniteSet(S) /\ \A x \in S : f[x] \in Int
  BY SumTypes
<1>2. /\ h \notin processedRequests /\ h \notin S /\ g[h] = h.amount
      /\ \A x \in S : g[x] = f[x]
  BY DEF BackingTypes, PodTyped, Unpaid, WithdrawalAmounts
<1>3. Unpaid(m)' = IF m = h.token THEN S \cup {h} ELSE S
  BY <1>2 DEF Unpaid
<1>4. Returning(m) = SumFunctionOnSet(f, S) /\ Returning(m)' = SumFunctionOnSet(g, Unpaid(m)')
  BY DEF Returning, WithdrawalAmounts
<1> HIDE DEF f, g, S
<1>5. SumFunctionOnSet(g, S) = SumFunctionOnSet(f, S)
  BY ONLY <1>1, <1>2, SumEqual
<1>6. \A x \in S : g[x] \in Int
  BY <1>1, <1>2
<1>7. SumFunctionOnSet(g, S \cup {h}) = g[h] + SumFunctionOnSet(g, S)
  BY <1>1, <1>2, <1>6, SumAdd
<1>8. SumFunctionOnSet(f, S) \in Int
  BY ONLY <1>1, SumType
<1> QED
  BY <1>2, <1>3, <1>4, <1>5, <1>7, <1>8

\* A deposit is on its way with its total.
LEMMA ArrivingDeposited ==
    ASSUME BackingTypes, DepositIdsInv', NEW t, NEW ds, NEW permits, NEW callContract, NEW reserveBalance,
           IsDeposit(t, ds, permits, callContract, reserveBalance), SameMirrors,
           UNCHANGED credited, NEW m \in MirrorTokens
    PROVE  Arriving(m)' = Arriving(m) + (IF tokenData[t].mirrorToken = m THEN TotalOf(ds) ELSE 0)
<1> DEFINE f == DepositAmounts
           g == [i \in DOMAIN deposits' |-> deposits'[i].amount]
           S == Incoming(m)
           new == DOMAIN deposits' \ DOMAIN deposits
<1>1. IsFiniteSet(S) /\ \A i \in S : f[i] \in Int
  BY SumTypes
<1>2. /\ \A i \in DOMAIN deposits : i \in DOMAIN deposits' /\ deposits'[i] = deposits[i]
      /\ \A i \in new : i \in Nat /\ ItemEvent(deposits'[i], t, ds)
      /\ IsFiniteSet(new) /\ \A i \in new : g[i] \in Int
      /\ SumFunctionOnSet(g, new) = TotalOf(ds)
      /\ DepositIdsInv
  BY NewEvents DEF BackingTypes
<1>3. \A i \in new : deposits'[i].id \notin credited'
  <2>1. \A i \in DOMAIN deposits' : deposits'[i].id = i - 1
    BY DEF DepositIdsInv, DepositIdsDense
  <2>2. \A c \in credited : c \in Nat /\ c + 1 \in DOMAIN deposits
    BY DEF BackingTypes, PodTyped
  <2>3. ASSUME NEW i \in new, deposits'[i].id \in credited
        PROVE  FALSE
    <3>1. i \in Nat /\ deposits'[i].id = i - 1 /\ i \notin DOMAIN deposits
      BY <1>2, <2>1
    <3>2. (i - 1) + 1 \in DOMAIN deposits
      BY <2>2, <2>3, <3>1
    <3>3. (i - 1) + 1 = i
      BY <3>1
    <3> QED  BY <3>1, <3>2, <3>3
  <2> QED  BY <2>3
<1>4. TokensOf(m)' = TokensOf(m)
  BY SameTokens
<1>5. t \in TokensOf(m) <=> tokenData[t].mirrorToken = m
  BY DEF TokensOf, IsDeposit
<1>6. Incoming(m)' = IF tokenData[t].mirrorToken = m THEN S \cup new ELSE S
  <2>1. ASSUME NEW i
        PROVE  i \in Incoming(m)' <=>
                 /\ i \in DOMAIN deposits' /\ deposits'[i].token \in TokensOf(m)
                 /\ deposits'[i].id \notin credited'
    BY <1>4 DEF Incoming
  <2>2. \A i : i \in S <=> /\ i \in DOMAIN deposits /\ deposits[i].token \in TokensOf(m)
                           /\ deposits[i].id \notin credited
    BY DEF Incoming
  <2>3. \A i \in DOMAIN deposits : i \in Incoming(m)' <=> i \in S
    BY <1>2, <2>1, <2>2
  <2>4. \A i \in new : i \in Incoming(m)' <=> tokenData[t].mirrorToken = m
    BY <1>2, <1>3, <1>5, <2>1 DEF ItemEvent
  <2>5. \A i : i \in Incoming(m)' => i \in DOMAIN deposits \/ i \in new
    BY <2>1
  <2> HIDE DEF S
  <2>6. S \subseteq DOMAIN deposits
    BY <2>2
  <2> QED  BY <2>3, <2>4, <2>5, <2>6
<1>7. \A i \in S : f[i] \in Int /\ g[i] = f[i]
  BY <1>1, <1>2 DEF DepositAmounts, Incoming
<1>8. S \cap new = {}
  BY DEF Incoming
<1>9. Arriving(m) = SumFunctionOnSet(f, S) /\ Arriving(m)' = SumFunctionOnSet(g, Incoming(m)')
  BY DEF Arriving, DepositAmounts
<1> HIDE DEF f, g, S, new
<1>10. SumFunctionOnSet(g, S) = SumFunctionOnSet(f, S)
  BY ONLY <1>1, <1>7, SumEqual
<1>11. \A i \in S \cup new : g[i] \in Int
  BY <1>2, <1>7
<1>12. IsFiniteSet(new) /\ IsFiniteSet(S)
  BY <1>1, <1>2
<1>13. SumFunctionOnSet(g, S \cup new) = SumFunctionOnSet(g, S) + SumFunctionOnSet(g, new)
  BY ONLY <1>8, <1>11, <1>12, SumDisjoint
<1>14. SumFunctionOnSet(f, S) \in Int
  BY ONLY <1>1, SumType
<1>15. CASE tokenData[t].mirrorToken = m
  BY <1>2, <1>6, <1>9, <1>10, <1>13, <1>15
<1>16. CASE tokenData[t].mirrorToken # m
  <2>1. Arriving(m)' = Arriving(m) /\ Arriving(m) \in Int
    BY <1>6, <1>9, <1>10, <1>14, <1>16
  <2> QED  BY <1>16, <2>1
<1> QED
  BY <1>15, <1>16

\* The hashes that a batch of claims is checked against.
HashesOf(t, cs) == {TxHash(t, cs[i]) : i \in DOMAIN cs}

\* Withdrawals that are claimed are no longer on their way.
LEMMA ReturningClaimed ==
    ASSUME BackingTypes, NEW t, NEW cs, IsClaim(t, cs), HashesOf(t, cs) \subseteq withdrawals,
           UNCHANGED withdrawals, NEW m \in MirrorTokens
    PROVE  Returning(m) = Returning(m)' + (IF tokenData[t].mirrorToken = m THEN TotalOf(cs) ELSE 0)
<1> DEFINE n == Len(cs)
           h == [i \in DOMAIN cs |-> TxHash(t, cs[i])]
           R == HashesOf(t, cs)
           f == WithdrawalAmounts
           g == AmountsOf(cs)
           S == Unpaid(m)
<1>1. IsFiniteSet(S) /\ \A x \in S : f[x] \in Int
  BY SumTypes
<1>2. n \in Nat /\ DOMAIN cs = 1 .. n /\ \A i \in 1 .. n : cs[i].amount \in Nat
  BY DEF IsClaim, Batch
<1>3. /\ NotProcessed(h)
      /\ processedRequests' = processedRequests \cup {h[i] : i \in DOMAIN cs}
  BY Zenon DEF IsClaim, Claimed
<1>4. {h[i] : i \in DOMAIN cs} = R
  BY DEF HashesOf
<1>5. \A i \in 1 .. n : /\ h[i] \in R /\ h[i] \in withdrawals
                        /\ h[i].token = tokenData[t].mirrorToken /\ h[i].amount = cs[i].amount
  BY <1>2 DEF HashesOf, TxHash, ClaimTxHash
<1>6. \A y \in R : \E i \in 1 .. n : y = h[i]
  BY <1>2, <1>4
<1>7. ASSUME NEW i \in 1 .. n, NEW j \in 1 .. n, h[i] = h[j], i # j
      PROVE  FALSE
  <2>1. j \in 1 .. i - 1 \/ i \in 1 .. j - 1
    BY <1>2, <1>7
  <2> QED  BY <1>2, <1>3, <1>7, <2>1 DEF NotProcessed
<1>8. \A i \in 1 .. n : h[i] \notin processedRequests
  BY <1>2, <1>3 DEF NotProcessed
<1>9. \A i \in 1 .. n : g[i] \in Int /\ f[h[i]] = g[i]
  BY <1>2, <1>5 DEF AmountsOf, WithdrawalAmounts
<1>10. Unpaid(m)' = S \ R
  BY <1>3, <1>4 DEF Unpaid
<1>11. Returning(m) = SumFunctionOnSet(f, S) /\ Returning(m)' = SumFunctionOnSet(f, S \ R)
  BY <1>10 DEF Returning, WithdrawalAmounts
<1>12. OneToOne(h, 1 .. n, R) /\ AgreeAlong(f, h, g, 1 .. n)
  BY <1>5, <1>6, <1>7, <1>9 DEF OneToOne, AgreeAlong
<1>13. IsFiniteSet(1 .. n)
  <2> HIDE DEF n
  <2> QED  BY <1>2, FS_Interval
<1>14. IF tokenData[t].mirrorToken = m THEN R \subseteq S ELSE R \cap S = {}
  <2>1. ASSUME NEW y \in R
        PROVE  y \in S <=> tokenData[t].mirrorToken = m
    <3>1. PICK i \in 1 .. n : y = h[i]
      BY <1>6
    <3>2. y \in withdrawals /\ y \notin processedRequests /\ y.token = tokenData[t].mirrorToken
      BY <1>5, <1>8, <3>1
    <3> QED  BY <3>2 DEF Unpaid
  <2> HIDE DEF R, S
  <2> QED  BY <2>1
<1> DEFINE N == 1 .. n
<1>15. SumFunctionOnSet(g, N) = TotalOf(cs)
  BY DEF TotalOf
<1>16. IsFiniteSet(N) /\ OneToOne(h, N, R) /\ AgreeAlong(f, h, g, N)
  BY <1>12, <1>13
<1> HIDE DEF f, g, h, n, N, R, S
<1>17. SumFunctionOnSet(f, R) = SumFunctionOnSet(g, N)
  BY ONLY <1>16, SumImage
<1>18. CASE tokenData[t].mirrorToken = m
  <2> DEFINE Q == S \ R
  <2>1. R \subseteq S /\ Q \subseteq S /\ Q \cap R = {} /\ Q \cup R = S
    BY <1>14, <1>18
  <2>2. IsFiniteSet(Q) /\ IsFiniteSet(R)
    BY <1>1, <2>1, FS_Subset
  <2>3. \A x \in Q \cup R : f[x] \in Int
    BY <1>1, <2>1
  <2>5. Returning(m)' = SumFunctionOnSet(f, Q)
    BY <1>11
  <2> HIDE DEF Q
  <2>4. SumFunctionOnSet(f, Q \cup R) = SumFunctionOnSet(f, Q) + SumFunctionOnSet(f, R)
    BY ONLY <2>1, <2>2, <2>3, SumDisjoint
  <2> QED  BY <1>11, <1>15, <1>17, <1>18, <2>1, <2>4, <2>5
<1>19. CASE tokenData[t].mirrorToken # m
  <2>1. S \ R = S
    BY <1>14, <1>19
  <2>2. SumFunctionOnSet(f, S) \in Int
    BY ONLY <1>1, SumType
  <2>3. Returning(m)' = Returning(m) /\ Returning(m) \in Int
    BY <1>11, <2>1, <2>2
  <2> QED  BY <1>19, <2>3
<1> QED
  BY <1>18, <1>19

-----------------------------------------------------------------------------

\* The inductive invariant.
BackingInv == BackingTypes /\ Backed

\* Steps of Pod leave the contract as it is.
LEMMA ContractStays ==
    ASSUME BackingTypes, UNCHANGED bridgeVars
    PROVE  /\ BridgeInv' /\ DepositIdsInv' /\ DepositsListed' /\ TokensListed' /\ SuccessorKnown'
           /\ UNCHANGED <<deposits, tokenData, processedRequests>>
           /\ \A m \in MirrorTokens : Locked(m)' = Locked(m)
<1>1. BridgeInv' /\ DepositIdsInv'
  BY BridgeInvStep, DepositIdsInvStep DEF BackingTypes
<1>2. UNCHANGED <<deposits, tokenData, processedRequests, ledger, migratedContract>>
  BY DEF bridgeVars, flowVars, stateVars, tokenVars
<1>3. SameMirrors /\ \A t \in Tokens : Custody(t)' = Custody(t)
  BY <1>2, CustodyStays DEF SameMirrors
<1>4. \A m \in MirrorTokens : Locked(m)' = Locked(m)
  BY <1>3, LockedStays
<1>5. DepositsListed' /\ TokensListed' /\ SuccessorKnown'
  BY <1>2 DEF BackingTypes, DepositsListed, TokensListed, SuccessorKnown
<1> QED
  BY <1>1, <1>2, <1>4, <1>5

\* A deposit arrives: what was on its way is now an account's.
LEMMA CreditKeepsBacking ==
    ASSUME BackingInv, NEW k \in DOMAIN deposits, CreditDeposit(deposits[k])
    PROVE  BackingInv'
<1> DEFINE e == deposits[k]
           p == tokenData[e.token].mirrorToken
<1>1. BackingTypes /\ UNCHANGED bridgeVars /\ UNCHANGED <<withdrawals, signatures>>
  BY DEF BackingInv, CreditDeposit
<1>2. /\ e.id \notin credited /\ credited' = credited \cup {e.id}
      /\ podBalance' = [podBalance EXCEPT ![p][e.to] = @ + e.amount]
  BY DEF CreditDeposit
<1>3. e.token \in Tokens /\ e.amount \in Nat /\ e.to \in Accounts /\ p \in MirrorTokens
  <2>1. e.token \in Tokens /\ e.amount \in Nat /\ e.to \in Accounts /\ p # NoAddress
    BY <1>1 DEF BackingTypes, DepositsListed
  <2>2. tokenData[e.token].mirrorToken \in MirrorTokens \cup {NoAddress}
    BY <1>1, <2>1 DEF BackingTypes, BridgeInv, BridgeTypeOK, TokenData
  <2> QED  BY <2>1, <2>2
<1>4. e.id \in Nat /\ e.id + 1 \in DOMAIN deposits
  <2>1. e.id = k - 1 /\ k \in Nat \ {0}
    <3>1. \E Q : deposits \in Seq(Q)
      BY <1>1 DEF BackingTypes, DepositIdsInv
    <3> QED  BY <1>1, <3>1 DEF BackingTypes, DepositIdsInv, DepositIdsDense
  <2>2. (k - 1) + 1 = k /\ k - 1 \in Nat
    BY <2>1
  <2> QED  BY <2>1, <2>2
<1>5. /\ BridgeInv' /\ DepositIdsInv' /\ DepositsListed' /\ TokensListed' /\ SuccessorKnown'
      /\ UNCHANGED <<deposits, tokenData, processedRequests>>
      /\ \A m \in MirrorTokens : Locked(m)' = Locked(m)
  BY <1>1, ContractStays
<1>6. PodTyped'
  <2>1. podBalance' \in [MirrorTokens -> [Accounts -> Nat]]
    BY <1>1, <1>2, <1>3 DEF BackingTypes, PodTyped
  <2> QED  BY <1>1, <1>2, <1>4, <1>5, <2>1 DEF BackingTypes, PodTyped
<1>7. ASSUME NEW m \in MirrorTokens
      PROVE  Locked(m)' = OnPod(m)' + Arriving(m)' + Returning(m)'
  <2>1. Locked(m)' = Locked(m) /\ Returning(m)' = Returning(m)
    BY <1>1, <1>5, ReturningStays
  <2>2. Arriving(m) = Arriving(m)' + (IF p = m THEN e.amount ELSE 0)
    BY <1>1, <1>2, <1>5, ArrivingCredited
  <2>3. OnPod(m)' = OnPod(m) + (IF m = p THEN e.amount ELSE 0)
    <3> DEFINE z == e.to  d == e.amount
    <3>1. z \in Accounts /\ d \in Int /\ podBalance' = [podBalance EXCEPT ![p][z] = @ + d]
      BY <1>2, <1>3
    <3> HIDE DEF z, d, p
    <3>2. OnPod(m)' = OnPod(m) + (IF m = p THEN d ELSE 0)
      BY <1>1, <1>3, <3>1, OnPodMoves
    <3> QED  BY <3>2 DEF d
  <2>4. /\ Locked(m) \in Int /\ OnPod(m) \in Int /\ Arriving(m) \in Int /\ Returning(m) \in Int
        /\ Locked(m) = OnPod(m) + Arriving(m) + Returning(m)
    BY <1>1, SumsType DEF BackingInv, Backed
  <2>5. BackingTypes'
    BY <1>5, <1>6 DEF BackingTypes
  <2>6. Arriving(m)' \in Int
    <3>1. BackingTypes => Arriving(m) \in Int
      BY SumsType
    <3>2. (BackingTypes => Arriving(m) \in Int)'
      BY SumsType, PTL
    <3> QED  BY <2>5, <3>2
  <2> HIDE DEF e, p
  <2> QED  BY <1>3, <2>1, <2>2, <2>3, <2>4, <2>6 DEF e
<1> QED
  BY <1>5, <1>6, <1>7 DEF BackingInv, BackingTypes, Backed

\* A withdrawal sets out: what was an account's is now on its way.
LEMMA WithdrawKeepsBacking ==
    ASSUME BackingInv, NEW from \in Callers, NEW to \in Callers, NEW p \in MirrorTokens,
           NEW amount \in Amounts, NEW suffix, PodWithdraw(from, p, amount, to, suffix)
    PROVE  BackingInv'
<1> DEFINE h == ClaimTxHash(podVersion, p, amount, to, suffix)
<1>1. BackingTypes /\ UNCHANGED bridgeVars /\ UNCHANGED <<credited, signatures>>
  BY DEF BackingInv, PodWithdraw
<1>2. /\ podBalance[p][from] >= amount /\ h \notin withdrawals
      /\ podBalance' = [podBalance EXCEPT ![p][from] = @ - amount]
      /\ withdrawals' = withdrawals \cup {h}
  BY DEF PodWithdraw
<1>3. from \in Accounts /\ amount \in Nat /\ podBalance[p][from] \in Nat
  BY <1>1, BridgeAssumption DEF BackingTypes, PodTyped
<1>4. h.token = p /\ h.amount = amount /\ h.to = to
  BY DEF ClaimTxHash
<1>5. /\ BridgeInv' /\ DepositIdsInv' /\ DepositsListed' /\ TokensListed' /\ SuccessorKnown'
      /\ UNCHANGED <<deposits, tokenData, processedRequests>>
      /\ \A m \in MirrorTokens : Locked(m)' = Locked(m)
  BY <1>1, ContractStays
<1> HIDE DEF h
<1>6. PodTyped'
  <2>1. podBalance' \in [MirrorTokens -> [Accounts -> Nat]]
    BY <1>1, <1>2, <1>3 DEF BackingTypes, PodTyped
  <2>2. IsFiniteSet(withdrawals')
    BY <1>1, <1>2, FS_AddElement DEF BackingTypes, PodTyped
  <2> QED  BY <1>1, <1>2, <1>3, <1>4, <1>5, <2>1, <2>2 DEF BackingTypes, PodTyped
<1>7. ASSUME NEW m \in MirrorTokens
      PROVE  Locked(m)' = OnPod(m)' + Arriving(m)' + Returning(m)'
  <2>1. Locked(m)' = Locked(m)
    BY <1>5
  <2>2. Returning(m)' = Returning(m) + (IF m = p THEN amount ELSE 0)
    BY <1>1, <1>2, <1>3, <1>4, <1>5, ReturningWithdrawn
  <2>3. OnPod(m)' = OnPod(m) + (IF m = p THEN - amount ELSE 0)
    <3> DEFINE d == - amount
    <3>1. d \in Int /\ podBalance' = [podBalance EXCEPT ![p][from] = @ + d]
      <4>1. d \in Int /\ podBalance[p][from] - amount = podBalance[p][from] + d
        BY <1>3
      <4> HIDE DEF d
      <4>2. [podBalance EXCEPT ![p][from] = @ - amount] = [podBalance EXCEPT ![p][from] = @ + d]
        BY <4>1
      <4> QED  BY <1>2, <4>1, <4>2
    <3> HIDE DEF d
    <3>2. OnPod(m)' = OnPod(m) + (IF m = p THEN d ELSE 0)
      BY <1>1, <1>3, <3>1, OnPodMoves
    <3> QED  BY <3>2 DEF d
  <2>4. Arriving(m)' = Arriving(m)
    BY <1>1, <1>5, ArrivingStays
  <2>5. /\ Locked(m) \in Int /\ OnPod(m) \in Int /\ Arriving(m) \in Int /\ Returning(m) \in Int
        /\ Locked(m) = OnPod(m) + Arriving(m) + Returning(m)
    BY <1>1, SumsType DEF BackingInv, Backed
  <2> QED  BY <1>3, <2>1, <2>2, <2>3, <2>4, <2>5
<1> QED
  BY <1>5, <1>6, <1>7 DEF BackingInv, BackingTypes, Backed

\* Signatures and the version of Pod move nothing.
LEMMA SignKeepsBacking ==
    ASSUME BackingInv, UNCHANGED bridgeVars, UNCHANGED <<podBalance, credited, withdrawals>>,
           \A s \in signatures' : s[2].amount \in Nat
    PROVE  BackingInv'
<1>1. BackingTypes
  BY DEF BackingInv
<1>2. /\ BridgeInv' /\ DepositIdsInv' /\ DepositsListed' /\ TokensListed' /\ SuccessorKnown'
      /\ UNCHANGED <<deposits, tokenData, processedRequests>>
      /\ \A m \in MirrorTokens : Locked(m)' = Locked(m)
  BY <1>1, ContractStays
<1>3. PodTyped'
  BY <1>1, <1>2 DEF BackingTypes, PodTyped
<1>4. ASSUME NEW m \in MirrorTokens
      PROVE  Locked(m)' = OnPod(m)' + Arriving(m)' + Returning(m)'
  <2>1. OnPod(m)' = OnPod(m) /\ Arriving(m)' = Arriving(m) /\ Returning(m)' = Returning(m)
    BY <1>1, <1>2, ArrivingStays, ReturningStays DEF OnPod
  <2> QED  BY <1>2, <2>1 DEF BackingInv, Backed
<1> QED
  BY <1>2, <1>3, <1>4 DEF BackingInv, BackingTypes, Backed

\* What claimants submit is a claim, of numbers.
LEMMA SubmittedClaim ==
    ASSUME PodTyped, NEW t \in Tokens, NEW cs \in SeqOf(Claims, MaxClaims), BatchClaim(t, cs)
    PROVE  IsClaim(t, cs)
<1>1. PICK m \in 0 .. MaxClaims : cs \in [1 .. m -> Claims]
  BY DEF SeqOf
<1>2. m \in Nat /\ DOMAIN cs = 1 .. m /\ cs # <<>> /\ Claimed(t, cs)
  BY <1>1, NativeAssumption DEF BatchClaim
<1>3. cs \in Seq(Claims)
  BY <1>1, <1>2
<1>4. Len(cs) \in Nat \ {0} /\ DOMAIN cs = 1 .. Len(cs)
  BY <1>2, <1>3
<1>5. ASSUME NEW i \in DOMAIN cs
      PROVE  cs[i].amount \in Nat
  <2>1. cs[i] \in Claims
    BY <1>1, <1>2
  <2>2. PICK h \in withdrawals \cup {s[2] : s \in signatures} : cs[i] \in ClaimsFor(h)
    BY <2>1 DEF Claims
  <2>3. cs[i].amount = h.amount
    BY <2>2 DEF ClaimsFor
  <2>4. h.amount \in Nat
    BY <2>2 DEF PodTyped
  <2> QED  BY <2>3, <2>4
<1> QED
  BY <1>2, <1>4, <1>5 DEF IsClaim, Batch

\* A claim that is paid: what was on its way back leaves custody.
LEMMA ClaimKeepsBacking ==
    ASSUME BackingInv, NoForgedClaim', NEW t, NEW cs, IsClaim(t, cs), UNCHANGED podVars
    PROVE  BackingInv'
<1> DEFINE p == tokenData[t].mirrorToken
           R == HashesOf(t, cs)
           n == Len(cs)
<1>1. BackingTypes /\ BridgeInv /\ UNCHANGED <<podBalance, credited, withdrawals, signatures>>
  BY DEF BackingInv, BackingTypes, podVars
<1>2. t \in Tokens /\ n \in Nat \ {0} /\ DOMAIN cs = 1 .. n /\ \A i \in 1 .. n : cs[i].amount \in Nat
  BY DEF IsClaim, Batch
<1>3. /\ {[j \in DOMAIN cs |-> TxHash(t, cs[j])][i] : i \in DOMAIN cs} = R
      /\ UNCHANGED <<stateVars, depositIndex, deposits>>
  BY DEF IsClaim, Claimed, HashesOf
<1>4. DOMAIN paid' = DOMAIN paid \cup R /\ processedRequests' = processedRequests \cup R
  BY <1>3 DEF IsClaim, Claimed
<1>5. R \subseteq withdrawals
  BY <1>1, <1>4 DEF NoForgedClaim
<1>6. ASSUME NEW i \in 1 .. n
      PROVE  cs[i].to \in Callers /\ p \in MirrorTokens
  <2>1. TxHash(t, cs[i]) \in withdrawals
    BY <1>2, <1>5 DEF HashesOf
  <2>2. TxHash(t, cs[i]).to = cs[i].to /\ TxHash(t, cs[i]).token = p
    BY DEF TxHash, ClaimTxHash
  <2> QED  BY <1>1, <2>1, <2>2 DEF BackingTypes, PodTyped
<1>7. p \in MirrorTokens
  <2>1. 1 \in 1 .. n
    BY <1>2
  <2> QED  BY <1>6, <2>1
<1>8. TotalOf(cs) \in Nat /\ \A u \in Tokens \ {t} : ledger'[u] = ledger[u]
  BY <1>1, ClaimedEffect
<1>9. /\ \A u \in Tokens : /\ tokenData'[u].mirrorToken = tokenData[u].mirrorToken
                           /\ tokenData'[u].minAmount = tokenData[u].minAmount
  <2>1. PICK u \in Usage : tokenData' = [tokenData EXCEPT ![t].claimUsage = u]
    BY <1>1, ClaimedEffect
  <2> QED  BY <1>1, <1>2, <2>1 DEF BridgeInv, BridgeTypeOK, TokenData
<1>10. SameMirrors
  BY <1>9 DEF SameMirrors
<1>11. BridgeInv' /\ DepositIdsInv'
  BY <1>1, <1>3, ClaimKeepsInv DEF BackingTypes, DepositIdsInv, DepositIdsDense
<1>12. DepositsListed' /\ SuccessorKnown'
  BY <1>1, <1>3, <1>9 DEF BackingTypes, DepositsListed, SuccessorKnown, stateVars
<1>13. TokensListed'
  <2>1. p # NoAddress
    BY <1>7, BridgeAssumption
  <2> QED  BY <1>1, <1>8, <1>9, <2>1 DEF BackingTypes, TokensListed
<1>14. PodTyped'
  BY <1>1, <1>3, <1>4, <1>5 DEF BackingTypes, PodTyped
<1>15. ASSUME NEW m \in MirrorTokens
       PROVE  Locked(m)' = OnPod(m)' + Arriving(m)' + Returning(m)'
  <2> DEFINE d == - TotalOf(cs)
  <2>1. Returning(m) = Returning(m)' + (IF p = m THEN TotalOf(cs) ELSE 0)
    BY <1>1, <1>5, ReturningClaimed
  <2>2. d \in Int /\ \A u \in Tokens : Custody(u)' = Custody(u) + (IF u = t THEN d ELSE 0)
    BY <1>1, <1>2, <1>6, <1>8, CustodyClaimed
  <2>3. Locked(m)' = Locked(m) + (IF p = m THEN d ELSE 0)
    <3> HIDE DEF d
    <3> QED  BY <1>1, <1>2, <1>10, <2>2, LockedMoves
  <2>4. Arriving(m)' = Arriving(m) /\ OnPod(m)' = OnPod(m)
    BY <1>1, <1>3, <1>9, ArrivingStays DEF OnPod, BackingTypes, DepositsListed
  <2>5. /\ Locked(m) \in Int /\ OnPod(m) \in Int /\ Arriving(m) \in Int /\ Returning(m) \in Int
        /\ Locked(m) = OnPod(m) + Arriving(m) + Returning(m)
    BY <1>1, SumsType DEF BackingInv, Backed
  <2>6. Returning(m)' \in Int
    <3>1. BackingTypes'
      BY <1>11, <1>12, <1>13, <1>14 DEF BackingTypes
    <3>2. BackingTypes => Returning(m) \in Int
      BY SumsType
    <3>3. (BackingTypes => Returning(m) \in Int)'
      BY SumsType, PTL
    <3> QED  BY <3>1, <3>3
  <2> HIDE DEF p
  <2> QED  BY <1>8, <2>1, <2>3, <2>4, <2>5, <2>6
<1> QED
  BY <1>11, <1>12, <1>13, <1>14, <1>15 DEF BackingInv, BackingTypes, Backed

\* Whoever deposits, it is for accounts of Pod.
LEMMA PresentedTo ==
    ASSUME NEW ds, DepositBatch(ds), Presented(ds)
    PROVE  \A i \in 1 .. Len(ds) : ds[i].to \in Accounts
  BY BridgeAssumption, NativeAssumption DEF Presented, DepositBatch, Batch

\* A deposit: what comes into custody is on its way to Pod.
LEMMA DepositKeepsBacking ==
    ASSUME BackingInv, NEW t, NEW ds, NEW permits, NEW callContract, NEW reserveBalance,
           IsDeposit(t, ds, permits, callContract, reserveBalance), Presented(ds),
           \A i \in 1 .. Len(ds) : ds[i].to \in Accounts, DepositIdsInv', UNCHANGED podVars
    PROVE  BackingInv'
<1> DEFINE p == tokenData[t].mirrorToken
           n == Len(ds)
           new == DOMAIN deposits' \ DOMAIN deposits
<1>1. BackingTypes /\ BridgeInv /\ DepositIdsInv
      /\ UNCHANGED <<podBalance, credited, withdrawals, signatures>>
  BY DEF BackingInv, BackingTypes, podVars
<1>2. /\ t \in Tokens /\ n \in Nat \ {0} /\ DOMAIN ds = 1 .. n
      /\ \A i \in 1 .. n : ds[i].amount \in Nat
      /\ UNCHANGED <<stateVars, processedRequests>>
  BY DEF IsDeposit, DepositBatch, Batch, Deposited
<1>3. /\ TotalOf(ds) \in Nat /\ \A u \in Tokens \ {t} : ledger'[u] = ledger[u]
      /\ tokenData[t].minAmount # 0
  <2>1. LET data == tokenData[t]
        IN  Admits(data.depositUsage, data.minAmount, data.depositLimit, TotalOf(ds), now)
    BY <1>1, DepositedEffect
  <2>2. TotalOf(ds) \in Nat /\ \A u \in Tokens \ {t} : ledger'[u] = ledger[u]
    BY <1>1, DepositedEffect
  <2> QED  BY <2>1, <2>2 DEF Admits
<1>4. p \in MirrorTokens
  <2>1. p # NoAddress
    BY <1>1, <1>2, <1>3 DEF BackingTypes, TokensListed
  <2>2. tokenData[t].mirrorToken \in MirrorTokens \cup {NoAddress}
    BY <1>1, <1>2 DEF BridgeInv, BridgeTypeOK, TokenData
  <2> QED  BY <2>1, <2>2
<1>5. \A u \in Tokens : /\ tokenData'[u].mirrorToken = tokenData[u].mirrorToken
                        /\ tokenData'[u].minAmount = tokenData[u].minAmount
  <2>1. PICK u \in Usage : tokenData' = [tokenData EXCEPT ![t].depositUsage = u]
    BY <1>1, DepositedEffect
  <2> QED  BY <1>1, <1>2, <2>1 DEF BridgeInv, BridgeTypeOK, TokenData
<1>6. SameMirrors
  BY <1>5 DEF SameMirrors
<1>7. BridgeInv'
  BY <1>1, DepositKeepsInv
<1>8. /\ \A i \in DOMAIN deposits : i \in DOMAIN deposits' /\ deposits'[i] = deposits[i]
      /\ \A i \in new : ItemEvent(deposits'[i], t, ds)
  BY <1>1, NewEvents
<1>9. DepositsListed'
  <2>1. ASSUME NEW i \in DOMAIN deposits'
        PROVE  /\ deposits'[i].token \in Tokens /\ deposits'[i].amount \in Nat
               /\ deposits'[i].to \in Accounts
               /\ tokenData'[deposits'[i].token].mirrorToken # NoAddress
    <3>1. CASE i \in DOMAIN deposits
      BY <1>1, <1>5, <1>8, <3>1 DEF BackingTypes, DepositsListed
    <3>2. CASE i \in new
      <4>1. tokenData'[t].mirrorToken # NoAddress
        BY <1>2, <1>4, <1>5, BridgeAssumption
      <4> HIDE DEF new
      <4> QED  BY <1>2, <1>8, <3>2, <4>1 DEF ItemEvent
    <3> QED  BY <3>1, <3>2
  <2> QED  BY <2>1 DEF DepositsListed
<1>10. TokensListed' /\ SuccessorKnown'
  <2>1. p # NoAddress
    BY <1>4, BridgeAssumption
  <2> QED  BY <1>1, <1>2, <1>3, <1>5, <2>1 DEF BackingTypes, TokensListed, SuccessorKnown, stateVars
<1>11. PodTyped'
  <2>1. \A c \in credited : c \in Nat /\ c + 1 \in DOMAIN deposits'
    BY <1>1, <1>8 DEF BackingTypes, PodTyped
  <2> QED  BY <1>1, <1>2, <2>1 DEF BackingTypes, PodTyped
<1>12. ASSUME NEW m \in MirrorTokens
       PROVE  Locked(m)' = OnPod(m)' + Arriving(m)' + Returning(m)'
  <2> DEFINE d == TotalOf(ds)
  <2>1. Arriving(m)' = Arriving(m) + (IF p = m THEN d ELSE 0)
    BY <1>1, <1>6, ArrivingDeposited
  <2>2. d \in Int /\ \A u \in Tokens : Custody(u)' = Custody(u) + (IF u = t THEN d ELSE 0)
    BY <1>1, <1>3, CustodyDeposited
  <2>3. Locked(m)' = Locked(m) + (IF p = m THEN d ELSE 0)
    <3> HIDE DEF d
    <3> QED  BY <1>1, <1>2, <1>6, <2>2, LockedMoves
  <2>4. Returning(m)' = Returning(m) /\ OnPod(m)' = OnPod(m)
    BY <1>1, <1>2, ReturningStays DEF OnPod
  <2>5. /\ Locked(m) \in Int /\ OnPod(m) \in Int /\ Arriving(m) \in Int /\ Returning(m) \in Int
        /\ Locked(m) = OnPod(m) + Arriving(m) + Returning(m)
    BY <1>1, SumsType DEF BackingInv, Backed
  <2> HIDE DEF p, d
  <2> QED  BY <2>1, <2>2, <2>3, <2>4, <2>5
<1> QED
  BY <1>7, <1>9, <1>10, <1>11, <1>12 DEF BackingInv, BackingTypes, Backed

\* Calls that move no balance in custody, and give no token that deposits name another mirror.
LEMMA CallKeepsBacking ==
    ASSUME BackingInv, BridgeInv', UNCHANGED podVars,
           UNCHANGED <<depositIndex, deposits, processedRequests>>, SuccessorKnown', TokensListed',
           \A i \in DOMAIN deposits : LET t == deposits[i].token
                                      IN  tokenData'[t].mirrorToken = tokenData[t].mirrorToken,
           \A m \in MirrorTokens : Locked(m)' = Locked(m)
    PROVE  BackingInv'
<1>1. BackingTypes /\ UNCHANGED <<podBalance, credited, withdrawals, signatures>>
  BY DEF BackingInv, podVars
<1>2. DepositIdsInv' /\ DepositsListed' /\ PodTyped'
  BY <1>1 DEF BackingTypes, DepositIdsInv, DepositIdsDense, DepositsListed, PodTyped
<1>3. ASSUME NEW m \in MirrorTokens
      PROVE  Locked(m)' = OnPod(m)' + Arriving(m)' + Returning(m)'
  <2>1. OnPod(m)' = OnPod(m) /\ Arriving(m)' = Arriving(m) /\ Returning(m)' = Returning(m)
    BY <1>1, ArrivingStays, ReturningStays DEF OnPod
  <2> QED  BY <2>1 DEF BackingInv, Backed
<1> QED
  BY <1>2, <1>3 DEF BackingInv, BackingTypes, Backed

\* Calls that leave the tokens and their data alone.
LEMMA QuietCallKeepsBacking ==
    ASSUME BackingInv, BridgeInv', UNCHANGED podVars, UNCHANGED flowVars, UNCHANGED ledger, SuccessorKnown'
    PROVE  BackingInv'
<1>1. BackingTypes /\ UNCHANGED <<depositIndex, deposits, processedRequests, tokenData>>
  BY DEF BackingInv, flowVars
<1>2. SameMirrors /\ \A t \in Tokens : Custody(t)' = Custody(t)
  BY <1>1, CustodyStays DEF SameMirrors
<1>3. \A m \in MirrorTokens : Locked(m)' = Locked(m)
  BY <1>1, <1>2, LockedStays
<1>4. TokensListed'
  BY <1>1 DEF BackingTypes, TokensListed
<1> QED
  BY <1>1, <1>3, <1>4, CallKeepsBacking

\* Migration moves what is in custody to another custodian.
LEMMA MigrationKeepsBacking ==
    ASSUME BackingInv, BridgeInv', UNCHANGED podVars,
           NEW sender, NEW tokens, TransferTokensToMigrated(sender, tokens)
    PROVE  BackingInv'
<1>1. /\ BackingTypes /\ BridgeInv /\ SuccessorKnown
      /\ UNCHANGED <<depositIndex, deposits, processedRequests, tokenData, migratedContract>>
  BY DEF BackingInv, BackingTypes, TransferTokensToMigrated, flowVars, stateVars
<1>2. SameMirrors /\ \A t \in Tokens : Custody(t)' = Custody(t)
  BY <1>1, CustodyMigrated DEF SameMirrors
<1>3. \A m \in MirrorTokens : Locked(m)' = Locked(m)
  BY <1>1, <1>2, LockedStays
<1>4. TokensListed'
  <2>1. ASSUME NEW t \in Tokens, \A a \in Custodians : ledger[t].balance[a] = 0
        PROVE  ledger'[t] = ledger[t]
    <3>1. ledger[t].balance[BridgeAddress] = 0
      BY <2>1, CustodiansAre
    <3> QED  BY <3>1 DEF TransferTokensToMigrated
  <2> QED  BY <1>1, <2>1 DEF BackingTypes, TokensListed
<1>5. SuccessorKnown'
  BY <1>1 DEF SuccessorKnown
<1> QED
  BY <1>1, <1>3, <1>4, <1>5, CallKeepsBacking

\* A token is listed or reconfigured.
LEMMA TokenConfigKeepsBacking ==
    ASSUME BackingInv, BridgeInv', UNCHANGED podVars, TokenConfigCalls
    PROVE  BackingInv'
<1>1. PICK sender \in Admins, t \in Tokens, c \in Configurations :
          \/ \E m \in MirrorTokens :
                WhiteListToken(sender, t, m, c.minAmount, c.depositLimit, c.claimLimit)
          \/ ConfigureToken(sender, t, c.minAmount, c.depositLimit, c.claimLimit)
  BY Zenon DEF TokenConfigCalls
<1>2. BackingTypes /\ tokenData \in [Tokens -> TokenData]
  BY DEF BackingInv, BackingTypes, BridgeInv, BridgeTypeOK
<1>3. ASSUME NEW m, TokenConfigured(t, m, c.minAmount, c.depositLimit, c.claimLimit)
      PROVE  /\ c.minAmount # 0 /\ tokenData'[t].minAmount = c.minAmount /\ tokenData'[t].mirrorToken = m
             /\ \A u \in Tokens \ {t} : tokenData'[u] = tokenData[u]
             /\ UNCHANGED <<depositIndex, deposits, processedRequests, migratedContract, ledger>>
  BY <1>2, <1>3 DEF TokenConfigured, ConfiguredData, stateVars, tokenVars
<1>4. ASSUME NEW m \in MirrorTokens,
             WhiteListToken(sender, t, m, c.minAmount, c.depositLimit, c.claimLimit)
      PROVE  BackingInv'
  <2>1. /\ c.minAmount # 0 /\ tokenData'[t].minAmount = c.minAmount /\ tokenData'[t].mirrorToken = m
        /\ \A u \in Tokens \ {t} : tokenData'[u] = tokenData[u]
        /\ UNCHANGED <<depositIndex, deposits, processedRequests, migratedContract, ledger>>
    BY <1>3, <1>4 DEF WhiteListToken
  <2>2. tokenData[t].mirrorToken = NoAddress
    BY <1>2, <1>4 DEF WhiteListToken, Unknown, BackingTypes, TokensListed
  <2>3. \A i \in DOMAIN deposits : LET u == deposits[i].token
                                   IN  tokenData'[u].mirrorToken = tokenData[u].mirrorToken
    BY <1>2, <2>1, <2>2 DEF BackingTypes, DepositsListed
  <2>4. \A q \in MirrorTokens : Locked(q)' = Locked(q)
    <3>1. \A u \in Tokens \ {t} : tokenData'[u].mirrorToken = tokenData[u].mirrorToken
      BY <2>1
    <3>2. UNCHANGED ledger
      BY <2>1
    <3> QED  BY <1>2, <2>2, <3>1, <3>2, LockedListed
  <2>5. TokensListed' /\ SuccessorKnown'
    <3>1. m # NoAddress
      BY BridgeAssumption
    <3> QED  BY <1>2, <2>1, <3>1 DEF BackingTypes, TokensListed, SuccessorKnown
  <2> QED  BY <2>1, <2>3, <2>4, <2>5, CallKeepsBacking
<1>5. ASSUME ConfigureToken(sender, t, c.minAmount, c.depositLimit, c.claimLimit)
      PROVE  BackingInv'
  <2> DEFINE m == tokenData[t].mirrorToken
  <2>1. /\ c.minAmount # 0 /\ tokenData'[t].minAmount = c.minAmount /\ tokenData'[t].mirrorToken = m
        /\ \A u \in Tokens \ {t} : tokenData'[u] = tokenData[u]
        /\ UNCHANGED <<depositIndex, deposits, processedRequests, migratedContract, ledger>>
    BY <1>3, <1>5 DEF ConfigureToken
  <2>2. tokenData[t].minAmount # 0
    BY <1>5 DEF ConfigureToken
  <2>3. SameMirrors
    BY <2>1 DEF SameMirrors
  <2>4. \A i \in DOMAIN deposits : LET u == deposits[i].token
                                   IN  tokenData'[u].mirrorToken = tokenData[u].mirrorToken
    BY <1>2, <2>3 DEF BackingTypes, DepositsListed, SameMirrors
  <2>5. \A u \in Tokens : Custody(u)' = Custody(u)
    BY <2>1, CustodyStays
  <2>6. \A q \in MirrorTokens : Locked(q)' = Locked(q)
    BY <1>2, <2>3, <2>5, LockedStays
  <2>7. TokensListed' /\ SuccessorKnown'
    BY <1>2, <2>1, <2>2 DEF BackingTypes, TokensListed, SuccessorKnown
  <2> QED  BY <2>1, <2>4, <2>6, <2>7, CallKeepsBacking
<1> QED
  BY <1>1, <1>4, <1>5

\* The state of the contract changes, or tokens are moved to its successor.
LEMMA StateCallsKeepBacking ==
    ASSUME BackingInv, BridgeInv', UNCHANGED podVars, StateCalls
    PROVE  BackingInv'
<1>1. BackingTypes
  BY DEF BackingInv
<1>2. ASSUME NEW sender, NEW s, SetState(sender, s)
      PROVE  BackingInv'
  <2>1. UNCHANGED flowVars /\ UNCHANGED ledger /\ SuccessorKnown'
    BY <1>1, <1>2 DEF SetState, tokenVars, BackingTypes, SuccessorKnown
  <2> QED  BY <2>1, QuietCallKeepsBacking
<1>3. ASSUME NEW sender, NEW new \in NewContracts, Migrate(sender, new)
      PROVE  BackingInv'
  <2>1. UNCHANGED flowVars /\ UNCHANGED ledger /\ SuccessorKnown'
    BY <1>3 DEF Migrate, tokenVars, SuccessorKnown
  <2> QED  BY <2>1, QuietCallKeepsBacking
<1>4. ASSUME NEW sender, NEW tokens, TransferTokensToMigrated(sender, tokens)
      PROVE  BackingInv'
  BY <1>4, MigrationKeepsBacking
<1>5. ASSUME NEW sender, NEW callContract, NEW whitelisted,
             SetCallContractWhitelist(sender, callContract, whitelisted)
      PROVE  BackingInv'
  <2>1. UNCHANGED flowVars /\ UNCHANGED ledger /\ SuccessorKnown'
    BY <1>1, <1>5 DEF SetCallContractWhitelist, tokenVars, stateVars, BackingTypes, SuccessorKnown
  <2> QED  BY <2>1, QuietCallKeepsBacking
<1> QED
  BY <1>2, <1>3, <1>4, <1>5, Zenon DEF StateCalls

\* The committee and the version change.
LEMMA UpdateKeepsBacking ==
    ASSUME BackingInv, UpdateNetwork
    PROVE  BackingInv'
<1>1. PICK sender \in Admins, f \in Resiliences, v \in Versions, root \in SUBSET withdrawals,
           add \in ValidatorLists, remove \in ValidatorLists :
        UpdateValidatorConfig(sender, f, v, root, add, remove) /\ UNCHANGED podVars
  BY Zenon DEF UpdateNetwork
<1>2. BackingTypes /\ BridgeInv
  BY DEF BackingInv, BackingTypes
<1>3. BridgeInv'
  BY <1>1, <1>2, ValidatorConfigKeepsInv
<1>4. UNCHANGED flowVars /\ UNCHANGED ledger /\ SuccessorKnown'
  BY <1>1, <1>2 DEF UpdateValidatorConfig, tokenVars, stateVars, BackingTypes, SuccessorKnown
<1> QED
  BY <1>1, <1>3, <1>4, QuietCallKeepsBacking

\* Every step, in a run in which nothing is paid that Pod has not executed.
LEMMA BackingInvStep ==
    ASSUME BackingInv, NoForgedClaim', [Next]_vars
    PROVE  BackingInv'
<1>1. BackingTypes /\ BridgeInv /\ DepositIdsInv /\ PodTyped
  BY DEF BackingInv, BackingTypes
<1>2. ASSUME [BridgeNext]_bridgeVars
      PROVE  BridgeInv' /\ DepositIdsInv'
  BY <1>1, <1>2, BridgeInvStep, DepositIdsInvStep
<1>3. ASSUME NEW e \in {deposits[i] : i \in DOMAIN deposits}, CreditDeposit(e)
      PROVE  BackingInv'
  BY <1>3, CreditKeepsBacking
<1>4. ASSUME NEW from \in Callers, NEW to \in Callers, NEW m \in MirrorTokens, NEW amount \in Amounts,
             NEW suffix, PodWithdraw(from, m, amount, to, suffix)
      PROVE  BackingInv'
  BY <1>4, WithdrawKeepsBacking
<1>5. ASSUME NEW v, PodUpgrade(v)
      PROVE  BackingInv'
  <2>1. UNCHANGED bridgeVars /\ UNCHANGED <<podBalance, credited, withdrawals>>
        /\ \A s \in signatures' : s[2].amount \in Nat
    BY <1>1, <1>5 DEF PodUpgrade, PodTyped
  <2> QED  BY <2>1, SignKeepsBacking
<1>6. ASSUME NEW v, NEW h \in Hashes, Sign(v, h)
      PROVE  BackingInv'
  <2>1. h.amount \in Nat
    BY BridgeAssumption DEF Hashes, ClaimTxHash
  <2>2. <<v, h>>[2] = h
    OBVIOUS
  <2>3. UNCHANGED bridgeVars /\ UNCHANGED <<podBalance, credited, withdrawals>>
        /\ \A s \in signatures' : s[2].amount \in Nat
    BY <1>1, <1>6, <2>1, <2>2 DEF Sign, PodTyped
  <2> QED  BY <2>3, SignKeepsBacking
<1>7. CASE SubmitClaims
  <2>1. PICK t \in Tokens, cs \in SeqOf(Claims, MaxClaims) : BatchClaim(t, cs) /\ UNCHANGED podVars
    BY <1>7 DEF SubmitClaims
  <2>2. IsClaim(t, cs)
    BY <1>1, <2>1, SubmittedClaim
  <2> QED  BY <2>1, <2>2, ClaimKeepsBacking
<1>8. CASE UpdateNetwork
  BY <1>8, UpdateKeepsBacking
<1>9. CASE DepositCalls /\ UNCHANGED podVars
  <2>1. DepositIdsInv'
    BY <1>2, <1>9 DEF BridgeNext
  <2>2. PICK t, ds, permits, callContract, reserveBalance :
            IsDeposit(t, ds, permits, callContract, reserveBalance) /\ Presented(ds)
    BY <1>1, <1>9, DepositCallsPresented
  <2>3. \A i \in 1 .. Len(ds) : ds[i].to \in Accounts
    BY <2>2, PresentedTo DEF IsDeposit
  <2> QED  BY <1>9, <2>1, <2>2, <2>3, DepositKeepsBacking
<1>10. CASE TokenConfigCalls /\ UNCHANGED podVars
  BY <1>2, <1>10, TokenConfigKeepsBacking DEF BridgeNext
<1>11. CASE StateCalls /\ UNCHANGED podVars
  BY <1>2, <1>11, StateCallsKeepBacking DEF BridgeNext
<1>12. CASE now < MaxTime /\ Tick /\ UNCHANGED podVars
  <2>1. BridgeInv'
    BY <1>2, <1>12 DEF BridgeNext
  <2>2. UNCHANGED flowVars /\ UNCHANGED ledger /\ SuccessorKnown'
    BY <1>1, <1>12 DEF Tick, tokenVars, stateVars, BackingTypes, SuccessorKnown
  <2> QED  BY <1>12, <2>1, <2>2, QuietCallKeepsBacking
<1>13. CASE UNCHANGED vars
  <2>1. UNCHANGED bridgeVars /\ UNCHANGED <<podBalance, credited, withdrawals>>
        /\ \A s \in signatures' : s[2].amount \in Nat
    BY <1>1, <1>13 DEF vars, podVars, PodTyped
  <2> QED  BY <2>1, SignKeepsBacking
<1> QED
  BY <1>3, <1>4, <1>5, <1>6, <1>7, <1>8, <1>9, <1>10, <1>11, <1>12, <1>13 DEF Next, Traffic

\* At the start there is nothing anywhere.
LEMMA BackingInvInit == Init => BackingInv
<1> SUFFICES ASSUME Init
             PROVE  BackingInv
  OBVIOUS
<1>1. /\ tokenData = [t \in Tokens |-> UnknownToken] /\ ledger = InitialLedger
      /\ deposits = <<>> /\ processedRequests = {} /\ migratedContract = NoAddress
      /\ podBalance = [m \in MirrorTokens |-> [a \in Accounts |-> 0]]
      /\ credited = {} /\ withdrawals = {} /\ signatures = {}
  BY DEF Init, BridgeInit, TokenInit
<1>2. BridgeInv /\ DepositIdsInv
  BY BridgeInvInit, DepositIdsInvInit DEF Init
<1>3. PodTyped
  <2>1. IsFiniteSet({})
    BY FS_EmptySet
  <2> QED  BY <1>1, <2>1 DEF PodTyped
<1>4. DepositsListed /\ SuccessorKnown
  BY <1>1 DEF DepositsListed, SuccessorKnown
<1>5. TokensListed
  BY <1>1, NativeAssumption DEF TokensListed, UnknownToken
<1>6. ASSUME NEW m \in MirrorTokens
      PROVE  Locked(m) = OnPod(m) + Arriving(m) + Returning(m)
  <2>1. TokensOf(m) = {}
    BY <1>1, BridgeAssumption DEF TokensOf, UnknownToken
  <2>2. Incoming(m) = {} /\ Unpaid(m) = {}
    BY <1>1 DEF Incoming, Unpaid
  <2>3. Locked(m) = 0 /\ Arriving(m) = 0 /\ Returning(m) = 0
    BY <2>1, <2>2, SumEmpty DEF Locked, Arriving, Returning
  <2>4. OnPod(m) = 0
    <3> DEFINE f == podBalance[m]
    <3>1. IsFiniteSet(Accounts) /\ \A a \in Accounts : f[a] = 0
      BY <1>1, NativeAssumption
    <3> HIDE DEF f
    <3>2. SumFunctionOnSet(f, Accounts) = 0
      BY ONLY <3>1, SumZero
    <3> QED  BY <3>2 DEF f, OnPod
  <2> QED  BY <2>3, <2>4
<1> QED
  BY <1>2, <1>3, <1>4, <1>5, <1>6 DEF BackingInv, BackingTypes, Backed

\* Every mirror is backed in every state: for any set of tokens, of which several may share a
\* mirror, any batches, any delay of credits and claims, reconfigurations, and migration.
THEOREM BackedSafety == Spec => []Backed
<1>1. BackingInv /\ NoForgedClaim' /\ [Next]_vars => BackingInv'
  BY BackingInvStep
<1>2. BackingInv => Backed
  BY DEF BackingInv
<1> QED
  BY <1>1, <1>2, BackingInvInit, NoForgedClaimSafety, PTL DEF Spec
-----------------------------------------------------------------------------
\* Upgrades

\* They are updates of the network.
LEMMA UpgradeSteps == ASSUME [UpgradeNext]_vars PROVE [Next]_vars
  BY DEF UpgradeNext, Next, RunUpgrade

\* The contract follows Pod, to versions that Merkle proofs can carry, and nobody has the
\* address that stands for no signer.
VersionsOrdered ==
    /\ version \in Nat /\ podVersion \in Nat
    /\ version <= podVersion /\ version <= MaxProofVersion
    /\ ZeroAddress \notin activeValidators

\* Withdrawals are of versions Pod has been in and of tokens that are listed; the root covers
\* those of versions the contract has left.
WithdrawalsCovered ==
    \A h \in withdrawals :
        /\ h = ClaimTxHash(h.version, h.token, h.amount, h.to, h.suffix)
        /\ h.version \in Nat /\ h.version <= podVersion
        /\ h.amount > 0 => TokensOf(h.token) # {}
        /\ h.version < version => h \in merkleRoot

\* The inductive invariant of NeverStranded.
UpgradeInv == NoForgedClaimInv /\ BackingInv /\ VersionsOrdered /\ WithdrawalsCovered

\* A token that is listed keeps its mirror.
LEMMA MirrorStays ==
    ASSUME BackingInv, [Next]_vars, NEW t \in Tokens, tokenData[t].mirrorToken # NoAddress
    PROVE  tokenData'[t].mirrorToken = tokenData[t].mirrorToken
<1>1. tokenData \in [Tokens -> TokenData] /\ TokensListed
  BY DEF BackingInv, BackingTypes, BridgeInv, BridgeTypeOK
<1>2. UnlistedInv
  <2>1. ASSUME NEW u \in Tokens
        PROVE  DOMAIN tokenData[u] = TokenFields
    <3>1. tokenData[u] \in TokenData
      BY <1>1
    <3> QED  BY <3>1 DEF TokenData, TokenFields
  <2> QED  BY <1>1, <2>1 DEF UnlistedInv, TokensListed
<1>3. CASE [BridgeNext]_bridgeVars
  BY <1>2, <1>3, TokenDataSteps DEF MirrorsKept
<1>4. CASE SubmitClaims
  <2>1. PICK u \in Tokens, cs \in SeqOf(Claims, MaxClaims) : Claimed(u, cs)
    BY <1>4 DEF SubmitClaims, BatchClaim
  <2>2. tokenData' = [tokenData EXCEPT ![u].claimUsage = ClaimRun(u, cs).usage]
    BY <2>1 DEF Claimed
  <2> QED  BY <1>1, <2>2 DEF TokenData
<1>5. CASE UpdateNetwork
  <2>1. UNCHANGED tokenData
    BY <1>5 DEF UpdateNetwork, UpdateValidatorConfig, flowVars
  <2> QED  BY <2>1
<1>6. \/ UNCHANGED bridgeVars \/ SubmitClaims \/ UpdateNetwork
      \/ DepositCalls \/ TokenConfigCalls \/ StateCalls \/ (now < MaxTime /\ Tick)
  BY DEF Next, Traffic, CreditDeposit, PodWithdraw, PodUpgrade, Sign, vars
<1> QED
  BY <1>3, <1>4, <1>5, <1>6 DEF BridgeNext

\* An account that holds something of a mirror token has it from a token that is listed.
LEMMA HeldIsListed ==
    ASSUME BackingInv, NEW m \in MirrorTokens, NEW a \in Accounts, podBalance[m][a] > 0
    PROVE  TokensOf(m) # {}
<1>1. BackingTypes /\ Locked(m) = OnPod(m) + Arriving(m) + Returning(m)
  BY DEF BackingInv, Backed
<1>2. Arriving(m) \in Nat /\ Returning(m) \in Nat
  <2>1. \A i \in Incoming(m) : DepositAmounts[i] \in Nat
    BY <1>1 DEF BackingTypes, DepositsListed, DepositAmounts, Incoming
  <2>2. \A h \in Unpaid(m) : WithdrawalAmounts[h] \in Nat
    BY <1>1 DEF BackingTypes, PodTyped, WithdrawalAmounts, Unpaid
  <2>3. IsFiniteSet(Incoming(m)) /\ IsFiniteSet(Unpaid(m))
    BY <1>1, SumTypes
  <2>4. /\ SumFunctionOnSet(DepositAmounts, Incoming(m)) \in Nat
        /\ SumFunctionOnSet(WithdrawalAmounts, Unpaid(m)) \in Nat
    BY <2>1, <2>2, <2>3, SumNonNegative
  <2> QED  BY <2>4 DEF Arriving, Returning, DepositAmounts, WithdrawalAmounts
<1>3. OnPod(m) \in Int /\ OnPod(m) > 0
  <2> DEFINE f == podBalance[m]
             Rest == Accounts \ {a}
  <2>1. IsFiniteSet(Accounts) /\ IsFiniteSet(Rest) /\ (\A x \in Accounts : f[x] \in Nat) /\ f[a] > 0
    BY <1>1, NativeAssumption, FS_Subset DEF BackingTypes, PodTyped
  <2>2. SumFunctionOnSet(f, Accounts) = f[a] + SumFunctionOnSet(f, Rest)
    <3> HIDE DEF f
    <3>1. \A x \in Accounts : f[x] \in Int
      BY <2>1
    <3> QED  BY <2>1, <3>1, SumRemove DEF Rest
  <2>3. SumFunctionOnSet(f, Rest) \in Nat
    <3> HIDE DEF f
    <3> QED  BY <2>1, SumNonNegative
  <2>4. f[a] \in Nat
    BY <2>1
  <2> HIDE DEF f, Rest
  <2>5. SumFunctionOnSet(f, Accounts) \in Int /\ SumFunctionOnSet(f, Accounts) > 0
    BY <2>1, <2>2, <2>3, <2>4
  <2> QED  BY <2>5 DEF f, OnPod
<1>4. TokensOf(m) = {} => Locked(m) = 0
  BY SumEmpty DEF Locked
<1> QED
  BY <1>1, <1>2, <1>3, <1>4

\* Whatever leaves the contract's configuration alone and Pod's version no lower.
LEMMA CoveredStays ==
    ASSUME BackingInv, VersionsOrdered, WithdrawalsCovered, [Next]_vars, UNCHANGED configVars,
           podVersion' \in Nat, podVersion <= podVersion', NEW N, withdrawals' = withdrawals \cup N,
           \A h \in N : /\ h = ClaimTxHash(podVersion, h.token, h.amount, h.to, h.suffix)
                        /\ h.token \in MirrorTokens
                        /\ h.amount > 0 => TokensOf(h.token) # {}
    PROVE  VersionsOrdered' /\ WithdrawalsCovered'
<1>1. UNCHANGED <<version, merkleRoot, activeValidators>>
  BY DEF configVars
<1>2. VersionsOrdered'
  BY <1>1 DEF VersionsOrdered
<1>3. ASSUME NEW m \in MirrorTokens, TokensOf(m) # {}
      PROVE  TokensOf(m)' # {}
  <2>1. PICK t \in Tokens : tokenData[t].mirrorToken = m
    BY <1>3 DEF TokensOf
  <2>2. m # NoAddress
    BY BridgeAssumption
  <2>3. tokenData'[t].mirrorToken = m
    BY <2>1, <2>2, MirrorStays
  <2> QED  BY <2>3 DEF TokensOf
<1>4. \A h \in withdrawals : h.token \in MirrorTokens
  BY DEF BackingInv, BackingTypes, PodTyped
<1>5. ASSUME NEW h \in withdrawals'
      PROVE  /\ h = ClaimTxHash(h.version, h.token, h.amount, h.to, h.suffix)
             /\ h.version \in Nat /\ h.version <= podVersion'
             /\ h.amount > 0 => TokensOf(h.token)' # {}
             /\ h.version < version' => h \in merkleRoot'
  <2>1. CASE h \in withdrawals
    BY <1>1, <1>3, <1>4, <2>1 DEF WithdrawalsCovered, VersionsOrdered
  <2>2. CASE h \in N
    <3>1. h.version = podVersion
      BY <2>2 DEF ClaimTxHash
    <3> QED  BY <1>1, <1>3, <2>2, <3>1 DEF VersionsOrdered
  <2> QED  BY <2>1, <2>2
<1> QED
  BY <1>2, <1>5 DEF WithdrawalsCovered

\* The script covers all there is.
LEMMA UpgradeCovers ==
    ASSUME BackingInv, VersionsOrdered, WithdrawalsCovered, RunUpgrade
    PROVE  VersionsOrdered' /\ WithdrawalsCovered'
<1>1. PICK sender \in Admins, f \in Resiliences, v \in Versions, root \in SUBSET withdrawals,
           add \in ValidatorLists, remove \in ValidatorLists :
        UpdateValidatorConfig(sender, f, v, root, add, remove) /\ UNCHANGED podVars
  BY Zenon DEF RunUpgrade, UpdateNetwork
<1>2. /\ version' <= MaxProofVersion /\ version' = podVersion
      /\ merkleRoot' = {h \in withdrawals : h.version < version'}
  BY DEF RunUpgrade, FitsProofs, PreUpgrade
<1>3. /\ ZeroAddress \notin activeValidators'
      /\ UNCHANGED <<podVersion, withdrawals, tokenData>>
  BY <1>1 DEF UpdateValidatorConfig, VersionsOrdered, podVars, flowVars
<1>4. \A m : TokensOf(m)' = TokensOf(m)
  BY <1>3 DEF TokensOf
<1> QED
  BY <1>2, <1>3, <1>4 DEF VersionsOrdered, WithdrawalsCovered

\* Every step keeps what is known of withdrawals.
LEMMA UpgradeInvStep ==
    ASSUME UpgradeInv, [UpgradeNext]_vars
    PROVE  UpgradeInv'
<1>1. [Next]_vars
  BY UpgradeSteps
<1>2. NoForgedClaimInv' /\ BackingInv'
  <2>1. NoForgedClaimInv'
    BY <1>1, NoForgedClaimInvStep DEF UpgradeInv
  <2>2. NoForgedClaim'
    BY <2>1 DEF NoForgedClaimInv
  <2> QED  BY <1>1, <2>1, <2>2, BackingInvStep DEF UpgradeInv
<1>3. BackingInv /\ VersionsOrdered /\ WithdrawalsCovered /\ podVersion \in Nat
  BY DEF UpgradeInv, VersionsOrdered
<1>4. ASSUME UNCHANGED <<configVars, podVersion, withdrawals>>
      PROVE  VersionsOrdered' /\ WithdrawalsCovered'
  <2>1. withdrawals' = withdrawals \cup {} /\ podVersion' \in Nat /\ podVersion <= podVersion'
    BY <1>3, <1>4
  <2> QED  BY <1>1, <1>3, <1>4, <2>1, CoveredStays
<1>5. ASSUME NEW from \in Callers, NEW to \in Callers, NEW m \in MirrorTokens, NEW amount \in Amounts,
             NEW suffix, PodWithdraw(from, m, amount, to, suffix)
      PROVE  VersionsOrdered' /\ WithdrawalsCovered'
  <2> DEFINE h == ClaimTxHash(podVersion, m, amount, to, suffix)
  <2>1. /\ podBalance[m][from] >= amount /\ withdrawals' = withdrawals \cup {h}
        /\ UNCHANGED <<configVars, podVersion>>
    BY <1>5 DEF PodWithdraw, bridgeVars
  <2>2. h = ClaimTxHash(podVersion, h.token, h.amount, h.to, h.suffix) /\ h.token = m /\ h.amount = amount
    BY DEF ClaimTxHash
  <2>3. amount > 0 => TokensOf(m) # {}
    <3>1. from \in Accounts /\ amount \in Nat /\ podBalance[m][from] \in Nat
      BY <1>3, BridgeAssumption DEF BackingInv, BackingTypes, PodTyped
    <3> QED  BY <1>3, <2>1, <3>1, HeldIsListed
  <2> HIDE DEF h
  <2> DEFINE N == {h}
  <2>4. /\ withdrawals' = withdrawals \cup N /\ podVersion' \in Nat /\ podVersion <= podVersion'
        /\ \A g \in N : /\ g = ClaimTxHash(podVersion, g.token, g.amount, g.to, g.suffix)
                        /\ g.token \in MirrorTokens
                        /\ g.amount > 0 => TokensOf(g.token) # {}
    BY <1>3, <2>1, <2>2, <2>3
  <2> HIDE DEF N
  <2> QED  BY <1>1, <1>3, <2>1, <2>4, CoveredStays
<1>6. ASSUME NEW v \in Versions, v > podVersion, PodUpgrade(v)
      PROVE  VersionsOrdered' /\ WithdrawalsCovered'
  <2>1. withdrawals' = withdrawals \cup {} /\ podVersion' = v /\ UNCHANGED configVars
    BY <1>6 DEF PodUpgrade, bridgeVars
  <2>2. podVersion' \in Nat /\ podVersion <= podVersion'
    BY <1>3, <1>6, <2>1, UpgradesAssumption
  <2> QED  BY <1>1, <1>3, <2>1, <2>2, CoveredStays
<1>7. ASSUME Traffic
      PROVE  VersionsOrdered' /\ WithdrawalsCovered'
  <2>1. CASE \E e \in {deposits[i] : i \in DOMAIN deposits} : CreditDeposit(e)
    BY <1>4, <2>1 DEF CreditDeposit, bridgeVars
  <2>2. CASE \E v \in Validators, h \in Hashes : Sign(v, h)
    BY <1>4, <2>2 DEF Sign, bridgeVars
  <2>3. CASE SubmitClaims
    BY <1>4, <2>3 DEF SubmitClaims, BatchClaim, Claimed, podVars
  <2>4. CASE DepositCalls /\ UNCHANGED podVars
    BY <1>4, <2>4, DepositCallsKeep DEF podVars
  <2>5. CASE TokenConfigCalls /\ UNCHANGED podVars
    BY <1>4, <2>5 DEF TokenConfigCalls, WhiteListToken, ConfigureToken, TokenConfigured, podVars
  <2>6. CASE StateCalls /\ UNCHANGED podVars
    BY <1>4, <2>6
    DEF StateCalls, SetState, Migrate, TransferTokensToMigrated, SetCallContractWhitelist, podVars
  <2>7. CASE Tick /\ UNCHANGED podVars
    BY <1>4, <2>7 DEF Tick, podVars
  <2> QED  BY <1>5, <1>7, <2>1, <2>2, <2>3, <2>4, <2>5, <2>6, <2>7 DEF Traffic
<1>8. ASSUME UNCHANGED vars
      PROVE  VersionsOrdered' /\ WithdrawalsCovered'
  BY <1>4, <1>8 DEF vars, bridgeVars, podVars
<1>9. ASSUME RunUpgrade
      PROVE  VersionsOrdered' /\ WithdrawalsCovered'
  BY <1>3, <1>9, UpgradeCovers
<1> QED
  BY <1>2, <1>6, <1>7, <1>8, <1>9 DEF UpgradeInv, UpgradeNext

\* The honest active validators can sign a certificate that the contract accepts.
LEMMA CertificateDue ==
    ASSUME HonestQuorums, ZeroAddress \notin activeValidators, NEW h
    PROVE  \E p \in ProofsDue(h) : p.type = "Certificate" /\ VerifyProof(p, h)
<1> DEFINE B == activeValidators \cap Byzantine
           honest == activeValidators \ Byzantine
           n == Cardinality(honest)
<1>1. IsFiniteSet(activeValidators) /\ IsFiniteSet(B) /\ IsFiniteSet(honest)
  BY FS_Subset DEF HonestQuorums, ValidatorCountExact
<1>2. /\ n \in Nat /\ Cardinality(B) \in Nat /\ n = validatorCount - Cardinality(B)
      /\ validatorCount \in Nat
  <2>1. n = Cardinality(activeValidators) - Cardinality(activeValidators \cap Byzantine)
    BY <1>1, FS_Difference
  <2> QED  BY <1>1, <2>1, FS_CardinalityType DEF HonestQuorums, ValidatorCountExact
<1>3. n >= validatorCount - adversarialResilience
  <2> HIDE DEF n, B, honest
  <2>1. Cardinality(B) <= adversarialResilience /\ adversarialResilience \in Nat
    <3>1. adversarialResilience \in 0 .. validatorCount
      BY DEF HonestQuorums, ValidatorCountExact
    <3> QED  BY <1>2, <3>1 DEF HonestQuorums, B
  <2> QED  BY <1>2, <2>1
<1>4. PICK list \in [1 .. n -> honest] : SignaturesOK(list, honest)
  <2>1. honest \subseteq Nat \ {ZeroAddress}
    BY DEF HonestQuorums
  <2> HIDE DEF honest
  <2> QED  BY <1>1, <2>1, SignersListed
<1> DEFINE p == [type |-> "Certificate", signers |-> list]
<1>5. p \in ProofsDue(h)
  <2>1. n \in 0 .. n
    BY <1>2
  <2>2. list \in SeqOf(honest, n)
    BY <1>4, <2>1 DEF SeqOf
  <2> QED  BY <2>2 DEF ProofsDue
<1>6. SignaturesOK(list, activeValidators)
  BY <1>4 DEF SignaturesOK
<1>7. ComputeTxWeight(list) = n
  <2> HIDE DEF n, honest
  <2>1. Len(list) = n
    BY <1>2, <1>4
  <2> QED  BY <2>1 DEF ComputeTxWeight
<1>8. VerifyProof(p, h)
  BY <1>3, <1>6, <1>7 DEF VerifyProof
<1> QED
  BY <1>5, <1>8

\* The invariant is enough.
LEMMA CoveredIsClaimable == UpgradeInv => NeverStranded
<1> SUFFICES ASSUME UpgradeInv, NEW h \in withdrawals \ processedRequests, h.amount > 0,
                    ~(h.version > version)
             PROVE  Claimable(h)
  BY DEF NeverStranded
<1>1. /\ h = ClaimTxHash(h.version, h.token, h.amount, h.to, h.suffix) /\ h.version \in Nat
      /\ TokensOf(h.token) # {} /\ (h.version < version => h \in merkleRoot)
      /\ version \in Nat /\ version <= MaxProofVersion /\ ZeroAddress \notin activeValidators
      /\ HonestQuorums
  BY DEF UpgradeInv, WithdrawalsCovered, VersionsOrdered, NoForgedClaimInv
<1>2. PICK t \in Tokens : tokenData[t].mirrorToken = h.token
  <2>1. TokensOf(h.token) # {}
    BY <1>1
  <2> QED  BY <2>1 DEF TokensOf
<1>3. ASSUME NEW p \in ProofsDue(h), ProofVersion(p) = h.version, VerifyProof(p, h)
      PROVE  Claimable(h)
  <2> DEFINE c == [amount |-> h.amount, to |-> h.to, suffix |-> h.suffix, proof |-> p]
  <2>1. TxHash(t, c) = ClaimTxHash(h.version, h.token, h.amount, h.to, h.suffix)
    BY <1>2, <1>3 DEF TxHash
  <2>2. TxHash(t, c) = h
    BY <1>1, <2>1
  <2> QED  BY <1>3, <2>2 DEF Claimable
<1>4. CASE h.version < version
  <2> DEFINE p == [type |-> "Merkle", version |-> h.version]
  <2>1. h.version \in 0 .. MaxProofVersion
    BY <1>1, <1>4, NativeAssumption
  <2>2. p \in ProofsDue(h) /\ ProofVersion(p) = h.version
    BY <2>1 DEF ProofsDue, MerkleProofs, ProofVersion
  <2>3. VerifyProof(p, h)
    <3>1. p.type = "Merkle" /\ h \in merkleRoot
      BY <1>1, <1>4
    <3> QED  BY <3>1 DEF VerifyProof, VerifyMerkleProof
  <2> QED  BY <1>3, <2>2, <2>3
<1>5. CASE h.version = version
  <2>1. PICK p \in ProofsDue(h) : p.type = "Certificate" /\ VerifyProof(p, h)
    BY <1>1, CertificateDue
  <2>2. ProofVersion(p) = h.version
    BY <1>5, <2>1 DEF ProofVersion
  <2> QED  BY <1>3, <2>1, <2>2
<1> QED
  BY <1>1, <1>4, <1>5

\* No sequence of upgrades strands a withdrawal: for every committee and its changes, any
\* number of upgrades, of which Pod may be several ahead, and any traffic between them.
THEOREM NeverStrandedSafety == UpgradeSpec => []NeverStranded
<1>1. Init => UpgradeInv
  <2> SUFFICES ASSUME Init
               PROVE  UpgradeInv
    OBVIOUS
  <2>1. /\ version = InitialVersion /\ podVersion = InitialVersion
        /\ activeValidators = InitialValidators /\ withdrawals = {}
    BY DEF Init, BridgeInit
  <2>2. InitialVersion \in Nat /\ InitialVersion <= MaxProofVersion /\ ZeroAddress \notin InitialValidators
    BY BridgeAssumption, UpgradesAssumption
  <2>3. VersionsOrdered /\ WithdrawalsCovered
    BY <2>1, <2>2 DEF VersionsOrdered, WithdrawalsCovered
  <2> QED  BY <2>3, NoForgedClaimInvInit, BackingInvInit DEF UpgradeInv
<1>2. UpgradeInv /\ [UpgradeNext]_vars => UpgradeInv'
  BY UpgradeInvStep
<1> QED
  BY <1>1, <1>2, CoveredIsClaimable, PTL DEF UpgradeSpec

\* Upgrades leave the bridge as safe as it is.
THEOREM UpgradesSafe == UpgradeSpec => [](NoForgedClaim /\ Backed)
<1>1. [UpgradeNext]_vars => [Next]_vars
  BY UpgradeSteps
<1>2. UpgradeSpec => Spec
  BY <1>1, PTL DEF UpgradeSpec, Spec
<1> QED
  BY <1>2, NoForgedClaimSafety, BackedSafety, PTL
=============================================================================
