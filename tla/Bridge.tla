------------------------------- MODULE Bridge -------------------------------
(***************************************************************************)
(* protocol/src/Bridge.sol: the contract that locks ERC20 tokens when      *)
(* users bridge into Pod and releases them against proofs of withdrawals   *)
(* made on Pod.                                                            *)
(*                                                                         *)
(* A transaction is one step: it is atomic, and one that reverts changes   *)
(* nothing, so an action is enabled exactly when the call does not revert. *)
(* The OpenZeppelin role tables are constants: whoever holds a role.       *)
(***************************************************************************)
EXTENDS WrappedToken, TokenUsage, ProofLib, SequencesExt

CONSTANTS
    BridgeAddress,   \* address(this)
    NoAddress,       \* address(0) where an account, a token or a contract is expected
    MirrorTokens,    \* the tokens of the contract on the other chain
    CallContracts,   \* contracts on Pod that deposits may call
    Admins, Pausers, \* holders of DEFAULT_ADMIN_ROLE and PAUSER_ROLE
    Relayers,        \* holders of RELAYER_ROLE
    Versions,        \* versions of the signing domain
    InitialValidators, InitialResilience, InitialVersion  \* arguments of initialize

CONSTANTS            \* the arguments callers may present
    Callers,         \* accounts that call deposit and sign permits
    Holders,         \* accounts that call the tokens directly
    Amounts, Reserves,
    DepositBatches,  \* sequences of [from, to, amount]
    ClaimBatches,    \* sequences of [amount, to, suffix, proof]
    Configurations,  \* [minAmount, depositLimit, claimLimit]
    ValidatorLists, Resiliences, MerkleRoots,
    NewContracts

CONSTANTS            \* bounds of the model
    MaxTime, MaxDeposits, MaxNonce, MaxSupply

ASSUME BridgeAssumption ==
    /\ BridgeAddress \in Accounts \cap Spenders
    /\ NoAddress \notin Accounts \cup Tokens \cup MirrorTokens \cup CallContracts
    /\ Callers \cup Holders \subseteq Accounts \ {BridgeAddress}
    /\ \A t \in Tokens, s \in Spenders : InitialLedger[t].allowance[BridgeAddress][s] = 0
    /\ NewContracts \subseteq Accounts \cup {NoAddress}
    /\ Amounts \subseteq Nat /\ MaxTime \in Nat
    /\ Configurations \subseteq [minAmount : Nat, depositLimit : Nat, claimLimit : Nat]
    /\ IsFiniteSet(InitialValidators) /\ InitialValidators \subseteq Nat \ {ZeroAddress}
    /\ InitialResilience \in 0 .. Cardinality(InitialValidators)
    /\ InitialVersion \in Versions
    /\ Resiliences \subseteq Nat
    /\ ValidatorLists \subseteq Seq(Nat)
    /\ \A seq \in ClaimBatches \cup DepositBatches :
          /\ Len(seq) \in Nat \ {0} /\ DOMAIN seq = 1 .. Len(seq)
          /\ \A i \in DOMAIN seq : seq[i].amount \in Nat
    /\ \A ds \in DepositBatches : \A i \in DOMAIN ds : ds[i].from \in Accounts

VARIABLES
    contractState, migratedContract,
    depositIndex,
    version, merkleRoot, adversarialResilience, validatorCount, activeValidators,
    tokenData, processedRequests, whitelistedCallContracts,
    now,             \* block.timestamp
    deposits,        \* history: the Deposit events emitted, in order
    paid             \* history: how often each txHash was paid out (Claim events)

configVars == <<version, merkleRoot, adversarialResilience, validatorCount, activeValidators>>
stateVars  == <<contractState, migratedContract>>
flowVars   == <<tokenData, depositIndex, deposits, processedRequests, paid>>
bridgeVars == <<stateVars, configVars, flowVars, whitelistedCallContracts, now, tokenVars>>

-----------------------------------------------------------------------------

ContractState == {"Public", "Private", "Paused", "Migrated"}

UnknownToken == [minAmount |-> 0, depositLimit |-> 0, claimLimit |-> 0,
                 depositUsage |-> FreshUsage(0), claimUsage |-> FreshUsage(0),
                 mirrorToken |-> NoAddress]

\* keccak256 over the signing domain of a version and the call withdraw(token,
\* amount, to, chainid) to BRIDGE_CONTRACT, with the transaction's suffix:
\* collision free, so the hash is the tuple of what is hashed.
ClaimTxHash(proofVersion, mirrorToken, amount, to, auxTxSuffix) ==
    [version |-> proofVersion, token |-> mirrorToken, amount |-> amount,
     to |-> to, suffix |-> auxTxSuffix]

BridgeInit ==
    /\ TokenInit
    /\ contractState = "Public"
    /\ migratedContract = NoAddress
    /\ depositIndex = 0
    /\ activeValidators = InitialValidators
    /\ validatorCount = Cardinality(InitialValidators)
    /\ adversarialResilience = InitialResilience
    /\ version = InitialVersion
    /\ merkleRoot = {}
    /\ tokenData = [t \in Tokens |-> UnknownToken]
    /\ processedRequests = {}
    /\ whitelistedCallContracts = {}
    /\ now = 0
    /\ deposits = <<>>
    /\ paid = <<>>

-----------------------------------------------------------------------------
\* Validator set, version and Merkle root

Public      == contractState = "Public"

\* Mutant of Operational: only migration stops the contract.
OperationalUnlessMigrated == contractState # "Migrated"

Operational == contractState \in {"Public", "Private"}

\* Mutant of Distinct: repetitions are not noticed.
DistinctUnchecked(seq) == TRUE

Distinct(seq) == \A i, j \in DOMAIN seq : i # j => seq[i] # seq[j]

\* updateValidatorConfig.  The removals are processed before the additions; a
\* repeated or unknown validator in either list reverts.
UpdateValidatorConfig(sender, newResilience, newVersion, newMerkleRoot, add, remove) ==
    LET added     == {add[i] : i \in DOMAIN add}
        removed   == {remove[i] : i \in DOMAIN remove}
        remaining == activeValidators \ removed
        newCount  == validatorCount + Len(add) - Len(remove)
    IN  /\ sender \in Admins
        /\ Distinct(remove) /\ removed \subseteq activeValidators
        /\ Distinct(add) /\ added \cap remaining = {} /\ ZeroAddress \notin added
        /\ newResilience <= newCount
        /\ activeValidators' = remaining \cup added
        /\ validatorCount' = newCount
        /\ adversarialResilience' = newResilience
        /\ version' = newVersion
        /\ merkleRoot' = newMerkleRoot
        /\ UNCHANGED <<stateVars, flowVars, whitelistedCallContracts, now, tokenVars>>

-----------------------------------------------------------------------------
\* Deposits

\* Mutant of CallAllowed: a plain deposit may reserve.
CallAllowedReserving(callContract, reserveBalance) ==
    callContract = NoAddress \/ callContract \in whitelistedCallContracts

CallAllowed(callContract, reserveBalance) ==
    IF callContract = NoAddress
    THEN reserveBalance = 0
    ELSE callContract \in whitelistedCallContracts

\* One iteration of _processBatchDeposit, over deposits [from, to, amount] of which the first
\* Len(permits) come with a permit.  `ok` is FALSE once an iteration has reverted.
DepositStep(t, ds, permits, callContract, reserveBalance, s, i) ==
    LET data == tokenData[t]
        d == ds[i]
        l == IF i \in DOMAIN permits
             THEN TryPermit(s.ledger, t, d.from, BridgeAddress, d.amount, permits[i])
             ELSE s.ledger
    IN  [ok     |-> /\ s.ok
                    /\ callContract # NoAddress => d.amount >= reserveBalance
                    /\ d.to # NoAddress
                    /\ Admits(s.usage, data.minAmount, data.depositLimit, d.amount, now)
                    /\ TransferableFrom(l, BridgeAddress, d.from, d.amount),
         usage  |-> Charged(s.usage, data.depositLimit, d.amount, now),
         ledger |-> TransferredFrom(l, BridgeAddress, d.from, BridgeAddress, d.amount)]

DepositRun(t, ds, permits, callContract, reserveBalance) ==
    LET Step(s, i) == DepositStep(t, ds, permits, callContract, reserveBalance, s, i)
    IN  FoldLeft(Step, [ok |-> TRUE, usage |-> tokenData[t].depositUsage, ledger |-> ledger[t]],
                 [i \in DOMAIN ds |-> i])

\* Mutant of DepositId: a batch has one id.
DepositIdOfBatch(i) == depositIndex

DepositId(i) == depositIndex + i - 1

\* Mutant of EventAmount: a batch announces its first amount for every item.
EventAmountFirst(ds, i) == ds[1].amount

EventAmount(ds, i) == ds[i].amount

\* One Deposit event per item.
DepositEvents(t, ds, callContract, reserveBalance) ==
    [i \in DOMAIN ds |->
       [id |-> DepositId(i), from |-> ds[i].from, to |-> ds[i].to, token |-> t,
        amount |-> EventAmount(ds, i), callContract |-> callContract,
        reserveBalance |-> reserveBalance]]

\* What the run leaves behind when it does not revert.
Deposited(t, ds, permits, callContract, reserveBalance) ==
    LET run == DepositRun(t, ds, permits, callContract, reserveBalance)
    IN  /\ run.ok
        /\ tokenData' = [tokenData EXCEPT ![t].depositUsage = run.usage]
        /\ ledger' = [ledger EXCEPT ![t] = run.ledger]
        /\ deposits' = deposits \o DepositEvents(t, ds, callContract, reserveBalance)
        /\ depositIndex' = depositIndex + Len(ds)
        /\ UNCHANGED <<stateVars, configVars, processedRequests, paid,
                       whitelistedCallContracts, now, signedPermits>>

\* deposit: permits is <<>> or the one permit the sender passes.
Deposit(sender, t, amount, to, callContract, reserveBalance, permits) ==
    /\ Public
    /\ CallAllowed(callContract, reserveBalance)
    /\ Deposited(t, <<[from |-> sender, to |-> to, amount |-> amount]>>, permits,
                 callContract, reserveBalance)

BatchDeposit(sender, t, ds, permits, callContract, reserveBalance) ==
    /\ Operational
    /\ sender \in Relayers
    /\ CallAllowed(callContract, reserveBalance)
    /\ ds # <<>>
    /\ Deposited(t, ds, permits, callContract, reserveBalance)

-----------------------------------------------------------------------------
\* Claims.  A claim is [amount, to, suffix, proof], a proof is
\* [type |-> "Certificate", signers |-> <<...>>] or [type |-> "Merkle", version |-> v].

\* Mutant of ProofVersion: every proof is checked in the current signing domain.
ProofVersionCurrent(proof) == version

\* _parseProof: a certificate is checked in the current signing domain, a
\* Merkle proof in the one whose version it carries.
ProofVersion(proof) == IF proof.type = "Merkle" THEN proof.version ELSE version

TxHash(t, c) ==
    ClaimTxHash(ProofVersion(c.proof), tokenData[t].mirrorToken, c.amount, c.to, c.suffix)

VerifyProof(proof, txHash) ==
    \/ /\ proof.type = "Certificate"
       /\ SignaturesOK(proof.signers, activeValidators)
       /\ ComputeTxWeight(proof.signers) >= validatorCount - adversarialResilience
    \/ /\ proof.type = "Merkle"
       /\ VerifyMerkleProof(txHash, merkleRoot)

\* Mutant of ClaimLimit: claims are held to the deposit limit.
ClaimLimitOfDeposits(data) == data.depositLimit

ClaimLimit(data) == data.claimLimit

\* One iteration of batchClaim: limit and payout.
ClaimStep(t, s, c) ==
    LET data == tokenData[t]
    IN  [ok     |-> /\ s.ok
                    /\ Admits(s.usage, data.minAmount, ClaimLimit(data), c.amount, now)
                    /\ Transferable(s.ledger, BridgeAddress, c.amount)
                    /\ c.to # NoAddress,
         usage  |-> Charged(s.usage, ClaimLimit(data), c.amount, now),
         ledger |-> Transferred(s.ledger, BridgeAddress, c.to, c.amount)]

ClaimRun(t, cs) ==
    LET Step(s, c) == ClaimStep(t, s, c)
    IN  FoldLeft(Step, [ok |-> TRUE, usage |-> tokenData[t].claimUsage, ledger |-> ledger[t]], cs)

\* Mutants of NotProcessed: a batch is looked at as a whole before any of it is marked;
\* nothing is looked up.
NotProcessedBefore(hashes) == \A i \in DOMAIN hashes : hashes[i] \notin processedRequests

NotProcessedUnchecked(hashes) == TRUE

\* Each iteration marks its hash before the next one is looked at, so a hash
\* may not occur twice in a batch either.
NotProcessed(hashes) ==
    \A i \in DOMAIN hashes :
        hashes[i] \notin processedRequests \cup {hashes[j] : j \in 1 .. i - 1}

Claimed(t, cs) ==
    LET hashes == [i \in DOMAIN cs |-> TxHash(t, cs[i])]
        run    == ClaimRun(t, cs)
    IN  /\ Operational
        /\ NotProcessed(hashes)
        /\ \A i \in DOMAIN cs : VerifyProof(cs[i].proof, hashes[i])
        /\ run.ok
        /\ processedRequests' = processedRequests \cup {hashes[i] : i \in DOMAIN cs}
        /\ paid' = [h \in DOMAIN paid \cup {hashes[i] : i \in DOMAIN cs} |->
                       (IF h \in DOMAIN paid THEN paid[h] ELSE 0)
                         + Cardinality({i \in DOMAIN cs : hashes[i] = h})]
        /\ tokenData' = [tokenData EXCEPT ![t].claimUsage = run.usage]
        /\ ledger' = [ledger EXCEPT ![t] = run.ledger]
        /\ UNCHANGED <<stateVars, configVars, depositIndex, deposits,
                       whitelistedCallContracts, now, signedPermits>>

\* claim: anyone may submit it.
Claim(t, c) == Claimed(t, <<c>>)

BatchClaim(t, cs) == cs # <<>> /\ Claimed(t, cs)

-----------------------------------------------------------------------------
\* Token configuration, the contract's state, and migration

\* Mutant of ConfiguredData: the usages survive a reconfiguration.
ConfiguredDataKeepingUsage(t, mirrorToken, minAmount, depositLimit, claimLimit) ==
    [tokenData[t] EXCEPT !.minAmount = minAmount, !.depositLimit = depositLimit,
                         !.claimLimit = claimLimit, !.mirrorToken = mirrorToken]

\* Both usages start over.
ConfiguredData(t, mirrorToken, minAmount, depositLimit, claimLimit) ==
    [minAmount |-> minAmount, depositLimit |-> depositLimit, claimLimit |-> claimLimit,
     depositUsage |-> FreshUsage(now), claimUsage |-> FreshUsage(now),
     mirrorToken |-> mirrorToken]

\* _configureTokenData
TokenConfigured(t, mirrorToken, minAmount, depositLimit, claimLimit) ==
    /\ minAmount # 0
    /\ tokenData' = [tokenData EXCEPT ![t] =
                       ConfiguredData(t, mirrorToken, minAmount, depositLimit, claimLimit)]
    /\ UNCHANGED <<stateVars, configVars, depositIndex, deposits, processedRequests, paid,
                   whitelistedCallContracts, now, tokenVars>>

\* Mutant of Unknown: a token may be whitelisted again.
UnknownAlways(t) == TRUE

Unknown(t) == tokenData[t].minAmount = 0

WhiteListToken(sender, t, mirrorToken, minAmount, depositLimit, claimLimit) ==
    /\ contractState # "Migrated"
    /\ sender \in Admins
    /\ t # NoAddress /\ mirrorToken # NoAddress
    /\ Unknown(t)
    /\ TokenConfigured(t, mirrorToken, minAmount, depositLimit, claimLimit)

\* configureToken: the mirror stays.
ConfigureToken(sender, t, minAmount, depositLimit, claimLimit) ==
    /\ sender \in Admins
    /\ tokenData[t].minAmount # 0
    /\ TokenConfigured(t, tokenData[t].mirrorToken, minAmount, depositLimit, claimLimit)

SetCallContractWhitelist(sender, callContract, whitelisted) ==
    /\ sender \in Admins
    /\ whitelistedCallContracts' = IF whitelisted
                                   THEN whitelistedCallContracts \cup {callContract}
                                   ELSE whitelistedCallContracts \ {callContract}
    /\ UNCHANGED <<stateVars, configVars, flowVars, now, tokenVars>>

\* Mutant of MaySetState: it is not noticed that the contract has migrated.
MaySetStateAlways(sender, newState) ==
    /\ newState # "Migrated"
    /\ sender \in Admins \/ (sender \in Pausers /\ newState = "Paused")

\* The admin may set any state but Migrated; a pauser may only pause.
MaySetState(sender, newState) ==
    /\ contractState # "Migrated"
    /\ newState # "Migrated"
    /\ sender \in Admins \/ (sender \in Pausers /\ newState = "Paused")

SetState(sender, newState) ==
    /\ MaySetState(sender, newState)
    /\ contractState' = newState
    /\ UNCHANGED <<migratedContract, configVars, flowVars, whitelistedCallContracts, now, tokenVars>>

Migrate(sender, newContract) ==
    /\ sender \in Admins
    /\ contractState = "Paused"
    /\ contractState' = "Migrated"
    /\ migratedContract' = newContract
    /\ UNCHANGED <<configVars, flowVars, whitelistedCallContracts, now, tokenVars>>

\* transferTokensToMigrated: the whole balance of every listed token.
TransferTokensToMigrated(sender, tokens) ==
    LET held(t) == ledger[t].balance[BridgeAddress]
    IN  /\ sender \in Admins
        /\ contractState = "Migrated"
        /\ \A t \in tokens : held(t) > 0 => /\ migratedContract # NoAddress
                                            /\ Transferable(ledger[t], BridgeAddress, held(t))
        /\ ledger' = [t \in Tokens |->
              IF t \in tokens /\ held(t) > 0
              THEN Transferred(ledger[t], BridgeAddress, migratedContract, held(t))
              ELSE ledger[t]]
        /\ UNCHANGED <<stateVars, configVars, flowVars, whitelistedCallContracts, now, signedPermits>>

\* A later block.
Tick ==
    /\ now' = now + 1
    /\ UNCHANGED <<stateVars, configVars, flowVars, whitelistedCallContracts, tokenVars>>

-----------------------------------------------------------------------------
\* Who may call what, with which arguments

DirectDepositCalls ==
    \E sender \in Callers, t \in Tokens, amount \in Amounts, reserveBalance \in Reserves,
       callContract \in CallContracts \cup {NoAddress},
       permits \in {<<>>} \cup {<<p>> : p \in signedPermits} :
        /\ depositIndex < MaxDeposits
        /\ Deposit(sender, t, amount, sender, callContract, reserveBalance, permits)

BatchDepositCalls ==
    \E sender \in Relayers, t \in Tokens, ds \in DepositBatches, reserveBalance \in Reserves,
       callContract \in CallContracts \cup {NoAddress} :
       \E permits \in SeqOf(signedPermits, Len(ds)) :
           /\ depositIndex + Len(ds) <= MaxDeposits
           /\ BatchDeposit(sender, t, ds, permits, callContract, reserveBalance)

DepositCalls == DirectDepositCalls \/ BatchDepositCalls

ClaimCalls ==
    \E t \in Tokens, cs \in ClaimBatches : Claim(t, cs[1]) \/ BatchClaim(t, cs)

TokenConfigCalls ==
    \E sender \in Admins, t \in Tokens, c \in Configurations :
        \/ \E m \in MirrorTokens :
              WhiteListToken(sender, t, m, c.minAmount, c.depositLimit, c.claimLimit)
        \/ ConfigureToken(sender, t, c.minAmount, c.depositLimit, c.claimLimit)

ValidatorConfigCalls ==
    \E sender \in Admins, f \in Resiliences, v \in Versions, root \in MerkleRoots,
       add, remove \in ValidatorLists :
        UpdateValidatorConfig(sender, f, v, root, add, remove)

StateCalls ==
    \/ \E sender \in Admins \cup Pausers, s \in ContractState : SetState(sender, s)
    \/ \E sender \in Admins, new \in NewContracts : Migrate(sender, new)
    \/ \E sender \in Admins, tokens \in SUBSET Tokens : TransferTokensToMigrated(sender, tokens)
    \/ \E sender \in Admins, callContract \in CallContracts, whitelisted \in BOOLEAN :
          SetCallContractWhitelist(sender, callContract, whitelisted)

Supply(t) == MapThenSumSet(LAMBDA a : ledger[t].balance[a], Accounts)

TokenCalls ==
    /\ \/ \E t \in Tokens, from \in Holders, to \in Accounts, v \in Amounts : Transfer(t, from, to, v)
       \/ \E t \in Tokens, from \in Holders, v \in Amounts : Burn(t, from, v)
       \/ \E t \in Tokens, owner \in Holders, spender \in Spenders, v \in Amounts :
             Approve(t, owner, spender, v)
       \/ \E t \in Tokens, owner \in Callers, spender \in Spenders, v \in Amounts :
             ledger[t].nonce[owner] < MaxNonce /\ SignPermit(t, owner, spender, v)
       \/ \E p \in signedPermits : SubmitPermit(p)
       \/ \E t \in Tokens, sender, to \in Minters, v \in Amounts :
             Supply(t) + v <= MaxSupply /\ Mint(sender, t, to, v)
       \/ \E t \in Tokens, sender \in TokenPausers \cup TokenAdmins :
             Pause(sender, t) \/ Unpause(sender, t)
    /\ UNCHANGED <<stateVars, configVars, flowVars, whitelistedCallContracts, now>>

BridgeNext ==
    \/ DepositCalls
    \/ ClaimCalls
    \/ TokenConfigCalls
    \/ ValidatorConfigCalls
    \/ StateCalls
    \/ TokenCalls
    \/ now < MaxTime /\ Tick

BridgeSpec == BridgeInit /\ [][BridgeNext]_bridgeVars

-----------------------------------------------------------------------------
\* Invariants

TokenData == [minAmount : Nat, depositLimit : Nat, claimLimit : Nat,
              depositUsage : Usage, claimUsage : Usage,
              mirrorToken : MirrorTokens \cup {NoAddress}]

BridgeTypeOK ==
    /\ TokenTypeOK
    /\ contractState \in ContractState
    /\ migratedContract \in Accounts \cup {NoAddress}
    /\ depositIndex \in Nat /\ now \in Nat
    /\ version \in Versions
    /\ activeValidators \subseteq Nat \ {ZeroAddress}
    /\ tokenData \in [Tokens -> TokenData]
    /\ whitelistedCallContracts \subseteq CallContracts

\* validatorCount, kept by addition and subtraction of list lengths, is the
\* number of active validators, through removals, additions and validators in
\* both lists; so the quorum validatorCount - adversarialResilience neither
\* underflows nor exceeds what the active validators can sign.
ValidatorCountExact ==
    /\ IsFiniteSet(activeValidators)
    /\ validatorCount = Cardinality(activeValidators)
    /\ adversarialResilience \in 0 .. validatorCount

\* No transaction hash is ever paid twice: not by a certificate and then a
\* Merkle proof of the same withdrawal, not within a batch, not after the
\* version has moved on and come back.
PaidOnce ==
    /\ DOMAIN paid = processedRequests
    /\ \A h \in processedRequests : paid[h] = 1

\* Deposit ids are dense and never reused, batches included: the other chain
\* keys its credits by them.
DepositIdsDense ==
    /\ depositIndex = Len(deposits)
    /\ \A i \in DOMAIN deposits : deposits[i].id = i - 1

\* The other chain forwards amount - reserveBalance of a deposit to the contract
\* it calls: that never underflows, and a plain deposit reserves nothing.
ReserveCovered ==
    \A i \in DOMAIN deposits :
        LET e == deposits[i]
        IN  e.reserveBalance <= (IF e.callContract = NoAddress THEN 0 ELSE e.amount)

-----------------------------------------------------------------------------
\* Action properties

\* The bridge emits Deposit events for exactly the amount of tokens it has
\* received in the same transaction.
EventsFunded ==
    [][\A t \in Tokens :
          LET amount == [i \in DOMAIN deposits' |-> deposits'[i].amount]
              new    == {i \in DOMAIN deposits' \ DOMAIN deposits : deposits'[i].token = t}
          IN  new # {} =>
                ledger'[t].balance[BridgeAddress] =
                    ledger[t].balance[BridgeAddress] + SumFunctionOnSet(amount, new)
      ]_bridgeVars

\* Once a token has a mirror it keeps it, however it is reconfigured: hashes
\* of withdrawals made on the other chain name the mirror.
MirrorFixed ==
    [][\A t \in Tokens : tokenData[t].mirrorToken # NoAddress =>
          tokenData'[t].mirrorToken = tokenData[t].mirrorToken]_bridgeVars

\* While the contract is paused or migrated no deposit is taken and no claim
\* is paid; it can lose tokens only after migration, and then all it has of a
\* token goes to the migrated contract.
StoppedHolds ==
    [][(contractState \in {"Paused", "Migrated"}) =>
        /\ UNCHANGED <<deposits, paid>>
        /\ \A t \in Tokens :
              LET held == ledger[t].balance[BridgeAddress]
              IN  ledger'[t].balance[BridgeAddress] < held =>
                    /\ contractState = "Migrated"
                    /\ ledger'[t].balance[BridgeAddress] = 0
                    /\ ledger'[t].balance[migratedContract]
                         = ledger[t].balance[migratedContract] + held
      ]_bridgeVars

\* Migration is for good, and its target is chosen once.
MigrationFinal ==
    [][contractState = "Migrated" => UNCHANGED <<contractState, migratedContract>>]_bridgeVars

\* A paused token does not move, whichever contract is asked to move it.
TokenPauseFreezes ==
    [][\A t \in Tokens : ledger[t].paused => ledger'[t].balance = ledger[t].balance]_bridgeVars

\* A deposit that carries a permit cannot be spoilt by somebody who submits
\* the permit first: as long as it is the owner's only permit from its nonce
\* on, the deposit that would succeed still does (the try/catch in _applyPermit).
OnlyPermit(p) ==
    \A q \in signedPermits : (q.token = p.token /\ q.owner = p.owner /\ q.nonce >= p.nonce) => q = p

DepositOpen(p) ==
    DepositRun(p.token, <<[from |-> p.owner, to |-> p.owner, amount |-> p.value]>>, <<p>>,
               NoAddress, 0).ok

FrontRunTolerated ==
    [][(\E q \in signedPermits : SubmitPermit(q)) =>
         \A p \in signedPermits :
            (p.spender = BridgeAddress /\ OnlyPermit(p) /\ DepositOpen(p)) => DepositOpen(p)'
      ]_bridgeVars

-----------------------------------------------------------------------------
\* Each token's two flows implement the rate limiter.

ConfiguredLimits == UNION {{c.minAmount, c.depositLimit, c.claimLimit} : c \in Configurations}

\* A transaction charges at most what is left of one period and all of the next.
ChargedAmounts == UNION {0 .. 2 * limit : limit \in ConfiguredLimits}

DepositRate(t) == INSTANCE RateLimit WITH
    Amounts <- ChargedAmounts, Limits <- ConfiguredLimits, Times <- 0 .. MaxTime,
    minAmount <- tokenData[t].minAmount, limit <- tokenData[t].depositLimit,
    usage <- tokenData[t].depositUsage

ClaimRate(t) == INSTANCE RateLimit WITH
    Amounts <- ChargedAmounts, Limits <- ConfiguredLimits, Times <- 0 .. MaxTime,
    minAmount <- tokenData[t].minAmount, limit <- tokenData[t].claimLimit,
    usage <- tokenData[t].claimUsage

\* DepositRate(t)!RateSpec and ClaimRate(t)!RateSpec for every token t: every call that touches
\* a usage, batches and reconfigurations included, is a step of RateLimit.
DepositsRateLimited ==
    /\ \A t \in Tokens : DepositRate(t)!RateInit
    /\ [][\A t \in Tokens : [DepositRate(t)!RateNext]_(DepositRate(t)!rateVars)]_bridgeVars

ClaimsRateLimited ==
    /\ \A t \in Tokens : ClaimRate(t)!RateInit
    /\ [][\A t \in Tokens : [ClaimRate(t)!RateNext]_(ClaimRate(t)!rateVars)]_bridgeVars
=============================================================================
