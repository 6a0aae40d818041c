---------------------------- MODULE NativeBridge ----------------------------
(***************************************************************************)
(* Both ends of the bridge: the contract of Bridge.tla and, external to    *)
(* this repository, the Pod ledger that credits its deposits and burns     *)
(* withdrawals, the validators that sign them and the admin that commits   *)
(* Merkle roots, modelled from what the contract and                       *)
(* doc/protocol/native-bridge.md assume of them.                           *)
(*                                                                         *)
(* Trusted: honest validators sign only withdrawals Pod has executed; the  *)
(* admin commits roots over such withdrawals only, and keeps at most       *)
(* adversarialResilience Byzantine validators active, fewer than a quorum. *)
(* Not trusted: Byzantine validators, whoever submits claims, the order    *)
(* and the delay of everything.                                            *)
(***************************************************************************)
EXTENDS Bridge

CONSTANTS
    Byzantine,        \* validators that sign anything
    Validators,       \* every validator there ever is
    AuxSuffixes,      \* what tells withdrawals of equal content apart (auxTxSuffix)
    MaxProofVersion,  \* the largest version that four bytes of a Merkle proof carry
    MaxWithdrawals,   \* bound: withdrawals on Pod
    MaxSigners,       \* bound: signatures in one certificate
    MaxClaims         \* bound: claims in one batchClaim

\* The contracts that hold what Pod's accounts own: this one and its possible successors.
Custodians == {BridgeAddress} \cup (NewContracts \cap Accounts)

\* They start empty and are no users: they neither deposit nor receive withdrawals.
ASSUME NativeAssumption ==
    /\ IsFiniteSet(Tokens) /\ IsFiniteSet(Accounts)
    /\ \A t \in Tokens, a \in Custodians : InitialLedger[t].balance[a] = 0
    /\ NewContracts \cap Callers = {}
    /\ \A ds \in DepositBatches : \A i \in DOMAIN ds :
          ds[i].from \notin NewContracts /\ ds[i].to \in Accounts
    /\ Byzantine \subseteq Validators
    /\ CallContracts = {}
    /\ MaxSigners \in Nat /\ MaxClaims \in Nat /\ MaxProofVersion \in Nat
    /\ Cardinality(InitialValidators \cap Byzantine) <= InitialResilience
    /\ 2 * InitialResilience < Cardinality(InitialValidators)

VARIABLES
    podBalance,       \* mirror token |-> account |-> balance on Pod
    credited,         \* ids of the deposits Pod has credited
    podVersion,       \* version of the domain in which Pod executes withdrawals
    withdrawals,      \* hashes of the withdrawals Pod has executed
    signatures        \* pairs <<validator, hash>>: the attestations that exist

podVars == <<podBalance, credited, podVersion, withdrawals, signatures>>
vars    == <<bridgeVars, podVars>>

Init ==
    /\ BridgeInit
    /\ podBalance = [m \in MirrorTokens |-> [a \in Accounts |-> 0]]
    /\ credited = {}
    /\ podVersion = InitialVersion
    /\ withdrawals = {}
    /\ signatures = {}

-----------------------------------------------------------------------------
\* Pod

\* Validators observe a finalized deposit, in any order, and credit its recipient.
CreditDeposit(e) ==
    LET m == tokenData[e.token].mirrorToken
    IN  /\ e.id \notin credited
        /\ credited' = credited \cup {e.id}
        /\ podBalance' = [podBalance EXCEPT ![m][e.to] = @ + e.amount]
        /\ UNCHANGED <<bridgeVars, podVersion, withdrawals, signatures>>

\* withdraw on the precompile burns the tokens; the transaction is unique.
PodWithdraw(from, m, amount, to, suffix) ==
    LET h == ClaimTxHash(podVersion, m, amount, to, suffix)
    IN  /\ podBalance[m][from] >= amount
        /\ h \notin withdrawals
        /\ podBalance' = [podBalance EXCEPT ![m][from] = @ - amount]
        /\ withdrawals' = withdrawals \cup {h}
        /\ UNCHANGED <<bridgeVars, credited, podVersion, signatures>>

\* The network moves to another version, independently of the contract.
PodUpgrade(v) ==
    /\ podVersion' = v
    /\ UNCHANGED <<bridgeVars, podBalance, credited, withdrawals, signatures>>

Hashes == {ClaimTxHash(v, m, amount, to, suffix) :
             v \in Versions, m \in MirrorTokens, amount \in Amounts, to \in Callers, suffix \in AuxSuffixes}

Sign(v, h) ==
    /\ v \in Byzantine \/ h \in withdrawals
    /\ signatures' = signatures \cup {<<v, h>>}
    /\ UNCHANGED <<bridgeVars, podBalance, credited, podVersion, withdrawals>>

-----------------------------------------------------------------------------
\* The contract, driven by claimants and by its admin

\* A certificate is an aggregate of signatures over the hash it is checked against: ecrecover
\* yields no validator for any other signature.
ProofExists(proof, h) ==
    proof.type = "Certificate" => \A i \in DOMAIN proof.signers : <<proof.signers[i], h>> \in signatures

SignersOf(h) == {v \in Validators : <<v, h>> \in signatures}

\* The leaf of a Merkle proof is in the domain of the version the proof carries.
MerkleProofs(h) == {[type |-> "Merkle", version |-> v] : v \in {h.version} \cap 0 .. MaxProofVersion}

\* What claimants can present for a hash: any list of its signers, or a Merkle proof.
ProofsFor(h) ==
    {[type |-> "Certificate", signers |-> list] : list \in SeqOf(SignersOf(h), MaxSigners) \ {<<>>}}
        \cup MerkleProofs(h)

ClaimsFor(h) ==
    {[amount |-> h.amount, to |-> h.to, suffix |-> h.suffix, proof |-> p] : p \in ProofsFor(h)}

Claims == UNION {ClaimsFor(h) : h \in withdrawals \cup {s[2] : s \in signatures}}

SubmitClaims ==
    \E t \in Tokens, cs \in SeqOf(Claims, MaxClaims) :
        /\ \A i \in DOMAIN cs : ProofExists(cs[i].proof, TxHash(t, cs[i]))
        /\ BatchClaim(t, cs)
        /\ UNCHANGED podVars

\* The admin replaces validators, moves the version and commits a root.
UpdateNetwork ==
    \E sender \in Admins, f \in Resiliences, v \in Versions, root \in SUBSET withdrawals,
       add, remove \in ValidatorLists :
        /\ UpdateValidatorConfig(sender, f, v, root, add, remove)
        /\ Cardinality(activeValidators' \cap Byzantine) <= f
        /\ f < validatorCount' - f
        /\ UNCHANGED podVars

\* Everything but upgrades.
Traffic ==
    \/ \E e \in {deposits[i] : i \in DOMAIN deposits} : CreditDeposit(e)
    \/ \E from, to \in Callers, m \in MirrorTokens, amount \in Amounts, suffix \in AuxSuffixes :
          Cardinality(withdrawals) < MaxWithdrawals /\ PodWithdraw(from, m, amount, to, suffix)
    \/ \E v \in Validators, h \in Hashes : Sign(v, h)
    \/ SubmitClaims
    \/ /\ DepositCalls \/ TokenConfigCalls \/ StateCalls \/ (now < MaxTime /\ Tick)
       /\ UNCHANGED podVars

Next == Traffic \/ (\E v \in Versions : PodUpgrade(v)) \/ UpdateNetwork

Spec == Init /\ [][Next]_vars

-----------------------------------------------------------------------------

\* Nothing is paid that Pod has not burnt, whatever the Byzantine validators sign, whatever
\* list of signatures a claimant assembles, before and after validators and versions change.
NoForgedClaim == DOMAIN paid \subseteq withdrawals

\* The tokens behind a mirror, and what the contracts hold of one of them.
TokensOf(m) == {t \in Tokens : tokenData[t].mirrorToken = m}
Custody(t) == SumFunctionOnSet(ledger[t].balance, Custodians)

\* Deposits on their way to Pod, and withdrawals on their way back.
Incoming(m) == {i \in DOMAIN deposits : /\ deposits[i].token \in TokensOf(m)
                                        /\ deposits[i].id \notin credited}
Unpaid(m)   == {h \in withdrawals \ processedRequests : h.token = m}

\* What the contracts hold of the tokens behind a mirror, and what the accounts of Pod, the
\* deposits and the withdrawals amount to.
Locked(m)    == SumFunctionOnSet([t \in Tokens |-> Custody(t)], TokensOf(m))
OnPod(m)     == SumFunctionOnSet(podBalance[m], Accounts)
Arriving(m)  == SumFunctionOnSet([i \in DOMAIN deposits |-> deposits[i].amount], Incoming(m))
Returning(m) == SumFunctionOnSet([h \in withdrawals |-> h.amount], Unpaid(m))

\* What the contract, and after migration its successor, holds of the tokens behind a mirror is
\* exactly what Pod accounts hold of it, plus what is on its way in either direction.
Backed == \A m \in MirrorTokens : Locked(m) = OnPod(m) + Arriving(m) + Returning(m)
=============================================================================
