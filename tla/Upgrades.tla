------------------------------ MODULE Upgrades ------------------------------
(***************************************************************************)
(* Network upgrades, as protocol/script/UpdateBridgeValidatorConfig.s.sol  *)
(* performs them: one call of updateValidatorConfig that rotates the       *)
(* validators, raises the version, which makes certificates of the version *)
(* before worthless, and "installs the Merkle root that keeps pre-upgrade  *)
(* withdrawals claimable".                                                 *)
(*                                                                         *)
(* External is what surrounds the script, scripts/bridge-upgrade.sh and    *)
(* `node bridge-merkle-root': they commit the root over all withdrawals of *)
(* earlier versions, once Pod executes in the new version.  From then on   *)
(* these withdrawals do not change, so it does not matter when the root is *)
(* computed.                                                               *)
(***************************************************************************)
EXTENDS NativeBridge

ASSUME UpgradesAssumption ==
    Versions \subseteq Nat /\ InitialVersion <= MaxProofVersion

-----------------------------------------------------------------------------

\* Mutant of PreUpgrade: the claims "from the previous version" only.
PreUpgradeOfPrevious(v) == {h \in withdrawals : h.version = version}

PreUpgrade(v) == {h \in withdrawals : h.version < v}

\* Mutant of FitsProofs: as in the contract, any version will do.
FitsProofsUnchecked(v) == TRUE

FitsProofs(v) == v <= MaxProofVersion

\* run: the version rises and fits the four bytes of Merkle proofs.  (An empty root needs the
\* operator's word that there were no withdrawals; then it is what the root is.)
RunUpgrade ==
    /\ UpdateNetwork
    /\ version' > version /\ FitsProofs(version')
    /\ version' = podVersion
    /\ merkleRoot' = PreUpgrade(version')

\* Pod may be several upgrades ahead of the contract.
UpgradeNext ==
    \/ Traffic
    \/ \E v \in Versions : v > podVersion /\ PodUpgrade(v)
    \/ RunUpgrade

UpgradeSpec == Init /\ [][UpgradeNext]_vars

-----------------------------------------------------------------------------

\* The proofs a claimant can get for a withdrawal whatever Byzantine validators do: honest
\* active ones sign it.
ProofsDue(h) ==
    LET honest == activeValidators \ Byzantine
    IN  {[type |-> "Certificate", signers |-> list] : list \in SeqOf(honest, Cardinality(honest))}
            \cup MerkleProofs(h)

\* The contract accepts one of them for the claim the withdrawal is for.
Claimable(h) ==
    \E t \in Tokens, p \in ProofsDue(h) :
        /\ TxHash(t, [amount |-> h.amount, to |-> h.to, suffix |-> h.suffix, proof |-> p]) = h
        /\ VerifyProof(p, h)

\* No upgrade, and no sequence of them, strands a withdrawal: until it is paid there is a proof
\* for it, unless the contract has yet to reach its version.
NeverStranded ==
    \A h \in withdrawals \ processedRequests :
        h.amount > 0 => Claimable(h) \/ h.version > version
=============================================================================
