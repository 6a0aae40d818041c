------------------------------ MODULE ProofLib ------------------------------
(***************************************************************************)
(* protocol/src/lib/ProofLib.sol: what makes a claim's proof valid.        *)
(*                                                                         *)
(* An aggregate signature is the list of the validators that recoverSignerAt *)
(* recovers from it; addresses are positive integers, so that they are     *)
(* ordered as the contract orders them, and 0 is address(0).  A Merkle     *)
(* root is the set of the leaves it commits to, {} is bytes32(0), and a    *)
(* Merkle proof verifies iff its leaf is one of them.                      *)
(***************************************************************************)
EXTENDS Integers, Sequences

ZeroAddress == 0

\* Mutant of SignaturesOK: a signer may repeat.
SignaturesOKRepeated(signers, activeValidators) ==
    \A i \in DOMAIN signers :
        /\ signers[i] >= (IF i = 1 THEN ZeroAddress ELSE signers[i - 1])
        /\ signers[i] \in activeValidators

\* The loop of computeTxWeight: signers strictly ascend from address(0) and
\* every one is an active validator; otherwise it reverts.
SignaturesOK(signers, activeValidators) ==
    \A i \in DOMAIN signers :
        /\ signers[i] > (IF i = 1 THEN ZeroAddress ELSE signers[i - 1])
        /\ signers[i] \in activeValidators

ComputeTxWeight(signers) == Len(signers)

VerifyMerkleProof(txHash, merkleRoot) == txHash \in merkleRoot
=============================================================================
