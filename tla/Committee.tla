----------------------------- MODULE Committee -----------------------------
(***************************************************************************)
(* types/src/consensus/committee.rs: when a set of signatures certifies a  *)
(* digest.                                                                 *)
(*                                                                         *)
(* A committee is [validators, quorum_size].  A signature remembers who    *)
(* made it and for which digest; recovered against another digest it gives *)
(* no address of the committee, for which NoAddress stands, as it does for *)
(* a signature that cannot be recovered at all.                            *)
(***************************************************************************)
EXTENDS Integers, Sequences, FiniteSets

CONSTANT NoAddress

Recover(signature, digest) ==
    IF signature.digest = digest THEN signature.signer ELSE NoAddress

FaultTolerance(committee) == Cardinality(committee.validators) - committee.quorum_size

RecoveredSigners(committee, digest, signatures) ==
    {Recover(signatures[i], digest) : i \in DOMAIN signatures} \cap committee.validators

\* Mutant of VerifyAggregateAttestation: it counts signatures, not signers.
VerifyAggregateAttestationCounting(committee, digest, signatures) ==
    Cardinality({i \in DOMAIN signatures :
                    Recover(signatures[i], digest) \in committee.validators})
        >= committee.quorum_size

\* Mutant of VerifyAggregateAttestation: outsiders count.
VerifyAggregateAttestationOpen(committee, digest, signatures) ==
    Cardinality({Recover(signatures[i], digest) : i \in DOMAIN signatures})
        >= committee.quorum_size

\* Mutant of VerifyAggregateAttestation: f_plus_one in the place of the quorum.
VerifyAggregateAttestationWeak(committee, digest, signatures) ==
    Cardinality(RecoveredSigners(committee, digest, signatures)) > FaultTolerance(committee)

VerifyAggregateAttestation(committee, digest, signatures) ==
    /\ Len(signatures) >= committee.quorum_size
    /\ Cardinality(RecoveredSigners(committee, digest, signatures)) >= committee.quorum_size
=============================================================================
