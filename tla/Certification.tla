--------------------------- MODULE Certification ---------------------------
(***************************************************************************)
(* How a receipt comes to be certified.  The validators are not in this    *)
(* repository: an honest one executes the transaction, possibly with       *)
(* another outcome than its peers, since transactions are not ordered, and *)
(* signs the one receipt it computed; a faulty one signs anything.  A full *)
(* node collects the signatures as they arrive, repeated ones and those of *)
(* strangers included, and a client checks them with Committee.            *)
(*                                                                         *)
(* An attestation also carries a timestamp and the name of its validator.  *)
(* No signature covers them and verify looks at neither, so that they are  *)
(* the node's word only and are left out.                                  *)
(***************************************************************************)
EXTENDS Committee

CONSTANTS
    Validators, Faulty,   \* the committee and its Byzantine members
    QuorumSize,
    Receipts,             \* what a transaction may result in
    Unsigned,             \* stands for no receipt
    Digest,               \* the hash of a receipt
    MaxAttestations       \* bound: signatures collected

\* Two quorums share an honest validator; a quorum keeps an honest majority.
ASSUME CertificationAssumption ==
    /\ IsFiniteSet(Validators) /\ Faulty \subseteq Validators
    /\ NoAddress \notin Validators /\ Unsigned \notin Receipts
    /\ QuorumSize \in Nat /\ QuorumSize > 2 * Cardinality(Faulty)
    /\ 2 * QuorumSize > Cardinality(Validators) + Cardinality(Faulty)

VARIABLES
    signed,      \* the receipt each honest validator computed and signed
    collected    \* the signatures the full node holds, in order of arrival

certificationVars == <<signed, collected>>

Honest == Validators \ Faulty

TheCommittee == [validators |-> Validators, quorum_size |-> QuorumSize]

Digests == {Digest[receipt] : receipt \in Receipts}

Signature(signer, receipt) == [signer |-> signer, digest |-> Digest[receipt]]

CertificationInit ==
    /\ signed = [v \in Honest |-> Unsigned]
    /\ collected = <<>>

Collect(signature) ==
    /\ Len(collected) < MaxAttestations
    /\ collected' = Append(collected, signature)

Attest(v, receipt) ==
    /\ signed[v] = Unsigned
    /\ Collect(Signature(v, receipt))
    /\ signed' = [signed EXCEPT ![v] = receipt]

AttestFaulty(v, receipt) ==
    /\ Collect(Signature(v, receipt))
    /\ UNCHANGED signed

\* Someone outside the committee, or a signature that recovers to no address.
AttestStranger(receipt) ==
    /\ Collect(Signature(NoAddress, receipt))
    /\ UNCHANGED signed

Redeliver(i) ==
    /\ Collect(collected[i])
    /\ UNCHANGED signed

CertificationNext ==
    \/ \E receipt \in Receipts :
        \/ \E v \in Honest : Attest(v, receipt)
        \/ \E v \in Faulty : AttestFaulty(v, receipt)
        \/ AttestStranger(receipt)
    \/ \E i \in DOMAIN collected : Redeliver(i)

CertificationSpec == CertificationInit /\ [][CertificationNext]_certificationVars

-----------------------------------------------------------------------------
\* VerifiableLog::verify: the receipt with this hash is certified.
Certified(digest) == VerifyAggregateAttestation(TheCommittee, digest, collected)

\* What honest validators signed is what they computed; the inductive invariant.
HonestSignatures ==
    \A i \in DOMAIN collected :
        collected[i].signer \in Honest =>
            LET v == collected[i].signer
            IN signed[v] # Unsigned /\ collected[i].digest = Digest[signed[v]]

CertificationTypeOK ==
    /\ signed \in [Honest -> Receipts \cup {Unsigned}]
    /\ collected \in Seq([signer : Validators \cup {NoAddress}, digest : Digests])

\* A transaction has one certified outcome: whatever the faulty validators sign and
\* the node repeats, no two receipts with different hashes pass VerifiableLog::verify.
OneOutcome ==
    \A digest1, digest2 \in Digests :
        Certified(digest1) /\ Certified(digest2) => digest1 = digest2

\* A certified receipt has the hash of one that an honest validator computed.
CertifiedWasComputed ==
    \A digest \in Digests : Certified(digest) =>
        \E v \in Honest : signed[v] # Unsigned /\ Digest[signed[v]] = digest
=============================================================================
