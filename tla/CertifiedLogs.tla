--------------------------- MODULE CertifiedLogs ---------------------------
(***************************************************************************)
(* types/src/ledger/log.rs: the VerifiableLog a client fetches, put        *)
(* together from the attestations of Certification and the receipts of     *)
(* Receipt, and the aggregate signature it hands to the contract of        *)
(* ProofLib.  The full node is not trusted: it may pair the attestations   *)
(* with any receipt, log and index.                                        *)
(***************************************************************************)
EXTENDS Receipt, Certification

\* A signature is over the root of the receipt's tree; Digest is a name for it.
ASSUME DigestAssumption ==
    \A r1, r2 \in Receipts : Digest[r1] = Digest[r2] <=> ReceiptHash(r1) = ReceiptHash(r2)

\* Every field of a receipt is hashed under a name of its own, so that receipts with the
\* same leaves are the same.
ASSUME ReceiptsAssumption ==
    /\ \A r \in Receipts : HasLogs(r)
    /\ \A r1, r2 \in Receipts :
         Range(Hashed(ReceiptLeaves(r1))) = Range(Hashed(ReceiptLeaves(r2))) => r1 = r2

\* Addresses are numbers, as ProofLib compares them.
ASSUME NumbersAssumption == Validators \subseteq Nat \ {0}

Chain == INSTANCE ProofLib

\* A fetched log: [log, log_index, receipt]; its signatures are those collected.
\* The index is an Option: <<>> or <<index>>.
GetLeaf(fetched) ==
    LogHashLeaf(IF fetched.log_index = <<>> THEN 0 ELSE fetched.log_index[1], fetched.log)

GenerateLogProof(fetched) ==
    IF fetched.log_index = <<>> THEN None
    ELSE GenerateProofForLogHash(fetched.receipt, fetched.log_index[1])

Fetched ==
    [log : UNION {Range(r.logs) : r \in Receipts}, log_index : {<<>>, <<0>>, <<1>>, <<2>>}, receipt : Receipts]

\* The log's own proof, checked with verify_proof against the hash of the receipt.
ProvesItself(fetched) ==
    LET proof == GenerateLogProof(fetched)
    IN proof # None /\ VerifyProof(ReceiptHash(fetched.receipt), GetLeaf(fetched), proof)

SelfProving == {fetched \in Fetched : ProvesItself(fetched)}

\* What a client relies on: a log that passes that proof, and verify.
Relied == {fetched \in SelfProving : Certified(Digest[fetched.receipt])}

-----------------------------------------------------------------------------
\* A set of numbers in their order, as ProofLib wants signers.
Ascends(s) == \A i, j \in DOMAIN s : i < j => s[i] < s[j]

Ascending(S) == CHOOSE s \in SetToSeqs(S) : Ascends(s)

-----------------------------------------------------------------------------
\* A log a client relies on was emitted, at that place of the same receipt, by an
\* execution of the transaction on an honest validator: neither the node nor faulty
\* validators can change, move or invent it, or change the status or another field
\* the hash covers.
ReliedWasEmitted ==
    \A fetched \in Relied :
        \E v \in Honest :
            /\ signed[v] = fetched.receipt
            /\ HasLog(signed[v], fetched.log_index[1])
            /\ signed[v].logs[fetched.log_index[1] + 1] = fetched.log

\* The committee of the SDK and the contract agree on aggregate signatures: one the
\* contract would accept passes the client, and one that passes the client can be
\* put in the order in which the contract accepts it.
ChainAgrees ==
    \A digest \in Digests :
        LET signers    == [i \in DOMAIN collected |-> Recover(collected[i], digest)]
            recovered  == RecoveredSigners(TheCommittee, digest, collected)
            accepts(s) == Chain!SignaturesOK(s, Validators) /\ Chain!ComputeTxWeight(s) >= QuorumSize
        IN /\ accepts(signers) => Certified(digest)
           /\ Certified(digest) => accepts(Ascending(recovered))
=============================================================================
