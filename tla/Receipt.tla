------------------------------ MODULE Receipt ------------------------------
(***************************************************************************)
(* types/src/ledger/receipt.rs and log.rs: the leaves of a receipt and the *)
(* proofs the types crate makes of its logs.                               *)
(*                                                                         *)
(* A log is [address, topics, data].  A receipt holds the fields its hash  *)
(* covers; max_fee_per_gas, signer, to and contract_address are not among  *)
(* them, so a certificate says nothing of those.  Rust's panics are the    *)
(* value Panic.                                                            *)
(***************************************************************************)
EXTENDS MerkleTree

Panic == [panic |-> TRUE]

\* A log has the three fields its hash covers, and a receipt has a list of them.
IsLog(log) ==
    /\ log = [address |-> log.address, topics |-> log.topics, data |-> log.data]
    /\ log.topics \in Seq(Range(log.topics))

HasLogs(receipt) ==
    /\ receipt.logs \in Seq(Range(receipt.logs))
    /\ \A i \in DOMAIN receipt.logs : IsLog(receipt.logs[i])

HashLeaves(hash) == << <<"", hash>> >>

LogDataLeaves(log) ==
    Slice("topics", [j \in DOMAIN log.topics |-> HashLeaves(log.topics[j])])
        \o << <<"data", log.data>> >>

LogLeaves(log) == << <<"address", log.address>> >> \o Under("data", LogDataLeaves(log))

LogHash(log) == <<log.address, log.topics, log.data>>

LogHashes(receipt) == [i \in DOMAIN receipt.logs |-> HashLeaves(LogHash(receipt.logs[i]))]

ReceiptLeaves(receipt) ==
    << <<"status", receipt.status>>, <<"actual_gas_used", receipt.actual_gas_used>> >>
        \o Slice("logs", [i \in DOMAIN receipt.logs |-> LogLeaves(receipt.logs[i])])
        \o Slice("log_hashes", LogHashes(receipt))
        \o << <<"logs_root", receipt.logs_root>>, <<"tx_hash", receipt.tx_hash>> >>
        \o Under("attested_tx", << <<"hash", receipt.attested_tx.hash>>,
                                   <<"committee_epoch", receipt.attested_tx.committee_epoch>> >>)

ToMerkleTree(leaves) == StandardTree(Hashed(leaves))

\* logs.to_merkle_tree().root(), what receipts carry as logs_root.
LogsRoot(logs) == Root(NewTree(Hashed(Slice("", [i \in DOMAIN logs |-> LogLeaves(logs[i])]))))

ReceiptHash(receipt) == Root(NewTree(Hashed(ReceiptLeaves(receipt))))

-----------------------------------------------------------------------------
\* Log indices count from 0.
HasLog(receipt, index) == index + 1 \in DOMAIN receipt.logs

LogHashLeaf(index, log) == HashLeaf(IndexPrefix("log_hashes", index), LogHash(log))

\* Mutant of GenerateProofForLogHash: the log is looked up by its content.
GenerateProofForLogHashByContent(receipt, index) ==
    LET first == CHOOSE k \in DOMAIN receipt.logs :
                     /\ receipt.logs[k] = receipt.logs[index + 1]
                     /\ \A i \in 1..(k - 1) : receipt.logs[i] # receipt.logs[index + 1]
    IN IF HasLog(receipt, index)
       THEN GenerateProof(ToMerkleTree(ReceiptLeaves(receipt)),
                          LogHashLeaf(first - 1, receipt.logs[first]))
       ELSE None

GenerateProofForLogHash(receipt, index) ==
    IF HasLog(receipt, index)
    THEN GenerateProof(ToMerkleTree(ReceiptLeaves(receipt)),
                       LogHashLeaf(index, receipt.logs[index + 1]))
    ELSE None

\* Merkleizable::generate_multi_proof, once the leaves have their paths.
MultiProofOf(receipt, leaves) ==
    LET proof == GenerateMultiProof(ToMerkleTree(ReceiptLeaves(receipt)), Hashed(leaves))
    IN IF proof = None THEN None ELSE [leaves |-> Hashed(leaves), proof |-> proof]

GenerateMultiProofForLog(receipt, index) ==
    IF HasLog(receipt, index)
    THEN MultiProofOf(receipt, Under(IndexPrefix("logs", index), LogLeaves(receipt.logs[index + 1])))
    ELSE Panic

Expect(option) == IF option = None THEN Panic ELSE option

GenerateMultiProofForLogs(receipt) ==
    Expect(MultiProofOf(receipt, Slice("logs", [i \in DOMAIN receipt.logs |-> LogLeaves(receipt.logs[i])])))

\* A vector names its own items "[0]", "[1]", so that the prefix is joined to them
\* with a dot.
GenerateMultiProofForLogHashes(receipt) ==
    Expect(MultiProofOf(receipt, Under("log_hashes", Slice("", LogHashes(receipt)))))

Proves(root, multi) ==
    multi \notin {None, Panic} /\ VerifyMultiProof(root, multi.leaves, multi.proof)
=============================================================================
