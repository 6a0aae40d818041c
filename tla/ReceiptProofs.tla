--------------------------- MODULE ReceiptProofs ---------------------------
(***************************************************************************)
(* A transaction emits logs one after the other; then a reader of the      *)
(* receipt asks for a proof of some of its leaves, in any order.           *)
(***************************************************************************)
EXTENDS Receipt

CONSTANTS
    Logs,       \* the logs a transaction may emit
    MaxLogs,    \* bound: logs of the receipt
    MaxAsked    \* bound: leaves asked for

ASSUME ReceiptProofsAssumption ==
    MaxLogs \in Nat /\ MaxAsked \in Nat /\ \A log \in Logs : IsLog(log)

VARIABLES
    receipt,    \* the receipt, with the logs emitted so far
    asked       \* the hashed leaves asked for so far

proofVars == <<receipt, asked>>

WithLogs(logs) ==
    [status |-> TRUE, actual_gas_used |-> 1, logs |-> logs, logs_root |-> LogsRoot(logs),
     tx_hash |-> "tx", attested_tx |-> [hash |-> "tx", committee_epoch |-> 0]]

\* Every leaf has a name of its own: fields by their names, items by their indices.
ASSUME NamesAssumption ==
    \A logs \in SeqOf(Logs, MaxLogs) :
        LET leaves == ReceiptLeaves(WithLogs(logs))
        IN IsInjective([k \in DOMAIN leaves |-> leaves[k][1]])

ProofsInit == receipt = WithLogs(<<>>) /\ asked = <<>>

EmitLog(log) ==
    /\ Len(receipt.logs) < MaxLogs
    /\ asked = <<>>
    /\ receipt' = WithLogs(Append(receipt.logs, log))
    /\ UNCHANGED asked

Leaves == Hashed(ReceiptLeaves(receipt))

\* The same leaf may be asked for twice.
Ask(k) ==
    /\ Len(asked) < MaxAsked
    /\ asked' = Append(asked, Leaves[k])
    /\ UNCHANGED receipt

ProofsNext ==
    \/ \E log \in Logs : EmitLog(log)
    \/ \E k \in DOMAIN Leaves : Ask(k)

ProofsSpec == ProofsInit /\ [][ProofsNext]_proofVars

-----------------------------------------------------------------------------
Tree  == StandardTree(Leaves)
Proof == GenerateMultiProof(Tree, asked)

Place(leaf) == Max({k \in DOMAIN Leaves : Leaves[k] = leaf})

InLeafOrder == \A i, j \in DOMAIN asked : i < j => Place(asked[i]) < Place(asked[j])

\* Leaves asked for in the order of the receipt always have a multi-proof that the
\* verifier accepts, for every number of leaves, alone, neighbours or far apart;
\* and each of them has a proof of its own.
ProofsComplete ==
    /\ InLeafOrder => VerifyMultiProof(Root(Tree.tree), asked, Proof)
    /\ \A k \in DOMAIN asked :
           VerifyProof(Root(Tree.tree), asked[k], GenerateProof(Tree, asked[k]))

\* Whatever the order, a multi-proof the verifier accepts is accepted for no other
\* leaf in the place of one of those asked for, be it of the same receipt or not.
Foreign == HashLeaf("logs[0].data.data", "nowhere")

ProofsBind ==
    \A k \in DOMAIN asked : \A leaf \in Range(Leaves) \cup {Foreign} :
        VerifyMultiProof(Root(Tree.tree), [asked EXCEPT ![k] = leaf], Proof)
            => leaf = asked[k]

\* The proofs the API makes for a log: the proof of an index is accepted for the log
\* at that index and no other log, the multi-proofs of one log and of all logs are
\* accepted, and equal logs of one receipt are told apart.
LogsProvable ==
    asked = <<>> =>
        /\ Proves(ReceiptHash(receipt), GenerateMultiProofForLogs(receipt))
        /\ \A index \in 0..(Len(receipt.logs) - 1) :
            /\ Proves(ReceiptHash(receipt), GenerateMultiProofForLog(receipt, index))
            /\ \A log \in Logs, i \in 0..(MaxLogs - 1) :
                VerifyProof(ReceiptHash(receipt), LogHashLeaf(i, log),
                            GenerateProofForLogHash(receipt, index))
                    <=> (i = index /\ log = receipt.logs[index + 1])

\* "Generates a multi proof for all log hashes in the receipt" (receipt.rs:58), for
\* every receipt: "log_hashes should exist" (receipt.rs:61).
LogHashesProvable ==
    Proves(ReceiptHash(receipt), GenerateMultiProofForLogHashes(receipt))
=============================================================================
