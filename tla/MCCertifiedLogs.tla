-------------------------- MODULE MCCertifiedLogs --------------------------
(***************************************************************************)
(* Four validators, one of them faulty, and a transaction that may emit    *)
(* the same log twice, another log instead, or fail.                       *)
(***************************************************************************)
EXTENDS CertifiedLogs

Paid(amount) == [address |-> "token", topics |-> <<"Transfer">>, data |-> amount]

MCReceipt(status, logs) ==
    [status |-> status, actual_gas_used |-> 1, logs |-> logs, logs_root |-> LogsRoot(logs),
     tx_hash |-> "tx", attested_tx |-> [hash |-> "tx", committee_epoch |-> 0]]

MCReceipts == {MCReceipt(TRUE, <<Paid("1"), Paid("1")>>), MCReceipt(FALSE, <<Paid("2"), Paid("1")>>)}

\* The two logs of each receipt are those that prove themselves.
ASSUME SelfProvingAssumption == Cardinality(SelfProving) = 4

MCDigest == [receipt \in MCReceipts |-> IF receipt.status THEN 1 ELSE 2]
=============================================================================
