-------------------------- MODULE MCReceiptProofs --------------------------
(***************************************************************************)
(* Receipts of up to two logs with no topic, one and two.                  *)
(***************************************************************************)
EXTENDS ReceiptProofs

SomeLog(topics) == [address |-> "contract", topics |-> topics, data |-> "amount"]

MCLogs == {SomeLog(<<>>), SomeLog(<<"Transfer">>), SomeLog(<<"Transfer", "alice">>)}
=============================================================================
