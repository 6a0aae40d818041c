------------------------------ MODULE MCBridge ------------------------------
(***************************************************************************)
(* Small instances of Bridge.  MCBridge.tla holds the parts the instances  *)
(* share; each .cfg picks the calls it exercises and silences the others   *)
(* with empty sets of callers or arguments.                                *)
(***************************************************************************)
EXTENDS Bridge

CONSTANTS usdc, weth, podUsd, podEth, alice, bob, relayer, admin, pauser, newBridge, market

ApprovedLedger(holders, funds) ==
    [t \in Tokens |->
       [balance   |-> [a \in Accounts |-> IF a \in holders THEN funds ELSE 0],
        allowance |-> [a \in Accounts |-> [s \in Spenders |-> IF a \in holders THEN MaxUint ELSE 0]],
        nonce     |-> [a \in Accounts |-> 0],
        paused    |-> FALSE]]

NoApprovals(l) ==
    [t \in Tokens |-> [l[t] EXCEPT !.allowance = [a \in Accounts |-> [s \in Spenders |-> 0]]]]

Config(min, dep, cl) == [minAmount |-> min, depositLimit |-> dep, claimLimit |-> cl]
Item(from, amount)   == [from |-> from, to |-> from, amount |-> amount]
Certificate(seq)     == [type |-> "Certificate", signers |-> seq]
Merkle(v)            == [type |-> "Merkle", version |-> v]
Withdrawal(amount, to, proof) == [amount |-> amount, to |-> to, suffix |-> "s", proof |-> proof]

\* Deposits and limits: two users with unlimited approvals, batches of one and
\* two, a limit that two deposits exhaust and one that disables the token.
FlowLedger  == ApprovedLedger({alice, bob}, 4)
FlowBatches == {<<Item(alice, 1), Item(bob, 2)>>, <<Item(bob, 1)>>}
FlowConfigs == {Config(1, 2, 2), Config(2, 3, 0)}
FlowClaims  == {<<Withdrawal(1, alice, Certificate(<<1>>))>>,
                <<Withdrawal(2, bob, Certificate(<<1>>)), Withdrawal(1, bob, Certificate(<<1>>))>>}

\* Permits: nobody starts with approvals; the
\* batches name the same owner twice, with a permit for each item or for some.
PermitLedger  == NoApprovals(ApprovedLedger({alice, bob}, 3))
PermitBatches == {<<Item(alice, 2), Item(alice, 1)>>, <<Item(alice, 1)>>}
PermitConfigs == {Config(1, 4, 0)}

\* Administration: a token, two candidate mirrors, validators {1, 2} and candidates 3 and 0, a
\* withdrawal of version 1 claimable by certificate and by Merkle proof, alone and twice in a
\* batch, and deposits of 1 and 2, alone and in a batch, that may call the market contract.
AdminLedger  == [t \in Tokens |->
    [ApprovedLedger({alice}, 3)[t] EXCEPT !.balance[BridgeAddress] = 2]]
AdminConfigs == {Config(1, 3, 2)}
AdminBatches == {<<Item(alice, 2), Item(alice, 1)>>}
AdminClaims  == {<<Withdrawal(1, alice, p)>> : p \in {Merkle(1), Certificate(<<1, 2>>), Certificate(<<2, 2>>)}}
                  \cup {<<Withdrawal(1, alice, Merkle(1)), Withdrawal(1, alice, Certificate(<<2>>))>>}
AdminRoots   == {{}, {ClaimTxHash(1, podUsd, 1, alice, "s")}}
AdminLists   == {<<>>, <<3>>, <<0>>, <<1, 3>>, <<1, 1>>}
=============================================================================
