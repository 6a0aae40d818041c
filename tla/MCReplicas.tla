----------------------------- MODULE MCReplicas -----------------------------
(***************************************************************************)
(* Four validators, one of them faulty; a workload for each contract.      *)
(***************************************************************************)
EXTENDS Replicas, TLC

CONSTANTS alice, bob, carol, NoOp, create, updateA, updateB, updateC, onB, onC, v1, v2, v3

Symmetry == Permutations(Validators)

Keys == <<"A", "B", "C">>
Op(prev, signer) == [prev |-> prev, keys |-> Keys, signer |-> signer]
MCOps == (create :> Op(NoOp, "B")) @@ (updateA :> Op(create, "A")) @@ (updateB :> Op(create, "B"))
           @@ (updateC :> Op(create, "C")) @@ (onB :> Op(updateB, "B")) @@ (onC :> Op(updateC, "A"))

Call(from, nonce, call)  == [from |-> from, nonce |-> nonce, call |-> call]
Pay(from, nonce, to, amount) == Call(from, nonce, "transfer") @@ [to |-> to, amount |-> amount]
Give(from, nonce, to)    == Call(from, nonce, "transferNFT") @@ [to |-> to]
Vote(from, nonce, choice) == Call(from, nonce, "castVote") @@ [choice |-> choice]
Notarize(from, ts)       == Call(from, 0, "timestamp") @@ [ts |-> ts]
Add(from, nonce, cid)    == Call(from, nonce, "add") @@ [cid |-> cid]

Workload(calls, horizon) == [calls |-> calls, horizon |-> horizon]

\* Alice spends her supply twice; a transfer of a negative amount is legal.
Payments == Workload({Pay(alice, 0, bob, 2), Pay(alice, 1, carol, 1),
                      Pay(bob, 0, carol, 1), Pay(carol, 0, alice, -1)}, 0)

\* The deployer signs rival transfers, and the receivers pass the token on.
Gifts == Workload({Call(alice, 0, "mint"), Give(alice, 1, bob), Give(alice, 1, carol),
                   Give(bob, 0, carol), Give(carol, 0, bob)}, 0)

Documents == Workload({Notarize(alice, 2), Notarize(bob, 1), Notarize(carol, 3)}, 2)

\* As in the client: the proposer executes.  Bob votes twice.
Poll == Workload({Call(alice, 0, "createProposal"), Call(alice, 1, "execute"),
                  Vote(bob, 0, 1), Vote(bob, 1, 2), Vote(carol, 0, 1)}, 2)

\* The forks the comments of PLCRegistry draw.
TwoForks   == Workload({Add(alice, 0, create), Add(alice, 1, updateA), Add(bob, 0, updateB),
                        Add(bob, 1, onB)}, 0)
ThreeForks == Workload({Add(alice, 0, create), Add(alice, 1, updateC), Add(bob, 0, updateB),
                        Add(carol, 0, onC)}, 0)

MCWorkloads == {Payments, Gifts, Documents, Poll, TwoForks, ThreeForks}

\* Two servers pass on the same update.
MCResubmitted == {Workload({Add(alice, 0, create), Add(alice, 1, updateA), Add(bob, 0, updateA),
                            Add(carol, 0, updateB)}, 0)}

\* The holder of key B signs two updates of one operation, the second of which is updateC.
MCTiedOps == [MCOps EXCEPT ![updateC].signer = "B"]
MCTied == {Workload({Add(alice, 0, create), Add(bob, 0, updateB), Add(carol, 0, updateC)}, 0)}

\* The deployer, who minted the token once, gets it back.
MCReturned == {Workload({Call(alice, 0, "mint"), Give(alice, 1, bob), Give(bob, 0, alice)}, 0)}
=============================================================================
