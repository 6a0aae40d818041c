------------------------------ MODULE Replicas ------------------------------
(***************************************************************************)
(* The network that runs the contracts, external to this repository and    *)
(* modelled from doc/protocol/network-architecture and Quorum.sol.         *)
(*                                                                         *)
(* There is no order but that of each account.  A validator attests a call *)
(* whose nonce is the next one of its account, once for each nonce, if the *)
(* call's requirements hold in its own state at its own time.  Attestations *)
(* of n - f validators certify the call; then every replica executes it,   *)
(* whenever its account's earlier calls are done and the plain             *)
(* requirements hold, and what the call leaves to the quorum passes.       *)
(*                                                                         *)
(* The f faulty validators attest everything and are not modelled: honest  *)
(* validators certify alone with VotesNeeded = n - 2f attestations.        *)
(***************************************************************************)
EXTENDS ExampleContracts

CONSTANTS
    Validators,       \* the honest ones, each with its replica of the state
    VotesNeeded,
    Workloads         \* sets of [calls, horizon]: what users sign, and a bound of the clocks

ASSUME ReplicasAssumption ==
    /\ IsFiniteSet(Validators)
    /\ VotesNeeded \in Nat /\ 2 * VotesNeeded > Cardinality(Validators)

\* Accounts, choices and operations are known, nonces and timestamps natural; amounts have a sign.
IsCall(tx) ==
    /\ tx.from \in Users /\ tx.nonce \in Nat /\ tx.call \in CallNames
    /\ tx.call \in {"transfer", "transferNFT"} => tx.to \in Users
    /\ tx.call = "transfer" => tx.amount \in Int
    /\ tx.call = "timestamp" => tx.ts \in Nat
    /\ tx.call = "castVote" => tx.choice \in VoteChoices
    /\ tx.call = "add" => tx.cid \in Cids

ASSUME WorkloadsAssumption ==
    \A w \in Workloads :
        IsFiniteSet(w.calls) /\ (\A tx \in w.calls : IsCall(tx)) /\ w.horizon \in Nat

VARIABLES
    workload,
    clock,          \* validator |-> its time
    attested,       \* validator |-> the calls it has attested
    done,           \* validator |-> the calls its replica has executed
    storage,        \* validator |-> the contracts at its replica
    missed          \* history: calls nobody had attested when an execute was certified

vars == <<workload, clock, attested, done, storage, missed>>

Init ==
    /\ workload \in Workloads
    /\ clock = [v \in Validators |-> 0]
    /\ attested = [v \in Validators |-> {}]
    /\ done = [v \in Validators |-> {}]
    /\ storage = [v \in Validators |-> Genesis]
    /\ missed = {}

Attesters(tx)   == {v \in Validators : tx \in attested[v]}
Enough(S)       == Cardinality(S) >= VotesNeeded
IsCertified(tx) == Enough(Attesters(tx))

Expected(v, tx)  == Cardinality({t \in done[v] : t.from = tx.from}) = tx.nonce
Rivals(v, tx)    == {t \in attested[v] : t.from = tx.from /\ t.nonce = tx.nonce}

Closes(v, tx) ==
    tx.call = "execute" /\ ~IsCertified(tx) /\ Enough(Attesters(tx) \cup {v})

Attest(v, tx) ==
    /\ Expected(v, tx) /\ Rivals(v, tx) = {}
    /\ Valid(storage[v], tx) /\ Agreed(storage[v], clock[v], tx)
    /\ attested' = [attested EXCEPT ![v] = @ \cup {tx}]
    /\ missed' = IF Closes(v, tx)
                 THEN missed \cup {t \in workload.calls : Attesters(t) = {}} ELSE missed
    /\ UNCHANGED <<workload, clock, done, storage>>

Execute(v, tx) ==
    /\ IsCertified(tx)
    /\ Expected(v, tx) /\ Valid(storage[v], tx)
    /\ done' = [done EXCEPT ![v] = @ \cup {tx}]
    /\ storage' = [storage EXCEPT ![v] = Applied(@, tx)]
    /\ UNCHANGED <<workload, clock, attested, missed>>

\* The clocks of the validators move on independently.
Elapse(v) ==
    /\ clock[v] < workload.horizon
    /\ clock' = [clock EXCEPT ![v] = @ + 1]
    /\ UNCHANGED <<workload, attested, done, storage, missed>>

Next ==
    \E v \in Validators :
        \/ \E tx \in workload.calls : Attest(v, tx) \/ Execute(v, tx)
        \/ Elapse(v)

Spec == Init /\ [][Next]_vars

-----------------------------------------------------------------------------
Observable(s) == <<s.tokens, s.nft, s.notary, s.voting, s.registry.latest>>

\* Replicas that have executed the same calls, in whatever orders, show the same state:
\* the premise on which the contracts do without a total order.
Converged ==
    \A v, w \in Validators : done[v] = done[w] => Observable(storage[v]) = Observable(storage[w])

Certified == {tx \in workload.calls : IsCertified(tx)}

Mints(S)       == {tx \in S : tx.call = "mint"}
Received(u, S) == {tx \in S : tx.call = "transferNFT" /\ tx.to = u}
Gained(u, S)   == {tx \in Mints(S) : tx.from = u} \cup Received(u, S)
Lost(u, S)     == {tx \in S : tx.call = "transferNFT" /\ tx.from = u}

\* A token has one owner, when everything certified is counted, although validators check
\* the sender's balance at different moments and the owner may sign rival transfers.
OneOwner ==
    \A u \in Users : Cardinality(Gained(u, Certified)) - Cardinality(Lost(u, Certified)) \in {0, 1}

\* Once execute is certified, no vote can be that nobody had attested by then: the check of
\* the deadline is made by each validator alone, the vote and execute by overlapping quorums.
PollCloses == \A tx \in missed : tx.call = "castVote" => ~IsCertified(tx)

\* Of two operations that fork the history, the one signed with the stronger key prevails:
\* the weaker one is no part of the history of a replica that has executed both, whichever
\* came first ("the final state must be `UPDATE A`", PLCRegistry.sol:151).
StrongerKey(a, b) ==
    LET keys == Ops[Ops[a].prev].keys
    IN  Min(SignerIndices(a, keys)) < Min(SignerIndices(b, keys))

StrongestWins ==
    \A v \in Validators : \A s, t \in {tx \in done[v] : tx.call = "add"} :
        /\ ~Creates(s.cid) /\ Ops[s.cid].prev = Ops[t.cid].prev
        /\ StrongerKey(s.cid, t.cid)
        => t.cid \notin History[storage[v].registry.latest]
=============================================================================
