------------------------------- MODULE Escrow -------------------------------
(***************************************************************************)
(* What a waiting list promises: every deposit it has taken is held until  *)
(* it leaves exactly once, either bridged or refunded, and takes its own   *)
(* tokens with it and no others.  Anybody may send it tokens it does not   *)
(* owe to anyone.                                                          *)
(***************************************************************************)
EXTENDS Naturals, Functions

CONSTANTS Ids, Tokens, Amounts, NoTerms

VARIABLES
    status,     \* id |-> "unused", "waiting", "bridged" or "refunded"
    terms,      \* id |-> [token, amount] of the deposit, fixed when it is taken
    held        \* token |-> amount in custody

escrowVars == <<status, terms, held>>

Value(t, ids) ==
    SumFunctionOnSet([i \in ids |-> terms[i].amount], {i \in ids : terms[i].token = t})

EscrowInit ==
    /\ status = [i \in Ids |-> "unused"]
    /\ terms = [i \in Ids |-> NoTerms]
    /\ held \in [Tokens -> Nat]

Take(i, t, amount) ==
    /\ status[i] = "unused"
    /\ status' = [status EXCEPT ![i] = "waiting"]
    /\ terms' = [terms EXCEPT ![i] = [token |-> t, amount |-> amount]]
    /\ held' = [held EXCEPT ![t] = @ + amount]

\* Deposits leave in batches of one token when they are bridged, one by one
\* when they are refunded.
Leave(ids, outcome) ==
    /\ \A i \in ids : status[i] = "waiting"
    /\ status' = [i \in Ids |-> IF i \in ids THEN outcome ELSE status[i]]
    /\ held' = [t \in Tokens |-> held[t] - Value(t, ids)]
    /\ UNCHANGED terms

\* Somebody sends tokens.
Receive ==
    /\ held' \in [Tokens -> Nat]
    /\ \A t \in Tokens : held'[t] >= held[t]
    /\ UNCHANGED <<status, terms>>

EscrowNext ==
    \/ \E i \in Ids, t \in Tokens, amount \in Amounts : Take(i, t, amount)
    \/ \E ids \in SUBSET {i \in Ids : status[i] = "waiting"} : Leave(ids, "bridged")
    \/ \E i \in Ids : Leave({i}, "refunded")
    \/ Receive

EscrowSpec == EscrowInit /\ [][EscrowNext]_escrowVars

\* The tokens in custody cover the deposits still waiting.
EscrowSolvent ==
    \A t \in Tokens : held[t] >= Value(t, {i \in Ids : status[i] = "waiting"})
=============================================================================
