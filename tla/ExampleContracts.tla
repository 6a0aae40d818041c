-------------------------- MODULE ExampleContracts --------------------------
(***************************************************************************)
(* The example contracts as one program that every replica runs: for each  *)
(* call what it requires of the replica (require), what it leaves to the   *)
(* quorum (requireQuorum, and the requireTime... of Time.sol) and the      *)
(* state it leaves.                                                        *)
(*                                                                         *)
(* A call is a record with its sender and nonce, the contract, the         *)
(* function and the arguments the function looks at.                       *)
(***************************************************************************)
EXTENDS PLCRegistry

CONSTANTS
    Users, Deployer,
    Supply,           \* of Tokens, held by its deployer
    VoteChoices,          \* what can be voted for
    Deadline          \* of the proposal; Notary timestamps are arguments

ASSUME ContractsAssumption == Supply \in Nat /\ Deadline \in Nat

CallNames == {"transfer", "transferNFT", "mint", "timestamp", "createProposal", "castVote",
              "execute", "add"}

\* Storage of all contracts.  Tokens and NFTs (one token) keep signed balances; Notary has
\* one document; Voting one proposal, in which every user may vote.
Genesis ==
    [tokens   |-> [u \in Users |-> IF u = Deployer THEN Supply ELSE 0],
     nft      |-> [u \in Users |-> 0],
     notary   |-> 0,
     voting   |-> [deadline |-> 0, threshold |-> 0, hasVoted |-> {},
                   voteCount |-> [c \in VoteChoices |-> 0], executed |-> FALSE],
     registry |-> EmptyRegistry]

Moved(balances, tx, amount) ==
    LET paid == [balances EXCEPT ![tx.from] = @ - amount]
    IN  [paid EXCEPT ![tx.to] = @ + amount]

-----------------------------------------------------------------------------
\* requireTimeBefore and requireTimeAfter

Before(time, ts) == time < ts

\* Mutant of After: the deadline is not waited for.
AfterAlways(time, ts) == TRUE

After(time, ts) == time > ts

\* Mutant of Timestamped: the first timestamp stays.
TimestampedFirst(known, ts) == IF known = 0 THEN ts ELSE known

\* Notary.timestamp keeps the smallest timestamp.
Timestamped(known, ts) == IF known = 0 \/ ts < known THEN ts ELSE known

\* Mutant of OwnsToken: ownership is not checked.
OwnsTokenUnchecked(balances, owner) == TRUE

OwnsToken(balances, owner) == balances[owner] = 1

Created(v)         == v.deadline # 0
NotVoted(v, voter) == voter \notin v.hasVoted

\* execute: the threshold is the one in storage, which createProposal leaves at zero.
EnoughVotes(v) == v.voteCount[1] >= v.threshold

\* What a call requires of the replica that runs it.
Valid(s, tx) ==
    CASE tx.call = "transfer"       -> TRUE
      [] tx.call = "transferNFT"    -> TRUE
      [] tx.call = "mint"           -> tx.from = Deployer
      [] tx.call = "timestamp"      -> TRUE
      [] tx.call = "createProposal" -> ~Created(s.voting)
      [] tx.call = "castVote"       -> Created(s.voting) /\ NotVoted(s.voting, tx.from)
      [] tx.call = "execute"        -> ~s.voting.executed
      [] tx.call = "add"            -> AddValid(s.registry, tx.cid)

\* What it leaves to the quorum, at a replica whose clock shows time.
Agreed(s, time, tx) ==
    CASE tx.call = "transfer"       -> s.tokens[tx.from] >= tx.amount
      [] tx.call = "transferNFT"    -> OwnsToken(s.nft, tx.from)
      [] tx.call = "mint"           -> TRUE
      [] tx.call = "timestamp"      -> Before(time, tx.ts)
      [] tx.call = "createProposal" -> Before(time, Deadline)
      [] tx.call = "castVote"       -> Before(time, s.voting.deadline)
      [] tx.call = "execute"        -> After(time, s.voting.deadline) /\ EnoughVotes(s.voting)
      [] tx.call = "add"            -> AddAgreed(s.registry, tx.cid)

\* What it leaves.
Applied(s, tx) ==
    CASE tx.call = "transfer"       -> [s EXCEPT !.tokens = Moved(@, tx, tx.amount)]
      [] tx.call = "transferNFT"    -> [s EXCEPT !.nft = Moved(@, tx, 1)]
      [] tx.call = "mint"           -> [s EXCEPT !.nft[tx.from] = 1]
      [] tx.call = "timestamp"      -> [s EXCEPT !.notary = Timestamped(@, tx.ts)]
      [] tx.call = "createProposal" -> [s EXCEPT !.voting.deadline = Deadline]
      [] tx.call = "castVote"       -> [s EXCEPT !.voting.hasVoted = @ \cup {tx.from},
                                                 !.voting.voteCount[tx.choice] = @ + 1]
      [] tx.call = "execute"        -> [s EXCEPT !.voting.executed = TRUE]
      [] tx.call = "add"            -> [s EXCEPT !.registry = Added(@, tx.cid)]
=============================================================================
