# Verification of pod-sdk

TLA+ modules, TLC configurations and TLAPS proofs for the programs of this
repository. The centre is the native bridge, the contracts under `protocol/`
that hold users' tokens: what they must never do is checked on small instances,
and for the properties that matter most proved for every instance.

## 1. The system

| Component | Source | State | Operations | Modelled in |
|---|---|---|---|---|
| Daily rate limiter | `protocol/src/Bridge.sol` `_checkInLimits` | `consumed`, `lastUpdated` per token and direction | charge, reconfigure | `TokenUsage`, `RateLimit`, `RateLimitWindow` |
| Bridge contract | `protocol/src/Bridge.sol` | contract state, deposit counter, validator set, version, Merkle root, token table, processed claims, call whitelist | deposit, batchDeposit, claim, batchClaim, whiteListToken, configureToken, updateValidatorConfig, setState, migrate, transferTokensToMigrated, setCallContractWhitelist | `Bridge` |
| Proof verification | `protocol/src/lib/ProofLib.sol` | none | computeTxWeight, verifyMerkleProof | `ProofLib` |
| Wrapped token | `protocol/src/WrappedToken.sol` and OpenZeppelin | balances, allowances, nonces, pause switch | transfer, approve, permit, mint, burn, pause, unpause | `WrappedToken` |
| Deposit waiting list | `protocol/src/DepositWaitingList.sol` | one hash per pending deposit, next id | deposit, applyDeposits, withdraw, approveToken | `DepositWaitingList`, `Escrow`, `WaitingListLiveness` |
| Pod's side of the bridge | not in the repository; `doc/protocol/native-bridge.md` | balances, credited deposits, executed withdrawals, signatures | credit, withdraw, sign, upgrade | `NativeBridge` (external) |
| Network upgrades | `protocol/script/UpdateBridgeValidatorConfig.s.sol` | none | run: exchange validators, raise the version, commit a root | `Upgrades` |
| Committee and certificates | `types/src/consensus/` | validators, quorum size | verify_certificate, verify_aggregate_attestation; verify_attestation | `Committee`, `Certification`, but for the last (section 5) |
| Merkle trees | `types/src/cryptography/merkle_tree.rs` | none | build, prove, verify, multi-proofs, paths of leaves | `MerkleTree` |
| Receipts and verifiable logs | `types/src/ledger/receipt.rs`, `log.rs` | none | proofs of logs, verify, aggregate signature; confirmation time, sorting by timestamp | `Receipt`, `ReceiptProofs`, `CertifiedLogs`, but for the last two (section 5) |
| Other ledger and RPC types | `types/src/ledger/transaction.rs`, `types/src/rpc`, `pagination.rs`, `time.rs` | none | conversions, filters, cursors | no: conversions without state |
| Rust provider and auction client | `rust-sdk/src` | none | wait_past_perfect_time, fetch_bids, submit_bid, pod_send_raw_transaction | `PastPerfectTime`, `Auction` |
| Auction watcher | `examples/auction` | processed transactions, highest bid | three tasks and a channel | `Auction` |
| TypeScript SDK for trading | `ts-sdk/src` | stores of markets, orders and positions, subscriptions, candles | REST queries, WebSocket subscriptions, order writes | no (section 5) |
| Solidity SDK | `solidity-sdk/src` | counters, balances, sets | increment, decrement, requireGte, requireQuorum, time checks | `ExampleContracts`, `Replicas` |
| Example contracts | `examples/{tokens,nfts,notary,voting}` | balances, a document, a proposal | transfer, mint, timestamp, createProposal, castVote, execute | `ExampleContracts` |
| PLC registry | `examples/bsky/contract` | operations, latest one, signer indices | add | `PLCRegistry` |
| Hash challenge, RankedFeed, Pi2, older Voting | `examples/hashchallenge`, `examples/solidity` | per contract | challenges, posts | no (section 5) |
| Other scripts | `protocol/deploy`, `protocol/script` | none | sequences of the calls above | as constants and assumptions |
| Generated bindings | `protocol/bindings`, `examples/*/bindings` | none | none | no: generated |

How they interact. A user deposits into the bridge, directly or through the
waiting list, which is a relayer of the bridge and calls `batchDeposit` as the
depositor. The bridge pulls the tokens with `transferFrom`, after trying an
optional permit, and emits a `Deposit` event; Pod's validators credit the
recipient. A withdrawal on Pod burns the tokens, validators sign its hash, and
anybody submits the signatures, or a Merkle proof against the root the admin
commits at an upgrade, to `claim`. Each deposit and each claim is charged to a
daily usage of its token.

On Pod itself there are no blocks. Validators execute transactions in whatever
order they receive them, each signs the receipt it computed, and a client that
holds a quorum of attestations of one receipt, checked by `Committee`, relies
on it; a Merkle proof ties a single log to the receipt's hash. Programs that
need to know that nothing more will happen before a deadline wait for the past
perfect time of a node. Contracts are written so that calls commute, and leave
what depends on time or on other accounts to the quorum (`requireQuorum`).

What is hard. Every contract call is atomic, so concurrency is the order of
transactions by mutually distrusting callers: users, relayers, claimants,
pausers, the admin, owners of permits, and whoever copies their transactions.
Calls fail as a whole, in the middle of a batch too. Time enters through
`block.timestamp`. Messages between the chains are delayed, reordered and
replayed, and a minority of validators signs anything. Off the chain, replicas
differ in their order of execution and in their clocks, nodes may be wrong or
late, and client tasks race each other. `PROJECT.json` lists
each of these hazards at its line, with the properties that answer it.

What makes each component correct:

* *Rate limiter*: no 24 hours see more than twice the limit; a legal amount is
  never shut out for good; batches do not change capacity.
* *Bridge*: ids, events, and tokens agree; no withdrawal is paid twice; the
  validator count is exact; a mirror token never changes; a stopped contract
  keeps its tokens until migration hands all of them over; migration is final.
* *Token*: a paused token stands still whoever is asked to move it; a copied
  permit does not spoil the deposit it was made for.
* *Waiting list*: every deposit leaves exactly once, to the bridge with its
  original terms or to its depositor; the list covers all pending deposits;
  none waits for ever, and none is held back by what becomes of the bridge.
* *Certificates*: a transaction has one certified outcome; the SDK and the
  contract agree on what a quorum of signatures is.
* *Merkle proofs*: every leaf asked for has a proof, and no proof is accepted for
  another leaf; a log a client relies on was emitted, there, in that receipt.
* *Auction watcher*: its highest bid is the highest it received; it stops,
  however many bids keep coming.
* *Replicas*: those that executed the same calls agree; a token has one owner;
  a poll closes; the stronger key wins.
* *Both chains*: only executed withdrawals are paid; what the contracts hold is
  what Pod's accounts own plus what is in transit; no upgrade strands a
  withdrawal.

## 2. Modules

```
TokenUsage ── RateLimit ── RateLimitWindow          WrappedToken   ProofLib
     │            │  ├ MCRateLimitWindow                 │            ├ Lemmas
     │            │  └ RateLimitProofs                   │            │  (four of the
     └────────────┼───────────────────── Bridge ─────────┴────────────┤  proof modules)
                  └ (refined by) ───────┤  ├ MCBridge, BridgeProofs   │
                                        ├ DepositWaitingList ── (refines) Escrow
                                        │    ├ WaitingListProofs
                                        │    ├ MCDepositWaitingList   │
                                        │    └ WaitingListLiveness ── MCWaitingListLiveness
                                        └ NativeBridge ── Upgrades ── MCNativeBridge, NativeBridgeProofs
                                                                      │
MerkleTree ── Receipt ─┬─ ReceiptProofs ── MCReceiptProofs            │ (compared with)
                       └──────────┬──────── CertifiedLogs ── MCCertifiedLogs
Committee ── Certification ───────┘            └ CertificationProofs (and ReceiptProofs)

PastPerfectTime ── Auction ── MCAuction, AuctionProofs
PLCRegistry ── ExampleContracts ── Replicas ── MCReplicas, ReplicasProofs
```

**TokenUsage** is `_checkInLimits` as three operators on a usage record:
`Admits` (it does not revert), `Charged` (what it leaves), and `Rolls` (the
branch that starts a new period and carries the excess). **RateLimit** makes a
state machine of one flow of one token, **RateLimitWindow** adds an observer
who picks any window of 24 hours and sums what is admitted in it. The comment
in the code that "maxTotalAmount is set to half the desired limit" is the claim
`WindowBound`.

**Bridge** has a variable for each storage variable of the contract, with
`domainSeparator` folded into `version`, and three more: `now`, and the
histories `deposits` (the Deposit events) and `paid` (how often each hash was
paid). One action is one external call. A call that reverts changes nothing,
so an action's guard is "does not revert". `deposit` and `batchDeposit` share
`DepositRun`, a fold over the items that threads the usage and the token's
ledger through permit, limit check and transfer as the loop does; `claim` and
`batchClaim` share `ClaimRun`. The hash of a withdrawal is the tuple it hashes.
Validators are positive integers, ordered as addresses are, because ProofLib
asks for ascending signers.

**WrappedToken** is the token with its permits: an owner signs a permit, it
becomes public, and anybody may submit it. The contracts' `try permit catch` is
`TryPermit`.

**DepositWaitingList** extends Bridge: `applyDeposits` contains the whole
`batchDeposit`. A stored hash is the data it commits to. Relayers pair the id
of one event with the data of another, and repeat ids. Its `deposit` reads the
bridge's token table and whitelist as the code does. **Escrow** is what it
promises, without bridge, hashes or permits: what is taken leaves once and
takes its own tokens along, and anybody may send more (`Receive`), which is
owed to nobody.

**NativeBridge** adds Pod: external, modelled from what `claim` checks and from
`doc/protocol/native-bridge.md`. Honest validators sign executed withdrawals
only, a Byzantine one signs anything, claimants assemble any list of existing
signatures, and the admin replaces validators and moves the version within its
trust assumption.

**Upgrades** restricts the admin to the script that upgrades the network. Its
checks are the guards of `RunUpgrade`. What surrounds it is not in the repository:
the root is taken to be what its comment says, over all withdrawals of earlier
versions, and the script to run once Pod executes in the new version. The
property is the comment's "keeps pre-upgrade withdrawals claimable":
`NeverStranded` asks for a proof that `claim` accepts, a Merkle proof whose
version fits its four bytes or a certificate by honest validators alone.

**MerkleTree** builds the tree in the array of the code, so that proofs and
multi-proofs walk the same indices in the same order; a hash is the term it was
computed from, which makes equality of hashes collision freedom. **Receipt** is
the leaves of a receipt and the four proofs the API makes for logs, with the
paths under which leaves are looked up. **ReceiptProofs** lets a transaction
emit logs and a reader ask for leaves in any order, the same one twice included.

**Committee** has the checks of `committee.rs` on certificates; a signature is who made it and for which digest, or nobody's.
**Certification** is the network around it, external: honest validators sign the
one receipt they computed, possibly different ones; faulty ones sign all;
strangers sign, too; the node repeats what it has. The timestamp and the name
that an attestation carries beside its signature are left out: no signature
covers them, and `verify` looks at neither.
**CertifiedLogs** composes the two with ProofLib: what a client who checks a
`VerifiableLog` against a node it does not trust may conclude.

**PastPerfectTime** is the retry loop of `wait_past_perfect_time`: only the
answer "too far in the future" is retried, up to `MaxRetries` times, and every
other outcome returns success. **Auction** is the watcher of `examples/auction`
with its log task, deadline task and main loop, a bounded channel and `select!`.
The fetches of `AuctionClient` are queries of the log (`OfAuction`,
`OfDeadline`); whether a caller waits before asking is the caller's business.
Its bids are each the only one of their transaction (`AuctionAssumption`),
because the watcher tells them apart by the transaction.

**PLCRegistry** and **ExampleContracts** are pure: for each call what it requires
of the replica that runs it (`Valid`), what it leaves to the quorum (`Agreed`)
and the storage it leaves (`Applied`). **Replicas** runs them: validators attest
calls in nonce order, each by its own state and clock, and execute what is
certified in any order the nonces allow.

A comment "Mutant of X" in a module marks a variant of the definition X with a
plausible slip in the code. Nothing uses these variants; each one, put in the
place of X, makes a property fail, which shows that the property sees the slip.
`PROJECT.json` pairs them.

## 3. Runs

| Run | Question | Bounds |
|---|---|---|
| `rate_limit` | window bound, shut-out, splitting | day of 2 units over 0..6, amounts 0..5, limits 0..3: fill exactly, overflow by one, exceed twice the limit; windows at every start |
| `flows` | ids, events, tokens, limits; both flows refine RateLimit | 2 users, 3 deposits, claims of 1 to 3, time 0..3 with a day of 2: a full reset and a reconfiguration to a limit of zero |
| `permits` | copied permits; pause of the token | an owner with nonces up to 2 and two outstanding permits, batches of the same owner with and without permits, every call on the token |
| `admin` | validator set, replays, mirrors, reserves, stop, migration | validators 1 and 2, candidates 3 and 0, lists with repetitions, 2 versions, 2 mirrors, one withdrawal by certificate and Merkle proof, alone and in one batch, deposits of 1 and 2 with reserves 0 and 2 |
| `waiting_list` | solvency, leaves once, applied as deposited, refunds, always refundable, refines Escrow | 2 tokens, a called contract, reserves, a depositor with either of 2 recipients, 2 deposits, batches of 2 entries with any id and any data, bridge paused, token reconfigured and whitelist changed in between |
| `waiting_live` | every deposit leaves | 2 deposits, competitors without end, time without end |
| `two_chains` | forged claims, backing, proofs for what is unpaid, through upgrades and migration | 4 validators (1 Byzantine, 2 exchanged), resilience 1, certificates of up to 3 signatures, a deposit worth one withdrawal or two, 1 withdrawal, a successor contract; versions 1 to 5 of which 3 fit Merkle proofs: up to two upgrades pass a pending withdrawal by, the script refuses the third, Pod is up to four versions ahead |
| `receipt_proofs` | proofs and multi-proofs: complete, binding, for logs | receipts of up to 2 logs with 0 to 2 topics, equal logs included, up to 3 leaves asked for: trees of 6 to 16 leaves |
| `certified_logs` | what a relied-on log shows; SDK against contract; one certified outcome | 4 validators, 1 faulty, strangers, quorum 3, 2 receipts that differ in status and in a log, 6 signatures: room for two quorums |
| `auction` | the watcher's bid, its end | deadline 3, refusal beyond 1 ahead, 2 retries, failures; 3 of 4 bids in 2 auctions and 2 deadlines; a channel of 1; events repeated without end |
| `replicas` | convergence, ownership, deadlines, forks | 3 honest validators of which 2 certify (a fourth is faulty and attests all); one workload for each contract and two for the registry, of 3 to 5 calls each; clocks 0..2 |
| `log_hashes` | a statement of the code that it does not keep | as `receipt_proofs` |

Every bound is a constant or a guard named in the module (`MaxTime`,
`MaxDeposits`, `MaxNonce`, `MaxSupply`, `MaxWaiting`, `MaxApply`,
`MaxWithdrawals`, `MaxSigners`, `MaxClaims`, `MaxProofVersion`, `MaxLogs`, `MaxAsked`,
`MaxAttestations`, `MaxBids`, a workload's `horizon`). They are chosen so that the case
each property is about happens: the mutants of section 2 fail within the same
bounds. Deadlock is not an error in the runs with bounded counters: at the
bounds, or after migration, nothing more can be called. `waiting_live` has no
such end and checks it.

In `two_chains` the admin upgrades as the script does. `NativeBridge.cfg` (module
`MCNativeBridge`), kept beside the regular runs, checks `NoForgedClaim` and `Backed`
with any update of the network in its place, any root over withdrawals and any order
of versions, two deposits and a clock; it passes as well, and the theorems are about
this more general specification.

### What the violation shows

* `log_hashes`. `generate_multi_proof_for_log_hashes` "generates a multi proof
  for all log hashes in the receipt" and expects that they exist. It hands its
  list to `generate_multi_proof`, which joins a prefix and a name with a dot and
  names the items of a list `[0]`, `[1]`: it looks for `log_hashes.[0]`, where
  the receipt has `log_hashes[0]`. No leaf is found and the call panics, for
  every receipt with a log.

### Counterexamples kept beside the runs

Six configurations refute a statement and are not part of the regular runs.
TLC finds each of them in seconds.

* `WaitingListOversized.cfg` (module `MCDepositWaitingList`, property
  `LargerNeverApplied`). `protocol/spec/adr-001-deposit-waiting-list.md:27` says
  that a deposit above the daily limit can never be applied. The limiter admits
  up to what is left of the old period plus a full new limit, so after the limit
  has been lowered a deposit of up to twice the limit is applied a day later.
  Users gain by it: such a deposit is not stuck.
* `AuctionComplete.cfg` (module `MCAuction`, property `SetCompleteOnceReturned`).
  `doc/api-reference/guides/optimistic-auction.md:72` says that the bid set is
  complete once `pod_waitPastPerfectTime` returns. The SDK's
  `wait_past_perfect_time`, through which clients call it, returns success also
  when it runs out of retries.
  Waiting first does not make a fetch complete, then.
* `ReplicasResubmitted.cfg` (module `MCReplicas`, property `StrongestWins`). Two
  servers pass on the same PLC update. The second `add` finds no stronger key
  and records the signer index as `uint256(-1)`; after that a weaker key can
  fork past the update, against `PLCRegistry.sol:151`. In the regular run no
  operation is added twice.
* `ReplicasReturned.cfg` (module `MCReplicas`, property `Converged`). The minter
  of a token gives it away and gets it back. A replica that executes the return
  before `mint` (they are of different accounts, and the check of the balance is
  the quorum's) increments the minter's balance first and then loses that,
  because `NFTs.mint` (`NFTs.sol:32`) assigns 1 where it could add 1: on this
  replica nobody owns the token. In the regular run nothing is given back to
  the minter.
* `ReplicasTied.cfg` (module `MCReplicas`, property `Converged`). The holder of a
  rotation key signs two different updates of one operation. A fork has to be
  signed with a stronger key than what it nullifies, so whichever a replica
  executes first stays, and two replicas settle on different latest operations.
  Two operations that create the DID would do the same; the contract leaves it
  open to check that the DID is the hash of the one that does
  (`PLCRegistry.sol:166`).
* `UpgradesEarly.cfg` (module `MCNativeBridge`, property `NeverStranded`). The
  upgrade script runs while Pod still executes withdrawals in the old version. What
  is withdrawn after the root was computed is in no root, and its certificates are
  of a version that the contract has left. That Pod comes first is not written
  down in the repository; `Upgrades` assumes it.

### Other differences met while modelling

They need no run: reading the two places is enough.

* `doc/protocol/native-bridge.md:48` has the root of an upgrade cover "all pending
  claims from the previous version". That would strand a withdrawal that stays
  pending over two upgrades (the mutant `PreUpgradeOfPrevious` shows it). The
  script asks for all pre-upgrade claims.
* `Voting.createProposal` never stores its threshold, so `execute` needs no
  votes; before a proposal is created its deadline is zero, and `execute` passes.
* `Tokens.transfer` takes a signed amount, so a negative one moves tokens
  towards the sender; `Converged` includes it. Casting a balance to `int256` in
  `FastTypes` wraps for values from 2^255 on.
* For the same reason as in `ReplicasReturned.cfg`, minting a token again while
  it travels makes replicas differ. The workloads mint once.
* `generate_multi_proof_for_log` (`receipt.rs:66`) panics on an index without a
  log, where the comment of its caller (`log.rs:74`) promises `None`.
* `VerifiableLog::confirmation_time` takes the middle attestation in the order
  in which the node sent them, unsorted (`sort_attestations_by_timestamp` serves
  other methods), strangers and repetitions included, and its timestamp is not
  signed. It is what the node says; nothing can be promised of it.
* The voting client polls a task again after it has completed.

### Fairness

Two modules assume any. In `WaitingListLiveness` time passes (`WF_vars(TimePasses)`):
blocks keep coming. For each deposit, the relayer's attempt to apply it on its
own is strongly fair: direct depositors use up the limit between any two
attempts, so the attempt is enabled only now and then, and weak fairness is not
enough (with it, TLC finds competitors that empty every period first). Strong
fairness is what a relayer that retries and can get its transaction into a
block before competitors, some time, amounts to. No fairness is assumed of
depositors, competitors, or the admin, who leaves the contracts alone in this
module. Time runs for ever in finitely many states, because only the age of a
usage matters: at `MaxTime` the clock stays and the usages grow older.

In `Auction` the heartbeats of validators keep past perfection moving, the node
answers a request in the end, and sleeping ends (`WaitFairness`, weak: each
stays enabled until it happens). Delivery, the main loop's receive and its
deadline branch are weakly fair: tokio schedules ready tasks, and `select!`
picks a ready branch at random, so that the deadline is noticed although the
channel may always have a bid. Events may be repeated for ever, and the channel
then never runs dry: with a `biased` `select!` that takes bids first the
watcher would not end (the mutant `DeadlineReachedBiased`). Nothing makes
bidders bid, the node fail, or events repeat.

## 4. Proofs

The theorems hold for every value of the constants that satisfies the ASSUMEs
named below, the bounds included. Each inductive invariant was first an
invariant of a run.

### Lemmas

`Lemmas` has what the other proof modules share. The library's induction
theorems have an operator as a parameter, which the provers cannot instantiate,
so induction is done on sets: `UpTo` says that a set with 0, and with each
number before n the next one, holds all up to n, by its least counterexample;
`PartsInduction` says the same of the parts of a finite set. A statement is
proved by induction by proving it of the set of numbers, or of parts, for which
it holds. From these come

* the sums that models write with `SumFunctionOnSet`: `SumType`, `SumRemove`,
  `SumAdd`, `SumDisjoint`, `SumEqual`, `SumImage`; and `ChangesAdd`, that a
  quantity which changes by f[k] in step k has changed by the sum in the end;
* the loops that models write with `FoldLeft`: `LoopDefined` makes a loop a
  function from the number of iterations done to the state reached, and `LoopOk`
  says that one that did not revert in the end did not revert on the way;
* lists of signers: `ListCardinality`, `SignersAscend` (comparing neighbours
  makes the whole list ascend), and with them `SignersCounted`: the weight of an
  accepted list is a number of different active validators;
* the limiter: `ChargedUsage`, and `ChargeSplit`: two charges in one block are
  admitted and counted like one of their sum.

### Rate limiter

`RateLimitProofs` proves for every `Day > 0`, all limits, amounts and
timestamps:

* `WindowSafety`: at most twice the limit in any window. `WindowBound` is not
  inductive: before the window ends one must know how much of what was admitted
  is still in the counter. `WindowAccount` says it, by where the last reset
  lies: before the window (everything admitted is in the counter), inside it
  (at most one limit went before), or after it (the sum is final). With
  `UsageBounded` this is `WindowInv`, proved as `WindowInvariance` from
  `WindowInitial` and `WindowInductive`.
* `DayAdmits` and `SplitSafety`: from `UsageBounded` alone.

### Bridge

`BridgeProofs` proves every property the runs check of the bridge, for every
set of tokens, accounts, validators, batches of any length, and arguments. Four
need little: `ValidatorCountSafety` (`ReplacedCardinality`: replacing a subset
by new elements changes the cardinality by the two sizes), `PaidOnceSafety`
(`HashesFresh`: the hashes of a batch are fresh and pairwise different),
`DepositIdsSafety` (`DepositIdsInv` adds that the events are a list),
`MirrorFixedSafety` (`UnlistedInv`: `whiteListToken` looks at the minimum
amount, not at the mirror; that no minimum means no mirror makes its check
enough), and `MigrationIsFinal`, by cases on the calls.

The others are about tokens and rest on one argument, what a batch does.

* `DepositLoop` and `ClaimLoop` unfold the two loops, over states that need not
  even be well typed, because a loop of the model goes on after an iteration
  that reverts. `DepositStepEffect` and `ClaimStepEffect` say what one
  iteration does if it does not revert: it charges the usage, and moves the
  amount, whatever the permit did. `DepositRunEffect` and `ClaimRunEffect` add
  the iterations up: the batch is one charge of its total, and each balance has
  changed by a sum over the items.
* This holds of a ledger in which the bridge has given nobody an allowance:
  otherwise `transferFrom` could take the bridge's own tokens in the middle of a
  deposit. `BridgeInv` is that, with the types and the fact that permits are
  signed by users, none of whom is the bridge. `BridgeInvStep` shows it
  inductive; `DepositedEffect`, `ClaimedEffect`, `LedgersStep` and
  `MigratedEffect` say what the calls do to the ledgers.

From these: `BridgeTypeSafety`; `EventsFundedSafety` (events announce exactly
what was received, in a batch in which owners repeat, too); `StoppedHoldsSafety`;
`TokenPauseSafety`; `ReserveCoveredSafety`.

`DepositsRateLimitedSafety` and `ClaimsRateLimitedSafety` are the refinement of
`RateLimit` by each flow of each token: initial states map to initial states,
and `FlowSteps` maps every step to a charge of the batch's total, a
reconfiguration, the passing of time, or a stutter. The invariant `FlowInv`
adds that limits in force are zero or configured ones and that the clock is
within its bound. With `RateLimitProofs` they show what the limiter's properties
mean for the contract.

`FrontRunSafety` is `FrontRunTolerated`. Its invariant, `PermitsReached`, is
that no permit is outstanding for a nonce its owner has not reached; so the only
permit from its nonce on is still good, or has been used and left exactly the
allowance that `try permit catch` needs.

### Waiting list

`WaitingListProofs` proves all safety properties the runs check of the contract,
in the composition with the bridge.

* `WaitSteps` brings every step of the composition into one of five shapes: a
  deposit is taken, a set of pending deposits is applied together with the whole
  `batchDeposit`, one is refunded, the bridge is approved, or the bridge moves
  on its own and neither takes tokens from the list nor deposits in its name.
  The last one needs `WaitingAssumption`: the list signs no permit, and nobody
  else's batch names it.
* `ApplyLoop` and `GoodRun` unfold the loop of `applyDeposits` as above: what it
  has collected are pending deposits, each once, though the relayer may pass any
  ids and any data; a stored hash forces the data.
* `WaitInv` is `BridgeInv`, `DepositIdsInv`, the types of the list and that
  stored hashes are those of the deposits made. From it: `WaitingTypeSafety`,
  `GoneForGoodSafety`, and `SolventSafety`, in which `OwedIs` writes what is owed
  as `Worth` of the pending deposits, and each shape changes worth and balance
  by the same sum.
* `LeftInv` says of every id that has been used and is not pending that it is in
  exactly one of the two histories, once. From it `LeavesOnceSafety`,
  `RefundsDepositorSafety` (the refund is the deposit's own amount, to its own
  depositor) and `AppliedAsDepositedSafety`: the k-th Deposit event with the
  list as depositor (`Own`, `Rank`) is the k-th deposit applied, with its terms.
* `AlwaysRefundableSafety` says that what `withdraw` requires holds of every
  pending deposit whose token is not paused. With the types it is a corollary of
  `SolventSafety`: one deposit is worth no more than all of them together
  (`WorthPart`), which the list holds.
* `CustodyImplemented` is the refinement of `Escrow`, by the mapping `StatusOf`,
  `TermsOf` and `Held`: each shape is a step of the escrow (`TakenTakes`,
  `AppliedLeaves`, `RefundedLeaves`, `ReceivedReceives`) or stutters. `StatusIs`
  turns the mapping's order of tests into facts about ids and is where
  `LeftInv` comes in: an id bridged and refunded would have two statuses.

### Both chains

`NativeBridgeProofs` proves `NoForgedClaimSafety`. `NoForgedClaim` alone is not
inductive. `VouchersSound` says of everything that can make a claim valid,
signatures and roots, that it is for executed withdrawals or Byzantine;
`HonestQuorums` says that fewer active validators are Byzantine than a quorum
needs, with `ValidatorCountExact`, since the quorum is computed from the count.
A certificate that `VerifyProof` accepts then counts different active validators
(`SignersCounted`), one of which is honest (`HonestSigner`) and signed the hash
it is checked against (`AcceptedProof`). That no reconfiguration breaks
`HonestQuorums` is the trust in the admin that `UpdateNetwork` states.

`BackedSafety` says that for each mirror token `Locked` = `OnPod` + `Arriving` +
`Returning`: what is in the custody of the contract and its successor, the
balances on Pod, the deposits not yet credited, the withdrawals not yet paid.
Each is a `SumFunctionOnSet` over a set that grows and shrinks, and for each
there are lemmas on how a step changes it (`LockedMoves`, `OnPodMoves`,
`ArrivingDeposited`, `ArrivingCredited`, `ReturningWithdrawn`,
`ReturningClaimed`, ...). Each step then moves one amount from one sum to
another: a deposit the total of its batch (`CustodyDeposited`, `NewEvents`), a
claim that of its claims (`CustodyClaimed`; `NotProcessed` makes its hashes
pairwise different, so each leaves `Returning` once), a migration nothing, since
the successor is a custodian too. `BackingTypes` is what this needs beyond
`BridgeInv` and `DepositIdsInv`: a listed token is exactly one with a minimum
amount, nothing of an unlisted token is in custody (a listing then adds
nothing), credited ids are those of deposits, and what has been paid was
withdrawn. The last comes from `NoForgedClaim`, which `BackingInvStep` takes of
the next state: a forged claim is one that takes from custody what is not in
`Returning`.

`NeverStrandedSafety` says that whatever sequence of upgrades the script performs, a
withdrawal that is not paid has a proof the contract accepts, or the contract has
yet to reach its version. `WithdrawalsCovered` is the invariant: withdrawals are of
versions Pod has been in, the root holds those of versions the contract has left,
and their tokens are listed. The last is not a matter of course: Pod burns what an
account holds of a mirror, and that somebody listed a token for it follows from
`Backed` (`HeldIsListed`: without a token the sum locked would be zero).
`CoveredStays` is for all steps but the script's, and `UpgradeCovers` for that one.
For a withdrawal of the contract's own version `CertificateDue` finds a certificate:
by `HonestQuorums` the honest active validators are a quorum, and any finite set of
them can be brought into the ascending list the contract wants (`SignersListed`).
Upgrades are steps of the network (`UpgradeSteps`), so `NoForgedClaim` and `Backed`
hold with them (`UpgradesSafe`).

### Off the chain

`CertificationProofs` proves for every committee in which two quorums share an
honest validator (`CertificationAssumption`), and any signatures in any order:
`CertificationTypes`; `HonestSignaturesInvariance`, the inductive invariant that
an honest validator's signature is for the one receipt it computed; from it
`OneOutcomeSafety` (no two different receipts are certified) by intersection of
quorums and `CertifiedWasComputedSafety`.

It goes on to what a client concludes from a certificate and a proof.

* *Trees.* `IsTree` says what every place of the array holds: the leaves from the
  back, above them hashes of their children. The recursions of `NewTree`,
  `PathFrom` and of the folds are each unfolded once (`TreeDefined`,
  `PathsDefined`, `HashedAlong`), by building the function they choose up to a
  number. `PathToRoot` then gives `ProofExact` (the proof of a leaf is accepted
  for it alone), and the way down from the root `NoForgedProof`: a path of any
  length that leads from a named value to the root follows the tree, and cannot
  end in it above a leaf, because a pair does not hash as a leaf. With both,
  `SameRootSameLeaves`.
* `ReliedWasEmittedSafety`: the leaves of a receipt are a list
  (`ReceiptLeavesList`). The client takes the proof from the receipt it was
  given, at the index it was given, so by `ProofExact` the log it checks is the
  one there (`ProvesItsPlace`). The receipt has the hash of one that an honest
  validator computed, and receipts with the same hash are the same
  (`SameHashSameReceipt`, from `SameRootSameLeaves`).
* *Multi-proofs.* Prover and verifier both go through a queue of places: a step
  takes one place, or two siblings at the front, and appends their parent
  (`Onward`). The places get smaller in sum, which gives an induction over
  queues (`QueueInduction`); the recursions of `MultiProofFrom` and of the
  verifier's stack are unfolded with it (`WalkOf`, `StacksDefined`,
  `StacksShift`). `StepHashes` says what a step does to a list of hashes: those
  of the queue become those of the next queue, and a list that differs in one
  hash goes on differing in one. So at the end there is the root, or something
  else: `MultiProofComplete`, for leaves asked for in their order
  (`Descends`), and `MultiProofBinds`, for all lists of leaves. Neither says
  anything of a proof from elsewhere. `NoForgedMultiProof` does: going back from
  the root, everything joined is a hash of the tree (`PairInTree`), so each leaf
  shown is one of its leaves, whatever the flags.
* `ProofsCompleteSafety` and `ProofsBindSafety` apply them to the leaves of the
  receipt (`ProofsInvariance`: a reader asks for its leaves only).
* `LogsProvableSafety`: the leaves of a log, and those of all logs, follow each
  other in the leaves of the receipt (`SlicePlaced`), so their multi-proofs are
  of leaves in order (`SegmentProves`). That the proof of an index is accepted
  for no other index rests on the names of the leaves being different
  (`NamesDiffer`, `IndicesDiffer`).
* `ChainAgreesSafety`: what the contract accepts passes the committee
  (`ChainImpliesClient`), and the signers the committee recovers, in ascending
  order, which a finite set of numbers has (`AscendingDefined`), are a list the
  contract accepts, of the same weight.

`AuctionProofs` proves for every set of bids, capacity, deadline, horizon and
number of retries:

* `HighestSoFarSafety`, from `WatchInv`: a transaction that was processed has no
  higher bid than the one held, and every higher bid is undelivered or in the
  channel. It needs `AuctionAssumption`.

`ReplicasProofs` proves, for every workload of finitely many well-typed calls and
every network whose quorums share an honest validator (`ReplicasAssumption`):

* `NoncesUsedOnceSafety`: an account gets at most one call for each nonce
  certified, because a validator attests one (`OneForEachNonce`) and two quorums
  share a validator. It is why `requireQuorum` can check a balance at each
  replica on its own.
* `OneOwnerSafety`, for workloads that mint the token once. A replica executes an
  account's calls in the order of their nonces (`InOrder`), so that whoever
  attests a transfer has seen all earlier calls of the sender, and no other calls
  with these nonces are ever certified (`NoneBelow`). The balance it saw is
  bounded by gains less losses among what it executed (`BalancesBounded`), which
  needs that nothing moves before the mint (`NothingBeforeMint`, `MintFirst`),
  since `mint` assigns. So each certified transfer has one gain more than there
  are losses below its nonce (`TransfersCovered`); with the last transfer of each
  account that gives losses of at most the gains for every account, and with one
  mint, by counting over all accounts, gains of at most the losses plus one.
* `PollClosesSafety`, for workloads in which whoever executes a poll created it at
  an earlier nonce (`CreatedFirst`; without it `execute` passes at deadline zero).
  A quorum whose clocks are past the deadline attested `execute`, and none of
  them will attest another vote (`MissedStays`).
* `ContractsConvergedSafety`: the storage of Tokens, Notary and Voting is a function
  of the set of calls executed (`AsExecuted`), whatever their order, for every
  workload: balances are sums, ballots are counted, the notarized time is the
  least, which needs that nobody attests a timestamp of zero.
* `StrongestWinsSafety`, for workloads in which an update is submitted by one call
  (`AddedOnce`). Each step of a replica's history must be the strongest update of
  the operation before it that is stored there. That is not inductive: what
  decides whether a fork takes effect is the key index recorded for the update it
  would nullify. So `RegistryOK` adds that the history is stored down to its
  creation (`Rooted`), that the index recorded for each update in it is that of
  the strongest key that signed it (`SignersStored`), and that where an update that
  is stored follows an operation of the history, the history goes on with one no
  weaker (`NoneStronger`). `CreationKeeps` and `UpdateKeeps` show that each add
  keeps it. `AddedOnce` is needed because a second `add` overwrites the index
  (`ReplicasResubmitted.cfg`).
  The recursion of `History` is by `OpsAssumption` well founded: what an operation
  follows is in its history, the history is a chain (`HistoryIsChain`), and it is
  cut at one place by a fork (`HistoryContinues`, `NullifiedOne`).
* `ConvergedSafety`: `Converged` itself. For the three other contracts this is
  `ContractsConvergedSafety` for workloads that mint once and give nothing back
  to the minter (`ReplicasReturned.cfg` shows that this is needed). For the PLC
  registry it follows from `RegistryOK`: with one creation and with no two updates
  of an operation signed with one key (`ReplicasTied.cfg`) the strongest update of
  each operation is unique, so what is stored decides the history
  (`HistoryDecided`, by the first operation in which two histories would differ)
  and the latest operation (`LatestDecided`).

The runs' workloads satisfy all these conditions.

### Assumptions, and what is only model-checked

Assumptions are the named ASSUMEs of the modules, which TLC evaluates in the
runs. `BridgeAssumption`: accounts and arguments have their types; the bridge is
none of the accounts that call and sign, and starts without having approved
anybody, as a contract does; the initial validators are a finite set of nonzero
addresses, no fewer than the initial resilience; batches are not empty and name
accounts. `WaitingAssumption`: the list is a relayer of the bridge and a
contract, so it makes no call but its own, and nobody else's batch names it,
because `03_BridgeSetup.sol` grants the relayer role to it alone.
`NativeAssumption`: the Byzantine validators are fewer than a quorum at the
start; tokens and accounts are finitely many; the contract and its possible
successors start with no tokens and are no users, so that nobody's deposit comes
from, and nobody's withdrawal goes to, one of them; relayed deposits are for
accounts of Pod. `UpgradesAssumption`: versions are numbers, and the
contract is deployed with one that fits Merkle proofs. `CertificationAssumption` and `ReplicasAssumption`: quorums intersect in an
honest validator. `DigestAssumption`: what validators sign of a receipt names
the root of its tree, one name for each root, and roots are terms, so that hashes do
not collide. `ReceiptsAssumption`:
receipts have lists of logs, and receipts with the same hashed leaves are the
same, since every field is hashed under a name of its own.
`ReceiptProofsAssumption` and `NamesAssumption`: logs have an address, topics
and data, and no two leaves of a receipt have the same name (strings have no
theory here: that `"logs[0]"` and `"logs[1]"` differ is taken for granted, and
evaluated for the receipts of the runs).
`NumbersAssumption`: validators are positive numbers. `SelfProvingAssumption` of
`MCCertifiedLogs` says which logs of the run prove themselves, so that it is not
about none. `WorkloadsAssumption` and `ContractsAssumption`: calls have the
types of their arguments, and a workload is finite. `OpsAssumption`: the operation
that a PLC operation follows is one of the operations, and no set of them goes on
for ever or in a circle, since each names the hash of the one before it (the
contract trusts the caller for the hash, `PLCRegistry.sol:183`). `AuctionAssumption`: each bid has a transaction of its own.

Only model-checked: liveness (`waiting_live`, `auction`), which is out of reach of
the provers. Every invariant and every action property of a run is stated by a
theorem.

## 5. What is not modelled, and limits of what is

* Gas, reentrancy through a hostile token, and tokens that take a fee: tokens
  are `WrappedToken`s. `uint256` arithmetic is in `Nat`: the checked addition
  that would overflow reverts in the code and is beyond the model's amounts.
* Roles are constants; granting and revoking them, and replacing the
  implementation behind the proxy, are not modelled. The waiting list is
  assumed to be a relayer of the bridge (`protocol/deploy/03_BridgeSetup.sol`),
  and in its runs the only one: another relayer could deposit in its name.
* A waiting-list deposit of zero of a token the bridge does not know passes, as
  its minimum and limit are both zero; it holds nothing and cannot be applied.
  The models take positive amounts only.
* Permits have no deadline. An owner with two outstanding permits can find the
  allowance of one replaced by the other; `FrontRunTolerated` is stated for the
  only outstanding permit.
* A resilience equal to the number of validators makes the quorum zero. The
  contract accepts it; the two-chain model assumes more honest validators.
* `NativeBridge` has no calls of the tokens but the bridge's own, no call
  contracts, and withdrawals go to users. A transfer to the contract outside a
  deposit, or a withdrawal to the contract's own address, would leave more locked
  than is owed; `Backed` is stated as an equality without them.
* `NeverStranded` is about the proof of a withdrawal alone: a claim may still find
  the contract paused or migrated, the daily limit used up, or the amount below the
  minimum. It holds for the script's upgrades; the contract itself lets the admin
  commit any root and keep or lower the version.
* The timestamps of attestations, with `verify_attestation`, `confirmation_time` and
  the sorting by timestamp: what they say is the node's word (section 3). Neither is
  anything said of when a caller of `fetch_bids_for_deadline` asks.
* `ts-sdk` is a client of an indexer that is not in the repository: stores that REST
  queries seed and one WebSocket keeps current, candle series, order writes. What
  its reconnects and its merging of snapshots with updates may lose is not modelled.
* `pod_send_raw_transaction` classifies the answers of a server, for callers that
  retry. Neither is in the repository: `is_terminal` alone has no behaviour to
  check. The other methods of the provider pass a request on.
* Transactions, filters, cursors and timestamps are conversions without state.
* keccak256 and signatures are free of collisions and forgeries; the byte layout
  of what is hashed is abstracted.
* `HashChallenge` moves native coins between accounts by a replica's clock;
  `RankedFeed` only emits events; `Pi2` and the older `Voting` of
  `examples/solidity` repeat what the contracts modelled do. The sets of
  `FastTypes` have no user among them.
* `PLCRegistry` is modelled for one DID, in the mode in which it verifies
  signatures. Faulty validators attest everything and execute nothing.
* Generated bindings are more than four fifths of the Rust lines, so the mapped
  share of all Rust lines stays small whatever is modelled. Most of the logic
  is in Solidity.

## 6. Plan

Done: the rate limiter, the bridge and its token, the waiting list, the two
chains; committees, certificates, Merkle proofs and verifiable logs; waiting for
past perfection and the auction watcher; the example contracts on replicas; the
proofs of section 4.

1. Waiting-list deposits with permits; liveness of claims under the daily limit.
2. `HashChallenge`, with native coins, on replicas.
3. `ts-sdk`: the multiplexed WebSocket with its resubscriptions
   (`transport/ws.ts`), and the candle series (`sync/candles.ts`).
