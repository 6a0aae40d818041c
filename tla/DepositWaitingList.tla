------------------------- MODULE DepositWaitingList -------------------------
(***************************************************************************)
(* protocol/src/DepositWaitingList.sol, together with the bridge it feeds: *)
(* the contract takes deposits the bridge's daily limit would turn away,   *)
(* and a relayer applies them to the bridge later, in batches.  It holds   *)
(* RELAYER_ROLE on the bridge (protocol/deploy/03_BridgeSetup.sol), calls  *)
(* batchDeposit with itself as the depositor, and reads the bridge's token *)
(* configuration and call whitelist when a deposit is made.                *)
(*                                                                         *)
(* A stored hash is the data it commits to, and a deleted one is NoHash.   *)
(***************************************************************************)
EXTENDS Bridge

CONSTANTS
    WaitingList,       \* the address of this contract
    NoHash,            \* bytes32(0), a hash that is not there
    WaitingRelayers,   \* holders of its RELAYER_ROLE
    MaxWaiting,        \* bound: deposits ever taken
    MaxApply           \* bound: entries in one applyDeposits

\* What a hash commits to.
WaitingData == [token : Tokens, amount : Amounts, from : Callers, to : Callers,
                callContract : CallContracts \cup {NoAddress}, reserveBalance : Reserves]

\* The list is a contract: it signs no permit and makes no call but those below.  Nobody else's
\* batch names it as the depositor: 03_BridgeSetup.sol grants the bridge's RELAYER_ROLE to it alone.
ASSUME WaitingAssumption ==
    /\ WaitingList \in Accounts \cap Spenders
    /\ WaitingList \in Relayers
    /\ WaitingList \notin Callers \cup Holders \cup {BridgeAddress}
    /\ \A ds \in DepositBatches : \A i \in DOMAIN ds : ds[i].from # WaitingList
    /\ NoHash \notin WaitingData
    /\ MaxWaiting \in Nat /\ MaxApply \in Nat

VARIABLES
    depositHashes,     \* deposit id |-> stored hash
    nextDepositId,
    created,           \* history: the WaitingDepositCreated events, id |-> data
    applied,           \* history: ids in the order of WaitingDepositApplied events
    withdrawn          \* history: ids of WaitingDepositWithdrawn events, in order

historyVars == <<created, applied, withdrawn>>
waitingVars == <<depositHashes, nextDepositId, historyVars>>
vars        == <<bridgeVars, waitingVars>>

HashOf(id) == IF id \in DOMAIN depositHashes THEN depositHashes[id] ELSE NoHash

\* keccak256(abi.encode(token, amount, from, to, callContract, reserveBalance))
Data(t, amount, from, to, callContract, reserveBalance) ==
    [token |-> t, amount |-> amount, from |-> from, to |-> to,
     callContract |-> callContract, reserveBalance |-> reserveBalance]

Init ==
    /\ BridgeInit
    /\ depositHashes = <<>>
    /\ nextDepositId = 0
    /\ created = <<>>
    /\ applied = <<>>
    /\ withdrawn = <<>>

WithEntry(f, id, value) == [i \in DOMAIN f \cup {id} |-> IF i = id THEN value ELSE f[i]]

-----------------------------------------------------------------------------

\* Mutant of Recorded: the id is not used up.
RecordedInPlace(data) ==
    /\ nextDepositId' = nextDepositId
    /\ depositHashes' = WithEntry(depositHashes, nextDepositId, data)
    /\ created' = WithEntry(created, nextDepositId, data)

Recorded(data) ==
    /\ nextDepositId' = nextDepositId + 1
    /\ depositHashes' = WithEntry(depositHashes, nextDepositId, data)
    /\ created' = WithEntry(created, nextDepositId, data)

\* deposit: by the depositor, or by a relayer for a depositor who is also the recipient.
WaitingDeposit(sender, t, amount, from, to, callContract, reserveBalance, permits) ==
    LET data == Data(t, amount, from, to, callContract, reserveBalance)
        l    == IF permits = <<>> THEN ledger[t]
                ELSE TryPermit(ledger[t], t, from, WaitingList, amount, permits[1])
    IN  /\ to # NoAddress
        /\ CallAllowed(callContract, reserveBalance)
        /\ callContract # NoAddress => amount >= reserveBalance
        /\ sender = from \/ (from = to /\ sender \in WaitingRelayers)
        /\ amount >= tokenData[t].minAmount /\ amount <= tokenData[t].depositLimit
        /\ TransferableFrom(l, WaitingList, from, amount)
        /\ ledger' = [ledger EXCEPT ![t] = TransferredFrom(l, WaitingList, from, WaitingList, amount)]
        /\ Recorded(data)
        /\ UNCHANGED <<stateVars, configVars, flowVars, whitelistedCallContracts, now,
                       signedPermits, applied, withdrawn>>

\* Mutants of Gone and Matches: a hash is deleted only after the loop; the supplied data are
\* not compared with the hash.
GoneBefore(id, taken) == HashOf(id) = NoHash

MatchesUnchecked(e, t, callContract, reserveBalance) == TRUE

Gone(id, taken) == id \in taken \/ HashOf(id) = NoHash

Matches(e, t, callContract, reserveBalance) ==
    HashOf(e.id) = Data(t, e.amount, e.from, e.to, callContract, reserveBalance)

\* The loop of applyDeposits over entries [id, amount, from, to]: entries whose hash is gone,
\* also by an earlier entry of the same call, are skipped; one that contradicts its hash reverts.
ApplyStep(t, callContract, reserveBalance, s, e) ==
    IF Gone(e.id, s.taken)
    THEN s
    ELSE [ok     |-> s.ok /\ Matches(e, t, callContract, reserveBalance),
          taken  |-> s.taken \cup {e.id},
          ids    |-> Append(s.ids, e.id),
          params |-> Append(s.params, [from |-> WaitingList, to |-> e.to, amount |-> e.amount])]

ApplyRun(t, entries, callContract, reserveBalance) ==
    LET Step(s, e) == ApplyStep(t, callContract, reserveBalance, s, e)
    IN  FoldLeft(Step, [ok |-> TRUE, taken |-> {}, ids |-> <<>>, params |-> <<>>], entries)

ApplyDeposits(sender, t, entries, callContract, reserveBalance) ==
    LET run == ApplyRun(t, entries, callContract, reserveBalance)
    IN  /\ sender \in WaitingRelayers
        /\ run.ok
        /\ depositHashes' = [i \in DOMAIN depositHashes |->
                               IF i \in run.taken THEN NoHash ELSE depositHashes[i]]
        /\ applied' = applied \o run.ids
        /\ IF run.params = <<>>
           THEN UNCHANGED bridgeVars
           ELSE BatchDeposit(WaitingList, t, run.params, <<>>, callContract, reserveBalance)
        /\ UNCHANGED <<nextDepositId, created, withdrawn>>

\* Mutants of Forget and Refundee: the hash stays; the tokens go to the recipient.
ForgetNothing(id) == UNCHANGED depositHashes

RefundeeRecipient(data) == data.to

Forget(id) == depositHashes' = [depositHashes EXCEPT ![id] = NoHash]

Refundee(data) == data.from

\* Mutant of MayWithdraw: the call is checked against the whitelist again, as deposit does.
MayWithdrawWhitelisted(sender, id, data) ==
    /\ HashOf(id) # NoHash
    /\ data = HashOf(id)
    /\ sender = data.from \/ sender \in WaitingRelayers
    /\ CallAllowed(data.callContract, data.reserveBalance)
    /\ Transferable(ledger[data.token], WaitingList, data.amount)

\* withdraw: the depositor or a relayer; the tokens go back to the depositor.
MayWithdraw(sender, id, data) ==
    /\ HashOf(id) # NoHash
    /\ data = HashOf(id)
    /\ sender = data.from \/ sender \in WaitingRelayers
    /\ Transferable(ledger[data.token], WaitingList, data.amount)

Withdraw(sender, id, data) ==
    /\ MayWithdraw(sender, id, data)
    /\ Forget(id)
    /\ ledger' = [ledger EXCEPT ![data.token] =
                    Transferred(@, WaitingList, Refundee(data), data.amount)]
    /\ withdrawn' = Append(withdrawn, id)
    /\ UNCHANGED <<stateVars, configVars, flowVars, whitelistedCallContracts, now, signedPermits,
                   nextDepositId, created, applied>>

ApproveToken(sender, t) ==
    /\ sender \in WaitingRelayers
    /\ ledger' = [ledger EXCEPT ![t] = Approved(@, WaitingList, BridgeAddress, MaxUint)]
    /\ UNCHANGED <<stateVars, configVars, flowVars, whitelistedCallContracts, now, signedPermits,
                   waitingVars>>

-----------------------------------------------------------------------------
\* Who may call what.  Relayers and depositors take ids and data from the
\* WaitingDepositCreated events, and may pair the id of one event with the data of another.

WaitingDepositCalls ==
    \E sender \in Callers \cup WaitingRelayers, from, to \in Callers, t \in Tokens, amount \in Amounts,
       reserveBalance \in Reserves, callContract \in CallContracts \cup {NoAddress},
       permits \in {<<>>} \cup {<<p>> : p \in signedPermits} :
        /\ nextDepositId < MaxWaiting
        /\ WaitingDeposit(sender, t, amount, from, to, callContract, reserveBalance, permits)

Entries ==
    {[id |-> i, amount |-> created[j].amount, from |-> created[j].from, to |-> created[j].to] :
        i, j \in DOMAIN created}

ApplyCalls ==
    \E sender \in WaitingRelayers, j \in DOMAIN created :
        LET d == created[j]
        IN  \E entries \in SeqOf(Entries, MaxApply) :
                ApplyDeposits(sender, d.token, entries, d.callContract, d.reserveBalance)

WithdrawCalls ==
    \E sender \in Callers \cup WaitingRelayers, i, j \in DOMAIN created :
        Withdraw(sender, i, created[j])

WaitingCalls ==
    \/ WaitingDepositCalls
    \/ ApplyCalls
    \/ WithdrawCalls
    \/ \E sender \in WaitingRelayers, t \in Tokens : ApproveToken(sender, t)

Next ==
    \/ WaitingCalls
    \/ BridgeNext /\ UNCHANGED waitingVars

Spec == Init /\ [][Next]_vars

-----------------------------------------------------------------------------

Pending == {i \in DOMAIN depositHashes : depositHashes[i] # NoHash}

WaitingTypeOK ==
    /\ nextDepositId \in Nat
    /\ DOMAIN depositHashes = 0 .. nextDepositId - 1
    /\ DOMAIN created = DOMAIN depositHashes
    /\ \A i \in Pending : depositHashes[i] = created[i]

\* The contract holds what it owes: whatever the bridge, its admin and the relayer do, every
\* deposit still pending is covered, all of them at once.
Owed(t) ==
    SumFunctionOnSet([i \in Pending |-> depositHashes[i].amount],
                     {i \in Pending : depositHashes[i].token = t})

Solvent == \A t \in Tokens : ledger[t].balance[WaitingList] >= Owed(t)

\* Nothing the bridge and its admin do keeps a depositor from the tokens: a pending deposit can
\* be withdrawn whenever its token is not paused, be the bridge paused or migrated, the limit
\* lowered below the deposit, or its call contract off the whitelist.
AlwaysRefundable ==
    \A i \in Pending : ~ ledger[created[i].token].paused => MayWithdraw(created[i].from, i, created[i])

\* Every waiting deposit leaves once: it is pending, applied or withdrawn.
LeavesOnce ==
    LET gone == applied \o withdrawn
    IN  /\ Distinct(gone)
        /\ {gone[i] : i \in DOMAIN gone} = DOMAIN created \ Pending

\* A Deposit event tells the other chain what the depositor asked of the waiting list.
Announces(e, d) ==
    /\ e.token = d.token /\ e.amount = d.amount /\ e.to = d.to
    /\ e.callContract = d.callContract /\ e.reserveBalance = d.reserveBalance

\* What the bridge announces for the waiting list is, event by event, what was applied: the
\* recipient, amount and call of the original deposit, none twice and none lost, though the
\* bridge is told that the waiting list is the depositor.
AppliedAsDeposited ==
    LET own     == {i \in DOMAIN deposits : deposits[i].from = WaitingList}
        rank(i) == Cardinality({j \in own : j <= i})
    IN  /\ Cardinality(own) = Len(applied)
        /\ \A i \in own : Announces(deposits[i], created[applied[rank(i)]])

\* A withdrawal returns the amount to the depositor, and only a withdrawal takes tokens out of
\* the contract other than into the bridge.
RefundsDepositor ==
    [][\A t \in Tokens :
          LET change(a) == ledger'[t].balance[a] - ledger[t].balance[a]
          IN  change(WaitingList) < 0 =>
                \/ change(BridgeAddress) = - change(WaitingList)
                \/ /\ Len(withdrawn') = Len(withdrawn) + 1
                   /\ LET d == created[Last(withdrawn')]
                      IN  d.token = t /\ change(d.from) = d.amount /\ change(WaitingList) = - d.amount
      ]_vars

-----------------------------------------------------------------------------
\* What protocol/spec/adr-001-deposit-waiting-list.md says and the code does not keep

\* Line 27: a single deposit larger than the bridge's daily limit can never be applied.  The
\* limiter fills what is left of the old period first and carries the rest over, so a deposit
\* of up to twice the limit is applied (_checkInLimits).
LargerNeverApplied ==
    [][\A i \in Len(applied) + 1 .. Len(applied') :
          LET d == created[applied'[i]]
          IN  d.amount <= tokenData[d.token].depositLimit]_vars

-----------------------------------------------------------------------------
\* The waiting list implements the escrow.

InSeq(x, seq) == \E i \in DOMAIN seq : seq[i] = x

Custody == INSTANCE Escrow WITH
    Ids     <- 0 .. MaxWaiting - 1,
    status  <- [i \in 0 .. MaxWaiting - 1 |->
                  CASE i >= nextDepositId      -> "unused"
                    [] i \in Pending           -> "waiting"
                    [] InSeq(i, applied)       -> "bridged"
                    [] OTHER                   -> "refunded"],
    terms   <- [i \in 0 .. MaxWaiting - 1 |->
                  IF i < nextDepositId
                  THEN [token |-> created[i].token, amount |-> created[i].amount]
                  ELSE NoHash],
    NoTerms <- NoHash,
    held    <- [t \in Tokens |-> ledger[t].balance[WaitingList]]

ImplementsEscrow == Custody!EscrowSpec
=============================================================================
