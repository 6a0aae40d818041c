------------------------- MODULE WaitingListLiveness -------------------------
(***************************************************************************)
(* The waiting list in steady operation: the tokens are configured and     *)
(* approved, the bridge is operational and the admin leaves it alone.      *)
(* Other depositors use the bridge directly and compete for its limit      *)
(* without end.  The question is whether a deposit in the waiting list     *)
(* ever leaves it.                                                         *)
(*                                                                         *)
(* Only the age of a usage matters to the limiter, and only up to Day: at  *)
(* MaxTime the clock stays and the usages grow older instead, so that time *)
(* runs on for ever in finitely many states.                               *)
(***************************************************************************)
EXTENDS DepositWaitingList

ASSUME HorizonAssumption == MaxTime >= Day

Configured ==
    /\ \A t \in Tokens : tokenData[t].minAmount # 0
    /\ \A t \in Tokens : ledger[t].allowance[WaitingList][BridgeAddress] = MaxUint

\* Setting up: each token is whitelisted and approved once.
SetUp ==
    \/ \E sender \in Admins, t \in Tokens, m \in MirrorTokens, c \in Configurations :
          /\ WhiteListToken(sender, t, m, c.minAmount, c.depositLimit, c.claimLimit)
          /\ UNCHANGED waitingVars
    \/ \E sender \in WaitingRelayers, t \in Tokens : ApproveToken(sender, t)

\* A direct deposit by somebody whose funds never run out: of Deposit, only the charge matters.
Compete ==
    \E t \in Tokens, amount \in Amounts :
        LET data == tokenData[t]
        IN  /\ Admits(data.depositUsage, data.minAmount, data.depositLimit, amount, now)
            /\ tokenData' = [tokenData EXCEPT ![t].depositUsage =
                               Charged(data.depositUsage, data.depositLimit, amount, now)]
            /\ UNCHANGED <<stateVars, configVars, depositIndex, deposits, processedRequests, paid,
                           whitelistedCallContracts, now, tokenVars, waitingVars>>

Older(usage) ==
    IF usage.lastUpdated = 0 THEN usage ELSE [usage EXCEPT !.lastUpdated = @ - 1]

TimePasses ==
    \/ now < MaxTime /\ Tick /\ UNCHANGED waitingVars
    \/ /\ now = MaxTime
       /\ tokenData' = [t \in Tokens |->
             [tokenData[t] EXCEPT !.depositUsage = Older(@), !.claimUsage = Older(@)]]
       /\ UNCHANGED <<stateVars, configVars, depositIndex, deposits, processedRequests, paid,
                      whitelistedCallContracts, now, tokenVars, waitingVars>>

\* The relayer applies one pending deposit on its own.
ApplyOne(id) ==
    /\ id \in Pending
    /\ LET d == depositHashes[id]
       IN  \E sender \in WaitingRelayers :
              ApplyDeposits(sender, d.token,
                            <<[id |-> id, amount |-> d.amount, from |-> d.from, to |-> d.to]>>,
                            d.callContract, d.reserveBalance)

SteadyNext ==
    \/ SetUp
    \/ Configured /\ (WaitingDepositCalls \/ ApplyCalls \/ WithdrawCalls \/ Compete)
    \/ TimePasses

\* Blocks keep coming; the relayer's transaction for a deposit, attempted again whenever the
\* limit has room for it, is not beaten to the limit for ever.
SteadySpec ==
    /\ Init /\ [][SteadyNext]_vars
    /\ WF_vars(TimePasses)
    /\ \A id \in 0 .. MaxWaiting - 1 : SF_vars(ApplyOne(id))

\* Every deposit in the waiting list leaves it, however the direct deposits compete with it:
\* what deposit accepts (at most the limit), the limiter admits again and again.
EveryDepositLeaves ==
    \A id \in 0 .. MaxWaiting - 1 : id \in Pending ~> id \notin Pending
=============================================================================
