------------------------ MODULE MCDepositWaitingList ------------------------
\* Small instances of DepositWaitingList: alice deposits, for herself or for bob, 3 of one token
\* and 1 of another; there is one relayer, and the waiting list is the only relayer of the bridge.
EXTENDS DepositWaitingList

CONSTANTS usdc, weth, podUsd, alice, bob, relayer, admin, newBridge, market

MCLedger ==
    [t \in Tokens |->
       [balance   |-> [a \in Accounts |-> IF a # alice THEN 0 ELSE IF t = usdc THEN 3 ELSE 1],
        allowance |-> [a \in Accounts |-> [s \in Spenders |->
                         IF a = alice /\ s = WaitingList THEN MaxUint ELSE 0]],
        nonce     |-> [a \in Accounts |-> 0],
        paused    |-> FALSE]]

Config(min, dep, cl) == [minAmount |-> min, depositLimit |-> dep, claimLimit |-> cl]
MCConfigs      == {Config(1, 2, 0)}
LoweredConfigs == {Config(1, 2, 0), Config(2, 1, 0)}
=============================================================================
