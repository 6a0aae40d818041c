------------------------ MODULE MCWaitingListLiveness ------------------------
\* A steady instance: alice's deposits wait, the limit is filled by others.
EXTENDS WaitingListLiveness

CONSTANTS usdc, podUsd, alice, relayer, admin

MCLedger ==
    [t \in Tokens |->
       [balance   |-> [a \in Accounts |-> IF a = alice THEN 4 ELSE 0],
        allowance |-> [a \in Accounts |-> [s \in Spenders |->
                         IF a = alice /\ s = WaitingList THEN MaxUint ELSE 0]],
        nonce     |-> [a \in Accounts |-> 0],
        paused    |-> FALSE]]

MCConfigs == {[minAmount |-> 1, depositLimit |-> 2, claimLimit |-> 0]}
=============================================================================
