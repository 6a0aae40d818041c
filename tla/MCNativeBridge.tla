--------------------------- MODULE MCNativeBridge ---------------------------
\* A small network: validators 1 and 2 are honest, 3 is Byzantine.
EXTENDS Upgrades

CONSTANTS usdc, podUsd, alice, admin, newBridge, s1

MCLedger ==
    [t \in Tokens |->
       [balance   |-> [a \in Accounts |-> IF a = alice THEN 2 ELSE 0],
        allowance |-> [a \in Accounts |-> [s \in Spenders |-> IF a = alice THEN MaxUint ELSE 0]],
        nonce     |-> [a \in Accounts |-> 0],
        paused    |-> FALSE]]

MCConfigs == {[minAmount |-> 1, depositLimit |-> 4, claimLimit |-> 4]}
MCLists   == {<<>>, <<1>>, <<4>>}

\* One deposit that is worth two withdrawals.
MCBatches == {<<[from |-> alice, to |-> alice, amount |-> 2]>>}

\* An upgrade exchanges 1 for 4, or 4 for 1, or neither.
Rotations == {<<1>>, <<4>>}

\* The script, run without waiting for Pod to execute in the new version.
EarlyUpgrade ==
    /\ UpdateNetwork
    /\ version' > version /\ FitsProofs(version')
    /\ merkleRoot' = PreUpgrade(version')

EarlySpec == Init /\ [][Traffic \/ EarlyUpgrade \/ \E v \in Versions : v > podVersion /\ PodUpgrade(v)]_vars
=============================================================================
