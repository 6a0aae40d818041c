---------------------------- MODULE WrappedToken ----------------------------
(***************************************************************************)
(* The ERC20 tokens the bridge moves: protocol/src/WrappedToken.sol, which *)
(* adds roles, minting and a pause switch to OpenZeppelin's ERC20,         *)
(* ERC20Burnable and ERC20Permit.  Balances, allowances and permits are    *)
(* OpenZeppelin's, modelled from how the contracts of this repository use  *)
(* them.  Every transfer, mint and burn goes through _update, which        *)
(* reverts while the token is paused.                                      *)
(*                                                                         *)
(* The ledger operators take one token's record so that a contract that    *)
(* loops over a batch can thread it through the loop.                      *)
(***************************************************************************)
EXTENDS Integers

CONSTANTS
    Tokens,          \* the token contracts
    Accounts,        \* every address that can hold tokens, contracts included
    Spenders,        \* the accounts that call transferFrom: the contracts
    MaxUint,         \* type(uint256).max, the allowance that is never spent
    Minters,         \* holders of MINTER_ROLE
    TokenPausers,    \* holders of the token's PAUSER_ROLE
    TokenAdmins,     \* holders of the token's DEFAULT_ADMIN_ROLE
    InitialLedger    \* token |-> ledger: balances and approvals at the start

VARIABLES
    ledger,          \* token |-> the token contract's storage
    signedPermits    \* EIP-2612 permits that owners have signed off chain

tokenVars == <<ledger, signedPermits>>

Ledger == [balance   : [Accounts -> Nat],
           allowance : [Accounts -> [Spenders -> Nat]],
           nonce     : [Accounts -> Nat],
           paused    : BOOLEAN]

\* A permit as its owner signed it; the deadline is not modelled.
Permit == [token : Tokens, owner : Accounts, spender : Spenders, value : Nat, nonce : Nat]

ASSUME TokenAssumption ==
    /\ InitialLedger \in [Tokens -> Ledger]
    /\ MaxUint \in Nat
    /\ Minters \subseteq Accounts

TokenTypeOK ==
    /\ ledger \in [Tokens -> Ledger]
    /\ signedPermits \subseteq Permit

TokenInit ==
    /\ ledger = InitialLedger
    /\ signedPermits = {}

-----------------------------------------------------------------------------
\* The ledger operators: what a call does to one token's record l, and when the call reverts.

\* Mutants of Transferable: the balance, or the pause switch, is not looked at.
TransferableUncovered(l, from, value) == ~ l.paused

TransferableWhilePaused(l, from, value) == l.balance[from] >= value

Transferable(l, from, value) == ~ l.paused /\ l.balance[from] >= value

Debited(l, from, value) == [l EXCEPT !.balance[from] = @ - value]

Credited(l, to, value) == [l EXCEPT !.balance[to] = @ + value]

Transferred(l, from, to, value) == Credited(Debited(l, from, value), to, value)

Approved(l, owner, spender, value) ==
    [l EXCEPT !.allowance[owner][spender] = value]

TransferableFrom(l, spender, from, value) ==
    /\ Transferable(l, from, value)
    /\ l.allowance[from][spender] >= value

TransferredFrom(l, spender, from, to, value) ==
    LET allowed == l.allowance[from][spender]
        left    == IF allowed = MaxUint THEN MaxUint ELSE allowed - value
    IN  Transferred(Approved(l, from, spender, left), from, to, value)

\* permit(owner, spender, value, ...) succeeds iff the signature is the owner's
\* over exactly these arguments and the owner's current nonce.
PermitValid(l, t, owner, spender, value, permit) ==
    permit = [token |-> t, owner |-> owner, spender |-> spender,
              value |-> value, nonce |-> l.nonce[owner]]

Permitted(l, owner, spender, value) ==
    [Approved(l, owner, spender, value) EXCEPT !.nonce[owner] = @ + 1]

\* Mutant of TryPermit: a permit that fails takes the approval with it.
TryPermitStrictly(l, t, owner, spender, value, permit) ==
    IF PermitValid(l, t, owner, spender, value, permit)
    THEN Permitted(l, owner, spender, value)
    ELSE Approved(l, owner, spender, 0)

\* try permit(...) {} catch {}: Bridge._applyPermit, DepositWaitingList._applyPermit.
TryPermit(l, t, owner, spender, value, permit) ==
    IF PermitValid(l, t, owner, spender, value, permit)
    THEN Permitted(l, owner, spender, value)
    ELSE l

-----------------------------------------------------------------------------
\* The calls users and the token's operators make on the token itself.

Transfer(t, from, to, value) ==
    /\ Transferable(ledger[t], from, value)
    /\ ledger' = [ledger EXCEPT ![t] = Transferred(@, from, to, value)]
    /\ UNCHANGED signedPermits

Approve(t, owner, spender, value) ==
    /\ ledger' = [ledger EXCEPT ![t] = Approved(@, owner, spender, value)]
    /\ UNCHANGED signedPermits

\* An owner signs a permit for its next nonce and hands it to a dapp.
SignPermit(t, owner, spender, value) ==
    /\ signedPermits' = signedPermits \cup
         {[token |-> t, owner |-> owner, spender |-> spender,
           value |-> value, nonce |-> ledger[t].nonce[owner]]}
    /\ UNCHANGED ledger

\* Anyone who sees a signed permit may submit it to the token directly.
SubmitPermit(permit) ==
    LET l == ledger[permit.token]
    IN  /\ permit \in signedPermits
        /\ permit.nonce = l.nonce[permit.owner]
        /\ ledger' = [ledger EXCEPT ![permit.token] =
                        Permitted(l, permit.owner, permit.spender, permit.value)]
        /\ UNCHANGED signedPermits

Mint(sender, t, to, value) ==
    /\ sender \in Minters
    /\ ~ ledger[t].paused
    /\ ledger' = [ledger EXCEPT ![t] = Credited(@, to, value)]
    /\ UNCHANGED signedPermits

Burn(t, from, value) ==
    /\ Transferable(ledger[t], from, value)
    /\ ledger' = [ledger EXCEPT ![t] = Debited(@, from, value)]
    /\ UNCHANGED signedPermits

\* OpenZeppelin's _pause requires whenNotPaused, its _unpause whenPaused.
Pause(sender, t) ==
    /\ sender \in TokenPausers
    /\ ~ ledger[t].paused
    /\ ledger' = [ledger EXCEPT ![t].paused = TRUE]
    /\ UNCHANGED signedPermits

Unpause(sender, t) ==
    /\ sender \in TokenAdmins
    /\ ledger[t].paused
    /\ ledger' = [ledger EXCEPT ![t].paused = FALSE]
    /\ UNCHANGED signedPermits
=============================================================================
