------------------------- MODULE WaitingListProofs -------------------------
(***************************************************************************)
(* What a depositor, a relayer and the other chain can rely on, for every  *)
(* bridge, token, batch and order of calls: the contract holds what it     *)
(* owes, a deposit leaves it once and to the right place, the bridge       *)
(* announces what was asked of it, and all of it together implements the   *)
(* escrow.  The invariant of both contracts (WaitInv) reduces every step   *)
(* to one of five shapes (WaitSteps); the loop of applyDeposits is the     *)
(* sequence of its states (IsApplyLoop); the histories of the ids that     *)
(* have left (LeftInv) carry the rest.                                     *)
(***************************************************************************)
EXTENDS DepositWaitingList, BridgeProofs

-----------------------------------------------------------------------------
\* The waiting list as an account of the bridge's token ledgers.

\* The waiting list as an account: nobody acts for it.
LEMMA ListAddress ==
    /\ WaitingList \in Accounts /\ WaitingList \in Spenders /\ WaitingList # BridgeAddress
    /\ WaitingList \notin Callers /\ WaitingList \notin Holders
    /\ BridgeAddress \in Accounts /\ BridgeAddress \in Spenders
    /\ Callers \subseteq Accounts /\ BridgeAddress \notin Callers
    /\ Amounts \subseteq Nat
    /\ MaxUint \in Nat
  BY WaitingAssumption, BridgeAssumption, TokenAssumption

\* What a deposit or a claim of others does to the balance of the waiting list.
LEMMA OthersDeposit ==
    ASSUME BridgeInv, NEW t, NEW ds, NEW permits, NEW callContract, NEW reserveBalance,
           IsDeposit(t, ds, permits, callContract, reserveBalance), Presented(ds)
    PROVE  \A u \in Tokens : ledger'[u].balance[WaitingList] >= ledger[u].balance[WaitingList]
<1> DEFINE n == Len(ds)
           g == DepositChange(ds, WaitingList)
<1>1. /\ n \in Nat /\ t \in Tokens
      /\ \A u \in Tokens \ {t} : ledger'[u] = ledger[u]
      /\ \A a \in Accounts : ledger'[t].balance[a] = ledger[t].balance[a]
                               + SumFunctionOnSet(DepositChange(ds, a), 1 .. Len(ds))
  BY DepositedEffect DEF IsDeposit
<1>2. DOMAIN ds = 1 .. n /\ \A i \in 1 .. n : ds[i].amount \in Nat
  BY DEF IsDeposit, DepositBatch, Batch
<1>3. \A i \in 1 .. n : ds[i].from # WaitingList
  BY <1>2, ListAddress, WaitingAssumption DEF Presented
<1>4. \A i \in 1 .. n : g[i] \in Nat
  BY <1>2, <1>3, ListAddress DEF DepositChange
<1>5. IsFiniteSet(1 .. n)
  BY <1>1, FS_Interval
<1>6. \A u \in Tokens : ledger[u].balance[WaitingList] \in Nat
  BY ListAddress DEF BridgeInv, BridgeTypeOK, TokenTypeOK, Ledger
<1> HIDE DEF g, n
<1>7. SumFunctionOnSet(g, 1 .. n) \in Nat
  BY ONLY <1>4, <1>5, SumNonNegative
<1>8. ledger'[t].balance[WaitingList] = ledger[t].balance[WaitingList] + SumFunctionOnSet(g, 1 .. n)
  BY <1>1, ListAddress DEF g, n
<1> QED
  BY <1>1, <1>6, <1>7, <1>8

\* A claim pays recipients, and may pay the waiting list.
LEMMA OthersClaim ==
    ASSUME BridgeInv, NEW t, NEW cs, IsClaim(t, cs)
    PROVE  \A u \in Tokens : ledger'[u].balance[WaitingList] >= ledger[u].balance[WaitingList]
<1> DEFINE n == Len(cs)
           g == ClaimChange(cs, WaitingList)
<1>1. /\ n \in Nat /\ t \in Tokens
      /\ \A u \in Tokens \ {t} : ledger'[u] = ledger[u]
      /\ \A a \in Accounts : ledger'[t].balance[a] = ledger[t].balance[a]
                               + SumFunctionOnSet(ClaimChange(cs, a), 1 .. Len(cs))
  BY ClaimedEffect DEF IsClaim
<1>2. DOMAIN cs = 1 .. n /\ \A i \in 1 .. n : cs[i].amount \in Nat
  BY DEF IsClaim, Batch
<1>3. \A i \in 1 .. n : g[i] \in Nat
  BY <1>2, ListAddress DEF ClaimChange
<1>4. IsFiniteSet(1 .. n)
  BY <1>1, FS_Interval
<1>5. \A u \in Tokens : ledger[u].balance[WaitingList] \in Nat
  BY ListAddress DEF BridgeInv, BridgeTypeOK, TokenTypeOK, Ledger
<1> HIDE DEF g, n
<1>6. SumFunctionOnSet(g, 1 .. n) \in Nat
  BY ONLY <1>3, <1>4, SumNonNegative
<1>7. ledger'[t].balance[WaitingList] = ledger[t].balance[WaitingList] + SumFunctionOnSet(g, 1 .. n)
  BY <1>1, ListAddress DEF g, n
<1> QED
  BY <1>1, <1>5, <1>6, <1>7

\* Whatever is called on the bridge and the tokens, the waiting list loses nothing by it.
LEMMA BridgeKeepsCustody ==
    ASSUME BridgeInv, [BridgeNext]_bridgeVars
    PROVE  \A t \in Tokens : ledger'[t].balance[WaitingList] >= ledger[t].balance[WaitingList]
<1>0. \A t \in Tokens : ledger[t] \in Ledger /\ ledger[t].balance[WaitingList] \in Nat
  BY ListAddress DEF BridgeInv, BridgeTypeOK, TokenTypeOK, Ledger
<1>1. CASE DepositCalls
  BY <1>1, DepositCallsPresented, OthersDeposit
<1>2. CASE ClaimCalls
  BY <1>2, ClaimCallsClaim, OthersClaim
<1>3. CASE TokenCalls
  <2>1. \A t \in Tokens : LedgerStep(ledger[t], ledger'[t])
    BY <1>3, TokenCallsEffect
  <2> QED  BY <2>1, ListAddress DEF LedgerStep
<1>4. CASE StateCalls
  <2>1. CASE UNCHANGED tokenVars
    BY <1>0, <2>1 DEF tokenVars
  <2>2. ASSUME NEW sender, NEW tokens, TransferTokensToMigrated(sender, tokens)
        PROVE  \A t \in Tokens : ledger'[t].balance[WaitingList] >= ledger[t].balance[WaitingList]
    <3> SUFFICES ASSUME NEW t \in Tokens
                 PROVE  ledger'[t].balance[WaitingList] >= ledger[t].balance[WaitingList]
      OBVIOUS
    <3> DEFINE held == ledger[t].balance[BridgeAddress]
    <3>1. \/ ledger'[t] = ledger[t]
          \/ \A a \in Accounts : ledger'[t].balance[a] = ledger[t].balance[a]
                                   - (IF a = BridgeAddress THEN held ELSE 0)
                                   + (IF a = migratedContract THEN held ELSE 0)
      BY <2>2, MigratedEffect
    <3>2. held \in Nat
      BY <1>0, ListAddress DEF Ledger
    <3> HIDE DEF held
    <3> QED  BY <1>0, <3>1, <3>2, ListAddress
  <2> QED  BY <1>4, <2>1, <2>2, StateCallsLedger
<1>5. CASE ~ DepositCalls /\ ~ ClaimCalls /\ ~ TokenCalls /\ ~ StateCalls
  BY <1>0, <1>5, LedgerCalls DEF tokenVars
<1> QED
  BY <1>1, <1>2, <1>3, <1>4, <1>5

\* What taking tokens of an owner who signs permits does to a ledger, after the permit if there
\* is one.
TakenEffect(n, l, from, amount) ==
    /\ GoodLedger(n)
    /\ \A a \in Accounts :
         n.balance[a] = l.balance[a] - (IF a = from THEN amount ELSE 0)
                          + (IF a = WaitingList THEN amount ELSE 0)

\* deposit leaves such a ledger behind, with or without a permit.
LEMMA TakenLedger ==
    ASSUME NEW l, GoodLedger(l), NEW t, NEW from \in Callers, NEW amount \in Nat, NEW m,
           m = l \/ \E permit : m = TryPermit(l, t, from, WaitingList, amount, permit),
           TransferableFrom(m, WaitingList, from, amount)
    PROVE  TakenEffect(TransferredFrom(m, WaitingList, from, WaitingList, amount), l, from, amount)
<1> DEFINE n == TransferredFrom(m, WaitingList, from, WaitingList, amount)
<1>1. /\ l \in Ledger /\ l \in LoopLedger /\ BridgeClosed(l)
      /\ \A a \in Accounts : l.balance[a] \in Nat /\ l.nonce[a] \in Nat
      /\ \A a \in Accounts, s \in Spenders : l.allowance[a][s] \in Nat
  BY LedgerFacts DEF GoodLedger
<1>2. from \in Accounts /\ from # BridgeAddress /\ from # WaitingList
  BY ListAddress
<1>3. /\ m \in LoopLedger /\ m.balance = l.balance
      /\ m.allowance[from][WaitingList] \in Nat
      /\ \A a \in Accounts, s \in Spenders :
           (a # from \/ s # WaitingList) => m.allowance[a][s] = l.allowance[a][s]
  <2>1. CASE m = l
    BY <1>1, <1>2, <2>1, ListAddress
  <2>2. ASSUME NEW permit, m = TryPermit(l, t, from, WaitingList, amount, permit)
        PROVE  PermitEffect(m, l, from, WaitingList, amount, permit)
    BY <1>1, <1>2, <2>2, ListAddress, TryPermitEffect
  <2>3. CASE \E permit : m = TryPermit(l, t, from, WaitingList, amount, permit)
    BY <1>1, <1>2, <2>2, <2>3, ListAddress DEF PermitEffect
  <2> QED  BY <2>1, <2>3
<1>4. /\ n \in LoopLedger
      /\ \A a \in Accounts :
           n.balance[a] = m.balance[a] - (IF a = from THEN amount ELSE 0)
                            + (IF a = WaitingList THEN amount ELSE 0)
      /\ n.allowance[from][WaitingList] \in {MaxUint, m.allowance[from][WaitingList] - amount}
      /\ \A a \in Accounts, s \in Spenders :
           (a # from \/ s # WaitingList) => n.allowance[a][s] = m.allowance[a][s]
  BY <1>2, <1>3, ListAddress, TransferredFromEffect
<1>5. m.balance[from] >= amount /\ m.allowance[from][WaitingList] >= amount
  BY DEF TransferableFrom, Transferable
<1> HIDE DEF n
<1>6. \A a \in Accounts : n.balance[a] \in Nat
  BY <1>1, <1>2, <1>3, <1>4, <1>5
<1>7. n.allowance[from][WaitingList] \in Nat
  BY <1>3, <1>4, <1>5, ListAddress
<1>8. \A a \in Accounts, s \in Spenders : n.allowance[a][s] \in Nat
  BY <1>1, <1>3, <1>4, <1>7
<1>9. n \in Ledger
  BY <1>4, <1>6, <1>8, LedgerIs
<1>10. BridgeClosed(n)
  BY <1>1, <1>2, <1>3, <1>4, ListAddress DEF BridgeClosed
<1> QED
  BY <1>1, <1>3, <1>4, <1>9, <1>10 DEF GoodLedger, TakenEffect, n

-----------------------------------------------------------------------------
\* The loop of applyDeposits.

\* The state of the loop of applyDeposits.
Params == [from : {WaitingList}, to : Callers, amount : Nat]

ApplyState == [ok : BOOLEAN, taken : SUBSET Nat, ids : Seq(Nat), params : Seq(Params)]

ApplyStart == [ok |-> TRUE, taken |-> {}, ids |-> <<>>, params |-> <<>>]

\* What the relayer may pass for an entry.
IsEntry(e) == e.id \in Nat /\ e.amount \in Nat /\ e.to \in Callers

IsApplyLoop(r, t, entries, callContract, reserveBalance) ==
    /\ r \in [0 .. Len(entries) -> ApplyState]
    /\ r[0] = ApplyStart
    /\ \A k \in 1 .. Len(entries) :
         r[k] = ApplyStep(t, callContract, reserveBalance, r[k - 1], entries[k])

\* An iteration of applyDeposits keeps the loop's state well typed.
LEMMA ApplyStepType ==
    ASSUME NEW t, NEW callContract, NEW reserveBalance, NEW s \in ApplyState, NEW e, IsEntry(e)
    PROVE  ApplyStep(t, callContract, reserveBalance, s, e) \in ApplyState
<1> DEFINE ok == s.ok /\ Matches(e, t, callContract, reserveBalance)
           taken == s.taken \cup {e.id}
           ids == Append(s.ids, e.id)
           p == [from |-> WaitingList, to |-> e.to, amount |-> e.amount]
           params == Append(s.params, p)
<1>1. ok \in BOOLEAN /\ taken \in SUBSET Nat
  BY DEF ApplyState, Matches, IsEntry
<1>2. ids \in Seq(Nat)
  BY DEF ApplyState, IsEntry
<1>3. p \in Params /\ s.params \in Seq(Params)
  BY DEF Params, IsEntry, ApplyState
<1>4. params \in Seq(Params)
  <2> HIDE DEF p
  <2> QED  BY <1>3
<1>5. ApplyStep(t, callContract, reserveBalance, s, e) \in
        {s, [ok |-> ok, taken |-> taken, ids |-> ids, params |-> params]}
  BY DEF ApplyStep
<1> HIDE DEF ok, taken, ids, params
<1> QED
  BY <1>1, <1>2, <1>4, <1>5 DEF ApplyState

\* The fold of applyDeposits is a loop over the states r[0], ..., r[Len(entries)].
LEMMA ApplyLoop ==
    ASSUME NEW t, NEW entries, NEW callContract, NEW reserveBalance,
           Len(entries) \in Nat, DOMAIN entries = 1 .. Len(entries),
           \A k \in DOMAIN entries : IsEntry(entries[k])
    PROVE  \E r : /\ IsApplyLoop(r, t, entries, callContract, reserveBalance)
                  /\ ApplyRun(t, entries, callContract, reserveBalance) = r[Len(entries)]
<1> DEFINE n == Len(entries)
           seq == entries
           start == ApplyStart
           Step(s, e) == ApplyStep(t, callContract, reserveBalance, s, e)
           F == [i \in 1 .. n |-> [s \in ApplyState |-> Step(s, entries[i])]]
           iter == CHOOSE iter : iter = [T \in SUBSET DOMAIN seq |->
                     IF T = {} THEN start ELSE Step(iter[T \ {Max(T)}], seq[Max(T)])]
           r == [k \in 0 .. n |-> iter[1 .. k]]
<1>1. n \in Nat /\ DOMAIN seq = 1 .. n
  OBVIOUS
<1>2. start \in ApplyState
  BY DEF ApplyState, ApplyStart
<1>3. ApplyRun(t, entries, callContract, reserveBalance) = iter[DOMAIN seq]
  BY DEF ApplyRun, FoldLeft, MapThenFoldSet, ApplyStart
<1>4. F \in [1 .. n -> [ApplyState -> ApplyState]]
  BY <1>1, ApplyStepType
<1>5. iter = [T \in SUBSET DOMAIN seq |->
                IF T = {} THEN start ELSE Step(iter[T \ {Max(T)}], seq[Max(T)])]
  <2>1. PICK w \in [SUBSET (1 .. n) -> ApplyState] : IsLoop(w, n, start, F)
    <3>1. n \in Nat /\ start \in ApplyState /\ F \in [1 .. n -> [ApplyState -> ApplyState]]
      BY <1>1, <1>2, <1>4
    <3> HIDE DEF n, start, F
    <3> QED  BY ONLY <3>1, LoopDefined
  <2>2. ASSUME NEW T \in SUBSET (1 .. n), T # {}
        PROVE  w[T] = Step(w[T \ {Max(T)}], seq[Max(T)])
    <3>1. Max(T) \in 1 .. n
      BY ONLY <1>1, <2>2, MaxOfPart
    <3>2. w[T \ {Max(T)}] \in ApplyState
      BY <1>1, <3>1
    <3>3. w[T] = F[Max(T)][w[T \ {Max(T)}]]
      BY <2>1, <2>2 DEF IsLoop
    <3> HIDE DEF Step
    <3> QED  BY <3>1, <3>2, <3>3
  <2> HIDE DEF Step
  <2>3. w = [T \in SUBSET DOMAIN seq |->
               IF T = {} THEN start ELSE Step(w[T \ {Max(T)}], seq[Max(T)])]
    <3> HIDE DEF n, start, F, seq
    <3> QED  BY <1>1, <2>1, <2>2 DEF IsLoop
  <2> QED  BY <2>3
<1> HIDE DEF iter, Step
<1>6. r[0] = start /\ \A k \in 1 .. n : r[k] = Step(r[k - 1], entries[k])
  <2>1. r[0] = start
    <3>1. 1 .. 0 = {} /\ {} \in SUBSET DOMAIN seq /\ 0 \in 0 .. n
      BY <1>1
    <3> HIDE DEF start, seq
    <3> QED  BY <1>5, <3>1
  <2>2. ASSUME NEW k \in 1 .. n
        PROVE  r[k] = Step(r[k - 1], entries[k])
    <3>1. /\ 1 .. k \in SUBSET (1 .. n) /\ 1 .. k # {}
          /\ Max(1 .. k) = k /\ (1 .. k) \ {Max(1 .. k)} = 1 .. k - 1
      BY ONLY <1>1, <2>2, LoopPrefixes
    <3>2. k \in 0 .. n /\ k - 1 \in 0 .. n
      BY <1>1
    <3>3. iter[1 .. k] = Step(iter[1 .. k - 1], entries[k])
      <4> HIDE DEF start
      <4> QED  BY <1>1, <1>5, <3>1, <3>2
    <3> QED  BY <3>2, <3>3
  <2> QED  BY <2>1, <2>2
<1> HIDE DEF r, start
<1> DEFINE S == {k \in 0 .. n : r[k] \in ApplyState}
<1>7. 0 \in S /\ \A k \in 0 .. n - 1 : k \in S => k + 1 \in S
  <2>1. 0 \in S
    BY <1>1, <1>2, <1>6
  <2>2. ASSUME NEW k \in 0 .. n - 1, k \in S
        PROVE  k + 1 \in S
    <3>1. k + 1 \in 1 .. n /\ k + 1 \in 0 .. n /\ (k + 1) - 1 = k
      BY <1>1
    <3>2. r[k + 1] = Step(r[k], entries[k + 1])
      BY <1>6, <3>1
    <3>3. Step(r[k], entries[k + 1]) \in ApplyState
      BY <1>1, <2>2, <3>1, ApplyStepType DEF Step
    <3> QED  BY <3>1, <3>2, <3>3
  <2> QED  BY <2>1, <2>2
<1> HIDE DEF S
<1>8. \A k \in 0 .. n : k \in S
  BY <1>1, <1>7, UpTo
<1>9. r \in [0 .. n -> ApplyState]
  BY <1>8 DEF S, r
<1>10. r[n] = iter[DOMAIN seq]
  BY <1>1 DEF r
<1> QED
  BY <1>3, <1>6, <1>9, <1>10 DEF IsApplyLoop, start, Step

\* What the loop has collected: pending deposits, each once, with the call the batch makes.
GoodRun(s, t, callContract, reserveBalance) ==
    /\ s \in ApplyState
    /\ s.taken \subseteq Pending
    /\ Len(s.params) = Len(s.ids)
    /\ \A i, j \in 1 .. Len(s.ids) : s.ids[i] = s.ids[j] => i = j
    /\ \A k \in 1 .. Len(s.ids) : s.ids[k] \in s.taken
    /\ \A x \in s.taken : \E k \in 1 .. Len(s.ids) : x = s.ids[k]
    /\ \A k \in 1 .. Len(s.ids) :
         LET d == created[s.ids[k]]
         IN  /\ s.params[k] = [from |-> WaitingList, to |-> d.to, amount |-> d.amount]
             /\ d.token = t /\ d.callContract = callContract /\ d.reserveBalance = reserveBalance

\* An iteration that does not revert keeps the run good: it skips what is gone and collects what
\* matches its hash.
LEMMA ApplyStepGood ==
    ASSUME WaitingTypeOK, NEW t, NEW callContract, NEW reserveBalance,
           NEW s, GoodRun(s, t, callContract, reserveBalance), NEW e, IsEntry(e),
           ApplyStep(t, callContract, reserveBalance, s, e).ok
    PROVE  GoodRun(ApplyStep(t, callContract, reserveBalance, s, e), t, callContract, reserveBalance)
<1>1. CASE Gone(e.id, s.taken)
  BY <1>1 DEF ApplyStep
<1>2. CASE ~ Gone(e.id, s.taken)
  <2> DEFINE n == ApplyStep(t, callContract, reserveBalance, s, e)
             p == [from |-> WaitingList, to |-> e.to, amount |-> e.amount]
             m == Len(s.ids)
             ids == s.ids
             params == s.params
  <2>1. /\ n.ok /\ n.taken = s.taken \cup {e.id}
        /\ n.ids = Append(ids, e.id) /\ n.params = Append(params, p)
        /\ Matches(e, t, callContract, reserveBalance)
    BY <1>2 DEF ApplyStep
  <2>2. n \in ApplyState
    BY ApplyStepType DEF GoodRun
  <2>3. e.id \notin s.taken /\ e.id \in Pending
    BY <1>2 DEF Gone, HashOf, Pending
  <2>4. /\ created[e.id] = depositHashes[e.id] /\ HashOf(e.id) = depositHashes[e.id]
    BY <2>3 DEF WaitingTypeOK, HashOf, Pending
  <2> DEFINE d == created[e.id]
  <2>5. /\ d.token = t /\ d.callContract = callContract /\ d.reserveBalance = reserveBalance
        /\ p = [from |-> WaitingList, to |-> d.to, amount |-> d.amount]
    BY <2>1, <2>4 DEF Matches, Data
  <2>6. /\ ids \in Seq(Nat) /\ params \in Seq(Params) /\ m \in Nat /\ Len(params) = m
    BY DEF GoodRun, ApplyState
  <2>7. /\ Len(n.ids) = m + 1 /\ Len(n.params) = m + 1
        /\ n.ids[m + 1] = e.id /\ n.params[m + 1] = p
        /\ \A k \in 1 .. m : n.ids[k] = ids[k] /\ n.params[k] = params[k]
    <3> HIDE DEF n, p, m, ids, params
    <3>1. m = Len(ids)
      BY DEF m, ids
    <3> QED  BY <2>1, <2>6, <3>1
  <2>8. \A k \in 1 .. m + 1 : k \in 1 .. m \/ k = m + 1
    BY <2>6
  <2>9. \A k \in 1 .. m : k \in 1 .. m + 1 /\ m + 1 \in 1 .. m + 1
    BY <2>6
  <2>10. /\ s.taken \subseteq Pending
         /\ \A i, j \in 1 .. m : ids[i] = ids[j] => i = j
         /\ \A k \in 1 .. m : ids[k] \in s.taken
         /\ \A x \in s.taken : \E k \in 1 .. m : x = ids[k]
         /\ \A k \in 1 .. m :
               LET c == created[ids[k]]
               IN  /\ params[k] = [from |-> WaitingList, to |-> c.to, amount |-> c.amount]
                   /\ c.token = t /\ c.callContract = callContract /\ c.reserveBalance = reserveBalance
    BY DEF GoodRun
  <2> HIDE DEF n, p, m, ids, params
  <2>11. m + 1 \in 1 .. m + 1
    BY <2>6
  <2>12. \A i, j \in 1 .. m + 1 : n.ids[i] = n.ids[j] => i = j
    BY <2>3, <2>7, <2>8, <2>10
  <2>13. /\ \A k \in 1 .. m + 1 : n.ids[k] \in n.taken
         /\ n.taken \subseteq Pending
    BY <2>1, <2>3, <2>7, <2>8, <2>10
  <2>14. \A x \in n.taken : \E k \in 1 .. m + 1 : x = n.ids[k]
    BY <2>1, <2>7, <2>9, <2>10, <2>11
  <2>15. \A k \in 1 .. m + 1 :
               LET c == created[n.ids[k]]
               IN  /\ n.params[k] = [from |-> WaitingList, to |-> c.to, amount |-> c.amount]
                   /\ c.token = t /\ c.callContract = callContract /\ c.reserveBalance = reserveBalance
    BY <2>5, <2>7, <2>8, <2>10
  <2>16. GoodRun(n, t, callContract, reserveBalance)
    BY <2>2, <2>7, <2>12, <2>13, <2>14, <2>15 DEF GoodRun
  <2> QED  BY <2>16 DEF n
<1> QED
  BY <1>1, <1>2

\* A batch that does not revert has collected such deposits.
LEMMA ApplyRunGood ==
    ASSUME WaitingTypeOK, NEW t, NEW entries, NEW callContract, NEW reserveBalance,
           Len(entries) \in Nat, DOMAIN entries = 1 .. Len(entries),
           \A k \in DOMAIN entries : IsEntry(entries[k]),
           ApplyRun(t, entries, callContract, reserveBalance).ok
    PROVE  GoodRun(ApplyRun(t, entries, callContract, reserveBalance), t, callContract, reserveBalance)
<1> DEFINE n == Len(entries)
           run == ApplyRun(t, entries, callContract, reserveBalance)
           Step(s, e) == ApplyStep(t, callContract, reserveBalance, s, e)
           Good(s) == GoodRun(s, t, callContract, reserveBalance)
<1>1. PICK r : IsApplyLoop(r, t, entries, callContract, reserveBalance) /\ run = r[n]
  BY ApplyLoop
<1>2. /\ n \in Nat /\ r[0] = ApplyStart
      /\ \A k \in 1 .. n : r[k] = Step(r[k - 1], entries[k])
  BY <1>1 DEF IsApplyLoop
<1>3. \A k \in 0 .. n : r[k].ok
  <2>1. ASSUME NEW k \in 1 .. n, r[k].ok
        PROVE  r[k - 1].ok
    <3>1. Step(r[k - 1], entries[k]).ok
      BY <1>2, <2>1
    <3> QED  BY <3>1 DEF ApplyStep
  <2> HIDE DEF n, run
  <2>2. r[n].ok
    BY <1>1 DEF run
  <2> QED  BY <1>2, <2>1, <2>2, LoopOk
<1> DEFINE S == {k \in 0 .. n : Good(r[k])}
<1>4. 0 \in S
  <2>1. /\ ApplyStart \in ApplyState
        /\ Len(ApplyStart.ids) = 0 /\ Len(ApplyStart.params) = 0 /\ ApplyStart.taken = {}
    BY DEF ApplyStart, ApplyState
  <2>2. Good(ApplyStart)
    BY <2>1 DEF GoodRun
  <2> QED  BY <1>2, <2>2
<1>5. ASSUME NEW k \in 0 .. n - 1, k \in S
      PROVE  k + 1 \in S
  <2>1. k + 1 \in 1 .. n /\ k + 1 \in 0 .. n /\ (k + 1) - 1 = k
    BY <1>2
  <2>2. r[k + 1] = Step(r[k], entries[k + 1]) /\ r[k + 1].ok /\ Good(r[k]) /\ IsEntry(entries[k + 1])
    BY <1>2, <1>3, <1>5, <2>1
  <2>3. Good(r[k + 1])
    BY <2>2, ApplyStepGood
  <2> QED  BY <2>1, <2>3
<1> HIDE DEF S
<1>6. \A k \in 0 .. n : k \in S
  BY <1>2, <1>4, <1>5, UpTo
<1>7. n \in 0 .. n
  BY <1>2
<1> QED
  BY <1>1, <1>6, <1>7 DEF S

-----------------------------------------------------------------------------
\* The steps of the contract.

\* The invariant of the contract and the bridge together.
WaitInv ==
    /\ BridgeInv
    /\ DepositIdsInv
    /\ WaitingTypeOK
    /\ nextDepositId <= MaxWaiting
    /\ \A i \in DOMAIN created : created[i] \in WaitingData

\* The ledger of one token is replaced, the rest of the bridge stays.
LedgerOnly(t, n) ==
    /\ t \in Tokens /\ GoodLedger(n)
    /\ ledger' = [ledger EXCEPT ![t] = n]
    /\ UNCHANGED <<stateVars, configVars, flowVars, whitelistedCallContracts, now, signedPermits>>

\* A waiting deposit d is taken.
IsTaken(d) ==
    /\ d \in WaitingData /\ nextDepositId < MaxWaiting
    /\ Recorded(d)
    /\ \E n : LedgerOnly(d.token, n) /\ TakenEffect(n, ledger[d.token], d.from, d.amount)
    /\ UNCHANGED <<applied, withdrawn>>

\* The pending deposits that a run over a batch has collected are applied.
IsApplied(t, run, callContract, reserveBalance) ==
    /\ t \in Tokens /\ GoodRun(run, t, callContract, reserveBalance)
    /\ depositHashes' = [i \in DOMAIN depositHashes |->
                           IF i \in run.taken THEN NoHash ELSE depositHashes[i]]
    /\ applied' = applied \o run.ids
    /\ IF run.params = <<>>
       THEN UNCHANGED bridgeVars
       ELSE IsDeposit(t, run.params, <<>>, callContract, reserveBalance)
    /\ UNCHANGED <<nextDepositId, created, withdrawn>>

\* The pending deposit i is given back.
IsRefunded(i) ==
    /\ i \in Pending
    /\ Forget(i)
    /\ LET d == created[i]
           l == ledger[d.token]
       IN  /\ l.balance[WaitingList] >= d.amount
           /\ LedgerOnly(d.token, Transferred(l, WaitingList, d.from, d.amount))
    /\ withdrawn' = Append(withdrawn, i)
    /\ UNCHANGED <<nextDepositId, created, applied>>

IsApproved(t) ==
    /\ LedgerOnly(t, Approved(ledger[t], WaitingList, BridgeAddress, MaxUint))
    /\ UNCHANGED waitingVars

\* The ledgers of whitelisted tokens are such ledgers.
LEMMA TokenLedger ==
    ASSUME BridgeInv, NEW t \in Tokens
    PROVE  GoodLedger(ledger[t]) /\ ledger[t] \in LoopLedger
  BY LedgerFacts DEF BridgeInv, BridgeTypeOK, TokenTypeOK, GoodLedger

\* Every deposit call of the contract takes a waiting deposit.
LEMMA WaitingDepositTakes ==
    ASSUME WaitInv, WaitingDepositCalls
    PROVE  \E d : IsTaken(d)
<1>1. PICK sender \in Callers \cup WaitingRelayers, from \in Callers, to \in Callers, t \in Tokens, amount \in Amounts,
           reserveBalance \in Reserves, callContract \in CallContracts \cup {NoAddress},
           permits \in {<<>>} \cup {<<p>> : p \in signedPermits} :
             /\ nextDepositId < MaxWaiting
             /\ WaitingDeposit(sender, t, amount, from, to, callContract, reserveBalance, permits)
  BY Zenon DEF WaitingDepositCalls
<1> DEFINE d == Data(t, amount, from, to, callContract, reserveBalance)
           m == IF permits = <<>> THEN ledger[t]
                ELSE TryPermit(ledger[t], t, from, WaitingList, amount, permits[1])
           n == TransferredFrom(m, WaitingList, from, WaitingList, amount)
<1>2. /\ TransferableFrom(m, WaitingList, from, amount)
      /\ ledger' = [ledger EXCEPT ![t] = n]
      /\ Recorded(d)
      /\ UNCHANGED <<stateVars, configVars, flowVars, whitelistedCallContracts, now,
                     signedPermits, applied, withdrawn>>
  BY <1>1, Zenon DEF WaitingDeposit
<1>3. d \in WaitingData /\ d.token = t /\ d.from = from /\ d.amount = amount
  BY <1>1 DEF WaitingData, Data
<1>4. amount \in Nat /\ GoodLedger(ledger[t])
  BY <1>1, ListAddress, TokenLedger DEF WaitInv
<1>5. m = ledger[t] \/ \E permit : m = TryPermit(ledger[t], t, from, WaitingList, amount, permit)
  <2>1. m \in {ledger[t], TryPermit(ledger[t], t, from, WaitingList, amount, permits[1])}
    OBVIOUS
  <2> HIDE DEF m
  <2> QED  BY <2>1
<1> HIDE DEF m
<1>6. TakenEffect(n, ledger[t], from, amount)
  BY <1>1, <1>2, <1>4, <1>5, TakenLedger
<1> HIDE DEF n
<1>7. LedgerOnly(t, n)
  BY <1>1, <1>2, <1>6 DEF LedgerOnly, TakenEffect
<1> HIDE DEF d
<1> QED
  BY <1>1, <1>2, <1>3, <1>6, <1>7 DEF IsTaken

\* Every applyDeposits call applies a good run.
LEMMA ApplyCallsApply ==
    ASSUME WaitInv, ApplyCalls
    PROVE  \E t, run, callContract, reserveBalance : IsApplied(t, run, callContract, reserveBalance)
<1>1. PICK sender \in WaitingRelayers, j \in DOMAIN created :
        \E entries \in SeqOf(Entries, MaxApply) :
            ApplyDeposits(sender, created[j].token, entries, created[j].callContract,
                          created[j].reserveBalance)
  BY Zenon DEF ApplyCalls
<1> DEFINE t == created[j].token
           callContract == created[j].callContract
           reserveBalance == created[j].reserveBalance
<1>2. PICK entries \in SeqOf(Entries, MaxApply) :
            ApplyDeposits(sender, t, entries, callContract, reserveBalance)
  BY <1>1
<1>3. \A i \in DOMAIN created : i \in Nat /\ created[i] \in WaitingData
  BY DEF WaitInv, WaitingTypeOK
<1>4. \A e \in Entries : IsEntry(e)
  <2> TAKE e \in Entries
  <2>1. PICK i, k \in DOMAIN created :
          e = [id |-> i, amount |-> created[k].amount, from |-> created[k].from, to |-> created[k].to]
    BY DEF Entries
  <2>2. i \in Nat /\ created[k].amount \in Nat /\ created[k].to \in Callers
    BY <1>3, ListAddress DEF WaitingData
  <2> QED  BY <2>1, <2>2 DEF IsEntry
<1>5. PICK m \in 0 .. MaxApply : entries \in [1 .. m -> Entries]
  BY DEF SeqOf
<1>6. m \in Nat
  BY WaitingAssumption
<1>7. Len(entries) = m /\ DOMAIN entries = 1 .. m /\ \A k \in DOMAIN entries : IsEntry(entries[k])
  BY <1>4, <1>5, <1>6
<1>8. t \in Tokens
  BY <1>3 DEF WaitingData
<1> HIDE DEF t, callContract, reserveBalance
<1> DEFINE run == ApplyRun(t, entries, callContract, reserveBalance)
<1>9. /\ run.ok
      /\ depositHashes' = [i \in DOMAIN depositHashes |->
                             IF i \in run.taken THEN NoHash ELSE depositHashes[i]]
      /\ applied' = applied \o run.ids
      /\ IF run.params = <<>>
         THEN UNCHANGED bridgeVars
         ELSE BatchDeposit(WaitingList, t, run.params, <<>>, callContract, reserveBalance)
      /\ UNCHANGED <<nextDepositId, created, withdrawn>>
  BY <1>2, Zenon DEF ApplyDeposits
<1>10. GoodRun(run, t, callContract, reserveBalance)
  BY <1>6, <1>7, <1>9, ApplyRunGood DEF WaitInv
<1> HIDE DEF run
<1>11. ASSUME run.params # <<>>
       PROVE  IsDeposit(t, run.params, <<>>, callContract, reserveBalance)
  <2> DEFINE ps == run.params
  <2>1. ps \in Seq(Params)
    BY <1>10 DEF GoodRun, ApplyState
  <2>2. Len(ps) \in Nat /\ DOMAIN ps = 1 .. Len(ps) /\ Len(ps) # 0 /\ \A i \in DOMAIN ps : ps[i] \in Params
    <3> HIDE DEF ps
    <3>1. ps # <<>>
      BY <1>11 DEF ps
    <3> QED  BY <2>1, <3>1
  <2>3. BatchDeposit(WaitingList, t, ps, <<>>, callContract, reserveBalance)
    BY <1>9, <1>11
  <2>4. DepositBatch(ps)
    BY <2>2, ListAddress DEF DepositBatch, Batch, Params
  <2>5. GoodPermits(<<>>)
    BY DEF GoodPermits
  <2>6. /\ Operational /\ CallAllowed(callContract, reserveBalance)
        /\ Deposited(t, ps, <<>>, callContract, reserveBalance)
    BY <2>3, Zenon DEF BatchDeposit
  <2> HIDE DEF ps
  <2>7. IsDeposit(t, ps, <<>>, callContract, reserveBalance)
    BY <1>8, <2>4, <2>5, <2>6 DEF IsDeposit
  <2> QED  BY <2>7 DEF ps
<1>12. IsApplied(t, run, callContract, reserveBalance)
  BY <1>8, <1>9, <1>10, <1>11, Zenon DEF IsApplied
<1> QED
  BY <1>12

\* Every withdraw call gives back a pending deposit to its depositor.
LEMMA WithdrawRefunds ==
    ASSUME WaitInv, WithdrawCalls
    PROVE  \E i : IsRefunded(i)
<1>1. PICK sender \in Callers \cup WaitingRelayers, i \in DOMAIN created, j \in DOMAIN created :
        Withdraw(sender, i, created[j])
  BY Zenon DEF WithdrawCalls
<1> DEFINE d == created[i]
           l == ledger[d.token]
           n == Transferred(l, WaitingList, d.from, d.amount)
<1>2. HashOf(i) # NoHash /\ created[j] = HashOf(i)
  BY <1>1, Zenon DEF Withdraw, MayWithdraw
<1>3. i \in Pending /\ created[j] = d
  BY <1>2 DEF HashOf, Pending, WaitInv, WaitingTypeOK
<1>4. Withdraw(sender, i, d)
  BY <1>1, <1>3
<1>5. d \in WaitingData /\ d.token \in Tokens /\ d.amount \in Nat /\ d.from \in Accounts
      /\ d.from # WaitingList
  BY ListAddress DEF WaitInv, WaitingData
<1> HIDE DEF d
<1>6. /\ Forget(i)
      /\ Transferable(l, WaitingList, d.amount)
      /\ ledger' = [ledger EXCEPT ![d.token] = Transferred(@, WaitingList, d.from, d.amount)]
      /\ withdrawn' = Append(withdrawn, i)
      /\ UNCHANGED <<stateVars, configVars, flowVars, whitelistedCallContracts, now, signedPermits,
                     nextDepositId, created, applied>>
  BY <1>4, Zenon DEF Withdraw, MayWithdraw, Refundee
<1>7. l \in Ledger /\ l \in LoopLedger /\ BridgeClosed(l) /\ ledger \in [Tokens -> Ledger]
  BY <1>5, TokenLedger DEF GoodLedger, WaitInv, BridgeInv, BridgeTypeOK, TokenTypeOK
<1>8. ledger' = [ledger EXCEPT ![d.token] = n]
  BY <1>5, <1>6, <1>7
<1> HIDE DEF l
<1>9. l.balance[WaitingList] >= d.amount
  BY <1>6 DEF Transferable
<1>10. /\ n \in LoopLedger /\ n.allowance = l.allowance
       /\ \A a \in Accounts : n.balance[a] = l.balance[a] - (IF a = WaitingList THEN d.amount ELSE 0)
                                  + (IF a = d.from THEN d.amount ELSE 0)
  BY <1>5, <1>7, ListAddress, TransferredEffect
<1>11. /\ \A a \in Accounts : l.balance[a] \in Nat
       /\ \A a \in Accounts, s \in Spenders : l.allowance[a][s] \in Nat
  BY <1>7, LedgerFacts
<1> HIDE DEF n
<1>12. GoodLedger(n)
  <2>1. \A a \in Accounts : n.balance[a] \in Nat
    BY <1>5, <1>9, <1>10, <1>11
  <2>2. n \in Ledger
    BY <1>10, <1>11, <2>1, LedgerIs
  <2> QED  BY <1>7, <1>10, <2>2 DEF GoodLedger, BridgeClosed
<1>13. LedgerOnly(d.token, n)
  BY <1>5, <1>6, <1>8, <1>12 DEF LedgerOnly
<1>14. IsRefunded(i)
  BY <1>3, <1>6, <1>9, <1>13 DEF IsRefunded, d, l, n
<1> QED
  BY <1>14

\* approveToken only raises the allowance of the bridge.
LEMMA ApproveTokenApproves ==
    ASSUME WaitInv, NEW sender, NEW t \in Tokens, ApproveToken(sender, t)
    PROVE  IsApproved(t)
<1> DEFINE l == ledger[t]
           n == Approved(l, WaitingList, BridgeAddress, MaxUint)
<1>1. l \in Ledger /\ l \in LoopLedger /\ BridgeClosed(l) /\ ledger \in [Tokens -> Ledger]
  BY TokenLedger DEF GoodLedger, WaitInv, BridgeInv, BridgeTypeOK, TokenTypeOK
<1>2. /\ ledger' = [ledger EXCEPT ![t] = Approved(@, WaitingList, BridgeAddress, MaxUint)]
      /\ UNCHANGED <<stateVars, configVars, flowVars, whitelistedCallContracts, now, signedPermits,
                     waitingVars>>
  BY Zenon DEF ApproveToken
<1>3. ledger' = [ledger EXCEPT ![t] = n]
  BY <1>1, <1>2
<1> HIDE DEF l
<1>4. /\ n \in LoopLedger /\ n.balance = l.balance
      /\ n.allowance[WaitingList][BridgeAddress] = MaxUint
      /\ \A a \in Accounts, s \in Spenders :
           (a # WaitingList \/ s # BridgeAddress) => n.allowance[a][s] = l.allowance[a][s]
  BY <1>1, ListAddress, ApprovedEffect
<1>5. /\ \A a \in Accounts : l.balance[a] \in Nat
      /\ \A a \in Accounts, s \in Spenders : l.allowance[a][s] \in Nat
  BY <1>1, LedgerFacts
<1> HIDE DEF n
<1>6. GoodLedger(n)
  <2>1. \A a \in Accounts, s \in Spenders : n.allowance[a][s] \in Nat
    BY <1>4, <1>5, ListAddress
  <2>2. n \in Ledger
    BY <1>4, <1>5, <2>1, LedgerIs
  <2> QED  BY <1>1, <1>4, <2>2, ListAddress DEF GoodLedger, BridgeClosed
<1> QED
  BY <1>2, <1>3, <1>6 DEF IsApproved, LedgerOnly, n, l

\* Every step is one of these.
LEMMA WaitSteps ==
    ASSUME WaitInv, [Next]_vars
    PROVE  \/ \E d : IsTaken(d)
           \/ \E t, run, callContract, reserveBalance : IsApplied(t, run, callContract, reserveBalance)
           \/ \E i : IsRefunded(i)
           \/ \E t : IsApproved(t)
           \/ [BridgeNext]_bridgeVars /\ UNCHANGED waitingVars
<1>1. CASE WaitingDepositCalls
  BY <1>1, WaitingDepositTakes, Zenon
<1>2. CASE ApplyCalls
  BY <1>2, ApplyCallsApply, Zenon
<1>3. CASE WithdrawCalls
  BY <1>3, WithdrawRefunds, Zenon
<1>4. CASE \E sender \in WaitingRelayers, t \in Tokens : ApproveToken(sender, t)
  BY <1>4, ApproveTokenApproves, Zenon
<1>5. CASE BridgeNext /\ UNCHANGED waitingVars
  BY <1>5, Zenon
<1>6. CASE UNCHANGED vars
  BY <1>6 DEF vars
<1> QED
  BY <1>1, <1>2, <1>3, <1>4, <1>5, <1>6 DEF Next, WaitingCalls

-----------------------------------------------------------------------------
\* What is stored, and what is gone.

\* What was made stays as it was made, and what has left does not come back.
GoneForGood ==
    [][\A i \in DOMAIN created : /\ created'[i] = created[i]
                                 /\ i \notin Pending => i \notin Pending']_vars

\* A step takes a new deposit at the next id, or deletes hashes.
Takes ==
    \E data : Recorded(data)

Deletes ==
    /\ UNCHANGED <<nextDepositId, created>>
    /\ \E gone : depositHashes' = [i \in DOMAIN depositHashes |->
                                     IF i \in gone THEN NoHash ELSE depositHashes[i]]

\* Each call does one or the other, or leaves ids and hashes alone.
LEMMA WaitingSteps ==
    ASSUME WaitingTypeOK, [Next]_vars
    PROVE  Takes \/ Deletes \/ UNCHANGED <<nextDepositId, depositHashes, created>>
<1>1. CASE WaitingDepositCalls
  <2>1. PICK sender, t, amount, from, to, callContract, reserveBalance, permits :
          WaitingDeposit(sender, t, amount, from, to, callContract, reserveBalance, permits)
    BY <1>1, Zenon DEF WaitingDepositCalls
  <2> QED
    BY <2>1, Zenon DEF WaitingDeposit, Takes
<1>2. CASE ApplyCalls
  <2>1. PICK sender, t, entries, callContract, reserveBalance :
          ApplyDeposits(sender, t, entries, callContract, reserveBalance)
    BY <1>2, Zenon DEF ApplyCalls
  <2> DEFINE run == ApplyRun(t, entries, callContract, reserveBalance)
  <2>2. /\ UNCHANGED <<nextDepositId, created>>
        /\ depositHashes' = [i \in DOMAIN depositHashes |->
                               IF i \in run.taken THEN NoHash ELSE depositHashes[i]]
    BY <2>1, Zenon DEF ApplyDeposits
  <2> HIDE DEF run
  <2> QED
    BY <2>2, Zenon DEF Deletes
<1>3. CASE WithdrawCalls
  <2>1. PICK sender, id, data : Withdraw(sender, id, data)
    BY <1>3, Zenon DEF WithdrawCalls
  <2>2. /\ UNCHANGED <<nextDepositId, created>>
        /\ depositHashes' = [depositHashes EXCEPT ![id] = NoHash]
    BY <2>1 DEF Withdraw, Forget
  <2>3. depositHashes' = [i \in DOMAIN depositHashes |->
                            IF i \in {id} THEN NoHash ELSE depositHashes[i]]
    BY <2>2
  <2> QED
    BY <2>2, <2>3 DEF Deletes
<1>4. CASE \E sender \in WaitingRelayers, t \in Tokens : ApproveToken(sender, t)
  BY <1>4 DEF ApproveToken, waitingVars, historyVars
<1>5. CASE BridgeNext /\ UNCHANGED waitingVars
  BY <1>5 DEF waitingVars, historyVars
<1>6. CASE UNCHANGED vars
  BY <1>6 DEF vars, waitingVars, historyVars
<1> QED
  BY <1>1, <1>2, <1>3, <1>4, <1>5, <1>6 DEF Next, WaitingCalls

\* Both keep a stored hash the hash of its deposit, and bring none back.
LEMMA WaitingTypeStep ==
    ASSUME WaitingTypeOK, [Next]_vars
    PROVE  /\ WaitingTypeOK'
           /\ \A i \in DOMAIN created : /\ created'[i] = created[i]
                                        /\ i \notin Pending => i \notin Pending'
<1>1. CASE Takes
  <2>1. PICK data : Recorded(data)
    BY <1>1 DEF Takes
  <2> DEFINE n == nextDepositId
  <2>2. /\ n \in Nat /\ DOMAIN depositHashes = 0 .. n - 1 /\ DOMAIN created = 0 .. n - 1
        /\ n \notin 0 .. n - 1 /\ (0 .. n - 1) \cup {n} = 0 .. (n + 1) - 1
    BY DEF WaitingTypeOK
  <2>3. /\ nextDepositId' = n + 1
        /\ depositHashes' = [i \in (0 .. n - 1) \cup {n} |-> IF i = n THEN data ELSE depositHashes[i]]
        /\ created' = [i \in (0 .. n - 1) \cup {n} |-> IF i = n THEN data ELSE created[i]]
    BY <2>1, <2>2 DEF Recorded, WithEntry
  <2>4. n + 1 \in Nat /\ \A i \in Pending : depositHashes[i] = created[i]
    BY DEF WaitingTypeOK
  <2> HIDE DEF n
  <2> QED
    BY <2>2, <2>3, <2>4 DEF WaitingTypeOK, Pending
<1>2. CASE Deletes
  BY <1>2 DEF Deletes, WaitingTypeOK, Pending
<1>3. CASE UNCHANGED <<nextDepositId, depositHashes, created>>
  BY <1>3 DEF WaitingTypeOK, Pending
<1> QED
  BY <1>1, <1>2, <1>3, WaitingSteps

\* A stored hash is that of the deposit made with its id: deposits, batches of any ids and
\* data, withdrawals and whatever happens on the bridge keep it so.
THEOREM WaitingTypeSafety == Spec => []WaitingTypeOK
<1>1. Init => WaitingTypeOK
  BY DEF Init, WaitingTypeOK, Pending
<1>2. WaitingTypeOK /\ [Next]_vars => WaitingTypeOK'
  BY WaitingTypeStep
<1> QED
  BY <1>1, <1>2, PTL DEF Spec

\* A deposit that was applied or withdrawn is never pending again, so that no later batch
\* or withdrawal can move its tokens a second time, and its terms never change.
THEOREM GoneForGoodSafety == Spec => GoneForGood
<1>1. WaitingTypeOK /\ [Next]_vars =>
        [\A i \in DOMAIN created : /\ created'[i] = created[i]
                                   /\ i \notin Pending => i \notin Pending']_vars
  BY WaitingTypeStep
<1> QED
  BY <1>1, WaitingTypeSafety, PTL DEF Spec, GoneForGood

\* The invariants of both contracts.

\* The bridge's invariants survive a transfer of the waiting list's own.
LEMMA LedgerOnlyKeeps ==
    ASSUME BridgeInv, DepositIdsInv, NEW t, NEW n, LedgerOnly(t, n)
    PROVE  BridgeInv' /\ DepositIdsInv'
<1>1. /\ ledger' \in [Tokens -> Ledger]
      /\ \A u \in Tokens : BridgeClosed(ledger'[u])
  BY LedgerReplaced DEF LedgerOnly
<1>2. UNCHANGED <<stateVars, configVars, flowVars, whitelistedCallContracts, now, signedPermits>>
  BY DEF LedgerOnly
<1>3. BridgeInv'
  BY <1>1, <1>2 DEF BridgeInv, BridgeTypeOK, TokenTypeOK, stateVars, configVars, flowVars
<1>4. DepositIdsInv'
  BY <1>2 DEF DepositIdsInv, DepositIdsDense, flowVars
<1> QED
  BY <1>3, <1>4

\* They survive a deposit, whoever makes it.
LEMMA DepositKeepsBoth ==
    ASSUME BridgeInv, DepositIdsInv,
           NEW t, NEW ds, NEW permits, NEW callContract, NEW reserveBalance,
           IsDeposit(t, ds, permits, callContract, reserveBalance)
    PROVE  BridgeInv' /\ DepositIdsInv'
<1>1. /\ Len(ds) \in Nat /\ DOMAIN ds = 1 .. Len(ds)
      /\ Deposited(t, ds, permits, callContract, reserveBalance)
  BY DEF IsDeposit, DepositBatch, Batch
<1>2. DepositIdsInv'
  BY <1>1, DepositedKeepsIds
<1>3. BridgeInv'
  BY DepositKeepsInv
<1> QED
  BY <1>2, <1>3

\* The parts of the invariant that are about the bridge.
LEMMA BridgePart ==
    ASSUME WaitInv, [Next]_vars
    PROVE  BridgeInv' /\ DepositIdsInv'
<1>0. BridgeInv /\ DepositIdsInv
  BY DEF WaitInv
<1>1. ASSUME NEW d, IsTaken(d)
      PROVE  BridgeInv' /\ DepositIdsInv'
  BY <1>0, <1>1, LedgerOnlyKeeps DEF IsTaken
<1>2. ASSUME [BridgeNext]_bridgeVars
      PROVE  BridgeInv' /\ DepositIdsInv'
  BY <1>0, <1>2, BridgeInvStep, DepositIdsInvStep
<1>3. ASSUME NEW t, NEW run, NEW callContract, NEW reserveBalance,
             IsApplied(t, run, callContract, reserveBalance)
      PROVE  BridgeInv' /\ DepositIdsInv'
  <2>1. CASE run.params = <<>>
    <3>1. UNCHANGED bridgeVars
      BY <1>3, <2>1 DEF IsApplied
    <3> QED  BY <1>2, <3>1
  <2>2. CASE run.params # <<>>
    <3>1. IsDeposit(t, run.params, <<>>, callContract, reserveBalance)
      BY <1>3, <2>2 DEF IsApplied
    <3> QED  BY <1>0, <3>1, DepositKeepsBoth
  <2> QED  BY <2>1, <2>2
<1>4. ASSUME NEW i, IsRefunded(i)
      PROVE  BridgeInv' /\ DepositIdsInv'
  BY <1>0, <1>4, LedgerOnlyKeeps DEF IsRefunded
<1>5. ASSUME NEW t, IsApproved(t)
      PROVE  BridgeInv' /\ DepositIdsInv'
  BY <1>0, <1>5, LedgerOnlyKeeps DEF IsApproved
<1> QED
  BY <1>1, <1>2, <1>3, <1>4, <1>5, WaitSteps

\* What taking a deposit does to the ids: the next one is pending, with its data.
TakesNext(d) ==
    LET n == nextDepositId
    IN  /\ n \notin DOMAIN created /\ n \in Nat /\ n < MaxWaiting
        /\ nextDepositId' = n + 1
        /\ DOMAIN created' = DOMAIN created \cup {n}
        /\ created'[n] = d
        /\ Pending' = Pending \cup {n}

\* A taken deposit gets the next id, which no deposit has had.
LEMMA TakenHash ==
    ASSUME WaitInv, NEW d, IsTaken(d)
    PROVE  TakesNext(d)
<1> DEFINE n == nextDepositId
<1>1. /\ n \in Nat /\ DOMAIN depositHashes = 0 .. n - 1 /\ DOMAIN created = 0 .. n - 1
      /\ n \notin 0 .. n - 1
  BY DEF WaitInv, WaitingTypeOK
<1>2. /\ nextDepositId' = n + 1 /\ n < MaxWaiting /\ d # NoHash
      /\ depositHashes' = [i \in (0 .. n - 1) \cup {n} |-> IF i = n THEN d ELSE depositHashes[i]]
      /\ created' = [i \in (0 .. n - 1) \cup {n} |-> IF i = n THEN d ELSE created[i]]
  BY <1>1, WaitingAssumption DEF IsTaken, Recorded, WithEntry
<1> HIDE DEF n
<1>3. Pending' = Pending \cup {n}
  BY <1>1, <1>2 DEF Pending
<1> QED
  BY <1>1, <1>2, <1>3 DEF TakesNext, n

\* A batch deletes the hashes it has collected.
LEMMA AppliedHash ==
    ASSUME WaitInv, NEW t, NEW run, NEW callContract, NEW reserveBalance,
           IsApplied(t, run, callContract, reserveBalance)
    PROVE  Pending' = Pending \ run.taken
  BY DEF IsApplied, Pending

\* A withdrawal deletes its hash.
LEMMA RefundedHash ==
    ASSUME WaitInv, NEW i, IsRefunded(i)
    PROVE  Pending' = Pending \ {i}
  BY DEF IsRefunded, Forget, Pending, WaitInv, WaitingTypeOK

\* The invariant holds when both contracts are deployed, every step keeps it, and so it holds
\* always.
LEMMA WaitInvInit == Init => WaitInv
<1> SUFFICES ASSUME Init
             PROVE  WaitInv
  OBVIOUS
<1>1. BridgeInv /\ DepositIdsInv
  BY BridgeInvInit, DepositIdsInvInit DEF Init
<1>2. WaitingTypeOK
  BY DEF Init, WaitingTypeOK, Pending
<1>3. nextDepositId <= MaxWaiting /\ DOMAIN created = {}
  BY WaitingAssumption DEF Init
<1> QED
  BY <1>1, <1>2, <1>3 DEF WaitInv

\* The step of that invariant, call by call.
LEMMA WaitInvStep == WaitInv /\ [Next]_vars => WaitInv'
<1> SUFFICES ASSUME WaitInv, [Next]_vars
             PROVE  WaitInv'
  OBVIOUS
<1>1. BridgeInv' /\ DepositIdsInv'
  BY BridgePart
<1>2. WaitingTypeOK' /\ \A i \in DOMAIN created : created'[i] = created[i]
  BY WaitingTypeStep DEF WaitInv
<1>3. nextDepositId' <= MaxWaiting /\ \A i \in DOMAIN created' : created'[i] \in WaitingData
  <2>0. nextDepositId <= MaxWaiting /\ \A i \in DOMAIN created : created[i] \in WaitingData
    BY DEF WaitInv
  <2>1. ASSUME NEW d, IsTaken(d)
        PROVE  nextDepositId' <= MaxWaiting /\ \A i \in DOMAIN created' : created'[i] \in WaitingData
    <3>1. TakesNext(d) /\ d \in WaitingData
      BY <2>1, TakenHash DEF IsTaken
    <3> QED  BY <1>2, <2>0, <3>1, WaitingAssumption DEF TakesNext
  <2>2. CASE UNCHANGED <<nextDepositId, created>>
    BY <2>0, <2>2
  <2>3. ASSUME NEW t, NEW run, NEW callContract, NEW reserveBalance,
               IsApplied(t, run, callContract, reserveBalance)
        PROVE  UNCHANGED <<nextDepositId, created>>
    BY <2>3 DEF IsApplied
  <2>4. ASSUME NEW i, IsRefunded(i)
        PROVE  UNCHANGED <<nextDepositId, created>>
    BY <2>4 DEF IsRefunded
  <2>5. ASSUME NEW t, IsApproved(t)
        PROVE  UNCHANGED <<nextDepositId, created>>
    BY <2>5 DEF IsApproved, waitingVars, historyVars
  <2>6. CASE UNCHANGED waitingVars
    BY <2>2, <2>6 DEF waitingVars, historyVars
  <2> QED  BY <2>1, <2>2, <2>3, <2>4, <2>5, <2>6, WaitSteps
<1> QED
  BY <1>1, <1>2, <1>3 DEF WaitInv

\* The invariant of the contract and the bridge holds in every state.
LEMMA WaitInvariant == Spec => []WaitInv
  BY WaitInvInit, WaitInvStep, PTL DEF Spec

-----------------------------------------------------------------------------
\* What the contract owes.

\* The amounts of the deposits c[i], i in S, together; and those pending of a token.
Worth(c, S) == SumFunctionOnSet([i \in S |-> c[i].amount], S)

PendingOf(t) == {i \in Pending : created[i].token = t}

\* Worth is a number.
LEMMA WorthType ==
    ASSUME NEW S, IsFiniteSet(S), NEW c, \A i \in S : c[i].amount \in Nat
    PROVE  Worth(c, S) \in Nat
<1> DEFINE f == [i \in S |-> c[i].amount]
<1>1. \A i \in S : f[i] \in Nat
  OBVIOUS
<1> HIDE DEF f
<1>2. SumFunctionOnSet(f, S) \in Nat
  BY ONLY <1>1, IsFiniteSet(S), SumNonNegative
<1> QED
  BY <1>2 DEF Worth, f

\* It depends on the deposits it is about only.
LEMMA WorthSame ==
    ASSUME NEW S, NEW b, NEW c, \A i \in S : b[i] = c[i]
    PROVE  Worth(b, S) = Worth(c, S)
<1>1. [i \in S |-> b[i].amount] = [i \in S |-> c[i].amount]
  OBVIOUS
<1> QED
  BY <1>1 DEF Worth

\* Deposits that leave take what they are worth with them.
LEMMA WorthSplit ==
    ASSUME NEW S, IsFiniteSet(S), NEW c, \A i \in S : c[i].amount \in Nat, NEW R \in SUBSET S
    PROVE  Worth(c, S) = Worth(c, R) + Worth(c, S \ R)
<1> DEFINE f == [i \in S |-> c[i].amount]
           g(T) == [i \in T |-> c[i].amount]
<1>1. IsFiniteSet(R) /\ IsFiniteSet(S \ R) /\ R \cap (S \ R) = {} /\ R \cup (S \ R) = S
  BY FS_Subset
<1>2. \A i \in R \cup (S \ R) : f[i] \in Int
  OBVIOUS
<1>3. /\ \A i \in R : f[i] \in Int /\ g(R)[i] = f[i]
      /\ \A i \in S \ R : f[i] \in Int /\ g(S \ R)[i] = f[i]
  OBVIOUS
<1> HIDE DEF f, g
<1>4. SumFunctionOnSet(f, R \cup (S \ R)) = SumFunctionOnSet(f, R) + SumFunctionOnSet(f, S \ R)
  BY ONLY <1>1, <1>2, SumDisjoint
<1>5. SumFunctionOnSet(g(R), R) = SumFunctionOnSet(f, R)
  BY ONLY <1>1, <1>3, SumEqual
<1>6. SumFunctionOnSet(g(S \ R), S \ R) = SumFunctionOnSet(f, S \ R)
  BY ONLY <1>1, <1>3, SumEqual
<1> QED
  BY <1>1, <1>4, <1>5, <1>6 DEF Worth, f, g

\* One deposit is worth its amount.
LEMMA WorthOne ==
    ASSUME NEW c, NEW i, c[i].amount \in Nat
    PROVE  Worth(c, {i}) = c[i].amount
<1> DEFINE f == [j \in {i} |-> c[j].amount]
<1>1. IsFiniteSet({}) /\ (\A x \in {} : f[x] \in Int) /\ i \notin {} /\ f[i] \in Int /\ f[i] = c[i].amount
  BY FS_EmptySet
<1> HIDE DEF f
<1>2. SumFunctionOnSet(f, {} \cup {i}) = f[i] + SumFunctionOnSet(f, {})
  BY ONLY <1>1, SumAdd
<1>3. SumFunctionOnSet(f, {}) = 0 /\ {} \cup {i} = {i}
  BY SumEmpty
<1>4. SumFunctionOnSet(f, {i}) = c[i].amount
  BY <1>1, <1>2, <1>3
<1> QED
  BY <1>4 DEF Worth, f

\* A deposit that comes adds its amount.
LEMMA WorthAdd ==
    ASSUME NEW S, IsFiniteSet(S), NEW c, \A i \in S : c[i].amount \in Nat,
           NEW z, z \notin S, c[z].amount \in Nat
    PROVE  Worth(c, S \cup {z}) = Worth(c, S) + c[z].amount
<1> DEFINE R == S \cup {z}
<1>1. IsFiniteSet(R) /\ S \in SUBSET R /\ R \ S = {z} /\ \A i \in R : c[i].amount \in Nat
  BY FS_AddElement
<1> HIDE DEF R
<1>2. Worth(c, R) = Worth(c, S) + Worth(c, R \ S)
  BY <1>1, WorthSplit
<1> QED
  BY <1>1, <1>2, WorthOne DEF R

\* Facts about the deposits pending that the proofs below use.
LEMMA PendingFacts ==
    ASSUME WaitInv, NEW t
    PROVE  /\ Pending \subseteq DOMAIN created
           /\ IsFiniteSet(PendingOf(t)) /\ IsFiniteSet(DOMAIN created)
           /\ \A i \in DOMAIN created : /\ created[i].amount \in Nat /\ created[i].token \in Tokens
                                        /\ created[i].from \in Callers
           /\ Worth(created, PendingOf(t)) \in Nat
<1>1. /\ nextDepositId \in Nat /\ DOMAIN created = 0 .. nextDepositId - 1
      /\ Pending \subseteq DOMAIN created
  BY DEF WaitInv, WaitingTypeOK, Pending
<1>2. IsFiniteSet(DOMAIN created)
  <2>1. IsFiniteSet(0 .. nextDepositId - 1)
    BY <1>1, FS_Interval
  <2> QED  BY <1>1, <2>1
<1>3. PendingOf(t) \subseteq DOMAIN created
  BY <1>1 DEF PendingOf
<1>4. IsFiniteSet(PendingOf(t))
  BY <1>2, <1>3, FS_Subset
<1>5. \A i \in DOMAIN created : /\ created[i].amount \in Nat /\ created[i].token \in Tokens
                                /\ created[i].from \in Callers
  BY ListAddress DEF WaitInv, WaitingData
<1>6. Worth(created, PendingOf(t)) \in Nat
  BY <1>3, <1>4, <1>5, WorthType
<1> QED
  BY <1>1, <1>2, <1>4, <1>5, <1>6

\* What the contract owes, in terms of what was asked of it.
LEMMA OwedIs == WaitInv => \A t \in Tokens : Owed(t) = Worth(created, PendingOf(t))
<1> SUFFICES ASSUME WaitInv, NEW t \in Tokens
             PROVE  Owed(t) = Worth(created, PendingOf(t))
  OBVIOUS
<1> DEFINE f == [i \in Pending |-> depositHashes[i].amount]
           S == PendingOf(t)
           g == [i \in S |-> created[i].amount]
<1>1. \A i \in Pending : depositHashes[i] = created[i]
  BY DEF WaitInv, WaitingTypeOK
<1>2. {i \in Pending : depositHashes[i].token = t} = S
  BY <1>1 DEF PendingOf
<1>3. IsFiniteSet(S) /\ \A i \in S : f[i] \in Int /\ g[i] = f[i]
  <2>1. /\ IsFiniteSet(S) /\ Pending \subseteq DOMAIN created
        /\ \A i \in DOMAIN created : created[i].amount \in Nat
    BY PendingFacts
  <2>2. \A i \in S : i \in Pending /\ created[i].amount \in Nat /\ depositHashes[i] = created[i]
    BY <1>1, <2>1 DEF PendingOf
  <2> HIDE DEF S
  <2> QED  BY <2>1, <2>2
<1> HIDE DEF f, g
<1>4. SumFunctionOnSet(g, S) = SumFunctionOnSet(f, S)
  <2> HIDE DEF S
  <2> QED  BY ONLY <1>3, SumEqual
<1> HIDE DEF S
<1> QED
  BY <1>2, <1>4 DEF Owed, Worth, f, g, S

\* What a run over a batch has collected is worth what the batch moves.
LEMMA RunWorth ==
    ASSUME WaitInv, NEW run, NEW t, NEW callContract, NEW reserveBalance,
           GoodRun(run, t, callContract, reserveBalance)
    PROVE  /\ run.taken \subseteq PendingOf(t)
           /\ IsFiniteSet(run.taken) /\ Worth(created, run.taken) \in Nat
           /\ TotalOf(run.params) = Worth(created, run.taken)
           /\ \A k \in 1 .. Len(run.params) : run.params[k].from = WaitingList /\ run.params[k].amount \in Nat
           /\ Len(run.params) = 0 => run.taken = {}
<1> DEFINE n == Len(run.params)
           h == run.ids
           R == run.taken
           f == [i \in R |-> created[i].amount]
           g == AmountsOf(run.params)
<1>1. /\ n = Len(run.ids) /\ run.ids \in Seq(Nat) /\ run.params \in Seq(Params) /\ n \in Nat
  BY DEF GoodRun, ApplyState
<1>2. /\ R \subseteq Pending
      /\ \A i, j \in 1 .. n : h[i] = h[j] => i = j
      /\ \A k \in 1 .. n : h[k] \in R
      /\ \A x \in R : \E k \in 1 .. n : x = h[k]
      /\ \A k \in 1 .. n : /\ run.params[k] = [from |-> WaitingList, to |-> created[h[k]].to,
                                               amount |-> created[h[k]].amount]
                           /\ created[h[k]].token = t
  BY <1>1 DEF GoodRun
<1>3. R \subseteq PendingOf(t)
  <2> SUFFICES ASSUME NEW x \in R
               PROVE  x \in PendingOf(t)
    OBVIOUS
  <2>1. PICK k \in 1 .. n : x = h[k]
    BY <1>2
  <2>2. created[h[k]].token = t /\ x \in Pending
    BY <1>2
  <2> QED  BY <2>1, <2>2 DEF PendingOf
<1>4. IsFiniteSet(R) /\ \A i \in R : created[i].amount \in Nat
  BY <1>2, <1>3, PendingFacts, FS_Subset
<1>5. OneToOne(h, 1 .. n, R)
  BY <1>2 DEF OneToOne
<1>6. ASSUME NEW k \in 1 .. n
      PROVE  /\ h[k] \in R /\ created[h[k]].amount \in Nat
             /\ run.params[k].from = WaitingList /\ run.params[k].amount = created[h[k]].amount
  <2>1. h[k] \in R
    BY <1>2
  <2>2. run.params[k] = [from |-> WaitingList, to |-> created[h[k]].to, amount |-> created[h[k]].amount]
    BY <1>2
  <2> QED  BY <1>4, <2>1, <2>2
<1>7. AgreeAlong(f, h, g, 1 .. n)
  <2> SUFFICES ASSUME NEW k \in 1 .. n
               PROVE  g[k] \in Int /\ f[h[k]] = g[k]
    BY DEF AgreeAlong
  <2> HIDE DEF h, R
  <2> QED  BY <1>6 DEF AmountsOf
<1>8. IsFiniteSet(1 .. n)
  BY <1>1, FS_Interval
<1>9. n = 0 => R = {}
  BY <1>2
<1>10. \A k \in 1 .. n : run.params[k].from = WaitingList /\ run.params[k].amount \in Nat
  BY <1>6
<1>11. Worth(created, R) \in Nat
  BY <1>4, WorthType
<1> HIDE DEF n, h, R, f, g
<1>12. SumFunctionOnSet(f, R) = SumFunctionOnSet(g, 1 .. n)
  BY ONLY <1>5, <1>7, <1>8, SumImage
<1> QED
  BY <1>3, <1>4, <1>9, <1>10, <1>11, <1>12 DEF TotalOf, Worth, n, R, f, g

\* A batch takes out of the contract, and brings to the bridge, what it has collected.
LEMMA AppliedBalance ==
    ASSUME WaitInv, NEW t, NEW run, NEW callContract, NEW reserveBalance,
           IsApplied(t, run, callContract, reserveBalance)
    PROVE  LET w == Worth(created, run.taken)
           IN  /\ t \in Tokens
               /\ \A u \in Tokens \ {t} : ledger'[u] = ledger[u]
               /\ ledger'[t].balance[WaitingList] = ledger[t].balance[WaitingList] - w
               /\ ledger'[t].balance[BridgeAddress] = ledger[t].balance[BridgeAddress] + w
<1> DEFINE w == Worth(created, run.taken)
           ps == run.params
           n == Len(ps)
           f == AmountsOf(ps)
           g == DepositChange(ps, WaitingList)
<1>1. t \in Tokens /\ GoodRun(run, t, callContract, reserveBalance) /\ BridgeInv
  BY DEF IsApplied, WaitInv
<1>2. /\ TotalOf(ps) = w /\ w \in Nat
      /\ \A k \in 1 .. n : ps[k].from = WaitingList /\ ps[k].amount \in Nat
      /\ n = 0 => run.taken = {}
      /\ n \in Nat
  <2>1. ps \in Seq(Params)
    BY <1>1 DEF GoodRun, ApplyState
  <2>2. n \in Nat
    BY <2>1
  <2> QED  BY <1>1, <2>2, RunWorth
<1>3. \A u \in Tokens : ledger[u].balance[WaitingList] \in Nat /\ ledger[u].balance[BridgeAddress] \in Nat
  BY <1>1, ListAddress DEF BridgeInv, BridgeTypeOK, TokenTypeOK, Ledger
<1>4. CASE ps = <<>>
  <2>1. w = 0
    <3>1. run.taken = {}
      BY <1>2, <1>4
    <3> QED  BY <3>1, SumEmpty DEF Worth
  <2>2. UNCHANGED ledger
    BY <1>4 DEF IsApplied, bridgeVars, tokenVars
  <2> QED  BY <1>1, <1>3, <2>1, <2>2
<1>5. CASE ps # <<>>
  <2>1. IsDeposit(t, ps, <<>>, callContract, reserveBalance)
    BY <1>5 DEF IsApplied
  <2>2. /\ \A u \in Tokens \ {t} : ledger'[u] = ledger[u]
        /\ \A a \in Accounts : ledger'[t].balance[a] = ledger[t].balance[a]
                                 + SumFunctionOnSet(DepositChange(ps, a), 1 .. Len(ps))
    BY <1>1, <2>1, DepositedEffect
  <2>3. ledger'[t].balance[BridgeAddress] = ledger[t].balance[BridgeAddress] + TotalOf(ps)
    BY <1>1, <2>1, DepositReceived
  <2>4. IsFiniteSet(1 .. n) /\ \A k \in 1 .. n : f[k] \in Int /\ g[k] = - f[k]
    <3>1. IsFiniteSet(1 .. n)
      BY <1>2, FS_Interval
    <3>2. \A k \in 1 .. n : f[k] \in Int /\ g[k] = - f[k]
      BY <1>2, ListAddress DEF AmountsOf, DepositChange
    <3> QED  BY <3>1, <3>2
  <2>5. ledger'[t].balance[WaitingList] = ledger[t].balance[WaitingList] + SumFunctionOnSet(g, 1 .. n)
    BY <2>2, ListAddress
  <2> HIDE DEF f, g, n
  <2>6. SumFunctionOnSet(g, 1 .. n) = - SumFunctionOnSet(f, 1 .. n)
    BY ONLY <2>4, SumOpposite
  <2>7. SumFunctionOnSet(f, 1 .. n) = w
    BY <1>2 DEF TotalOf, f, n
  <2> HIDE DEF w
  <2> QED  BY <1>1, <1>2, <1>3, <2>2, <2>3, <2>5, <2>6, <2>7 DEF w
<1> QED
  BY <1>4, <1>5

\* What a waiting deposit brings into the contract.
LEMMA TakenBalance ==
    ASSUME WaitInv, NEW d, IsTaken(d)
    PROVE  /\ d.token \in Tokens /\ d.amount \in Nat
           /\ \A u \in Tokens \ {d.token} : ledger'[u] = ledger[u]
           /\ ledger'[d.token].balance[WaitingList] = ledger[d.token].balance[WaitingList] + d.amount
<1>1. PICK n : LedgerOnly(d.token, n) /\ TakenEffect(n, ledger[d.token], d.from, d.amount)
  BY DEF IsTaken
<1>2. d.token \in Tokens /\ d.amount \in Nat /\ d.from # WaitingList
  BY ListAddress DEF IsTaken, WaitingData
<1>3. ledger'[d.token] = n /\ \A u \in Tokens \ {d.token} : ledger'[u] = ledger[u]
  BY <1>1, <1>2, LedgerReplaced DEF LedgerOnly, WaitInv
<1>4. ledger[d.token].balance[WaitingList] \in Nat
  BY <1>2, ListAddress, TokenLedger DEF WaitInv, GoodLedger, Ledger
<1> QED
  BY <1>1, <1>2, <1>3, <1>4, ListAddress DEF TakenEffect

\* What a withdrawal takes out of it, and to whom it goes.
LEMMA RefundedBalance ==
    ASSUME WaitInv, NEW i, IsRefunded(i)
    PROVE  LET d == created[i]
           IN  /\ d.token \in Tokens /\ d.amount \in Nat
               /\ \A u \in Tokens \ {d.token} : ledger'[u] = ledger[u]
               /\ ledger'[d.token].balance[WaitingList] = ledger[d.token].balance[WaitingList] - d.amount
               /\ ledger'[d.token].balance[d.from] = ledger[d.token].balance[d.from] + d.amount
<1> DEFINE d == created[i]
           l == ledger[d.token]
           n == Transferred(l, WaitingList, d.from, d.amount)
<1>1. d.token \in Tokens /\ d.amount \in Nat /\ d.from # WaitingList /\ d.from \in Accounts
  BY PendingFacts, ListAddress DEF IsRefunded
<1>2. LedgerOnly(d.token, n)
  BY DEF IsRefunded
<1>3. l \in LoopLedger /\ l.balance[WaitingList] \in Nat /\ l.balance[d.from] \in Nat
  BY <1>1, ListAddress, TokenLedger DEF WaitInv, GoodLedger, Ledger
<1> HIDE DEF d
<1>4. ledger'[d.token] = n /\ \A u \in Tokens \ {d.token} : ledger'[u] = ledger[u]
  BY <1>1, <1>2, LedgerReplaced DEF LedgerOnly, WaitInv
<1> HIDE DEF l
<1>5. \A a \in Accounts : n.balance[a] = l.balance[a] - (IF a = WaitingList THEN d.amount ELSE 0)
                            + (IF a = d.from THEN d.amount ELSE 0)
  BY <1>1, <1>3, ListAddress, TransferredEffect
<1> HIDE DEF n
<1> QED
  BY <1>1, <1>3, <1>4, <1>5, ListAddress DEF d, l

\* An approval moves no tokens.
LEMMA ApprovedBalance ==
    ASSUME WaitInv, NEW t, IsApproved(t)
    PROVE  \A u \in Tokens : ledger'[u].balance = ledger[u].balance
<1> DEFINE n == Approved(ledger[t], WaitingList, BridgeAddress, MaxUint)
<1>1. t \in Tokens /\ LedgerOnly(t, n)
  BY DEF IsApproved, LedgerOnly
<1>2. ledger[t] \in LoopLedger
  BY <1>1, TokenLedger DEF WaitInv
<1>3. n.balance = ledger[t].balance
  BY <1>2, ListAddress, ApprovedEffect
<1> HIDE DEF n
<1>4. ledger'[t] = n /\ \A u \in Tokens \ {t} : ledger'[u] = ledger[u]
  BY <1>1, LedgerReplaced DEF LedgerOnly, WaitInv
<1> QED
  BY <1>3, <1>4

\* What was made stays as it was made.
LEMMA CreatedStays ==
    ASSUME WaitInv, [Next]_vars
    PROVE  /\ \A i \in DOMAIN created : i \in DOMAIN created' /\ created'[i] = created[i]
           /\ Pending' \subseteq DOMAIN created'
<1>1. /\ \A i \in DOMAIN created : created'[i] = created[i]
      /\ WaitingTypeOK'
  BY WaitingTypeStep DEF WaitInv
<1>2. Pending' \subseteq DOMAIN created'
  BY <1>1 DEF Pending, WaitingTypeOK
<1>3. UNCHANGED created \/ \E d : IsTaken(d)
  BY WaitSteps DEF IsApplied, IsRefunded, IsApproved, waitingVars, historyVars
<1>4. ASSUME NEW d, IsTaken(d)
      PROVE  DOMAIN created \subseteq DOMAIN created'
  <2>1. TakesNext(d)
    BY <1>4, TakenHash
  <2> QED  BY <2>1 DEF TakesNext
<1> QED
  BY <1>1, <1>2, <1>3, <1>4

\* OwedIs in the next state.
LEMMA OwedNext == WaitInv' => \A t \in Tokens : Owed(t)' = Worth(created', PendingOf(t)')
<1>1. (WaitInv => \A t \in Tokens : Owed(t) = Worth(created, PendingOf(t)))'
  BY OwedIs, PTL
<1> QED
  BY <1>1 DEF Worth

\* The tokens that cover what is owed, and all that is owed, are taken and given together.
LEMMA SolventStep ==
    ASSUME WaitInv, [Next]_vars, Solvent
    PROVE  Solvent'
<1> SUFFICES ASSUME NEW t \in Tokens
             PROVE  ledger'[t].balance[WaitingList] >= Owed(t)'
  BY DEF Solvent
<1> DEFINE held == ledger[t].balance[WaitingList]
           next == ledger'[t].balance[WaitingList]
           P == PendingOf(t)
           Q == PendingOf(t)'
<1>1. Owed(t)' = Worth(created', Q) /\ Owed(t) = Worth(created, P)
  BY WaitInvStep, OwedNext, OwedIs
<1>2. held >= Worth(created, P) /\ held \in Nat
  BY <1>1, ListAddress, TokenLedger DEF Solvent, WaitInv, GoodLedger, Ledger
<1>3. /\ IsFiniteSet(P) /\ Worth(created, P) \in Nat /\ P \subseteq DOMAIN created
      /\ \A i \in P : created[i].amount \in Nat
  <2>1. P \subseteq Pending
    BY DEF PendingOf
  <2> HIDE DEF P
  <2>2. /\ IsFiniteSet(PendingOf(t)) /\ Worth(created, PendingOf(t)) \in Nat
        /\ Pending \subseteq DOMAIN created /\ \A i \in DOMAIN created : created[i].amount \in Nat
    BY PendingFacts
  <2> QED  BY <2>1, <2>2 DEF P
<1>4. \A i \in DOMAIN created : i \in DOMAIN created' /\ created'[i] = created[i]
  BY CreatedStays
<1>5. Q = {i \in Pending' : created'[i].token = t}
  BY DEF PendingOf
<1> HIDE DEF Q
<1>6. ASSUME Q = P, ledger'[t].balance = ledger[t].balance \/ next >= held
      PROVE  next >= Owed(t)'
  <2>1. Worth(created', P) = Worth(created, P)
    BY <1>3, <1>4, WorthSame
  <2>2. next >= held
    BY <1>2, <1>6
  <2>3. Owed(t)' = Worth(created, P)
    BY <1>1, <1>6, <2>1
  <2>4. next \in Nat
    BY WaitInvStep, ListAddress DEF WaitInv, BridgeInv, BridgeTypeOK, TokenTypeOK, Ledger
  <2> HIDE DEF P, held, next
  <2> QED  BY <1>2, <1>3, <2>2, <2>3, <2>4
<1>7. ASSUME NEW d, IsTaken(d)
      PROVE  next >= Owed(t)'
  <2> DEFINE n == nextDepositId
  <2>1. /\ n \notin DOMAIN created /\ n \in DOMAIN created' /\ created'[n] = d
        /\ Pending' = Pending \cup {n} /\ Pending \subseteq DOMAIN created
    BY <1>7, TakenHash, PendingFacts DEF TakesNext
  <2>2. /\ d.token \in Tokens /\ d.amount \in Nat
        /\ \A u \in Tokens \ {d.token} : ledger'[u] = ledger[u]
        /\ ledger'[d.token].balance[WaitingList] = ledger[d.token].balance[WaitingList] + d.amount
    BY <1>7, TakenBalance
  <2>3. CASE d.token = t
    <3>1. Q = P \cup {n} /\ n \notin P
      BY <1>3, <1>4, <1>5, <2>1, <2>3 DEF PendingOf
    <3>2. /\ Worth(created', P) = Worth(created, P)
          /\ \A i \in P : created'[i].amount \in Nat
      BY <1>3, <1>4, WorthSame
    <3>3. Worth(created', P \cup {n}) = Worth(created', P) + created'[n].amount
      <4> HIDE DEF P, n
      <4> QED  BY <1>3, <2>1, <2>2, <3>1, <3>2, WorthAdd
    <3> QED  BY <1>1, <1>2, <1>3, <2>1, <2>2, <2>3, <3>1, <3>2, <3>3
  <2>4. CASE d.token # t
    <3>1. Q = P
      BY <1>4, <1>5, <2>1, <2>4 DEF PendingOf
    <3> QED  BY <1>6, <2>2, <2>4, <3>1
  <2> QED  BY <2>3, <2>4
<1>8. ASSUME NEW u, NEW run, NEW callContract, NEW reserveBalance,
             IsApplied(u, run, callContract, reserveBalance)
      PROVE  next >= Owed(t)'
  <2> DEFINE w == Worth(created, run.taken)
  <2>1. /\ \A v \in Tokens \ {u} : ledger'[v] = ledger[v]
        /\ ledger'[u].balance[WaitingList] = ledger[u].balance[WaitingList] - w
    BY <1>8, AppliedBalance
  <2>2. run.taken \subseteq PendingOf(u) /\ w \in Nat
    BY <1>8, RunWorth DEF IsApplied
  <2>3. Pending' = Pending \ run.taken /\ UNCHANGED created
    BY <1>8, AppliedHash DEF IsApplied
  <2>4. CASE u = t
    <3>1. Q = P \ run.taken /\ run.taken \in SUBSET P
      BY <1>5, <2>2, <2>3, <2>4 DEF PendingOf
    <3>2. Worth(created, P) = w + Worth(created, P \ run.taken)
      <4> HIDE DEF P
      <4> QED  BY <1>3, <3>1, WorthSplit
    <3>3. Worth(created, P \ run.taken) \in Nat
      <4>1. IsFiniteSet(P \ run.taken)
        BY <1>3, FS_Subset
      <4> HIDE DEF P
      <4> QED  BY <1>3, <4>1, WorthType
    <3> HIDE DEF P, w
    <3> QED  BY <1>1, <1>2, <1>3, <2>1, <2>2, <2>3, <2>4, <3>1, <3>2, <3>3
  <2>5. CASE u # t
    <3>1. Q = P
      BY <1>5, <2>2, <2>3, <2>5 DEF PendingOf
    <3> QED  BY <1>6, <2>1, <2>5, <3>1
  <2> QED  BY <2>4, <2>5
<1>9. ASSUME NEW i, IsRefunded(i)
      PROVE  next >= Owed(t)'
  <2> DEFINE d == created[i]
  <2>1. /\ \A v \in Tokens \ {d.token} : ledger'[v] = ledger[v]
        /\ ledger'[d.token].balance[WaitingList] = ledger[d.token].balance[WaitingList] - d.amount
        /\ d.amount \in Nat
    BY <1>9, RefundedBalance
  <2>2. i \in Pending /\ Pending' = Pending \ {i} /\ UNCHANGED created
    BY <1>9, RefundedHash DEF IsRefunded
  <2>3. CASE d.token = t
    <3>1. Q = P \ {i} /\ {i} \in SUBSET P
      BY <1>5, <2>2, <2>3 DEF PendingOf
    <3>2. Worth(created, P) = Worth(created, {i}) + Worth(created, P \ {i})
      <4> HIDE DEF P
      <4> QED  BY <1>3, <3>1, WorthSplit
    <3>3. Worth(created, P \ {i}) \in Nat
      <4>1. IsFiniteSet(P \ {i})
        BY <1>3, FS_Subset
      <4> HIDE DEF P
      <4> QED  BY <1>3, <4>1, WorthType
    <3>4. Worth(created, {i}) = d.amount
      BY <2>1, WorthOne
    <3> HIDE DEF P
    <3> QED  BY <1>1, <1>2, <1>3, <2>1, <2>2, <2>3, <3>1, <3>2, <3>3, <3>4
  <2>4. CASE d.token # t
    <3>1. Q = P
      BY <1>5, <2>2, <2>4 DEF PendingOf
    <3> QED  BY <1>6, <2>1, <2>4, <3>1
  <2> QED  BY <2>3, <2>4
<1>10. CASE UNCHANGED waitingVars
  <2>1. Q = P
    BY <1>5, <1>10 DEF PendingOf, Pending, waitingVars, historyVars
  <2>2. CASE [BridgeNext]_bridgeVars
    BY <1>6, <2>1, <2>2, BridgeKeepsCustody DEF WaitInv
  <2>3. ASSUME NEW u, IsApproved(u)
        PROVE  next >= Owed(t)'
    BY <1>6, <2>1, <2>3, ApprovedBalance
  <2> QED  BY <1>7, <1>8, <1>9, <2>2, <2>3, WaitSteps
<1>11. ASSUME NEW u, IsApproved(u)
       PROVE  UNCHANGED waitingVars
  BY <1>11 DEF IsApproved
<1> QED
  BY <1>7, <1>8, <1>9, <1>10, <1>11, WaitSteps

\* Whatever the bridge, its admin, the relayers and the depositors do, the contract holds what
\* all the deposits still pending are worth, in every token.
THEOREM SolventSafety == Spec => []Solvent
<1>1. Init => Solvent
  <2> SUFFICES ASSUME Init, NEW t \in Tokens
               PROVE  ledger[t].balance[WaitingList] >= Owed(t)
    BY DEF Solvent
  <2>1. WaitInv
    BY WaitInvInit
  <2>2. Pending = {}
    BY DEF Init, Pending
  <2>3. Owed(t) = 0
    BY <2>2, SumEmpty DEF Owed
  <2>4. ledger[t].balance[WaitingList] \in Nat
    BY <2>1, ListAddress, TokenLedger DEF WaitInv, GoodLedger, Ledger
  <2> QED  BY <2>3, <2>4
<1>2. WaitInv /\ [Next]_vars /\ Solvent => Solvent'
  BY SolventStep
<1> QED
  BY <1>1, <1>2, WaitInvariant, PTL DEF Spec

-----------------------------------------------------------------------------
\* What is owed for one deposit is part of what is owed.
LEMMA WorthPart ==
    ASSUME NEW S, IsFiniteSet(S), NEW c, \A i \in S : c[i].amount \in Nat, NEW z \in S
    PROVE  c[z].amount <= Worth(c, S)
<1>1. IsFiniteSet(S \ {z}) /\ z \notin S \ {z} /\ (S \ {z}) \cup {z} = S /\ c[z].amount \in Nat
  BY FS_RemoveElement
<1>2. Worth(c, S \ {z}) \in Nat
  BY <1>1, WorthType
<1>3. Worth(c, (S \ {z}) \cup {z}) = Worth(c, S \ {z}) + c[z].amount
  BY <1>1, WorthAdd
<1>4. Worth(c, S) = Worth(c, S \ {z}) + c[z].amount
  <2> DEFINE W(T) == Worth(c, T)
  <2>1. W((S \ {z}) \cup {z}) = W(S)
    BY <1>1, Zenon
  <2> QED  BY <1>3, <2>1
<1>5. \A w, v, x \in Nat : w = v + x => x <= w
  OBVIOUS
<1>6. Worth(c, S) \in Nat
  BY <1>1, <1>2, <1>4
<1> QED
  BY <1>1, <1>2, <1>4, <1>5, <1>6

\* A pending deposit is refundable in every state in which its token is not paused, whatever
\* became of the bridge, of its limits and of the whitelist: the contract holds all it owes.
THEOREM AlwaysRefundableSafety == Spec => []AlwaysRefundable
<1>1. WaitInv /\ Solvent => AlwaysRefundable
  <2> SUFFICES ASSUME WaitInv, Solvent, NEW i \in Pending, ~ ledger[created[i].token].paused
               PROVE  MayWithdraw(created[i].from, i, created[i])
    BY DEF AlwaysRefundable
  <2> DEFINE d == created[i]
  <2>1. HashOf(i) # NoHash /\ d = HashOf(i)
    BY DEF WaitInv, WaitingTypeOK, Pending, HashOf
  <2>2. /\ IsFiniteSet(PendingOf(d.token)) /\ d.token \in Tokens
        /\ \A j \in PendingOf(d.token) : created[j].amount \in Nat
    BY PendingFacts DEF PendingOf
  <2>3. i \in PendingOf(d.token)
    BY DEF PendingOf
  <2>4. d.amount <= Worth(created, PendingOf(d.token))
    BY <2>2, <2>3, WorthPart
  <2>5. ledger[d.token].balance[WaitingList] >= Worth(created, PendingOf(d.token))
    BY <2>2, OwedIs DEF Solvent
  <2>6. /\ ledger[d.token].balance[WaitingList] \in Nat /\ d.amount \in Nat
        /\ Worth(created, PendingOf(d.token)) \in Nat
    BY <2>2, <2>3, PendingFacts, ListAddress, TokenLedger DEF WaitInv, GoodLedger, Ledger
  <2>7. Transferable(ledger[d.token], WaitingList, d.amount)
    <3> HIDE DEF d
    <3>1. ledger[d.token].balance[WaitingList] >= d.amount
      BY <2>4, <2>5, <2>6
    <3> QED  BY <3>1 DEF Transferable, d
  <2> QED
    BY <2>1, <2>7 DEF MayWithdraw
<1> QED
  BY <1>1, WaitInvariant, SolventSafety, PTL

-----------------------------------------------------------------------------
\* The ids that have left.

\* The ids that have left, each in one of the two histories and once there.
LeftInv ==
    /\ applied \in Seq(Nat) /\ withdrawn \in Seq(Nat)
    /\ Distinct(applied) /\ Distinct(withdrawn)
    /\ \A x : ~ (InSeq(x, applied) /\ InSeq(x, withdrawn))
    /\ \A x : InSeq(x, applied) \/ InSeq(x, withdrawn) <=> x \in DOMAIN created \ Pending

\* What a concatenation holds.
LEMMA Joined ==
    ASSUME NEW a \in Seq(Nat), NEW b \in Seq(Nat)
    PROVE  /\ a \o b \in Seq(Nat) /\ Len(a) \in Nat /\ Len(b) \in Nat
           /\ Len(a \o b) = Len(a) + Len(b)
           /\ DOMAIN (a \o b) = 1 .. Len(a) + Len(b)
           /\ DOMAIN a = 1 .. Len(a) /\ DOMAIN b = 1 .. Len(b)
           /\ \A i \in 1 .. Len(a) : i \in 1 .. Len(a) + Len(b) /\ (a \o b)[i] = a[i]
           /\ \A i \in 1 .. Len(b) : Len(a) + i \in 1 .. Len(a) + Len(b) /\ (a \o b)[Len(a) + i] = b[i]
           /\ \A i \in 1 .. Len(a) + Len(b) :
                i \in 1 .. Len(a) \/ (i - Len(a) \in 1 .. Len(b) /\ i = Len(a) + (i - Len(a)))
  OBVIOUS

\* A concatenation holds what its parts hold, and holds it once if they do and have nothing in
\* common.
LEMMA JoinedHolds ==
    ASSUME NEW a \in Seq(Nat), NEW b \in Seq(Nat)
    PROVE  /\ \A x : InSeq(x, a \o b) <=> InSeq(x, a) \/ InSeq(x, b)
           /\ Distinct(a \o b) <=> /\ Distinct(a) /\ Distinct(b)
                                   /\ \A x : ~ (InSeq(x, a) /\ InSeq(x, b))
<1> DEFINE c == a \o b
           m == Len(a)
           n == Len(b)
<1>1. /\ m \in Nat /\ n \in Nat
      /\ DOMAIN c = 1 .. m + n /\ DOMAIN a = 1 .. m /\ DOMAIN b = 1 .. n
      /\ \A i \in 1 .. m : i \in 1 .. m + n /\ c[i] = a[i]
      /\ \A i \in 1 .. n : m + i \in 1 .. m + n /\ c[m + i] = b[i]
      /\ \A i \in 1 .. m + n : i \in 1 .. m \/ (i - m \in 1 .. n /\ i = m + (i - m))
  BY Joined
<1> HIDE DEF c, m, n
<1>2. ASSUME NEW i \in 1 .. m + n
      PROVE  (i \in 1 .. m /\ c[i] = a[i]) \/ \E k \in 1 .. n : i = m + k /\ c[i] = b[k]
  BY <1>1
<1>3. \A x : InSeq(x, c) <=> InSeq(x, a) \/ InSeq(x, b)
  <2> TAKE x
  <2>1. InSeq(x, c) => InSeq(x, a) \/ InSeq(x, b)
    BY <1>1, <1>2 DEF InSeq
  <2>2. InSeq(x, a) => InSeq(x, c)
    BY <1>1 DEF InSeq
  <2>3. InSeq(x, b) => InSeq(x, c)
    BY <1>1 DEF InSeq
  <2> QED  BY <2>1, <2>2, <2>3
<1>4. Distinct(c) => /\ Distinct(a) /\ Distinct(b)
                     /\ \A x : ~ (InSeq(x, a) /\ InSeq(x, b))
  <2> SUFFICES ASSUME Distinct(c)
               PROVE  /\ Distinct(a) /\ Distinct(b)
                      /\ \A x : ~ (InSeq(x, a) /\ InSeq(x, b))
    OBVIOUS
  <2>1. Distinct(a)
    BY <1>1 DEF Distinct
  <2>2. ASSUME NEW i \in 1 .. n, NEW j \in 1 .. n, i # j
        PROVE  b[i] # b[j]
    <3>1. m + i # m + j
      BY <1>1, <2>2
    <3>2. /\ m + i \in DOMAIN c /\ c[m + i] = b[i]
          /\ m + j \in DOMAIN c /\ c[m + j] = b[j]
      BY <1>1
    <3>3. \A x, y \in DOMAIN c : x # y => c[x] # c[y]
      BY DEF Distinct
    <3>4. c[m + i] # c[m + j]
      BY ONLY <3>1, <3>2, <3>3
    <3> QED  BY ONLY <3>2, <3>4
  <2>3. ASSUME NEW i \in 1 .. m, NEW j \in 1 .. n
        PROVE  a[i] # b[j]
    <3>1. i # m + j
      BY <1>1
    <3> QED  BY <1>1, <3>1 DEF Distinct
  <2> QED  BY <1>1, <2>1, <2>2, <2>3 DEF Distinct, InSeq
<1>5. ASSUME Distinct(a), Distinct(b), \A x : ~ (InSeq(x, a) /\ InSeq(x, b))
      PROVE  Distinct(c)
  <2>1. \A i \in 1 .. m, j \in 1 .. n : a[i] # b[j]
    BY <1>1, <1>5 DEF InSeq
  <2>2. \A i, j \in 1 .. m : i # j => a[i] # a[j]
    BY <1>1, <1>5 DEF Distinct
  <2>3. \A i, j \in 1 .. n : i # j => b[i] # b[j]
    BY <1>1, <1>5 DEF Distinct
  <2> SUFFICES ASSUME NEW i \in 1 .. m + n, NEW j \in 1 .. m + n, i # j
               PROVE  c[i] # c[j]
    BY <1>1 DEF Distinct
  <2> QED  BY <1>2, <2>1, <2>2, <2>3
<1> QED
  BY <1>3, <1>4, <1>5 DEF c

\* Appending is joining a sequence of one.
LEMMA AppendJoins ==
    ASSUME NEW a \in Seq(Nat), NEW x \in Nat
    PROVE  /\ Append(a, x) = a \o <<x>> /\ <<x>> \in Seq(Nat) /\ Distinct(<<x>>)
           /\ \A y : InSeq(y, <<x>>) <=> y = x
           /\ Append(a, x) \in Seq(Nat)
           /\ Len(Append(a, x)) = Len(a) + 1 /\ Last(Append(a, x)) = x
<1>1. \A y : InSeq(y, <<x>>) <=> y = x
  BY DEF InSeq
<1>2. Distinct(<<x>>)
  BY DEF Distinct
<1>3. Append(a, x) \in Seq(Nat) /\ Len(Append(a, x)) = Len(a) + 1 /\ Append(a, x)[Len(a) + 1] = x
  OBVIOUS
<1>4. Append(a, x) = a \o <<x>> /\ <<x>> \in Seq(Nat)
  OBVIOUS
<1> QED
  BY <1>1, <1>2, <1>3, <1>4 DEF Last

\* The list of a run holds what it has taken, each once.
LEMMA RunIds ==
    ASSUME NEW run, NEW t, NEW callContract, NEW reserveBalance,
           GoodRun(run, t, callContract, reserveBalance)
    PROVE  /\ run.ids \in Seq(Nat) /\ Distinct(run.ids)
           /\ \A x : InSeq(x, run.ids) <=> x \in run.taken
           /\ run.taken \subseteq Pending
<1>1. /\ run.ids \in Seq(Nat) /\ run.taken \subseteq Pending
      /\ \A i, j \in 1 .. Len(run.ids) : run.ids[i] = run.ids[j] => i = j
      /\ \A k \in 1 .. Len(run.ids) : run.ids[k] \in run.taken
      /\ \A x \in run.taken : \E k \in 1 .. Len(run.ids) : x = run.ids[k]
  BY DEF GoodRun, ApplyState
<1> DEFINE ids == run.ids
           taken == run.taken
<1>2. DOMAIN ids = 1 .. Len(ids)
  BY <1>1
<1>3. /\ \A i, j \in 1 .. Len(ids) : ids[i] = ids[j] => i = j
      /\ \A k \in 1 .. Len(ids) : ids[k] \in taken
      /\ \A x \in taken : \E k \in 1 .. Len(ids) : x = ids[k]
  BY <1>1
<1> HIDE DEF ids, taken
<1>4. Distinct(ids)
  BY ONLY <1>2, <1>3 DEF Distinct
<1>5. \A x : InSeq(x, ids) <=> x \in taken
  BY ONLY <1>2, <1>3 DEF InSeq
<1> QED
  BY <1>1, <1>4, <1>5 DEF ids, taken

\* Taking, applying and withdrawing keep the histories apart and complete.
LEMMA LeftInvStep ==
    ASSUME WaitInv, [Next]_vars, LeftInv
    PROVE  LeftInv'
<1>1. /\ applied \in Seq(Nat) /\ withdrawn \in Seq(Nat)
      /\ Distinct(applied) /\ Distinct(withdrawn)
      /\ \A x : ~ (InSeq(x, applied) /\ InSeq(x, withdrawn))
      /\ \A x : InSeq(x, applied) \/ InSeq(x, withdrawn) <=> x \in DOMAIN created \ Pending
      /\ Pending \subseteq DOMAIN created
  BY PendingFacts DEF LeftInv
<1>2. ASSUME NEW d, IsTaken(d)
      PROVE  LeftInv'
  <2>1. /\ DOMAIN created' = DOMAIN created \cup {nextDepositId} /\ nextDepositId \notin DOMAIN created
        /\ Pending' = Pending \cup {nextDepositId}
    BY <1>2, TakenHash DEF TakesNext
  <2>2. UNCHANGED <<applied, withdrawn>>
    BY <1>2 DEF IsTaken
  <2>3. DOMAIN created' \ Pending' = DOMAIN created \ Pending
    BY <1>1, <2>1
  <2> QED  BY <1>1, <2>2, <2>3 DEF LeftInv
<1>3. ASSUME NEW t, NEW run, NEW callContract, NEW reserveBalance,
             IsApplied(t, run, callContract, reserveBalance)
      PROVE  LeftInv'
  <2> DEFINE ids == run.ids
  <2>1. /\ ids \in Seq(Nat) /\ Distinct(ids)
        /\ \A x : InSeq(x, ids) <=> x \in run.taken
        /\ run.taken \subseteq Pending
    BY <1>3, RunIds DEF IsApplied
  <2>2. Pending' = Pending \ run.taken /\ UNCHANGED <<created, withdrawn>> /\ applied' = applied \o ids
    BY <1>3, AppliedHash DEF IsApplied
  <2> HIDE DEF ids
  <2>3. /\ \A x : InSeq(x, applied \o ids) <=> InSeq(x, applied) \/ InSeq(x, ids)
        /\ Distinct(applied \o ids) <=> /\ Distinct(applied) /\ Distinct(ids)
                                        /\ \A x : ~ (InSeq(x, applied) /\ InSeq(x, ids))
        /\ applied \o ids \in Seq(Nat)
    BY <1>1, <2>1, JoinedHolds, Joined
  <2>4. \A x : ~ (InSeq(x, applied) /\ InSeq(x, ids))
    BY <1>1, <2>1
  <2>5. \A x : x \in DOMAIN created' \ Pending' <=> x \in DOMAIN created \ Pending \/ x \in run.taken
    BY <1>1, <2>1, <2>2
  <2>6. \A x : InSeq(x, applied') <=> InSeq(x, applied) \/ x \in run.taken
    BY <2>1, <2>2, <2>3
  <2>7. \A x : ~ (x \in run.taken /\ InSeq(x, withdrawn))
    BY <1>1, <2>1
  <2>8. Distinct(applied') /\ applied' \in Seq(Nat)
    BY <1>1, <2>1, <2>2, <2>3, <2>4
  <2> QED  BY <1>1, <2>2, <2>5, <2>6, <2>7, <2>8 DEF LeftInv
<1>4. ASSUME NEW i, IsRefunded(i)
      PROVE  LeftInv'
  <2>1. /\ i \in Pending /\ Pending' = Pending \ {i} /\ UNCHANGED <<created, applied>>
        /\ withdrawn' = Append(withdrawn, i)
    BY <1>4, RefundedHash DEF IsRefunded
  <2>2. i \in Nat
    BY <1>1, <2>1 DEF WaitInv, WaitingTypeOK
  <2> DEFINE one == <<i>>
  <2>3. /\ withdrawn' = withdrawn \o one /\ one \in Seq(Nat) /\ Distinct(one)
        /\ \A y : InSeq(y, one) <=> y = i
        /\ withdrawn' \in Seq(Nat)
    BY <1>1, <2>1, <2>2, AppendJoins
  <2> HIDE DEF one
  <2>4. /\ \A x : InSeq(x, withdrawn \o one) <=> InSeq(x, withdrawn) \/ InSeq(x, one)
        /\ Distinct(withdrawn \o one) <=> /\ Distinct(withdrawn) /\ Distinct(one)
                                          /\ \A x : ~ (InSeq(x, withdrawn) /\ InSeq(x, one))
    BY <1>1, <2>3, JoinedHolds
  <2>5. \A x : x \in DOMAIN created' \ Pending' <=> x \in DOMAIN created \ Pending \/ x = i
    BY <1>1, <2>1
  <2>6. \A x : InSeq(x, withdrawn') <=> InSeq(x, withdrawn) \/ x = i
    BY <2>3, <2>4
  <2>7. ~ InSeq(i, withdrawn) /\ ~ InSeq(i, applied)
    BY <1>1, <2>1
  <2>8. Distinct(withdrawn')
    BY <1>1, <2>3, <2>4, <2>7
  <2> QED  BY <1>1, <2>1, <2>3, <2>5, <2>6, <2>7, <2>8 DEF LeftInv
<1>5. CASE UNCHANGED waitingVars
  BY <1>1, <1>5 DEF LeftInv, Pending, waitingVars, historyVars
<1>6. ASSUME NEW t, IsApproved(t)
      PROVE  UNCHANGED waitingVars
  BY <1>6 DEF IsApproved
<1> QED
  BY <1>2, <1>3, <1>4, <1>5, <1>6, WaitSteps

\* The ids that have left are told apart in every state.
LEMMA LeftInvariant == Spec => []LeftInv
<1>1. Init => LeftInv
  <2> SUFFICES ASSUME Init
               PROVE  LeftInv
    OBVIOUS
  <2>1. applied = <<>> /\ withdrawn = <<>> /\ DOMAIN created = {}
    BY DEF Init
  <2>2. \A x : ~ InSeq(x, <<>>)
    BY DEF InSeq
  <2>3. Distinct(<<>>) /\ <<>> \in Seq(Nat)
    BY DEF Distinct
  <2> QED  BY <2>1, <2>2, <2>3 DEF LeftInv
<1>2. WaitInv /\ [Next]_vars /\ LeftInv => LeftInv'
  BY LeftInvStep
<1> QED
  BY <1>1, <1>2, WaitInvariant, PTL DEF Spec

\* A deposit leaves once: no batch, however it repeats and mixes ids and data, and no withdrawal
\* lets the same deposit leave a second time, and none disappears without leaving.
THEOREM LeavesOnceSafety == Spec => []LeavesOnce
<1>1. LeftInv => LeavesOnce
  <2> SUFFICES ASSUME LeftInv
               PROVE  LeavesOnce
    OBVIOUS
  <2> DEFINE gone == applied \o withdrawn
  <2>1. /\ \A x : InSeq(x, gone) <=> InSeq(x, applied) \/ InSeq(x, withdrawn)
        /\ Distinct(gone)
    BY JoinedHolds DEF LeftInv
  <2>2. \A x : InSeq(x, gone) <=> x \in DOMAIN created \ Pending
    BY <2>1 DEF LeftInv
  <2> HIDE DEF gone
  <2>3. {gone[i] : i \in DOMAIN gone} = DOMAIN created \ Pending
    BY <2>2 DEF InSeq
  <2> QED  BY <2>1, <2>3 DEF LeavesOnce, gone
<1> QED
  BY <1>1, LeftInvariant, PTL

\* The tokens of the contract leave it to the bridge, or as a refund to the depositor, in every
\* step and for every token at once.
THEOREM RefundsDepositorSafety == Spec => RefundsDepositor
<1> DEFINE Change(t, a) == ledger'[t].balance[a] - ledger[t].balance[a]
           Refund(t) == /\ Len(withdrawn') = Len(withdrawn) + 1
                        /\ LET d == created[Last(withdrawn')]
                           IN  d.token = t /\ Change(t, d.from) = d.amount
                                 /\ Change(t, WaitingList) = - d.amount
           Paid(t) == Change(t, WaitingList) < 0 =>
                        Change(t, BridgeAddress) = - Change(t, WaitingList) \/ Refund(t)
<1>1. ASSUME WaitInv, LeftInv, [Next]_vars, NEW t \in Tokens
      PROVE  Paid(t)
  <2>1. \A a \in Accounts : /\ ledger[t].balance[a] \in Nat
                            /\ ledger'[t].balance[a] \in Nat
    <3>1. ledger \in [Tokens -> Ledger] /\ ledger' \in [Tokens -> Ledger]
      BY <1>1, WaitInvStep DEF WaitInv, BridgeInv, BridgeTypeOK, TokenTypeOK
    <3> QED  BY <3>1 DEF Ledger
  <2>2. ASSUME ledger'[t].balance[WaitingList] >= ledger[t].balance[WaitingList]
        PROVE  Paid(t)
    BY <2>1, <2>2, ListAddress
  <2>3. ASSUME NEW d, IsTaken(d)
        PROVE  Paid(t)
    BY <1>1, <2>1, <2>2, <2>3, TakenBalance, ListAddress
  <2>4. ASSUME NEW u, NEW run, NEW callContract, NEW reserveBalance,
               IsApplied(u, run, callContract, reserveBalance)
        PROVE  Paid(t)
    <3> DEFINE w == Worth(created, run.taken)
    <3>1. /\ \A v \in Tokens \ {u} : ledger'[v] = ledger[v]
          /\ ledger'[u].balance[WaitingList] = ledger[u].balance[WaitingList] - w
          /\ ledger'[u].balance[BridgeAddress] = ledger[u].balance[BridgeAddress] + w
      BY <1>1, <2>4, AppliedBalance
    <3>2. w \in Nat
      BY <1>1, <2>4, RunWorth DEF IsApplied
    <3> HIDE DEF w
    <3>3. CASE u # t
      BY <2>1, <2>2, <3>1, <3>3, ListAddress
    <3>4. CASE u = t
      BY <2>1, <3>1, <3>2, <3>4, ListAddress
    <3> QED  BY <3>3, <3>4
  <2>5. ASSUME NEW i, IsRefunded(i)
        PROVE  Paid(t)
    <3> DEFINE d == created[i]
    <3>1. /\ d.amount \in Nat
          /\ \A u \in Tokens \ {d.token} : ledger'[u] = ledger[u]
          /\ ledger'[d.token].balance[WaitingList] = ledger[d.token].balance[WaitingList] - d.amount
          /\ ledger'[d.token].balance[d.from] = ledger[d.token].balance[d.from] + d.amount
      BY <1>1, <2>5, RefundedBalance
    <3>2. i \in Pending /\ withdrawn' = Append(withdrawn, i)
      BY <2>5 DEF IsRefunded
    <3>3. i \in Nat /\ withdrawn \in Seq(Nat) /\ d.from \in Accounts
      <4>1. i \in DOMAIN created
        BY <1>1, <3>2 DEF WaitInv, WaitingTypeOK, Pending
      <4>2. created[i] \in WaitingData /\ DOMAIN created = 0 .. nextDepositId - 1 /\ nextDepositId \in Nat
        BY <1>1, <4>1 DEF WaitInv, WaitingTypeOK
      <4>3. d.from \in Callers
        BY <4>2 DEF WaitingData
      <4> QED  BY <1>1, <4>1, <4>2, <4>3, ListAddress DEF LeftInv
    <3>4. Len(withdrawn') = Len(withdrawn) + 1 /\ Last(withdrawn') = i
      BY <3>2, <3>3, AppendJoins
    <3>5. CASE d.token # t
      BY <2>1, <2>2, <3>1, <3>5, ListAddress
    <3>6. CASE d.token = t
      <4>1. Change(t, d.from) = d.amount /\ Change(t, WaitingList) = - d.amount
        BY <2>1, <3>1, <3>3, <3>6, ListAddress
      <4> HIDE DEF Change
      <4> QED  BY <3>4, <3>6, <4>1
    <3> QED  BY <3>5, <3>6
  <2>6. ASSUME NEW u, IsApproved(u)
        PROVE  Paid(t)
    BY <1>1, <2>1, <2>2, <2>6, ApprovedBalance, ListAddress
  <2>7. CASE [BridgeNext]_bridgeVars
    BY <1>1, <2>2, <2>7, BridgeKeepsCustody DEF WaitInv
  <2> HIDE DEF Paid
  <2> QED  BY <1>1, <2>3, <2>4, <2>5, <2>6, <2>7, WaitSteps
<1>2. WaitInv /\ LeftInv /\ [Next]_vars =>
        [\A t \in Tokens :
          LET change(a) == ledger'[t].balance[a] - ledger[t].balance[a]
          IN  change(WaitingList) < 0 =>
                \/ change(BridgeAddress) = - change(WaitingList)
                \/ /\ Len(withdrawn') = Len(withdrawn) + 1
                   /\ LET d == created[Last(withdrawn')]
                      IN  d.token = t /\ change(d.from) = d.amount /\ change(WaitingList) = - d.amount
        ]_vars
  BY <1>1
<1> HIDE DEF Change, Refund, Paid
<1> QED
  BY <1>2, WaitInvariant, LeftInvariant, PTL DEF Spec, RefundsDepositor

-----------------------------------------------------------------------------
\* What the bridge announces for the contract.

\* The Deposit events that name the waiting list, and how many there are up to one of them.
Own == {i \in DOMAIN deposits : deposits[i].from = WaitingList}

Rank(i) == Cardinality({j \in Own : j <= i})

\* The property in these terms.
LEMMA AnnouncedIs ==
    AppliedAsDeposited <=>
        /\ Cardinality(Own) = Len(applied)
        /\ \A i \in Own : Announces(deposits[i], created[applied[Rank(i)]])
  BY DEF AppliedAsDeposited, Own, Rank

\* An event of the waiting list has an applied deposit at its rank.
LEMMA RankApplied ==
    ASSUME DepositIdsInv, LeftInv, AppliedAsDeposited
    PROVE  /\ Len(deposits) \in Nat /\ DOMAIN deposits = 1 .. Len(deposits)
           /\ Own \subseteq 1 .. Len(deposits) /\ IsFiniteSet(Own) /\ Len(applied) \in Nat
           /\ \A i \in Own : /\ Rank(i) \in 1 .. Len(applied)
                             /\ applied[Rank(i)] \in DOMAIN created
<1>1. Len(deposits) \in Nat /\ DOMAIN deposits = 1 .. Len(deposits)
  BY DEF DepositIdsInv
<1>2. Own \subseteq 1 .. Len(deposits)
  BY <1>1 DEF Own
<1>3. IsFiniteSet(1 .. Len(deposits))
  BY <1>1, FS_Interval
<1>4. IsFiniteSet(Own)
  BY <1>2, <1>3, FS_Subset
<1>5. Len(applied) \in Nat /\ DOMAIN applied = 1 .. Len(applied) /\ Cardinality(Own) = Len(applied)
  BY AnnouncedIs DEF LeftInv
<1>6. ASSUME NEW i \in Own
      PROVE  Rank(i) \in 1 .. Len(applied)
  <2> DEFINE S == {j \in Own : j <= i}
  <2>1. S \subseteq Own /\ i \in S
    BY <1>1, <1>2
  <2> HIDE DEF S
  <2>2. IsFiniteSet(S) /\ Cardinality(S) <= Cardinality(Own)
    BY <1>4, <2>1, FS_Subset
  <2>3. Cardinality(S) \in Nat /\ Cardinality(S) # 0
    BY <2>1, <2>2, FS_CardinalityType, FS_EmptySet
  <2> QED  BY <1>5, <2>2, <2>3 DEF Rank, S
<1>7. ASSUME NEW i \in Own
      PROVE  applied[Rank(i)] \in DOMAIN created
  <2>1. InSeq(applied[Rank(i)], applied)
    BY <1>5, <1>6, <1>7 DEF InSeq
  <2> QED  BY <2>1 DEF LeftInv
<1> QED
  BY <1>1, <1>2, <1>4, <1>5, <1>6, <1>7

\* The events of the waiting list stay as they are.
OwnKept == Own' = Own /\ \A i \in Own : deposits'[i] = deposits[i]

\* It survives every step that leaves those events and the applied ids alone.
LEMMA OwnKeptKeeps ==
    ASSUME WaitInv, LeftInv, AppliedAsDeposited, [Next]_vars, OwnKept, UNCHANGED applied
    PROVE  AppliedAsDeposited'
<1>1. Cardinality(Own) = Len(applied) /\ \A i \in Own : Announces(deposits[i], created[applied[Rank(i)]])
  BY AnnouncedIs
<1>2. \A i \in Own : Rank(i) \in 1 .. Len(applied) /\ applied[Rank(i)] \in DOMAIN created
  BY RankApplied DEF WaitInv
<1>3. \A i \in DOMAIN created : created'[i] = created[i]
  BY CreatedStays
<1>4. Own' = Own /\ (\A i \in Own : deposits'[i] = deposits[i] /\ Rank(i)' = Rank(i))
  BY DEF OwnKept, Rank
<1>5. /\ Cardinality(Own') = Len(applied')
      /\ \A i \in Own' : Announces(deposits'[i], created'[applied'[Rank(i)']])
  BY <1>1, <1>2, <1>3, <1>4
<1> QED
  BY <1>5, AnnouncedIs DEF AppliedAsDeposited, Own, Rank, Announces

\* A deposit that names others leaves the waiting list's events alone.
LEMMA OthersKeepOwn ==
    ASSUME BridgeInv, DepositIdsInv, [BridgeNext]_bridgeVars
    PROVE  OwnKept
<1>1. CASE DepositCalls
  <2>1. PICK t, ds, permits, callContract, reserveBalance :
          IsDeposit(t, ds, permits, callContract, reserveBalance) /\ Presented(ds)
    BY <1>1, DepositCallsPresented, Zenon
  <2> DEFINE events == DepositEvents(t, ds, callContract, reserveBalance)
             n == Len(ds)
             l == Len(deposits)
  <2>2. Appends(events, n)
    BY <2>1, DepositAppends
  <2>3. DOMAIN ds = 1 .. n /\ n \in Nat
    BY <2>1 DEF IsDeposit, DepositBatch, Batch
  <2>4. \A i \in 1 .. n : events[i].from # WaitingList
    <3>1. \A i \in DOMAIN ds : ds[i].from # WaitingList
      BY <2>1, ListAddress, WaitingAssumption DEF Presented
    <3> QED  BY <2>3, <3>1 DEF DepositEvents
  <2> HIDE DEF events, n
  <2>5. /\ l \in Nat /\ DOMAIN deposits = 1 .. l
        /\ Len(deposits') = l + n /\ DOMAIN deposits' = 1 .. l + n
        /\ \A i \in 1 .. l + n : IF i \in 1 .. l THEN deposits'[i] = deposits[i]
                                 ELSE i - l \in 1 .. n /\ deposits'[i] = events[i - l]
    BY <2>2 DEF Appends
  <2> HIDE DEF l
  <2>6. \A i \in 1 .. l : i \in 1 .. l + n
    BY <2>3, <2>5
  <2>7. \A i \in DOMAIN deposits' : deposits'[i].from = WaitingList <=>
                                      i \in DOMAIN deposits /\ deposits[i].from = WaitingList
    BY <2>4, <2>5
  <2> QED  BY <2>5, <2>6, <2>7 DEF OwnKept, Own
<1>2. CASE ~ DepositCalls
  BY <1>2, OtherCallsKeepDeposits DEF OwnKept, Own
<1> QED
  BY <1>1, <1>2

\* A batch of the waiting list adds an event for every deposit it has applied.
LEMMA AppliedAnnounced ==
    ASSUME WaitInv, LeftInv, AppliedAsDeposited,
           NEW t, NEW run, NEW callContract, NEW reserveBalance,
           IsApplied(t, run, callContract, reserveBalance), run.params # <<>>
    PROVE  AppliedAsDeposited'
<1> DEFINE ps == run.params
           ids == run.ids
           events == DepositEvents(t, ps, callContract, reserveBalance)
           n == Len(ids)
           l == Len(deposits)
           m == Len(applied)
<1>1. /\ IsDeposit(t, ps, <<>>, callContract, reserveBalance)
      /\ applied' = applied \o ids /\ UNCHANGED created
      /\ GoodRun(run, t, callContract, reserveBalance)
  BY DEF IsApplied
<1>2. /\ ids \in Seq(Nat) /\ n \in Nat /\ ps \in Seq(Params) /\ Len(ps) = n
      /\ \A k \in 1 .. n :
           LET d == created[ids[k]]
           IN  /\ ps[k] = [from |-> WaitingList, to |-> d.to, amount |-> d.amount]
               /\ d.token = t /\ d.callContract = callContract /\ d.reserveBalance = reserveBalance
  BY <1>1 DEF GoodRun, ApplyState
<1>3. Appends(events, n)
  BY <1>1, <1>2, DepositAppends DEF WaitInv
<1>4. DOMAIN ps = 1 .. n
  <2> HIDE DEF ps, n
  <2> QED  BY <1>2
<1>5. \A k \in 1 .. n : events[k].from = WaitingList /\ Announces(events[k], created[ids[k]])
  <2> SUFFICES ASSUME NEW k \in 1 .. n
               PROVE  events[k].from = WaitingList /\ Announces(events[k], created[ids[k]])
    OBVIOUS
  <2> DEFINE d == created[ids[k]]
  <2>1. /\ ps[k] = [from |-> WaitingList, to |-> d.to, amount |-> d.amount]
        /\ d.token = t /\ d.callContract = callContract /\ d.reserveBalance = reserveBalance
    BY <1>2
  <2> HIDE DEF d
  <2>2. /\ events[k].from = ps[k].from /\ events[k].to = ps[k].to
        /\ events[k].amount = ps[k].amount /\ events[k].token = t
        /\ events[k].callContract = callContract /\ events[k].reserveBalance = reserveBalance
    BY <1>4 DEF DepositEvents, EventAmount
  <2> HIDE DEF events, ps
  <2>3. events[k].from = WaitingList /\ Announces(events[k], d)
    BY ONLY <2>1, <2>2 DEF Announces
  <2> QED  BY <2>3 DEF d
<1>6. /\ l \in Nat /\ DOMAIN deposits = 1 .. l
      /\ DOMAIN deposits' = 1 .. l + n
      /\ \A i \in 1 .. l + n : IF i \in 1 .. l THEN deposits'[i] = deposits[i]
                               ELSE i - l \in 1 .. n /\ deposits'[i] = events[i - l]
  <2> HIDE DEF events, n
  <2> QED  BY <1>3 DEF Appends
<1>7. /\ m \in Nat /\ Len(applied') = m + n
      /\ \A k \in 1 .. m : applied'[k] = applied[k]
      /\ \A k \in 1 .. n : applied'[m + k] = ids[k]
  <2>1. applied \in Seq(Nat)
    BY DEF LeftInv
  <2> HIDE DEF ids
  <2> QED  BY <1>1, <1>2, <2>1, Joined
<1>8. /\ Own \subseteq 1 .. l /\ IsFiniteSet(Own)
      /\ \A i \in Own : Rank(i) \in 1 .. m /\ applied[Rank(i)] \in DOMAIN created
      /\ Cardinality(Own) = m
      /\ \A i \in Own : Announces(deposits[i], created[applied[Rank(i)]])
  BY RankApplied, AnnouncedIs DEF WaitInv
<1> HIDE DEF ps, ids, events, n, l, m
<1>9. \A i \in 1 .. l + n : i \in 1 .. l \/ (i - l \in 1 .. n /\ i \notin 1 .. l)
  BY <1>2, <1>6
<1>10. Own' = Own \cup (l + 1 .. l + n)
  <2>1. \A i \in 1 .. l : i \in 1 .. l + n /\ i \notin l + 1 .. l + n
    BY <1>2, <1>6
  <2>2. \A i \in l + 1 .. l + n : i \in 1 .. l + n /\ i \notin 1 .. l
    BY <1>2, <1>6
  <2>3. \A i \in 1 .. l + n : i \in 1 .. l \/ i \in l + 1 .. l + n
    BY <1>2, <1>6
  <2>4. Own = {i \in 1 .. l : deposits[i].from = WaitingList}
    BY <1>6 DEF Own
  <2>5. Own' = {i \in 1 .. l + n : deposits'[i].from = WaitingList}
    BY <1>6 DEF Own
  <2>6. \A i \in 1 .. l : deposits'[i] = deposits[i]
    BY <1>6, <2>1
  <2>7. \A i \in l + 1 .. l + n : deposits'[i].from = WaitingList
    BY <1>5, <1>6, <2>2
  <2> QED  BY <2>1, <2>2, <2>3, <2>4, <2>5, <2>6, <2>7
<1>11. ASSUME NEW k \in 0 .. n
       PROVE  Cardinality(Own \cup (l + 1 .. l + k)) = m + k
  <2> DEFINE a == l + 1
             b == l + k
             S == a .. b
  <2>1. a \in Int /\ b \in Int /\ k \in Nat /\ (IF a > b THEN 0 ELSE b - a + 1) = k
    BY <1>2, <1>6
  <2> HIDE DEF a, b
  <2>2. IsFiniteSet(S) /\ Cardinality(S) = IF a > b THEN 0 ELSE b - a + 1
    BY <2>1, FS_Interval
  <2>3. Cardinality(S) = k
    BY <2>1, <2>2
  <2> USE DEF a, b
  <2>4. \A i \in 1 .. l : i \notin S
    BY <1>6
  <2> HIDE DEF S
  <2>5. Own \cap S = {}
    BY <1>8, <2>4
  <2>6. Cardinality(Own \cup S) = Cardinality(Own) + Cardinality(S) - Cardinality(Own \cap S)
    BY <1>8, <2>2, FS_Union
  <2>7. Cardinality({}) = 0
    BY FS_EmptySet
  <2>8. Cardinality(Own \cup S) = m + k
    <3>1. Cardinality(Own \cup S) = m + k - 0 /\ m \in Nat
      BY <1>7, <1>8, <2>3, <2>5, <2>6, <2>7
    <3> QED  BY <2>1, <3>1
  <2> QED  BY <2>8 DEF S
<1>12. Cardinality(Own') = Len(applied')
  BY <1>2, <1>7, <1>10, <1>11
<1>13. ASSUME NEW i \in Own
       PROVE  Announces(deposits'[i], created'[applied'[Rank(i)']])
  <2>1. {j \in Own' : j <= i} = {j \in Own : j <= i}
    <3>1. \A j \in l + 1 .. l + n : ~ (j <= i)
      BY <1>2, <1>6, <1>8
    <3> QED  BY <1>10, <3>1
  <2>2. Rank(i)' = Rank(i)
    BY <2>1 DEF Rank
  <2>3. deposits'[i] = deposits[i]
    BY <1>2, <1>6, <1>8
  <2> QED  BY <1>1, <1>7, <1>8, <2>2, <2>3
<1>14. ASSUME NEW i \in l + 1 .. l + n
       PROVE  Announces(deposits'[i], created'[applied'[Rank(i)']])
  <2> DEFINE k == i - l
  <2>1. k \in 1 .. n /\ k \in 0 .. n /\ i = l + k /\ i \in 1 .. l + n /\ i \notin 1 .. l
    BY <1>2, <1>6
  <2> HIDE DEF k
  <2>2. {j \in Own' : j <= i} = Own \cup (l + 1 .. l + k)
    <3>1. \A j \in 1 .. l : j <= i
      BY <1>2, <1>6, <2>1
    <3>2. \A j \in l + 1 .. l + n : j <= i <=> j \in l + 1 .. l + k
      BY <1>2, <1>6, <2>1
    <3>3. \A j \in l + 1 .. l + k : j \in l + 1 .. l + n
      BY <1>2, <1>6, <2>1
    <3> QED  BY <1>8, <1>10, <3>1, <3>2, <3>3
  <2>3. Rank(i)' = m + k
    BY <1>11, <2>1, <2>2 DEF Rank
  <2>4. deposits'[i] = events[k]
    BY <1>6, <2>1 DEF k
  <2>5. Announces(events[k], created[ids[k]]) /\ applied'[m + k] = ids[k]
    BY <1>5, <1>7, <2>1
  <2> QED  BY <1>1, <2>3, <2>4, <2>5
<1>15. \A i \in Own' : Announces(deposits'[i], created'[applied'[Rank(i)']])
  BY <1>10, <1>13, <1>14
<1> QED
  BY <1>12, <1>15 DEF AppliedAsDeposited, Own, Rank, Announces

\* Every step keeps what is announced in line with what was applied.
LEMMA AppliedAsDepositedStep ==
    ASSUME WaitInv, LeftInv, AppliedAsDeposited, [Next]_vars
    PROVE  AppliedAsDeposited'
<1>1. ASSUME UNCHANGED deposits
      PROVE  OwnKept
  BY <1>1 DEF OwnKept, Own
<1>2. ASSUME NEW d, IsTaken(d)
      PROVE  AppliedAsDeposited'
  BY <1>1, <1>2, OwnKeptKeeps DEF IsTaken, LedgerOnly, flowVars
<1>3. ASSUME NEW t, NEW run, NEW callContract, NEW reserveBalance,
             IsApplied(t, run, callContract, reserveBalance)
      PROVE  AppliedAsDeposited'
  <2>1. CASE run.params = <<>>
    <3> DEFINE ids == run.ids
    <3>1. UNCHANGED bridgeVars /\ applied' = applied \o ids /\ ids \in Seq(Nat) /\ Len(ids) = 0
      BY <1>3, <2>1 DEF IsApplied, GoodRun, ApplyState
    <3> HIDE DEF ids
    <3>2. ids = <<>> /\ applied \in Seq(Nat)
      BY <3>1 DEF LeftInv
    <3>3. UNCHANGED applied
      BY <3>1, <3>2
    <3> QED  BY <1>1, <3>1, <3>3, OwnKeptKeeps DEF bridgeVars, flowVars
  <2>2. CASE run.params # <<>>
    BY <1>3, <2>2, AppliedAnnounced
  <2> QED  BY <2>1, <2>2
<1>4. ASSUME NEW i, IsRefunded(i)
      PROVE  AppliedAsDeposited'
  BY <1>1, <1>4, OwnKeptKeeps DEF IsRefunded, LedgerOnly, flowVars
<1>5. ASSUME NEW t, IsApproved(t)
      PROVE  AppliedAsDeposited'
  BY <1>1, <1>5, OwnKeptKeeps DEF IsApproved, LedgerOnly, flowVars, waitingVars, historyVars
<1>6. ASSUME [BridgeNext]_bridgeVars, UNCHANGED waitingVars
      PROVE  AppliedAsDeposited'
  BY <1>6, OthersKeepOwn, OwnKeptKeeps DEF WaitInv, waitingVars, historyVars
<1> QED
  BY <1>2, <1>3, <1>4, <1>5, <1>6, WaitSteps

\* What the bridge announces for the waiting list is what depositors asked of it, event by event,
\* whatever else is deposited in between and however the batches are cut.
THEOREM AppliedAsDepositedSafety == Spec => []AppliedAsDeposited
<1>1. Init => AppliedAsDeposited
  <2> SUFFICES ASSUME Init
               PROVE  AppliedAsDeposited
    OBVIOUS
  <2>1. applied = <<>> /\ Own = {}
    BY DEF Init, BridgeInit, Own
  <2>2. Cardinality({}) = 0 /\ Len(<<>>) = 0
    BY FS_EmptySet
  <2> QED  BY <2>1, <2>2, AnnouncedIs
<1>2. WaitInv /\ LeftInv /\ AppliedAsDeposited /\ [Next]_vars => AppliedAsDeposited'
  BY AppliedAsDepositedStep
<1> QED
  BY <1>1, <1>2, WaitInvariant, LeftInvariant, PTL DEF Spec

-----------------------------------------------------------------------------
\* The refinement mapping, by its parts.
CustodyIds == 0 .. MaxWaiting - 1

StatusOf(i) == CASE i >= nextDepositId -> "unused"
                 [] i \in Pending      -> "waiting"
                 [] InSeq(i, applied)  -> "bridged"
                 [] OTHER              -> "refunded"

Status == [i \in CustodyIds |-> StatusOf(i)]

TermsOf(i) == IF i < nextDepositId
              THEN [token |-> created[i].token, amount |-> created[i].amount]
              ELSE NoHash

Terms == [i \in CustodyIds |-> TermsOf(i)]

Held == [t \in Tokens |-> ledger[t].balance[WaitingList]]

ValueOf(t, ids) ==
    SumFunctionOnSet([i \in ids |-> Terms[i].amount], {i \in ids : Terms[i].token = t})

\* The actions of the escrow, under the mapping.
CustodyTake(i, t, amount) ==
    /\ i \in CustodyIds /\ t \in Tokens /\ amount \in Amounts
    /\ Status[i] = "unused"
    /\ Status' = [Status EXCEPT ![i] = "waiting"]
    /\ Terms' = [Terms EXCEPT ![i] = [token |-> t, amount |-> amount]]
    /\ Held' = [Held EXCEPT ![t] = @ + amount]

CustodyLeave(ids, outcome) ==
    /\ ids \subseteq CustodyIds
    /\ \A i \in ids : Status[i] = "waiting"
    /\ Status' = [i \in CustodyIds |-> IF i \in ids THEN outcome ELSE Status[i]]
    /\ Held' = [t \in Tokens |-> Held[t] - ValueOf(t, ids)]
    /\ UNCHANGED Terms

CustodyReceive ==
    /\ Held' \in [Tokens -> Nat]
    /\ \A t \in Tokens : Held'[t] >= Held[t]
    /\ UNCHANGED <<Status, Terms>>

\* Initial states map to initial states of the escrow.
LEMMA MappedInit ==
    ASSUME \A i \in CustodyIds : Status[i] = "unused" /\ Terms[i] = NoHash, Held \in [Tokens -> Nat]
    PROVE  Custody!EscrowInit
  BY DEF Custody!EscrowInit, Status, Terms, Held, StatusOf, TermsOf, CustodyIds

\* Taking, in the terms of the escrow itself.
LEMMA MappedTake ==
    ASSUME NEW i, NEW t, NEW amount, CustodyTake(i, t, amount)
    PROVE  Custody!EscrowNext
<1>1. Custody!Take(i, t, amount)
  BY DEF CustodyTake, Custody!Take, Status, Terms, Held, StatusOf, TermsOf, CustodyIds
<1> QED
  BY <1>1 DEF CustodyTake, CustodyIds, Custody!EscrowNext

\* The sums of the escrow are the sums used here.
LEMMA SameSum == \A f, S : Custody!SumFunctionOnSet(f, S) = SumFunctionOnSet(f, S)
  BY DEF Custody!SumFunctionOnSet, Custody!FoldFunctionOnSet, Custody!MapThenFoldSet,
         SumFunctionOnSet, FoldFunctionOnSet, MapThenFoldSet

\* Leaving, in the terms of the escrow itself.
LEMMA MappedLeave ==
    ASSUME NEW ids, NEW outcome, CustodyLeave(ids, outcome)
    PROVE  Custody!Leave(ids, outcome)
<1>1. \A t : Custody!Value(t, ids) = ValueOf(t, ids)
  BY SameSum DEF Custody!Value, ValueOf, Terms, TermsOf, CustodyIds
<1>2. /\ \A i \in ids : Status[i] = "waiting"
      /\ Status' = [i \in CustodyIds |-> IF i \in ids THEN outcome ELSE Status[i]]
      /\ UNCHANGED Terms
      /\ Held' = [t \in Tokens |-> Held[t] - Custody!Value(t, ids)]
  BY <1>1 DEF CustodyLeave
<1> QED
  BY <1>2 DEF Custody!Leave, Status, Terms, Held, StatusOf, TermsOf, CustodyIds

\* Receiving, in the terms of the escrow itself.
LEMMA MappedReceive ==
    ASSUME CustodyReceive
    PROVE  Custody!EscrowNext
  BY DEF CustodyReceive, Custody!Receive, Custody!EscrowNext, Status, Terms, Held, StatusOf, TermsOf, CustodyIds

\* What each id is, by the state of the contract.
StatusIs ==
    \A i \in CustodyIds :
        /\ i \notin DOMAIN created => Status[i] = "unused" /\ Terms[i] = NoHash
        /\ i \in DOMAIN created => Terms[i] = [token |-> created[i].token, amount |-> created[i].amount]
        /\ i \in Pending => Status[i] = "waiting"
        /\ InSeq(i, applied) => Status[i] = "bridged"
        /\ InSeq(i, withdrawn) => Status[i] = "refunded"

\* The mapping tells the ids apart as the invariants do.
LEMMA StatusKnown == WaitInv /\ LeftInv => StatusIs
<1> SUFFICES ASSUME WaitInv, LeftInv, NEW i \in CustodyIds
             PROVE  /\ i \notin DOMAIN created => Status[i] = "unused" /\ Terms[i] = NoHash
                    /\ i \in DOMAIN created => Terms[i] = [token |-> created[i].token, amount |-> created[i].amount]
                    /\ i \in Pending => Status[i] = "waiting"
                    /\ InSeq(i, applied) => Status[i] = "bridged"
                    /\ InSeq(i, withdrawn) => Status[i] = "refunded"
  BY DEF StatusIs
<1>1. /\ nextDepositId \in Nat /\ DOMAIN created = 0 .. nextDepositId - 1
      /\ Pending \subseteq DOMAIN created
  BY DEF WaitInv, WaitingTypeOK, Pending
<1>2. Status[i] = StatusOf(i) /\ Terms[i] = TermsOf(i) /\ i \in Nat
  BY WaitingAssumption DEF Status, Terms, CustodyIds
<1>3. i \in DOMAIN created <=> i < nextDepositId
  BY <1>1, <1>2
<1>4. i \in DOMAIN created <=> ~ (i >= nextDepositId)
  BY <1>1, <1>2
<1>5. /\ InSeq(i, applied) => i \in DOMAIN created /\ i \notin Pending
      /\ InSeq(i, withdrawn) => i \in DOMAIN created /\ i \notin Pending /\ ~ InSeq(i, applied)
  BY DEF LeftInv
<1>6. Terms[i] = IF i \in DOMAIN created
                 THEN [token |-> created[i].token, amount |-> created[i].amount]
                 ELSE NoHash
  BY <1>2, <1>3 DEF TermsOf
<1>7. Status[i] = CASE i \notin DOMAIN created -> "unused"
                    [] i \in Pending      -> "waiting"
                    [] InSeq(i, applied)  -> "bridged"
                    [] OTHER              -> "refunded"
  BY <1>2, <1>4 DEF StatusOf
<1> QED
  BY <1>1, <1>5, <1>6, <1>7

\* An id is one of these.
LEMMA StatusOneOf ==
    ASSUME WaitInv, LeftInv, NEW i
    PROVE  i \notin DOMAIN created \/ i \in Pending \/ InSeq(i, applied) \/ InSeq(i, withdrawn)
  BY DEF LeftInv

\* Ids that neither come nor go keep their status.
LEMMA StatusStays ==
    ASSUME StatusIs, StatusIs', NEW i \in CustodyIds,
           i \notin DOMAIN created \/ i \in Pending \/ InSeq(i, applied) \/ InSeq(i, withdrawn),
           i \in DOMAIN created' <=> i \in DOMAIN created,
           i \in Pending => i \in Pending',
           InSeq(i, applied) => InSeq(i, applied'),
           InSeq(i, withdrawn) => InSeq(i, withdrawn')
    PROVE  Status'[i] = Status[i]
<1>1. /\ i \notin DOMAIN created => Status[i] = "unused"
      /\ i \in Pending => Status[i] = "waiting"
      /\ InSeq(i, applied) => Status[i] = "bridged"
      /\ InSeq(i, withdrawn) => Status[i] = "refunded"
  BY DEF StatusIs
<1>2. /\ i \notin DOMAIN created' => Status'[i] = "unused"
      /\ i \in Pending' => Status'[i] = "waiting"
      /\ InSeq(i, applied') => Status'[i] = "bridged"
      /\ InSeq(i, withdrawn') => Status'[i] = "refunded"
  BY DEF StatusIs, InSeq
<1> QED
  BY <1>1, <1>2

\* Terms are kept.
LEMMA TermsStay ==
    ASSUME StatusIs, StatusIs', WaitInv, [Next]_vars, NEW i \in CustodyIds,
           i \in DOMAIN created' => i \in DOMAIN created
    PROVE  Terms'[i] = Terms[i]
<1>1. i \in DOMAIN created => i \in DOMAIN created' /\ created'[i] = created[i]
  BY CreatedStays
<1>2. /\ i \notin DOMAIN created => Terms[i] = NoHash
      /\ i \in DOMAIN created => Terms[i] = [token |-> created[i].token, amount |-> created[i].amount]
  BY DEF StatusIs
<1>3. /\ i \notin DOMAIN created' => Terms'[i] = NoHash
      /\ i \in DOMAIN created' => Terms'[i] = [token |-> created'[i].token, amount |-> created'[i].amount]
  BY DEF StatusIs
<1> QED
  BY <1>1, <1>2, <1>3

\* The three parts of the mapping are functions, and what is held is a number.
LEMMA MappingTyped ==
    /\ DOMAIN Status = CustodyIds /\ Status = [i \in CustodyIds |-> Status[i]]
    /\ DOMAIN Terms = CustodyIds /\ Terms = [i \in CustodyIds |-> Terms[i]]
    /\ Held = [t \in Tokens |-> ledger[t].balance[WaitingList]]
  BY DEF Status, Terms, Held

\* What is held is a number.
LEMMA HeldTyped ==
    WaitInv => \A t \in Tokens : ledger[t].balance[WaitingList] \in Nat
  BY ListAddress, TokenLedger DEF WaitInv, GoodLedger, Ledger

\* Deposits of one token that leave take what they are worth.
LEMMA ValueIs ==
    ASSUME WaitInv, StatusIs, NEW u \in Tokens, NEW S, S \subseteq PendingOf(u), S \subseteq CustodyIds,
           NEW t \in Tokens
    PROVE  ValueOf(t, S) = IF t = u THEN Worth(created, S) ELSE 0
<1>1. \A i \in S : Terms[i].token = u /\ Terms[i].amount = created[i].amount
  <2> TAKE i \in S
  <2>1. i \in DOMAIN created /\ created[i].token = u /\ i \in CustodyIds
    BY PendingFacts DEF PendingOf
  <2>2. Terms[i] = [token |-> created[i].token, amount |-> created[i].amount]
    BY <2>1 DEF StatusIs
  <2> QED  BY <2>1, <2>2
<1>2. [i \in S |-> Terms[i].amount] = [i \in S |-> created[i].amount]
  BY <1>1
<1>3. CASE t = u
  <2>1. {i \in S : Terms[i].token = t} = S
    BY <1>1, <1>3
  <2> QED  BY <1>2, <1>3, <2>1 DEF ValueOf, Worth
<1>4. CASE t # u
  <2>1. {i \in S : Terms[i].token = t} = {}
    BY <1>1, <1>4
  <2> QED  BY <1>4, <2>1, SumEmpty DEF ValueOf
<1> QED
  BY <1>3, <1>4

\* A pending id is one of the escrow's.
LEMMA PendingCustody ==
    WaitInv => \A i \in Pending : i \in CustodyIds /\ i \in Nat
<1> SUFFICES ASSUME WaitInv, NEW i \in Pending
             PROVE  i \in CustodyIds /\ i \in Nat
  OBVIOUS
<1>1. nextDepositId \in Nat /\ nextDepositId <= MaxWaiting /\ MaxWaiting \in Nat
      /\ i \in 0 .. nextDepositId - 1
  BY WaitingAssumption DEF WaitInv, WaitingTypeOK, Pending
<1> QED
  BY <1>1 DEF CustodyIds

\* Taking a deposit takes it into custody.
LEMMA TakenTakes ==
    ASSUME WaitInv, LeftInv, StatusIs, StatusIs', [Next]_vars, NEW d, IsTaken(d)
    PROVE  CustodyTake(nextDepositId, d.token, d.amount)
<1> DEFINE n == nextDepositId
<1>1. /\ n \notin DOMAIN created /\ n \in Nat /\ n < MaxWaiting
      /\ DOMAIN created' = DOMAIN created \cup {n} /\ created'[n] = d
      /\ Pending' = Pending \cup {n}
  BY TakenHash DEF TakesNext
<1>2. /\ d.token \in Tokens /\ d.amount \in Amounts
      /\ UNCHANGED <<applied, withdrawn>>
  BY DEF IsTaken, WaitingData
<1> HIDE DEF n
<1>3. n \in CustodyIds
  BY <1>1, WaitingAssumption DEF CustodyIds
<1>4. Status[n] = "unused"
  BY <1>1, <1>3 DEF StatusIs
<1>5. Status'[n] = "waiting" /\ Terms'[n] = [token |-> d.token, amount |-> d.amount]
  BY <1>1, <1>3 DEF StatusIs
<1>6. ASSUME NEW i \in CustodyIds, i # n
      PROVE  Status'[i] = Status[i] /\ Terms'[i] = Terms[i]
  <2>1. i \in DOMAIN created' <=> i \in DOMAIN created
    BY <1>1, <1>6
  <2>2. i \notin DOMAIN created \/ i \in Pending \/ InSeq(i, applied) \/ InSeq(i, withdrawn)
    BY StatusOneOf
  <2>3. Status'[i] = Status[i]
    BY <1>1, <1>2, <2>1, <2>2, StatusStays
  <2>4. Terms'[i] = Terms[i]
    BY <2>1, TermsStay
  <2> QED  BY <2>3, <2>4
<1>7. /\ DOMAIN Status' = CustodyIds /\ Status' = [i \in CustodyIds |-> Status'[i]]
      /\ DOMAIN Terms' = CustodyIds /\ Terms' = [i \in CustodyIds |-> Terms'[i]]
  BY DEF Status, Terms
<1>8. Status' = [Status EXCEPT ![n] = "waiting"]
  BY <1>3, <1>5, <1>6, <1>7, MappingTyped
<1>9. Terms' = [Terms EXCEPT ![n] = [token |-> d.token, amount |-> d.amount]]
  BY <1>3, <1>5, <1>6, <1>7, MappingTyped
<1>10. Held' = [Held EXCEPT ![d.token] = @ + d.amount]
  <2>1. /\ \A u \in Tokens \ {d.token} : ledger'[u] = ledger[u]
        /\ ledger'[d.token].balance[WaitingList] = ledger[d.token].balance[WaitingList] + d.amount
    BY TakenBalance
  <2> QED  BY <1>2, <2>1 DEF Held
<1>11. CustodyTake(n, d.token, d.amount)
  BY <1>2, <1>3, <1>4, <1>8, <1>9, <1>10 DEF CustodyTake
<1> QED
  BY <1>11 DEF n

\* Pending deposits of one token that leave leave custody with what they are worth.
LEMMA GoneLeaves ==
    ASSUME WaitInv, LeftInv, StatusIs, StatusIs', [Next]_vars,
           NEW u \in Tokens, NEW S, S \subseteq PendingOf(u), NEW outcome,
           UNCHANGED created, Pending' = Pending \ S,
           \A i \in S : Status'[i] = outcome,
           \A i : InSeq(i, applied) => InSeq(i, applied'),
           \A i : InSeq(i, withdrawn) => InSeq(i, withdrawn'),
           \A t \in Tokens \ {u} : ledger'[t].balance[WaitingList] = ledger[t].balance[WaitingList],
           ledger'[u].balance[WaitingList] = ledger[u].balance[WaitingList] - Worth(created, S)
    PROVE  CustodyLeave(S, outcome)
<1>1. S \subseteq Pending /\ Pending \subseteq CustodyIds
  BY PendingCustody DEF PendingOf
<1>2. \A i \in S : Status[i] = "waiting"
  BY <1>1 DEF StatusIs
<1>3. ASSUME NEW i \in CustodyIds, i \notin S
      PROVE  Status'[i] = Status[i]
  <2>1. i \notin DOMAIN created \/ i \in Pending \/ InSeq(i, applied) \/ InSeq(i, withdrawn)
    BY StatusOneOf
  <2>2. i \in DOMAIN created' <=> i \in DOMAIN created
    OBVIOUS
  <2>3. i \in Pending => i \in Pending'
    BY <1>3
  <2> QED  BY <2>1, <2>2, <2>3, StatusStays
<1>4. \A i \in CustodyIds : Terms'[i] = Terms[i]
  BY TermsStay
<1>5. /\ Status' = [i \in CustodyIds |-> Status'[i]]
      /\ Terms' = [i \in CustodyIds |-> Terms'[i]]
  BY DEF Status, Terms
<1>6. Status' = [i \in CustodyIds |-> IF i \in S THEN outcome ELSE Status[i]]
  BY <1>1, <1>3, <1>5
<1>7. UNCHANGED Terms
  BY <1>4, <1>5, MappingTyped
<1>8. Held' = [t \in Tokens |-> Held[t] - ValueOf(t, S)]
  <2>1. ASSUME NEW t \in Tokens
        PROVE  ledger'[t].balance[WaitingList] = ledger[t].balance[WaitingList] - ValueOf(t, S)
    <3>1. ValueOf(t, S) = IF t = u THEN Worth(created, S) ELSE 0
      BY <1>1, ValueIs
    <3>2. ledger[t].balance[WaitingList] \in Nat
      BY HeldTyped
    <3> QED  BY <3>1, <3>2
  <2> QED  BY <2>1 DEF Held
<1> QED
  BY <1>1, <1>2, <1>6, <1>7, <1>8 DEF CustodyLeave

\* A batch lets what it has collected leave, bridged.
LEMMA AppliedLeaves ==
    ASSUME WaitInv, LeftInv, StatusIs, StatusIs', [Next]_vars,
           NEW t, NEW run, NEW callContract, NEW reserveBalance,
           IsApplied(t, run, callContract, reserveBalance)
    PROVE  CustodyLeave(run.taken, "bridged")
<1> DEFINE S == run.taken
           ids == run.ids
<1>1. /\ ids \in Seq(Nat) /\ \A x : InSeq(x, ids) <=> x \in S
  BY RunIds DEF IsApplied
<1>2. /\ Pending' = Pending \ S /\ UNCHANGED <<created, withdrawn>> /\ applied' = applied \o ids
  BY AppliedHash DEF IsApplied
<1>3. /\ t \in Tokens /\ S \subseteq PendingOf(t)
      /\ \A u \in Tokens \ {t} : ledger'[u] = ledger[u]
      /\ ledger'[t].balance[WaitingList] = ledger[t].balance[WaitingList] - Worth(created, S)
  BY AppliedBalance, RunWorth DEF IsApplied
<1> HIDE DEF S, ids
<1>4. \A x : InSeq(x, applied') <=> InSeq(x, applied) \/ x \in S
  BY <1>1, <1>2, JoinedHolds DEF LeftInv
<1>5. \A i \in S : i \in CustodyIds
  BY <1>3, PendingCustody DEF PendingOf
<1>6. \A i \in S : Status'[i] = "bridged"
  <2> TAKE i \in S
  <2>1. i \in CustodyIds /\ InSeq(i, applied')
    BY <1>4, <1>5
  <2> QED  BY <2>1 DEF StatusIs, InSeq
<1>7. CustodyLeave(S, "bridged")
  BY <1>2, <1>3, <1>4, <1>6, GoneLeaves
<1> QED
  BY <1>7 DEF S

\* A withdrawal lets one deposit leave, refunded.
LEMMA RefundedLeaves ==
    ASSUME WaitInv, LeftInv, StatusIs, StatusIs', [Next]_vars, NEW i, IsRefunded(i)
    PROVE  i \in CustodyIds /\ CustodyLeave({i}, "refunded")
<1> DEFINE d == created[i]
           S == {i}
<1>1. /\ i \in Pending /\ Pending' = Pending \ S /\ UNCHANGED <<created, applied>>
      /\ withdrawn' = Append(withdrawn, i)
  BY RefundedHash DEF IsRefunded
<1>2. i \in CustodyIds /\ i \in Nat
  BY <1>1, PendingCustody
<1>3. /\ d.token \in Tokens /\ d.amount \in Nat
      /\ \A u \in Tokens \ {d.token} : ledger'[u] = ledger[u]
      /\ ledger'[d.token].balance[WaitingList] = ledger[d.token].balance[WaitingList] - d.amount
  BY RefundedBalance
<1>4. S \subseteq PendingOf(d.token) /\ Worth(created, S) = d.amount
  BY <1>1, <1>3, WorthOne DEF PendingOf
<1> HIDE DEF d, S
<1>5. \A x : InSeq(x, withdrawn') <=> InSeq(x, withdrawn) \/ x = i
  <2> DEFINE one == <<i>>
  <2>1. /\ withdrawn \in Seq(Nat) /\ withdrawn' = withdrawn \o one /\ one \in Seq(Nat)
        /\ \A y : InSeq(y, one) <=> y = i
    BY <1>1, <1>2, AppendJoins DEF LeftInv
  <2> HIDE DEF one
  <2> QED  BY <2>1, JoinedHolds
<1>6. Status'[i] = "refunded"
  BY <1>2, <1>5 DEF StatusIs, InSeq
<1>7. \A j \in S : Status'[j] = "refunded"
  BY <1>6 DEF S
<1>8. CustodyLeave(S, "refunded")
  BY <1>1, <1>3, <1>4, <1>5, <1>7, GoneLeaves
<1> QED
  BY <1>2, <1>8 DEF S

\* Whatever leaves the ids alone and takes nothing out of the contract is a receipt.
LEMMA ReceivedReceives ==
    ASSUME WaitInv, WaitInv', UNCHANGED waitingVars,
           \A t \in Tokens : ledger'[t].balance[WaitingList] >= ledger[t].balance[WaitingList]
    PROVE  CustodyReceive
<1>1. UNCHANGED <<Status, Terms>>
  BY DEF Status, Terms, StatusOf, TermsOf, Pending, InSeq, waitingVars, historyVars
<1>2. \A t \in Tokens : ledger'[t].balance[WaitingList] \in Nat
  <2>1. (WaitInv => \A t \in Tokens : ledger[t].balance[WaitingList] \in Nat)'
    BY HeldTyped, PTL
  <2> QED  BY <2>1
<1>3. Held' = [t \in Tokens |-> ledger'[t].balance[WaitingList]]
  BY DEF Held
<1> QED
  BY <1>1, <1>2, <1>3 DEF CustodyReceive, Held

\* Every step of the contract or of the bridge is a step of the escrow.
LEMMA CustodyStep ==
    ASSUME WaitInv, WaitInv', LeftInv, StatusIs, StatusIs', [Next]_vars
    PROVE  Custody!EscrowNext
<1>1. ASSUME NEW d, IsTaken(d)
      PROVE  Custody!EscrowNext
  BY <1>1, TakenTakes, MappedTake
<1>2. ASSUME NEW t, NEW run, NEW callContract, NEW reserveBalance,
             IsApplied(t, run, callContract, reserveBalance)
      PROVE  Custody!EscrowNext
  <2> DEFINE S == run.taken
  <2>1. CustodyLeave(S, "bridged")
    BY <1>2, AppliedLeaves
  <2> HIDE DEF S
  <2>2. Custody!Leave(S, "bridged")
    BY <2>1, MappedLeave
  <2>3. S \in SUBSET {i \in CustodyIds : Status[i] = "waiting"}
    BY <2>1 DEF CustodyLeave
  <2> QED  BY <2>2, <2>3 DEF Custody!EscrowNext, Status, StatusOf, CustodyIds
<1>3. ASSUME NEW i, IsRefunded(i)
      PROVE  Custody!EscrowNext
  <2>1. i \in CustodyIds /\ CustodyLeave({i}, "refunded")
    BY <1>3, RefundedLeaves
  <2>2. Custody!Leave({i}, "refunded")
    BY <2>1, MappedLeave
  <2> QED  BY <2>1, <2>2 DEF Custody!EscrowNext, CustodyIds
<1>4. ASSUME NEW t, IsApproved(t)
      PROVE  Custody!EscrowNext
  <2>1. \A u \in Tokens : ledger'[u].balance[WaitingList] >= ledger[u].balance[WaitingList]
    BY <1>4, ApprovedBalance, HeldTyped
  <2> QED  BY <1>4, <2>1, ReceivedReceives, MappedReceive DEF IsApproved
<1>5. ASSUME [BridgeNext]_bridgeVars, UNCHANGED waitingVars
      PROVE  Custody!EscrowNext
  <2>1. \A u \in Tokens : ledger'[u].balance[WaitingList] >= ledger[u].balance[WaitingList]
    BY <1>5, BridgeKeepsCustody DEF WaitInv
  <2> QED  BY <1>5, <2>1, ReceivedReceives, MappedReceive
<1> QED
  BY <1>1, <1>2, <1>3, <1>4, <1>5, WaitSteps

\* The waiting list, with the bridge and everybody who calls either, implements the escrow: what
\* it takes it holds until the deposit leaves, once, with its own tokens and no others.
THEOREM CustodyImplemented == Spec => ImplementsEscrow
<1>1. Init => Custody!EscrowInit
  <2> SUFFICES ASSUME Init
               PROVE  Custody!EscrowInit
    OBVIOUS
  <2>1. WaitInv
    BY WaitInvInit
  <2>2. nextDepositId = 0 /\ \A i \in CustodyIds : i >= nextDepositId /\ ~ (i < nextDepositId)
    BY WaitingAssumption DEF Init, CustodyIds
  <2>3. \A i \in CustodyIds : Status[i] = "unused" /\ Terms[i] = NoHash
    <3> TAKE i \in CustodyIds
    <3>0. i \notin Pending /\ ~ InSeq(i, applied)
      BY DEF Init, Pending, InSeq
    <3>1. StatusOf(i) = "unused" /\ TermsOf(i) = NoHash
      BY <2>2, <3>0 DEF StatusOf, TermsOf
    <3> QED  BY <3>1 DEF Status, Terms
  <2>4. Held \in [Tokens -> Nat]
    BY <2>1, HeldTyped DEF Held
  <2> QED  BY <2>3, <2>4, MappedInit
<1>2. WaitInv /\ LeftInv => StatusIs
  BY StatusKnown
<1>3. WaitInv /\ WaitInv' /\ LeftInv /\ StatusIs /\ StatusIs' /\ [Next]_vars =>
        [Custody!EscrowNext]_(Custody!escrowVars)
  BY CustodyStep
<1> QED
  BY <1>1, <1>2, <1>3, WaitInvariant, LeftInvariant, PTL DEF Spec, ImplementsEscrow, Custody!EscrowSpec
=============================================================================
