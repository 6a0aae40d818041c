--------------------------- MODULE ReplicasProofs ---------------------------
(***************************************************************************)
(* Why the contracts may leave a check to the quorum: for every network in *)
(* which two quorums share an honest validator, every workload and every   *)
(* program of calls, an account cannot have two rival calls certified.     *)
(* From this: tokens have one owner, polls close, and replicas that have   *)
(* executed the same calls, in whatever orders, show the same state.       *)
(***************************************************************************)
EXTENDS Replicas, Lemmas, FiniteSetTheorems, TLAPS

\* Of the calls an account signs with one nonce a validator attests one.
OneForEachNonce ==
    /\ attested = [v \in Validators |-> attested[v]]
    /\ \A v \in Validators : \A s, t \in attested[v] :
           s.from = t.from /\ s.nonce = t.nonce => s = t

\* Of the calls an account signs with one nonce, spending twice what it has or giving a
\* token to two receivers, at most one is certified: what requireQuorum relies on.
NoncesUsedOnce ==
    \A s, t \in workload.calls :
        (s.from = t.from /\ s.nonce = t.nonce /\ IsCertified(s) /\ IsCertified(t)) => s = t

\* Every step keeps to one call for each nonce.
LEMMA OneForEachNonceSafety == Spec => []OneForEachNonce
<1>1. Init => OneForEachNonce
  BY DEF Init, OneForEachNonce
<1>2. OneForEachNonce /\ [Next]_vars => OneForEachNonce'
  <2> SUFFICES ASSUME OneForEachNonce, [Next]_vars
               PROVE  OneForEachNonce'
    OBVIOUS
  <2>1. ASSUME NEW v \in Validators, NEW tx \in workload.calls, Attest(v, tx)
        PROVE  OneForEachNonce'
    <3>1. /\ attested' = [attested EXCEPT ![v] = @ \cup {tx}]
          /\ {t \in attested[v] : t.from = tx.from /\ t.nonce = tx.nonce} = {}
      BY <2>1 DEF Attest, Rivals
    <3> QED  BY <3>1 DEF OneForEachNonce
  <2>2. CASE UNCHANGED attested
    BY <2>2 DEF OneForEachNonce
  <2> QED
    BY <2>1, <2>2 DEF Next, Execute, Elapse, vars
<1> QED
  BY <1>1, <1>2, PTL DEF Spec

\* Two sets of attesters large enough to certify have a validator in common.
LEMMA AttestersOverlap ==
    ASSUME NEW S \in SUBSET Validators, Enough(S), NEW T \in SUBSET Validators, Enough(T)
    PROVE  S \cap T # {}
<1>1. /\ IsFiniteSet(S) /\ IsFiniteSet(T) /\ IsFiniteSet(S \cup T)
      /\ Cardinality(S \cup T) <= Cardinality(Validators)
  <2>1. S \cup T \in SUBSET Validators
    OBVIOUS
  <2> QED  BY <2>1, ReplicasAssumption, FS_Subset
<1>2. Cardinality(S \cup T) = Cardinality(S) + Cardinality(T) - Cardinality(S \cap T)
  BY <1>1, FS_Union
<1>3. /\ Cardinality(S) \in Nat /\ Cardinality(T) \in Nat /\ Cardinality(S \cup T) \in Nat
      /\ Cardinality(Validators) \in Nat
  BY <1>1, ReplicasAssumption, FS_CardinalityType
<1>4. ASSUME S \cap T = {}
      PROVE  FALSE
  <2>1. Cardinality(S \cap T) = 0
    BY <1>4, FS_EmptySet
  <2> QED  BY <1>1, <1>2, <1>3, <2>1, ReplicasAssumption DEF Enough
<1> QED
  BY <1>4

\* A larger set of validators is enough too.
LEMMA MoreIsEnough ==
    ASSUME NEW T \in SUBSET Validators, NEW S \in SUBSET T, Enough(S)
    PROVE  Enough(T)
<1>1. IsFiniteSet(T)
  BY ReplicasAssumption, FS_Subset
<1>2. IsFiniteSet(S) /\ Cardinality(S) <= Cardinality(T)
  BY <1>1, FS_Subset
<1>3. Cardinality(S) \in Nat /\ Cardinality(T) \in Nat
  BY <1>1, <1>2, FS_CardinalityType
<1> QED
  BY <1>2, <1>3, ReplicasAssumption DEF Enough

\* An account cannot spend a nonce twice, whatever it signs and whatever the contracts do.
THEOREM NoncesUsedOnceSafety == Spec => []NoncesUsedOnce
<1>1. OneForEachNonce => NoncesUsedOnce
  <2> SUFFICES ASSUME OneForEachNonce, NEW s \in workload.calls, NEW t \in workload.calls,
                      s.from = t.from, s.nonce = t.nonce, IsCertified(s), IsCertified(t)
               PROVE  s = t
    BY DEF NoncesUsedOnce
  <2>1. Attesters(s) \in SUBSET Validators /\ Attesters(t) \in SUBSET Validators
    BY DEF Attesters
  <2>2. PICK v \in Validators : v \in Attesters(s) \cap Attesters(t)
    BY <2>1, AttestersOverlap DEF IsCertified
  <2> QED
    BY <2>2 DEF Attesters, OneForEachNonce
<1> QED
  BY <1>1, OneForEachNonceSafety, PTL

-----------------------------------------------------------------------------
(***************************************************************************)
(* Types, and the effect of a call on what the properties look at.         *)
(***************************************************************************)

IsStorage(s) ==
    /\ s = [tokens |-> s.tokens, nft |-> s.nft, notary |-> s.notary, voting |-> s.voting,
            registry |-> s.registry]
    /\ s.nft \in [Users -> Int]
    /\ s.voting = [deadline |-> s.voting.deadline, threshold |-> s.voting.threshold,
                   hasVoted |-> s.voting.hasVoted, voteCount |-> s.voting.voteCount,
                   executed |-> s.voting.executed]

ReplicasTypeOK ==
    /\ workload \in Workloads
    /\ clock \in [Validators -> Nat]
    /\ attested \in [Validators -> SUBSET workload.calls]
    /\ done \in [Validators -> SUBSET workload.calls]
    /\ storage = [v \in Validators |-> storage[v]]
    /\ \A v \in Validators : IsStorage(storage[v])
    /\ missed \subseteq workload.calls

\* Only mint and transferNFT touch the token's balances, only createProposal the deadline.
LEMMA AppliedEffect ==
    ASSUME NEW s, IsStorage(s), NEW tx, IsCall(tx)
    PROVE  /\ IsStorage(Applied(s, tx))
           /\ tx.call = "mint" => Applied(s, tx).nft = [s.nft EXCEPT ![tx.from] = 1]
           /\ tx.call = "transferNFT" => Applied(s, tx).nft = Moved(s.nft, tx, 1)
           /\ tx.call \notin {"mint", "transferNFT"} => Applied(s, tx).nft = s.nft
           /\ tx.call = "createProposal" => Applied(s, tx).voting.deadline = Deadline
           /\ tx.call # "createProposal" => Applied(s, tx).voting.deadline = s.voting.deadline
<1>1. CASE tx.call = "transfer"
  <2>1. Applied(s, tx) = [s EXCEPT !.tokens = Moved(@, tx, tx.amount)]
    BY <1>1 DEF Applied
  <2> QED  BY <1>1, <2>1 DEF IsStorage
<1>2. CASE tx.call = "transferNFT"
  <2>1. Applied(s, tx) = [s EXCEPT !.nft = Moved(@, tx, 1)]
    BY <1>2 DEF Applied
  <2>2. Moved(s.nft, tx, 1) \in [Users -> Int]
    BY <1>2 DEF Moved, IsCall, IsStorage
  <2> QED  BY <1>2, <2>1, <2>2 DEF IsStorage
<1>3. CASE tx.call = "mint"
  <2>1. Applied(s, tx) = [s EXCEPT !.nft[tx.from] = 1]
    BY <1>3 DEF Applied
  <2>2. [s.nft EXCEPT ![tx.from] = 1] \in [Users -> Int]
    BY DEF IsCall, IsStorage
  <2> QED  BY <1>3, <2>1, <2>2 DEF IsStorage
<1>4. CASE tx.call = "timestamp"
  <2>1. Applied(s, tx) = [s EXCEPT !.notary = Timestamped(@, tx.ts)]
    BY <1>4 DEF Applied
  <2> QED  BY <1>4, <2>1 DEF IsStorage
<1>5. CASE tx.call = "createProposal"
  <2>1. Applied(s, tx) = [s EXCEPT !.voting.deadline = Deadline]
    BY <1>5 DEF Applied
  <2> QED  BY <1>5, <2>1 DEF IsStorage
<1>6. CASE tx.call = "castVote"
  <2>1. Applied(s, tx) = [s EXCEPT !.voting.hasVoted = @ \cup {tx.from},
                                   !.voting.voteCount[tx.choice] = @ + 1]
    BY <1>6 DEF Applied
  <2> DEFINE p == s.voting
             voted == [p EXCEPT !.hasVoted = @ \cup {tx.from}]
             counted == [voted EXCEPT !.voteCount[tx.choice] = @ + 1]
  <2>2. Applied(s, tx) = [s EXCEPT !.voting = counted]
    <3>1. p.voteCount = voted.voteCount
      BY DEF IsStorage
    <3> QED  BY <2>1, <3>1 DEF IsStorage
  <2>3. voted.deadline = p.deadline
        /\ voted = [deadline |-> voted.deadline, threshold |-> voted.threshold,
                    hasVoted |-> voted.hasVoted, voteCount |-> voted.voteCount,
                    executed |-> voted.executed]
    BY DEF IsStorage
  <2>4. counted.deadline = voted.deadline
        /\ counted = [deadline |-> counted.deadline, threshold |-> counted.threshold,
                      hasVoted |-> counted.hasVoted, voteCount |-> counted.voteCount,
                      executed |-> counted.executed]
    <3> HIDE DEF voted
    <3> QED  BY <2>3
  <2> HIDE DEF counted, voted
  <2> QED  BY <1>6, <2>2, <2>3, <2>4 DEF IsStorage
<1>7. CASE tx.call = "execute"
  <2>1. Applied(s, tx) = [s EXCEPT !.voting.executed = TRUE]
    BY <1>7 DEF Applied
  <2> QED  BY <1>7, <2>1 DEF IsStorage
<1>8. CASE tx.call = "add"
  <2>1. Applied(s, tx) = [s EXCEPT !.registry = Added(@, tx.cid)]
    BY <1>8 DEF Applied
  <2> QED  BY <1>8, <2>1 DEF IsStorage
<1> QED
  BY <1>1, <1>2, <1>3, <1>4, <1>5, <1>6, <1>7, <1>8 DEF IsCall, CallNames

\* Every step keeps the types; what is executed or certified stays so.
THEOREM ReplicasTypes == Spec => []ReplicasTypeOK
<1>1. Init => ReplicasTypeOK
  <2> SUFFICES ASSUME Init
               PROVE  ReplicasTypeOK
    OBVIOUS
  <2>1. IsStorage(Genesis)
    <3>1. /\ Genesis.nft = [u \in Users |-> 0]
          /\ Genesis.voting = [deadline |-> 0, threshold |-> 0, hasVoted |-> {},
                               voteCount |-> [c \in VoteChoices |-> 0], executed |-> FALSE]
          /\ Genesis = [tokens |-> Genesis.tokens, nft |-> Genesis.nft, notary |-> Genesis.notary,
                        voting |-> Genesis.voting, registry |-> Genesis.registry]
      BY DEF Genesis
    <3> HIDE DEF Genesis
    <3> QED  BY <3>1 DEF IsStorage
  <2> QED  BY <2>1 DEF Init, ReplicasTypeOK
<1>2. ReplicasTypeOK /\ [Next]_vars => ReplicasTypeOK'
  <2> SUFFICES ASSUME ReplicasTypeOK, [Next]_vars
               PROVE  ReplicasTypeOK'
    OBVIOUS
  <2>1. ASSUME NEW v \in Validators, NEW tx \in workload.calls, Attest(v, tx)
        PROVE  ReplicasTypeOK'
    BY <2>1 DEF Attest, ReplicasTypeOK
  <2>2. ASSUME NEW v \in Validators, NEW tx \in workload.calls, Execute(v, tx)
        PROVE  ReplicasTypeOK'
    <3>1. IsStorage(Applied(storage[v], tx))
      <4>1. IsStorage(storage[v]) /\ IsCall(tx)
        BY WorkloadsAssumption DEF ReplicasTypeOK
      <4> QED  BY <4>1, AppliedEffect
    <3>2. /\ done' = [done EXCEPT ![v] = @ \cup {tx}]
          /\ storage' = [storage EXCEPT ![v] = Applied(storage[v], tx)]
          /\ UNCHANGED <<workload, clock, attested, missed>>
      BY <2>2 DEF Execute
    <3>3. /\ storage' = [w \in Validators |-> storage'[w]]
          /\ \A w \in Validators : IsStorage(storage'[w])
      BY <3>1, <3>2 DEF ReplicasTypeOK
    <3> QED  BY <3>2, <3>3 DEF ReplicasTypeOK
  <2>3. ASSUME NEW v \in Validators, Elapse(v)
        PROVE  ReplicasTypeOK'
    BY <2>3 DEF Elapse, ReplicasTypeOK
  <2>4. CASE UNCHANGED vars
    BY <2>4 DEF vars, ReplicasTypeOK
  <2> QED
    BY <2>1, <2>2, <2>3, <2>4 DEF Next
<1> QED
  BY <1>1, <1>2, PTL DEF Spec

-----------------------------------------------------------------------------
(***************************************************************************)
(* The deadline of a poll.                                                 *)
(***************************************************************************)

\* Whoever executes the proposal has created it before: before that the deadline is zero
\* and execute passes at once.
CreatedFirst ==
    \A tx \in workload.calls : tx.call = "execute" =>
        \E n \in 0 .. tx.nonce - 1 :
            \A t \in workload.calls :
                t.from = tx.from /\ t.nonce = n => t.call = "createProposal"

\* Nonces are used in their order: those of the calls executed for an account are the
\* numbers below their count.
ExecutedOf(v, u) == {t \in done[v] : t.from = u}

InOrder ==
    \A v \in Validators : \A u \in Users :
        /\ \A t \in ExecutedOf(v, u) : t.nonce < Cardinality(ExecutedOf(v, u))
        /\ \A k \in 0 .. Cardinality(ExecutedOf(v, u)) - 1 : \E t \in ExecutedOf(v, u) : t.nonce = k

\* The calls of a workload are finitely many.
LEMMA ExecutedFinite ==
    ASSUME ReplicasTypeOK, NEW v \in Validators, NEW u
    PROVE  /\ IsFiniteSet(workload.calls) /\ IsFiniteSet(ExecutedOf(v, u))
           /\ Cardinality(ExecutedOf(v, u)) \in Nat
           /\ \A tx \in workload.calls : IsCall(tx)
           /\ \A tx \in done[v] : tx \in workload.calls
<1>1. IsFiniteSet(workload.calls) /\ \A tx \in workload.calls : IsCall(tx)
  BY WorkloadsAssumption DEF ReplicasTypeOK
<1>2. done[v] \in SUBSET workload.calls /\ ExecutedOf(v, u) \in SUBSET workload.calls
  BY DEF ReplicasTypeOK, ExecutedOf
<1>3. IsFiniteSet(ExecutedOf(v, u))
  BY <1>1, <1>2, FS_Subset
<1>4. Cardinality(ExecutedOf(v, u)) \in Nat
  BY <1>3, FS_CardinalityType
<1> QED
  BY <1>1, <1>2, <1>3, <1>4

LEMMA InOrderSafety == Spec => []InOrder
<1>1. Init => InOrder
  <2> SUFFICES ASSUME Init
               PROVE  InOrder
    OBVIOUS
  <2>1. ASSUME NEW v \in Validators, NEW u \in Users
        PROVE  ExecutedOf(v, u) = {} /\ Cardinality(ExecutedOf(v, u)) = 0
    BY FS_EmptySet DEF Init, ExecutedOf
  <2> QED  BY <2>1 DEF InOrder
<1>2. ReplicasTypeOK /\ InOrder /\ [Next]_vars => InOrder'
  <2> SUFFICES ASSUME ReplicasTypeOK, InOrder, [Next]_vars
               PROVE  InOrder'
    OBVIOUS
  <2>1. ASSUME NEW v \in Validators, NEW tx \in workload.calls, Execute(v, tx)
        PROVE  InOrder'
    <3> DEFINE S == ExecutedOf(v, tx.from)
    <3>1. /\ done' = [done EXCEPT ![v] = @ \cup {tx}]
          /\ Cardinality(S) = tx.nonce
      BY <2>1 DEF Execute, Expected, ExecutedOf
    <3>2. \A w \in Validators : \A u \in Users :
             w # v \/ u # tx.from => ExecutedOf(w, u)' = ExecutedOf(w, u)
      BY <3>1 DEF ExecutedOf, ReplicasTypeOK
    <3>3. ExecutedOf(v, tx.from)' = S \cup {tx}
      BY <3>1 DEF ExecutedOf, ReplicasTypeOK
    <3>4. tx.from \in Users /\ IsFiniteSet(S) /\ tx.nonce \in Nat
      BY ExecutedFinite DEF IsCall
    <3>5. /\ \A t \in S : t.nonce < tx.nonce /\ t.nonce \in Nat
          /\ \A k \in 0 .. tx.nonce - 1 : \E t \in S : t.nonce = k
      <4>1. \A t \in S : t.nonce \in Nat
        BY ExecutedFinite DEF IsCall, ExecutedOf
      <4> QED  BY <3>1, <3>4, <4>1 DEF InOrder
    <3> HIDE DEF S
    <3>6. tx \notin S
      BY <3>4, <3>5
    <3>7. Cardinality(S \cup {tx}) = tx.nonce + 1
      BY <3>1, <3>4, <3>6, FS_AddElement
    <3>8. \A k \in 0 .. tx.nonce : \E t \in S \cup {tx} : t.nonce = k
      <4> TAKE k \in 0 .. tx.nonce
      <4>1. CASE k = tx.nonce
        BY <4>1
      <4>2. CASE k \in 0 .. tx.nonce - 1
        BY <3>5, <4>2
      <4> QED  BY <3>4, <4>1, <4>2
    <3>9. /\ \A t \in ExecutedOf(v, tx.from)' : t.nonce < Cardinality(ExecutedOf(v, tx.from)')
          /\ \A k \in 0 .. Cardinality(ExecutedOf(v, tx.from)') - 1 :
                \E t \in ExecutedOf(v, tx.from)' : t.nonce = k
      <4>1. (tx.nonce + 1) - 1 = tx.nonce /\ \A t \in S \cup {tx} : t.nonce < tx.nonce + 1
        BY <3>4, <3>5
      <4> QED  BY <3>3, <3>7, <3>8, <4>1
    <3> QED  BY <3>2, <3>9 DEF InOrder
  <2>2. CASE UNCHANGED done
    BY <2>2 DEF InOrder, ExecutedOf
  <2> QED
    BY <2>1, <2>2 DEF Next, Attest, Elapse, vars
<1> QED
  BY <1>1, <1>2, ReplicasTypes, PTL DEF Spec

\* A validator that expects a nonce has executed one call with each lower nonce.
LEMMA ExecutedBelow ==
    ASSUME ReplicasTypeOK, InOrder, NEW v \in Validators, NEW tx \in workload.calls,
           Expected(v, tx), NEW k \in 0 .. tx.nonce - 1
    PROVE  \E t \in done[v] : t.from = tx.from /\ t.nonce = k
<1>1. tx.from \in Users /\ Cardinality(ExecutedOf(v, tx.from)) = tx.nonce
  BY ExecutedFinite DEF Expected, ExecutedOf, IsCall
<1> QED
  BY <1>1 DEF InOrder, ExecutedOf

\* A replica knows the one deadline there is once it has executed createProposal.
DeadlineKnown ==
    \A v \in Validators :
        /\ storage[v].voting.deadline \in {0, Deadline}
        /\ \A t \in done[v] : t.call = "createProposal" => storage[v].voting.deadline = Deadline

\* A validator attests execute after the deadline, and no vote after that.
ExecutesLate ==
    \A v \in Validators : \A t \in attested[v] : t.call = "execute" => clock[v] > Deadline

\* The validators that will never attest a call, because the poll is over for them.
Past(t) == {v \in Validators : clock[v] > Deadline /\ t \notin attested[v]}

MissedStays == \A t \in missed : t.call = "castVote" => Enough(Past(t))

PollInv == CreatedFirst => DeadlineKnown /\ ExecutesLate /\ MissedStays

LEMMA DeadlineKnownKept ==
    ASSUME ReplicasTypeOK, DeadlineKnown, [Next]_vars
    PROVE  DeadlineKnown'
<1>1. ASSUME NEW v \in Validators, NEW tx \in workload.calls, Execute(v, tx)
      PROVE  DeadlineKnown'
  <2>1. /\ done' = [done EXCEPT ![v] = @ \cup {tx}]
        /\ storage' = [storage EXCEPT ![v] = Applied(storage[v], tx)]
    BY <1>1 DEF Execute
  <2>2. /\ tx.call = "createProposal" => Applied(storage[v], tx).voting.deadline = Deadline
        /\ tx.call # "createProposal" =>
              Applied(storage[v], tx).voting.deadline = storage[v].voting.deadline
    <3> DEFINE s == storage[v]
    <3>1. IsStorage(s) /\ IsCall(tx)
      BY ExecutedFinite DEF ReplicasTypeOK
    <3> HIDE DEF s
    <3>2. /\ tx.call = "createProposal" => Applied(s, tx).voting.deadline = Deadline
          /\ tx.call # "createProposal" => Applied(s, tx).voting.deadline = s.voting.deadline
      BY ONLY <3>1, AppliedEffect, ZenonT(30)
    <3> QED  BY <3>2 DEF s
  <2>3. /\ storage'[v].voting.deadline \in {0, Deadline}
        /\ \A t \in done'[v] : t.call = "createProposal" => storage'[v].voting.deadline = Deadline
    <3>1. storage'[v] = Applied(storage[v], tx) /\ done'[v] = done[v] \cup {tx}
      BY <2>1 DEF ReplicasTypeOK
    <3> QED  BY <2>2, <3>1 DEF DeadlineKnown
  <2>4. \A w \in Validators : w # v => storage'[w] = storage[w] /\ done'[w] = done[w]
    BY <2>1 DEF ReplicasTypeOK
  <2> QED  BY <2>3, <2>4 DEF DeadlineKnown
<1>2. CASE UNCHANGED <<done, storage>>
  BY <1>2 DEF DeadlineKnown
<1> QED
  BY <1>1, <1>2 DEF Next, Attest, Elapse, vars

\* A vote is attested before the deadline; execute after it, by a replica that knows it.
LEMMA AttestedInTime ==
    ASSUME ReplicasTypeOK, InOrder, DeadlineKnown, CreatedFirst,
           NEW v \in Validators, NEW tx \in workload.calls, Attest(v, tx)
    PROVE  /\ tx.call = "castVote" => clock[v] < Deadline
           /\ tx.call = "execute" => clock[v] > Deadline
<1>1. Valid(storage[v], tx) /\ Agreed(storage[v], clock[v], tx) /\ Expected(v, tx)
  BY DEF Attest
<1>2. ASSUME tx.call = "castVote"
      PROVE  clock[v] < Deadline
  <2>1. Created(storage[v].voting) /\ Before(clock[v], storage[v].voting.deadline)
    BY <1>1, <1>2 DEF Valid, Agreed
  <2> QED  BY <2>1 DEF Created, Before, DeadlineKnown
<1>3. ASSUME tx.call = "execute"
      PROVE  clock[v] > Deadline
  <2>1. After(clock[v], storage[v].voting.deadline)
    BY <1>1, <1>3 DEF Agreed
  <2>2. PICK n \in 0 .. tx.nonce - 1 :
            \A t \in workload.calls : t.from = tx.from /\ t.nonce = n => t.call = "createProposal"
    BY <1>3 DEF CreatedFirst
  <2>3. PICK t \in done[v] : t.from = tx.from /\ t.nonce = n
    BY <1>1, <2>2, ExecutedBelow
  <2>4. t.call = "createProposal"
    BY <2>2, <2>3, ExecutedFinite
  <2> QED  BY <2>1, <2>3, <2>4 DEF DeadlineKnown, After
<1> QED
  BY <1>2, <1>3

LEMMA PollInvKept ==
    ASSUME ReplicasTypeOK, InOrder, DeadlineKnown, ExecutesLate, MissedStays, CreatedFirst, [Next]_vars
    PROVE  ExecutesLate' /\ MissedStays'
<1>1. ASSUME NEW v \in Validators, NEW tx \in workload.calls, Attest(v, tx)
      PROVE  ExecutesLate' /\ MissedStays'
  <2>1. /\ attested' = [attested EXCEPT ![v] = @ \cup {tx}]
        /\ clock' = clock
        /\ \A t \in missed' : t \in missed \/ (Closes(v, tx) /\ Attesters(t) = {})
    BY <1>1 DEF Attest
  <2>2. /\ tx.call = "castVote" => clock[v] < Deadline
        /\ tx.call = "execute" => clock[v] > Deadline
    BY <1>1, AttestedInTime
  <2>3. clock \in [Validators -> Nat] /\ Deadline \in Nat
    BY ContractsAssumption DEF ReplicasTypeOK
  <2>4. attested'[v] = attested[v] \cup {tx} /\ \A w \in Validators : w # v => attested'[w] = attested[w]
    BY <2>1 DEF ReplicasTypeOK
  <2>5. ExecutesLate'
    BY <2>1, <2>2, <2>4 DEF ExecutesLate
  <2>6. ASSUME NEW t \in missed', t.call = "castVote"
        PROVE  Enough(Past(t)')
    <3>1. CASE t \in missed
      <4>1. Past(t)' = Past(t)
        BY <2>1, <2>2, <2>3, <2>4, <2>6 DEF Past
      <4> QED  BY <2>6, <3>1, <4>1 DEF MissedStays
    <3>2. CASE Closes(v, tx) /\ Attesters(t) = {}
      <4>1. tx.call = "execute" /\ Enough(Attesters(tx) \cup {v})
        BY <3>2 DEF Closes
      <4>2. \A w \in Attesters(tx) \cup {v} : clock[w] > Deadline
        BY <2>2, <4>1 DEF Attesters, ExecutesLate
      <4>3. \A w \in Validators : t \notin attested'[w]
        BY <2>4, <2>6, <3>2, <4>1 DEF Attesters
      <4>4. Attesters(tx) \cup {v} \in SUBSET (Past(t)') /\ Past(t)' \in SUBSET Validators
        BY <2>1, <4>2, <4>3 DEF Past, Attesters
      <4> QED  BY <4>1, <4>4, MoreIsEnough
    <3> QED  BY <2>1, <3>1, <3>2
  <2> QED  BY <2>5, <2>6 DEF MissedStays, Enough
<1>2. ASSUME NEW v \in Validators, Elapse(v)
      PROVE  ExecutesLate' /\ MissedStays'
  <2>1. /\ clock' = [clock EXCEPT ![v] = @ + 1]
        /\ UNCHANGED <<attested, missed>>
    BY <1>2 DEF Elapse
  <2>2. \A w \in Validators : clock[w] > Deadline => clock'[w] > Deadline
    BY <2>1, ContractsAssumption DEF ReplicasTypeOK
  <2>3. ExecutesLate'
    BY <2>1, <2>2 DEF ExecutesLate
  <2>4. ASSUME NEW t \in missed, t.call = "castVote"
        PROVE  Enough(Past(t)')
    <3>1. Past(t) \in SUBSET (Past(t)') /\ Past(t)' \in SUBSET Validators
      BY <2>1, <2>2 DEF Past
    <3> QED  BY <2>4, <3>1, MoreIsEnough DEF MissedStays
  <2> QED  BY <2>1, <2>3, <2>4 DEF MissedStays, Enough
<1>3. CASE UNCHANGED <<attested, clock, missed>>
  BY <1>3 DEF ExecutesLate, MissedStays, Past, Enough
<1> QED
  BY <1>1, <1>2, <1>3 DEF Next, Execute, vars

\* No vote is certified that nobody had attested when execute was: a quorum is past it.
THEOREM PollClosesSafety == Spec => [](CreatedFirst => PollCloses)
<1>1. Init => PollInv
  <2> SUFFICES ASSUME Init
               PROVE  DeadlineKnown /\ ExecutesLate /\ MissedStays
    BY DEF PollInv
  <2>1. Genesis.voting.deadline = 0
    BY DEF Genesis
  <2> QED  BY <2>1 DEF Init, DeadlineKnown, ExecutesLate, MissedStays
<1>2. ReplicasTypeOK /\ InOrder /\ PollInv /\ [Next]_vars => PollInv'
  <2> SUFFICES ASSUME ReplicasTypeOK, InOrder, PollInv, [Next]_vars, CreatedFirst'
               PROVE  DeadlineKnown' /\ ExecutesLate' /\ MissedStays'
    BY DEF PollInv
  <2>1. workload' = workload
    BY DEF Next, Attest, Execute, Elapse, vars
  <2>2. CreatedFirst
    BY <2>1 DEF CreatedFirst
  <2> QED  BY <2>2, DeadlineKnownKept, PollInvKept DEF PollInv
<1>3. ReplicasTypeOK /\ PollInv => (CreatedFirst => PollCloses)
  <2> SUFFICES ASSUME ReplicasTypeOK, MissedStays, NEW t \in missed, t.call = "castVote", IsCertified(t)
               PROVE  FALSE
    BY DEF PollInv, PollCloses
  <2>1. Attesters(t) \in SUBSET Validators /\ Past(t) \in SUBSET Validators
    BY DEF Attesters, Past
  <2>2. Attesters(t) \cap Past(t) # {}
    BY <2>1, AttestersOverlap DEF IsCertified, MissedStays
  <2> QED  BY <2>2 DEF Attesters, Past
<1> QED
  BY <1>1, <1>2, <1>3, ReplicasTypes, InOrderSafety, PTL DEF Spec

-----------------------------------------------------------------------------
(***************************************************************************)
(* The owner of a token.                                                   *)
(***************************************************************************)

\* A token is minted once: NFTs.mint has no such check and would assign the balance again.
MintedOnce == \A s, t \in Mints(workload.calls) : s = t

\* Replicas execute what is certified.
ExecutedCertified == \A v \in Validators : \A t \in done[v] : IsCertified(t)

\* Nobody can pass the token on before it is minted, not even where the receiver's own
\* transfer executes before the one that gave him the token.
NothingBeforeMint ==
    (\A v \in Validators : Mints(done[v]) = {}) =>
        \A v \in Validators :
            /\ \A u \in Users : storage[v].nft[u] <= 0
            /\ \A t \in attested[v] : t.call # "transferNFT"

\* The deployer gives the token away after minting it.
MintFirst ==
    \A v \in Validators : \A m \in Mints(done[v]) :
        m.from = Deployer /\ \A t \in Lost(Deployer, done[v]) : t.nonce > m.nonce

\* A replica credits an account with no more than what it executed says.
BalancesBounded ==
    \A v \in Validators : \A u \in Users :
        storage[v].nft[u] <= Cardinality(Gained(u, done[v])) - Cardinality(Lost(u, done[v]))

\* Of an account's earlier calls a replica has executed one for each nonce.
EarlierExecuted(v, tx) ==
    \A k \in 0 .. tx.nonce - 1 : \E t \in done[v] : t.from = tx.from /\ t.nonce = k

\* Whoever attests a transfer has seen the owner's earlier calls, and more gains than losses
\* among them; this stays true when everything certified is counted.
LostBelow(tx) == {t \in Lost(tx.from, Certified) : t.nonce < tx.nonce}

TransfersCovered ==
    \A v \in Validators : \A tx \in attested[v] : tx.call = "transferNFT" =>
        /\ EarlierExecuted(v, tx)
        /\ Cardinality(LostBelow(tx)) < Cardinality(Gained(tx.from, Certified))

\* Gains and losses among the calls of a workload are finite, and grow with the calls.
LEMMA GainsFinite ==
    ASSUME NEW S, IsFiniteSet(S), NEW u
    PROVE  /\ IsFiniteSet(Gained(u, S)) /\ Cardinality(Gained(u, S)) \in Nat
           /\ IsFiniteSet(Lost(u, S)) /\ Cardinality(Lost(u, S)) \in Nat
<1>1. Gained(u, S) \in SUBSET S /\ Lost(u, S) \in SUBSET S
  BY DEF Gained, Received, Mints, Lost
<1>2. IsFiniteSet(Gained(u, S)) /\ IsFiniteSet(Lost(u, S))
  BY <1>1, FS_Subset
<1> QED
  BY <1>2, FS_CardinalityType

\* A part of a finite set is finite and no larger.
LEMMA PartSmaller ==
    ASSUME NEW T, IsFiniteSet(T), NEW S \in SUBSET T
    PROVE  /\ IsFiniteSet(S) /\ Cardinality(S) \in Nat /\ Cardinality(T) \in Nat
           /\ Cardinality(S) <= Cardinality(T)
<1>1. IsFiniteSet(S) /\ Cardinality(S) <= Cardinality(T)
  BY FS_Subset
<1> QED
  BY <1>1, FS_CardinalityType

\* The calls executed at a replica, and those certified, are finitely many calls of the
\* workload; certified ones have been attested by somebody.
LEMMA CallsFinite ==
    ASSUME ReplicasTypeOK
    PROVE  /\ IsFiniteSet(Certified)
           /\ \A v \in Validators : IsFiniteSet(done[v])
           /\ \A tx \in Certified : tx \in workload.calls /\ \E v \in Validators : tx \in attested[v]
<1>1. IsFiniteSet(workload.calls)
  BY WorkloadsAssumption DEF ReplicasTypeOK
<1>2. Certified \in SUBSET workload.calls /\ \A v \in Validators : done[v] \in SUBSET workload.calls
  BY DEF Certified, ReplicasTypeOK
<1>3. ASSUME NEW tx \in Certified
      PROVE  \E v \in Validators : tx \in attested[v]
  <2>1. Enough(Attesters(tx)) /\ Attesters(tx) \in SUBSET Validators
    BY <1>3 DEF Certified, IsCertified, Attesters
  <2>2. PICK v \in Attesters(tx) : TRUE
    BY <2>1, AttestersOverlap
  <2> QED  BY <2>2 DEF Attesters
<1>4. IsFiniteSet(Certified)
  BY <1>1, <1>2, FS_Subset
<1>5. ASSUME NEW v \in Validators
      PROVE  IsFiniteSet(done[v])
  <2>1. done[v] \in SUBSET workload.calls
    BY <1>2
  <2> QED  BY <1>1, <2>1, FS_Subset
<1> QED
  BY <1>2, <1>3, <1>4, <1>5

\* What has been certified stays so.
LEMMA CertifiedGrows ==
    ASSUME ReplicasTypeOK, [Next]_vars
    PROVE  /\ Certified \subseteq Certified'
           /\ \A v \in Validators : done[v] \subseteq done'[v]
           /\ workload' = workload
<1>1. /\ workload' = workload
      /\ \A v \in Validators : done[v] \subseteq done'[v] /\ attested[v] \subseteq attested'[v]
  BY DEF ReplicasTypeOK, Next, Attest, Execute, Elapse, vars
<1>2. ASSUME NEW tx \in Certified
      PROVE  tx \in Certified'
  <2>1. /\ Attesters(tx) \in SUBSET (Attesters(tx)') /\ Attesters(tx)' \in SUBSET Validators
        /\ Enough(Attesters(tx))
    BY <1>1, <1>2 DEF Certified, IsCertified, Attesters
  <2>2. Enough(Attesters(tx)')
    BY <2>1, MoreIsEnough
  <2> QED  BY <1>1, <1>2, <2>2 DEF Certified, IsCertified, Enough
<1> QED
  BY <1>1, <1>2

\* Replicas execute only what is certified and stays so.
LEMMA ExecutedCertifiedSafety == Spec => []ExecutedCertified
<1>1. Init => ExecutedCertified
  BY DEF Init, ExecutedCertified
<1>2. ReplicasTypeOK /\ ExecutedCertified /\ [Next]_vars => ExecutedCertified'
  <2> SUFFICES ASSUME ReplicasTypeOK, ExecutedCertified, [Next]_vars,
                      NEW v \in Validators, NEW t \in done'[v]
               PROVE  IsCertified(t)'
    BY DEF ExecutedCertified
  <2>1. t \in Certified => IsCertified(t)'
    BY CertifiedGrows DEF Certified
  <2>2. t \in done[v] => t \in Certified
    BY DEF ExecutedCertified, Certified, ReplicasTypeOK
  <2>3. t \notin done[v] => t \in Certified
    BY DEF Next, Attest, Execute, Elapse, vars, ReplicasTypeOK, Certified
  <2> QED  BY <2>1, <2>2, <2>3
<1> QED
  BY <1>1, <1>2, ReplicasTypes, PTL DEF Spec

\* Where a replica has executed an account's earlier calls, no other calls with their
\* nonces are certified.
NoneBelow ==
    \A v \in Validators : \A tx \in workload.calls :
        EarlierExecuted(v, tx) =>
            \A t \in Certified : t.from = tx.from /\ t.nonce < tx.nonce => t \in done[v]

LEMMA NoneBelowSafety == Spec => []NoneBelow
<1>1. ReplicasTypeOK /\ ExecutedCertified /\ NoncesUsedOnce => NoneBelow
  <2> SUFFICES ASSUME ReplicasTypeOK, ExecutedCertified, NoncesUsedOnce,
                      NEW v \in Validators, NEW tx \in workload.calls, EarlierExecuted(v, tx),
                      NEW t \in Certified, t.from = tx.from, t.nonce < tx.nonce
               PROVE  t \in done[v]
    BY DEF NoneBelow
  <2>1. t \in workload.calls /\ IsCertified(t)
    BY DEF Certified
  <2>2. IsCall(t) /\ IsCall(tx)
    BY <2>1, WorkloadsAssumption DEF ReplicasTypeOK
  <2>3. t.nonce \in 0 .. tx.nonce - 1
    BY <2>2 DEF IsCall
  <2>4. PICK s \in done[v] : s.from = tx.from /\ s.nonce = t.nonce
    BY <2>3 DEF EarlierExecuted
  <2>5. s \in workload.calls /\ IsCertified(s)
    BY DEF ReplicasTypeOK, ExecutedCertified
  <2> QED  BY <2>1, <2>4, <2>5 DEF NoncesUsedOnce
<1> QED
  BY <1>1, ReplicasTypes, ExecutedCertifiedSafety, NoncesUsedOnceSafety, PTL

\* A replica executes a call only once.
LEMMA NewCall ==
    ASSUME ReplicasTypeOK, InOrder, NEW v \in Validators, NEW tx \in workload.calls, Expected(v, tx)
    PROVE  /\ tx \notin done[v]
           /\ \A t \in done[v] : t.from = tx.from => t.nonce < tx.nonce
           /\ EarlierExecuted(v, tx)
<1>1. tx.from \in Users /\ tx.nonce \in Nat /\ Cardinality(ExecutedOf(v, tx.from)) = tx.nonce
  BY ExecutedFinite DEF Expected, ExecutedOf, IsCall
<1>2. \A t \in done[v] : t.from = tx.from => t.nonce < tx.nonce
  BY <1>1 DEF InOrder, ExecutedOf
<1>3. EarlierExecuted(v, tx)
  BY ExecutedBelow DEF EarlierExecuted
<1>4. tx \notin done[v]
  BY <1>1, <1>2
<1> QED
  BY <1>2, <1>3, <1>4

\* A transfer is attested by a replica at which the sender owns the token, mint comes from
\* the deployer.
LEMMA TransferAttested ==
    ASSUME NEW v \in Validators, NEW tx
    PROVE  /\ Attest(v, tx) /\ tx.call = "transferNFT" => storage[v].nft[tx.from] = 1
           /\ Execute(v, tx) /\ tx.call = "mint" => tx.from = Deployer
<1>1. Attest(v, tx) /\ tx.call = "transferNFT" => storage[v].nft[tx.from] = 1
  BY DEF Attest, Agreed, OwnsToken
<1>2. Execute(v, tx) /\ tx.call = "mint" => tx.from = Deployer
  BY DEF Execute, Valid
<1> QED
  BY <1>1, <1>2

LEMMA NothingBeforeMintKept ==
    ASSUME ReplicasTypeOK, NothingBeforeMint, [Next]_vars
    PROVE  NothingBeforeMint'
<1> SUFFICES ASSUME \A v \in Validators : Mints(done'[v]) = {}
             PROVE  \A v \in Validators :
                        /\ \A u \in Users : storage'[v].nft[u] <= 0
                        /\ \A t \in attested'[v] : t.call # "transferNFT"
  BY DEF NothingBeforeMint, Mints
<1>1. \A v \in Validators :
          /\ \A u \in Users : storage[v].nft[u] <= 0
          /\ \A t \in attested[v] : t.call # "transferNFT"
  <2>1. \A v \in Validators : Mints(done[v]) = {}
    BY CertifiedGrows DEF Mints
  <2> QED  BY <2>1 DEF NothingBeforeMint
<1>2. ASSUME NEW v \in Validators, NEW tx \in workload.calls, Attest(v, tx)
      PROVE  attested'[v] = attested[v] \cup {tx} /\ tx.call # "transferNFT"
  <2>1. tx.from \in Users
    BY ExecutedFinite DEF IsCall
  <2>2. tx.call # "transferNFT"
    BY <1>1, <1>2, <2>1, TransferAttested
  <2> QED  BY <1>2, <2>2 DEF Attest, ReplicasTypeOK
<1>3. ASSUME NEW v \in Validators, NEW tx \in workload.calls, Execute(v, tx)
      PROVE  storage'[v].nft = storage[v].nft
  <2>1. tx \in done'[v] /\ tx \in Certified /\ storage'[v] = Applied(storage[v], tx)
    <3>1. /\ done' = [done EXCEPT ![v] = @ \cup {tx}]
          /\ storage' = [storage EXCEPT ![v] = Applied(@, tx)]
          /\ IsCertified(tx)
      BY <1>3 DEF Execute
    <3> QED  BY <3>1 DEF ReplicasTypeOK, Certified
  <2>2. tx.call # "mint" /\ tx.call # "transferNFT"
    BY <1>1, <2>1, CallsFinite DEF Mints
  <2>3. IsStorage(storage[v]) /\ IsCall(tx)
    BY ExecutedFinite DEF ReplicasTypeOK
  <2>4. Applied(storage[v], tx).nft = storage[v].nft
    BY <2>2, <2>3, AppliedEffect
  <2> QED  BY <2>1, <2>4
<1>4. ASSUME NEW v \in Validators, NEW tx \in workload.calls, Attest(v, tx) \/ Execute(v, tx)
      PROVE  \A w \in Validators : w # v => attested'[w] = attested[w] /\ storage'[w] = storage[w]
  BY <1>4 DEF Attest, Execute, ReplicasTypeOK
<1>5. ASSUME NEW v \in Validators, NEW tx \in workload.calls, Attest(v, tx)
      PROVE  \A w \in Validators : storage'[w] = storage[w]
  BY <1>5 DEF Attest
<1>6. ASSUME NEW v \in Validators, NEW tx \in workload.calls, Execute(v, tx)
      PROVE  \A w \in Validators : attested'[w] = attested[w]
  BY <1>6 DEF Execute
<1>7. CASE UNCHANGED <<attested, storage>>
  BY <1>1, <1>7
<1> QED
  BY <1>1, <1>2, <1>3, <1>4, <1>5, <1>6, <1>7 DEF Next, Elapse, vars

LEMMA MintFirstKept ==
    ASSUME ReplicasTypeOK, InOrder, ExecutedCertified, NoneBelow, MintedOnce,
           NothingBeforeMint, MintFirst, [Next]_vars
    PROVE  MintFirst'
<1>1. ASSUME NEW v \in Validators, NEW tx \in workload.calls, Execute(v, tx)
      PROVE  MintFirst'
  <2>1. /\ done'[v] = done[v] \cup {tx}
        /\ \A w \in Validators : w # v => done'[w] = done[w]
        /\ Expected(v, tx)
    BY <1>1 DEF Execute, ReplicasTypeOK
  <2>2. /\ tx \notin done[v]
        /\ \A t \in done[v] : t.from = tx.from => t.nonce < tx.nonce
    BY <2>1, NewCall
  <2>3. ASSUME tx.call = "mint"
        PROVE  tx.from = Deployer /\ Lost(Deployer, done[v]) = {}
    <3>1. tx.from = Deployer
      BY <1>1, <2>3, TransferAttested
    <3>2. ASSUME NEW t \in done[v], t.call = "transferNFT", t.from = Deployer
          PROVE  FALSE
      <4>1. t \in Certified /\ t.nonce < tx.nonce
        BY <2>2, <3>1, <3>2 DEF ExecutedCertified, Certified, ReplicasTypeOK
      <4>2. PICK w \in Validators : Mints(done[w]) # {}
        BY <3>2, <4>1, CallsFinite DEF NothingBeforeMint
      <4>3. tx \in Mints(done[w])
        <5>1. PICK m \in Mints(done[w]) : TRUE
          BY <4>2
        <5>2. m \in Mints(workload.calls) /\ tx \in Mints(workload.calls)
          BY <2>3, <5>1 DEF Mints, ReplicasTypeOK
        <5> QED  BY <5>1, <5>2 DEF MintedOnce
      <4>4. EarlierExecuted(w, tx)
        <5>1. tx \in ExecutedOf(w, tx.from) /\ tx.from \in Users /\ tx.nonce \in Nat
          BY <4>3, ExecutedFinite DEF Mints, ExecutedOf, IsCall
        <5>2. tx.nonce < Cardinality(ExecutedOf(w, tx.from)) /\ Cardinality(ExecutedOf(w, tx.from)) \in Nat
          BY <5>1, ExecutedFinite DEF InOrder
        <5>3. \A k \in 0 .. tx.nonce - 1 : k \in 0 .. Cardinality(ExecutedOf(w, tx.from)) - 1
          BY <5>1, <5>2
        <5>4. \A k \in 0 .. tx.nonce - 1 : \E s \in ExecutedOf(w, tx.from) : s.nonce = k
          BY <5>1, <5>3 DEF InOrder
        <5> QED  BY <5>4 DEF EarlierExecuted, ExecutedOf
      <4>5. t \in Lost(Deployer, done[w])
        BY <3>1, <3>2, <4>1, <4>4 DEF NoneBelow, Lost
      <4>6. t.nonce > tx.nonce
        BY <4>3, <4>5 DEF MintFirst
      <4>7. t.nonce \in Nat /\ tx.nonce \in Nat
        BY <3>2, ExecutedFinite DEF IsCall
      <4> QED  BY <4>1, <4>6, <4>7
    <3> QED  BY <3>1, <3>2 DEF Lost
  <2>4. ASSUME NEW m \in Mints(done'[v])
        PROVE  m.from = Deployer /\ \A t \in Lost(Deployer, done'[v]) : t.nonce > m.nonce
    <3>1. CASE m = tx
      BY <2>1, <2>3, <2>4, <3>1 DEF Lost, Mints
    <3>2. CASE m \in Mints(done[v])
      <4>1. m.from = Deployer /\ \A t \in Lost(Deployer, done[v]) : t.nonce > m.nonce
        BY <3>2 DEF MintFirst
      <4>2. tx.from = Deployer => tx.nonce > m.nonce
        <5>1. m \in done[v] /\ m.nonce \in Nat /\ tx.nonce \in Nat
          BY <3>2, ExecutedFinite DEF Mints, IsCall
        <5> QED  BY <2>2, <4>1, <5>1
      <4> QED  BY <2>1, <4>1, <4>2 DEF Lost
    <3> QED  BY <2>1, <2>4, <3>1, <3>2 DEF Mints
  <2>5. ASSUME NEW w \in Validators, w # v, NEW m \in Mints(done'[w])
        PROVE  m.from = Deployer /\ \A t \in Lost(Deployer, done'[w]) : t.nonce > m.nonce
    BY <2>1, <2>5 DEF MintFirst
  <2> QED  BY <2>4, <2>5 DEF MintFirst, Mints, Lost
<1>2. CASE UNCHANGED done
  BY <1>2 DEF MintFirst, Mints, Lost
<1> QED
  BY <1>1, <1>2 DEF Next, Attest, Elapse, vars

\* What one more call adds to an account's gains and losses.
LEMMA GainsGrow ==
    ASSUME NEW S, IsFiniteSet(S), NEW tx, tx \notin S, NEW u
    PROVE  /\ Cardinality(Gained(u, S \cup {tx})) = Cardinality(Gained(u, S))
                 + (IF (tx.call = "mint" /\ tx.from = u) \/ (tx.call = "transferNFT" /\ tx.to = u)
                    THEN 1 ELSE 0)
           /\ Cardinality(Lost(u, S \cup {tx})) = Cardinality(Lost(u, S))
                 + (IF tx.call = "transferNFT" /\ tx.from = u THEN 1 ELSE 0)
<1>1. /\ IsFiniteSet(Gained(u, S)) /\ Cardinality(Gained(u, S)) \in Nat
      /\ IsFiniteSet(Lost(u, S)) /\ Cardinality(Lost(u, S)) \in Nat
  BY GainsFinite
<1>2. tx \notin Gained(u, S) /\ tx \notin Lost(u, S)
  BY DEF Gained, Received, Mints, Lost
<1>3. /\ Cardinality(Gained(u, S) \cup {tx}) = Cardinality(Gained(u, S)) + 1
      /\ Cardinality(Lost(u, S) \cup {tx}) = Cardinality(Lost(u, S)) + 1
  BY <1>1, <1>2, FS_AddElement
<1>4. Gained(u, S \cup {tx}) =
          IF (tx.call = "mint" /\ tx.from = u) \/ (tx.call = "transferNFT" /\ tx.to = u)
          THEN Gained(u, S) \cup {tx} ELSE Gained(u, S)
  BY DEF Gained, Received, Mints
<1>5. Lost(u, S \cup {tx}) =
          IF tx.call = "transferNFT" /\ tx.from = u THEN Lost(u, S) \cup {tx} ELSE Lost(u, S)
  BY DEF Lost
<1> QED
  BY <1>1, <1>3, <1>4, <1>5

LEMMA BalancesBoundedKept ==
    ASSUME ReplicasTypeOK, InOrder, MintFirst', BalancesBounded, [Next]_vars
    PROVE  BalancesBounded'
<1>1. ASSUME NEW v \in Validators, NEW tx \in workload.calls, Execute(v, tx)
      PROVE  BalancesBounded'
  <2>1. /\ done'[v] = done[v] \cup {tx}
        /\ storage'[v] = Applied(storage[v], tx)
        /\ \A w \in Validators : w # v => done'[w] = done[w] /\ storage'[w] = storage[w]
        /\ Expected(v, tx)
    <3>1. /\ done' = [done EXCEPT ![v] = @ \cup {tx}]
          /\ storage' = [storage EXCEPT ![v] = Applied(@, tx)]
          /\ Expected(v, tx)
      BY <1>1 DEF Execute
    <3> QED  BY <3>1 DEF ReplicasTypeOK
  <2>2. /\ tx \notin done[v] /\ IsFiniteSet(done[v]) /\ IsStorage(storage[v]) /\ IsCall(tx)
        /\ \A t \in done[v] : t.from = tx.from => t.nonce < tx.nonce
    BY <2>1, NewCall, CallsFinite, ExecutedFinite DEF ReplicasTypeOK
  <2> DEFINE nft == storage[v].nft
  <2>3. ASSUME NEW u \in Users
        PROVE  storage'[v].nft[u] <= Cardinality(Gained(u, done'[v])) - Cardinality(Lost(u, done'[v]))
    <3>1. /\ Cardinality(Gained(u, done'[v])) = Cardinality(Gained(u, done[v]))
                + (IF (tx.call = "mint" /\ tx.from = u) \/ (tx.call = "transferNFT" /\ tx.to = u)
                   THEN 1 ELSE 0)
          /\ Cardinality(Lost(u, done'[v])) = Cardinality(Lost(u, done[v]))
                + (IF tx.call = "transferNFT" /\ tx.from = u THEN 1 ELSE 0)
      BY <2>1, <2>2, GainsGrow
    <3>2. /\ Cardinality(Gained(u, done[v])) \in Nat /\ Cardinality(Lost(u, done[v])) \in Nat
          /\ nft[u] <= Cardinality(Gained(u, done[v])) - Cardinality(Lost(u, done[v]))
          /\ nft \in [Users -> Int] /\ nft[u] \in Int
      BY <2>2, GainsFinite DEF BalancesBounded, IsStorage
    <3>3. CASE tx.call = "mint"
      <4>1. storage'[v].nft = [nft EXCEPT ![tx.from] = 1]
        <5>1. Applied(storage[v], tx).nft = [nft EXCEPT ![tx.from] = 1]
          BY <2>2, <3>3, AppliedEffect
        <5> QED  BY ONLY <2>1, <5>1
      <4>2. ASSUME u = tx.from
            PROVE  Cardinality(Lost(u, done[v])) = 0
        <5>1. tx \in Mints(done'[v])
          BY <2>1, <3>3 DEF Mints
        <5>2. \A t \in Lost(u, done[v]) : t.nonce > tx.nonce /\ t.nonce < tx.nonce
          BY <2>1, <2>2, <4>2, <5>1 DEF MintFirst, Lost
        <5>3. \A t \in Lost(u, done[v]) : t.nonce \in Nat /\ tx.nonce \in Nat
          BY <2>2, ExecutedFinite DEF Lost, IsCall
        <5>4. Lost(u, done[v]) = {}
          BY <5>2, <5>3
        <5> QED  BY <5>4, FS_EmptySet
      <4> HIDE DEF nft
      <4>3. storage'[v].nft[u] = IF u = tx.from THEN 1 ELSE nft[u]
        BY <3>2, <4>1
      <4> QED  BY <3>1, <3>2, <3>3, <4>2, <4>3
    <3>4. CASE tx.call = "transferNFT"
      <4>1. storage'[v].nft = Moved(nft, tx, 1)
        <5>1. Applied(storage[v], tx).nft = Moved(nft, tx, 1)
          BY <2>2, <3>4, AppliedEffect
        <5> QED  BY ONLY <2>1, <5>1
      <4>2. tx.from \in Users /\ tx.to \in Users
        BY <2>2, <3>4 DEF IsCall
      <4> HIDE DEF nft
      <4>3. storage'[v].nft[u] = nft[u] - (IF tx.from = u THEN 1 ELSE 0) + (IF tx.to = u THEN 1 ELSE 0)
        BY <3>2, <4>1, <4>2 DEF Moved
      <4> QED  BY <3>1, <3>2, <3>4, <4>3
    <3>5. CASE tx.call \notin {"mint", "transferNFT"}
      <4>1. storage'[v].nft = nft
        <5>1. Applied(storage[v], tx).nft = nft
          BY <2>2, <3>5, AppliedEffect
        <5> QED  BY ONLY <2>1, <5>1
      <4> HIDE DEF nft
      <4> QED  BY <3>1, <3>2, <3>5, <4>1
    <3> QED  BY <3>3, <3>4, <3>5
  <2>4. ASSUME NEW w \in Validators, w # v
        PROVE  \A u \in Users :
                   storage'[w].nft[u] <= Cardinality(Gained(u, done'[w])) - Cardinality(Lost(u, done'[w]))
    BY <2>1, <2>4 DEF BalancesBounded
  <2> QED  BY <2>3, <2>4 DEF BalancesBounded, Gained, Received, Mints, Lost
<1>2. CASE UNCHANGED <<done, storage>>
  BY <1>2 DEF BalancesBounded, Gained, Received, Mints, Lost
<1> QED
  BY <1>1, <1>2 DEF Next, Attest, Elapse, vars

LEMMA TransfersCoveredKept ==
    ASSUME ReplicasTypeOK, ReplicasTypeOK', InOrder, ExecutedCertified, NoncesUsedOnce', NoneBelow',
           BalancesBounded, TransfersCovered, [Next]_vars
    PROVE  TransfersCovered'
<1> DEFINE Covered(tx) == Cardinality(LostBelow(tx)') < Cardinality(Gained(tx.from, Certified'))
<1>1. /\ Certified \subseteq Certified' /\ IsFiniteSet(Certified) /\ IsFiniteSet(Certified')
      /\ \A v \in Validators : done[v] \subseteq done'[v] /\ done[v] \subseteq Certified
                                  /\ IsFiniteSet(done[v])
      /\ workload' = workload
  <2>1. IsFiniteSet(Certified) /\ \A v \in Validators : IsFiniteSet(done[v])
    BY CallsFinite
  <2>2. Certified' \in SUBSET workload.calls /\ IsFiniteSet(workload.calls)
    BY CertifiedGrows, WorkloadsAssumption DEF Certified, ReplicasTypeOK
  <2>3. IsFiniteSet(Certified')
    BY <2>2, FS_Subset
  <2>4. \A v \in Validators : done[v] \subseteq Certified
    BY DEF ExecutedCertified, Certified, ReplicasTypeOK
  <2> QED  BY <2>1, <2>3, <2>4, CertifiedGrows DEF Certified
<1>2. ASSUME NEW v \in Validators, NEW tx \in workload.calls, EarlierExecuted(v, tx)
      PROVE  EarlierExecuted(v, tx)' /\ \A t \in LostBelow(tx)' : t \in done'[v]
  <2>1. EarlierExecuted(v, tx)'
    BY <1>1, <1>2 DEF EarlierExecuted
  <2> QED  BY <1>1, <2>1 DEF NoneBelow, LostBelow, Lost
<1>3. ASSUME NEW v \in Validators, NEW tx \in attested[v], tx.call = "transferNFT"
      PROVE  EarlierExecuted(v, tx)' /\ Covered(tx)
  <2>1. /\ tx \in workload.calls
        /\ EarlierExecuted(v, tx)
        /\ Cardinality(LostBelow(tx)) < Cardinality(Gained(tx.from, Certified))
    BY <1>3 DEF TransfersCovered, ReplicasTypeOK
  <2>2. LostBelow(tx)' \in SUBSET LostBelow(tx)
    <3>1. ASSUME NEW t \in LostBelow(tx)'
          PROVE  t \in LostBelow(tx)
      <4>1. t \in Certified' /\ t.from = tx.from /\ t.nonce < tx.nonce /\ t.call = "transferNFT"
        BY <3>1 DEF LostBelow, Lost
      <4>2. IsCall(t) /\ IsCall(tx)
        BY <1>1, <2>1, <4>1, ExecutedFinite DEF Certified
      <4>3. t.nonce \in 0 .. tx.nonce - 1
        BY <4>1, <4>2 DEF IsCall
      <4>4. PICK s \in done[v] : s.from = tx.from /\ s.nonce = t.nonce
        BY <2>1, <4>3 DEF EarlierExecuted
      <4>5. s \in Certified /\ s \in Certified' /\ s = t
        BY <1>1, <4>1, <4>4 DEF NoncesUsedOnce, Certified
      <4> QED  BY <4>1, <4>5 DEF LostBelow, Lost
    <3> QED  BY <3>1
  <2>3. Gained(tx.from, Certified) \in SUBSET Gained(tx.from, Certified')
    BY <1>1 DEF Gained, Received, Mints
  <2>4. IsFiniteSet(LostBelow(tx)) /\ IsFiniteSet(Gained(tx.from, Certified'))
    <3>1. IsFiniteSet(Lost(tx.from, Certified)) /\ IsFiniteSet(Gained(tx.from, Certified'))
      BY <1>1, GainsFinite
    <3>2. LostBelow(tx) \in SUBSET Lost(tx.from, Certified)
      BY DEF LostBelow
    <3> QED  BY <3>1, <3>2, PartSmaller
  <2>5. /\ Cardinality(LostBelow(tx)') \in Nat /\ Cardinality(LostBelow(tx)) \in Nat
        /\ Cardinality(LostBelow(tx)') <= Cardinality(LostBelow(tx))
    BY <2>2, <2>4, PartSmaller
  <2>6. /\ Cardinality(Gained(tx.from, Certified)) \in Nat
        /\ Cardinality(Gained(tx.from, Certified')) \in Nat
        /\ Cardinality(Gained(tx.from, Certified)) <= Cardinality(Gained(tx.from, Certified'))
    BY <2>3, <2>4, PartSmaller
  <2> QED  BY <1>2, <2>1, <2>5, <2>6
<1>4. ASSUME NEW v \in Validators, NEW tx \in workload.calls, Attest(v, tx), tx.call = "transferNFT"
      PROVE  EarlierExecuted(v, tx)' /\ Covered(tx)
  <2>1. /\ Expected(v, tx) /\ EarlierExecuted(v, tx)
        /\ storage[v].nft[tx.from] = 1 /\ done'[v] = done[v] /\ tx.from \in Users
    BY <1>4, NewCall, TransferAttested, ExecutedFinite DEF Attest, IsCall
  <2>2. /\ LostBelow(tx)' \in SUBSET Lost(tx.from, done[v])
        /\ Gained(tx.from, done[v]) \in SUBSET Gained(tx.from, Certified')
    <3>1. LostBelow(tx)' \in SUBSET Lost(tx.from, done[v])
      BY <1>2, <2>1 DEF LostBelow, Lost
    <3>2. Gained(tx.from, done[v]) \in SUBSET Gained(tx.from, Certified')
      BY <1>1 DEF Gained, Received, Mints
    <3> QED  BY <3>1, <3>2
  <2>3. /\ IsFiniteSet(Gained(tx.from, Certified')) /\ IsFiniteSet(Lost(tx.from, done[v]))
    BY <1>1, GainsFinite
  <2>4. /\ Cardinality(LostBelow(tx)') \in Nat /\ Cardinality(Lost(tx.from, done[v])) \in Nat
        /\ Cardinality(LostBelow(tx)') <= Cardinality(Lost(tx.from, done[v]))
    BY <2>2, <2>3, PartSmaller
  <2>5. /\ Cardinality(Gained(tx.from, done[v])) \in Nat
        /\ Cardinality(Gained(tx.from, Certified')) \in Nat
        /\ Cardinality(Gained(tx.from, done[v])) <= Cardinality(Gained(tx.from, Certified'))
    BY <2>2, <2>3, PartSmaller
  <2>6. 1 <= Cardinality(Gained(tx.from, done[v])) - Cardinality(Lost(tx.from, done[v]))
    BY <2>1 DEF BalancesBounded
  <2> QED  BY <1>2, <2>1, <2>4, <2>5, <2>6
<1>5. ASSUME NEW v \in Validators, NEW tx \in attested'[v]
      PROVE  tx \in attested[v] \/ (tx \in workload.calls /\ Attest(v, tx))
  BY <1>5 DEF Next, Attest, Execute, Elapse, vars, ReplicasTypeOK
<1> HIDE DEF Covered
<1>6. ASSUME NEW v \in Validators, NEW tx \in attested'[v], tx.call = "transferNFT"
      PROVE  EarlierExecuted(v, tx)' /\ Covered(tx)
  BY <1>3, <1>4, <1>5, <1>6
<1> QED
  BY <1>6 DEF Covered, TransfersCovered, Gained, Received, Mints

\* Of finitely many calls one has the greatest nonce.
LEMMA LastCall ==
    ASSUME NEW S, IsFiniteSet(S), \A t \in S : t.nonce \in Nat, S # {}
    PROVE  \E t \in S : \A s \in S : s.nonce <= t.nonce
<1> DEFINE P == {T \in SUBSET S : T = {} \/ \E t \in T : \A s \in T : s.nonce <= t.nonce}
<1>1. {} \in P
  OBVIOUS
<1>2. ASSUME NEW T \in SUBSET S, T # {}, \A x \in T : T \ {x} \in P
      PROVE  T \in P
  <2>1. PICK x \in T : T \ {x} \in P
    BY <1>2
  <2>2. CASE T \ {x} = {}
    <3>1. T = {x} /\ x.nonce <= x.nonce
      BY <2>2
    <3> QED  BY <3>1
  <2>3. CASE \E t \in T \ {x} : \A s \in T \ {x} : s.nonce <= t.nonce
    <3>1. PICK t \in T \ {x} : \A s \in T \ {x} : s.nonce <= t.nonce
      BY <2>3
    <3>2. x.nonce \in Nat /\ t.nonce \in Nat /\ \A s \in T : s.nonce \in Nat
      OBVIOUS
    <3>3. CASE x.nonce <= t.nonce
      BY <3>1, <3>3
    <3>4. CASE t.nonce < x.nonce
      <4>1. \A s \in T : s.nonce <= x.nonce
        BY <3>1, <3>2, <3>4
      <4> QED  BY <4>1
    <3> QED  BY <3>2, <3>3, <3>4
  <2> QED  BY <2>1, <2>2, <2>3
<1> HIDE DEF P
<1>3. \A T \in SUBSET S : T \in P
  BY <1>1, <1>2, PartsInduction
<1>4. S \in P
  BY <1>3
<1> QED
  BY <1>4 DEF P

\* An account cannot give away more than it got: its last transfer was attested by a
\* replica that knew of one gain more than of losses before.
LEMMA NoMoreLost ==
    ASSUME ReplicasTypeOK, NoncesUsedOnce, TransfersCovered, NEW u
    PROVE  Cardinality(Lost(u, Certified)) <= Cardinality(Gained(u, Certified))
<1>1. /\ IsFiniteSet(Certified)
      /\ IsFiniteSet(Lost(u, Certified)) /\ Cardinality(Gained(u, Certified)) \in Nat
  BY CallsFinite, GainsFinite
<1>2. CASE Lost(u, Certified) = {}
  <2>1. Cardinality(Lost(u, Certified)) = 0
    BY <1>2, FS_EmptySet
  <2> QED  BY <1>1, <2>1
<1>3. CASE Lost(u, Certified) # {}
  <2>1. \A t \in Lost(u, Certified) : t.nonce \in Nat /\ t \in workload.calls /\ IsCertified(t)
    BY WorkloadsAssumption DEF Lost, Certified, ReplicasTypeOK, IsCall
  <2>2. PICK t \in Lost(u, Certified) : \A s \in Lost(u, Certified) : s.nonce <= t.nonce
    BY <1>1, <1>3, <2>1, LastCall
  <2>3. t.from = u /\ t.call = "transferNFT" /\ t \in Certified
    BY <2>2 DEF Lost
  <2>4. PICK v \in Validators : t \in attested[v]
    BY <2>3, CallsFinite
  <2>5. Cardinality(LostBelow(t)) < Cardinality(Gained(u, Certified))
    BY <2>3, <2>4 DEF TransfersCovered
  <2>6. Lost(u, Certified) = LostBelow(t) \cup {t}
    <3>1. LostBelow(t) \cup {t} \subseteq Lost(u, Certified)
      BY <2>2, <2>3 DEF LostBelow
    <3>2. ASSUME NEW s \in Lost(u, Certified), s # t
          PROVE  s \in LostBelow(t)
      <4>1. s.from = u
        BY <3>2 DEF Lost
      <4>2. s.nonce # t.nonce
        BY <2>1, <2>2, <2>3, <3>2, <4>1 DEF NoncesUsedOnce
      <4>3. s.nonce < t.nonce
        BY <2>1, <2>2, <3>2, <4>2
      <4> QED  BY <2>3, <3>2, <4>3 DEF LostBelow
    <3> QED  BY <3>1, <3>2
  <2>7. IsFiniteSet(LostBelow(t)) /\ t \notin LostBelow(t)
    <3>1. LostBelow(t) \in SUBSET Lost(u, Certified)
      BY <2>6
    <3>2. t \notin LostBelow(t)
      BY <2>1, <2>2 DEF LostBelow
    <3> QED  BY <1>1, <3>1, <3>2, PartSmaller
  <2>8. Cardinality(Lost(u, Certified)) = Cardinality(LostBelow(t)) + 1 /\ Cardinality(LostBelow(t)) \in Nat
    BY <2>6, <2>7, FS_AddElement, FS_CardinalityType
  <2> QED  BY <1>1, <2>5, <2>8
<1> QED
  BY <1>2, <1>3

\* The gains and the losses of several accounts together.
GainedBy(T, S) == {tx \in Mints(S) : tx.from \in T} \cup {tx \in S : tx.call = "transferNFT" /\ tx.to \in T}
LostBy(T, S)   == {tx \in S : tx.call = "transferNFT" /\ tx.from \in T}

\* Sets without common elements add up.
LEMMA DisjointSum ==
    ASSUME NEW S, IsFiniteSet(S), NEW T, IsFiniteSet(T), S \cap T = {}
    PROVE  /\ IsFiniteSet(S \cup T) /\ Cardinality(S) \in Nat /\ Cardinality(T) \in Nat
           /\ Cardinality(S \cup T) = Cardinality(S) + Cardinality(T)
<1>1. IsFiniteSet(S \cup T) /\ Cardinality(S \cup T) = Cardinality(S) + Cardinality(T) - Cardinality(S \cap T)
  BY FS_Union
<1>2. Cardinality(S \cap T) = 0 /\ Cardinality(S) \in Nat /\ Cardinality(T) \in Nat
  BY FS_EmptySet, FS_CardinalityType
<1> QED
  BY <1>1, <1>2

\* What is true of each account is true of several: they have not lost more than gained.
LEMMA NoMoreLostTogether ==
    ASSUME NEW S, IsFiniteSet(S), NEW T, IsFiniteSet(T),
           \A u \in T : Cardinality(Lost(u, S)) <= Cardinality(Gained(u, S))
    PROVE  Cardinality(LostBy(T, S)) <= Cardinality(GainedBy(T, S))
<1> DEFINE P == {R \in SUBSET T : Cardinality(LostBy(R, S)) <= Cardinality(GainedBy(R, S))}
<1>1. {} \in P
  <2>1. LostBy({}, S) = {} /\ GainedBy({}, S) = {}
    BY DEF LostBy, GainedBy
  <2>2. Cardinality({}) = 0
    BY FS_EmptySet
  <2> QED  BY <2>1, <2>2
<1>2. ASSUME NEW R \in SUBSET T, R # {}, \A x \in R : R \ {x} \in P
      PROVE  R \in P
  <2>1. PICK x \in R : R \ {x} \in P
    BY <1>2
  <2>2. /\ LostBy(R, S) = LostBy(R \ {x}, S) \cup Lost(x, S)
        /\ LostBy(R \ {x}, S) \cap Lost(x, S) = {}
        /\ LostBy(R \ {x}, S) \in SUBSET S /\ Lost(x, S) \in SUBSET S
    BY <2>1 DEF LostBy, Lost
  <2>3. /\ GainedBy(R, S) = GainedBy(R \ {x}, S) \cup Gained(x, S)
        /\ GainedBy(R \ {x}, S) \cap Gained(x, S) = {}
        /\ GainedBy(R \ {x}, S) \in SUBSET S /\ Gained(x, S) \in SUBSET S
    BY <2>1 DEF GainedBy, Gained, Received, Mints
  <2>4. Cardinality(LostBy(R, S)) = Cardinality(LostBy(R \ {x}, S)) + Cardinality(Lost(x, S))
    <3>1. IsFiniteSet(LostBy(R \ {x}, S)) /\ IsFiniteSet(Lost(x, S))
      BY <2>2, FS_Subset
    <3> QED  BY <2>2, <3>1, DisjointSum
  <2>5. Cardinality(GainedBy(R, S)) = Cardinality(GainedBy(R \ {x}, S)) + Cardinality(Gained(x, S))
    <3>1. IsFiniteSet(GainedBy(R \ {x}, S)) /\ IsFiniteSet(Gained(x, S))
      BY <2>3, FS_Subset
    <3> QED  BY <2>3, <3>1, DisjointSum
  <2>6. /\ Cardinality(LostBy(R \ {x}, S)) \in Nat /\ Cardinality(Lost(x, S)) \in Nat
        /\ Cardinality(GainedBy(R \ {x}, S)) \in Nat /\ Cardinality(Gained(x, S)) \in Nat
    BY <2>2, <2>3, PartSmaller
  <2>7. /\ Cardinality(LostBy(R \ {x}, S)) <= Cardinality(GainedBy(R \ {x}, S))
        /\ Cardinality(Lost(x, S)) <= Cardinality(Gained(x, S))
    BY <2>1
  <2>8. Cardinality(LostBy(R, S)) <= Cardinality(GainedBy(R, S))
    BY ONLY <2>4, <2>5, <2>6, <2>7
  <2> QED  BY <2>8
<1> HIDE DEF P
<1>3. \A R \in SUBSET T : R \in P
  BY <1>1, <1>2, PartsInduction
<1>4. T \in P
  BY <1>3
<1> QED
  BY <1>4 DEF P

\* With one mint at most one account has gained more than it lost, and by one only.
LEMMA OneOwnerAtMost ==
    ASSUME NEW S, IsFiniteSet(S), \A s, t \in Mints(S) : s = t,
           \A u : Cardinality(Lost(u, S)) <= Cardinality(Gained(u, S)), NEW u
    PROVE  Cardinality(Gained(u, S)) <= Cardinality(Lost(u, S)) + 1
<1> DEFINE Transfers == {tx \in S : tx.call = "transferNFT"}
           Others == {tx.from : tx \in S} \ {u}
<1>1. IsFiniteSet(Others)
  <2> DEFINE f == [tx \in S |-> tx.from]
  <2>1. f \in Surjection(S, {tx.from : tx \in S})
    BY DEF Surjection
  <2>2. IsFiniteSet({tx.from : tx \in S})
    <3> HIDE DEF f
    <3> QED  BY <2>1, FS_Surjection
  <2>3. Others \in SUBSET {tx.from : tx \in S}
    OBVIOUS
  <2> QED  BY <2>2, <2>3, FS_Subset
<1>2. Cardinality(LostBy(Others, S)) <= Cardinality(GainedBy(Others, S))
  <2> HIDE DEF Others
  <2> QED  BY <1>1, NoMoreLostTogether
<1>3. Cardinality(Mints(S)) \in {0, 1} /\ IsFiniteSet(Mints(S))
  <2>1. IsFiniteSet(Mints(S))
    <3>1. Mints(S) \in SUBSET S
      BY DEF Mints
    <3> QED  BY <3>1, FS_Subset
  <2>2. CASE Mints(S) = {}
    BY <2>1, <2>2, FS_EmptySet
  <2>3. CASE Mints(S) # {}
    <3>1. \E x : Mints(S) = {x}
      BY <2>3
    <3> QED  BY <2>1, <3>1, FS_Singleton
  <2> QED  BY <2>1, <2>2, <2>3
<1>4. /\ Transfers = Lost(u, S) \cup LostBy(Others, S)
      /\ Lost(u, S) \cap LostBy(Others, S) = {}
  BY DEF Lost, LostBy
<1>5. /\ Gained(u, S) \cup GainedBy(Others, S) \in SUBSET (Mints(S) \cup Transfers)
      /\ Gained(u, S) \cap GainedBy(Others, S) = {}
      /\ Mints(S) \cap Transfers = {}
  BY DEF Gained, Received, GainedBy, Mints
<1>6. /\ IsFiniteSet(Lost(u, S)) /\ IsFiniteSet(LostBy(Others, S)) /\ IsFiniteSet(Transfers)
      /\ IsFiniteSet(Gained(u, S)) /\ IsFiniteSet(GainedBy(Others, S))
  <2>1. /\ Lost(u, S) \in SUBSET S /\ LostBy(Others, S) \in SUBSET S /\ Transfers \in SUBSET S
        /\ Gained(u, S) \in SUBSET S /\ GainedBy(Others, S) \in SUBSET S
    BY DEF Lost, LostBy, Gained, Received, Mints, GainedBy
  <2> HIDE DEF Others, Transfers
  <2> QED  BY <2>1, FS_Subset
<1> HIDE DEF Others, Transfers
<1>7. /\ Cardinality(Transfers) = Cardinality(Lost(u, S)) + Cardinality(LostBy(Others, S))
      /\ Cardinality(Lost(u, S)) \in Nat /\ Cardinality(LostBy(Others, S)) \in Nat
  BY <1>4, <1>6, DisjointSum
<1>8. /\ Cardinality(Mints(S) \cup Transfers) = Cardinality(Mints(S)) + Cardinality(Transfers)
      /\ IsFiniteSet(Mints(S) \cup Transfers)
  BY <1>3, <1>5, <1>6, DisjointSum
<1>9. /\ Cardinality(Gained(u, S) \cup GainedBy(Others, S))
             = Cardinality(Gained(u, S)) + Cardinality(GainedBy(Others, S))
      /\ Cardinality(Gained(u, S)) \in Nat /\ Cardinality(GainedBy(Others, S)) \in Nat
  BY <1>5, <1>6, DisjointSum
<1>10. Cardinality(Gained(u, S) \cup GainedBy(Others, S)) <= Cardinality(Mints(S) \cup Transfers)
  BY <1>5, <1>8, PartSmaller
<1> QED
  BY ONLY <1>2, <1>3, <1>7, <1>8, <1>9, <1>10

OwnerInv == MintedOnce => NothingBeforeMint /\ MintFirst /\ BalancesBounded /\ TransfersCovered

\* Every step keeps all four.
LEMMA OwnerInvariance == Spec => []OwnerInv
<1>1. Init => OwnerInv
  <2> SUFFICES ASSUME Init
               PROVE  NothingBeforeMint /\ MintFirst /\ BalancesBounded /\ TransfersCovered
    BY DEF OwnerInv
  <2>1. Genesis.nft = [u \in Users |-> 0]
    BY DEF Genesis
  <2>2. \A u : Gained(u, {}) = {} /\ Lost(u, {}) = {} /\ Cardinality({}) = 0
    BY FS_EmptySet DEF Gained, Received, Mints, Lost
  <2>3. NothingBeforeMint /\ MintFirst /\ TransfersCovered
    BY <2>1 DEF Init, NothingBeforeMint, MintFirst, TransfersCovered, Mints
  <2>4. BalancesBounded
    BY <2>1, <2>2 DEF Init, BalancesBounded
  <2> QED  BY <2>3, <2>4
<1>2. /\ ReplicasTypeOK /\ ReplicasTypeOK' /\ InOrder /\ ExecutedCertified
      /\ NoncesUsedOnce' /\ NoneBelow /\ NoneBelow' /\ OwnerInv /\ [Next]_vars
      => OwnerInv'
  <2> SUFFICES ASSUME ReplicasTypeOK, ReplicasTypeOK', InOrder, ExecutedCertified,
                      NoncesUsedOnce', NoneBelow, NoneBelow', OwnerInv, [Next]_vars, MintedOnce'
               PROVE  NothingBeforeMint' /\ MintFirst' /\ BalancesBounded' /\ TransfersCovered'
    BY DEF OwnerInv
  <2>1. MintedOnce
    BY CertifiedGrows DEF MintedOnce
  <2>2. NothingBeforeMint /\ MintFirst /\ BalancesBounded /\ TransfersCovered
    BY <2>1 DEF OwnerInv
  <2>3. NothingBeforeMint'
    BY <2>2, NothingBeforeMintKept
  <2>4. MintFirst'
    BY <2>1, <2>2, MintFirstKept
  <2>5. BalancesBounded'
    BY <2>2, <2>4, BalancesBoundedKept
  <2>6. TransfersCovered'
    BY <2>2, TransfersCoveredKept
  <2> QED  BY <2>3, <2>4, <2>5, <2>6
<1> QED
  BY <1>1, <1>2, ReplicasTypes, InOrderSafety, ExecutedCertifiedSafety, NoneBelowSafety,
     NoncesUsedOnceSafety, PTL DEF Spec

\* A token minted once has at most one owner, among all calls certified, for every workload
\* and every network whose quorums share an honest validator.
THEOREM OneOwnerSafety == Spec => [](MintedOnce => OneOwner)
<1>1. ReplicasTypeOK /\ NoncesUsedOnce /\ OwnerInv => (MintedOnce => OneOwner)
  <2> SUFFICES ASSUME ReplicasTypeOK, NoncesUsedOnce, TransfersCovered, MintedOnce
               PROVE  OneOwner
    BY DEF OwnerInv
  <2>1. \A u : Cardinality(Lost(u, Certified)) <= Cardinality(Gained(u, Certified))
    BY NoMoreLost
  <2>2. IsFiniteSet(Certified) /\ \A s, t \in Mints(Certified) : s = t
    BY CallsFinite DEF MintedOnce, Mints
  <2>3. ASSUME NEW u \in Users
        PROVE  Cardinality(Gained(u, Certified)) - Cardinality(Lost(u, Certified)) \in {0, 1}
    <3>1. Cardinality(Gained(u, Certified)) <= Cardinality(Lost(u, Certified)) + 1
      BY <2>1, <2>2, OneOwnerAtMost
    <3>2. Cardinality(Gained(u, Certified)) \in Nat /\ Cardinality(Lost(u, Certified)) \in Nat
      BY <2>2, GainsFinite
    <3> QED  BY <2>1, <3>1, <3>2
  <2> QED  BY <2>3 DEF OneOwner
<1> QED
  BY <1>1, ReplicasTypes, NoncesUsedOnceSafety, OwnerInvariance, PTL

-----------------------------------------------------------------------------
(***************************************************************************)
(* Replicas without a total order: Tokens, NFTs, Notary and Voting are     *)
(* functions of the set of calls executed.                                 *)
(***************************************************************************)

\* What a call pays to an account of Tokens, or takes from it.
Payment(u, tx) ==
    IF tx.call = "transfer"
    THEN (IF tx.to = u THEN tx.amount ELSE 0) - (IF tx.from = u THEN tx.amount ELSE 0)
    ELSE 0

PaymentsTo(u)  == [tx \in workload.calls |-> Payment(u, tx)]

TokensAfter(S) ==
    [u \in Users |-> (IF u = Deployer THEN Supply ELSE 0) + SumFunctionOnSet(PaymentsTo(u), S)]

NftAfter(S)    == [u \in Users |-> Cardinality(Gained(u, S)) - Cardinality(Lost(u, S))]

Ballots(S)     == {tx \in S : tx.call = "castVote"}

VotesFor(c, S) == {tx \in Ballots(S) : tx.choice = c}

IsVotingAfter(p, S) ==
    /\ p.deadline = IF \E tx \in S : tx.call = "createProposal" THEN Deadline ELSE 0
    /\ p.threshold = 0
    /\ p.hasVoted = {tx.from : tx \in Ballots(S)}
    /\ p.voteCount = [c \in VoteChoices |-> Cardinality(VotesFor(c, S))]
    /\ p.executed = IF \E tx \in S : tx.call = "execute" THEN TRUE ELSE FALSE

\* What a call changes in the storage of Voting, p before it and q after it.
SameBut(p, q, tx) ==
    /\ q.deadline = IF tx.call = "createProposal" THEN Deadline ELSE p.deadline
    /\ q.threshold = p.threshold
    /\ q.hasVoted = IF tx.call = "castVote" THEN p.hasVoted \cup {tx.from} ELSE p.hasVoted
    /\ q.voteCount = IF tx.call = "castVote" THEN [p.voteCount EXCEPT ![tx.choice] = @ + 1]
                     ELSE p.voteCount
    /\ tx.call = "execute" => q.executed = TRUE
    /\ tx.call # "execute" => q.executed = p.executed

Timestamps(S)    == {tx.ts : tx \in {t \in S : t.call = "timestamp"}}

\* Notary keeps the smallest timestamp, and zero stands for none.
IsNotarized(known, S) ==
    IF known = 0 THEN Timestamps(S) = {}
    ELSE known \in Timestamps(S) /\ \A ts \in Timestamps(S) : known <= ts

\* A notary does not attest a timestamp of zero: it is no later than any clock.
Positive(S) == \A ts \in Timestamps(S) : ts \in Nat /\ ts > 0

AttestedPositive == \A v \in Validators : Positive(attested[v])

AsExecuted ==
    \A v \in Validators :
        /\ storage[v].tokens = TokensAfter(done[v])
        /\ IsVotingAfter(storage[v].voting, done[v])
        /\ storage[v].notary \in Nat /\ IsNotarized(storage[v].notary, done[v])

\* Nobody gives the token to its minter: NFTs.mint assigns the minter's balance.
NoneReturned == \A tx \in workload.calls : tx.call = "transferNFT" => tx.to # Deployer

NftAsExecuted == \A v \in Validators : storage[v].nft = NftAfter(done[v])

\* Each contract changes its own storage.
LEMMA AppliedParts ==
    ASSUME NEW s, IsStorage(s), NEW tx, IsCall(tx)
    PROVE  /\ tx.call = "transfer"  => Applied(s, tx).tokens = Moved(s.tokens, tx, tx.amount)
           /\ tx.call # "transfer"  => Applied(s, tx).tokens = s.tokens
           /\ tx.call = "timestamp" => Applied(s, tx).notary = Timestamped(s.notary, tx.ts)
           /\ tx.call # "timestamp" => Applied(s, tx).notary = s.notary
           /\ SameBut(s.voting, Applied(s, tx).voting, tx)
           /\ tx.call = "add" => Applied(s, tx).registry = Added(s.registry, tx.cid)
           /\ tx.call # "add" => Applied(s, tx).registry = s.registry
<1>1. /\ s = [tokens |-> s.tokens, nft |-> s.nft, notary |-> s.notary, voting |-> s.voting,
              registry |-> s.registry]
      /\ s.voting = [deadline |-> s.voting.deadline, threshold |-> s.voting.threshold,
                     hasVoted |-> s.voting.hasVoted, voteCount |-> s.voting.voteCount,
                     executed |-> s.voting.executed]
  BY DEF IsStorage
<1>2. CASE tx.call = "transfer"
  <2>1. Applied(s, tx) = [s EXCEPT !.tokens = Moved(@, tx, tx.amount)]
    BY <1>2 DEF Applied
  <2> QED  BY <1>1, <1>2, <2>1 DEF SameBut
<1>3. CASE tx.call = "transferNFT"
  <2>1. Applied(s, tx) = [s EXCEPT !.nft = Moved(@, tx, 1)]
    BY <1>3 DEF Applied
  <2> QED  BY <1>1, <1>3, <2>1 DEF SameBut
<1>4. CASE tx.call = "mint"
  <2>1. Applied(s, tx) = [s EXCEPT !.nft[tx.from] = 1]
    BY <1>4 DEF Applied
  <2> QED  BY <1>1, <1>4, <2>1 DEF SameBut
<1>5. CASE tx.call = "timestamp"
  <2>1. Applied(s, tx) = [s EXCEPT !.notary = Timestamped(@, tx.ts)]
    BY <1>5 DEF Applied
  <2> QED  BY <1>1, <1>5, <2>1 DEF SameBut
<1>6. CASE tx.call = "createProposal"
  <2>1. Applied(s, tx) = [s EXCEPT !.voting.deadline = Deadline]
    BY <1>6 DEF Applied
  <2> QED  BY <1>1, <1>6, <2>1 DEF SameBut
<1>7. CASE tx.call = "castVote"
  <2>1. Applied(s, tx) = [s EXCEPT !.voting.hasVoted = @ \cup {tx.from},
                                   !.voting.voteCount[tx.choice] = @ + 1]
    BY <1>7 DEF Applied
  <2> DEFINE p == s.voting
             voted == [p EXCEPT !.hasVoted = @ \cup {tx.from}]
             counted == [voted EXCEPT !.voteCount[tx.choice] = @ + 1]
  <2>2. Applied(s, tx) = [s EXCEPT !.voting = counted]
    <3>1. p.voteCount = voted.voteCount
      BY <1>1
    <3> QED  BY <1>1, <2>1, <3>1
  <2>3. /\ Applied(s, tx).tokens = s.tokens /\ Applied(s, tx).notary = s.notary
        /\ Applied(s, tx).registry = s.registry /\ Applied(s, tx).voting = counted
    <3> HIDE DEF counted
    <3> QED  BY <1>1, <2>2
  <2>4. /\ voted.deadline = p.deadline /\ voted.threshold = p.threshold
        /\ voted.hasVoted = p.hasVoted \cup {tx.from} /\ voted.voteCount = p.voteCount
        /\ voted.executed = p.executed
        /\ DOMAIN voted = {"deadline", "threshold", "hasVoted", "voteCount", "executed"}
    BY <1>1
  <2>5. /\ counted.deadline = voted.deadline /\ counted.threshold = voted.threshold
        /\ counted.hasVoted = voted.hasVoted /\ counted.executed = voted.executed
        /\ counted.voteCount = [voted.voteCount EXCEPT ![tx.choice] = @ + 1]
    <3> HIDE DEF voted
    <3> QED  BY <2>4
  <2> HIDE DEF counted, voted
  <2>6. SameBut(p, counted, tx)
    BY <1>7, <2>4, <2>5 DEF SameBut
  <2> QED  BY <1>7, <2>3, <2>6
<1>8. CASE tx.call = "execute"
  <2>1. Applied(s, tx) = [s EXCEPT !.voting.executed = TRUE]
    BY <1>8 DEF Applied
  <2> QED  BY <1>1, <1>8, <2>1 DEF SameBut
<1>9. CASE tx.call = "add"
  <2>1. Applied(s, tx) = [s EXCEPT !.registry = Added(@, tx.cid)]
    BY <1>9 DEF Applied
  <2> QED  BY <1>1, <1>9, <2>1 DEF SameBut
<1> QED
  BY <1>2, <1>3, <1>4, <1>5, <1>6, <1>7, <1>8, <1>9 DEF IsCall, CallNames

LEMMA TokensAdd ==
    ASSUME ReplicasTypeOK, NEW S \in SUBSET workload.calls, NEW tx \in workload.calls, tx \notin S
    PROVE  /\ tx.call = "transfer" => Moved(TokensAfter(S), tx, tx.amount) = TokensAfter(S \cup {tx})
           /\ tx.call # "transfer" => TokensAfter(S \cup {tx}) = TokensAfter(S)
<1>1. IsFiniteSet(S) /\ IsCall(tx)
  <2>1. IsFiniteSet(workload.calls) /\ IsCall(tx)
    BY WorkloadsAssumption DEF ReplicasTypeOK
  <2> QED  BY <2>1, FS_Subset
<1>2. ASSUME NEW u \in Users
      PROVE  /\ SumFunctionOnSet(PaymentsTo(u), S \cup {tx})
                    = Payment(u, tx) + SumFunctionOnSet(PaymentsTo(u), S)
             /\ SumFunctionOnSet(PaymentsTo(u), S) \in Int
             /\ Payment(u, tx) \in Int
  <2>1. \A t \in workload.calls : PaymentsTo(u)[t] = Payment(u, t) /\ Payment(u, t) \in Int
    BY WorkloadsAssumption DEF PaymentsTo, Payment, ReplicasTypeOK, IsCall
  <2>2. \A t \in S : PaymentsTo(u)[t] \in Int
    BY <2>1
  <2>3. SumFunctionOnSet(PaymentsTo(u), S \cup {tx})
            = PaymentsTo(u)[tx] + SumFunctionOnSet(PaymentsTo(u), S)
    BY <1>1, <2>1, <2>2, SumAdd
  <2>4. SumFunctionOnSet(PaymentsTo(u), S) \in Int
    BY <1>1, <2>2, SumType
  <2> QED  BY <2>1, <2>3, <2>4
<1> DEFINE Total(u, T) == SumFunctionOnSet(PaymentsTo(u), T)
           Start(u) == IF u = Deployer THEN Supply ELSE 0
<1>3. \A T : TokensAfter(T) = [u \in Users |-> Start(u) + Total(u, T)]
  BY DEF TokensAfter
<1>4. \A u \in Users : Total(u, S \cup {tx}) = Payment(u, tx) + Total(u, S)
                          /\ Total(u, S) \in Int /\ Payment(u, tx) \in Int /\ Start(u) \in Int
  <2>1. \A u \in Users : Start(u) \in Int
    BY ContractsAssumption
  <2> HIDE DEF Start
  <2> QED  BY <1>2, <2>1
<1> HIDE DEF Total, Start
<1>5. ASSUME tx.call = "transfer"
      PROVE  Moved(TokensAfter(S), tx, tx.amount) = TokensAfter(S \cup {tx})
  <2>1. tx.from \in Users /\ tx.to \in Users /\ tx.amount \in Int
    BY <1>1, <1>5 DEF IsCall
  <2> DEFINE b == TokensAfter(S)
             paid == [b EXCEPT ![tx.from] = @ - tx.amount]
  <2>2. b = [u \in Users |-> Start(u) + Total(u, S)]
    BY <1>3
  <2>3. Moved(b, tx, tx.amount) = [paid EXCEPT ![tx.to] = @ + tx.amount]
    BY DEF Moved
  <2> HIDE DEF b
  <2>4. paid = [u \in Users |-> Start(u) + Total(u, S) - (IF tx.from = u THEN tx.amount ELSE 0)]
    BY <1>4, <2>1, <2>2
  <2> HIDE DEF paid
  <2>5. Moved(b, tx, tx.amount)
            = [u \in Users |-> Start(u) + Total(u, S) - (IF tx.from = u THEN tx.amount ELSE 0)
                                  + (IF tx.to = u THEN tx.amount ELSE 0)]
    BY <1>4, <2>1, <2>3, <2>4
  <2>6. \A u \in Users : Start(u) + Total(u, S \cup {tx})
            = Start(u) + Total(u, S) - (IF tx.from = u THEN tx.amount ELSE 0)
                  + (IF tx.to = u THEN tx.amount ELSE 0)
    <3> TAKE u \in Users
    <3> DEFINE s == Total(u, S)
               n == Total(u, S \cup {tx})
    <3>1. n = Payment(u, tx) + s /\ s \in Int /\ Start(u) \in Int
      BY <1>4
    <3>2. Payment(u, tx) = (IF tx.to = u THEN tx.amount ELSE 0) - (IF tx.from = u THEN tx.amount ELSE 0)
      BY <1>5 DEF Payment
    <3> HIDE DEF s, n
    <3>3. Start(u) + n = Start(u) + s - (IF tx.from = u THEN tx.amount ELSE 0)
                             + (IF tx.to = u THEN tx.amount ELSE 0)
      BY ONLY <2>1, <3>1, <3>2
    <3> QED  BY <3>3 DEF s, n
  <2> QED  BY <1>3, <2>5, <2>6 DEF b
<1>6. ASSUME tx.call # "transfer"
      PROVE  TokensAfter(S \cup {tx}) = TokensAfter(S)
  <2>1. \A u \in Users : Total(u, S \cup {tx}) = Total(u, S)
    <3> TAKE u \in Users
    <3> DEFINE s == Total(u, S)
               n == Total(u, S \cup {tx})
    <3>1. n = Payment(u, tx) + s /\ s \in Int
      BY <1>4
    <3>2. Payment(u, tx) = 0
      BY <1>6 DEF Payment
    <3> HIDE DEF s, n, Payment
    <3>3. n = s
      BY ONLY <3>1, <3>2
    <3> QED  BY <3>3 DEF s, n
  <2> QED  BY <1>3, <2>1
<1> QED
  BY <1>5, <1>6

LEMMA VotingAdd ==
    ASSUME NEW S, IsFiniteSet(S), NEW tx, tx \notin S,
           tx.call = "castVote" => tx.choice \in VoteChoices,
           NEW p, NEW q, IsVotingAfter(p, S), SameBut(p, q, tx)
    PROVE  IsVotingAfter(q, S \cup {tx})
<1> DEFINE T == S \cup {tx}
<1>1. /\ q.deadline = IF \E t \in T : t.call = "createProposal" THEN Deadline ELSE 0
      /\ q.threshold = 0
  BY DEF IsVotingAfter, SameBut
<1>2. q.executed = IF \E t \in T : t.call = "execute" THEN TRUE ELSE FALSE
  <2>1. p.executed = IF \E t \in S : t.call = "execute" THEN TRUE ELSE FALSE
    BY DEF IsVotingAfter
  <2>2. CASE tx.call = "execute"
    BY <2>2 DEF SameBut
  <2>3. CASE tx.call # "execute"
    <3>1. (\E t \in T : t.call = "execute") <=> (\E t \in S : t.call = "execute")
      BY <2>3
    <3>2. q.executed = p.executed
      BY <2>3 DEF SameBut
    <3> HIDE DEF T
    <3> QED  BY <2>1, <3>1, <3>2
  <2> QED  BY <2>2, <2>3
<1>3. CASE tx.call = "castVote"
  <2>1. Ballots(T) = Ballots(S) \cup {tx} /\ tx \notin Ballots(S)
    BY <1>3 DEF Ballots
  <2>2. q.hasVoted = {t.from : t \in Ballots(T)}
    <3>1. q.hasVoted = p.hasVoted \cup {tx.from} /\ p.hasVoted = {t.from : t \in Ballots(S)}
      BY <1>3 DEF IsVotingAfter, SameBut
    <3>2. {t.from : t \in Ballots(S) \cup {tx}} = {t.from : t \in Ballots(S)} \cup {tx.from}
      OBVIOUS
    <3> QED  BY ONLY <2>1, <3>1, <3>2
  <2> DEFINE old(c) == Cardinality(VotesFor(c, S))
             new(c) == Cardinality(VotesFor(c, T))
  <2>3. ASSUME NEW c \in VoteChoices
        PROVE  new(c) = IF c = tx.choice THEN old(c) + 1 ELSE old(c)
    <3>1. VotesFor(c, S) \in SUBSET S /\ tx \notin VotesFor(c, S)
      BY DEF VotesFor, Ballots
    <3>2. IsFiniteSet(VotesFor(c, S))
      BY <3>1, FS_Subset
    <3>3. VotesFor(c, T) = IF c = tx.choice THEN VotesFor(c, S) \cup {tx} ELSE VotesFor(c, S)
      BY <2>1 DEF VotesFor
    <3>4. Cardinality(VotesFor(c, S) \cup {tx}) = Cardinality(VotesFor(c, S)) + 1
      BY <3>1, <3>2, FS_AddElement
    <3> QED  BY <3>3, <3>4
  <2>4. q.voteCount = [c \in VoteChoices |-> new(c)]
    <3>1. p.voteCount = [c \in VoteChoices |-> old(c)]
      BY DEF IsVotingAfter
    <3>2. q.voteCount = [p.voteCount EXCEPT ![tx.choice] = @ + 1] /\ tx.choice \in VoteChoices
      BY <1>3 DEF SameBut
    <3> HIDE DEF old, new
    <3> QED  BY <2>3, <3>1, <3>2
  <2> QED  BY <1>1, <1>2, <2>2, <2>4 DEF IsVotingAfter
<1>4. CASE tx.call # "castVote"
  <2>1. Ballots(T) = Ballots(S)
    BY <1>4 DEF Ballots
  <2>2. \A c : VotesFor(c, T) = VotesFor(c, S)
    BY <2>1 DEF VotesFor
  <2>3. q.hasVoted = {t.from : t \in Ballots(T)}
    BY <1>4, <2>1 DEF IsVotingAfter, SameBut
  <2>4. q.voteCount = [c \in VoteChoices |-> Cardinality(VotesFor(c, T))]
    BY <1>4, <2>2 DEF IsVotingAfter, SameBut
  <2> QED  BY <1>1, <1>2, <2>3, <2>4 DEF IsVotingAfter
<1> QED
  BY <1>3, <1>4

LEMMA NotaryAdd ==
    ASSUME NEW S, Positive(S), NEW tx, NEW known \in Nat, IsNotarized(known, S)
    PROVE  /\ tx.call = "timestamp" /\ tx.ts \in Nat /\ tx.ts > 0 =>
                 /\ Timestamped(known, tx.ts) \in Nat
                 /\ IsNotarized(Timestamped(known, tx.ts), S \cup {tx})
           /\ tx.call # "timestamp" => IsNotarized(known, S \cup {tx})
<1>1. ASSUME tx.call = "timestamp", tx.ts \in Nat, tx.ts > 0
      PROVE  /\ Timestamped(known, tx.ts) \in Nat
             /\ IsNotarized(Timestamped(known, tx.ts), S \cup {tx})
  <2>1. Timestamps(S \cup {tx}) = Timestamps(S) \cup {tx.ts}
    BY <1>1 DEF Timestamps
  <2>2. \A ts \in Timestamps(S) : ts \in Nat /\ ts > 0
    BY DEF Positive
  <2> QED  BY <1>1, <2>1, <2>2 DEF IsNotarized, Timestamped
<1>2. ASSUME tx.call # "timestamp"
      PROVE  IsNotarized(known, S \cup {tx})
  <2>1. Timestamps(S \cup {tx}) = Timestamps(S)
    BY <1>2 DEF Timestamps
  <2> QED  BY <2>1 DEF IsNotarized
<1> QED
  BY <1>1, <1>2

\* No validator attests a timestamp that is not in its future.
LEMMA AttestedPositiveSafety == Spec => []AttestedPositive
<1>1. Init => AttestedPositive
  BY DEF Init, AttestedPositive, Positive, Timestamps
<1>2. ReplicasTypeOK /\ AttestedPositive /\ [Next]_vars => AttestedPositive'
  <2> SUFFICES ASSUME ReplicasTypeOK, AttestedPositive, [Next]_vars
               PROVE  AttestedPositive'
    OBVIOUS
  <2>1. ASSUME NEW v \in Validators, NEW tx \in workload.calls, Attest(v, tx)
        PROVE  AttestedPositive'
    <3>1. attested' = [attested EXCEPT ![v] = @ \cup {tx}] /\ Agreed(storage[v], clock[v], tx)
      BY <2>1 DEF Attest
    <3>2. tx.call = "timestamp" => tx.ts \in Nat /\ tx.ts > 0
      <4> SUFFICES ASSUME tx.call = "timestamp"
                   PROVE  tx.ts \in Nat /\ tx.ts > 0
        OBVIOUS
      <4>1. Before(clock[v], tx.ts)
        BY <3>1 DEF Agreed
      <4>2. IsCall(tx) /\ clock[v] \in Nat
        BY ExecutedFinite DEF ReplicasTypeOK
      <4> QED  BY <4>1, <4>2 DEF Before, IsCall
    <3>3. attested'[v] = attested[v] \cup {tx} /\ \A w \in Validators : w # v => attested'[w] = attested[w]
      BY <3>1 DEF ReplicasTypeOK
    <3> QED  BY <3>2, <3>3 DEF AttestedPositive, Positive, Timestamps
  <2>2. CASE UNCHANGED attested
    BY <2>2 DEF AttestedPositive
  <2> QED
    BY <2>1, <2>2 DEF Next, Execute, Elapse, vars
<1> QED
  BY <1>1, <1>2, ReplicasTypes, PTL DEF Spec

\* Every replica shows what the calls that it executed make of the initial storage.
LEMMA AsExecutedSafety == Spec => []AsExecuted
<1>1. Init => AsExecuted
  <2> SUFFICES ASSUME Init, NEW v \in Validators
               PROVE  /\ storage[v].tokens = TokensAfter(done[v])
                      /\ IsVotingAfter(storage[v].voting, done[v])
                      /\ storage[v].notary \in Nat /\ IsNotarized(storage[v].notary, done[v])
    BY DEF AsExecuted
  <2>1. storage[v] = Genesis /\ done[v] = {}
    BY DEF Init
  <2>2. Genesis.tokens = TokensAfter({})
    <3>1. Genesis.tokens = [u \in Users |-> IF u = Deployer THEN Supply ELSE 0]
      BY DEF Genesis
    <3>2. \A u : SumFunctionOnSet(PaymentsTo(u), {}) = 0
      BY SumEmpty
    <3> QED  BY <3>1, <3>2, ContractsAssumption DEF TokensAfter
  <2>3. IsVotingAfter(Genesis.voting, {})
    <3>1. /\ Genesis.voting.deadline = 0 /\ Genesis.voting.threshold = 0
          /\ Genesis.voting.hasVoted = {} /\ Genesis.voting.voteCount = [c \in VoteChoices |-> 0]
          /\ Genesis.voting.executed = FALSE
      BY DEF Genesis
    <3>2. Ballots({}) = {} /\ \A c : VotesFor(c, {}) = {} /\ Cardinality({}) = 0
      BY FS_EmptySet DEF Ballots, VotesFor
    <3> QED  BY <3>1, <3>2 DEF IsVotingAfter
  <2>4. Genesis.notary = 0 /\ Timestamps({}) = {}
    BY DEF Genesis, Timestamps
  <2> QED  BY <2>1, <2>2, <2>3, <2>4 DEF IsNotarized
<1>2. ReplicasTypeOK /\ InOrder /\ ExecutedCertified /\ AttestedPositive /\ AsExecuted /\ [Next]_vars
      => AsExecuted'
  <2> SUFFICES ASSUME ReplicasTypeOK, InOrder, ExecutedCertified, AttestedPositive, AsExecuted,
                      [Next]_vars
               PROVE  AsExecuted'
    OBVIOUS
  <2>1. ASSUME NEW v \in Validators, NEW tx \in workload.calls, Execute(v, tx)
        PROVE  AsExecuted'
    <3> DEFINE S == done[v]
               s == storage[v]
               r == Applied(s, tx)
    <3>1. /\ done'[v] = S \cup {tx} /\ storage'[v] = r
          /\ \A w \in Validators : w # v => done'[w] = done[w] /\ storage'[w] = storage[w]
          /\ Expected(v, tx) /\ IsCertified(tx) /\ workload' = workload
      <4>1. /\ done' = [done EXCEPT ![v] = @ \cup {tx}]
            /\ storage' = [storage EXCEPT ![v] = Applied(@, tx)]
            /\ Expected(v, tx) /\ IsCertified(tx) /\ workload' = workload
        BY <2>1 DEF Execute
      <4> QED  BY <4>1 DEF ReplicasTypeOK
    <3>2. /\ tx \notin S /\ IsFiniteSet(S) /\ S \in SUBSET workload.calls
          /\ IsStorage(s) /\ IsCall(tx)
      BY <3>1, NewCall, CallsFinite, ExecutedFinite DEF ReplicasTypeOK
    <3>3. /\ s.tokens = TokensAfter(S) /\ IsVotingAfter(s.voting, S)
          /\ s.notary \in Nat /\ IsNotarized(s.notary, S)
      BY DEF AsExecuted
    <3>4. /\ tx.call = "transfer"  => r.tokens = Moved(s.tokens, tx, tx.amount)
          /\ tx.call # "transfer"  => r.tokens = s.tokens
          /\ tx.call = "timestamp" => r.notary = Timestamped(s.notary, tx.ts)
          /\ tx.call # "timestamp" => r.notary = s.notary
          /\ SameBut(s.voting, r.voting, tx)
      <4> HIDE DEF s
      <4> QED  BY <3>2, AppliedParts
    <3>5. /\ Positive(S)
          /\ tx.call = "timestamp" => tx.ts \in Nat /\ tx.ts > 0
      <4>1. \A t \in S : \E w \in Validators : t \in attested[w]
        BY CallsFinite DEF ExecutedCertified, ReplicasTypeOK, Certified
      <4>2. \E w \in Validators : tx \in attested[w]
        BY <3>1, CallsFinite DEF Certified
      <4>3. \A w \in Validators : \A t \in attested[w] : t.call = "timestamp" => t.ts \in Nat /\ t.ts > 0
        BY DEF AttestedPositive, Positive, Timestamps
      <4> QED  BY <4>1, <4>2, <4>3 DEF Positive, Timestamps
    <3> HIDE DEF S, s, r
    <3>6. r.tokens = TokensAfter(S \cup {tx})
      BY <3>2, <3>3, <3>4, TokensAdd
    <3>7. IsVotingAfter(r.voting, S \cup {tx})
      <4>1. tx.call = "castVote" => tx.choice \in VoteChoices
        BY <3>2 DEF IsCall
      <4> QED  BY <3>2, <3>3, <3>4, <4>1, VotingAdd
    <3>8. r.notary \in Nat /\ IsNotarized(r.notary, S \cup {tx})
      BY <3>3, <3>4, <3>5, NotaryAdd
    <3>9. \A R : TokensAfter(R)' = TokensAfter(R)
      BY <3>1 DEF TokensAfter, PaymentsTo
    <3>10. \A w \in Validators : w # v =>
               /\ storage'[w].tokens = TokensAfter(done'[w])
               /\ IsVotingAfter(storage'[w].voting, done'[w])
               /\ storage'[w].notary \in Nat /\ IsNotarized(storage'[w].notary, done'[w])
      BY <3>1 DEF AsExecuted
    <3> QED  BY <3>1, <3>6, <3>7, <3>8, <3>9, <3>10 DEF AsExecuted
  <2>2. CASE UNCHANGED <<workload, done, storage>>
    <3>1. \A R : TokensAfter(R)' = TokensAfter(R)
      BY <2>2 DEF TokensAfter, PaymentsTo
    <3> QED  BY <2>2, <3>1 DEF AsExecuted
  <2> QED
    BY <2>1, <2>2 DEF Next, Attest, Elapse, vars
<1> QED
  BY <1>1, <1>2, ReplicasTypes, InOrderSafety, ExecutedCertifiedSafety, AttestedPositiveSafety,
     PTL DEF Spec

\* Where the minter gets nothing back, replicas show the balances that they bounded before.
LEMMA NftAsExecutedKept ==
    ASSUME ReplicasTypeOK, InOrder, MintFirst', MintedOnce, NoneReturned, NftAsExecuted, [Next]_vars
    PROVE  NftAsExecuted'
<1>1. ASSUME NEW v \in Validators, NEW tx \in workload.calls, Execute(v, tx)
      PROVE  NftAsExecuted'
  <2>1. /\ done'[v] = done[v] \cup {tx}
        /\ storage'[v] = Applied(storage[v], tx)
        /\ \A w \in Validators : w # v => done'[w] = done[w] /\ storage'[w] = storage[w]
        /\ Expected(v, tx)
    <3>1. /\ done' = [done EXCEPT ![v] = @ \cup {tx}]
          /\ storage' = [storage EXCEPT ![v] = Applied(@, tx)]
          /\ Expected(v, tx)
      BY <1>1 DEF Execute
    <3> QED  BY <3>1 DEF ReplicasTypeOK
  <2>2. /\ tx \notin done[v] /\ IsFiniteSet(done[v]) /\ IsStorage(storage[v]) /\ IsCall(tx)
        /\ \A t \in done[v] : t.from = tx.from => t.nonce < tx.nonce
    BY <2>1, NewCall, CallsFinite, ExecutedFinite DEF ReplicasTypeOK
  <2> DEFINE nft == storage[v].nft
             gained(u) == Cardinality(Gained(u, done[v]))
             lost(u) == Cardinality(Lost(u, done[v]))
             gains(u) == (tx.call = "mint" /\ tx.from = u) \/ (tx.call = "transferNFT" /\ tx.to = u)
             loses(u) == tx.call = "transferNFT" /\ tx.from = u
             old(u) == gained(u) - lost(u)
             new(u) == Cardinality(Gained(u, done'[v])) - Cardinality(Lost(u, done'[v]))
  <2>3. \A u : /\ new(u) = old(u) + (IF gains(u) THEN 1 ELSE 0) - (IF loses(u) THEN 1 ELSE 0)
               /\ old(u) \in Int /\ new(u) \in Int
    <3> TAKE u
    <3>1. /\ Cardinality(Gained(u, done'[v])) = gained(u) + (IF gains(u) THEN 1 ELSE 0)
          /\ Cardinality(Lost(u, done'[v])) = lost(u) + (IF loses(u) THEN 1 ELSE 0)
      BY <2>1, <2>2, GainsGrow
    <3>2. gained(u) \in Nat /\ lost(u) \in Nat
      BY <2>2, GainsFinite
    <3> HIDE DEF gained, lost, gains, loses
    <3> QED  BY <3>1, <3>2
  <2>4. nft = [u \in Users |-> old(u)]
    BY DEF NftAsExecuted, NftAfter
  <2>5. storage'[v].nft = [u \in Users |-> new(u)]
    <3>1. CASE tx.call = "mint"
      <4>1. storage'[v].nft = [nft EXCEPT ![tx.from] = 1]
        <5>1. Applied(storage[v], tx).nft = [nft EXCEPT ![tx.from] = 1]
          BY <2>2, <3>1, AppliedEffect
        <5> QED  BY ONLY <2>1, <5>1
      <4>2. tx.from = Deployer
        BY <1>1, <3>1, TransferAttested
      <4>3. lost(tx.from) = 0
        <5>1. tx \in Mints(done'[v])
          BY <2>1, <3>1 DEF Mints
        <5>2. \A t \in Lost(tx.from, done[v]) : t.nonce > tx.nonce /\ t.nonce < tx.nonce
          BY <2>1, <2>2, <4>2, <5>1 DEF MintFirst, Lost
        <5>3. \A t \in Lost(tx.from, done[v]) : t.nonce \in Nat /\ tx.nonce \in Nat
          BY <2>2, ExecutedFinite DEF Lost, IsCall
        <5>4. Lost(tx.from, done[v]) = {}
          BY <5>2, <5>3
        <5> QED  BY <5>4, FS_EmptySet
      <4>4. gained(tx.from) = 0
        <5>1. Mints(done[v]) = {}
          BY <2>2, <3>1, ExecutedFinite DEF MintedOnce, Mints
        <5>2. Received(tx.from, done[v]) = {}
          BY <4>2, ExecutedFinite DEF Received, NoneReturned
        <5>3. Gained(tx.from, done[v]) = {}
          BY <5>1, <5>2 DEF Gained
        <5> QED  BY <5>3, FS_EmptySet
      <4>5. \A u : ~loses(u) /\ (gains(u) <=> tx.from = u)
        BY <3>1
      <4>6. old(tx.from) = 0
        BY <4>3, <4>4
      <4> HIDE DEF nft, old, new, gains, loses
      <4>7. \A u : new(u) = IF tx.from = u THEN 1 ELSE old(u)
        BY <2>3, <4>5, <4>6
      <4> QED  BY <2>4, <4>1, <4>7
    <3>2. CASE tx.call = "transferNFT"
      <4>1. storage'[v].nft = Moved(nft, tx, 1)
        <5>1. Applied(storage[v], tx).nft = Moved(nft, tx, 1)
          BY <2>2, <3>2, AppliedEffect
        <5> QED  BY ONLY <2>1, <5>1
      <4>2. tx.from \in Users /\ tx.to \in Users
        BY <2>2, <3>2 DEF IsCall
      <4>3. \A u : (loses(u) <=> tx.from = u) /\ (gains(u) <=> tx.to = u)
        BY <3>2
      <4> HIDE DEF nft, old, new, gains, loses
      <4> DEFINE paid == [nft EXCEPT ![tx.from] = @ - 1]
                 left(u) == IF tx.from = u THEN old(u) - 1 ELSE old(u)
      <4>4. paid = [u \in Users |-> left(u)]
        BY <2>4, <4>2
      <4>5. storage'[v].nft = [paid EXCEPT ![tx.to] = @ + 1]
        BY <4>1 DEF Moved
      <4>6. \A u : new(u) = IF tx.to = u THEN left(u) + 1 ELSE left(u)
        <5> TAKE u
        <5>1. new(u) = old(u) + (IF tx.to = u THEN 1 ELSE 0) - (IF tx.from = u THEN 1 ELSE 0)
              /\ old(u) \in Int
          BY <2>3, <4>3
        <5> QED  BY ONLY <5>1
      <4> HIDE DEF paid, left
      <4> QED  BY <4>2, <4>4, <4>5, <4>6
    <3>3. CASE tx.call \notin {"mint", "transferNFT"}
      <4>1. storage'[v].nft = nft
        <5>1. Applied(storage[v], tx).nft = nft
          BY <2>2, <3>3, AppliedEffect
        <5> QED  BY ONLY <2>1, <5>1
      <4>2. \A u : ~loses(u) /\ ~gains(u)
        BY <3>3
      <4> HIDE DEF nft, old, new, gains, loses
      <4>3. \A u : new(u) = old(u)
        BY <2>3, <4>2
      <4> QED  BY <2>4, <4>1, <4>3
    <3> QED  BY <3>1, <3>2, <3>3
  <2>6. storage'[v].nft = NftAfter(done'[v])
    BY <2>5 DEF NftAfter
  <2>7. \A w \in Validators : w # v => storage'[w].nft = NftAfter(done'[w])
    BY <2>1 DEF NftAsExecuted
  <2>8. \A R : NftAfter(R)' = NftAfter(R)
    BY DEF NftAfter, Gained, Received, Mints, Lost
  <2> QED  BY <2>6, <2>7, <2>8 DEF NftAsExecuted
<1>2. CASE UNCHANGED <<done, storage>>
  BY <1>2 DEF NftAsExecuted, NftAfter, Gained, Received, Mints, Lost
<1> QED
  BY <1>1, <1>2 DEF Next, Attest, Elapse, vars

NftInv == MintedOnce /\ NoneReturned => NftAsExecuted

\* Balances of Tokens, ballots, deadlines and notarized times never depend on the order in
\* which a replica executes, for every workload.
ContractsConverged ==
    \A v, w \in Validators :
        done[v] = done[w] => /\ storage[v].tokens = storage[w].tokens
                             /\ storage[v].notary = storage[w].notary
                             /\ storage[v].voting = storage[w].voting

\* Replicas that have executed the same calls hold the same Tokens, Notary and Voting.
THEOREM ContractsConvergedSafety == Spec => []ContractsConverged
<1>1. ReplicasTypeOK /\ AsExecuted => ContractsConverged
  <2> SUFFICES ASSUME ReplicasTypeOK, AsExecuted, NEW v \in Validators, NEW w \in Validators,
                      done[v] = done[w]
               PROVE  /\ storage[v].tokens = storage[w].tokens
                      /\ storage[v].notary = storage[w].notary
                      /\ storage[v].voting = storage[w].voting
    BY DEF ContractsConverged
  <2>1. storage[v].tokens = storage[w].tokens
    BY DEF AsExecuted
  <2>2. storage[v].notary = storage[w].notary
    <3> DEFINE m == storage[v].notary
               n == storage[w].notary
               S == done[v]
    <3>1. m \in Nat /\ n \in Nat /\ IsNotarized(m, S) /\ IsNotarized(n, S)
      BY DEF AsExecuted
    <3> HIDE DEF m, n, S
    <3>2. m = n
      BY <3>1 DEF IsNotarized
    <3> QED  BY <3>2 DEF m, n
  <2>3. storage[v].voting = storage[w].voting
    <3> DEFINE p == storage[v].voting
               q == storage[w].voting
               S == done[v]
    <3>1. IsVotingAfter(p, S) /\ IsVotingAfter(q, S)
      BY DEF AsExecuted
    <3>2. /\ p = [deadline |-> p.deadline, threshold |-> p.threshold, hasVoted |-> p.hasVoted,
                  voteCount |-> p.voteCount, executed |-> p.executed]
          /\ q = [deadline |-> q.deadline, threshold |-> q.threshold, hasVoted |-> q.hasVoted,
                  voteCount |-> q.voteCount, executed |-> q.executed]
      BY DEF ReplicasTypeOK, IsStorage
    <3> HIDE DEF p, q, S
    <3>3. /\ p.deadline = q.deadline /\ p.threshold = q.threshold /\ p.hasVoted = q.hasVoted
          /\ p.voteCount = q.voteCount
      BY <3>1 DEF IsVotingAfter
    <3>4. p.executed = q.executed
      BY <3>1 DEF IsVotingAfter
    <3>5. p = q
      BY <3>2, <3>3, <3>4
    <3> QED  BY <3>5 DEF p, q
  <2> QED  BY <2>1, <2>2, <2>3
<1> QED
  BY <1>1, ReplicasTypes, AsExecutedSafety, PTL

-----------------------------------------------------------------------------
(***************************************************************************)
(* The operations of a registry: their histories.                          *)
(***************************************************************************)

\* With each operation the one it follows.
Closed(S) == \A c \in S : ~Creates(c) => Ops[c].prev \in S

\* The history of an operation without recursion: what is in every closed set it is in.
Ancestors(cid) == {d \in Cids : \A S \in SUBSET Cids : cid \in S /\ Closed(S) => d \in S}

\* The recursion that History is.
IsHistory(h) ==
    h = [cid \in Cids \cup {NoCid} |-> IF cid = NoCid THEN {} ELSE {cid} \cup h[Ops[cid].prev]]

\* The empty CID is no operation, and what an operation follows is an operation.
LEMMA PrevKnown ==
    ASSUME NEW c \in Cids
    PROVE  c # NoCid /\ Ops[c].prev \in Cids \cup {NoCid} /\ (~Creates(c) <=> Ops[c].prev \in Cids)
  BY OpsAssumption DEF Creates

\* A set of operations that with each one has the one it follows is empty.
LEMMA NoCycle ==
    ASSUME NEW S \in SUBSET Cids, \A c \in S : Ops[c].prev \in S
    PROVE  S = {}
  BY OpsAssumption

\* History is what its recursion says.
LEMMA HistoryUnfolds ==
    /\ History[NoCid] = {}
    /\ \A c \in Cids : History[c] = {c} \cup History[Ops[c].prev]
<1> DEFINE h == [cid \in Cids \cup {NoCid} |-> IF cid = NoCid THEN {} ELSE Ancestors(cid)]
<1>1. \A c \in Cids : c # NoCid /\ h[c] = Ancestors(c)
  BY PrevKnown
<1>2. h[NoCid] = {}
  OBVIOUS
<1>3. ASSUME NEW c \in Cids
      PROVE  Ancestors(c) = {c} \cup h[Ops[c].prev]
  <2>1. c \in Ancestors(c)
    BY DEF Ancestors
  <2>2. CASE Creates(c)
    <3>1. h[Ops[c].prev] = {}
      BY <1>2, <2>2 DEF Creates
    <3>2. {c} \in SUBSET Cids /\ Closed({c})
      BY <2>2 DEF Closed
    <3> QED  BY <2>1, <3>1, <3>2 DEF Ancestors
  <2>3. CASE ~Creates(c)
    <3> DEFINE p == Ops[c].prev
               A == Ancestors(p)
    <3>1. p \in Cids /\ h[p] = A
      BY <1>1, <2>3, PrevKnown
    <3>2. p \in A /\ A \in SUBSET Cids
      BY <3>1 DEF Ancestors
    <3>3. A \subseteq Ancestors(c)
      <4> SUFFICES ASSUME NEW d \in A, NEW S \in SUBSET Cids, c \in S, Closed(S)
                   PROVE  d \in S
        BY DEF Ancestors
      <4>1. p \in S
        BY <2>3 DEF Closed
      <4> QED  BY <4>1 DEF Ancestors
    <3>4. Closed(A)
      <4> SUFFICES ASSUME NEW e \in A, ~Creates(e), NEW S \in SUBSET Cids, p \in S, Closed(S)
                   PROVE  Ops[e].prev \in S
        BY <3>2, PrevKnown DEF Closed, Ancestors
      <4> QED  BY DEF Ancestors, Closed
    <3>5. {c} \cup A \in SUBSET Cids /\ Closed({c} \cup A)
      <4> HIDE DEF A
      <4> QED  BY <3>2, <3>4 DEF Closed
    <3>6. Ancestors(c) \subseteq {c} \cup A
      <4> HIDE DEF A
      <4> QED  BY <3>5 DEF Ancestors
    <3> QED  BY <2>1, <3>1, <3>3, <3>6
  <2> QED  BY <2>2, <2>3
<1>4. IsHistory(h)
  <2> DEFINE g == [cid \in Cids \cup {NoCid} |-> IF cid = NoCid THEN {} ELSE {cid} \cup h[Ops[cid].prev]]
  <2>1. \A c \in Cids \cup {NoCid} : h[c] = g[c]
    <3> HIDE DEF h
    <3> QED  BY <1>1, <1>2, <1>3
  <2>2. h = [cid \in Cids \cup {NoCid} |-> h[cid]] /\ g = [cid \in Cids \cup {NoCid} |-> g[cid]]
    OBVIOUS
  <2>3. h = g
    <3> HIDE DEF h, g
    <3> QED  BY <2>1, <2>2
  <2> QED  BY <2>3 DEF IsHistory
<1> HIDE DEF h
<1>5. IsHistory(History)
  <2>1. \E w : IsHistory(w)
    BY <1>4
  <2>2. IsHistory(CHOOSE w : IsHistory(w))
    BY <2>1
  <2>3. History = CHOOSE w : IsHistory(w)
    BY DEF History, IsHistory
  <2> QED  BY <2>2, <2>3
<1> QED
  BY <1>5, PrevKnown DEF IsHistory

\* History[x] is a set of operations, closed, with x in it.
LEMMA HistoryClosed ==
    ASSUME NEW x \in Cids \cup {NoCid}
    PROVE  /\ History[x] \subseteq Cids
           /\ x \in Cids => x \in History[x]
           /\ Closed(History[x])
           /\ \A d \in History[x] : History[d] \subseteq History[x]
<1> DEFINE Good(y) == /\ History[y] \subseteq Cids /\ Closed(History[y])
                      /\ \A d \in History[y] : History[d] \subseteq History[y]
           S == {y \in Cids : ~Good(y)}
<1>1. Good(NoCid)
  BY HistoryUnfolds DEF Closed
<1>2. ASSUME NEW y \in S, Ops[y].prev \notin S
      PROVE  FALSE
  <2> DEFINE p == Ops[y].prev
  <2>1. y \in Cids /\ p \in Cids \cup {NoCid} /\ History[y] = {y} \cup History[p]
    BY PrevKnown, HistoryUnfolds
  <2>2. Good(p)
    BY <1>1, <1>2, <2>1
  <2>3. ~Creates(y) => p \in History[p]
    BY <2>1, PrevKnown, HistoryUnfolds
  <2>4. ~Good(y)
    OBVIOUS
  <2> HIDE DEF p
  <2>5. Closed(History[y])
    BY <2>1, <2>2, <2>3 DEF Closed, p
  <2>6. \A d \in History[y] : History[d] \subseteq History[y]
    BY <2>1, <2>2
  <2> QED  BY <2>1, <2>2, <2>4, <2>5, <2>6
<1>3. S = {}
  <2>1. S \in SUBSET Cids
    OBVIOUS
  <2> HIDE DEF S
  <2> QED  BY <1>2, <2>1, NoCycle
<1>4. Good(x)
  BY <1>1, <1>3
<1> QED
  BY <1>4, HistoryUnfolds

\* An operation is not in the history of the one it follows.
LEMMA NotBeforeItself ==
    ASSUME NEW x \in Cids
    PROVE  x \notin History[Ops[x].prev]
<1> DEFINE S == {y \in Cids : y \in History[Ops[y].prev]}
<1>1. ASSUME NEW y \in S
      PROVE  Ops[y].prev \in S
  <2> DEFINE p == Ops[y].prev
  <2>1. y \in Cids /\ y \in History[p] /\ p \in Cids \cup {NoCid}
    BY PrevKnown
  <2>2. p \in Cids /\ History[p] = {p} \cup History[Ops[p].prev]
    BY <2>1, HistoryUnfolds
  <2>3. y # p
    <3>1. SUFFICES ASSUME y = p
                   PROVE  FALSE
      OBVIOUS
    <3>2. \A c \in {y} : Ops[c].prev \in {y}
      BY <3>1
    <3> QED  BY <2>1, <3>2, NoCycle
  <2>4. y \in History[Ops[p].prev]
    BY <2>1, <2>2, <2>3
  <2>5. Ops[p].prev \in Cids \cup {NoCid}
    BY <2>2, PrevKnown
  <2>6. History[y] \subseteq History[Ops[p].prev]
    <3> HIDE DEF p
    <3> QED  BY <2>4, <2>5, HistoryClosed
  <2>7. p \in History[y]
    <3>1. p \in History[p] /\ History[y] = {y} \cup History[p]
      BY <2>1, <2>2, HistoryUnfolds
    <3> QED  BY <3>1
  <2> QED  BY <2>2, <2>6, <2>7
<1>2. S = {}
  <2>1. S \in SUBSET Cids
    OBVIOUS
  <2> HIDE DEF S
  <2> QED  BY <1>1, <2>1, NoCycle
<1> QED
  BY <1>2

\* Two operations are not each in the history of the other.
LEMMA HistoryOrders ==
    ASSUME NEW x \in Cids, NEW y \in Cids, x \in History[y], y \in History[x]
    PROVE  x = y
<1>1. SUFFICES ASSUME x # y
               PROVE  FALSE
  OBVIOUS
<1>2. x \in History[Ops[y].prev]
  BY <1>1, HistoryUnfolds
<1>3. History[x] \subseteq History[Ops[y].prev]
  BY <1>2, PrevKnown, HistoryClosed
<1> QED
  BY <1>3, NotBeforeItself

\* A history does not fork, and nothing in the history of x follows x.
LEMMA HistoryIsChain ==
    ASSUME NEW x \in Cids \cup {NoCid}
    PROVE  /\ \A a, b \in History[x] : Ops[a].prev = Ops[b].prev => a = b
           /\ \A c \in History[x] : Ops[c].prev # x
<1> DEFINE S == {y \in Cids : \E a, b \in History[y] : Ops[a].prev = Ops[b].prev /\ a # b}
<1>1. ASSUME NEW y \in Cids \cup {NoCid}, NEW c \in History[y]
      PROVE  c \in Cids /\ (y \in Cids => Ops[c].prev # y)
  <2>1. c \in Cids
    BY HistoryClosed
  <2>2. c \notin History[Ops[c].prev]
    BY <2>1, NotBeforeItself
  <2> QED  BY <2>1, <2>2
<1>2. ASSUME NEW y \in S
      PROVE  Ops[y].prev \in S
  <2> DEFINE p == Ops[y].prev
  <2>1. y \in Cids /\ p \in Cids \cup {NoCid} /\ History[y] = {y} \cup History[p]
    BY PrevKnown, HistoryUnfolds
  <2>2. \A c \in History[p] : Ops[c].prev # p
    <3>1. p = NoCid => History[p] = {}
      BY HistoryUnfolds
    <3> QED  BY <1>1, <2>1, <3>1
  <2>3. PICK a, b \in History[y] : Ops[a].prev = Ops[b].prev /\ a # b
    OBVIOUS
  <2>4. a \in History[p] /\ b \in History[p]
    BY <2>1, <2>2, <2>3
  <2>5. p \in Cids
    BY <2>1, <2>4, HistoryUnfolds
  <2> QED  BY <2>3, <2>4, <2>5
<1>3. S = {}
  <2>1. S \in SUBSET Cids
    OBVIOUS
  <2> HIDE DEF S
  <2> QED  BY <1>2, <2>1, NoCycle
<1> QED
  BY <1>1, <1>3, HistoryUnfolds

\* What x follows is followed by an operation of its history, and that begins with a creation.
LEMMA HistoryContinues ==
    ASSUME NEW x \in Cids
    PROVE  /\ \A p \in History[x] \ {x} : \E c \in History[x] : Ops[c].prev = p
           /\ \E c \in History[x] : Creates(c)
<1> DEFINE Good(y) == /\ \A p \in History[y] \ {y} : \E c \in History[y] : Ops[c].prev = p
                      /\ \E c \in History[y] : Creates(c)
           S == {y \in Cids : ~Good(y)}
<1>1. ASSUME NEW y \in S, Ops[y].prev \notin S
      PROVE  FALSE
  <2> DEFINE p == Ops[y].prev
  <2>1. y \in Cids /\ History[y] = {y} \cup History[p]
    BY HistoryUnfolds
  <2>2. CASE Creates(y)
    <3>1. History[p] = {}
      BY <2>2, HistoryUnfolds DEF Creates
    <3>2. History[y] = {y}
      BY <2>1, <3>1
    <3>3. Good(y)
      BY <2>2, <3>2
    <3> QED  BY <3>3
  <2>3. CASE ~Creates(y)
    <3>1. p \in Cids
      BY <2>1, <2>3, PrevKnown
    <3>2. Good(p)
      BY <1>1, <3>1
    <3>3. \A q \in History[y] \ {y} : q = p \/ \E c \in History[p] : Ops[c].prev = q
      <4> HIDE DEF p
      <4> QED  BY <2>1, <3>2
    <3>4. \A q \in History[y] \ {y} : \E c \in History[y] : Ops[c].prev = q
      <4>1. Ops[y].prev = p
        OBVIOUS
      <4> HIDE DEF p
      <4> QED  BY <2>1, <3>3, <4>1
    <3>5. \E c \in History[y] : Creates(c)
      <4> HIDE DEF p
      <4> QED  BY <2>1, <3>2
    <3>6. ~Good(y)
      OBVIOUS
    <3> HIDE DEF p
    <3> QED  BY <3>4, <3>5, <3>6
  <2> QED  BY <2>2, <2>3
<1>2. S = {}
  <2>1. S \in SUBSET Cids
    OBVIOUS
  <2> HIDE DEF S
  <2> QED  BY <1>1, <2>1, NoCycle
<1>3. Good(x)
  BY <1>2
<1> QED
  BY <1>3

-----------------------------------------------------------------------------
(***************************************************************************)
(* The operations of a registry: what add keeps.                           *)
(***************************************************************************)

\* Where the signature of an update verifies in the keys of the operation it follows, and
\* the strongest of these places.
Signers(c)  == SignerIndices(c, Ops[Ops[c].prev].keys)
Strength(c) == Min(Signers(c))
Updates(S)  == {c \in S : ~Creates(c)}

IsRegistry(r) ==
    /\ r = [stored |-> r.stored, latest |-> r.latest, signerIndices |-> r.signerIndices]
    /\ r.signerIndices = [c \in Cids |-> r.signerIndices[c]]

\* The history is stored, down to its creation, and so is what is followed.
Rooted(r) ==
    /\ r.stored \subseteq Cids /\ r.latest \in r.stored \cup {NoCid}
    /\ r.latest = NoCid => r.stored = {}
    /\ History[r.latest] \subseteq r.stored
    /\ \A c \in Updates(r.stored) : Ops[c].prev \in r.stored

\* Updates are signed with a key they may be signed with; in the history the index stored
\* is that of the strongest.
SignersStored(r) ==
    /\ \A c \in Updates(r.stored) : Signers(c) # {}
    /\ \A c \in Updates(History[r.latest]) : r.signerIndices[c] = Strength(c)

\* Where an update that is stored follows an operation of the history, the history goes on
\* with one that is no weaker.
NoneStronger(r) ==
    \A c \in Updates(r.stored) : Ops[c].prev \in History[r.latest] =>
        \E d \in History[r.latest] : Ops[d].prev = Ops[c].prev /\ Strength(d) <= Strength(c)

RegistryOK(r) == IsRegistry(r) /\ Rooted(r) /\ SignersStored(r) /\ NoneStronger(r)

\* The least of a set of numbers, also of its numbers below a bound.
LEMMA MinOfNumbers ==
    ASSUME NEW S \in SUBSET Nat, S # {}
    PROVE  /\ Min(S) \in S /\ \A y \in S : Min(S) <= y
           /\ \A k \in Int : {i \in S : i < k} # {} => Min({i \in S : i < k}) = Min(S) /\ Min(S) < k
<1>1. ASSUME NEW T \in SUBSET Nat, T # {}
      PROVE  Min(T) \in T /\ \A y \in T : Min(T) <= y
  <2>1. PICK k \in T : \A y \in T : ~(<<y, k>> \in OpToRel(<, Nat))
    BY <1>1, NatLessThanWellFounded, WFMin
  <2>2. \A y \in T : k <= y
    <3> SUFFICES ASSUME NEW y \in T, y < k
                 PROVE  FALSE
      OBVIOUS
    <3>1. <<y, k>> \in OpToRel(<, Nat)
      BY DEF OpToRel
    <3> QED  BY <2>1, <3>1
  <2> QED  BY <2>2 DEF Min
<1>2. ASSUME NEW k \in Int, {i \in S : i < k} # {}
      PROVE  Min({i \in S : i < k}) = Min(S) /\ Min(S) < k
  <2> DEFINE T == {i \in S : i < k}
             m == Min(T)
             n == Min(S)
  <2>1. m \in T /\ \A y \in T : m <= y
    <3> HIDE DEF T
    <3>1. T \in SUBSET Nat /\ T # {}
      BY <1>2 DEF T
    <3> QED  BY <3>1, <1>1
  <2>2. n \in S /\ \A y \in S : n <= y
    BY <1>1
  <2> HIDE DEF m, n
  <2>3. n <= m /\ m < k /\ m \in Nat /\ n \in Nat
    BY <2>1, <2>2
  <2>4. n \in T
    BY <2>2, <2>3
  <2>5. m = n
    BY <2>1, <2>3, <2>4
  <2> QED  BY <2>3, <2>5 DEF m, n
<1> QED
  BY <1>1, <1>2

\* The strongest signer is a number.
LEMMA StrengthNumber ==
    ASSUME NEW c \in Cids, ~Creates(c)
    PROVE  /\ Signers(c) \in SUBSET Nat
           /\ Signers(c) # {} => Strength(c) \in Signers(c) /\ Strength(c) \in Nat
           /\ \A k \in Int : {i \in Signers(c) : i < k} # {} =>
                  Min({i \in Signers(c) : i < k}) = Strength(c) /\ Strength(c) < k
           /\ \A k \in Int : Signers(c) # {} /\ {i \in Signers(c) : i < k} = {} => k <= Strength(c)
<1>1. Ops[c].prev \in Cids
  BY PrevKnown
<1>2. Len(Ops[Ops[c].prev].keys) \in Nat
  BY <1>1, OpsAssumption
<1>3. Signers(c) \in SUBSET Nat
  BY <1>2 DEF Signers, SignerIndices
<1> DEFINE S == Signers(c)
<1> HIDE DEF S
<1>4. /\ S # {} => Min(S) \in S
      /\ \A k \in Int : {i \in S : i < k} # {} => Min({i \in S : i < k}) = Min(S) /\ Min(S) < k
  BY <1>3, MinOfNumbers DEF S
<1> QED
  BY <1>3, <1>4 DEF Strength, S

\* The operation that a fork at cid would nullify first.
LEMMA NullifiedOne ==
    ASSUME NEW r, Rooted(r), SignersStored(r), NEW cid \in Cids, ~Creates(cid), Nullified(r, cid) # {}
    PROVE  \E n \in History[r.latest] :
               /\ n \in Cids /\ ~Creates(n) /\ n \in r.stored
               /\ Ops[n].prev = Ops[cid].prev /\ Disputed(r, cid) = Strength(n)
               /\ Strength(n) \in Nat
               /\ Ops[cid].prev \in Cids /\ Ops[cid].prev \in History[r.latest]
<1> DEFINE H == History[r.latest]
           n == CHOOSE c \in Nullified(r, cid) : TRUE
<1>1. r.latest \in Cids \cup {NoCid} /\ H \subseteq r.stored /\ H \subseteq Cids /\ Closed(H)
  BY HistoryClosed DEF Rooted
<1>2. n \in H /\ Ops[n].prev = Ops[cid].prev
  BY DEF Nullified
<1>3. Disputed(r, cid) = r.signerIndices[n]
  BY DEF Disputed
<1> HIDE DEF n
<1>4. n \in Updates(r.stored) /\ n \in Updates(H) /\ n \in Cids /\ ~Creates(n)
  BY <1>1, <1>2 DEF Updates, Creates
<1>5. r.signerIndices[n] = Strength(n) /\ Strength(n) \in Nat
  BY <1>4, StrengthNumber DEF SignersStored
<1>6. Ops[cid].prev \in Cids /\ Ops[cid].prev \in H
  BY <1>1, <1>2, PrevKnown DEF Closed
<1> QED
  BY <1>1, <1>2, <1>3, <1>4, <1>5, <1>6 DEF Updates

\* The parts of a registry after add.
LEMMA AddedParts ==
    ASSUME NEW r, IsRegistry(r), NEW cid \in Cids
    PROVE  LET q == Added(r, cid)
           IN  /\ IsRegistry(q) /\ q.stored = r.stored \cup {cid}
               /\ q.latest = (IF AddAgreed(r, cid) THEN cid ELSE r.latest)
               /\ q.signerIndices[cid] = SignerIndex(r, cid)
               /\ \A c \in Cids \ {cid} : q.signerIndices[c] = r.signerIndices[c]
<1> DEFINE s == r.stored \cup {cid}
           l == IF AddAgreed(r, cid) THEN cid ELSE r.latest
           i == SignerIndex(r, cid)
           f == r.signerIndices
           g == [f EXCEPT ![cid] = i]
           q == [stored |-> s, latest |-> l, signerIndices |-> g]
<1>1. Added(r, cid) = q
  BY DEF Added
<1>2. f = [c \in Cids |-> f[c]]
  BY DEF IsRegistry
<1>3. /\ g = [c \in Cids |-> g[c]] /\ g[cid] = i
      /\ \A c \in Cids \ {cid} : g[c] = f[c]
  <2> HIDE DEF f, i
  <2> QED  BY <1>2
<1>4. q.stored = s /\ q.latest = l /\ q.signerIndices = g
  <2> HIDE DEF s, l, g
  <2> QED  OBVIOUS
<1>5. IsRegistry(q)
  <2>1. q = [stored |-> q.stored, latest |-> q.latest, signerIndices |-> q.signerIndices]
    <3> HIDE DEF s, l, g
    <3> QED  OBVIOUS
  <2> HIDE DEF q, g
  <2> QED  BY <1>3, <1>4, <2>1 DEF IsRegistry
<1> HIDE DEF q
<1> QED
  BY <1>1, <1>3, <1>4, <1>5

\* A creation begins the history or leaves it alone.
LEMMA CreationKeeps ==
    ASSUME NEW r, RegistryOK(r), NEW cid \in Cids, Creates(cid)
    PROVE  RegistryOK(Added(r, cid))
<1> DEFINE q == Added(r, cid)
<1>1. /\ IsRegistry(q) /\ q.stored = r.stored \cup {cid}
      /\ q.latest = (IF AddAgreed(r, cid) THEN cid ELSE r.latest)
      /\ \A c \in Cids \ {cid} : q.signerIndices[c] = r.signerIndices[c]
  BY AddedParts DEF RegistryOK
<1>2. AddAgreed(r, cid) <=> r.latest = NoCid
  BY DEF AddAgreed
<1>3. cid # NoCid /\ History[cid] = {cid} /\ History[NoCid] = {}
  BY PrevKnown, HistoryUnfolds DEF Creates
<1> HIDE DEF q
<1>4. Updates(q.stored) = Updates(r.stored) /\ cid \notin Updates(r.stored)
  BY <1>1 DEF Updates
<1>5. CASE r.latest = NoCid
  <2>1. r.stored = {}
    BY <1>5 DEF RegistryOK, Rooted
  <2>2. q.stored = {cid} /\ q.latest = cid /\ Updates(q.stored) = {} /\ Updates(History[q.latest]) = {}
    BY <1>1, <1>2, <1>3, <1>5, <2>1 DEF Updates
  <2>3. Rooted(q)
    BY <1>3, <2>2 DEF Rooted
  <2>4. SignersStored(q) /\ NoneStronger(q)
    BY <2>2 DEF SignersStored, NoneStronger
  <2> QED  BY <1>1, <2>3, <2>4 DEF RegistryOK, q
<1>6. CASE r.latest # NoCid
  <2>1. q.latest = r.latest
    BY <1>1, <1>2, <1>6
  <2>2. Rooted(r) /\ SignersStored(r) /\ NoneStronger(r)
    BY DEF RegistryOK
  <2>3. Rooted(q)
    BY <1>1, <1>4, <2>1, <2>2, <1>6 DEF Rooted
  <2>4. SignersStored(q)
    <3>1. \A c \in Updates(History[q.latest]) : c \in Updates(r.stored) /\ c \in Cids \ {cid}
      BY <1>4, <2>1, <2>2 DEF Rooted, Updates
    <3> QED  BY <1>1, <1>4, <2>1, <2>2, <3>1 DEF SignersStored
  <2>5. NoneStronger(q)
    BY <1>4, <2>1, <2>2 DEF NoneStronger
  <2> QED  BY <1>1, <2>3, <2>4, <2>5 DEF RegistryOK, q
<1> QED
  BY <1>5, <1>6

\* An update that is new follows the latest operation, or an earlier one that it takes over
\* with a stronger key, or is only stored.
LEMMA UpdateKeeps ==
    ASSUME NEW r, RegistryOK(r), NEW cid \in Cids, ~Creates(cid), cid \notin r.stored,
           Signers(cid) # {}, AddValid(r, cid)
    PROVE  RegistryOK(Added(r, cid))
<1> DEFINE q == Added(r, cid)
           p == Ops[cid].prev
           H == History[r.latest]
<1>1. /\ IsRegistry(q) /\ q.stored = r.stored \cup {cid}
      /\ q.latest = (IF AddAgreed(r, cid) THEN cid ELSE r.latest)
      /\ q.signerIndices[cid] = SignerIndex(r, cid)
      /\ \A c \in Cids \ {cid} : q.signerIndices[c] = r.signerIndices[c]
  BY AddedParts DEF RegistryOK
<1>2. Rooted(r) /\ SignersStored(r) /\ NoneStronger(r)
  BY DEF RegistryOK
<1>3. /\ p \in Cids /\ p \in r.stored /\ cid # NoCid /\ History[cid] = {cid} \cup History[p]
      /\ r.latest \in Cids \cup {NoCid} /\ H \subseteq r.stored /\ H \subseteq Cids /\ cid \notin H
      /\ r.stored \subseteq Cids
  BY <1>2, PrevKnown, HistoryUnfolds, HistoryClosed DEF AddValid, Rooted
<1>4. /\ Strength(cid) \in Nat
      /\ \A k \in Int : {i \in Signers(cid) : i < k} # {} =>
             Min({i \in Signers(cid) : i < k}) = Strength(cid) /\ Strength(cid) < k
      /\ \A k \in Int : {i \in Signers(cid) : i < k} = {} => k <= Strength(cid)
  BY StrengthNumber
<1>5. /\ Updates(q.stored) = Updates(r.stored) \cup {cid}
      /\ \A c \in Updates(r.stored) : c \in Cids \ {cid} /\ Ops[c].prev # cid /\ ~Creates(c)
  <2> HIDE DEF q
  <2> QED  BY <1>1, <1>2, <1>3 DEF Updates, Rooted
<1>6. \A c \in Updates(r.stored) : Strength(c) \in Nat
  BY <1>2, <1>5, StrengthNumber DEF SignersStored
\* Whatever part of the history is kept, the update that leads it is stored with its signer.
<1>7. ASSUME NEW K \in SUBSET H, History[cid] = {cid} \cup K, q.latest = cid, K = History[p],
             SignerIndex(r, cid) = Strength(cid)
      PROVE  Rooted(q) /\ SignersStored(q)
  <2> HIDE DEF q, p, H
  <2>1. Rooted(q)
    <3>1. \A c \in Updates(q.stored) : Ops[c].prev \in q.stored
      BY <1>1, <1>2, <1>3, <1>5 DEF Rooted, p
    <3> QED  BY <1>1, <1>3, <1>7, <3>1 DEF Rooted
  <2>2. SignersStored(q)
    <3>1. \A c \in Updates(History[q.latest]) : c = cid \/ c \in Updates(H)
      BY <1>7 DEF Updates
    <3>2. \A c \in Updates(H) : q.signerIndices[c] = Strength(c)
      BY <1>1, <1>2, <1>3, <1>5 DEF SignersStored, Updates, H
    <3>3. \A c \in Updates(q.stored) : Signers(c) # {}
      BY <1>2, <1>5 DEF SignersStored
    <3> QED  BY <1>1, <1>7, <3>1, <3>2, <3>3 DEF SignersStored
  <2> QED  BY <2>1, <2>2
<1>8. CASE Extends(r, cid)
  <2>1. r.latest = p /\ AddAgreed(r, cid) /\ SignerIndex(r, cid) = Strength(cid)
    BY <1>8 DEF Extends, AddAgreed, SignerIndex, Signers, Strength
  <2>2. q.latest = cid /\ History[cid] = {cid} \cup H
    BY <1>1, <1>3, <2>1
  <2>3. Rooted(q) /\ SignersStored(q)
    BY <1>7, <2>1, <2>2
  <2>4. NoneStronger(q)
    <3> SUFFICES ASSUME NEW c \in Updates(q.stored), Ops[c].prev \in History[q.latest]
                 PROVE  \E d \in History[q.latest] : Ops[d].prev = Ops[c].prev /\ Strength(d) <= Strength(c)
      BY DEF NoneStronger
    <3> HIDE DEF q, p, H
    <3>1. CASE c = cid
      BY <1>4, <2>2, <3>1
    <3>2. CASE c \in Updates(r.stored)
      <4>1. Ops[c].prev \in H
        BY <1>5, <2>2, <3>2
      <4> QED  BY <1>2, <2>2, <3>2, <4>1 DEF NoneStronger, H
    <3> QED  BY <1>5, <3>1, <3>2
  <2> QED  BY <1>1, <2>3, <2>4 DEF RegistryOK
<1>9. CASE ~Extends(r, cid)
  <2>1. Nullified(r, cid) # {}
    BY <1>9 DEF AddValid
  <2>2. PICK n \in H : /\ n \in Cids /\ ~Creates(n) /\ n \in r.stored /\ Ops[n].prev = p
                       /\ Disputed(r, cid) = Strength(n) /\ Strength(n) \in Nat /\ p \in H
    BY <1>2, <2>1, NullifiedOne
  <2>3. Stronger(r, cid) = {i \in Signers(cid) : i < Strength(n)}
    BY <2>2 DEF Stronger, Signers
  <2>4. AddAgreed(r, cid) <=> Stronger(r, cid) # {}
    BY <1>9 DEF AddAgreed
  <2>5. CASE Stronger(r, cid) # {}
    <3>1. SignerIndex(r, cid) = Strength(cid) /\ Strength(cid) < Strength(n)
      <4>1. SignerIndex(r, cid) = Min(Stronger(r, cid))
        BY <1>9, <2>5 DEF SignerIndex
      <4> QED  BY <1>4, <2>2, <2>3, <2>5, <4>1
    <3>2. q.latest = cid /\ History[p] \subseteq H
      BY <1>1, <1>3, <2>2, <2>4, <2>5, HistoryClosed
    <3>3. Rooted(q) /\ SignersStored(q)
      BY <1>3, <1>7, <3>1, <3>2
    <3>4. NoneStronger(q)
      <4> SUFFICES ASSUME NEW c \in Updates(q.stored), Ops[c].prev \in History[q.latest]
                   PROVE  \E d \in History[q.latest] : Ops[d].prev = Ops[c].prev /\ Strength(d) <= Strength(c)
        BY DEF NoneStronger
      <4>1. cid \in History[q.latest] /\ History[q.latest] = {cid} \cup History[p]
        BY <1>3, <3>2
      <4>2. \A a, b \in H : Ops[a].prev = Ops[b].prev => a = b
        BY <1>3, HistoryIsChain
      <4>3. CASE c = cid
        <5> HIDE DEF q
        <5> QED  BY <1>4, <4>1, <4>3
      <4>4. CASE c \in Updates(r.stored)
        <5>1. Ops[c].prev \in History[p] /\ Ops[c].prev \in H
          <6> HIDE DEF q, p, H
          <6> QED  BY <1>5, <3>2, <4>1, <4>4
        <5>2. PICK d \in H : Ops[d].prev = Ops[c].prev /\ Strength(d) <= Strength(c)
          BY <1>2, <4>4, <5>1 DEF NoneStronger
        <5>3. CASE Ops[c].prev = p
          <6>1. d = n
            BY <2>2, <4>2, <5>2, <5>3
          <6>2. Strength(cid) <= Strength(c)
            <7>1. Strength(n) <= Strength(c) /\ Strength(c) \in Nat
              BY <1>6, <4>4, <5>2, <6>1
            <7> QED  BY ONLY <7>1, <1>4, <2>2, <3>1
          <6> QED  BY <4>1, <5>3, <6>2
        <5>4. CASE Ops[c].prev # p
          <6>1. PICK e \in History[p] : Ops[e].prev = Ops[c].prev
            BY <1>3, <5>1, <5>4, HistoryContinues
          <6>2. e = d
            BY <3>2, <4>2, <5>2, <6>1
          <6> QED  BY <4>1, <5>2, <6>1, <6>2
        <5> QED  BY <5>3, <5>4
      <4> QED  BY <1>5, <4>3, <4>4
    <3> QED  BY <1>1, <3>3, <3>4 DEF RegistryOK
  <2>6. CASE Stronger(r, cid) = {}
    <3>1. q.latest = r.latest /\ Strength(n) <= Strength(cid)
      BY <1>1, <1>4, <2>2, <2>3, <2>4, <2>6
    <3> HIDE DEF q, p, H
    <3>2. Rooted(q)
      <4>1. \A c \in Updates(q.stored) : Ops[c].prev \in q.stored
        BY <1>1, <1>2, <1>3, <1>5 DEF Rooted, p
      <4>2. r.latest # NoCid
        BY <1>2, <1>3 DEF Rooted
      <4> QED  BY <1>1, <1>2, <1>3, <3>1, <4>1, <4>2 DEF Rooted
    <3>3. SignersStored(q)
      <4>1. \A c \in Updates(History[q.latest]) : c \in Cids \ {cid} /\ c \in Updates(History[r.latest])
        BY <1>3, <3>1 DEF Updates, H
      <4> QED  BY <1>1, <1>2, <1>5, <4>1 DEF SignersStored
    <3>4. NoneStronger(q)
      <4> SUFFICES ASSUME NEW c \in Updates(q.stored), Ops[c].prev \in H
                   PROVE  \E d \in H : Ops[d].prev = Ops[c].prev /\ Strength(d) <= Strength(c)
        BY <3>1 DEF NoneStronger, H
      <4>1. CASE c = cid
        BY <2>2, <3>1, <4>1 DEF p
      <4>2. CASE c \in Updates(r.stored)
        BY <1>2, <4>2 DEF NoneStronger, H
      <4> QED  BY <1>5, <4>1, <4>2
    <3> QED  BY <1>1, <3>2, <3>3, <3>4 DEF RegistryOK, q
  <2> QED  BY <2>5, <2>6
<1> QED
  BY <1>8, <1>9

\* Where the registry is in order, the weaker of two updates that follow the same operation
\* is no part of the history.
LEMMA StrongestPrevails ==
    ASSUME NEW r, RegistryOK(r), NEW s \in Updates(r.stored), NEW t \in Updates(r.stored),
           Ops[s].prev = Ops[t].prev, Strength(s) < Strength(t)
    PROVE  t \notin History[r.latest]
<1>1. SUFFICES ASSUME t \in History[r.latest]
               PROVE  FALSE
  OBVIOUS
<1> DEFINE H == History[r.latest]
<1>2. /\ r.latest \in Cids \cup {NoCid} /\ Closed(H)
      /\ \A a, b \in H : Ops[a].prev = Ops[b].prev => a = b
  <2>1. r.latest \in Cids \cup {NoCid}
    BY DEF RegistryOK, Rooted
  <2> QED  BY <2>1, HistoryClosed, HistoryIsChain
<1>3. Ops[s].prev \in H
  BY <1>1, <1>2 DEF Closed, Updates
<1>4. PICK d \in H : Ops[d].prev = Ops[s].prev /\ Strength(d) <= Strength(s)
  BY <1>3 DEF RegistryOK, NoneStronger
<1>5. d = t
  BY <1>1, <1>2, <1>4
<1>6. Strength(s) \in Nat /\ Strength(t) \in Nat
  BY StrengthNumber DEF RegistryOK, Rooted, SignersStored, Updates
<1> QED
  BY ONLY <1>4, <1>5, <1>6, Strength(s) < Strength(t)

\* One operation creates, and no key signs two updates of one operation.
OneCreationIn(S)  == \A a, b \in S : Creates(a) /\ Creates(b) => a = b
OneUpdateEachIn(S) ==
    \A a, b \in Updates(S) :
        Ops[a].prev = Ops[b].prev /\ Signers(a) \cap Signers(b) # {} => a = b

\* Then what is stored decides the history.
LEMMA HistoryDecided ==
    ASSUME NEW q, RegistryOK(q), NEW r, RegistryOK(r), q.stored = r.stored,
           OneCreationIn(q.stored), OneUpdateEachIn(q.stored)
    PROVE  History[q.latest] \subseteq History[r.latest]
<1> DEFINE S == q.stored
           G == History[q.latest]
           H == History[r.latest]
           D == {x \in G : x \notin H}
<1>1. /\ q.latest \in Cids \cup {NoCid} /\ r.latest \in Cids \cup {NoCid}
      /\ G \subseteq S /\ H \subseteq S /\ S \subseteq Cids /\ (r.latest = NoCid => S = {})
  BY DEF RegistryOK, Rooted
<1>2. Closed(G) /\ Closed(H) /\ \A a, b \in G : Ops[a].prev = Ops[b].prev => a = b
  BY <1>1, HistoryClosed, HistoryIsChain
<1>3. /\ \A c \in Updates(S) : Strength(c) \in Signers(c) /\ Strength(c) \in Nat
      /\ \A c \in Updates(S) : Ops[c].prev \in G =>
             \E d \in G : Ops[d].prev = Ops[c].prev /\ Strength(d) <= Strength(c)
      /\ \A c \in Updates(S) : Ops[c].prev \in H =>
             \E d \in H : Ops[d].prev = Ops[c].prev /\ Strength(d) <= Strength(c)
  BY <1>1, StrengthNumber DEF RegistryOK, SignersStored, NoneStronger, Updates
<1>4. ASSUME NEW x \in D
      PROVE  Ops[x].prev \in D
  <2>1. x \in G /\ x \in S /\ x \in Cids /\ x \notin H
    BY <1>1
  <2>2. CASE Creates(x)
    <3>1. r.latest \in Cids
      BY <1>1, <2>1
    <3>2. PICK c \in H : Creates(c)
      BY <3>1, HistoryContinues
    <3>3. c = x
      BY <1>1, <2>1, <2>2, <3>2 DEF OneCreationIn
    <3> QED  BY <2>1, <3>2, <3>3
  <2>3. CASE ~Creates(x)
    <3>1. x \in Updates(S) /\ Ops[x].prev \in G
      BY <1>2, <2>1, <2>3 DEF Updates, Closed
    <3>2. SUFFICES ASSUME Ops[x].prev \in H
                   PROVE  FALSE
      BY <3>1
    <3>3. PICK d \in H : Ops[d].prev = Ops[x].prev /\ Strength(d) <= Strength(x)
      BY <1>3, <3>1, <3>2
    <3>4. d \in Updates(S) /\ Ops[d].prev \in G
      BY <1>1, <2>3, <3>1, <3>3 DEF Updates, Creates
    <3>5. PICK e \in G : Ops[e].prev = Ops[d].prev /\ Strength(e) <= Strength(d)
      BY <1>3, <3>4
    <3>6. e = x
      BY <1>2, <2>1, <3>3, <3>5
    <3>7. Strength(d) = Strength(x)
      <4>1. Strength(d) \in Nat /\ Strength(x) \in Nat
        BY <1>3, <3>1, <3>4
      <4> QED  BY ONLY <3>3, <3>5, <3>6, <4>1
    <3>8. Strength(x) \in Signers(d) \cap Signers(x)
      BY <1>3, <3>1, <3>4, <3>7
    <3>9. d = x
      BY <3>1, <3>3, <3>4, <3>8 DEF OneUpdateEachIn
    <3> QED  BY <2>1, <3>3, <3>9
  <2> QED  BY <2>2, <2>3
<1>5. D = {}
  <2>1. D \in SUBSET Cids
    BY <1>1
  <2> HIDE DEF D
  <2> QED  BY <1>4, <2>1, NoCycle
<1> QED
  BY <1>5

\* And with the history the latest operation.
LEMMA LatestDecided ==
    ASSUME NEW q, RegistryOK(q), NEW r, RegistryOK(r), q.stored = r.stored,
           OneCreationIn(q.stored), OneUpdateEachIn(q.stored)
    PROVE  q.latest = r.latest
<1>1. History[q.latest] \subseteq History[r.latest] /\ History[r.latest] \subseteq History[q.latest]
  BY HistoryDecided
<1>2. /\ q.latest \in Cids \cup {NoCid} /\ r.latest \in Cids \cup {NoCid}
      /\ q.latest \in Cids <=> r.latest \in Cids
  BY OpsAssumption DEF RegistryOK, Rooted
<1>3. CASE q.latest \in Cids
  BY <1>1, <1>2, <1>3, HistoryClosed, HistoryOrders
<1>4. CASE q.latest \notin Cids
  BY <1>2, <1>4
<1> QED
  BY <1>3, <1>4

-----------------------------------------------------------------------------
(***************************************************************************)
(* The registry of each replica.                                           *)
(***************************************************************************)

Adds          == {tx \in workload.calls : tx.call = "add"}
AddedCids(S)  == {tx.cid : tx \in {t \in S : t.call = "add"}}

\* An update is submitted by one call (ReplicasResubmitted.cfg).
AddedOnce == \A a, b \in Adds : a.cid = b.cid /\ ~Creates(a.cid) => a = b

\* The DID is the hash of the operation that creates it.
OneCreation == OneCreationIn(AddedCids(workload.calls))

\* The holder of a key does not sign two updates of one operation (ReplicasTied.cfg).
OneUpdateEach == OneUpdateEachIn(AddedCids(workload.calls))

\* Whoever attests an update has found its signer.
AttestedSigned ==
    \A v \in Validators : \A tx \in attested[v] :
        tx.call = "add" /\ ~Creates(tx.cid) => Signers(tx.cid) # {}

RegistriesOK ==
    \A v \in Validators :
        RegistryOK(storage[v].registry) /\ storage[v].registry.stored = AddedCids(done[v])

RegistryInv == AddedOnce => RegistriesOK

\* add reverts, or leaves to the quorum to reject, what no key may have signed.
LEMMA AttestedSignedSafety == Spec => []AttestedSigned
<1>1. Init => AttestedSigned
  BY DEF Init, AttestedSigned
<1>2. ReplicasTypeOK /\ AttestedSigned /\ [Next]_vars => AttestedSigned'
  <2> SUFFICES ASSUME ReplicasTypeOK, AttestedSigned, [Next]_vars
               PROVE  AttestedSigned'
    OBVIOUS
  <2>1. ASSUME NEW v \in Validators, NEW tx \in workload.calls, Attest(v, tx)
        PROVE  AttestedSigned'
    <3>1. /\ attested' = [attested EXCEPT ![v] = @ \cup {tx}]
          /\ Valid(storage[v], tx) /\ Agreed(storage[v], clock[v], tx)
      BY <2>1 DEF Attest
    <3>2. tx.call = "add" /\ ~Creates(tx.cid) => Signers(tx.cid) # {}
      <4> SUFFICES ASSUME tx.call = "add", ~Creates(tx.cid)
                   PROVE  Signers(tx.cid) # {}
        OBVIOUS
      <4> DEFINE r == storage[v].registry
      <4>1. AddValid(r, tx.cid) /\ AddAgreed(r, tx.cid)
        BY <3>1 DEF Valid, Agreed
      <4> HIDE DEF r
      <4>2. CASE Extends(r, tx.cid)
        BY <4>1, <4>2 DEF AddValid, Signers
      <4>3. CASE ~Extends(r, tx.cid)
        BY <4>1, <4>3 DEF AddAgreed, Stronger, Signers
      <4> QED  BY <4>2, <4>3
    <3>3. attested'[v] = attested[v] \cup {tx} /\ \A w \in Validators : w # v => attested'[w] = attested[w]
      BY <3>1 DEF ReplicasTypeOK
    <3> QED  BY <3>2, <3>3 DEF AttestedSigned
  <2>2. CASE UNCHANGED attested
    BY <2>2 DEF AttestedSigned
  <2> QED
    BY <2>1, <2>2 DEF Next, Execute, Elapse, vars
<1> QED
  BY <1>1, <1>2, ReplicasTypes, PTL DEF Spec

\* A replica executes an update once, after somebody attested it, which is all that add
\* needs to keep the registry in order.
LEMMA RegistriesKept ==
    ASSUME ReplicasTypeOK, InOrder, ExecutedCertified, AttestedSigned, AddedOnce, RegistriesOK,
           [Next]_vars
    PROVE  RegistriesOK'
<1>1. ASSUME NEW v \in Validators, NEW tx \in workload.calls, Execute(v, tx)
      PROVE  RegistriesOK'
  <2>1. /\ done'[v] = done[v] \cup {tx}
        /\ storage'[v] = Applied(storage[v], tx)
        /\ \A w \in Validators : w # v => done'[w] = done[w] /\ storage'[w] = storage[w]
        /\ Expected(v, tx) /\ IsCertified(tx) /\ Valid(storage[v], tx)
    <3>1. /\ done' = [done EXCEPT ![v] = @ \cup {tx}]
          /\ storage' = [storage EXCEPT ![v] = Applied(@, tx)]
          /\ Expected(v, tx) /\ IsCertified(tx) /\ Valid(storage[v], tx)
      BY <1>1 DEF Execute
    <3> QED  BY <3>1 DEF ReplicasTypeOK
  <2>2. /\ tx \notin done[v] /\ IsStorage(storage[v]) /\ IsCall(tx)
        /\ \A t \in done[v] : t \in workload.calls
    BY <2>1, NewCall, ExecutedFinite DEF ReplicasTypeOK
  <2> DEFINE r == storage[v].registry
             q == storage'[v].registry
  <2>3. RegistryOK(r) /\ r.stored = AddedCids(done[v])
    BY DEF RegistriesOK
  <2>4. /\ tx.call = "add" => q = Added(r, tx.cid)
        /\ tx.call # "add" => q = r
    <3>1. /\ tx.call = "add" => Applied(storage[v], tx).registry = Added(storage[v].registry, tx.cid)
          /\ tx.call # "add" => Applied(storage[v], tx).registry = storage[v].registry
      BY <2>2, AppliedParts
    <3> QED  BY ONLY <2>1, <3>1 DEF r, q
  <2> HIDE DEF r, q
  <2>5. RegistryOK(q) /\ q.stored = AddedCids(done'[v])
    <3>1. CASE tx.call = "add"
      <4>1. tx.cid \in Cids /\ AddValid(r, tx.cid)
        BY <2>1, <2>2, <3>1 DEF IsCall, Valid, r
      <4>2. AddedCids(done'[v]) = AddedCids(done[v]) \cup {tx.cid}
        BY <2>1, <3>1 DEF AddedCids
      <4>3. q.stored = r.stored \cup {tx.cid}
        BY <2>3, <2>4, <3>1, <4>1, AddedParts DEF RegistryOK
      <4>4. CASE Creates(tx.cid)
        BY <2>3, <2>4, <3>1, <4>1, <4>2, <4>3, <4>4, CreationKeeps
      <4>5. CASE ~Creates(tx.cid)
        <5>1. tx.cid \notin r.stored
          <6>1. \A t \in done[v] : t.call = "add" => t.cid # tx.cid
            BY <2>2, <3>1, <4>5 DEF AddedOnce, Adds
          <6> QED  BY <2>3, <6>1 DEF AddedCids
        <5>2. Signers(tx.cid) # {}
          <6>1. tx \in Certified
            BY <2>1 DEF Certified
          <6>2. PICK w \in Validators : tx \in attested[w]
            BY <6>1, CallsFinite
          <6> QED  BY <3>1, <4>5, <6>2 DEF AttestedSigned
        <5>3. RegistryOK(Added(r, tx.cid))
          BY <2>3, <4>1, <4>5, <5>1, <5>2, UpdateKeeps
        <5> QED  BY <2>3, <2>4, <3>1, <4>2, <4>3, <5>3
      <4> QED  BY <4>4, <4>5
    <3>2. CASE tx.call # "add"
      <4>1. AddedCids(done'[v]) = AddedCids(done[v])
        BY <2>1, <3>2 DEF AddedCids
      <4> QED  BY <2>3, <2>4, <3>2, <4>1
    <3> QED  BY <3>1, <3>2
  <2>6. \A w \in Validators : w # v =>
            RegistryOK(storage'[w].registry) /\ storage'[w].registry.stored = AddedCids(done'[w])
    BY <2>1 DEF RegistriesOK
  <2>7. \A w \in Validators :
            RegistryOK(storage'[w].registry) /\ storage'[w].registry.stored = AddedCids(done'[w])
    BY <2>5, <2>6 DEF q
  <2> QED  BY <2>7 DEF RegistriesOK
<1>2. CASE UNCHANGED <<done, storage>>
  BY <1>2 DEF RegistriesOK
<1> QED
  BY <1>1, <1>2 DEF Next, Attest, Elapse, vars

\* In workloads that submit an update once, every replica's registry is in order.
LEMMA RegistryInvariance == Spec => []RegistryInv
<1>1. Init => RegistryInv
  <2> SUFFICES ASSUME Init, NEW v \in Validators
               PROVE  /\ RegistryOK(storage[v].registry)
                      /\ storage[v].registry.stored = AddedCids(done[v])
    BY DEF RegistryInv, RegistriesOK
  <2>1. storage[v].registry = EmptyRegistry /\ AddedCids(done[v]) = {}
    BY DEF Init, Genesis, AddedCids
  <2> DEFINE r == EmptyRegistry
             f == [c \in Cids |-> 0]
  <2>2. /\ r.stored = {} /\ r.latest = NoCid /\ r.signerIndices = f /\ History[NoCid] = {}
        /\ r = [stored |-> r.stored, latest |-> r.latest, signerIndices |-> r.signerIndices]
        /\ f = [c \in Cids |-> f[c]]
    <3>1. r = [stored |-> {}, latest |-> NoCid, signerIndices |-> f]
      BY DEF EmptyRegistry
    <3>2. f = [c \in Cids |-> f[c]]
      OBVIOUS
    <3> HIDE DEF r, f
    <3> QED  BY <3>1, <3>2, HistoryUnfolds
  <2> HIDE DEF r, f
  <2>3. RegistryOK(r)
    BY <2>2 DEF RegistryOK, IsRegistry, Rooted, SignersStored, NoneStronger, Updates
  <2> QED  BY <2>1, <2>2, <2>3 DEF r
<1>2. ReplicasTypeOK /\ InOrder /\ ExecutedCertified /\ AttestedSigned /\ RegistryInv /\ [Next]_vars
      => RegistryInv'
  <2> SUFFICES ASSUME ReplicasTypeOK, InOrder, ExecutedCertified, AttestedSigned, RegistryInv,
                      [Next]_vars, AddedOnce'
               PROVE  RegistriesOK'
    BY DEF RegistryInv
  <2>1. workload' = workload
    BY CertifiedGrows
  <2>2. AddedOnce
    BY <2>1 DEF AddedOnce, Adds
  <2> QED  BY <2>2, RegistriesKept DEF RegistryInv
<1> QED
  BY <1>1, <1>2, ReplicasTypes, InOrderSafety, ExecutedCertifiedSafety, AttestedSignedSafety,
     PTL DEF Spec

\* The operation with the stronger key prevails at every replica, in whichever order the
\* replica adds them.
THEOREM StrongestWinsSafety == Spec => [](AddedOnce => StrongestWins)
<1>1. RegistryInv /\ ReplicasTypeOK => (AddedOnce => StrongestWins)
  <2> SUFFICES ASSUME RegistriesOK, NEW v \in Validators,
                      NEW s \in {tx \in done[v] : tx.call = "add"},
                      NEW t \in {tx \in done[v] : tx.call = "add"},
                      ~Creates(s.cid), Ops[s.cid].prev = Ops[t.cid].prev,
                      StrongerKey(s.cid, t.cid)
               PROVE  t.cid \notin History[storage[v].registry.latest]
    BY DEF RegistryInv, StrongestWins
  <2> DEFINE r == storage[v].registry
  <2>1. RegistryOK(r) /\ s.cid \in r.stored /\ t.cid \in r.stored
    BY DEF RegistriesOK, AddedCids
  <2>2. s.cid \in Updates(r.stored) /\ t.cid \in Updates(r.stored)
    BY <2>1 DEF Updates, Creates
  <2>3. Strength(s.cid) < Strength(t.cid)
    BY DEF StrongerKey, Strength, Signers
  <2> HIDE DEF r
  <2>4. t.cid \notin History[r.latest]
    BY <2>1, <2>2, <2>3, StrongestPrevails
  <2> QED  BY <2>4 DEF r
<1> QED
  BY <1>1, ReplicasTypes, RegistryInvariance, PTL

\* All that the replicas show converges, where a token is minted once and does not return
\* to its minter, and a registry's updates are submitted once, each of another key, after
\* one creation.
THEOREM ConvergedSafety ==
    Spec => [](/\ MintedOnce /\ NoneReturned
               /\ AddedOnce /\ OneCreation /\ OneUpdateEach
               => Converged)
<1>1. Init => NftInv
  <2> SUFFICES ASSUME Init
               PROVE  NftAsExecuted
    BY DEF NftInv
  <2>1. Genesis.nft = [u \in Users |-> 0]
    BY DEF Genesis
  <2>2. \A u : Gained(u, {}) = {} /\ Lost(u, {}) = {} /\ Cardinality({}) = 0
    BY FS_EmptySet DEF Gained, Received, Mints, Lost
  <2>3. NftAfter({}) = [u \in Users |-> 0]
    BY <2>2 DEF NftAfter
  <2> QED  BY <2>1, <2>3 DEF Init, NftAsExecuted
<1>2. ReplicasTypeOK /\ InOrder /\ OwnerInv' /\ NftInv /\ [Next]_vars => NftInv'
  <2> SUFFICES ASSUME ReplicasTypeOK, InOrder, OwnerInv', NftInv, [Next]_vars,
                      MintedOnce', NoneReturned'
               PROVE  NftAsExecuted'
    BY DEF NftInv
  <2>1. workload' = workload
    BY CertifiedGrows
  <2>2. MintedOnce /\ NoneReturned /\ MintFirst'
    BY <2>1 DEF MintedOnce, NoneReturned, OwnerInv
  <2> QED  BY <2>2, NftAsExecutedKept DEF NftInv
<1>3. ReplicasTypeOK /\ ContractsConverged /\ NftInv /\ RegistryInv
      => (/\ MintedOnce /\ NoneReturned
          /\ AddedOnce /\ OneCreation /\ OneUpdateEach
          => Converged)
  <2> SUFFICES ASSUME ReplicasTypeOK, ContractsConverged, NftAsExecuted, RegistriesOK,
                      OneCreation, OneUpdateEach,
                      NEW v \in Validators, NEW w \in Validators, done[v] = done[w]
               PROVE  Observable(storage[v]) = Observable(storage[w])
    BY DEF NftInv, RegistryInv, Converged
  <2>1. storage[v].nft = storage[w].nft
    BY DEF NftAsExecuted
  <2> DEFINE q == storage[v].registry
             r == storage[w].registry
  <2>2. /\ RegistryOK(q) /\ RegistryOK(r) /\ q.stored = r.stored
        /\ q.stored \subseteq AddedCids(workload.calls)
    <3>1. RegistryOK(q) /\ q.stored = AddedCids(done[v])
      BY DEF RegistriesOK
    <3>2. RegistryOK(r) /\ r.stored = AddedCids(done[v])
      BY DEF RegistriesOK
    <3>3. AddedCids(done[v]) \subseteq AddedCids(workload.calls)
      BY DEF ReplicasTypeOK, AddedCids
    <3> HIDE DEF q, r
    <3> QED  BY <3>1, <3>2, <3>3
  <2> HIDE DEF q, r
  <2>3. OneCreationIn(q.stored) /\ OneUpdateEachIn(q.stored)
    BY <2>2 DEF OneCreation, OneUpdateEach, OneCreationIn, OneUpdateEachIn, Updates
  <2>4. q.latest = r.latest
    BY <2>2, <2>3, LatestDecided
  <2> QED  BY <2>1, <2>4 DEF ContractsConverged, Observable, q, r
<1> QED
  BY <1>1, <1>2, <1>3, ReplicasTypes, InOrderSafety, OwnerInvariance, ContractsConvergedSafety,
     RegistryInvariance, PTL DEF Spec
=============================================================================
