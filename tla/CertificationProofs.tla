------------------------ MODULE CertificationProofs ------------------------
(***************************************************************************)
(* Why a certificate can be relied on: every signature of an honest        *)
(* validator is over the receipt it computed (HonestSignatures is          *)
(* inductive), and quorums are too large to do without honest validators.  *)
(* Why a log can: the tree of a receipt has one root per list of leaves,   *)
(* and no path leads to it from elsewhere; what is generated as a proof or *)
(* a multi-proof is accepted, for its leaves and no others.  Why the       *)
(* client and the chain take the same signatures: a finite set of numbers  *)
(* can be listed in their order.                                           *)
(***************************************************************************)
EXTENDS CertifiedLogs, ReceiptProofs, Lemmas

\* Every step keeps the types of what validators sign and the node collects.
THEOREM CertificationTypes == CertificationSpec => []CertificationTypeOK
<1>1. CertificationInit => CertificationTypeOK
  BY DEF CertificationInit, CertificationTypeOK
<1>2. CertificationTypeOK /\ [CertificationNext]_certificationVars => CertificationTypeOK'
  <2> SUFFICES ASSUME CertificationTypeOK, [CertificationNext]_certificationVars
               PROVE  CertificationTypeOK'
    OBVIOUS
  <2> DEFINE A == [signer : Validators \cup {NoAddress}, digest : Digests]
  <2>0. collected \in Seq(A) /\ signed \in [Honest -> Receipts \cup {Unsigned}]
    BY DEF CertificationTypeOK
  <2>1. ASSUME NEW v \in Validators \cup {NoAddress}, NEW r \in Receipts
        PROVE  Signature(v, r) \in A
    BY DEF Signature, Digests
  <2>2. ASSUME NEW a \in A, Collect(a)
        PROVE  collected' \in Seq(A)
    <3> HIDE DEF A
    <3> QED  BY <2>0, <2>2 DEF Collect
  <2>3. ASSUME NEW r \in Receipts, NEW v \in Honest, Attest(v, r)
        PROVE  CertificationTypeOK'
    <3>1. Signature(v, r) \in A
      BY <2>1 DEF Honest
    <3>2. collected' \in Seq(A)
      BY <2>2, <2>3, <3>1 DEF Attest
    <3>3. signed' \in [Honest -> Receipts \cup {Unsigned}]
      BY <2>0, <2>3 DEF Attest
    <3> QED  BY <3>2, <3>3 DEF CertificationTypeOK
  <2>4. ASSUME NEW r \in Receipts, NEW v \in Faulty, AttestFaulty(v, r)
        PROVE  CertificationTypeOK'
    <3>1. Signature(v, r) \in A
      BY <2>1, CertificationAssumption
    <3>2. collected' \in Seq(A)
      BY <2>2, <2>4, <3>1 DEF AttestFaulty
    <3> QED  BY <2>0, <2>4, <3>2 DEF CertificationTypeOK, AttestFaulty
  <2>5. ASSUME NEW r \in Receipts, AttestStranger(r)
        PROVE  CertificationTypeOK'
    <3>1. Signature(NoAddress, r) \in A
      BY <2>1, CertificationAssumption
    <3>2. collected' \in Seq(A)
      BY <2>2, <2>5, <3>1 DEF AttestStranger
    <3> QED  BY <2>0, <2>5, <3>2 DEF CertificationTypeOK, AttestStranger
  <2>6. ASSUME NEW i \in DOMAIN collected, Redeliver(i)
        PROVE  CertificationTypeOK'
    <3>1. collected[i] \in A
      <4> HIDE DEF A
      <4> QED  BY <2>0
    <3>2. collected' \in Seq(A)
      BY <2>2, <2>6, <3>1 DEF Redeliver
    <3> QED  BY <2>0, <2>6, <3>2 DEF CertificationTypeOK, Redeliver
  <2>7. CASE UNCHANGED certificationVars
    BY <2>7 DEF CertificationTypeOK, certificationVars
  <2> QED
    BY <2>3, <2>4, <2>5, <2>6, <2>7 DEF CertificationNext
<1> QED
  BY <1>1, <1>2, PTL DEF CertificationSpec

\* What is collected keeps its place; only a new signature joins at the end.
LEMMA Collected ==
    ASSUME NEW S, NEW a \in S, collected \in Seq(S), Collect(a)
    PROVE  \A i \in DOMAIN collected' :
               \/ i \in DOMAIN collected /\ collected'[i] = collected[i]
               \/ collected'[i] = a
  BY DEF Collect

\* HonestSignatures is inductive: an honest validator signs once, what it computed;
\* faulty validators, strangers and repetitions add no signature of its own making.
THEOREM HonestSignaturesInvariance == CertificationSpec => []HonestSignatures
<1>1. CertificationInit => HonestSignatures
  BY DEF CertificationInit, HonestSignatures
<1>2. CertificationTypeOK /\ HonestSignatures /\ [CertificationNext]_certificationVars
        => HonestSignatures'
  <2> SUFFICES ASSUME CertificationTypeOK, HonestSignatures,
                      [CertificationNext]_certificationVars
               PROVE  HonestSignatures'
    OBVIOUS
  <2> DEFINE A == [signer : Validators \cup {NoAddress}, digest : Digests]
             Sound(b) == b.signer \in Honest =>
                            /\ signed[b.signer] # Unsigned
                            /\ b.digest = Digest[signed[b.signer]]
  <2>0. /\ collected \in Seq(A) /\ signed \in [Honest -> Receipts \cup {Unsigned}]
        /\ \A i \in DOMAIN collected : Sound(collected[i])
    BY DEF CertificationTypeOK, HonestSignatures
  <2>1. ASSUME NEW b \in A, Collect(b), Sound(b), UNCHANGED signed
        PROVE  HonestSignatures'
    <3> HIDE DEF A
    <3>1. \A i \in DOMAIN collected' :
             \/ i \in DOMAIN collected /\ collected'[i] = collected[i]
             \/ collected'[i] = b
      BY <2>0, <2>1, Collected
    <3>2. \A i \in DOMAIN collected' : Sound(collected'[i])
      BY <2>0, <2>1, <3>1
    <3> QED  BY <2>1, <3>2 DEF HonestSignatures
  <2>2. ASSUME NEW r \in Receipts, NEW v \in Honest, Attest(v, r)
        PROVE  HonestSignatures'
    <3> DEFINE b == Signature(v, r)
    <3>1. /\ b \in A /\ b.signer = v /\ b.digest = Digest[r]
          /\ Collect(b) /\ signed[v] = Unsigned /\ signed' = [signed EXCEPT ![v] = r]
      BY <2>2 DEF Signature, Digests, Attest, Honest
    <3> HIDE DEF A, b
    <3>2. \A i \in DOMAIN collected' :
             \/ i \in DOMAIN collected /\ collected'[i] = collected[i]
             \/ collected'[i] = b
      BY <2>0, <3>1, Collected
    <3>3. signed'[v] = r /\ r # Unsigned
      BY <2>0, <3>1, CertificationAssumption
    <3>4. ASSUME NEW i \in DOMAIN collected', collected'[i].signer \in Honest
          PROVE  LET w == collected'[i].signer
                 IN signed'[w] # Unsigned /\ collected'[i].digest = Digest[signed'[w]]
      <4>1. CASE collected'[i] = b
        BY <3>1, <3>3, <4>1
      <4>2. CASE i \in DOMAIN collected /\ collected'[i] = collected[i]
        <5>1. signed[collected[i].signer] # Unsigned
          BY <2>0, <3>4, <4>2
        <5>2. collected[i].signer # v
          BY <3>1, <5>1
        <5>3. signed'[collected[i].signer] = signed[collected[i].signer]
          BY <2>0, <3>1, <3>4, <4>2, <5>2
        <5> QED  BY <2>0, <3>4, <4>2, <5>3
      <4> QED  BY <3>2, <4>1, <4>2
    <3> QED  BY <3>4 DEF HonestSignatures
  <2>3. ASSUME NEW r \in Receipts, NEW v \in Faulty, AttestFaulty(v, r)
        PROVE  HonestSignatures'
    <3>1. Signature(v, r) \in A /\ Sound(Signature(v, r))
      BY CertificationAssumption DEF Signature, Digests, Honest
    <3> QED  BY <2>1, <2>3, <3>1 DEF AttestFaulty
  <2>4. ASSUME NEW r \in Receipts, AttestStranger(r)
        PROVE  HonestSignatures'
    <3>1. Signature(NoAddress, r) \in A /\ Sound(Signature(NoAddress, r))
      BY CertificationAssumption DEF Signature, Digests, Honest
    <3> QED  BY <2>1, <2>4, <3>1 DEF AttestStranger
  <2>5. ASSUME NEW i \in DOMAIN collected, Redeliver(i)
        PROVE  HonestSignatures'
    <3>1. collected[i] \in A
      <4> HIDE DEF A
      <4> QED  BY <2>0
    <3>2. Sound(collected[i])
      BY <2>0
    <3> QED  BY <2>1, <2>5, <3>1, <3>2 DEF Redeliver
  <2>6. CASE UNCHANGED certificationVars
    BY <2>6 DEF HonestSignatures, certificationVars
  <2> QED
    BY <2>2, <2>3, <2>4, <2>5, <2>6 DEF CertificationNext
<1> QED
  BY <1>1, <1>2, CertificationTypes, PTL DEF CertificationSpec

-----------------------------------------------------------------------------
\* More members than there are faulty validators leave one that is honest.
LEMMA HonestMember ==
    ASSUME NEW S \in SUBSET Validators, Cardinality(S) > Cardinality(Faulty)
    PROVE  \E v \in S : v \in Honest
<1>1. IsFiniteSet(Faulty)
  BY CertificationAssumption, FS_Subset
<1>2. ASSUME S \subseteq Faulty
      PROVE  FALSE
  <2>1. Cardinality(S) <= Cardinality(Faulty)
    BY <1>1, <1>2, FS_Subset
  <2>2. IsFiniteSet(S)
    BY CertificationAssumption, FS_Subset
  <2>3. Cardinality(S) \in Nat /\ Cardinality(Faulty) \in Nat
    BY <1>1, <2>2, FS_CardinalityType
  <2> QED  BY <2>1, <2>3
<1> QED
  BY <1>2 DEF Honest

\* Two quorums have an honest validator in common.
LEMMA HonestOverlap ==
    ASSUME NEW S \in SUBSET Validators, Cardinality(S) >= QuorumSize,
           NEW T \in SUBSET Validators, Cardinality(T) >= QuorumSize
    PROVE  \E v \in S \cap T : v \in Honest
<1>1. /\ IsFiniteSet(S) /\ IsFiniteSet(T) /\ IsFiniteSet(S \cup T) /\ IsFiniteSet(S \cap T)
      /\ IsFiniteSet(Faulty)
  <2>1. S \cup T \in SUBSET Validators /\ S \cap T \in SUBSET Validators
    OBVIOUS
  <2> QED  BY <2>1, CertificationAssumption, FS_Subset
<1>2. Cardinality(S \cup T) = Cardinality(S) + Cardinality(T) - Cardinality(S \cap T)
  BY <1>1, FS_Union
<1>3. Cardinality(S \cup T) <= Cardinality(Validators)
  <2>1. S \cup T \in SUBSET Validators
    OBVIOUS
  <2> QED  BY <2>1, CertificationAssumption, FS_Subset
<1>4. /\ Cardinality(S) \in Nat /\ Cardinality(T) \in Nat /\ Cardinality(S \cup T) \in Nat
      /\ Cardinality(S \cap T) \in Nat /\ Cardinality(Validators) \in Nat
      /\ Cardinality(Faulty) \in Nat
  BY <1>1, CertificationAssumption, FS_CardinalityType
<1>5. Cardinality(S \cap T) > Cardinality(Faulty)
  <2> HIDE DEF Honest
  <2> QED  BY <1>2, <1>3, <1>4, CertificationAssumption
<1> QED
  BY <1>5, HonestMember

\* An honest validator among the recovered signers of a digest computed a receipt
\* with that digest.
LEMMA HonestSignerComputed ==
    ASSUME HonestSignatures, NEW digest, NEW v \in Honest,
           v \in RecoveredSigners(TheCommittee, digest, collected)
    PROVE  signed[v] # Unsigned /\ Digest[signed[v]] = digest
<1>1. PICK i \in DOMAIN collected : Recover(collected[i], digest) = v
  BY DEF RecoveredSigners
<1>2. v # NoAddress
  BY CertificationAssumption DEF Honest
<1>3. collected[i].digest = digest /\ collected[i].signer = v
  BY <1>1, <1>2 DEF Recover
<1> QED
  BY <1>3 DEF HonestSignatures

\* The signers recovered from a certificate of a receipt are a quorum of the committee.
LEMMA QuorumOfSigners ==
    ASSUME NEW digest, Certified(digest)
    PROVE  LET S == RecoveredSigners(TheCommittee, digest, collected)
           IN  S \in SUBSET Validators /\ Cardinality(S) >= QuorumSize
  BY DEF Certified, VerifyAggregateAttestation, RecoveredSigners, TheCommittee

\* One certified outcome, for every committee in which two quorums share an honest
\* validator, every number of signatures and any order and repetition of them.
THEOREM OneOutcomeSafety == CertificationSpec => []OneOutcome
<1>1. HonestSignatures => OneOutcome
  <2> SUFFICES ASSUME HonestSignatures, NEW digest1 \in Digests, NEW digest2 \in Digests,
                      Certified(digest1), Certified(digest2)
               PROVE  digest1 = digest2
    BY DEF OneOutcome
  <2> DEFINE S1 == RecoveredSigners(TheCommittee, digest1, collected)
             S2 == RecoveredSigners(TheCommittee, digest2, collected)
  <2>1. /\ S1 \in SUBSET Validators /\ Cardinality(S1) >= QuorumSize
        /\ S2 \in SUBSET Validators /\ Cardinality(S2) >= QuorumSize
    BY QuorumOfSigners
  <2>2. PICK v \in S1 \cap S2 : v \in Honest
    <3> HIDE DEF S1, S2
    <3> QED  BY <2>1, HonestOverlap
  <2> QED
    BY <2>2, HonestSignerComputed
<1> QED
  BY <1>1, HonestSignaturesInvariance, PTL

\* A certified receipt was computed by an honest validator.
THEOREM CertifiedWasComputedSafety == CertificationSpec => []CertifiedWasComputed
<1>1. HonestSignatures => CertifiedWasComputed
  <2> SUFFICES ASSUME HonestSignatures, NEW digest \in Digests, Certified(digest)
               PROVE  \E v \in Honest : signed[v] # Unsigned /\ Digest[signed[v]] = digest
    BY DEF CertifiedWasComputed
  <2> DEFINE S == RecoveredSigners(TheCommittee, digest, collected)
  <2>1. S \in SUBSET Validators /\ Cardinality(S) >= QuorumSize
    BY QuorumOfSigners
  <2>2. IsFiniteSet(S) /\ IsFiniteSet(Faulty)
    <3> HIDE DEF S
    <3> QED  BY <2>1, CertificationAssumption, FS_Subset
  <2>3. Cardinality(S) \in Nat /\ Cardinality(Faulty) \in Nat
    <3> HIDE DEF S
    <3> QED  BY <2>2, FS_CardinalityType
  <2>4. Cardinality(S) > Cardinality(Faulty)
    <3> HIDE DEF S
    <3> QED  BY <2>1, <2>3, CertificationAssumption
  <2>5. PICK v \in S : v \in Honest
    <3> HIDE DEF S
    <3> QED  BY <2>1, <2>4, HonestMember
  <2> QED
    BY <2>5, HonestSignerComputed
<1> QED
  BY <1>1, HonestSignaturesInvariance, PTL

-----------------------------------------------------------------------------
\* An aggregate signature that the contract would accept, with the weight of a quorum,
\* passes the committee of the SDK: for every committee of addresses.
THEOREM ChainImpliesClient ==
    ASSUME NEW committee, committee.quorum_size \in Nat,
           committee.validators \subseteq Nat,
           NEW digest, NEW Sigs, NEW signatures \in Seq(Sigs),
           SignaturesOK([i \in DOMAIN signatures |-> Recover(signatures[i], digest)],
                              committee.validators),
           ComputeTxWeight([i \in DOMAIN signatures |-> Recover(signatures[i], digest)])
               >= committee.quorum_size
    PROVE  VerifyAggregateAttestation(committee, digest, signatures)
<1> DEFINE n == Len(signatures)
           list == [i \in DOMAIN signatures |-> Recover(signatures[i], digest)]
           S == RecoveredSigners(committee, digest, signatures)
<1>1. DOMAIN signatures = 1 .. n /\ n \in Nat
  OBVIOUS
<1>2. list \in Seq(Nat) /\ Len(list) = n /\ DOMAIN list = 1 .. n
  <2>1. \A i \in 1 .. n : Recover(signatures[i], digest) \in Nat
    BY <1>1 DEF SignaturesOK
  <2> QED  BY <1>1, <2>1
<1>3. n >= committee.quorum_size
  BY <1>2 DEF ComputeTxWeight
<1>4. \A i \in 1 .. n : list[i] \in committee.validators
  BY <1>2 DEF SignaturesOK
<1>5. S = {list[i] : i \in DOMAIN list}
  BY <1>1, <1>4 DEF RecoveredSigners
<1>6. Cardinality(S) = n
  <2> HIDE DEF list, S, n
  <2> QED  BY <1>2, <1>5, SignersCounted DEF ComputeTxWeight, list
<1> QED
  BY <1>3, <1>6 DEF VerifyAggregateAttestation

-----------------------------------------------------------------------------
\* Hashing along a path

\* r[k] is the hash after the first k hashes of a path were joined to b.
IsHashed(r, b, path) ==
    /\ DOMAIN r = 0 .. Len(path)
    /\ r[0] = b
    /\ \A k \in 1 .. Len(path) : r[k] = HashPair(r[k - 1], path[k])

\* w gives the hash after the hashes at every part of 1 .. n, by the recursion FoldLeft is.
IsFold(w, n, b, path) ==
    w = [T \in SUBSET (1 .. n) |-> IF T = {} THEN b ELSE HashPair(w[T \ {Max(T)}], path[Max(T)])]

\* The fold of VerifyProof goes through the hashes r[0], ..., r[Len(path)].
LEMMA HashesDefined ==
    ASSUME NEW n \in Nat, NEW b, NEW path
    PROVE  \E w : IsFold(w, n, b, path)
<1> DEFINE K == {k \in Nat : \E w : IsFold(w, k, b, path)}
<1>1. 0 \in K
  <2>1. \A T \in SUBSET (1 .. 0) : T = {}
    OBVIOUS
  <2>2. IsFold([T \in SUBSET (1 .. 0) |-> b], 0, b, path)
    BY <2>1 DEF IsFold
  <2> QED  BY <2>2
<1>2. ASSUME NEW k \in 0 .. n - 1, k \in K
      PROVE  k + 1 \in K
  <2>1. PICK g : IsFold(g, k, b, path)
    BY <1>2
  <2> DEFINE h == [T \in SUBSET (1 .. k + 1) |->
                     IF T = {} THEN b ELSE HashPair(g[T \ {Max(T)}], path[Max(T)])]
  <2>2. ASSUME NEW T \in SUBSET (1 .. k + 1), T # {}
        PROVE  T \ {Max(T)} \in SUBSET (1 .. k)
    BY <2>2, WithoutLargest
  <2>3. \A T \in SUBSET (1 .. k) : h[T] = g[T]
    <3>1. \A T \in SUBSET (1 .. k) : T \in SUBSET (1 .. k + 1)
      OBVIOUS
    <3> QED  BY <2>1, <3>1 DEF IsFold
  <2>4. ASSUME NEW T \in SUBSET (1 .. k + 1), T # {}
        PROVE  h[T] = HashPair(h[T \ {Max(T)}], path[Max(T)])
    <3>1. h[T] = HashPair(g[T \ {Max(T)}], path[Max(T)])
      BY <2>4
    <3> HIDE DEF h
    <3> QED  BY <2>2, <2>3, <2>4, <3>1
  <2>5. IsFold(h, k + 1, b, path)
    BY <2>4 DEF IsFold
  <2> HIDE DEF h
  <2>6. k + 1 \in Nat
    OBVIOUS
  <2> QED  BY <2>5, <2>6
<1> HIDE DEF K
<1>3. \A k \in 0 .. n : k \in K
  BY <1>1, <1>2, UpTo
<1>4. n \in 0 .. n
  OBVIOUS
<1>5. n \in K
  BY <1>3, <1>4
<1> QED
  BY ONLY <1>5 DEF K

LEMMA HashedAlong ==
    ASSUME NEW n \in Nat, NEW b, NEW path, DOMAIN path = 1 .. n, Len(path) = n
    PROVE  \E r : IsHashed(r, b, path) /\ FoldLeft(HashPair, b, path) = r[n]
<1> DEFINE iter == CHOOSE iter : IsFold(iter, n, b, path)
           r == [k \in 0 .. n |-> iter[1 .. k]]
<1>1. FoldLeft(HashPair, b, path) = iter[DOMAIN path]
  BY DEF FoldLeft, MapThenFoldSet, IsFold
<1>2. IsFold(iter, n, b, path)
  <2>1. \E w : IsFold(w, n, b, path)
    BY ONLY n \in Nat, HashesDefined
  <2> QED  BY <2>1
<1> HIDE DEF iter
<1>3. r[0] = b
  <2>1. 1 .. 0 = {} /\ {} \in SUBSET (1 .. n) /\ 0 \in 0 .. n
    OBVIOUS
  <2> QED  BY <1>2, <2>1 DEF IsFold
<1>4. ASSUME NEW k \in 1 .. n
      PROVE  r[k] = HashPair(r[k - 1], path[k])
  <2>1. /\ 1 .. k \in SUBSET (1 .. n) /\ 1 .. k # {}
        /\ Max(1 .. k) = k /\ (1 .. k) \ {Max(1 .. k)} = 1 .. k - 1
    BY ONLY n \in Nat, k \in 1 .. n, LoopPrefixes
  <2>2. k \in 0 .. n /\ k - 1 \in 0 .. n
    OBVIOUS
  <2>3. iter[1 .. k] = HashPair(iter[1 .. k - 1], path[k])
    BY <1>2, <2>1 DEF IsFold
  <2> QED  BY <2>2, <2>3
<1>5. FoldLeft(HashPair, b, path) = r[n] /\ DOMAIN r = 0 .. n
  BY <1>1
<1> HIDE DEF r
<1> QED
  BY <1>3, <1>4, <1>5 DEF IsHashed

\* A longer path is hashed by hashing along its first element, then along the rest.
LEMMA HashedFromFront ==
    ASSUME NEW H, NEW path \in Seq(H), NEW x \in H, NEW b
    PROVE  FoldLeft(HashPair, b, <<x>> \o path) = FoldLeft(HashPair, HashPair(b, x), path)
<1> DEFINE n == Len(path)
           longer == <<x>> \o path
           c == HashPair(b, x)
<1>1. /\ n \in Nat /\ DOMAIN path = 1 .. n /\ Len(longer) = n + 1 /\ DOMAIN longer = 1 .. n + 1
      /\ longer[1] = x /\ \A k \in 1 .. n : longer[k + 1] = path[k] /\ Len(path) = n
  OBVIOUS
<1> HIDE DEF longer, c, n
<1>2. PICK s : IsHashed(s, c, path) /\ FoldLeft(HashPair, c, path) = s[n]
  BY ONLY <1>1, HashedAlong
<1>3. PICK r : IsHashed(r, b, longer) /\ FoldLeft(HashPair, b, longer) = r[n + 1]
  <2>1. n + 1 \in Nat
    BY <1>1
  <2> QED  BY ONLY <1>1, <2>1, HashedAlong
<1> DEFINE S == {k \in 0 .. n : r[k + 1] = s[k]}
<1>4. 0 \in S
  <2>1. 1 \in 1 .. n + 1 /\ 0 \in 0 .. n /\ 1 - 1 = 0
    BY <1>1
  <2>2. r[1] = HashPair(r[0], longer[1]) /\ r[0] = b
    BY <1>1, <1>3, <2>1 DEF IsHashed
  <2>3. s[0] = c
    BY <1>2 DEF IsHashed
  <2> QED  BY <1>1, <2>1, <2>2, <2>3 DEF c
<1>5. ASSUME NEW k \in 0 .. n - 1, k \in S
      PROVE  k + 1 \in S
  <2>1. k + 1 \in 1 .. n /\ k + 1 \in 0 .. n /\ (k + 1) + 1 \in 1 .. n + 1
        /\ ((k + 1) + 1) - 1 = k + 1 /\ (k + 1) - 1 = k
    BY <1>1
  <2>2. r[(k + 1) + 1] = HashPair(r[k + 1], longer[(k + 1) + 1])
    BY <1>1, <1>3, <2>1 DEF IsHashed
  <2>3. s[k + 1] = HashPair(s[k], path[k + 1])
    BY <1>1, <1>2, <2>1 DEF IsHashed
  <2> QED  BY <1>1, <1>5, <2>1, <2>2, <2>3
<1> HIDE DEF S
<1>6. \A k \in 0 .. n : k \in S
  BY <1>1, <1>4, <1>5, UpTo
<1>7. n \in S
  BY <1>1, <1>6
<1> QED
  BY <1>2, <1>3, <1>7 DEF S, longer, c, n

\* Hashing with the same hash tells different hashes apart.
LEMMA HashPairInjective ==
    ASSUME NEW a, NEW b, NEW x, HashPair(a, x) = HashPair(b, x)
    PROVE  a = b
<1>1. HashPair(a, x).pair = {a, x} /\ HashPair(b, x).pair = {b, x}
  BY DEF HashPair
<1>2. {a, x} = {b, x}
  BY <1>1
<1> QED
  BY <1>2

\* One path leads from different hashes to different hashes.
LEMMA HashedInjective ==
    ASSUME NEW H, NEW path \in Seq(H), NEW a, NEW b,
           FoldLeft(HashPair, a, path) = FoldLeft(HashPair, b, path)
    PROVE  a = b
<1> DEFINE n == Len(path)
<1>1. n \in Nat /\ DOMAIN path = 1 .. n
  OBVIOUS
<1>2. PICK r : IsHashed(r, a, path) /\ FoldLeft(HashPair, a, path) = r[n]
  BY <1>1, HashedAlong
<1>3. PICK s : IsHashed(s, b, path) /\ FoldLeft(HashPair, b, path) = s[n]
  BY <1>1, HashedAlong
<1> DEFINE S == {k \in 0 .. n : r[n - k] = s[n - k]}
<1>4. 0 \in S
  <2>1. n - 0 = n /\ 0 \in 0 .. n
    BY <1>1
  <2> QED  BY <1>2, <1>3, <2>1
<1>5. ASSUME NEW k \in 0 .. n - 1, k \in S
      PROVE  k + 1 \in S
  <2>1. n - k \in 1 .. n /\ (n - k) - 1 = n - (k + 1) /\ k + 1 \in 0 .. n
    BY <1>1
  <2>2. /\ r[n - k] = HashPair(r[n - (k + 1)], path[n - k])
        /\ s[n - k] = HashPair(s[n - (k + 1)], path[n - k])
    BY <1>1, <1>2, <1>3, <2>1 DEF IsHashed
  <2>3. r[n - (k + 1)] = s[n - (k + 1)]
    BY <1>5, <2>2, HashPairInjective
  <2> QED  BY <2>1, <2>3
<1> HIDE DEF S
<1>6. \A k \in 0 .. n : k \in S
  BY <1>1, <1>4, <1>5, UpTo
<1>7. r[0] = s[0]
  <2>1. n \in 0 .. n /\ n - n = 0
    BY <1>1
  <2> QED  BY <1>6, <2>1 DEF S
<1> QED
  BY <1>2, <1>3, <1>7 DEF IsHashed

-----------------------------------------------------------------------------
\* The tree of a list of leaves

\* What NewTree computes: the leaves from the back, above them the hash of two children.
IsTree(tree, leaves) ==
    LET n == Len(leaves)
    IN /\ DOMAIN tree = 0 .. 2 * n - 2
       /\ \A i \in n - 1 .. 2 * n - 2 : tree[i] = leaves[2 * n - 1 - i]
       /\ \A i \in 0 .. n - 2 : tree[i] = HashPair(tree[LeftChild(i)], tree[RightChild(i)])

\* The part of the tree from place m on, by the recursion of NewTree.
IsTreeFrom(w, m, leaves) ==
    LET n == Len(leaves)
    IN w = [i \in m .. (IF n = 0 THEN 0 ELSE 2 * n - 2) |->
              IF n = 0 THEN DefaultHash
              ELSE IF i >= n - 1 THEN leaves[2 * n - 1 - i]
              ELSE HashPair(w[LeftChild(i)], w[RightChild(i)])]

\* There is such a tree: it is put together from the last place to the root.
LEMMA TreeDefined ==
    ASSUME NEW leaves, Len(leaves) \in Nat \ {0}
    PROVE  \E w : IsTreeFrom(w, 0, leaves)
<1> DEFINE n == Len(leaves)
           K == {k \in 0 .. n - 1 : \E w : IsTreeFrom(w, n - 1 - k, leaves)}
<1>1. n \in Nat \ {0} /\ n # 0
  OBVIOUS
<1>2. 0 \in K
  <2> DEFINE w == [i \in n - 1 .. 2 * n - 2 |-> leaves[2 * n - 1 - i]]
  <2>1. IsTreeFrom(w, n - 1 - 0, leaves)
    BY <1>1 DEF IsTreeFrom
  <2> QED  BY <1>1, <2>1
<1>3. ASSUME NEW k \in 0 .. n - 2, k \in K
      PROVE  k + 1 \in K
  <2>1. PICK g : IsTreeFrom(g, n - 1 - k, leaves)
    BY <1>3
  <2> DEFINE m == n - 1 - (k + 1)
             w == [i \in m .. 2 * n - 2 |->
                     IF i >= n - 1 THEN leaves[2 * n - 1 - i]
                     ELSE HashPair(g[LeftChild(i)], g[RightChild(i)])]
  <2>2. m \in 0 .. n - 2 /\ n - 1 - k = m + 1 /\ k + 1 \in 0 .. n - 1
    BY <1>1
  <2>3. \A i \in m + 1 .. 2 * n - 2 : w[i] = g[i]
    <3> TAKE i \in m + 1 .. 2 * n - 2
    <3>1. i \in m .. 2 * n - 2 /\ i \in n - 1 - k .. 2 * n - 2
      BY <1>1, <2>2
    <3>2. g[i] = IF i >= n - 1 THEN leaves[2 * n - 1 - i]
                 ELSE HashPair(g[LeftChild(i)], g[RightChild(i)])
      BY <1>1, <2>1, <3>1 DEF IsTreeFrom
    <3> QED  BY <3>1, <3>2
  <2>4. \A i \in m .. n - 2 : LeftChild(i) \in m + 1 .. 2 * n - 2 /\ RightChild(i) \in m + 1 .. 2 * n - 2
    BY <1>1, <2>2 DEF LeftChild, RightChild
  <2>5. ASSUME NEW i \in m .. 2 * n - 2, ~ (i >= n - 1)
        PROVE  w[i] = HashPair(w[LeftChild(i)], w[RightChild(i)])
    <3>1. i \in m .. n - 2
      BY <1>1, <2>2, <2>5
    <3>2. w[i] = HashPair(g[LeftChild(i)], g[RightChild(i)])
      BY <2>5
    <3> HIDE DEF w
    <3> QED  BY <2>3, <2>4, <3>1, <3>2
  <2>6. w = [i \in m .. 2 * n - 2 |->
               IF i >= n - 1 THEN leaves[2 * n - 1 - i]
               ELSE HashPair(w[LeftChild(i)], w[RightChild(i)])]
    BY <2>5
  <2>7. IsTreeFrom(w, m, leaves)
    <3> HIDE DEF w
    <3> QED  BY <1>1, <2>6 DEF IsTreeFrom
  <2> HIDE DEF w
  <2> QED  BY <2>2, <2>7
<1>4. \A k \in 0 .. n - 1 : k \in K
  <2>1. n - 1 \in Nat /\ (n - 1) - 1 = n - 2
    BY <1>1
  <2> HIDE DEF K
  <2> QED  BY <1>2, <1>3, <2>1, UpTo
<1>5. n - 1 \in 0 .. n - 1 /\ n - 1 - (n - 1) = 0
  BY <1>1
<1> QED
  BY <1>4, <1>5

\* NewTree is that tree.
LEMMA NewTreeIsTree ==
    ASSUME NEW leaves, Len(leaves) \in Nat \ {0}
    PROVE  IsTree(NewTree(leaves), leaves)
<1> DEFINE n == Len(leaves)
           tree == CHOOSE tree : IsTreeFrom(tree, 0, leaves)
<1>1. NewTree(leaves) = tree
  BY DEF NewTree, IsTreeFrom
<1>2. IsTreeFrom(tree, 0, leaves)
  BY TreeDefined
<1> HIDE DEF tree
<1>3. n \in Nat /\ n # 0
  OBVIOUS
<1>4. tree = [i \in 0 .. 2 * n - 2 |->
                IF i >= n - 1 THEN leaves[2 * n - 1 - i]
                ELSE HashPair(tree[LeftChild(i)], tree[RightChild(i)])]
  BY <1>2, <1>3 DEF IsTreeFrom
<1>5. DOMAIN tree = 0 .. 2 * n - 2
  BY <1>4
<1>6. \A i \in n - 1 .. 2 * n - 2 : tree[i] = leaves[2 * n - 1 - i]
  BY <1>3, <1>4
<1>7. ASSUME NEW i \in 0 .. n - 2
      PROVE  tree[i] = HashPair(tree[LeftChild(i)], tree[RightChild(i)])
  <2>1. i \in 0 .. 2 * n - 2 /\ ~ (i >= n - 1)
    BY <1>3
  <2> QED  BY <1>4, <2>1
<1> QED
  BY <1>1, <1>5, <1>6, <1>7 DEF IsTree

-----------------------------------------------------------------------------
\* The way from a leaf to the root

\* w gives the paths of the places up to k, by the recursion of PathFrom.
ArePaths(w, k, tree) ==
    w = [i \in 0 .. k |-> IF i = 0 THEN <<>> ELSE <<tree[Sibling(i)]>> \o w[Parent(i)]]

\* Places of a tree with n leaves: below the root they come in pairs that share a parent.
LEMMA Places ==
    ASSUME NEW n \in Nat, NEW i \in 1 .. 2 * n - 2
    PROVE  /\ Parent(i) \in 0 .. n - 2 /\ Parent(i) < i
           /\ Sibling(i) \in 1 .. 2 * n - 2
           /\ \/ i = LeftChild(Parent(i)) /\ Sibling(i) = RightChild(Parent(i))
              \/ i = RightChild(Parent(i)) /\ Sibling(i) = LeftChild(Parent(i))
<1>1. CASE i % 2 = 0
  <2>1. PICK j \in Int : i = 2 * j
    BY <1>1
  <2>2. Parent(i) = j - 1 /\ Sibling(i) = i - 1
    BY <1>1, <2>1 DEF Parent, Sibling
  <2> QED  BY <2>1, <2>2 DEF LeftChild, RightChild
<1>2. CASE i % 2 # 0
  <2>1. PICK j \in Int : i = 2 * j + 1
    BY <1>2
  <2>2. Parent(i) = j /\ Sibling(i) = i + 1
    BY <1>2, <2>1 DEF Parent, Sibling
  <2> QED  BY <2>1, <2>2 DEF LeftChild, RightChild
<1> QED
  BY <1>1, <1>2

\* There are such paths: longer ones are put together from shorter ones.
LEMMA PathsDefined ==
    ASSUME NEW n \in Nat \ {0}, NEW tree
    PROVE  \E w : ArePaths(w, 2 * n - 2, tree)
<1> DEFINE m == 2 * n - 2
           K == {k \in 0 .. m : \E w : ArePaths(w, k, tree)}
<1>1. m \in Nat
  OBVIOUS
<1>2. 0 \in K
  <2>1. ArePaths([i \in 0 .. 0 |-> <<>>], 0, tree)
    BY DEF ArePaths
  <2> QED  BY <1>1, <2>1
<1>3. ASSUME NEW k \in 0 .. m - 1, k \in K
      PROVE  k + 1 \in K
  <2>1. PICK g : ArePaths(g, k, tree)
    BY <1>3
  <2> DEFINE w == [i \in 0 .. k + 1 |->
                     IF i = 0 THEN <<>> ELSE <<tree[Sibling(i)]>> \o g[Parent(i)]]
  <2>2. \A i \in 0 .. k : w[i] = g[i]
    <3> TAKE i \in 0 .. k
    <3>1. i \in 0 .. k + 1
      BY <1>1
    <3> QED  BY <2>1, <3>1 DEF ArePaths
  <2>3. \A i \in 1 .. k + 1 : Parent(i) \in 0 .. k
    <3> TAKE i \in 1 .. k + 1
    <3>1. i \in 1 .. 2 * n - 2 /\ i <= k + 1 /\ i \in Int /\ k \in Int
      BY <1>1
    <3>2. Parent(i) \in 0 .. n - 2 /\ Parent(i) < i
      BY <3>1, Places
    <3> QED  BY <3>1, <3>2
  <2>4. ASSUME NEW i \in 0 .. k + 1, i # 0
        PROVE  w[i] = <<tree[Sibling(i)]>> \o w[Parent(i)]
    <3>1. Parent(i) \in 0 .. k
      BY <1>1, <2>3, <2>4
    <3>2. w[i] = <<tree[Sibling(i)]>> \o g[Parent(i)]
      BY <2>4
    <3> HIDE DEF w
    <3> QED  BY <2>2, <3>1, <3>2
  <2>5. ArePaths(w, k + 1, tree)
    BY <2>4 DEF ArePaths
  <2>6. k + 1 \in 0 .. m
    BY <1>1
  <2> HIDE DEF w, m
  <2> QED  BY <2>5, <2>6
<1>4. \A k \in 0 .. m : k \in K
  <2> HIDE DEF K, m
  <2> QED  BY <1>1, <1>2, <1>3, UpTo
<1> QED
  BY <1>1, <1>4

\* The path of the root is empty; every other place has its sibling first, then the path
\* of its parent.
LEMMA PathStep ==
    ASSUME NEW n \in Nat \ {0}, NEW tree, DOMAIN tree = 0 .. 2 * n - 2
    PROVE  /\ PathFrom(tree, 0) = <<>>
           /\ \A i \in 1 .. 2 * n - 2 :
                PathFrom(tree, i) = <<tree[Sibling(i)]>> \o PathFrom(tree, Parent(i))
<1> DEFINE m == 2 * n - 2
           path == CHOOSE path : ArePaths(path, m, tree)
<1>1. \A i : PathFrom(tree, i) = path[i]
  BY DEF PathFrom, ArePaths
<1>2. ArePaths(path, m, tree)
  BY PathsDefined
<1> HIDE DEF path
<1>3. path[0] = <<>>
  <2>1. 0 \in 0 .. m
    OBVIOUS
  <2> QED  BY <1>2, <2>1 DEF ArePaths
<1>4. \A i \in 1 .. m : path[i] = <<tree[Sibling(i)]>> \o path[Parent(i)]
  <2> TAKE i \in 1 .. m
  <2>1. i \in 0 .. m /\ i # 0
    OBVIOUS
  <2>2. path[i] = IF i = 0 THEN <<>> ELSE <<tree[Sibling(i)]>> \o path[Parent(i)]
    BY <1>2, <2>1 DEF ArePaths
  <2> QED  BY <2>1, <2>2
<1> QED
  BY <1>1, <1>3, <1>4

\* The paths consist of hashes of the tree.
LEMMA PathType ==
    ASSUME NEW n \in Nat \ {0}, NEW tree, DOMAIN tree = 0 .. 2 * n - 2,
           NEW i \in 0 .. 2 * n - 2
    PROVE  PathFrom(tree, i) \in Seq({tree[j] : j \in 0 .. 2 * n - 2})
<1> DEFINE m == 2 * n - 2
           H == {tree[j] : j \in 0 .. m}
           S == {k \in 0 .. m : \A j \in 0 .. k : PathFrom(tree, j) \in Seq(H)}
<1>1. m \in Nat
  OBVIOUS
<1>2. 0 \in S
  <2>1. \A j \in 0 .. 0 : j = 0
    OBVIOUS
  <2>2. PathFrom(tree, 0) = <<>>
    BY PathStep
  <2>3. PathFrom(tree, 0) \in Seq(H)
    <3>1. ASSUME NEW p, p = <<>>, NEW G
          PROVE  p \in Seq(G)
      BY <3>1
    <3> HIDE DEF H
    <3> QED  BY ONLY <2>2, <3>1
  <2> HIDE DEF H
  <2> QED  BY <1>1, <2>1, <2>3
<1>3. ASSUME NEW k \in 0 .. m - 1, k \in S
      PROVE  k + 1 \in S
  <2>1. k + 1 \in 1 .. m /\ k + 1 \in 0 .. m
    BY <1>1
  <2>2. Parent(k + 1) \in 0 .. k /\ Sibling(k + 1) \in 0 .. m
    <3>1. Parent(k + 1) \in 0 .. n - 2 /\ Parent(k + 1) < k + 1 /\ Sibling(k + 1) \in 1 .. m
      BY <2>1, Places
    <3> QED  BY <1>1, <3>1
  <2>3. PathFrom(tree, k + 1) = <<tree[Sibling(k + 1)]>> \o PathFrom(tree, Parent(k + 1))
    BY <2>1, PathStep
  <2>4. tree[Sibling(k + 1)] \in H
    BY <2>2
  <2> HIDE DEF H
  <2>5. PathFrom(tree, k + 1) \in Seq(H)
    <3>1. PathFrom(tree, Parent(k + 1)) \in Seq(H)
      BY <1>3, <2>2
    <3>2. <<tree[Sibling(k + 1)]>> \in Seq(H)
      BY <2>4
    <3>3. ASSUME NEW G, NEW p \in Seq(G), NEW q \in Seq(G)
          PROVE  p \o q \in Seq(G)
      BY <3>3
    <3> QED  BY ONLY <2>3, <3>1, <3>2, <3>3
  <2>6. \A j \in 0 .. k + 1 : j \in 0 .. k \/ j = k + 1
    BY <1>1
  <2> QED  BY <1>3, <2>1, <2>5, <2>6
<1> HIDE DEF S, m
<1>4. \A k \in 0 .. m : k \in S
  BY <1>1, <1>2, <1>3, UpTo
<1>5. m \in S /\ i \in 0 .. m
  BY <1>1, <1>4 DEF m
<1> QED
  BY <1>5 DEF S, m

\* Hashed along its path, every hash of the tree leads to the root.
LEMMA PathToRoot ==
    ASSUME NEW leaves, Len(leaves) \in Nat \ {0}, NEW tree, IsTree(tree, leaves),
           NEW i \in 0 .. 2 * Len(leaves) - 2
    PROVE  FoldLeft(HashPair, tree[i], PathFrom(tree, i)) = tree[0]
<1> DEFINE n == Len(leaves)
           m == 2 * n - 2
           H == {tree[j] : j \in 0 .. m}
           S == {k \in 0 .. m : \A j \in 0 .. k :
                   FoldLeft(HashPair, tree[j], PathFrom(tree, j)) = tree[0]}
<1>1. m \in Nat /\ n \in Nat \ {0} /\ DOMAIN tree = 0 .. m
  BY DEF IsTree
<1>2. 0 \in S
  <2>1. \A j \in 0 .. 0 : j = 0
    OBVIOUS
  <2>2. PathFrom(tree, 0) = <<>>
    BY <1>1, PathStep
  <2>3. PICK r : IsHashed(r, tree[0], <<>>) /\ FoldLeft(HashPair, tree[0], <<>>) = r[0]
    <3>1. DOMAIN <<>> = 1 .. 0 /\ Len(<<>>) = 0 /\ 0 \in Nat
      OBVIOUS
    <3> QED  BY <3>1, HashedAlong
  <2>4. FoldLeft(HashPair, tree[0], <<>>) = tree[0]
    BY <2>3 DEF IsHashed
  <2> QED  BY <1>1, <2>1, <2>2, <2>4
<1>3. ASSUME NEW k \in 0 .. m - 1, k \in S
      PROVE  k + 1 \in S
  <2> DEFINE p == Parent(k + 1)
             s == Sibling(k + 1)
  <2>1. k + 1 \in 1 .. m /\ k + 1 \in 0 .. m
    BY <1>1
  <2>2. /\ p \in 0 .. n - 2 /\ p < k + 1 /\ s \in 1 .. m
        /\ \/ k + 1 = LeftChild(p) /\ s = RightChild(p)
           \/ k + 1 = RightChild(p) /\ s = LeftChild(p)
    <3> HIDE DEF n
    <3> QED  BY ONLY <1>1, <2>1, Places DEF m
  <2> HIDE DEF p, s
  <2>3. tree[p] = HashPair(tree[LeftChild(p)], tree[RightChild(p)])
    BY <2>2 DEF IsTree
  <2>4. tree[p] = HashPair(tree[k + 1], tree[s])
    BY <2>2, <2>3 DEF HashPair
  <2>5. PathFrom(tree, k + 1) = <<tree[s]>> \o PathFrom(tree, p)
    BY <1>1, <2>1, PathStep DEF p, s
  <2>6. PathFrom(tree, p) \in Seq(H) /\ tree[s] \in H
    <3>1. p \in 0 .. m /\ s \in 0 .. m
      BY <1>1, <2>2
    <3>2. PathFrom(tree, p) \in Seq(H)
      BY <1>1, <3>1, PathType
    <3> QED  BY <3>1, <3>2
  <2> HIDE DEF H, n, m
  <2>7. FoldLeft(HashPair, tree[k + 1], PathFrom(tree, k + 1))
            = FoldLeft(HashPair, tree[p], PathFrom(tree, p))
    BY <2>4, <2>5, <2>6, HashedFromFront
  <2>8. p \in 0 .. k
    BY <1>1, <2>2
  <2>9. \A j \in 0 .. k + 1 : j \in 0 .. k \/ j = k + 1
    BY <1>1
  <2> QED  BY <1>3, <2>1, <2>7, <2>8, <2>9
<1> HIDE DEF S, m
<1>4. \A k \in 0 .. m : k \in S
  BY <1>1, <1>2, <1>3, UpTo
<1>5. m \in S /\ i \in 0 .. m
  BY <1>1, <1>4 DEF m
<1> QED
  BY <1>5 DEF S, m

-----------------------------------------------------------------------------
\* What a proof proves

\* The hash of a leaf is not the hash of a pair, and tells name and value apart.
LEMMA LeafIsNoPair ==
    ASSUME NEW a, NEW b, NEW name, NEW value
    PROVE  /\ HashLeaf(name, value) # HashPair(a, b)
           /\ \A n, v : HashLeaf(name, value) = HashLeaf(n, v) => name = n /\ value = v
<1>1. HashLeaf(name, value) # HashPair(a, b)
  <2>1. DOMAIN HashLeaf(name, value) = {"leaf"} /\ DOMAIN HashPair(a, b) = {"pair"}
    BY DEF HashLeaf, HashPair
  <2>2. "pair" \notin {"leaf"}
    OBVIOUS
  <2> QED  BY <2>1, <2>2
<1>2. ASSUME NEW n, NEW v, HashLeaf(name, value) = HashLeaf(n, v)
      PROVE  name = n /\ value = v
  <2>1. HashLeaf(name, value).leaf = <<name, value>> /\ HashLeaf(n, v).leaf = <<n, v>>
    BY DEF HashLeaf
  <2>2. <<name, value>> = <<n, v>>
    BY <1>2, <2>1
  <2> QED  BY <2>2
<1> QED
  BY <1>1, <1>2

\* The two hashes below the hash of a pair are those it was made of.
LEMMA PairOf ==
    ASSUME NEW a, NEW b, NEW c, NEW d, HashPair(a, b) = HashPair(c, d)
    PROVE  a = c \/ a = d
<1>1. HashPair(a, b).pair = {a, b} /\ HashPair(c, d).pair = {c, d}
  BY DEF HashPair
<1>2. {a, b} = {c, d}
  BY <1>1
<1> QED
  BY <1>2

\* The leaves of a receipt, hashed, are as many as there are names.
LEMMA HashedType ==
    ASSUME NEW L, NEW named \in Seq(L), named # <<>>
    PROVE  /\ Len(Hashed(named)) = Len(named) /\ Len(named) \in Nat \ {0}
           /\ DOMAIN named = 1 .. Len(named) /\ DOMAIN Hashed(named) = 1 .. Len(named)
           /\ \A k \in 1 .. Len(named) : Hashed(named)[k] = HashLeaf(named[k][1], named[k][2])
<1>1. Len(named) \in Nat \ {0} /\ DOMAIN named = 1 .. Len(named)
  OBVIOUS
<1>2. /\ DOMAIN Hashed(named) = 1 .. Len(named)
      /\ \A k \in 1 .. Len(named) : Hashed(named)[k] = HashLeaf(named[k][1], named[k][2])
  BY <1>1 DEF Hashed
<1>3. Len(Hashed(named)) = Len(named)
  BY <1>1 DEF Hashed
<1> QED
  BY <1>1, <1>2, <1>3

\* No forged proof: whatever path a proof consists of, if it leads from a leaf to the root
\* of a tree, the leaf is one of the tree, its name and its value included.
THEOREM NoForgedProof ==
    ASSUME NEW L, NEW named \in Seq(L), named # <<>>,
           NEW H, NEW path \in Seq(H), NEW name, NEW value,
           VerifyProof(Root(NewTree(Hashed(named))), HashLeaf(name, value), [path |-> path])
    PROVE  \E k \in DOMAIN named : named[k][1] = name /\ named[k][2] = value
<1> DEFINE leaves == Hashed(named)
           tree == NewTree(leaves)
           n == Len(leaves)
           m == 2 * n - 2
           l == Len(path)
           x == HashLeaf(name, value)
<1>1. /\ n \in Nat \ {0} /\ DOMAIN named = 1 .. n
      /\ \A k \in 1 .. n : leaves[k] = HashLeaf(named[k][1], named[k][2])
  BY HashedType
<1>2. IsTree(tree, leaves)
  <2> HIDE DEF leaves
  <2> QED  BY <1>1, NewTreeIsTree
<1>3. l \in Nat /\ DOMAIN path = 1 .. l
  OBVIOUS
<1>4. FoldLeft(HashPair, x, path) = tree[0]
  BY DEF VerifyProof, Root
<1>5. PICK r : IsHashed(r, x, path) /\ FoldLeft(HashPair, x, path) = r[l]
  <2> HIDE DEF x
  <2> QED  BY <1>3, HashedAlong
<1> HIDE DEF leaves, tree, n, l, x
<1>6. \A i \in n - 1 .. m : \E k \in 1 .. n : tree[i] = HashLeaf(named[k][1], named[k][2])
  <2> TAKE i \in n - 1 .. m
  <2>1. 2 * n - 1 - i \in 1 .. n
    BY <1>1
  <2>2. tree[i] = leaves[2 * n - 1 - i]
    BY <1>1, <1>2 DEF IsTree, n
  <2> QED  BY <1>1, <2>1, <2>2
<1> DEFINE S == {k \in 0 .. l : \E i \in 0 .. m : r[l - k] = tree[i]}
<1>7. 0 \in S
  <2>1. l - 0 = l /\ 0 \in 0 .. l /\ 0 \in 0 .. m
    BY <1>1, <1>3
  <2> QED  BY <1>4, <1>5, <2>1
<1>8. ASSUME NEW k \in 0 .. l - 1, k \in S
      PROVE  k + 1 \in S
  <2>1. l - k \in 1 .. l /\ (l - k) - 1 = l - (k + 1) /\ k + 1 \in 0 .. l
    BY <1>3
  <2>2. PICK i \in 0 .. m : r[l - k] = tree[i]
    BY <1>8
  <2>3. r[l - k] = HashPair(r[l - (k + 1)], path[l - k])
    BY <1>3, <1>5, <2>1 DEF IsHashed, l
  <2>4. i \in 0 .. n - 2
    <3>1. CASE i \in n - 1 .. m
      <4>1. PICK j \in 1 .. n : tree[i] = HashLeaf(named[j][1], named[j][2])
        BY <1>6, <3>1
      <4>2. HashLeaf(named[j][1], named[j][2]) = HashPair(r[l - (k + 1)], path[l - k])
        BY <2>2, <2>3, <4>1
      <4> QED  BY ONLY <4>2, LeafIsNoPair
    <3> QED  BY <1>1, <3>1
  <2>5. tree[i] = HashPair(tree[LeftChild(i)], tree[RightChild(i)])
    BY <1>2, <2>4 DEF IsTree, n
  <2>6. r[l - (k + 1)] = tree[LeftChild(i)] \/ r[l - (k + 1)] = tree[RightChild(i)]
    <3>1. HashPair(r[l - (k + 1)], path[l - k]) = HashPair(tree[LeftChild(i)], tree[RightChild(i)])
      BY <2>2, <2>3, <2>5
    <3> QED  BY ONLY <3>1, PairOf
  <2>7. LeftChild(i) \in 0 .. m /\ RightChild(i) \in 0 .. m
    BY <1>1, <2>4 DEF LeftChild, RightChild
  <2> QED  BY <2>1, <2>6, <2>7
<1> HIDE DEF S
<1>9. \A k \in 0 .. l : k \in S
  BY <1>3, <1>7, <1>8, UpTo
<1>10. PICK i \in 0 .. m : x = tree[i]
  <2>1. l \in 0 .. l /\ l - l = 0
    BY <1>3
  <2>2. PICK i \in 0 .. m : r[0] = tree[i]
    BY <1>9, <2>1 DEF S
  <2> QED  BY <1>5, <2>2 DEF IsHashed
<1>11. CASE i \in n - 1 .. m
  <2>1. PICK k \in 1 .. n : x = HashLeaf(named[k][1], named[k][2])
    BY <1>6, <1>10, <1>11
  <2>2. name = named[k][1] /\ value = named[k][2]
    <3>1. HashLeaf(name, value) = HashLeaf(named[k][1], named[k][2])
      BY <2>1 DEF x
    <3> QED  BY ONLY <3>1, LeafIsNoPair
  <2> QED  BY <1>1, <2>2
<1>12. CASE i \in 0 .. n - 2
  <2>1. x = HashPair(tree[LeftChild(i)], tree[RightChild(i)])
    BY <1>2, <1>10, <1>12 DEF IsTree, n
  <2> QED  BY <2>1, LeafIsNoPair DEF x
<1> QED
  BY <1>1, <1>11, <1>12

\* Of equal leaves, the place the index holds is one at which the leaf is.
LEMMA IndexOf ==
    ASSUME NEW leaves, Len(leaves) \in Nat \ {0}, DOMAIN leaves = 1 .. Len(leaves),
           NEW leaf \in Range(leaves)
    PROVE  /\ leaf \in DOMAIN Indices(leaves)
           /\ Indices(leaves)[leaf] \in 0 .. 2 * Len(leaves) - 2
           /\ Indices(leaves)[leaf] >= Len(leaves) - 1
           /\ \A tree : IsTree(tree, leaves) => tree[Indices(leaves)[leaf]] = leaf
<1> DEFINE n == Len(leaves)
           T == {j \in DOMAIN leaves : leaves[j] = leaf}
           i == 2 * n - 1 - Max(T)
<1>1. T \in SUBSET (1 .. n) /\ T # {}
  BY DEF Range
<1>2. Max(T) \in T
  <2> HIDE DEF T
  <2> QED  BY <1>1, MaxOfPart
<1>3. Indices(leaves)[leaf] = i /\ leaf \in DOMAIN Indices(leaves)
  BY DEF Indices
<1>4. Max(T) \in 1 .. n /\ leaves[Max(T)] = leaf
  BY <1>2
<1> HIDE DEF T
<1>5. i \in n - 1 .. 2 * n - 2 /\ 2 * n - 1 - i = Max(T)
  BY <1>4
<1>6. ASSUME NEW tree, IsTree(tree, leaves)
      PROVE  tree[i] = leaf
  <2> HIDE DEF i
  <2> QED  BY <1>4, <1>5, <1>6 DEF IsTree
<1> QED
  BY <1>3, <1>5, <1>6

\* The proof generated for a leaf of the tree is accepted for this leaf and no other hash.
THEOREM ProofExact ==
    ASSUME NEW leaves, Len(leaves) \in Nat \ {0}, DOMAIN leaves = 1 .. Len(leaves),
           NEW leaf \in Range(leaves), NEW x
    PROVE  VerifyProof(Root(NewTree(leaves)), x, GenerateProof(StandardTree(leaves), leaf))
               <=> x = leaf
<1> DEFINE tree == NewTree(leaves)
           i == Indices(leaves)[leaf]
           path == PathFrom(tree, i)
           n == Len(leaves)
           H == {tree[j] : j \in 0 .. 2 * n - 2}
<1>1. IsTree(tree, leaves)
  BY NewTreeIsTree
<1>2. leaf \in DOMAIN Indices(leaves) /\ i \in 0 .. 2 * n - 2 /\ tree[i] = leaf
  BY <1>1, IndexOf
<1>3. GenerateProof(StandardTree(leaves), leaf) = [path |-> path]
  BY <1>2 DEF GenerateProof, StandardTree
<1>4. VerifyProof(Root(tree), x, [path |-> path]) <=> tree[0] = FoldLeft(HashPair, x, path)
  BY DEF VerifyProof, Root
<1> HIDE DEF tree, i
<1>5. tree[0] = FoldLeft(HashPair, leaf, path)
  BY <1>1, <1>2, PathToRoot
<1>6. path \in Seq(H)
  BY <1>1, <1>2, PathType DEF IsTree
<1> HIDE DEF path, H
<1>7. ASSUME FoldLeft(HashPair, x, path) = FoldLeft(HashPair, leaf, path)
      PROVE  x = leaf
  BY <1>6, <1>7, HashedInjective
<1> QED
  BY <1>3, <1>4, <1>5, <1>7 DEF tree

\* Trees with the same root have the same leaves.
THEOREM SameRootSameLeaves ==
    ASSUME NEW L, NEW a \in Seq(L), a # <<>>, NEW b \in Seq(L), b # <<>>,
           Root(NewTree(Hashed(a))) = Root(NewTree(Hashed(b)))
    PROVE  \A k \in DOMAIN a : \E j \in DOMAIN b : b[j][1] = a[k][1] /\ b[j][2] = a[k][2]
<1> TAKE k \in DOMAIN a
<1> DEFINE leaves == Hashed(a)
           n == Len(leaves)
           tree == NewTree(leaves)
           i == 2 * n - 1 - k
           path == PathFrom(tree, i)
           H == {tree[j] : j \in 0 .. 2 * n - 2}
           x == HashLeaf(a[k][1], a[k][2])
<1>1. n \in Nat \ {0} /\ k \in 1 .. n /\ leaves[k] = x
  BY HashedType
<1> HIDE DEF leaves
<1>2. IsTree(tree, leaves)
  BY <1>1, NewTreeIsTree
<1>3. i \in n - 1 .. 2 * n - 2 /\ i \in 0 .. 2 * n - 2 /\ 2 * n - 1 - i = k
  BY <1>1
<1> HIDE DEF i, tree
<1>4. tree[i] = x
  BY <1>1, <1>2, <1>3 DEF IsTree
<1>5. FoldLeft(HashPair, x, path) = tree[0] /\ path \in Seq(H)
  BY <1>1, <1>2, <1>3, <1>4, PathToRoot, PathType DEF IsTree
<1> HIDE DEF x, path, H
<1>6. VerifyProof(Root(tree), x, [path |-> path])
  BY <1>5 DEF VerifyProof, Root
<1>7. VerifyProof(Root(NewTree(Hashed(b))), HashLeaf(a[k][1], a[k][2]), [path |-> path])
  BY <1>6 DEF tree, leaves, x
<1> QED
  BY <1>5, <1>7, NoForgedProof

-----------------------------------------------------------------------------
\* The leaves of a receipt are a list

IsList(s) == \E H : s \in Seq(H)

\* What is a list stays one when another is joined to it, or a name put before its items.
LEMMA ListConcat ==
    ASSUME NEW a, IsList(a), NEW b, IsList(b)
    PROVE  /\ IsList(a \o b) /\ Len(a \o b) = Len(a) + Len(b) /\ Len(a) \in Nat /\ Len(b) \in Nat
           /\ \A i \in 1 .. Len(a) : (a \o b)[i] = a[i]
           /\ \A i \in 1 .. Len(b) : (a \o b)[Len(a) + i] = b[i]
<1>1. PICK G : a \in Seq(G)
  BY DEF IsList
<1>2. PICK H : b \in Seq(H)
  BY DEF IsList
<1>3. a \in Seq(G \cup H) /\ b \in Seq(G \cup H)
  BY <1>1, <1>2
<1> HIDE DEF IsList
<1>4. /\ a \o b \in Seq(G \cup H) /\ Len(a \o b) = Len(a) + Len(b) /\ Len(a) \in Nat /\ Len(b) \in Nat
      /\ \A i \in 1 .. Len(a) : (a \o b)[i] = a[i]
      /\ \A i \in 1 .. Len(b) : (a \o b)[Len(a) + i] = b[i]
  <2>1. \A A : \A u, v \in Seq(A) :
          /\ u \o v \in Seq(A) /\ Len(u \o v) = Len(u) + Len(v) /\ Len(u) \in Nat /\ Len(v) \in Nat
          /\ \A i \in 1 .. Len(u) : (u \o v)[i] = u[i]
          /\ \A i \in 1 .. Len(v) : (u \o v)[Len(u) + i] = v[i]
    OBVIOUS
  <2> QED  BY ONLY <1>3, <2>1
<1> QED
  BY <1>4 DEF IsList

\* A function on 1 .. n is a list.
LEMMA ListOf ==
    ASSUME NEW n \in Nat, NEW f, DOMAIN f = 1 .. n, f = [k \in 1 .. n |-> f[k]]
    PROVE  IsList(f) /\ Len(f) = n
<1>1. f \in Seq({f[k] : k \in 1 .. n}) /\ Len(f) = n
  OBVIOUS
<1> QED
  BY <1>1 DEF IsList

LEMMA UnderList ==
    ASSUME NEW prefix, NEW leaves, IsList(leaves)
    PROVE  /\ IsList(Under(prefix, leaves)) /\ Len(Under(prefix, leaves)) = Len(leaves)
           /\ Len(leaves) \in Nat
<1>1. PICK H : leaves \in Seq(H)
  BY DEF IsList
<1> DEFINE n == Len(leaves)
           f == Under(prefix, leaves)
<1>2. n \in Nat /\ DOMAIN leaves = 1 .. n
  BY <1>1
<1>3. DOMAIN f = 1 .. n /\ f = [k \in 1 .. n |-> f[k]]
  BY <1>2 DEF Under
<1> HIDE DEF f, n
<1>4. IsList(f) /\ Len(f) = n
  BY <1>2, <1>3, ListOf
<1> QED
  BY <1>2, <1>4 DEF f, n

\* w joins the first lists up to k, by the recursion of FlattenSeq.
Joins(w, k, seqs) == w = [i \in 1 .. k |-> IF i = 1 THEN seqs[i] ELSE w[i - 1] \o seqs[i]]

\* FlattenSeq is the last of them.
LEMMA FlattenJoins ==
    ASSUME NEW n \in Nat \ {0}, NEW seqs, DOMAIN seqs = 1 .. n, Len(seqs) = n
    PROVE  \E w : Joins(w, n, seqs) /\ FlattenSeq(seqs) = w[n]
<1> DEFINE flatten == CHOOSE flatten : Joins(flatten, n, seqs)
           K == {k \in 0 .. n : \E w : Joins(w, k, seqs)}
<1>1. FlattenSeq(seqs) = flatten[n]
  BY DEF FlattenSeq, Joins
<1> HIDE DEF flatten
<1>2. 0 \in K
  <2> DEFINE w == [i \in 1 .. 0 |-> IF i = 1 THEN seqs[i] ELSE seqs[i - 1] \o seqs[i]]
  <2>1. Joins(w, 0, seqs)
    BY DEF Joins
  <2>2. 0 \in 0 .. n
    OBVIOUS
  <2> HIDE DEF w
  <2> QED  BY ONLY <2>1, <2>2 DEF K
<1>3. ASSUME NEW k \in 0 .. n - 1, k \in K
      PROVE  k + 1 \in K
  <2>1. PICK g : Joins(g, k, seqs)
    BY <1>3
  <2> DEFINE w == [i \in 1 .. k + 1 |-> IF i = 1 THEN seqs[i] ELSE g[i - 1] \o seqs[i]]
  <2>2. \A i \in 1 .. k : w[i] = g[i]
    <3> TAKE i \in 1 .. k
    <3>1. i \in 1 .. k + 1
      OBVIOUS
    <3> HIDE DEF K
    <3> QED  BY <2>1, <3>1 DEF Joins
  <2>3. ASSUME NEW i \in 1 .. k + 1, i # 1
        PROVE  w[i] = w[i - 1] \o seqs[i]
    <3>1. i - 1 \in 1 .. k
      BY ONLY <2>3, k \in 0 .. n - 1, n \in Nat
    <3>2. w[i] = g[i - 1] \o seqs[i]
      BY <2>3
    <3> HIDE DEF w
    <3> QED  BY <2>2, <3>1, <3>2
  <2>4. Joins(w, k + 1, seqs)
    BY <2>3 DEF Joins
  <2>5. k + 1 \in 0 .. n
    OBVIOUS
  <2> HIDE DEF w
  <2> QED  BY <2>4, <2>5
<1> HIDE DEF K
<1>4. n \in K
  <2>1. \A k \in 0 .. n : k \in K
    BY <1>2, <1>3, UpTo
  <2> QED  BY <2>1
<1>5. Joins(flatten, n, seqs)
  BY <1>4 DEF K, flatten
<1> QED
  BY <1>1, <1>5

\* The first k lists are in s, each from its offset on, one after the other.
PlacedIn(s, off, k, seqs) ==
    /\ IsList(s)
    /\ \A i \in 1 .. k :
         /\ off[i] \in Nat /\ off[i] + Len(seqs[i]) <= Len(s)
         /\ \A j \in 1 .. Len(seqs[i]) : s[off[i] + j] = seqs[i][j]
    /\ \A h, i \in 1 .. k : h < i => off[h] + Len(seqs[h]) <= off[i]

LEMMA PlaceNext ==
    ASSUME NEW k \in Nat, NEW s, NEW off, NEW seqs, PlacedIn(s, off, k, seqs),
           \A i \in 1 .. k + 1 : IsList(seqs[i]), off[k + 1] = Len(s)
    PROVE  PlacedIn(s \o seqs[k + 1], off, k + 1, seqs)
<1> DEFINE v == seqs[k + 1]
           r == s \o v
<1>1. \A i \in 1 .. k + 1 : Len(seqs[i]) \in Nat /\ (i \in 1 .. k \/ i = k + 1)
  BY DEF IsList
<1>2. IsList(s) /\ IsList(v) /\ k + 1 \in 1 .. k + 1
  BY DEF PlacedIn
<1> HIDE DEF v
<1>3. /\ IsList(r) /\ Len(r) = Len(s) + Len(v) /\ Len(s) \in Nat /\ Len(v) \in Nat
      /\ \A i \in 1 .. Len(s) : r[i] = s[i]
      /\ \A i \in 1 .. Len(v) : r[Len(s) + i] = v[i]
  BY <1>2, ListConcat
<1> HIDE DEF r
<1>4. ASSUME NEW i \in 1 .. k
      PROVE  /\ off[i] \in Nat /\ off[i] + Len(seqs[i]) <= Len(r) /\ off[i] + Len(seqs[i]) <= off[k + 1]
             /\ \A j \in 1 .. Len(seqs[i]) : r[off[i] + j] = seqs[i][j]
  <2>1. /\ off[i] \in Nat /\ off[i] + Len(seqs[i]) <= Len(s)
        /\ \A j \in 1 .. Len(seqs[i]) : s[off[i] + j] = seqs[i][j]
    BY DEF PlacedIn
  <2>2. Len(seqs[i]) \in Nat
    BY <1>1
  <2>3. \A j \in 1 .. Len(seqs[i]) : off[i] + j \in 1 .. Len(s)
    BY <1>3, <2>1, <2>2
  <2>4. Len(v) \in Nat /\ Len(r) = Len(s) + Len(v) /\ Len(s) \in Nat
    BY <1>3
  <2>5. off[i] + Len(seqs[i]) <= Len(r) /\ off[i] + Len(seqs[i]) <= off[k + 1]
    BY <2>1, <2>2, <2>4
  <2>6. \A j \in 1 .. Len(seqs[i]) : r[off[i] + j] = seqs[i][j]
    BY <1>3, <2>1, <2>3
  <2> QED  BY <2>1, <2>5, <2>6
<1>5. \A i \in 1 .. k + 1 :
        /\ off[i] \in Nat /\ off[i] + Len(seqs[i]) <= Len(r)
        /\ \A j \in 1 .. Len(seqs[i]) : r[off[i] + j] = seqs[i][j]
  <2>1. /\ off[k + 1] \in Nat /\ off[k + 1] + Len(v) <= Len(r)
        /\ \A j \in 1 .. Len(v) : r[off[k + 1] + j] = v[j]
    BY <1>3
  <2> QED  BY <1>1, <1>4, <2>1 DEF v
<1>6. \A h, i \in 1 .. k + 1 : h < i => off[h] + Len(seqs[h]) <= off[i]
  <2> TAKE h, i \in 1 .. k + 1
  <2>1. CASE i \in 1 .. k
    <3>1. h < i => h \in 1 .. k
      BY <2>1
    <3> QED  BY <2>1, <3>1 DEF PlacedIn
  <2>2. CASE i = k + 1
    <3>1. h < i => h \in 1 .. k
      BY <2>2
    <3> QED  BY <1>4, <2>2, <3>1
  <2> QED  BY <1>1, <2>1, <2>2
<1> QED
  BY <1>3, <1>5, <1>6 DEF PlacedIn, r, v

\* Lists joined one after the other are a list, in which the items of each of them follow
\* each other.
LEMMA FlattenList ==
    ASSUME NEW n \in Nat, NEW seqs, DOMAIN seqs = 1 .. n, Len(seqs) = n,
           seqs = [i \in 1 .. n |-> seqs[i]], \A i \in 1 .. n : IsList(seqs[i])
    PROVE  IsList(FlattenSeq(seqs)) /\ \E off : PlacedIn(FlattenSeq(seqs), off, n, seqs)
<1>1. CASE n = 0
  <2>1. FlattenSeq(seqs) = seqs
    BY <1>1 DEF FlattenSeq
  <2>2. IsList(FlattenSeq(seqs))
    BY <2>1, ListOf
  <2>3. 1 .. n = {}
    BY <1>1
  <2> QED  BY <2>2, <2>3 DEF PlacedIn
<1>2. CASE n # 0
  <2>1. PICK w : Joins(w, n, seqs) /\ FlattenSeq(seqs) = w[n]
    <3>1. \E w : Joins(w, n, seqs) /\ FlattenSeq(seqs) = w[n]
      BY <1>2, FlattenJoins
    <3> QED  BY <3>1
  <2> DEFINE off == [i \in 1 .. n |-> IF i = 1 THEN 0 ELSE Len(w[i - 1])]
             S == {k \in 0 .. n : k # 0 => PlacedIn(w[k], off, k, seqs)}
  <2>2. 0 \in S
    OBVIOUS
  <2>3. ASSUME NEW k \in 0 .. n - 1, k \in S
        PROVE  k + 1 \in S
    <3>1. k + 1 \in 1 .. n /\ k + 1 \in 0 .. n /\ (k + 1) - 1 = k /\ k \in Nat
      OBVIOUS
    <3>2. w[k + 1] = IF k + 1 = 1 THEN seqs[k + 1] ELSE w[k] \o seqs[k + 1]
      BY <2>1, <3>1 DEF Joins
    <3>3. off[k + 1] = IF k + 1 = 1 THEN 0 ELSE Len(w[k])
      BY <3>1
    <3>4. k # 0 => PlacedIn(w[k], off, k, seqs)
      BY <2>3
    <3>5. \A i \in 1 .. k + 1 : IsList(seqs[i])
      BY <3>1
    <3> HIDE DEF off, S
    <3>6. CASE k = 0
      <4>1. w[1] = seqs[1] /\ off[1] = 0 /\ IsList(seqs[1]) /\ Len(seqs[1]) \in Nat
        BY <3>1, <3>2, <3>3, <3>5, <3>6 DEF IsList
      <4>2. (\A i \in 1 .. 1 : i = 1) /\ \A j \in 1 .. Len(seqs[1]) : 0 + j = j
        OBVIOUS
      <4>3. PlacedIn(w[1], off, 1, seqs)
        BY <4>1, <4>2 DEF PlacedIn
      <4> QED  BY <3>1, <3>6, <4>3 DEF S
    <3>7. CASE k # 0
      <4>1. k + 1 # 1
        BY <3>1, <3>7
      <4>2. w[k + 1] = w[k] \o seqs[k + 1]
        BY <3>2, <4>1
      <4>3. off[k + 1] = Len(w[k])
        BY <3>3, <4>1
      <4>4. PlacedIn(w[k] \o seqs[k + 1], off, k + 1, seqs)
        BY <3>1, <3>4, <3>5, <3>7, <4>3, PlaceNext
      <4> QED  BY <3>1, <4>2, <4>4 DEF S
    <3> QED  BY <3>6, <3>7
  <2> HIDE DEF S
  <2>4. \A k \in 0 .. n : k \in S
    BY <2>2, <2>3, UpTo
  <2> HIDE DEF off
  <2>5. PlacedIn(w[n], off, n, seqs)
    BY <1>2, <2>4 DEF S
  <2>6. IsList(w[n])
    BY <2>5 DEF PlacedIn
  <2> QED  BY <2>1, <2>5, <2>6
<1> QED
  BY <1>1, <1>2

LEMMA SliceList ==
    ASSUME NEW prefix, NEW n \in Nat, NEW items, DOMAIN items = 1 .. n,
           \A i \in 1 .. n : IsList(items[i])
    PROVE  IsList(Slice(prefix, items))
<1> DEFINE seqs == [i \in DOMAIN items |-> Under(IndexPrefix(prefix, i - 1), items[i])]
<1>1. DOMAIN seqs = 1 .. n /\ seqs = [i \in 1 .. n |-> seqs[i]]
  OBVIOUS
<1>2. Len(seqs) = n
  BY <1>1, ListOf
<1>3. \A i \in 1 .. n : IsList(seqs[i])
  BY UnderList
<1>4. Slice(prefix, items) = FlattenSeq(seqs)
  BY DEF Slice
<1> HIDE DEF seqs
<1> QED
  BY <1>1, <1>2, <1>3, <1>4, FlattenList

LEMMA PairList == ASSUME NEW x PROVE IsList(<<x>>) /\ Len(<<x>>) = 1
<1>1. <<x>> \in Seq({x}) /\ Len(<<x>>) = 1
  OBVIOUS
<1> QED
  BY <1>1 DEF IsList

\* The leaves of a log are a list.
LEMMA LogLeavesList == ASSUME NEW log, IsLog(log) PROVE IsList(LogLeaves(log))
<1> DEFINE n == Len(log.topics)
           topics == [j \in DOMAIN log.topics |-> HashLeaves(log.topics[j])]
<1>1. n \in Nat /\ DOMAIN log.topics = 1 .. n
  BY DEF IsLog
<1>2. DOMAIN topics = 1 .. n
  BY <1>1
<1>3. \A j \in 1 .. n : IsList(topics[j])
  BY <1>1, PairList DEF HashLeaves
<1> HIDE DEF topics, n
<1>4. IsList(Slice("topics", topics))
  BY <1>1, <1>2, <1>3, SliceList
<1>5. IsList(LogDataLeaves(log))
  <2>1. IsList(<< <<"data", log.data>> >>)
    BY PairList
  <2> QED  BY <1>4, <2>1, ListConcat DEF LogDataLeaves, topics
<1>6. IsList(Under("data", LogDataLeaves(log)))
  BY <1>5, UnderList
<1>7. IsList(<< <<"address", log.address>> >>)
  BY PairList
<1> QED
  BY <1>6, <1>7, ListConcat DEF LogLeaves

\* The leaves of a receipt are a list, and never none: two fields, the leaves of the logs,
\* their hashes, and further fields.
LEMMA ReceiptLeavesList ==
    ASSUME NEW r, HasLogs(r)
    PROVE  LET named  == ReceiptLeaves(r)
               logs   == Slice("logs", [i \in DOMAIN r.logs |-> LogLeaves(r.logs[i])])
               hashes == Slice("log_hashes", LogHashes(r))
           IN  /\ IsList(named) /\ named # <<>> /\ IsList(logs) /\ IsList(hashes)
               /\ 2 + Len(logs) + Len(hashes) <= Len(named)
               /\ \A k \in 1 .. Len(logs) : named[2 + k] = logs[k]
               /\ \A k \in 1 .. Len(hashes) : named[2 + Len(logs) + k] = hashes[k]
<1> DEFINE n == Len(r.logs)
           logs == [i \in DOMAIN r.logs |-> LogLeaves(r.logs[i])]
           hashes == LogHashes(r)
           a == << <<"status", r.status>>, <<"actual_gas_used", r.actual_gas_used>> >>
           b == Slice("logs", logs)
           c == Slice("log_hashes", hashes)
           d == << <<"logs_root", r.logs_root>>, <<"tx_hash", r.tx_hash>> >>
           inner == << <<"hash", r.attested_tx.hash>>,
                       <<"committee_epoch", r.attested_tx.committee_epoch>> >>
           e == Under("attested_tx", inner)
<1>1. n \in Nat /\ DOMAIN r.logs = 1 .. n /\ \A i \in 1 .. n : IsLog(r.logs[i])
  BY DEF HasLogs
<1>2. IsList(b)
  <2>1. DOMAIN logs = 1 .. n /\ \A i \in 1 .. n : IsList(logs[i])
    BY <1>1, LogLeavesList
  <2> HIDE DEF logs
  <2> QED  BY <1>1, <2>1, SliceList
<1>3. IsList(c)
  <2>1. DOMAIN hashes = 1 .. n /\ \A i \in 1 .. n : IsList(hashes[i])
    BY <1>1, PairList DEF LogHashes, HashLeaves
  <2> HIDE DEF hashes
  <2> QED  BY <1>1, <2>1, SliceList
<1>4. IsList(a) /\ Len(a) = 2 /\ IsList(d) /\ IsList(inner)
  <2>1. \A x, y : IsList(<<x, y>>) /\ Len(<<x, y>>) = 2
    <3> TAKE x, y
    <3>1. <<x, y>> \in Seq({x, y})
      OBVIOUS
    <3> QED  BY <3>1 DEF IsList
  <2> QED  BY ONLY <2>1
<1>5. IsList(e)
  BY <1>4, UnderList
<1>6. ReceiptLeaves(r) = a \o b \o c \o d \o e
  BY DEF ReceiptLeaves
<1> HIDE DEF a, b, c, d, e
<1>7. \A u, v : IsList(u) /\ IsList(v) =>
         /\ IsList(u \o v) /\ Len(u \o v) = Len(u) + Len(v) /\ Len(u) \in Nat /\ Len(v) \in Nat
         /\ \A i \in 1 .. Len(u) : (u \o v)[i] = u[i]
         /\ \A i \in 1 .. Len(v) : (u \o v)[Len(u) + i] = v[i]
  BY ListConcat
<1> DEFINE ab == a \o b
           abc == ab \o c
           abcd == abc \o d
           abcde == abcd \o e
<1>8. /\ IsList(ab) /\ Len(ab) = 2 + Len(b) /\ Len(b) \in Nat
      /\ \A k \in 1 .. Len(b) : ab[2 + k] = b[k]
  <2>1. IsList(a) /\ IsList(b)
    BY ONLY <1>2, <1>4
  <2>2. IsList(ab) /\ Len(ab) = Len(a) + Len(b) /\ Len(b) \in Nat
    BY ONLY <1>7, <2>1
  <2>3. ASSUME NEW k \in 1 .. Len(b)
        PROVE  ab[Len(a) + k] = b[k]
    BY ONLY <1>7, <2>1, k \in 1 .. Len(b)
  <2> HIDE DEF ab
  <2> QED  BY <1>4, <2>2, <2>3
<1> HIDE DEF ab
<1>9. /\ IsList(abc) /\ Len(abc) = Len(ab) + Len(c) /\ Len(c) \in Nat
      /\ \A k \in 1 .. Len(ab) : abc[k] = ab[k]
      /\ \A k \in 1 .. Len(c) : abc[Len(ab) + k] = c[k]
  <2>1. /\ IsList(abc) /\ Len(abc) = Len(ab) + Len(c) /\ Len(c) \in Nat
        /\ \A k \in 1 .. Len(ab) : abc[k] = ab[k]
    BY ONLY <1>3, <1>7, <1>8
  <2>2. ASSUME NEW k \in 1 .. Len(c)
        PROVE  abc[Len(ab) + k] = c[k]
    BY ONLY <1>3, <1>7, <1>8, k \in 1 .. Len(c)
  <2> QED  BY <2>1, <2>2
<1> HIDE DEF abc
<1>10. /\ IsList(abcd) /\ Len(abcd) = Len(abc) + Len(d) /\ Len(d) \in Nat
      /\ \A k \in 1 .. Len(abc) : abcd[k] = abc[k]
  BY ONLY <1>4, <1>9, <1>7
<1> HIDE DEF abcd
<1>11. /\ IsList(abcde) /\ Len(abcde) = Len(abcd) + Len(e) /\ Len(e) \in Nat
       /\ \A k \in 1 .. Len(abcd) : abcde[k] = abcd[k]
  BY ONLY <1>5, <1>10, <1>7
<1> HIDE DEF abcde
<1>12. abcde # <<>>
  <2>1. Len(<<>>) = 0
    OBVIOUS
  <2> QED  BY <1>8, <1>9, <1>10, <1>11, <2>1
<1>13. ASSUME NEW k \in 1 .. Len(b)
       PROVE  abcde[2 + k] = b[k]
  <2>1. 2 + k \in 1 .. Len(ab) /\ 2 + k \in 1 .. Len(abc) /\ 2 + k \in 1 .. Len(abcd)
    BY <1>8, <1>9, <1>10
  <2> QED  BY <1>8, <1>9, <1>10, <1>11, <2>1
<1>14. ASSUME NEW k \in 1 .. Len(c)
       PROVE  abcde[2 + Len(b) + k] = c[k]
  <2>1. /\ 2 + Len(b) + k = Len(ab) + k
        /\ Len(ab) + k \in 1 .. Len(abc) /\ Len(ab) + k \in 1 .. Len(abcd)
    BY <1>8, <1>9, <1>10
  <2> QED  BY <1>9, <1>10, <1>11, <2>1
<1>15. 2 + Len(b) + Len(c) <= Len(abcde)
  BY <1>8, <1>9, <1>10, <1>11
<1>16. ReceiptLeaves(r) = abcde
  BY <1>6 DEF ab, abc, abcd, abcde
<1> QED
  BY <1>2, <1>3, <1>11, <1>12, <1>13, <1>14, <1>15, <1>16 DEF b, c, logs, hashes

-----------------------------------------------------------------------------
\* Queues of places, from which both the prover and the verifier of a multi-proof work

\* One step of MultiProofFrom: what is left of the queue.
Onward(queue) == Append(SubSeq(queue, IF Pairs(queue) THEN 3 ELSE 2, Len(queue)), Parent(queue[1]))

Stops(queue) == queue = <<>> \/ queue[1] = 0

\* Lists from which the first or the first two are taken, and to which one is appended.
LEMMA TakeOne ==
    ASSUME NEW H, NEW s \in Seq(H), Len(s) >= 1, NEW x \in H
    PROVE  LET r == Append(Tail(s), x)
           IN  /\ r \in Seq(H) /\ Len(r) = Len(s) /\ r[Len(s)] = x
               /\ \A i \in 1 .. Len(s) - 1 : r[i] = s[i + 1]
  OBVIOUS

LEMMA TakeTwo ==
    ASSUME NEW H, NEW s \in Seq(H), Len(s) >= 2, NEW x \in H
    PROVE  LET r == Append(Tail(Tail(s)), x)
           IN  /\ r \in Seq(H) /\ Len(r) = Len(s) - 1 /\ r[Len(s) - 1] = x
               /\ \A i \in 1 .. Len(s) - 2 : r[i] = s[i + 2]
<1> DEFINE t == Tail(Tail(s))
<1>1. /\ t \in Seq(H) /\ Len(t) = Len(s) - 2 /\ Len(t) \in Nat
      /\ \A i \in 1 .. Len(s) - 2 : t[i] = s[i + 2]
  <2>1. /\ Tail(s) \in Seq(H) /\ Len(Tail(s)) = Len(s) - 1
        /\ \A i \in 1 .. Len(s) - 1 : Tail(s)[i] = s[i + 1]
    OBVIOUS
  <2>2. ASSUME NEW u \in Seq(H), Len(u) >= 1
        PROVE  /\ Tail(u) \in Seq(H) /\ Len(Tail(u)) = Len(u) - 1 /\ Len(u) \in Nat
               /\ \A i \in 1 .. Len(u) - 1 : Tail(u)[i] = u[i + 1]
    BY <2>2
  <2>3. Len(Tail(s)) >= 1
    BY <2>1
  <2> DEFINE u == Tail(s)
  <2>4. u \in Seq(H) /\ Len(u) >= 1
    BY <2>1, <2>3
  <2> HIDE DEF u, t
  <2>5. /\ Tail(u) \in Seq(H) /\ Len(Tail(u)) = Len(u) - 1 /\ Len(u) \in Nat
        /\ \A i \in 1 .. Len(u) - 1 : Tail(u)[i] = u[i + 1]
    BY <2>2, <2>4
  <2>6. Tail(u) = t
    BY DEF u, t
  <2>7. Len(u) = Len(s) - 1 /\ \A i \in 1 .. Len(s) - 1 : u[i] = s[i + 1]
    BY <2>1 DEF u
  <2>8. Len(s) \in Nat
    OBVIOUS
  <2>9. ASSUME NEW i \in 1 .. Len(s) - 2
        PROVE  t[i] = s[i + 2]
    <3>1. i \in 1 .. Len(u) - 1 /\ i + 1 \in 1 .. Len(s) - 1 /\ (i + 1) + 1 = i + 2
      BY ONLY <2>7, <2>8, i \in 1 .. Len(s) - 2
    <3> QED  BY ONLY <2>5, <2>6, <2>7, <3>1
  <2>10. t \in Seq(H) /\ Len(t) = Len(u) - 1
    BY ONLY <2>5, <2>6
  <2>11. Len(t) = Len(s) - 2 /\ Len(t) \in Nat
    <3> DEFINE a == Len(t)
               b == Len(u)
               c == Len(s)
    <3>1. a = b - 1 /\ b = c - 1 /\ b \in Nat /\ b >= 1 /\ c \in Nat
      BY ONLY <2>4, <2>5, <2>7, <2>8, <2>10
    <3> HIDE DEF a, b, c
    <3>2. a = c - 2 /\ a \in Nat
      BY ONLY <3>1
    <3> QED  BY ONLY <3>2 DEF a, c
  <2> QED  BY ONLY <2>9, <2>10, <2>11
<1> HIDE DEF t
<1>2. /\ Append(t, x) \in Seq(H) /\ Len(Append(t, x)) = Len(t) + 1
      /\ Append(t, x)[Len(t) + 1] = x
      /\ \A i \in 1 .. Len(t) : Append(t, x)[i] = t[i]
  BY <1>1
<1>3. Append(Tail(Tail(s)), x) = Append(t, x)
  BY DEF t
<1>4. Len(s) \in Nat
  OBVIOUS
<1> QED
  BY ONLY <1>1, <1>2, <1>3, <1>4

\* What is left of a list from its k-th item on.
LEMMA RestOf ==
    ASSUME NEW H, NEW s \in Seq(H), NEW k \in 1 .. Len(s) + 1
    PROVE  /\ SubSeq(s, k, Len(s)) \in Seq(H) /\ Len(SubSeq(s, k, Len(s))) = Len(s) - k + 1
           /\ \A i \in 1 .. Len(s) - k + 1 : SubSeq(s, k, Len(s))[i] = s[i + k - 1]
  OBVIOUS

LEMMA NextQueue ==
    ASSUME NEW n \in Nat \ {0}, NEW q \in Seq(0 .. 2 * n - 2), ~ Stops(q)
    PROVE  /\ Len(q) \in Nat \ {0} /\ q[1] \in 1 .. 2 * n - 2
           /\ Onward(q) \in Seq(0 .. 2 * n - 2)
           /\ Pairs(q) => /\ Len(q) >= 2 /\ Len(Onward(q)) = Len(q) - 1
                          /\ Onward(q)[Len(q) - 1] = Parent(q[1])
                          /\ \A i \in 1 .. Len(q) - 2 : Onward(q)[i] = q[i + 2]
           /\ ~ Pairs(q) => /\ Len(Onward(q)) = Len(q)
                            /\ Onward(q)[Len(q)] = Parent(q[1])
                            /\ \A i \in 1 .. Len(q) - 1 : Onward(q)[i] = q[i + 1]
<1> DEFINE D == 0 .. 2 * n - 2
           p == Parent(q[1])
<1>1. Len(q) \in Nat \ {0} /\ q[1] \in D /\ q[1] # 0
  <2>1. q # <<>> /\ q[1] # 0
    BY DEF Stops
  <2> HIDE DEF D
  <2>2. ASSUME NEW G, NEW u \in Seq(G), u # <<>>
        PROVE  Len(u) \in Nat \ {0} /\ u[1] \in G
    BY <2>2
  <2> QED  BY <2>1, <2>2 DEF D
<1>0. q \in Seq(D)
  OBVIOUS
<1>2. q[1] \in 1 .. 2 * n - 2
  BY <1>1
<1>3. p \in D
  <2>1. p \in 0 .. n - 2
    BY <1>2, Places
  <2> QED  BY <2>1
<1> HIDE DEF p, D
<1>4. CASE Pairs(q)
  <2>1. Len(q) >= 2
    BY <1>1, <1>4 DEF Pairs
  <2>2. Onward(q) = Append(SubSeq(q, 3, Len(q)), p)
    BY <1>4 DEF Onward, p
  <2>3. /\ SubSeq(q, 3, Len(q)) \in Seq(D) /\ Len(SubSeq(q, 3, Len(q))) = Len(q) - 2
        /\ \A i \in 1 .. Len(q) - 2 : SubSeq(q, 3, Len(q))[i] = q[i + 2]
    <3>1. 3 \in 1 .. Len(q) + 1 /\ Len(q) - 3 + 1 = Len(q) - 2 /\ \A i \in Nat : i + 3 - 1 = i + 2
      BY <1>1, <2>1
    <3>2. \A i \in 1 .. Len(q) - 2 : i \in Nat
      OBVIOUS
    <3> DEFINE r == SubSeq(q, 3, Len(q))
    <3>3. r \in Seq(D) /\ Len(r) = Len(q) - 3 + 1 /\ \A i \in 1 .. Len(q) - 3 + 1 : r[i] = q[i + 3 - 1]
      BY ONLY <1>0, <3>1, RestOf
    <3> HIDE DEF r
    <3>4. r \in Seq(D) /\ Len(r) = Len(q) - 2 /\ \A i \in 1 .. Len(q) - 2 : r[i] = q[i + 2]
      BY ONLY <3>1, <3>2, <3>3
    <3> QED  BY ONLY <3>4 DEF r
  <2> QED  BY <1>1, <1>2, <1>3, <1>4, <2>1, <2>2, <2>3 DEF D, p
<1>5. CASE ~ Pairs(q)
  <2>2. Onward(q) = Append(SubSeq(q, 2, Len(q)), p)
    BY <1>5 DEF Onward, p
  <2>3. /\ SubSeq(q, 2, Len(q)) \in Seq(D) /\ Len(SubSeq(q, 2, Len(q))) = Len(q) - 1
        /\ \A i \in 1 .. Len(q) - 1 : SubSeq(q, 2, Len(q))[i] = q[i + 1]
    <3>1. 2 \in 1 .. Len(q) + 1 /\ Len(q) - 2 + 1 = Len(q) - 1 /\ \A i \in Nat : i + 2 - 1 = i + 1
      BY <1>1
    <3>2. \A i \in 1 .. Len(q) - 1 : i \in Nat
      OBVIOUS
    <3> QED  BY ONLY <1>0, <3>1, <3>2, RestOf
  <2> QED  BY <1>1, <1>2, <1>3, <1>5, <2>2, <2>3 DEF D, p
<1> QED
  BY <1>4, <1>5

Total(q) == SumFunctionOnSet(q, 1 .. Len(q))

\* The sum of what is left of a list when its first k numbers are taken.
LEMMA SumShift ==
    ASSUME NEW l \in Nat, NEW k \in 0 .. l, NEW q, \A i \in 1 .. l : q[i] \in Int,
           NEW r, \A i \in 1 .. l - k : r[i] = q[i + k]
    PROVE  SumFunctionOnSet(r, 1 .. l - k) = SumFunctionOnSet(q, k + 1 .. l)
<1> DEFINE S == 1 .. l - k
           R == k + 1 .. l
           h == [i \in S |-> i + k]
<1>1. IsFiniteSet(S)
  <2>1. l - k \in Int
    OBVIOUS
  <2> QED  BY <2>1, FS_Interval
<1>2. \A i \in S : i \in Int /\ h[i] = i + k /\ h[i] \in R /\ h[i] \in 1 .. l
  OBVIOUS
<1>3. \A y \in R : y - k \in S /\ y = h[y - k]
  OBVIOUS
<1>4. \A i \in S : r[i] = q[h[i]] /\ r[i] \in Int
  BY <1>2
<1> HIDE DEF h
<1>5. OneToOne(h, S, R)
  <2>1. \A i, j \in S : h[i] = h[j] => i = j
    BY <1>2
  <2>2. \A y \in R : \E x \in S : y = h[x]
    BY <1>3
  <2> HIDE DEF S, R
  <2> QED  BY <1>2, <2>1, <2>2 DEF OneToOne
<1>6. AgreeAlong(q, h, r, S)
  BY <1>4 DEF AgreeAlong
<1> HIDE DEF S, R
<1>7. SumFunctionOnSet(q, R) = SumFunctionOnSet(r, S)
  BY <1>1, <1>5, <1>6, SumImage
<1> QED
  BY <1>7 DEF S, R

\* Every step makes the sum of the places in the queue smaller.
LEMMA QueueShrinks ==
    ASSUME NEW n \in Nat \ {0}, NEW q \in Seq(0 .. 2 * n - 2), ~ Stops(q)
    PROVE  Total(q) \in Nat /\ Total(Onward(q)) \in Nat /\ Total(Onward(q)) < Total(q)
<1> DEFINE D == 0 .. 2 * n - 2
           l == Len(q)
           r == Onward(q)
           k == IF Pairs(q) THEN 2 ELSE 1
           p == Parent(q[1])
<1>1. /\ l \in Nat \ {0} /\ q[1] \in 1 .. 2 * n - 2 /\ r \in Seq(D) /\ k \in 1 .. l
      /\ Len(r) = l - k + 1 /\ r[l - k + 1] = p
      /\ \A i \in 1 .. l - k : r[i] = q[i + k]
  <2>0. l \in Nat \ {0} /\ q[1] \in 1 .. 2 * n - 2 /\ r \in Seq(D)
    BY NextQueue
  <2>1. CASE Pairs(q)
    <3>1. /\ l >= 2 /\ Len(r) = l - 1 /\ r[l - 1] = p
          /\ \A i \in 1 .. l - 2 : r[i] = q[i + 2]
      BY <2>1, NextQueue
    <3>2. k = 2
      BY <2>1
    <3> HIDE DEF k, l, r, p, D
    <3>3. l - k = l - 2 /\ l - k + 1 = l - 1 /\ k \in 1 .. l
      BY <2>0, <3>1, <3>2
    <3> QED  BY ONLY <2>0, <3>1, <3>2, <3>3
  <2>2. CASE ~ Pairs(q)
    <3>1. k = 1 /\ l \in Nat \ {0} /\ l - k = l - 1 /\ l - k + 1 = l
      BY <2>2, NextQueue
    <3>2. Len(r) = l /\ r[l] = p /\ \A i \in 1 .. l - 1 : r[i] = q[i + 1]
      BY <2>2, NextQueue
    <3>3. k \in 1 .. l
      BY <3>1
    <3> HIDE DEF k, l, r, p, D
    <3> QED  BY ONLY <2>0, <3>1, <3>2, <3>3
  <2> QED  BY <2>1, <2>2
<1>2. p \in Nat /\ p < q[1] /\ q[1] \in Nat
  <2>1. p \in 0 .. n - 2 /\ p < q[1]
    BY <1>1, Places
  <2> QED  BY <1>1, <2>1
<1>3. \A i \in 1 .. l : q[i] \in Nat
  OBVIOUS
<1>4. \A i \in 1 .. l - k + 1 : r[i] \in Nat
  <2>1. ASSUME NEW u \in Seq(D)
        PROVE  \A i \in 1 .. Len(u) : u[i] \in Nat
    OBVIOUS
  <2> HIDE DEF r, l, k, D
  <2> QED  BY <1>1, <2>1
<1> HIDE DEF r, l, k, p, D
<1>5. /\ IsFiniteSet(1 .. l) /\ IsFiniteSet(k + 1 .. l) /\ IsFiniteSet(1 .. k) /\ IsFiniteSet(2 .. k)
      /\ IsFiniteSet(1 .. l - k) /\ IsFiniteSet(1 .. l - k + 1)
  <2>1. l \in Int /\ k \in Int /\ k + 1 \in Int /\ l - k \in Int /\ l - k + 1 \in Int
    BY <1>1
  <2>2. \A a, b \in Int : IsFiniteSet(a .. b)
    BY FS_Interval
  <2> QED  BY ONLY <2>1, <2>2
<1>6. Total(r) = p + SumFunctionOnSet(r, 1 .. l - k)
  <2>1. (1 .. l - k) \cup {l - k + 1} = 1 .. l - k + 1 /\ l - k + 1 \notin 1 .. l - k
    BY <1>1
  <2>2. \A i \in 1 .. l - k : r[i] \in Int
    BY <1>1, <1>4
  <2>3. r[l - k + 1] \in Int
    BY <1>1, <1>2
  <2>4. SumFunctionOnSet(r, (1 .. l - k) \cup {l - k + 1}) = r[l - k + 1] + SumFunctionOnSet(r, 1 .. l - k)
    BY ONLY <1>5, <2>1, <2>2, <2>3, SumAdd
  <2> QED  BY <1>1, <2>1, <2>4 DEF Total
<1>7. SumFunctionOnSet(r, 1 .. l - k) = SumFunctionOnSet(q, k + 1 .. l)
  <2>1. l \in Nat /\ k \in 0 .. l /\ \A i \in 1 .. l : q[i] \in Int
    BY <1>1, <1>3
  <2> QED  BY ONLY <1>1, <2>1, SumShift
<1>8. Total(q) = SumFunctionOnSet(q, 1 .. k) + SumFunctionOnSet(q, k + 1 .. l)
  <2>1. (1 .. k) \cup (k + 1 .. l) = 1 .. l /\ (1 .. k) \cap (k + 1 .. l) = {}
    BY <1>1
  <2>2. \A i \in (1 .. k) \cup (k + 1 .. l) : q[i] \in Int
    BY <1>3, <2>1
  <2>3. SumFunctionOnSet(q, (1 .. k) \cup (k + 1 .. l))
           = SumFunctionOnSet(q, 1 .. k) + SumFunctionOnSet(q, k + 1 .. l)
    BY ONLY <1>5, <2>1, <2>2, SumDisjoint
  <2> QED  BY <2>1, <2>3 DEF Total, l
<1>9. SumFunctionOnSet(q, 1 .. k) >= q[1] /\ SumFunctionOnSet(q, 1 .. k) \in Nat
  <2>1. 1 \in 1 .. k /\ (1 .. k) \ {1} = 2 .. k
    BY <1>1
  <2>2. \A i \in 1 .. k : q[i] \in Nat /\ q[i] \in Int
    BY <1>1, <1>3
  <2>3. SumFunctionOnSet(q, 1 .. k) = q[1] + SumFunctionOnSet(q, 2 .. k)
    <3>1. SumFunctionOnSet(q, 1 .. k) = q[1] + SumFunctionOnSet(q, (1 .. k) \ {1})
      BY ONLY <1>5, <2>1, <2>2, SumRemove
    <3> QED  BY <2>1, <3>1
  <2>4. \A i \in 2 .. k : q[i] \in Nat
    BY <2>1, <2>2
  <2>5. SumFunctionOnSet(q, 2 .. k) \in Nat
    BY ONLY <1>5, <2>4, SumNonNegative
  <2> QED  BY <1>2, <2>3, <2>5
<1>10. SumFunctionOnSet(q, k + 1 .. l) \in Nat
  <2>1. \A i \in k + 1 .. l : q[i] \in Nat
    BY <1>1, <1>3
  <2> QED  BY ONLY <1>5, <2>1, SumNonNegative
<1> QED
  BY <1>2, <1>6, <1>7, <1>8, <1>9, <1>10 DEF r

\* Induction over queues: what holds of those at which the walk stops, and of a queue if it
\* holds of the next one, holds of all.
LEMMA QueueInduction ==
    ASSUME NEW n \in Nat \ {0}, NEW P,
           \A q \in Seq(0 .. 2 * n - 2) : Stops(q) \/ Onward(q) \in P => q \in P
    PROVE  \A q \in Seq(0 .. 2 * n - 2) : q \in P
<1> DEFINE Q == Seq(0 .. 2 * n - 2)
           K == {k \in Nat : \A q \in Q : Total(q) < k => q \in P}
<1>1. \A q \in Q : Total(q) \in Nat
  <2> TAKE q \in Q
  <2>1. IsFiniteSet(1 .. Len(q)) /\ \A i \in 1 .. Len(q) : q[i] \in Nat
    <3>1. Len(q) \in Nat /\ \A i \in 1 .. Len(q) : q[i] \in Nat
      OBVIOUS
    <3> QED  BY <3>1, FS_Interval
  <2> QED  BY ONLY <2>1, SumNonNegative DEF Total
<1>2. \A q \in Q : ~ Stops(q) => Onward(q) \in Q /\ Total(Onward(q)) < Total(q)
  BY NextQueue, QueueShrinks
<1>3. \A q \in Q : Stops(q) \/ Onward(q) \in P => q \in P
  OBVIOUS
<1> HIDE DEF Q
<1>4. 0 \in K
  BY <1>1
<1>5. ASSUME NEW k \in Nat, k \in K
      PROVE  k + 1 \in K
  <2>1. ASSUME NEW q \in Q, Total(q) < k + 1
        PROVE  q \in P
    <3>1. CASE Stops(q)
      BY <1>3, <3>1
    <3>2. CASE ~ Stops(q)
      <4>1. Onward(q) \in Q /\ Total(Onward(q)) < Total(q) /\ Total(Onward(q)) \in Nat /\ Total(q) \in Nat
        BY <1>1, <1>2, <3>2
      <4>2. Total(Onward(q)) < k
        BY <2>1, <4>1
      <4> QED  BY <1>3, <1>5, <4>1, <4>2
    <3> QED  BY <3>1, <3>2
  <2> QED  BY <2>1
<1>6. ASSUME NEW q \in Q
      PROVE  q \in P
  <2> DEFINE t == Total(q)
  <2>1. t + 1 \in Nat /\ t < t + 1 /\ t + 1 \in 0 .. t + 1
    BY <1>1
  <2> HIDE DEF K
  <2>2. \A k \in 0 .. t : k \in K => k + 1 \in K
    BY <1>5
  <2>3. \A k \in 0 .. (t + 1) - 1 : k \in K => k + 1 \in K
    BY <1>1, <2>2
  <2>4. t + 1 \in K
    <3> HIDE DEF t
    <3> QED  BY ONLY <1>4, <2>1, <2>3, UpTo
  <2> QED  BY <2>1, <2>4 DEF K
<1> QED
  BY <1>6 DEF Q

-----------------------------------------------------------------------------
\* What the prover makes of a queue

\* One step of MultiProofFrom, given what the rest of the walk yields.
Walked(queue, rest, tree) ==
    IF Stops(queue)
    THEN [path |-> <<>>, flags |-> <<>>]
    ELSE [path  |-> (IF Pairs(queue) THEN <<>> ELSE <<tree[Sibling(queue[1])]>>) \o rest.path,
          flags |-> <<Pairs(queue)>> \o rest.flags]

\* w gives the walks of the queues of Q, by the recursion of MultiProofFrom.
AreWalks(w, Q, tree) == w = [queue \in Q |-> Walked(queue, w[Onward(queue)], tree)]

\* Walks of some queues, those that follow them among them.
Closed(Q) == \A q \in Q : Stops(q) \/ Onward(q) \in Q

\* A walk depends on the next one only, and on none where it stops.
LEMMA WalkedOf ==
    ASSUME NEW q, NEW a, NEW b, NEW tree, Stops(q) \/ a = b
    PROVE  Walked(q, a, tree) = Walked(q, b, tree)
  BY DEF Walked

\* There are walks of all queues: the walk of a queue is put together from that of the
\* next one, and there is one only.
LEMMA WalksDefined ==
    ASSUME NEW n \in Nat \ {0}, NEW tree
    PROVE  \E w : AreWalks(w, Seq(0 .. 2 * n - 2), tree)
<1> DEFINE Q == Seq(0 .. 2 * n - 2)
           Solution(S, w, q) == S \in SUBSET Q /\ Closed(S) /\ AreWalks(w, S, tree) /\ q \in S
           P == {q \in Q : \E S, w : Solution(S, w, q)}
<1>1. \A q \in Q : ~ Stops(q) => Onward(q) \in Q
  BY NextQueue
<1>2. ASSUME NEW q \in Q, NEW S \in SUBSET Q, NEW g, Closed(S), AreWalks(g, S, tree),
             Stops(q) \/ Onward(q) \in S
      PROVE  q \in P
  <2> DEFINE R == S \cup {q}
             w == [x \in R |-> IF x \in S THEN g[x] ELSE Walked(x, g[Onward(x)], tree)]
  <2>1. R \in SUBSET Q /\ q \in R /\ Closed(R)
    BY <1>2 DEF Closed
  <2>2. \A x \in S : w[x] = g[x]
    OBVIOUS
  <2>3. \A x \in R : w[x] = Walked(x, g[Onward(x)], tree)
    BY <1>2 DEF AreWalks
  <2>4. \A x \in R : Stops(x) \/ Onward(x) \in S
    BY <1>2 DEF Closed
  <2>5. \A x \in R : w[x] = Walked(x, w[Onward(x)], tree)
    <3> TAKE x \in R
    <3>1. Stops(x) \/ g[Onward(x)] = w[Onward(x)]
      BY <2>2, <2>4
    <3> HIDE DEF w
    <3> QED  BY <2>3, <3>1, WalkedOf
  <2>6. w = [x \in R |-> w[x]]
    OBVIOUS
  <2> HIDE DEF w, R, Q
  <2>7. AreWalks(w, R, tree)
    BY <2>5, <2>6 DEF AreWalks
  <2> QED  BY <2>1, <2>7
<1>3. \A q \in Q : Stops(q) \/ Onward(q) \in P => q \in P
  <2> TAKE q \in Q
  <2>1. CASE Stops(q)
    <3> DEFINE g == [x \in {} |-> Walked(x, x, tree)]
    <3>1. {} \in SUBSET Q /\ Closed({}) /\ AreWalks(g, {}, tree)
      BY DEF Closed, AreWalks
    <3> HIDE DEF g, P, Q
    <3> QED  BY <1>2, <2>1, <3>1
  <2>2. CASE Onward(q) \in P
    <3>1. PICK S, g : Solution(S, g, Onward(q))
      BY <2>2
    <3> HIDE DEF P, Q
    <3> QED  BY <1>2, <3>1
  <2> QED  BY <2>1, <2>2
<1>4. \A q \in Q : q \in P
  <2> HIDE DEF P
  <2> QED  BY <1>3, QueueInduction
<1> HIDE DEF Q
<1>5. ASSUME NEW S \in SUBSET Q, NEW R \in SUBSET Q, NEW g, NEW h, Closed(S), Closed(R),
             AreWalks(g, S, tree), AreWalks(h, R, tree)
      PROVE  \A q \in Q : q \in S /\ q \in R => g[q] = h[q]
  <2> DEFINE E == {q \in Q : q \in S /\ q \in R => g[q] = h[q]}
  <2>1. ASSUME NEW q \in Q, Stops(q) \/ Onward(q) \in E
        PROVE  q \in E
    <3>1. ASSUME q \in S, q \in R
          PROVE  g[q] = h[q]
      <4>1. g[q] = Walked(q, g[Onward(q)], tree) /\ h[q] = Walked(q, h[Onward(q)], tree)
        BY <1>5, <3>1 DEF AreWalks
      <4>2. Stops(q) \/ g[Onward(q)] = h[Onward(q)]
        BY <1>5, <2>1, <3>1 DEF Closed
      <4> QED  BY <4>1, <4>2, WalkedOf
    <3> QED  BY <3>1
  <2>2. \A q \in Q : q \in E
    <3> HIDE DEF E
    <3> QED  BY <2>1, QueueInduction DEF Q
  <2> QED  BY <2>2
<1> DEFINE S(q) == CHOOSE S : \E g : Solution(S, g, q)
           g(q) == CHOOSE g : Solution(S(q), g, q)
           w == [q \in Q |-> g(q)[q]]
<1>6. ASSUME NEW q \in Q
      PROVE  Solution(S(q), g(q), q)
  <2>1. \E R, h : Solution(R, h, q)
    BY <1>4
  <2> HIDE DEF Solution
  <2> QED  BY <2>1
<1> HIDE DEF S, g
<1>7. ASSUME NEW q \in Q
      PROVE  w[q] = Walked(q, w[Onward(q)], tree)
  <2>1. Solution(S(q), g(q), q)
    BY <1>6
  <2>2. g(q)[q] = Walked(q, g(q)[Onward(q)], tree)
    BY <2>1 DEF AreWalks
  <2>3. CASE ~ Stops(q)
    <3> DEFINE r == Onward(q)
    <3>1. r \in Q /\ r \in S(q)
      BY <1>1, <2>1, <2>3 DEF Closed, Q
    <3> HIDE DEF r
    <3>2. Solution(S(r), g(r), r)
      BY <1>6, <3>1
    <3>3. g(q)[r] = g(r)[r]
      BY <1>5, <2>1, <3>1, <3>2
    <3>4. w[r] = g(r)[r] /\ w[q] = g(q)[q]
      BY <3>1
    <3> HIDE DEF w
    <3> QED  BY <2>2, <3>3, <3>4 DEF r
  <2>4. CASE Stops(q)
    <3>1. w[q] = g(q)[q]
      OBVIOUS
    <3> HIDE DEF w
    <3> QED  BY <2>2, <2>4, <3>1, WalkedOf
  <2> QED  BY <2>3, <2>4
<1>8. w = [q \in Q |-> w[q]]
  OBVIOUS
<1> HIDE DEF w
<1>9. AreWalks(w, Q, tree)
  BY <1>7, <1>8 DEF AreWalks
<1> QED
  BY <1>9 DEF Q

\* MultiProofFrom yields such a walk.
LEMMA WalkOf ==
    ASSUME NEW n \in Nat \ {0}, NEW tree, DOMAIN tree = 0 .. 2 * n - 2
    PROVE  \E w : /\ AreWalks(w, Seq(0 .. 2 * n - 2), tree)
                  /\ \A q \in Seq(0 .. 2 * n - 2) : q # <<>> => MultiProofFrom(tree, q) = w[q]
<1> DEFINE Q == Seq(0 .. 2 * n - 2)
           prove == CHOOSE prove : AreWalks(prove, Q, tree)
<1>1. \A q : q # <<>> => MultiProofFrom(tree, q) = prove[q]
  BY DEF MultiProofFrom, AreWalks, Walked, Stops, Onward
<1>2. AreWalks(prove, Q, tree)
  BY WalksDefined
<1> HIDE DEF prove
<1> QED
  BY <1>1, <1>2

-----------------------------------------------------------------------------
\* What the verifier makes of a list of hashes

\* How many of the first k flags ask for a hash of the path.
Cursor(flags, k) == Cardinality({i \in 1 .. k : ~ flags[i]})

LEMMA CursorStep ==
    ASSUME NEW flags, NEW k \in Nat
    PROVE  /\ Cursor(flags, 0) = 0 /\ Cursor(flags, k) \in Nat
           /\ Cursor(flags, k + 1) = IF flags[k + 1] THEN Cursor(flags, k) ELSE Cursor(flags, k) + 1
<1> DEFINE S(j) == {i \in 1 .. j : ~ flags[i]}
<1>1. S(0) = {} /\ Cardinality({}) = 0
  BY FS_EmptySet
<1>2. IsFiniteSet(S(k))
  <2>1. IsFiniteSet(1 .. k) /\ S(k) \subseteq 1 .. k
    BY FS_Interval
  <2> HIDE DEF S
  <2> QED  BY <2>1, FS_Subset
<1>3. CASE flags[k + 1]
  <2>1. S(k + 1) = S(k)
    <3>1. \A i \in 1 .. k + 1 : i \in 1 .. k \/ i = k + 1
      OBVIOUS
    <3>2. \A i \in 1 .. k : i \in 1 .. k + 1
      OBVIOUS
    <3> QED  BY <1>3, <3>1, <3>2
  <2> HIDE DEF S
  <2> QED  BY <1>1, <1>2, <1>3, <2>1, FS_CardinalityType DEF Cursor, S
<1>4. CASE ~ flags[k + 1]
  <2>1. S(k + 1) = S(k) \cup {k + 1} /\ k + 1 \notin S(k)
    <3>1. \A i \in 1 .. k + 1 : i \in 1 .. k \/ i = k + 1
      OBVIOUS
    <3>2. k + 1 \in 1 .. k + 1 /\ k + 1 \notin 1 .. k /\ \A i \in 1 .. k : i \in 1 .. k + 1
      OBVIOUS
    <3> QED  BY <1>4, <3>1, <3>2
  <2> HIDE DEF S
  <2>2. Cardinality(S(k + 1)) = Cardinality(S(k)) + 1
    BY <1>2, <2>1, FS_AddElement
  <2> QED  BY <1>1, <1>2, <1>4, <2>2, FS_CardinalityType DEF Cursor, S
<1> QED
  BY <1>3, <1>4

\* The cursor moves on by at most one for each flag.
LEMMA CursorGrows ==
    ASSUME NEW flags, NEW k \in Nat, NEW n \in Nat, k <= n
    PROVE  Cursor(flags, k) <= Cursor(flags, n) /\ Cursor(flags, n) <= Cursor(flags, k) + (n - k)
<1> DEFINE S == {j \in 0 .. n - k : /\ Cursor(flags, k) <= Cursor(flags, k + j)
                                    /\ Cursor(flags, k + j) <= Cursor(flags, k) + j}
<1>1. 0 \in S
  <2>1. k + 0 = k /\ Cursor(flags, k) \in Nat /\ 0 \in 0 .. n - k
    BY CursorStep
  <2> QED  BY <2>1
<1>2. ASSUME NEW j \in 0 .. (n - k) - 1, j \in S
      PROVE  j + 1 \in S
  <2>1. k + j \in Nat /\ k + (j + 1) = (k + j) + 1 /\ j + 1 \in 0 .. n - k
    OBVIOUS
  <2>2. /\ Cursor(flags, k) \in Nat /\ Cursor(flags, k + j) \in Nat
        /\ Cursor(flags, k + (j + 1)) \in {Cursor(flags, k + j), Cursor(flags, k + j) + 1}
    BY <2>1, CursorStep
  <2> QED  BY <1>2, <2>1, <2>2
<1> HIDE DEF S
<1>3. n - k \in S
  <2>1. n - k \in Nat /\ n - k \in 0 .. n - k
    OBVIOUS
  <2>2. \A j \in 0 .. n - k : j \in S
    BY ONLY <1>1, <1>2, <2>1, UpTo
  <2> QED  BY <2>1, <2>2
<1>4. k + (n - k) = n
  OBVIOUS
<1> QED
  BY <1>3, <1>4 DEF S

\* A flag before the others moves every cursor by one, if it asks for a hash.
LEMMA CursorShift ==
    ASSUME NEW n \in Nat, NEW flags, NEW longer, \A k \in 1 .. n : longer[k + 1] = flags[k]
    PROVE  \A k \in 0 .. n : Cursor(longer, k + 1) = Cursor(flags, k) + (IF longer[1] THEN 0 ELSE 1)
<1> DEFINE d == IF longer[1] THEN 0 ELSE 1
           S == {k \in 0 .. n : Cursor(longer, k + 1) = Cursor(flags, k) + d}
<1>1. 0 \in S
  <2>1. 0 \in Nat /\ 0 + 1 = 1 /\ 0 \in 0 .. n
    OBVIOUS
  <2>2. Cursor(longer, 0) = 0 /\ Cursor(flags, 0) = 0
    BY <2>1, CursorStep
  <2>3. Cursor(longer, 0 + 1) = IF longer[0 + 1] THEN Cursor(longer, 0) ELSE Cursor(longer, 0) + 1
    BY ONLY <2>1, CursorStep
  <2> QED  BY <2>1, <2>2, <2>3
<1>2. ASSUME NEW k \in 0 .. n - 1, k \in S
      PROVE  k + 1 \in S
  <2>1. k \in Nat /\ k + 1 \in Nat /\ k + 1 \in 1 .. n /\ k + 1 \in 0 .. n
    OBVIOUS
  <2>2. longer[(k + 1) + 1] = flags[k + 1]
    BY <2>1
  <2>3. /\ Cursor(longer, (k + 1) + 1)
               = IF flags[k + 1] THEN Cursor(longer, k + 1) ELSE Cursor(longer, k + 1) + 1
        /\ Cursor(flags, k + 1) = IF flags[k + 1] THEN Cursor(flags, k) ELSE Cursor(flags, k) + 1
        /\ Cursor(flags, k) \in Nat
    BY <2>1, <2>2, CursorStep
  <2> QED  BY <1>2, <2>1, <2>3
<1> HIDE DEF S
<1>3. \A k \in 0 .. n : k \in S
  BY <1>1, <1>2, UpTo
<1> QED
  BY <1>3 DEF S

\* One step of VerifyMultiProof: two hashes of the stack are joined, or one with a hash of
\* the path.
Joined(s, flag, hash) ==
    IF flag
    THEN Append(Tail(Tail(s)), HashPair(s[1], s[2]))
    ELSE Append(Tail(s), HashPair(s[1], hash))

LEMMA JoinedOf ==
    ASSUME NEW s, NEW flag, NEW a, NEW b, flag \/ a = b
    PROVE  Joined(s, flag, a) = Joined(s, flag, b)
  BY DEF Joined

\* st[k] is the stack after the first k flags, by the recursion of VerifyMultiProof.
AreStacks(st, n, leaves, flags, path) ==
    st = [k \in 0 .. n |->
            IF k = 0 THEN leaves ELSE Joined(st[k - 1], flags[k], path[Cursor(flags, k)])]

LEMMA StacksDefined ==
    ASSUME NEW n \in Nat, NEW leaves, NEW flags, NEW path
    PROVE  \E st : AreStacks(st, n, leaves, flags, path)
<1> DEFINE K == {k \in 0 .. n : \E st : AreStacks(st, k, leaves, flags, path)}
<1>1. 0 \in K
  <2> DEFINE st == [k \in 0 .. 0 |-> IF k = 0 THEN leaves ELSE leaves]
  <2>1. \A k \in 0 .. 0 : k = 0
    OBVIOUS
  <2>2. AreStacks(st, 0, leaves, flags, path)
    BY <2>1 DEF AreStacks
  <2>3. 0 \in 0 .. n
    OBVIOUS
  <2> HIDE DEF st
  <2> QED  BY ONLY <2>2, <2>3 DEF K
<1>2. ASSUME NEW k \in 0 .. n - 1, k \in K
      PROVE  k + 1 \in K
  <2>1. PICK g : AreStacks(g, k, leaves, flags, path)
    BY <1>2
  <2> DEFINE st == [j \in 0 .. k + 1 |->
                     IF j = 0 THEN leaves ELSE Joined(g[j - 1], flags[j], path[Cursor(flags, j)])]
  <2>2. \A j \in 0 .. k : st[j] = g[j]
    <3> TAKE j \in 0 .. k
    <3>1. j \in 0 .. k + 1
      OBVIOUS
    <3> HIDE DEF K
    <3> QED  BY <2>1, <3>1 DEF AreStacks
  <2>3. ASSUME NEW j \in 0 .. k + 1, j # 0
        PROVE  st[j] = Joined(st[j - 1], flags[j], path[Cursor(flags, j)])
    <3>1. j - 1 \in 0 .. k
      BY ONLY <2>3, k \in 0 .. n - 1, n \in Nat
    <3>2. st[j] = Joined(g[j - 1], flags[j], path[Cursor(flags, j)])
      BY <2>3
    <3> HIDE DEF st
    <3> QED  BY <2>2, <3>1, <3>2
  <2>4. AreStacks(st, k + 1, leaves, flags, path)
    BY <2>3 DEF AreStacks
  <2>5. k + 1 \in 0 .. n
    OBVIOUS
  <2> HIDE DEF st
  <2> QED  BY ONLY <2>4, <2>5 DEF K
<1> HIDE DEF K
<1>3. \A k \in 0 .. n : k \in K
  BY <1>1, <1>2, UpTo
<1>4. n \in K
  BY <1>3
<1> QED
  BY ONLY <1>4 DEF K

\* What the verifier asks of the last stack.
Accepts(st, root, leaves, flags, path) ==
    LET n == Len(flags)
        left == Len(path) - Cursor(flags, n)
    IN /\ Len(path) >= Cursor(flags, n)
       /\ Len(leaves) + Len(path) = n + 1
       /\ \/ Len(st[n]) = 1 /\ left = 0 /\ root = st[n][1]
          \/ Len(st[n]) = 0 /\ left = 1 /\ root = path[Len(path)]

LEMMA VerifiedBy ==
    ASSUME NEW root, NEW leaves, NEW flags, NEW path, Len(flags) \in Nat
    PROVE  \E st : /\ AreStacks(st, Len(flags), leaves, flags, path)
                   /\ VerifyMultiProof(root, leaves, [path |-> path, flags |-> flags])
                        <=> Accepts(st, root, leaves, flags, path)
<1> DEFINE stack == CHOOSE stack : AreStacks(stack, Len(flags), leaves, flags, path)
           proof == [path |-> path, flags |-> flags]
<1>1. proof.path = path /\ proof.flags = flags
  OBVIOUS
<1>2. VerifyMultiProof(root, leaves, proof) <=> Accepts(stack, root, leaves, flags, path)
  <2> HIDE DEF proof
  <2> QED  BY <1>1 DEF VerifyMultiProof, Accepts, AreStacks, Joined, Cursor
<1>3. AreStacks(stack, Len(flags), leaves, flags, path)
  BY StacksDefined
<1> HIDE DEF stack
<1> QED
  BY <1>2, <1>3

\* The stacks after the first one are those of the rest of the flags and the path.
LEMMA StacksShift ==
    ASSUME NEW n \in Nat, NEW F, NEW flags \in Seq(F), Len(flags) = n, NEW b \in BOOLEAN,
           NEW H, NEW path \in Seq(H), NEW x \in H, Len(path) = Cursor(flags, n), NEW leaves,
           NEW st, AreStacks(st, n + 1, leaves, <<b>> \o flags, (IF b THEN <<>> ELSE <<x>>) \o path)
    PROVE  AreStacks([k \in 0 .. n |-> st[k + 1]], n, Joined(leaves, b, x), flags, path)
<1> DEFINE longer == <<b>> \o flags
           all == (IF b THEN <<>> ELSE <<x>>) \o path
           d == IF b THEN 0 ELSE 1
           s == [k \in 0 .. n |-> st[k + 1]]
<1>1. /\ longer[1] = b /\ \A k \in 1 .. n : longer[k + 1] = flags[k]
  OBVIOUS
<1>2. \A k \in 1 .. Len(path) : all[k + d] = path[k]
  <2>1. CASE b
    <3>1. all = path
      BY <2>1
    <3> QED  BY <2>1, <3>1
  <2>2. CASE ~ b
    <3>1. all = <<x>> \o path
      BY <2>2
    <3> QED  BY <2>2, <3>1
  <2> QED  BY <2>1, <2>2
<1>3. ~ b => all[1] = x
  OBVIOUS
<1> HIDE DEF longer, all
<1>4. \A k \in 0 .. n : Cursor(longer, k + 1) = Cursor(flags, k) + d
  <2>1. \A k \in 0 .. n : Cursor(longer, k + 1) = Cursor(flags, k) + (IF longer[1] THEN 0 ELSE 1)
    BY ONLY <1>1, n \in Nat, CursorShift
  <2>2. (IF longer[1] THEN 0 ELSE 1) = d
    BY <1>1
  <2> HIDE DEF d
  <2> QED  BY ONLY <2>1, <2>2
<1>5. \A k \in 0 .. n : k + 1 \in 0 .. n + 1 /\ k + 1 # 0 /\ (k + 1) - 1 = k
  OBVIOUS
<1>6. \A k \in 0 .. n : st[k + 1] = Joined(st[k], longer[k + 1], all[Cursor(longer, k + 1)])
  BY <1>5 DEF AreStacks, longer, all
<1>7. st[0] = leaves
  <2>1. 0 \in 0 .. n + 1
    OBVIOUS
  <2> QED  BY <2>1 DEF AreStacks
<1>8. st[1] = Joined(leaves, b, x)
  <2>1. 0 \in 0 .. n /\ 0 + 1 = 1 /\ Cursor(flags, 0) = 0
    BY CursorStep
  <2>2. st[1] = Joined(leaves, b, all[d])
    BY <1>1, <1>4, <1>6, <1>7, <2>1
  <2>3. b \/ all[d] = x
    BY <1>3
  <2> QED  BY <2>2, <2>3, JoinedOf
<1>9. ASSUME NEW k \in 1 .. n
      PROVE  st[k + 1] = Joined(st[k], flags[k], path[Cursor(flags, k)])
  <2>1. k \in 0 .. n /\ k \in Nat /\ k - 1 \in Nat /\ (k - 1) + 1 = k /\ k <= n
    OBVIOUS
  <2>2. st[k + 1] = Joined(st[k], flags[k], all[Cursor(flags, k) + d])
    BY <1>1, <1>4, <1>6, <2>1
  <2>3. ASSUME ~ flags[k]
        PROVE  Cursor(flags, k) \in 1 .. Len(path)
    <3>1. Cursor(flags, k) = Cursor(flags, k - 1) + 1 /\ Cursor(flags, k - 1) \in Nat
      BY <2>1, <2>3, CursorStep
    <3>2. Cursor(flags, k) <= Cursor(flags, n) /\ Len(path) \in Nat
      BY <2>1, CursorGrows
    <3> QED  BY <3>1, <3>2
  <2>4. flags[k] \/ all[Cursor(flags, k) + d] = path[Cursor(flags, k)]
    BY <1>2, <2>3
  <2> QED  BY <2>2, <2>4, JoinedOf
<1>10. \A k \in 0 .. n :
          s[k] = IF k = 0 THEN Joined(leaves, b, x)
                 ELSE Joined(s[k - 1], flags[k], path[Cursor(flags, k)])
  <2> TAKE k \in 0 .. n
  <2>1. CASE k = 0
    BY <1>8, <2>1
  <2>2. CASE k # 0
    <3>1. k \in 1 .. n /\ k - 1 \in 0 .. n /\ (k - 1) + 1 = k
      BY <2>2
    <3>2. s[k] = st[k + 1] /\ s[k - 1] = st[k]
      BY <3>1
    <3> HIDE DEF s
    <3> QED  BY <1>9, <2>2, <3>1, <3>2
  <2> QED  BY <2>1, <2>2
<1>11. s = [k \in 0 .. n |-> s[k]]
  OBVIOUS
<1> HIDE DEF s
<1>12. AreStacks(s, n, Joined(leaves, b, x), flags, path)
  BY <1>10, <1>11 DEF AreStacks
<1> QED
  BY <1>12 DEF s

-----------------------------------------------------------------------------
\* The proof of a queue

\* Hashes of the tree.
TreeHashes(n, tree) == {tree[j] : j \in 0 .. 2 * n - 2}

\* A proof asks for as many hashes of its path as it has.
LEMMA WalkType ==
    ASSUME NEW n \in Nat \ {0}, NEW tree, NEW w, AreWalks(w, Seq(0 .. 2 * n - 2), tree)
    PROVE  \A q \in Seq(0 .. 2 * n - 2) :
             /\ w[q].flags \in Seq(BOOLEAN)
             /\ w[q].path \in Seq(TreeHashes(n, tree))
             /\ Len(w[q].path) = Cursor(w[q].flags, Len(w[q].flags))
<1> DEFINE Q == Seq(0 .. 2 * n - 2)
           H == TreeHashes(n, tree)
           P == {q \in Q : /\ w[q].flags \in Seq(BOOLEAN) /\ w[q].path \in Seq(H)
                           /\ Len(w[q].path) = Cursor(w[q].flags, Len(w[q].flags))}
<1>1. ASSUME NEW q \in Q, Stops(q) \/ Onward(q) \in P
      PROVE  q \in P
  <2>1. w[q] = Walked(q, w[Onward(q)], tree)
    BY DEF AreWalks
  <2>2. CASE Stops(q)
    <3>1. w[q] = [path |-> <<>>, flags |-> <<>>]
      BY <2>1, <2>2 DEF Walked
    <3>2. w[q].path = <<>> /\ w[q].flags = <<>>
      BY <3>1
    <3>3. ASSUME NEW G, NEW u, u = <<>>
          PROVE  u \in Seq(G) /\ Len(u) = 0
      BY <3>3
    <3>4. Cursor(<<>>, 0) = 0 /\ Len(<<>>) = 0
      BY CursorStep
    <3> HIDE DEF H, Q
    <3>5. w[q].path \in Seq(H) /\ w[q].flags \in Seq(BOOLEAN)
      BY ONLY <3>2, <3>3
    <3> QED  BY <3>2, <3>4, <3>5
  <2>3. CASE ~ Stops(q)
    <3> DEFINE r == w[Onward(q)]
               b == Pairs(q)
               x == tree[Sibling(q[1])]
               front == IF b THEN <<>> ELSE <<x>>
               m == Len(r.flags)
    <3>1. r.flags \in Seq(BOOLEAN) /\ r.path \in Seq(H) /\ Len(r.path) = Cursor(r.flags, m)
      BY <1>1, <2>3
    <3>2. w[q].path = front \o r.path /\ w[q].flags = <<b>> \o r.flags
      <4>1. w[q] = [path |-> front \o r.path, flags |-> <<b>> \o r.flags]
        BY <2>1, <2>3 DEF Walked
      <4>2. \A u, a, c : u = [path |-> a, flags |-> c] => u.path = a /\ u.flags = c
        OBVIOUS
      <4> HIDE DEF front, r, b
      <4> QED  BY ONLY <4>1, <4>2
    <3>3. x \in H /\ b \in BOOLEAN
      <4>1. Sibling(q[1]) \in 0 .. 2 * n - 2
        <5>1. Sibling(q[1]) \in 1 .. 2 * n - 2
          BY <2>3, NextQueue, Places
        <5> QED  BY <5>1
      <4> QED  BY <4>1 DEF TreeHashes, Pairs
    <3> HIDE DEF r, b, x, H, Q
    <3>4. front \in Seq(H) /\ <<b>> \in Seq(BOOLEAN) /\ Len(front) = IF b THEN 0 ELSE 1
      BY <3>3
    <3>5. ASSUME NEW G, NEW u \in Seq(G), NEW v \in Seq(G)
          PROVE  u \o v \in Seq(G) /\ Len(u \o v) = Len(u) + Len(v)
      BY <3>5
    <3>6. /\ w[q].path \in Seq(H) /\ Len(w[q].path) = Len(front) + Len(r.path)
          /\ w[q].flags \in Seq(BOOLEAN)
      BY <3>1, <3>2, <3>4, <3>5
    <3>7. /\ Len(w[q].flags) = m + 1 /\ m \in Nat /\ w[q].flags[1] = b
          /\ \A k \in 1 .. m : w[q].flags[k + 1] = r.flags[k]
      BY <3>1, <3>2, <3>3
    <3> HIDE DEF front, m
    <3>8. Cursor(w[q].flags, m + 1) = Cursor(r.flags, m) + (IF b THEN 0 ELSE 1)
      <4> DEFINE longer == w[q].flags
                 shorter == r.flags
      <4>1. longer[1] = b /\ \A k \in 1 .. m : longer[k + 1] = shorter[k]
        BY <3>7
      <4>2. m \in Nat /\ m \in 0 .. m
        BY <3>7
      <4> HIDE DEF longer, shorter
      <4>3. \A k \in 0 .. m : Cursor(longer, k + 1) = Cursor(shorter, k) + (IF longer[1] THEN 0 ELSE 1)
        BY ONLY <4>1, <4>2, CursorShift
      <4> QED  BY <4>1, <4>2, <4>3 DEF longer, shorter
    <3>9. Cursor(r.flags, m) \in Nat
      BY <3>7, CursorStep
    <3>10. Len(w[q].path) = Cursor(w[q].flags, Len(w[q].flags))
      BY ONLY <3>1, <3>4, <3>6, <3>7, <3>8, <3>9
    <3> QED  BY <3>6, <3>10
  <2> QED  BY <2>2, <2>3
<1> HIDE DEF P
<1>2. \A q \in Q : q \in P
  BY <1>1, QueueInduction
<1> QED
  BY <1>2 DEF P

\* A hash of the tree, joined with its sibling, is the hash at their parent.
LEMMA PairUp ==
    ASSUME NEW leaves, Len(leaves) \in Nat \ {0}, NEW tree, IsTree(tree, leaves),
           NEW i \in 1 .. 2 * Len(leaves) - 2
    PROVE  tree[Parent(i)] = HashPair(tree[i], tree[Sibling(i)])
<1> DEFINE n == Len(leaves)
           p == Parent(i)
           s == Sibling(i)
<1>1. n \in Nat /\ i \in 1 .. 2 * n - 2
  OBVIOUS
<1> HIDE DEF n
<1>2. /\ p \in 0 .. n - 2
      /\ \/ i = LeftChild(p) /\ s = RightChild(p)
         \/ i = RightChild(p) /\ s = LeftChild(p)
  BY ONLY <1>1, Places
<1> HIDE DEF p, s
<1>3. tree[p] = HashPair(tree[LeftChild(p)], tree[RightChild(p)])
  BY <1>2 DEF IsTree, n
<1>4. tree[p] = HashPair(tree[i], tree[s])
  BY <1>2, <1>3 DEF HashPair
<1> QED
  BY <1>4 DEF p, s

\* s has the hashes at the places of the queue.
AreHashes(s, q, tree) == IsList(s) /\ Len(s) = Len(q) /\ \A i \in 1 .. Len(q) : s[i] = tree[q[i]]

\* s has another hash at one place, and only there.
OneDiffers(s, q, tree) ==
    /\ IsList(s) /\ Len(s) = Len(q)
    /\ \E k \in 1 .. Len(q) : s[k] # tree[q[k]] /\ \A i \in (1 .. Len(q)) \ {k} : s[i] = tree[q[i]]

\* The list after a step, item by item.
LEMMA JoinedIs ==
    ASSUME NEW s, IsList(s), NEW flag \in BOOLEAN, Len(s) >= (IF flag THEN 2 ELSE 1), NEW hash
    PROVE  LET r == Joined(s, flag, hash)
               d == IF flag THEN 2 ELSE 1
               l == Len(s) - d + 1
           IN  /\ IsList(r) /\ Len(r) = l
               /\ r[l] = HashPair(s[1], IF flag THEN s[2] ELSE hash)
               /\ \A i \in 1 .. l - 1 : r[i] = s[i + d]
<1>1. PICK G : s \in Seq(G)
  BY DEF IsList
<1> DEFINE x == HashPair(s[1], IF flag THEN s[2] ELSE hash)
           H == G \cup {x}
<1>2. s \in Seq(H) /\ x \in H /\ Len(s) \in Nat
  BY <1>1
<1> HIDE DEF H
<1>3. CASE flag
  <2>1. Joined(s, flag, hash) = Append(Tail(Tail(s)), x)
    BY <1>3 DEF Joined
  <2>2. Len(s) >= 2 /\ Len(s) - 2 + 1 = Len(s) - 1 /\ (Len(s) - 2 + 1) - 1 = Len(s) - 2
    BY <1>2, <1>3
  <2> HIDE DEF x
  <2>3. LET r == Append(Tail(Tail(s)), x)
        IN  /\ r \in Seq(H) /\ Len(r) = Len(s) - 1 /\ r[Len(s) - 1] = x
            /\ \A i \in 1 .. Len(s) - 2 : r[i] = s[i + 2]
    BY ONLY <1>2, <2>2, TakeTwo
  <2> QED  BY <1>3, <2>1, <2>2, <2>3 DEF IsList, x
<1>4. CASE ~ flag
  <2>1. Joined(s, flag, hash) = Append(Tail(s), x)
    BY <1>4 DEF Joined
  <2>2. Len(s) >= 1 /\ Len(s) - 1 + 1 = Len(s) /\ (Len(s) - 1 + 1) - 1 = Len(s) - 1
    BY <1>2, <1>4
  <2> HIDE DEF x
  <2>3. LET r == Append(Tail(s), x)
        IN  /\ r \in Seq(H) /\ Len(r) = Len(s) /\ r[Len(s)] = x
            /\ \A i \in 1 .. Len(s) - 1 : r[i] = s[i + 1]
    BY ONLY <1>2, <2>2, TakeOne
  <2> DEFINE r == Joined(s, flag, hash)
  <2>4. /\ r \in Seq(H) /\ Len(r) = Len(s) /\ r[Len(s)] = x
        /\ \A i \in 1 .. Len(s) - 1 : r[i] = s[i + 1]
    BY ONLY <2>1, <2>3
  <2> HIDE DEF r
  <2>5. /\ IsList(r) /\ Len(r) = Len(s) - 1 + 1 /\ r[Len(s) - 1 + 1] = x
        /\ \A i \in 1 .. (Len(s) - 1 + 1) - 1 : r[i] = s[i + 1]
    BY ONLY <2>2, <2>4 DEF IsList
  <2>6. (IF flag THEN 2 ELSE 1) = 1
    BY <1>4
  <2> QED  BY ONLY <1>4, <2>5, <2>6 DEF r, x
<1> QED
  BY <1>3, <1>4

\* The queue after a step, item by item.
LEMMA OnwardIs ==
    ASSUME NEW n \in Nat \ {0}, NEW q \in Seq(0 .. 2 * n - 2), ~ Stops(q)
    PROVE  LET d == IF Pairs(q) THEN 2 ELSE 1
               l == Len(q) - d + 1
           IN  /\ Len(q) \in Nat /\ Len(q) >= d /\ q[1] \in 1 .. 2 * n - 2
               /\ Onward(q) \in Seq(0 .. 2 * n - 2) /\ Len(Onward(q)) = l
               /\ Onward(q)[l] = Parent(q[1])
               /\ \A i \in 1 .. l - 1 : Onward(q)[i] = q[i + d]
<1>1. Len(q) \in Nat \ {0} /\ q[1] \in 1 .. 2 * n - 2 /\ Onward(q) \in Seq(0 .. 2 * n - 2)
  BY NextQueue
<1>2. CASE Pairs(q)
  <2>1. /\ Len(q) >= 2 /\ Len(Onward(q)) = Len(q) - 1
        /\ Onward(q)[Len(q) - 1] = Parent(q[1])
        /\ \A i \in 1 .. Len(q) - 2 : Onward(q)[i] = q[i + 2]
    BY <1>2, NextQueue
  <2>2. Len(q) - 2 + 1 = Len(q) - 1 /\ (Len(q) - 2 + 1) - 1 = Len(q) - 2
    BY <1>1
  <2> QED  BY <1>1, <1>2, <2>1, <2>2
<1>3. CASE ~ Pairs(q)
  <2>1. /\ Len(Onward(q)) = Len(q)
        /\ Onward(q)[Len(q)] = Parent(q[1])
        /\ \A i \in 1 .. Len(q) - 1 : Onward(q)[i] = q[i + 1]
    BY <1>3, NextQueue
  <2>2. Len(q) - 1 + 1 = Len(q) /\ (Len(q) - 1 + 1) - 1 = Len(q) - 1 /\ Len(q) >= 1
    BY <1>1
  <2> QED  BY <1>1, <1>3, <2>1, <2>2
<1> QED
  BY <1>2, <1>3

\* A step from the hashes of a queue leads to those of the next one, and from hashes of which
\* one differs to such hashes.
LEMMA StepHashes ==
    ASSUME NEW leaves, Len(leaves) \in Nat \ {0}, NEW tree, IsTree(tree, leaves),
           NEW q \in Seq(0 .. 2 * Len(leaves) - 2), ~ Stops(q), NEW s
    PROVE  LET r == Joined(s, Pairs(q), tree[Sibling(q[1])])
           IN  /\ AreHashes(s, q, tree) => AreHashes(r, Onward(q), tree)
               /\ OneDiffers(s, q, tree) => OneDiffers(r, Onward(q), tree)
<1> DEFINE n == Len(leaves)
           flag == Pairs(q)
           x == tree[Sibling(q[1])]
           r == Joined(s, flag, x)
           p == Onward(q)
           d == IF flag THEN 2 ELSE 1
           l == Len(q) - d + 1
<1>1. /\ Len(q) \in Nat /\ Len(q) >= d /\ q[1] \in 1 .. 2 * n - 2
      /\ Len(p) = l /\ p[l] = Parent(q[1])
      /\ \A i \in 1 .. l - 1 : p[i] = q[i + d]
  BY OnwardIs
<1>2. tree[Parent(q[1])] = HashPair(tree[q[1]], x)
  BY <1>1, PairUp
<1>3. flag => q[2] = Sibling(q[1]) /\ tree[q[2]] = x
  BY DEF Pairs
<1>4. flag \in BOOLEAN
  BY DEF Pairs
<1> HIDE DEF flag, x, p, n
<1>5. /\ d \in 1 .. 2 /\ l \in Nat \ {0} /\ l + d - 1 = Len(q)
      /\ \A i \in 1 .. l - 1 : i \in 1 .. l /\ i + d \in 1 .. Len(q) /\ i + d > d
      /\ \A k \in 1 .. Len(q) : k > d => k - d \in 1 .. l - 1 /\ k - d + d = k
      /\ 1 \in 1 .. Len(q) /\ (flag => 2 \in 1 .. Len(q)) /\ l \in 1 .. l
  <2> DEFINE m == Len(q)
  <2>1. m \in Nat /\ m >= d /\ d \in 1 .. 2 /\ (flag => d = 2) /\ l = m - d + 1
    BY <1>1, <1>4
  <2> HIDE DEF m, d, l
  <2>2. /\ l \in Nat \ {0} /\ l + d - 1 = m
        /\ \A i \in 1 .. l - 1 : i \in 1 .. l /\ i + d \in 1 .. m /\ i + d > d
    BY ONLY <2>1
  <2>3. \A k \in 1 .. m : k > d => k - d \in 1 .. l - 1 /\ k - d + d = k
    BY ONLY <2>1
  <2>4. 1 \in 1 .. m /\ (flag => 2 \in 1 .. m) /\ l \in 1 .. l
    BY ONLY <2>1, <2>2
  <2> QED  BY ONLY <2>1, <2>2, <2>3, <2>4 DEF m
<1>6. ASSUME IsList(s), Len(s) = Len(q)
      PROVE  /\ IsList(r) /\ Len(r) = l
             /\ r[l] = HashPair(s[1], IF flag THEN s[2] ELSE x)
             /\ \A i \in 1 .. l - 1 : r[i] = s[i + d]
  BY <1>1, <1>4, <1>6, JoinedIs
<1> HIDE DEF r, l, d
<1>7. ASSUME AreHashes(s, q, tree)
      PROVE  AreHashes(r, p, tree)
  <2>1. s[1] = tree[q[1]] /\ (flag => s[2] = x)
    BY <1>3, <1>5, <1>7 DEF AreHashes
  <2>2. r[l] = tree[p[l]]
    BY <1>1, <1>2, <1>6, <1>7, <2>1 DEF AreHashes
  <2>3. \A i \in 1 .. l - 1 : r[i] = tree[p[i]]
    BY <1>1, <1>5, <1>6, <1>7 DEF AreHashes
  <2>4. \A i \in 1 .. l : i \in 1 .. l - 1 \/ i = l
    BY <1>5
  <2> QED  BY <1>1, <1>6, <1>7, <2>2, <2>3, <2>4 DEF AreHashes
<1>8. ASSUME OneDiffers(s, q, tree)
      PROVE  OneDiffers(r, p, tree)
  <2>1. PICK k \in 1 .. Len(q) : s[k] # tree[q[k]] /\ \A i \in (1 .. Len(q)) \ {k} : s[i] = tree[q[i]]
    BY <1>8 DEF OneDiffers
  <2>2. /\ IsList(r) /\ Len(r) = l
        /\ r[l] = HashPair(s[1], IF flag THEN s[2] ELSE x)
        /\ \A i \in 1 .. l - 1 : r[i] = s[i + d]
    BY <1>6, <1>8 DEF OneDiffers
  <2>3. CASE k > d
    <3> DEFINE j == k - d
    <3>1. j \in 1 .. l - 1 /\ j + d = k /\ k # 1 /\ (flag => k # 2) /\ j \in 1 .. l /\ j # l
      BY <1>4, <1>5, <2>3 DEF d
    <3> HIDE DEF j
    <3>2. r[j] # tree[p[j]]
      BY <1>1, <2>1, <2>2, <3>1
    <3>3. r[l] = tree[p[l]]
      <4>1. s[1] = tree[q[1]] /\ (flag => s[2] = x)
        BY <1>3, <1>5, <2>1, <3>1
      <4> QED  BY <1>1, <1>2, <2>2, <4>1
    <3>4. \A i \in (1 .. l - 1) \ {j} : r[i] = tree[p[i]]
      <4> TAKE i \in (1 .. l - 1) \ {j}
      <4>1. i + d \in 1 .. Len(q) /\ i + d # k
        BY <1>5, <3>1
      <4>2. s[i + d] = tree[q[i + d]]
        BY <2>1, <4>1
      <4>3. r[i] = s[i + d] /\ p[i] = q[i + d]
        BY <1>1, <2>2
      <4> QED  BY ONLY <4>2, <4>3
    <3>5. \A i \in (1 .. l) \ {j} : i \in (1 .. l - 1) \ {j} \/ i = l
      BY <1>5
    <3> QED  BY <1>1, <2>2, <3>1, <3>2, <3>3, <3>4, <3>5 DEF OneDiffers
  <2>4. CASE ~ (k > d)
    <3>1. \A i \in 1 .. l - 1 : r[i] = tree[p[i]]
      <4> TAKE i \in 1 .. l - 1
      <4>1. i + d \in 1 .. Len(q) /\ i + d # k
        BY <1>5, <2>4
      <4>2. s[i + d] = tree[q[i + d]]
        BY <2>1, <4>1
      <4>3. r[i] = s[i + d] /\ p[i] = q[i + d]
        BY <1>1, <2>2
      <4> QED  BY ONLY <4>2, <4>3
    <3>2. r[l] # tree[p[l]]
      <4>1. CASE k = 1
        <5>1. flag => s[2] = x
          BY <1>3, <1>5, <2>1, <4>1
        <5>2. r[l] = HashPair(s[1], x) /\ tree[p[l]] = HashPair(tree[q[1]], x)
          BY <1>1, <1>2, <2>2, <5>1
        <5> QED  BY <2>1, <4>1, <5>2, HashPairInjective
      <4>2. CASE k # 1
        <5>1. flag /\ k = 2
          BY <1>4, <2>4, <4>2 DEF d
        <5>2. s[1] = tree[q[1]]
          BY <1>5, <2>1, <4>2
        <5>3. s[2] # x
          BY <1>3, <2>1, <5>1
        <5>4. r[l] = HashPair(tree[q[1]], s[2]) /\ tree[p[l]] = HashPair(tree[q[1]], x)
          BY <1>1, <1>2, <2>2, <5>1, <5>2
        <5>5. \A a, b : HashPair(a, b) = HashPair(b, a)
          BY DEF HashPair
        <5> QED  BY <5>3, <5>4, <5>5, HashPairInjective
      <4> QED  BY <4>1, <4>2
    <3>3. \A i \in 1 .. l : i \in 1 .. l - 1 \/ i = l
      BY <1>5
    <3>4. l \in 1 .. Len(p) /\ \A i \in (1 .. Len(p)) \ {l} : r[i] = tree[p[i]]
      BY <1>1, <1>5, <3>1, <3>3
    <3> QED  BY <1>1, <2>2, <3>2, <3>4 DEF OneDiffers
  <2> QED  BY <2>3, <2>4
<1> QED
  BY <1>7, <1>8 DEF r, p, flag, x

\* Queues of leaves in the order of the tree descend, and the parent of the first place is
\* below the last one.
Descends(q) ==
    /\ q # <<>>
    /\ \A i, j \in 1 .. Len(q) : i < j => q[i] > q[j]
    /\ Len(q) > 1 => Parent(q[1]) < q[Len(q)]

\* A smaller place has a smaller parent, unless the two are siblings.
LEMMA ParentsDescend ==
    ASSUME NEW a \in Nat, NEW b \in Nat, a > b
    PROVE  /\ b # Sibling(a) => Parent(b) < Parent(a)
           /\ \A c \in Nat : b = Sibling(a) /\ c < b => Parent(c) < Parent(a)
<1>1. CASE a % 2 = 0
  <2>1. PICK j \in Int : a = 2 * j
    BY <1>1
  <2>2. Sibling(a) = a - 1 /\ Parent(a) = j - 1
    BY <1>1, <2>1 DEF Sibling, Parent
  <2> QED  BY <2>1, <2>2 DEF Parent
<1>2. CASE a % 2 # 0
  <2>1. PICK j \in Int : a = 2 * j + 1
    BY <1>2
  <2>2. Sibling(a) = a + 1 /\ Parent(a) = j
    BY <1>2, <2>1 DEF Sibling, Parent
  <2> QED  BY <2>1, <2>2 DEF Parent
<1> QED
  BY <1>1, <1>2

LEMMA DescendsOn ==
    ASSUME NEW n \in Nat \ {0}, NEW q \in Seq(0 .. 2 * n - 2), ~ Stops(q), Descends(q)
    PROVE  Descends(Onward(q))
<1> DEFINE p == Onward(q)
           d == IF Pairs(q) THEN 2 ELSE 1
           l == Len(q) - d + 1
           m == Len(q)
<1>1. /\ m \in Nat /\ m >= d /\ q[1] \in 1 .. 2 * n - 2
      /\ Len(p) = l /\ p[l] = Parent(q[1]) /\ p \in Seq(0 .. 2 * n - 2)
      /\ \A i \in 1 .. l - 1 : p[i] = q[i + d]
  BY OnwardIs
<1>2. \A i \in 1 .. m : q[i] \in Nat
  OBVIOUS
<1>3. Parent(q[1]) \in Nat
  <2>1. Parent(q[1]) \in 0 .. n - 2
    BY <1>1, Places
  <2> QED  BY <2>1
<1>4. /\ m > 1 => Parent(q[1]) < q[m]
      /\ \A i, j \in 1 .. m : i < j => q[i] > q[j]
  BY DEF Descends
<1> HIDE DEF p
<1>5. /\ d \in 1 .. 2 /\ l \in Nat \ {0} /\ l + d - 1 = m /\ (Pairs(q) => d = 2) /\ (~ Pairs(q) => d = 1)
      /\ \A i \in 1 .. l - 1 : i + d \in 1 .. m
  <2>1. m \in Nat /\ m >= d /\ d \in 1 .. 2 /\ l = m - d + 1 /\ (Pairs(q) => d = 2) /\ (~ Pairs(q) => d = 1)
    BY <1>1
  <2> HIDE DEF m, d, l
  <2>2. /\ l \in Nat \ {0} /\ l + d - 1 = m
        /\ \A i \in 1 .. l - 1 : i + d \in 1 .. m
    BY ONLY <2>1
  <2> QED  BY ONLY <2>1, <2>2
<1> HIDE DEF l, d, m
<1>6. \A i \in 1 .. l - 1 : p[i] > p[l]
  <2> TAKE i \in 1 .. l - 1
  <2>1. i + d \in 1 .. m /\ m \in 1 .. m /\ m > 1
    BY <1>1, <1>5
  <2>2. q[m] <= q[i + d]
    <3>1. CASE i + d = m
      BY <1>2, <2>1, <3>1
    <3>2. CASE i + d # m
      <4>1. i + d < m
        BY <1>1, <2>1, <3>2
      <4> QED  BY <1>2, <1>4, <2>1, <4>1
    <3> QED  BY <3>1, <3>2
  <2>3. p[i] = q[i + d] /\ q[m] \in Nat /\ q[i + d] \in Nat
    BY <1>1, <1>2, <2>1
  <2>4. Parent(q[1]) < q[m] /\ Parent(q[1]) = p[l]
    BY <1>1, <1>4, <2>1
  <2> QED  BY ONLY <1>3, <2>2, <2>3, <2>4
<1>7. \A i, j \in 1 .. l : i < j => p[i] > p[j]
  <2> TAKE i, j \in 1 .. l
  <2> HAVE i < j
  <2>1. i \in 1 .. l - 1
    BY <1>5
  <2>2. CASE j = l
    BY <1>6, <2>1, <2>2
  <2>3. CASE j # l
    <3>1. j \in 1 .. l - 1 /\ i + d < j + d
      BY <1>5, <2>3
    <3> QED  BY <1>1, <1>4, <1>5, <2>1, <3>1
  <2> QED  BY <2>2, <2>3
<1>8. l > 1 => Parent(p[1]) < p[l]
  <2> HAVE l > 1
  <2>1. 1 \in 1 .. l - 1 /\ 1 + d \in 1 .. m /\ p[1] = q[1 + d]
    BY <1>1, <1>5
  <2>2. 1 \in 1 .. m /\ 2 \in 1 .. m /\ q[1] \in Nat /\ q[2] \in Nat /\ q[1] > q[2]
        /\ q[1 + d] \in Nat
    <3>1. 1 \in 1 .. m /\ 2 \in 1 .. m
      BY <1>1, <1>5
    <3> QED  BY <1>2, <1>4, <2>1, <3>1
  <2>3. CASE Pairs(q)
    <3>1. q[2] = Sibling(q[1]) /\ d = 2
      BY <1>5, <2>3 DEF Pairs
    <3>2. q[3] < q[2] /\ q[3] \in Nat
      <4>1. 3 \in 1 .. m
        BY <2>1, <3>1
      <4> QED  BY <1>2, <1>4, <2>2, <4>1
    <3>3. Parent(q[3]) < Parent(q[1])
      BY <2>2, <3>1, <3>2, ParentsDescend
    <3> QED  BY <1>1, <2>1, <3>1, <3>3
  <2>4. CASE ~ Pairs(q)
    <3>1. q[2] # Sibling(q[1]) /\ d = 1
      <4>1. m > 1
        BY <1>1, <2>2
      <4> QED  BY <1>5, <2>4, <4>1 DEF Pairs, m
    <3>2. Parent(q[2]) < Parent(q[1])
      BY <2>2, <3>1, ParentsDescend
    <3> QED  BY <1>1, <2>1, <3>1, <3>2
  <2> QED  BY <2>3, <2>4
<1>9. p # <<>>
  BY <1>1, <1>5
<1> QED
  BY <1>1, <1>7, <1>8, <1>9 DEF Descends, p

\* The walk of a queue is a proof that the verifier follows: from the hashes of a descending
\* queue to the root, and from hashes of which one differs never there.
LEMMA WalkVerifies ==
    ASSUME NEW leaves, Len(leaves) \in Nat \ {0}, NEW tree, IsTree(tree, leaves),
           NEW w, AreWalks(w, Seq(0 .. 2 * Len(leaves) - 2), tree)
    PROVE  \A q \in Seq(0 .. 2 * Len(leaves) - 2) :
             LET flags == w[q].flags
                 path  == w[q].path
                 n     == Len(flags)
             IN /\ Descends(q) => Len(q) + Len(path) = n + 1
                /\ \A s, st : AreStacks(st, n, s, flags, path) =>
                     /\ Descends(q) /\ AreHashes(s, q, tree) => Len(st[n]) = 1 /\ st[n][1] = tree[0]
                     /\ OneDiffers(s, q, tree) => /\ Len(st[n]) \in Nat \ {0}
                                                  /\ Len(st[n]) = 1 => st[n][1] # tree[0]
<1> DEFINE Q == Seq(0 .. 2 * Len(leaves) - 2)
           Holds(q, flags, path, n) ==
               /\ Descends(q) => Len(q) + Len(path) = n + 1
               /\ \A s, st : AreStacks(st, n, s, flags, path) =>
                    /\ Descends(q) /\ AreHashes(s, q, tree) => Len(st[n]) = 1 /\ st[n][1] = tree[0]
                    /\ OneDiffers(s, q, tree) => /\ Len(st[n]) \in Nat \ {0}
                                                 /\ Len(st[n]) = 1 => st[n][1] # tree[0]
           P == {q \in Q : Holds(q, w[q].flags, w[q].path, Len(w[q].flags))}
<1>0. \A q \in Q : /\ w[q].flags \in Seq(BOOLEAN)
                  /\ w[q].path \in Seq(TreeHashes(Len(leaves), tree))
                  /\ Len(w[q].path) = Cursor(w[q].flags, Len(w[q].flags))
  <2> DEFINE n == Len(leaves)
  <2>1. n \in Nat \ {0} /\ AreWalks(w, Seq(0 .. 2 * n - 2), tree)
    OBVIOUS
  <2> HIDE DEF n
  <2>2. \A q \in Seq(0 .. 2 * n - 2) : /\ w[q].flags \in Seq(BOOLEAN)
                                      /\ w[q].path \in Seq(TreeHashes(n, tree))
                                      /\ Len(w[q].path) = Cursor(w[q].flags, Len(w[q].flags))
    BY ONLY <2>1, WalkType
  <2> QED  BY ONLY <2>2 DEF n, Q
<1>1. ASSUME NEW q \in Q, Stops(q)
      PROVE  q \in P
  <2>1. w[q] = [path |-> <<>>, flags |-> <<>>]
    BY <1>1 DEF AreWalks, Walked
  <2>2. w[q].path = <<>> /\ w[q].flags = <<>>
    BY <2>1
  <2>3. Len(<<>>) = 0
    OBVIOUS
  <2>4. ASSUME q # <<>>
        PROVE  Len(q) \in Nat \ {0} /\ q[1] = 0 /\ 1 \in 1 .. Len(q)
    <3>1. Len(q) \in Nat \ {0}
      BY <2>4
    <3> QED  BY <1>1, <2>4, <3>1 DEF Stops
  <2>5. ASSUME Descends(q)
        PROVE  Len(q) = 1
    <3>1. q # <<>>
      BY <2>5 DEF Descends
    <3>2. ASSUME Len(q) # 1
          PROVE  FALSE
      <4>1. 2 \in 1 .. Len(q)
        <5>1. Len(q) \in Nat \ {0}
          BY <2>4, <3>1
        <5>2. \A m \in Nat \ {0} : m # 1 => 2 \in 1 .. m
          OBVIOUS
        <5> QED  BY ONLY <3>2, <5>1, <5>2
      <4>2. q[2] \in Nat
        BY <4>1
      <4> QED  BY <2>4, <2>5, <3>1, <4>1, <4>2 DEF Descends
    <3> QED  BY <3>2
  <2>6. ASSUME NEW s, NEW st, AreStacks(st, 0, s, <<>>, <<>>)
        PROVE  st[0] = s
    <3>1. 0 \in 0 .. 0
      OBVIOUS
    <3> QED  BY <2>6, <3>1 DEF AreStacks
  <2>7. ASSUME NEW s, Descends(q), AreHashes(s, q, tree)
        PROVE  Len(s) = 1 /\ s[1] = tree[0]
    <3>1. q # <<>>
      BY <2>7 DEF Descends
    <3> QED  BY <2>4, <2>5, <2>7, <3>1 DEF AreHashes
  <2>8. ASSUME NEW s, OneDiffers(s, q, tree)
        PROVE  Len(s) \in Nat \ {0} /\ (Len(s) = 1 => s[1] # tree[0])
    <3>1. PICK k \in 1 .. Len(q) : s[k] # tree[q[k]]
      BY <2>8 DEF OneDiffers
    <3>2. q # <<>>
      BY <3>1
    <3>3. Len(s) = Len(q) /\ (Len(q) = 1 => k = 1)
      BY <2>4, <2>8, <3>1, <3>2 DEF OneDiffers
    <3> QED  BY <2>4, <3>1, <3>2, <3>3
  <2>9. Holds(q, <<>>, <<>>, 0)
    BY <2>3, <2>5, <2>6, <2>7, <2>8
  <2> HIDE DEF Holds
  <2> QED  BY <2>2, <2>3, <2>9
<1>2. ASSUME NEW q \in Q, ~ Stops(q), Onward(q) \in P
      PROVE  q \in P
  <2> DEFINE p == Onward(q)
             flags == w[p].flags
             path == w[p].path
             n == Len(flags)
             b == Pairs(q)
             x == tree[Sibling(q[1])]
             front == IF b THEN <<>> ELSE <<x>>
             H == TreeHashes(Len(leaves), tree)
  <2>1. p \in Q /\ Holds(p, flags, path, n)
    BY <1>2
  <2>2. flags \in Seq(BOOLEAN) /\ path \in Seq(H) /\ Len(path) = Cursor(flags, n)
    <3>1. \A r \in Q : /\ w[r].flags \in Seq(BOOLEAN)
                      /\ w[r].path \in Seq(H)
                      /\ Len(w[r].path) = Cursor(w[r].flags, Len(w[r].flags))
      BY ONLY <1>0 DEF Q, H
    <3> HIDE DEF Q, p, H
    <3> QED  BY <2>1, <3>1
  <2>3. /\ x \in H /\ b \in BOOLEAN /\ Len(q) \in Nat
        /\ Len(p) = Len(q) - (IF b THEN 2 ELSE 1) + 1
    <3>1. q[1] \in 1 .. 2 * Len(leaves) - 2 /\ Len(q) \in Nat
      BY <1>2, OnwardIs
    <3>2. Sibling(q[1]) \in 0 .. 2 * Len(leaves) - 2
      <4>1. Sibling(q[1]) \in 1 .. 2 * Len(leaves) - 2
        BY <3>1, Places
      <4> QED  BY <4>1
    <3>3. x \in H
      BY <3>2 DEF TreeHashes
    <3>4. Len(p) = Len(q) - (IF b THEN 2 ELSE 1) + 1
      BY <1>2, OnwardIs
    <3> QED  BY <3>1, <3>3, <3>4 DEF Pairs
  <2>4. w[q].path = front \o path /\ w[q].flags = <<b>> \o flags
    <3>1. w[q] = [path |-> front \o path, flags |-> <<b>> \o flags]
      BY <1>2 DEF AreWalks, Walked
    <3>2. \A u, a, c : u = [path |-> a, flags |-> c] => u.path = a /\ u.flags = c
      OBVIOUS
    <3> HIDE DEF front, path, flags, b
    <3> QED  BY ONLY <3>1, <3>2
  <2> HIDE DEF flags, path, b, x, H, Holds
  <2>5. n \in Nat /\ Len(path) \in Nat /\ Len(<<b>> \o flags) = n + 1
        /\ Len(front \o path) = Len(path) + (IF b THEN 0 ELSE 1)
    <3>1. /\ n \in Nat /\ Len(path) \in Nat /\ Len(<<b>> \o flags) = n + 1
      BY <2>2, <2>3
    <3>2. CASE b
      <4>1. front \o path = path
        BY <2>2, <3>2
      <4> QED  BY <3>1, <3>2, <4>1
    <3>3. CASE ~ b
      <4>1. front = <<x>>
        BY <3>3
      <4> HIDE DEF front
      <4>2. Len(<<x>> \o path) = 1 + Len(path)
        BY <2>2, <2>3
      <4> QED  BY <3>1, <3>3, <4>1, <4>2
    <3> QED  BY <3>2, <3>3
  <2>6. Descends(q) => Descends(p)
    BY <1>2, DescendsOn
  <2>7. ASSUME Descends(q)
        PROVE  Len(q) + Len(front \o path) = (n + 1) + 1
    <3>1. Len(p) + Len(path) = n + 1
      BY <2>1, <2>6, <2>7 DEF Holds
    <3> HIDE DEF front, n, p
    <3> QED  BY <2>3, <2>5, <3>1
  <2>8. ASSUME NEW s, NEW st, AreStacks(st, n + 1, s, <<b>> \o flags, front \o path)
        PROVE  /\ Descends(q) /\ AreHashes(s, q, tree) => Len(st[n + 1]) = 1 /\ st[n + 1][1] = tree[0]
               /\ OneDiffers(s, q, tree) => /\ Len(st[n + 1]) \in Nat \ {0}
                                            /\ Len(st[n + 1]) = 1 => st[n + 1][1] # tree[0]
    <3> DEFINE rest == [k \in 0 .. n |-> st[k + 1]]
               r == Joined(s, b, x)
    <3>1. AreStacks(rest, n, r, flags, path)
      BY <2>2, <2>3, <2>5, <2>8, StacksShift
    <3>2. rest[n] = st[n + 1]
      BY <2>5
    <3> HIDE DEF rest, n
    <3>3. /\ AreHashes(s, q, tree) => AreHashes(r, p, tree)
          /\ OneDiffers(s, q, tree) => OneDiffers(r, p, tree)
      BY <1>2, StepHashes DEF b, x
    <3> HIDE DEF r, p
    <3> QED  BY <2>1, <2>6, <3>1, <3>2, <3>3 DEF Holds
  <2>9. Holds(q, <<b>> \o flags, front \o path, n + 1)
    <3> HIDE DEF front, n, p
    <3> QED  BY <2>7, <2>8 DEF Holds
  <2> HIDE DEF front, n, p
  <2> QED  BY <2>4, <2>5, <2>9
<1> HIDE DEF P
<1>3. \A q \in Q : q \in P
  BY <1>1, <1>2, QueueInduction
<1> QED
  BY <1>3 DEF P


-----------------------------------------------------------------------------
\* The multi-proof of leaves of a tree

\* The places at which the prover starts.
StartPlaces(leaves, wanted) == [k \in DOMAIN wanted |-> Indices(leaves)[wanted[k]]]

LEMMA StartOf ==
    ASSUME NEW leaves, Len(leaves) \in Nat \ {0}, DOMAIN leaves = 1 .. Len(leaves),
           NEW wanted \in Seq(Range(leaves))
    PROVE  LET q == StartPlaces(leaves, wanted)
           IN  /\ q \in Seq(0 .. 2 * Len(leaves) - 2) /\ Len(q) = Len(wanted)
               /\ AreHashes(wanted, q, NewTree(leaves))
               /\ \A k \in 1 .. Len(q) : q[k] >= Len(leaves) - 1
               /\ GenerateMultiProof(StandardTree(leaves), wanted) = MultiProofFrom(NewTree(leaves), q)
<1> DEFINE q == StartPlaces(leaves, wanted)
           n == Len(leaves)
           D == 0 .. 2 * n - 2
           tree == NewTree(leaves)
<1>1. IsTree(tree, leaves)
  BY NewTreeIsTree
<1> HIDE DEF tree
<1>2. DOMAIN wanted = 1 .. Len(wanted) /\ Len(wanted) \in Nat
  OBVIOUS
<1>3. ASSUME NEW k \in 1 .. Len(wanted)
      PROVE  /\ wanted[k] \in DOMAIN Indices(leaves) /\ q[k] = Indices(leaves)[wanted[k]]
             /\ q[k] \in D /\ q[k] >= n - 1 /\ tree[q[k]] = wanted[k]
  <2>1. wanted[k] \in Range(leaves)
    BY <1>2
  <2>2. q[k] = Indices(leaves)[wanted[k]]
    BY <1>2 DEF StartPlaces
  <2> HIDE DEF q
  <2> QED  BY <1>1, <2>1, <2>2, IndexOf
<1>4. q \in Seq(D) /\ Len(q) = Len(wanted)
  <2>1. DOMAIN q = 1 .. Len(wanted) /\ q = [k \in 1 .. Len(wanted) |-> q[k]]
    BY <1>2 DEF StartPlaces
  <2> HIDE DEF q, D
  <2> QED  BY <1>2, <1>3, <2>1
<1>5. AreHashes(wanted, q, tree)
  <2>1. IsList(wanted)
    BY DEF IsList
  <2> HIDE DEF q
  <2> QED  BY <1>3, <1>4, <2>1 DEF AreHashes
<1>6. ASSUME NEW k \in DOMAIN wanted
      PROVE  IsLeafIndex(tree, Indices(leaves)[wanted[k]])
  <2>1. q[k] \in D /\ q[k] >= n - 1 /\ q[k] = Indices(leaves)[wanted[k]]
    BY <1>2, <1>3
  <2> HIDE DEF q
  <2> QED  BY <1>1, <2>1 DEF IsLeafIndex, IsTree, LeftChild
<1>7. GenerateMultiProof(StandardTree(leaves), wanted) = MultiProofFrom(tree, q)
  <2>1. \A k \in DOMAIN wanted : wanted[k] \in DOMAIN Indices(leaves)
    BY <1>2, <1>3
  <2> QED  BY <1>6, <2>1 DEF GenerateMultiProof, StandardTree, tree, StartPlaces
<1> HIDE DEF q
<1> QED
  BY <1>2, <1>3, <1>4, <1>5, <1>7 DEF tree, q

\* The walk behind the multi-proof of some leaves of a tree.
LEMMA ProofOfLeaves ==
    ASSUME NEW leaves, Len(leaves) \in Nat \ {0}, DOMAIN leaves = 1 .. Len(leaves),
           NEW wanted \in Seq(Range(leaves)), wanted # <<>>
    PROVE  \E w : LET q == StartPlaces(leaves, wanted)
                  IN  /\ AreWalks(w, Seq(0 .. 2 * Len(leaves) - 2), NewTree(leaves))
                      /\ GenerateMultiProof(StandardTree(leaves), wanted)
                           = [path |-> w[q].path, flags |-> w[q].flags]
<1> DEFINE q == StartPlaces(leaves, wanted)
           n == Len(leaves)
           tree == NewTree(leaves)
           Q == Seq(0 .. 2 * n - 2)
<1>1. IsTree(tree, leaves)
  BY NewTreeIsTree
<1>2. q \in Q /\ Len(q) = Len(wanted) /\ GenerateMultiProof(StandardTree(leaves), wanted) = MultiProofFrom(tree, q)
  BY StartOf
<1> HIDE DEF q, tree
<1>3. q # <<>>
  BY <1>2
<1>4. DOMAIN tree = 0 .. 2 * n - 2
  BY <1>1 DEF IsTree
<1>5. PICK w : AreWalks(w, Q, tree) /\ \A p \in Q : p # <<>> => MultiProofFrom(tree, p) = w[p]
  <2>1. \E w : AreWalks(w, Q, tree) /\ \A p \in Q : p # <<>> => MultiProofFrom(tree, p) = w[p]
    BY <1>4, WalkOf
  <2> QED  BY <2>1
<1>6. w[q] = Walked(q, w[Onward(q)], tree)
  BY <1>2, <1>5 DEF AreWalks
<1>7. w[q] = [path |-> w[q].path, flags |-> w[q].flags]
  <2>1. \A a, b : [path |-> a, flags |-> b].path = a /\ [path |-> a, flags |-> b].flags = b
    OBVIOUS
  <2>2. \E a, b : w[q] = [path |-> a, flags |-> b]
    BY <1>6 DEF Walked
  <2> QED  BY <2>1, <2>2
<1> QED
  BY <1>2, <1>3, <1>5, <1>7 DEF q, tree


\* What the verifier makes of the multi-proof of some leaves, for any list of hashes it is
\* given with it.
LEMMA VerifierWalks ==
    ASSUME NEW leaves, Len(leaves) \in Nat \ {0}, DOMAIN leaves = 1 .. Len(leaves),
           NEW wanted \in Seq(Range(leaves)), wanted # <<>>, NEW s, Len(s) = Len(wanted)
    PROVE  LET q        == StartPlaces(leaves, wanted)
               tree     == NewTree(leaves)
               accepted == VerifyMultiProof(Root(tree), s, GenerateMultiProof(StandardTree(leaves), wanted))
           IN  /\ Descends(q) /\ AreHashes(s, q, tree) => accepted
               /\ OneDiffers(s, q, tree) => ~ accepted
<1> DEFINE q == StartPlaces(leaves, wanted)
           n == Len(leaves)
           tree == NewTree(leaves)
           Q == Seq(0 .. 2 * n - 2)
           accepted == VerifyMultiProof(Root(tree), s, GenerateMultiProof(StandardTree(leaves), wanted))
<1>1. IsTree(tree, leaves)
  BY NewTreeIsTree
<1>2. q \in Q /\ Len(q) = Len(wanted)
  BY StartOf
<1>3. PICK w : AreWalks(w, Q, tree)
               /\ GenerateMultiProof(StandardTree(leaves), wanted) = [path |-> w[q].path, flags |-> w[q].flags]
  <2>1. \E w : AreWalks(w, Q, tree)
               /\ GenerateMultiProof(StandardTree(leaves), wanted) = [path |-> w[q].path, flags |-> w[q].flags]
    BY ProofOfLeaves
  <2> QED  BY <2>1
<1> DEFINE flags == w[q].flags
           path == w[q].path
           m == Len(flags)
           H == TreeHashes(n, tree)
<1>4. accepted <=> VerifyMultiProof(Root(tree), s, [path |-> path, flags |-> flags])
  BY <1>3
<1> HIDE DEF q, tree, accepted
<1>5. flags \in Seq(BOOLEAN) /\ path \in Seq(H) /\ Len(path) = Cursor(flags, m)
  <2>1. \A r \in Q : /\ w[r].flags \in Seq(BOOLEAN)
                     /\ w[r].path \in Seq(H)
                     /\ Len(w[r].path) = Cursor(w[r].flags, Len(w[r].flags))
    <3> HIDE DEF flags, path, m
    <3> QED  BY <1>3, WalkType DEF H
  <2> HIDE DEF Q, H
  <2> QED  BY <1>2, <2>1
<1>6. m \in Nat /\ Len(path) \in Nat
  BY <1>5
<1>7. /\ Descends(q) => Len(q) + Len(path) = m + 1
      /\ \A st : AreStacks(st, m, s, flags, path) =>
           /\ Descends(q) /\ AreHashes(s, q, tree) => Len(st[m]) = 1 /\ st[m][1] = tree[0]
           /\ OneDiffers(s, q, tree) => /\ Len(st[m]) \in Nat \ {0}
                                        /\ Len(st[m]) = 1 => st[m][1] # tree[0]
  <2> DEFINE Follows(r, ff, pp, nn) ==
               /\ Descends(r) => Len(r) + Len(pp) = nn + 1
               /\ \A u, st : AreStacks(st, nn, u, ff, pp) =>
                    /\ Descends(r) /\ AreHashes(u, r, tree) => Len(st[nn]) = 1 /\ st[nn][1] = tree[0]
                    /\ OneDiffers(u, r, tree) => /\ Len(st[nn]) \in Nat \ {0}
                                                 /\ Len(st[nn]) = 1 => st[nn][1] # tree[0]
  <2>1. \A r \in Q : Follows(r, w[r].flags, w[r].path, Len(w[r].flags))
    <3> HIDE DEF flags, path, m
    <3> QED  BY <1>1, <1>3, WalkVerifies
  <2> HIDE DEF Follows, Q
  <2>2. Follows(q, flags, path, m)
    BY <1>2, <2>1
  <2> HIDE DEF flags, path, m
  <2> QED  BY <2>2 DEF Follows
<1> HIDE DEF flags, path, m
<1>8. PICK st : /\ AreStacks(st, m, s, flags, path)
                /\ VerifyMultiProof(Root(tree), s, [path |-> path, flags |-> flags])
                     <=> Accepts(st, Root(tree), s, flags, path)
  <2>1. Len(flags) \in Nat
    BY <1>6 DEF m
  <2>2. \E st : /\ AreStacks(st, m, s, flags, path)
                /\ VerifyMultiProof(Root(tree), s, [path |-> path, flags |-> flags])
                     <=> Accepts(st, Root(tree), s, flags, path)
    BY <2>1, VerifiedBy DEF m
  <2> QED  BY <2>2
<1>9. Accepts(st, Root(tree), s, flags, path)
        <=> Len(s) + Len(path) = m + 1 /\ Len(st[m]) = 1 /\ tree[0] = st[m][1]
  BY <1>5, <1>6 DEF Accepts, Root, m
<1>10. Descends(q) /\ AreHashes(s, q, tree) => accepted
  BY <1>2, <1>4, <1>7, <1>8, <1>9
<1>11. OneDiffers(s, q, tree) => ~ accepted
  BY <1>4, <1>7, <1>8, <1>9
<1> QED
  BY <1>10, <1>11 DEF q, tree, accepted

\* The multi-proof of leaves that are asked for in their order, each once, is accepted; that
\* of no leaves is the root itself.
THEOREM MultiProofComplete ==
    ASSUME NEW leaves, Len(leaves) \in Nat \ {0}, DOMAIN leaves = 1 .. Len(leaves),
           NEW wanted \in Seq(Range(leaves)),
           \A i, j \in DOMAIN wanted : i < j => Indices(leaves)[wanted[i]] > Indices(leaves)[wanted[j]]
    PROVE  VerifyMultiProof(Root(NewTree(leaves)), wanted, GenerateMultiProof(StandardTree(leaves), wanted))
<1> DEFINE q == StartPlaces(leaves, wanted)
           n == Len(leaves)
           tree == NewTree(leaves)
<1>1. /\ q \in Seq(0 .. 2 * n - 2) /\ Len(q) = Len(wanted) /\ AreHashes(wanted, q, tree)
      /\ \A k \in 1 .. Len(q) : q[k] >= n - 1
      /\ GenerateMultiProof(StandardTree(leaves), wanted) = MultiProofFrom(tree, q)
  BY StartOf
<1>2. CASE wanted # <<>>
  <2>1. \A i, j \in 1 .. Len(q) : i < j => q[i] > q[j]
    BY <1>1 DEF StartPlaces
  <2> HIDE DEF q, tree
  <2>2. q # <<>>
    BY <1>1, <1>2
  <2>3. ASSUME Len(q) > 1
        PROVE  Parent(q[1]) < q[Len(q)]
    <3>1. Len(q) \in Nat /\ 1 \in 1 .. Len(q) /\ Len(q) \in 1 .. Len(q)
      BY <1>1, <2>3
    <3>2. q[1] \in 0 .. 2 * n - 2 /\ q[Len(q)] \in 0 .. 2 * n - 2 /\ q[Len(q)] >= n - 1 /\ q[1] > q[Len(q)]
      BY <1>1, <2>1, <2>3, <3>1
    <3> HIDE DEF n
    <3>3. \A a, b, c \in Int : a <= 2 * c - 2 /\ b >= c - 1 => (a - 1) \div 2 < b
      OBVIOUS
    <3> QED  BY <3>2, <3>3 DEF Parent, n
  <2>4. Descends(q)
    BY <2>1, <2>2, <2>3 DEF Descends
  <2> QED  BY <1>1, <1>2, <2>4, VerifierWalks DEF q, tree
<1>3. CASE wanted = <<>>
  <2>1. q = <<>>
    BY <1>1, <1>3
  <2> HIDE DEF q, tree
  <2>2. GenerateMultiProof(StandardTree(leaves), wanted) = [path |-> <<tree[0]>>, flags |-> <<>>]
    BY <1>1, <2>1 DEF MultiProofFrom
  <2> DEFINE path == <<tree[0]>>
             flags == <<>>
  <2>3. Len(path) = 1 /\ path[1] = tree[0] /\ Len(flags) = 0
    OBVIOUS
  <2> HIDE DEF path, flags
  <2>4. PICK st : /\ AreStacks(st, 0, wanted, flags, path)
                  /\ VerifyMultiProof(Root(tree), wanted, [path |-> path, flags |-> flags])
                       <=> Accepts(st, Root(tree), wanted, flags, path)
    <3>1. Len(flags) \in Nat
      BY <2>3
    <3>2. \E st : /\ AreStacks(st, Len(flags), wanted, flags, path)
                  /\ VerifyMultiProof(Root(tree), wanted, [path |-> path, flags |-> flags])
                       <=> Accepts(st, Root(tree), wanted, flags, path)
      BY <3>1, VerifiedBy
    <3> QED  BY <2>3, <3>2
  <2>5. st[0] = <<>>
    <3>1. 0 \in 0 .. 0
      OBVIOUS
    <3> QED  BY <1>3, <2>4, <3>1 DEF AreStacks
  <2>6. Cursor(flags, 0) = 0
    <3>1. {i \in 1 .. 0 : ~ flags[i]} = {}
      OBVIOUS
    <3> QED  BY <3>1, FS_EmptySet DEF Cursor
  <2>7. Len(wanted) = 0 /\ Len(<<>>) = 0
    BY <1>3
  <2>8. Accepts(st, Root(tree), wanted, flags, path)
    BY <2>3, <2>5, <2>6, <2>7 DEF Accepts, Root
  <2> QED  BY <2>2, <2>4, <2>8 DEF path, flags, tree
<1> QED
  BY <1>2, <1>3

\* Whatever leaves are asked for, in whatever order and how often, their multi-proof is
\* accepted for no other hash in the place of one of them.
THEOREM MultiProofBinds ==
    ASSUME NEW leaves, Len(leaves) \in Nat \ {0}, DOMAIN leaves = 1 .. Len(leaves),
           NEW wanted \in Seq(Range(leaves)), NEW k \in DOMAIN wanted, NEW x,
           VerifyMultiProof(Root(NewTree(leaves)), [wanted EXCEPT ![k] = x],
                            GenerateMultiProof(StandardTree(leaves), wanted))
    PROVE  x = wanted[k]
<1> DEFINE q == StartPlaces(leaves, wanted)
           n == Len(leaves)
           tree == NewTree(leaves)
           s == [wanted EXCEPT ![k] = x]
<1>1. Len(q) = Len(wanted) /\ AreHashes(wanted, q, tree)
  BY StartOf
<1>2. wanted # <<>> /\ k \in 1 .. Len(wanted) /\ Len(wanted) \in Nat
  OBVIOUS
<1>3. /\ IsList(s) /\ Len(s) = Len(wanted) /\ s[k] = x
      /\ \A i \in (1 .. Len(wanted)) \ {k} : s[i] = wanted[i]
  <2> DEFINE H == Range(leaves) \cup {x}
  <2>1. wanted \in Seq(H) /\ x \in H
    OBVIOUS
  <2> HIDE DEF H
  <2>2. s \in Seq(H) /\ Len(s) = Len(wanted)
    BY <2>1
  <2>3. s[k] = x /\ \A i \in (1 .. Len(wanted)) \ {k} : s[i] = wanted[i]
    OBVIOUS
  <2> QED  BY <2>2, <2>3 DEF IsList
<1>4. VerifyMultiProof(Root(tree), s, GenerateMultiProof(StandardTree(leaves), wanted))
  OBVIOUS
<1> HIDE DEF s
<1>5. ~ OneDiffers(s, q, tree)
  <2> HIDE DEF n
  <2> QED  BY <1>2, <1>3, <1>4, VerifierWalks
<1> HIDE DEF q, tree
<1>6. \A i \in 1 .. Len(q) : wanted[i] = tree[q[i]]
  BY <1>1 DEF AreHashes
<1>7. ASSUME x # wanted[k]
      PROVE  OneDiffers(s, q, tree)
  BY <1>1, <1>2, <1>3, <1>6, <1>7 DEF OneDiffers
<1> QED
  BY <1>5, <1>7


\* There is a multi-proof of any leaves of a tree.
LEMMA MultiProofSome ==
    ASSUME NEW leaves, Len(leaves) \in Nat \ {0}, DOMAIN leaves = 1 .. Len(leaves),
           NEW wanted \in Seq(Range(leaves))
    PROVE  GenerateMultiProof(StandardTree(leaves), wanted) # None
<1> DEFINE proof == GenerateMultiProof(StandardTree(leaves), wanted)
<1>1. \E a, b : proof = [path |-> a, flags |-> b]
  <2>1. CASE wanted = <<>>
    <3>1. StartPlaces(leaves, wanted) = <<>>
      <4>1. Len(StartPlaces(leaves, wanted)) = Len(wanted) /\ StartPlaces(leaves, wanted) \in Seq(0 .. 2 * Len(leaves) - 2)
        BY StartOf
      <4> QED  BY <2>1, <4>1
    <3>2. proof = MultiProofFrom(NewTree(leaves), StartPlaces(leaves, wanted))
      BY StartOf
    <3> QED  BY <3>1, <3>2 DEF MultiProofFrom
  <2>2. CASE wanted # <<>>
    BY <2>2, ProofOfLeaves
  <2> QED  BY <2>1, <2>2
<1>2. \A a, b : [path |-> a, flags |-> b] # None
  BY DEF None
<1> HIDE DEF proof
<1>3. proof # None
  BY <1>1, <1>2
<1> QED
  BY <1>3 DEF proof

-----------------------------------------------------------------------------
\* The multi-proofs a reader of a receipt asks for

\* Of different leaves, the place the index holds is the leaf's own.
LEMMA PlaceOf ==
    ASSUME NEW leaves, Len(leaves) \in Nat \ {0}, DOMAIN leaves = 1 .. Len(leaves),
           NEW leaf \in Range(leaves)
    PROVE  LET place == Max({k \in DOMAIN leaves : leaves[k] = leaf})
           IN  /\ Indices(leaves)[leaf] = 2 * Len(leaves) - 1 - place
               /\ place \in DOMAIN leaves /\ leaves[place] = leaf
<1> DEFINE T == {k \in DOMAIN leaves : leaves[k] = leaf}
<1>1. T \in SUBSET (1 .. Len(leaves)) /\ T # {}
  BY DEF Range
<1>2. Max(T) \in T
  <2> HIDE DEF T
  <2> QED  BY <1>1, MaxOfPart
<1>3. Indices(leaves)[leaf] = 2 * Len(leaves) - 1 - Max(T)
  BY DEF Indices
<1> QED
  BY <1>2, <1>3

\* The receipt has a list of logs, and only its leaves are asked for.
ProofsInv ==
    /\ receipt = WithLogs(receipt.logs)
    /\ receipt.logs \in Seq(Logs) /\ Len(receipt.logs) <= MaxLogs
    /\ asked \in Seq(Range(Leaves))

\* Logs of the instance are logs, one by one and in a receipt.
LEMMA HasItsLogs ==
    ASSUME NEW logs \in Seq(Logs)
    PROVE  WithLogs(logs).logs = logs /\ HasLogs(WithLogs(logs))
<1>1. WithLogs(logs).logs = logs
  BY DEF WithLogs
<1>2. \A i \in DOMAIN logs : IsLog(logs[i])
  BY ReceiptProofsAssumption
<1>3. logs \in Seq(Range(logs))
  BY DEF Range
<1> QED
  BY <1>1, <1>2, <1>3 DEF HasLogs

\* The leaves of the receipt, hashed, are a list.
LEMMA LeavesList ==
    ASSUME ProofsInv
    PROVE  /\ Len(Leaves) \in Nat \ {0} /\ DOMAIN Leaves = 1 .. Len(Leaves)
           /\ Leaves = Hashed(ReceiptLeaves(receipt)) /\ HasLogs(receipt)
           /\ Tree = StandardTree(Leaves) /\ Tree.tree = NewTree(Leaves)
<1>1. HasLogs(receipt)
  <2>1. HasLogs(WithLogs(receipt.logs))
    BY HasItsLogs DEF ProofsInv
  <2> QED  BY <2>1 DEF ProofsInv
<1>2. IsList(ReceiptLeaves(receipt)) /\ ReceiptLeaves(receipt) # <<>>
  BY <1>1, ReceiptLeavesList
<1>3. PICK H : ReceiptLeaves(receipt) \in Seq(H)
  BY <1>2 DEF IsList
<1>4. Len(Hashed(ReceiptLeaves(receipt))) \in Nat \ {0}
      /\ DOMAIN Hashed(ReceiptLeaves(receipt)) = 1 .. Len(Hashed(ReceiptLeaves(receipt)))
  BY <1>2, <1>3, HashedType
<1>5. Tree = StandardTree(Leaves) /\ Tree.tree = NewTree(Leaves)
  BY DEF Tree, StandardTree
<1> QED
  BY <1>1, <1>4, <1>5 DEF Leaves

\* Transactions emit logs before a reader asks, and a reader asks for leaves only.
THEOREM ProofsInvariance == ProofsSpec => []ProofsInv
<1>1. ProofsInit => ProofsInv
  <2> SUFFICES ASSUME ProofsInit PROVE ProofsInv
    OBVIOUS
  <2>1. receipt.logs = <<>> /\ asked = <<>> /\ receipt = WithLogs(<<>>)
    BY DEF ProofsInit, WithLogs
  <2>2. \A S : <<>> \in Seq(S) /\ Len(<<>>) = 0
    OBVIOUS
  <2> QED  BY <2>1, <2>2, ReceiptProofsAssumption DEF ProofsInv
<1>2. ProofsInv /\ [ProofsNext]_proofVars => ProofsInv'
  <2> SUFFICES ASSUME ProofsInv, [ProofsNext]_proofVars
               PROVE  ProofsInv'
    OBVIOUS
  <2>1. ASSUME NEW log \in Logs, EmitLog(log)
        PROVE  ProofsInv'
    <3> DEFINE logs == Append(receipt.logs, log)
    <3>1. logs \in Seq(Logs) /\ Len(logs) <= MaxLogs
      BY <2>1, ReceiptProofsAssumption DEF EmitLog, ProofsInv
    <3>2. receipt' = WithLogs(logs) /\ asked' = <<>>
      BY <2>1 DEF EmitLog
    <3> HIDE DEF logs
    <3>3. receipt'.logs = logs
      BY <3>2 DEF WithLogs
    <3>4. \A S : <<>> \in Seq(S)
      OBVIOUS
    <3> QED  BY <3>1, <3>2, <3>3, <3>4 DEF ProofsInv
  <2>2. ASSUME NEW k \in DOMAIN Leaves, Ask(k)
        PROVE  ProofsInv'
    <3>1. Leaves[k] \in Range(Leaves)
      BY DEF Range
    <3>2. receipt' = receipt /\ asked' = Append(asked, Leaves[k]) /\ Leaves' = Leaves
      BY <2>2 DEF Ask, Leaves
    <3>3. asked' \in Seq(Range(Leaves))
      <4>1. asked \in Seq(Range(Leaves))
        BY DEF ProofsInv
      <4>2. \A S : \A s \in Seq(S) : \A x \in S : Append(s, x) \in Seq(S)
        OBVIOUS
      <4> QED  BY ONLY <3>1, <3>2, <4>1, <4>2
    <3> QED  BY <3>2, <3>3 DEF ProofsInv
  <2>3. CASE UNCHANGED proofVars
    <3>1. receipt' = receipt /\ asked' = asked /\ Leaves' = Leaves
      BY <2>3 DEF proofVars, Leaves
    <3> QED  BY <3>1 DEF ProofsInv
  <2> QED  BY <2>1, <2>2, <2>3 DEF ProofsNext
<1> QED
  BY <1>1, <1>2, PTL DEF ProofsSpec

\* Leaves asked for in the order of the receipt have a multi-proof, and each leaf a proof, that
\* the verifier accepts: for all receipts and all lists of leaves.
THEOREM ProofsCompleteSafety == ProofsSpec => []ProofsComplete
<1>1. ProofsInv => ProofsComplete
  <2> SUFFICES ASSUME ProofsInv
               PROVE  ProofsComplete
    OBVIOUS
  <2>1. /\ Len(Leaves) \in Nat \ {0} /\ DOMAIN Leaves = 1 .. Len(Leaves)
        /\ Tree = StandardTree(Leaves) /\ Tree.tree = NewTree(Leaves)
    BY LeavesList
  <2>2. asked \in Seq(Range(Leaves)) /\ \A k \in DOMAIN asked : asked[k] \in Range(Leaves)
    <3>1. asked \in Seq(Range(Leaves))
      BY DEF ProofsInv
    <3> QED  BY <3>1
  <2>3. ASSUME InLeafOrder
        PROVE  VerifyMultiProof(Root(Tree.tree), asked, Proof)
    <3>1. ASSUME NEW i \in DOMAIN asked, NEW j \in DOMAIN asked, i < j
          PROVE  Indices(Leaves)[asked[i]] > Indices(Leaves)[asked[j]]
      <4>1. Place(asked[i]) < Place(asked[j])
        BY <2>3, <3>1 DEF InLeafOrder
      <4>2. \A leaf \in Range(Leaves) :
              /\ Indices(Leaves)[leaf] = 2 * Len(Leaves) - 1 - Place(leaf)
              /\ Place(leaf) \in 1 .. Len(Leaves)
        BY <2>1, PlaceOf DEF Place
      <4>3. asked[i] \in Range(Leaves) /\ asked[j] \in Range(Leaves)
        BY <2>2
      <4> QED  BY ONLY <2>1, <4>1, <4>2, <4>3
    <3> QED  BY <2>1, <2>2, <3>1, MultiProofComplete DEF Proof
  <2>4. ASSUME NEW k \in DOMAIN asked
        PROVE  VerifyProof(Root(Tree.tree), asked[k], GenerateProof(Tree, asked[k]))
    <3> DEFINE leaf == asked[k]
    <3>1. leaf \in Range(Leaves)
      BY <2>2
    <3> HIDE DEF leaf
    <3>2. VerifyProof(Root(NewTree(Leaves)), leaf, GenerateProof(StandardTree(Leaves), leaf))
      BY <2>1, <3>1, ProofExact
    <3> QED  BY <2>1, <3>2 DEF leaf
  <2> QED  BY <2>3, <2>4 DEF ProofsComplete
<1> QED
  BY <1>1, ProofsInvariance, PTL

\* No other hash is accepted in the place of a leaf that was asked for.
THEOREM ProofsBindSafety == ProofsSpec => []ProofsBind
<1>1. ProofsInv => ProofsBind
  <2> SUFFICES ASSUME ProofsInv, NEW k \in DOMAIN asked, NEW leaf,
                      VerifyMultiProof(Root(Tree.tree), [asked EXCEPT ![k] = leaf], Proof)
               PROVE  leaf = asked[k]
    BY DEF ProofsBind
  <2>1. /\ Len(Leaves) \in Nat \ {0} /\ DOMAIN Leaves = 1 .. Len(Leaves)
        /\ Tree = StandardTree(Leaves) /\ Tree.tree = NewTree(Leaves)
    BY LeavesList
  <2>2. asked \in Seq(Range(Leaves))
    BY DEF ProofsInv
  <2>3. VerifyMultiProof(Root(NewTree(Leaves)), [asked EXCEPT ![k] = leaf],
                         GenerateMultiProof(StandardTree(Leaves), asked))
    BY <2>1 DEF Proof
  <2> QED  BY <2>1, <2>2, <2>3, MultiProofBinds
<1> QED
  BY <1>1, ProofsInvariance, PTL


-----------------------------------------------------------------------------
\* The proofs of logs

\* Where the items of a slice are, under their indices.
SlicedAt(off, prefix, n, items) ==
    \A i \in 1 .. n :
       /\ off[i] \in Nat /\ Len(items[i]) \in Nat
       /\ off[i] + Len(items[i]) <= Len(Slice(prefix, items))
       /\ \A j \in 1 .. Len(items[i]) :
            Slice(prefix, items)[off[i] + j] = Under(IndexPrefix(prefix, i - 1), items[i])[j]
       /\ \A h \in 1 .. n : h < i => off[h] + Len(items[h]) <= off[i]

LEMMA SlicePlaced ==
    ASSUME NEW prefix, NEW n \in Nat, NEW items, DOMAIN items = 1 .. n,
           \A i \in 1 .. n : IsList(items[i])
    PROVE  \E off : SlicedAt(off, prefix, n, items)
<1> DEFINE seqs == [i \in DOMAIN items |-> Under(IndexPrefix(prefix, i - 1), items[i])]
<1>1. /\ DOMAIN seqs = 1 .. n /\ seqs = [i \in 1 .. n |-> seqs[i]]
      /\ \A i \in 1 .. n : seqs[i] = Under(IndexPrefix(prefix, i - 1), items[i])
  OBVIOUS
<1>2. Len(seqs) = n
  BY <1>1, ListOf
<1>3. \A i \in 1 .. n : IsList(seqs[i]) /\ Len(seqs[i]) = Len(items[i]) /\ Len(items[i]) \in Nat
  BY UnderList
<1>4. Slice(prefix, items) = FlattenSeq(seqs)
  BY DEF Slice
<1> HIDE DEF seqs
<1>5. PICK off : PlacedIn(Slice(prefix, items), off, n, seqs)
  <2>1. \E off : PlacedIn(FlattenSeq(seqs), off, n, seqs)
    BY <1>1, <1>2, <1>3, FlattenList
  <2> QED  BY <1>4, <2>1
<1>6. ASSUME NEW i \in 1 .. n
      PROVE  /\ off[i] \in Nat /\ off[i] + Len(items[i]) <= Len(Slice(prefix, items))
             /\ \A j \in 1 .. Len(items[i]) :
                  Slice(prefix, items)[off[i] + j] = Under(IndexPrefix(prefix, i - 1), items[i])[j]
             /\ \A h \in 1 .. n : h < i => off[h] + Len(items[h]) <= off[i]
  <2>1. /\ off[i] \in Nat /\ off[i] + Len(seqs[i]) <= Len(Slice(prefix, items))
        /\ \A j \in 1 .. Len(seqs[i]) : Slice(prefix, items)[off[i] + j] = seqs[i][j]
    BY <1>5 DEF PlacedIn
  <2>2. \A h \in 1 .. n : h < i => off[h] + Len(seqs[h]) <= off[i]
    BY <1>5 DEF PlacedIn
  <2>3. seqs[i] = Under(IndexPrefix(prefix, i - 1), items[i])
    BY <1>1
  <2>4. \A h \in 1 .. n : Len(seqs[h]) = Len(items[h])
    BY <1>3
  <2>5. \A h \in 1 .. n : h < i => off[h] + Len(items[h]) <= off[i]
    BY ONLY <2>2, <2>4
  <2>6. off[i] + Len(items[i]) <= Len(Slice(prefix, items))
    BY ONLY <2>1, <2>4, i \in 1 .. n
  <2>7. \A j \in 1 .. Len(items[i]) : Slice(prefix, items)[off[i] + j] = seqs[i][j]
    BY ONLY <2>1, <2>4, i \in 1 .. n
  <2> QED  BY ONLY <2>1, <2>3, <2>5, <2>6, <2>7
<1>7. SlicedAt(off, prefix, n, items)
  BY <1>3, <1>6 DEF SlicedAt
<1> QED
  BY <1>7

\* Where the hashes of the logs are, in the order of the logs.
LEMMA LogHashPlaces ==
    ASSUME NEW r, HasLogs(r)
    PROVE  \E at : \A i \in 1 .. Len(r.logs) :
             /\ at[i] \in 1 .. Len(ReceiptLeaves(r))
             /\ ReceiptLeaves(r)[at[i]] = <<IndexPrefix("log_hashes", i - 1), LogHash(r.logs[i])>>
             /\ \A h \in 1 .. Len(r.logs) : h < i => at[h] < at[i]
<1> DEFINE n == Len(r.logs)
           named == ReceiptLeaves(r)
           logs == Slice("logs", [i \in DOMAIN r.logs |-> LogLeaves(r.logs[i])])
           items == LogHashes(r)
           hashes == Slice("log_hashes", items)
<1>1. n \in Nat /\ DOMAIN r.logs = 1 .. n
  BY DEF HasLogs
<1>2. /\ DOMAIN items = 1 .. n
      /\ \A i \in 1 .. n : items[i] = << <<"", LogHash(r.logs[i])>> >>
  BY <1>1 DEF LogHashes, HashLeaves
<1>3. \A i \in 1 .. n : IsList(items[i]) /\ Len(items[i]) = 1
  BY <1>2, PairList
<1>4. /\ 2 + Len(logs) + Len(hashes) <= Len(named) /\ Len(logs) \in Nat /\ Len(hashes) \in Nat
      /\ Len(named) \in Nat
      /\ \A k \in 1 .. Len(hashes) : named[2 + Len(logs) + k] = hashes[k]
  <2>1. \A s : IsList(s) => Len(s) \in Nat
    BY DEF IsList
  <2> QED  BY <2>1, ReceiptLeavesList
<1>5. \A i \in 1 .. n : Under(IndexPrefix("log_hashes", i - 1), items[i])[1]
                          = <<IndexPrefix("log_hashes", i - 1), LogHash(r.logs[i])>>
  <2> TAKE i \in 1 .. n
  <2> DEFINE prefix == IndexPrefix("log_hashes", i - 1)
             x == LogHash(r.logs[i])
  <2>1. items[i] = << <<"", x>> >>
    BY <1>2
  <2> HIDE DEF prefix, x, items
  <2>2. Under(prefix, << <<"", x>> >>)[1] = <<JoinPrefix(prefix, ""), x>>
    <3> DEFINE u == << <<"", x>> >>
    <3>1. DOMAIN u = 1 .. 1 /\ u[1][1] = "" /\ u[1][2] = x /\ 1 \in 1 .. 1
      OBVIOUS
    <3> HIDE DEF u
    <3>2. Under(prefix, u)[1] = <<JoinPrefix(prefix, ""), x>>
      BY <3>1 DEF Under
    <3> QED  BY <3>2 DEF u
  <2>3. JoinPrefix(prefix, "") = prefix
    BY DEF JoinPrefix
  <2> QED  BY <2>1, <2>2, <2>3 DEF prefix, x
<1> HIDE DEF named, logs, items
<1> PICK off : SlicedAt(off, "log_hashes", n, items)
  BY <1>1, <1>2, <1>3, SlicePlaced
<1>6. ASSUME NEW i \in 1 .. n
      PROVE  /\ off[i] \in Nat /\ off[i] + 1 <= Len(hashes)
             /\ hashes[off[i] + 1] = Under(IndexPrefix("log_hashes", i - 1), items[i])[1]
             /\ \A h \in 1 .. n : h < i => off[h] + 1 <= off[i]
  <2>1. /\ off[i] \in Nat
        /\ off[i] + Len(items[i]) <= Len(hashes)
        /\ \A j \in 1 .. Len(items[i]) :
             hashes[off[i] + j] = Under(IndexPrefix("log_hashes", i - 1), items[i])[j]
        /\ \A h \in 1 .. n : h < i => off[h] + Len(items[h]) <= off[i]
    BY DEF SlicedAt
  <2>2. Len(items[i]) = 1 /\ \A h \in 1 .. n : Len(items[h]) = 1
    BY <1>3
  <2> HIDE DEF hashes, n
  <2>3. \A h \in 1 .. n : h < i => off[h] + 1 <= off[i]
    BY ONLY <2>1, <2>2
  <2>4. 1 \in 1 .. Len(items[i])
    BY ONLY <2>2
  <2>5. off[i] + 1 <= Len(hashes)
    BY ONLY <2>1, <2>2
  <2> QED  BY ONLY <2>1, <2>3, <2>4, <2>5
<1> HIDE DEF hashes
<1> DEFINE at == [i \in 1 .. n |-> 2 + Len(logs) + (off[i] + 1)]
<1>7. ASSUME NEW i \in 1 .. n
      PROVE  /\ at[i] \in 1 .. Len(named)
             /\ named[at[i]] = <<IndexPrefix("log_hashes", i - 1), LogHash(r.logs[i])>>
             /\ \A h \in 1 .. n : h < i => at[h] < at[i]
  <2>1. at[i] = 2 + Len(logs) + (off[i] + 1) /\ \A h \in 1 .. n : at[h] = 2 + Len(logs) + (off[h] + 1)
    OBVIOUS
  <2> HIDE DEF at
  <2>2. off[i] \in Nat /\ off[i] + 1 <= Len(hashes)
    BY <1>6
  <2>3. off[i] + 1 \in 1 .. Len(hashes)
    BY <1>4, <2>2
  <2>4. hashes[off[i] + 1] = <<IndexPrefix("log_hashes", i - 1), LogHash(r.logs[i])>>
    BY <1>5, <1>6
  <2>5. at[i] \in 1 .. Len(named)
    BY <1>4, <2>1, <2>3
  <2>6. named[at[i]] = hashes[off[i] + 1]
    BY <1>4, <2>1, <2>3
  <2>7. ASSUME NEW h \in 1 .. n, h < i
        PROVE  at[h] < at[i]
    <3>1. off[h] \in Nat /\ off[h] + 1 <= off[i]
      BY <1>6, <2>7
    <3> QED  BY <1>4, <2>1, <2>2, <3>1
  <2> QED  BY <2>4, <2>5, <2>6, <2>7
<1> HIDE DEF at
<1> QED
  BY <1>7 DEF named

\* Names tell the leaves of a receipt apart.
LEMMA NamesDiffer ==
    ASSUME NEW logs \in Seq(Logs), Len(logs) <= MaxLogs
    PROVE  LET named == ReceiptLeaves(WithLogs(logs))
           IN  \A i, k \in DOMAIN named : named[i][1] = named[k][1] => i = k
<1>1. logs \in SeqOf(Logs, MaxLogs)
  <2>1. Len(logs) \in 0 .. MaxLogs /\ logs \in [1 .. Len(logs) -> Logs]
    BY ReceiptProofsAssumption
  <2> QED  BY <2>1 DEF SeqOf
<1> QED
  BY <1>1, NamesAssumption DEF IsInjective

\* and so indices apart.
LEMMA IndicesDiffer ==
    ASSUME NEW log \in Logs, NEW i \in 0 .. MaxLogs - 1, NEW j \in 0 .. MaxLogs - 1,
           IndexPrefix("log_hashes", i) = IndexPrefix("log_hashes", j)
    PROVE  i = j
<1> DEFINE logs == [k \in 1 .. MaxLogs |-> log]
           r == WithLogs(logs)
           named == ReceiptLeaves(r)
<1>1. MaxLogs \in Nat
  BY ReceiptProofsAssumption
<1>2. logs \in Seq(Logs) /\ Len(logs) = MaxLogs
  BY <1>1
<1> HIDE DEF logs
<1>3. r.logs = logs /\ HasLogs(r)
  BY <1>2, HasItsLogs
<1>4. \A a, b \in DOMAIN named : named[a][1] = named[b][1] => a = b
  BY <1>1, <1>2, NamesDiffer
<1>5. DOMAIN named = 1 .. Len(named)
  <2>1. IsList(named)
    BY <1>3, ReceiptLeavesList
  <2> QED  BY <2>1 DEF IsList
<1> HIDE DEF r, named
<1>6. PICK at : \A k \in 1 .. MaxLogs :
        /\ at[k] \in 1 .. Len(named)
        /\ named[at[k]] = <<IndexPrefix("log_hashes", k - 1), LogHash(r.logs[k])>>
        /\ \A h \in 1 .. MaxLogs : h < k => at[h] < at[k]
  <2>1. \E at : \A k \in 1 .. Len(r.logs) :
          /\ at[k] \in 1 .. Len(ReceiptLeaves(r))
          /\ ReceiptLeaves(r)[at[k]] = <<IndexPrefix("log_hashes", k - 1), LogHash(r.logs[k])>>
          /\ \A h \in 1 .. Len(r.logs) : h < k => at[h] < at[k]
    BY <1>3, LogHashPlaces
  <2> QED  BY <1>2, <1>3, <2>1 DEF named
<1>7. i + 1 \in 1 .. MaxLogs /\ j + 1 \in 1 .. MaxLogs /\ (i + 1) - 1 = i /\ (j + 1) - 1 = j
  BY <1>1
<1>8. named[at[i + 1]][1] = IndexPrefix("log_hashes", i) /\ named[at[j + 1]][1] = IndexPrefix("log_hashes", j)
  BY <1>6, <1>7
<1>9. at[i + 1] = at[j + 1]
  BY <1>4, <1>5, <1>6, <1>7, <1>8
<1>10. at[i + 1] \in Int /\ ~ (i + 1 < j + 1) /\ ~ (j + 1 < i + 1)
  <2>1. at[i + 1] \in Int
    BY <1>6, <1>7
  <2>2. ~ (at[i + 1] < at[j + 1]) /\ ~ (at[j + 1] < at[i + 1])
    BY <1>9, <2>1
  <2> QED  BY <1>6, <1>7, <2>1, <2>2
<1> QED
  BY <1>10

\* Different leaves that follow each other have a multi-proof that is accepted.
LEMMA SegmentProof ==
    ASSUME NEW leaves, Len(leaves) \in Nat \ {0}, DOMAIN leaves = 1 .. Len(leaves),
           \A i, k \in DOMAIN leaves : leaves[i] = leaves[k] => i = k,
           NEW part, IsList(part), NEW off \in Nat, off + Len(part) <= Len(leaves),
           \A j \in 1 .. Len(part) : part[j] = leaves[off + j]
    PROVE  LET proof == GenerateMultiProof(StandardTree(leaves), part)
           IN  proof # None /\ VerifyMultiProof(Root(NewTree(leaves)), part, proof)
<1>1. Len(part) \in Nat /\ DOMAIN part = 1 .. Len(part)
  BY DEF IsList
<1>2. \A j \in 1 .. Len(part) : off + j \in DOMAIN leaves
  BY <1>1
<1>3. \A j \in 1 .. Len(part) : part[j] \in Range(leaves)
  BY <1>2 DEF Range
<1>4. part \in Seq(Range(leaves))
  <2> DEFINE S == Range(leaves)
  <2>1. PICK H : part \in Seq(H)
    BY DEF IsList
  <2>2. \A j \in 1 .. Len(part) : part[j] \in S
    BY <1>3
  <2> HIDE DEF S
  <2>3. part \in Seq(S)
    BY ONLY <2>1, <2>2
  <2> QED  BY <2>3 DEF S
<1>5. ASSUME NEW j \in 1 .. Len(part)
      PROVE  Indices(leaves)[part[j]] = 2 * Len(leaves) - 1 - (off + j)
  <2> DEFINE leaf == part[j]
             place == Max({k \in DOMAIN leaves : leaves[k] = leaf})
  <2>1. leaf \in Range(leaves) /\ leaf = leaves[off + j] /\ off + j \in DOMAIN leaves
    BY <1>2, <1>3
  <2> HIDE DEF leaf
  <2>2. Indices(leaves)[leaf] = 2 * Len(leaves) - 1 - place /\ place \in DOMAIN leaves /\ leaves[place] = leaf
    <3>1. Len(leaves) \in Nat \ {0} /\ DOMAIN leaves = 1 .. Len(leaves)
      OBVIOUS
    <3> QED  BY ONLY <2>1, <3>1, PlaceOf
  <2> HIDE DEF place
  <2>3. place = off + j
    BY <2>1, <2>2
  <2> QED  BY <2>2, <2>3 DEF leaf
<1>6. \A i, j \in DOMAIN part : i < j => Indices(leaves)[part[i]] > Indices(leaves)[part[j]]
  <2> TAKE i, j \in DOMAIN part
  <2>1. i \in Int /\ j \in Int
    BY <1>1
  <2>2. /\ Indices(leaves)[part[i]] = 2 * Len(leaves) - 1 - (off + i)
        /\ Indices(leaves)[part[j]] = 2 * Len(leaves) - 1 - (off + j)
    BY <1>1, <1>5
  <2> QED  BY <2>1, <2>2
<1> QED
  BY <1>4, <1>6, MultiProofComplete, MultiProofSome

\* So have leaves of a receipt.
LEMMA SegmentProves ==
    ASSUME ProofsInv, NEW part, IsList(part), NEW off \in Nat,
           off + Len(part) <= Len(ReceiptLeaves(receipt)),
           \A j \in 1 .. Len(part) : part[j] = ReceiptLeaves(receipt)[off + j]
    PROVE  LET multi == MultiProofOf(receipt, part)
           IN  multi # None /\ Proves(ReceiptHash(receipt), multi)
<1> DEFINE named == ReceiptLeaves(receipt)
           leaves == Leaves
           n == Len(leaves)
           hashed == Hashed(part)
           proof == GenerateMultiProof(StandardTree(leaves), hashed)
<1>1. n \in Nat \ {0} /\ DOMAIN leaves = 1 .. n /\ leaves = Hashed(named)
      /\ HasLogs(receipt)
  BY LeavesList
<1>2. Len(named) = n /\ DOMAIN named = 1 .. n
      /\ \A k \in 1 .. n : leaves[k] = HashLeaf(named[k][1], named[k][2])
  <2>1. IsList(named) /\ named # <<>>
    BY <1>1, ReceiptLeavesList
  <2>2. PICK H : named \in Seq(H)
    BY <2>1 DEF IsList
  <2> HIDE DEF named, leaves
  <2> QED  BY <1>1, <2>1, <2>2, HashedType
<1>3. \A i, k \in 1 .. n : leaves[i] = leaves[k] => i = k
  <2>1. \A i, k \in DOMAIN named : named[i][1] = named[k][1] => i = k
    BY NamesDiffer DEF ProofsInv
  <2> HIDE DEF named, leaves
  <2> TAKE i, k \in 1 .. n
  <2>2. ASSUME leaves[i] = leaves[k]
        PROVE  named[i][1] = named[k][1]
    <3>1. HashLeaf(named[i][1], named[i][2]) = HashLeaf(named[k][1], named[k][2])
      BY <1>2, <2>2
    <3> QED  BY ONLY <3>1, LeafIsNoPair
  <2> QED  BY <1>2, <2>1, <2>2
<1> HIDE DEF leaves
<1>4. Len(part) \in Nat /\ DOMAIN part = 1 .. Len(part)
  BY DEF IsList
<1>5. /\ IsList(hashed) /\ Len(hashed) = Len(part)
      /\ \A j \in 1 .. Len(part) : hashed[j] = HashLeaf(part[j][1], part[j][2])
  <2>1. /\ DOMAIN hashed = 1 .. Len(part) /\ hashed = [j \in 1 .. Len(part) |-> hashed[j]]
        /\ \A j \in 1 .. Len(part) : hashed[j] = HashLeaf(part[j][1], part[j][2])
    BY <1>4 DEF Hashed
  <2> HIDE DEF hashed
  <2> QED  BY <1>4, <2>1, ListOf
<1> HIDE DEF hashed
<1>6. ASSUME NEW j \in 1 .. Len(part)
      PROVE  hashed[j] = leaves[off + j]
  <2>1. off + j \in 1 .. n
    BY <1>1, <1>2, <1>4
  <2>2. part[j] = named[off + j]
    OBVIOUS
  <2> HIDE DEF named
  <2> QED  BY <1>2, <1>5, <2>1, <2>2
<1>7. VerifyMultiProof(Root(NewTree(leaves)), hashed, proof) /\ proof # None
  <2>1. off + Len(hashed) <= n
    BY <1>2, <1>5
  <2>2. \A j \in 1 .. Len(hashed) : hashed[j] = leaves[off + j]
    BY <1>5, <1>6
  <2> QED  BY <1>1, <1>3, <1>5, <2>1, <2>2, SegmentProof
<1>8. MultiProofOf(receipt, part) = [leaves |-> hashed, proof |-> proof]
  <2>1. ToMerkleTree(named) = StandardTree(leaves)
    BY <1>1 DEF ToMerkleTree
  <2> QED  BY <1>7, <2>1 DEF MultiProofOf, hashed
<1>9. ReceiptHash(receipt) = Root(NewTree(leaves))
  BY <1>1 DEF ReceiptHash
<1> HIDE DEF proof
<1>10. \A a, b : /\ [leaves |-> a, proof |-> b] \notin {None, Panic}
                 /\ [leaves |-> a, proof |-> b].leaves = a /\ [leaves |-> a, proof |-> b].proof = b
  BY DEF None, Panic
<1> QED
  BY <1>7, <1>8, <1>9, <1>10 DEF Proves

\* A log is known by its hash.
LEMMA SameLogHash ==
    ASSUME NEW a, IsLog(a), NEW b, IsLog(b), LogHash(a) = LogHash(b)
    PROVE  a = b
<1>1. a.address = b.address /\ a.topics = b.topics /\ a.data = b.data
  BY DEF LogHash
<1> QED
  BY <1>1 DEF IsLog

\* The proofs the API makes for the logs of a receipt are accepted, and the one of an index for
\* the log at that index only: for all receipts.
THEOREM LogsProvableSafety == ProofsSpec => []LogsProvable
<1>1. ProofsInv => LogsProvable
  <2> SUFFICES ASSUME ProofsInv
               PROVE  LogsProvable
    OBVIOUS
  <2> DEFINE n == Len(receipt.logs)
             named == ReceiptLeaves(receipt)
             items == [i \in DOMAIN receipt.logs |-> LogLeaves(receipt.logs[i])]
             logs == Slice("logs", items)
  <2>1. /\ Len(Leaves) \in Nat \ {0} /\ DOMAIN Leaves = 1 .. Len(Leaves)
        /\ Leaves = Hashed(named) /\ HasLogs(receipt)
    BY LeavesList
  <2>2. n \in 0 .. MaxLogs /\ DOMAIN receipt.logs = 1 .. n
        /\ \A i \in 1 .. n : receipt.logs[i] \in Logs /\ IsLog(receipt.logs[i])
    BY ReceiptProofsAssumption DEF ProofsInv
  <2>3. DOMAIN items = 1 .. n /\ \A i \in 1 .. n : items[i] = LogLeaves(receipt.logs[i]) /\ IsList(items[i])
    BY <2>2, LogLeavesList
  <2>4. /\ IsList(named) /\ IsList(logs) /\ 2 + Len(logs) <= Len(named) /\ Len(logs) \in Nat
        /\ Len(named) \in Nat /\ \A k \in 1 .. Len(logs) : named[2 + k] = logs[k]
    <3> DEFINE hashes == Slice("log_hashes", LogHashes(receipt))
    <3>1. /\ IsList(named) /\ IsList(logs) /\ IsList(hashes)
          /\ 2 + Len(logs) + Len(hashes) <= Len(named)
          /\ \A k \in 1 .. Len(logs) : named[2 + k] = logs[k]
      BY <2>1, ReceiptLeavesList
    <3>2. \A s : IsList(s) => Len(s) \in Nat
      BY DEF IsList
    <3> HIDE DEF named, logs, hashes
    <3> QED  BY <3>1, <3>2
  <2>5. Proves(ReceiptHash(receipt), GenerateMultiProofForLogs(receipt))
    <3> DEFINE multi == MultiProofOf(receipt, logs)
    <3>1. multi # None /\ Proves(ReceiptHash(receipt), multi)
      <4> HIDE DEF logs
      <4> QED  BY <2>4, SegmentProves
    <3>2. GenerateMultiProofForLogs(receipt) = multi
      BY <3>1 DEF GenerateMultiProofForLogs, Expect
    <3> QED  BY <3>1, <3>2
  <2>6. ASSUME NEW index \in 0 .. n - 1
        PROVE  Proves(ReceiptHash(receipt), GenerateMultiProofForLog(receipt, index))
    <3> DEFINE part == Under(IndexPrefix("logs", index), LogLeaves(receipt.logs[index + 1]))
    <3>1. index + 1 \in 1 .. n /\ (index + 1) - 1 = index
      BY <2>2
    <3>2. PICK off : SlicedAt(off, "logs", n, items)
      <4>1. n \in Nat
        BY <2>2
      <4> HIDE DEF items, n
      <4> QED  BY <2>3, <4>1, SlicePlaced
    <3>3. items[index + 1] = LogLeaves(receipt.logs[index + 1]) /\ IsList(items[index + 1])
      BY <2>3, <3>1
    <3>4. IsList(part) /\ Len(part) = Len(items[index + 1])
      BY <3>3, UnderList
    <3>5. part = Under(IndexPrefix("logs", index), items[index + 1])
      BY <3>3
    <3> HIDE DEF part, items, named
    <3> DEFINE o == 2 + off[index + 1]
    <3>6. /\ off[index + 1] \in Nat /\ Len(part) \in Nat /\ off[index + 1] + Len(part) <= Len(logs)
          /\ \A j \in 1 .. Len(part) : logs[off[index + 1] + j] = part[j]
      BY <3>1, <3>2, <3>4, <3>5 DEF SlicedAt
    <3> HIDE DEF logs
    <3>7. o \in Nat /\ o + Len(part) <= Len(named)
      <4>1. Len(logs) \in Nat /\ Len(named) \in Nat /\ 2 + Len(logs) <= Len(named)
        BY <2>4
      <4> QED  BY ONLY <3>6, <4>1
    <3>8. ASSUME NEW j \in 1 .. Len(part)
          PROVE  part[j] = named[o + j]
      <4>1. off[index + 1] + j \in 1 .. Len(logs) /\ 2 + (off[index + 1] + j) = o + j
        BY <2>4, <3>6
      <4> HIDE DEF o
      <4> QED  BY <2>4, <3>6, <4>1
    <3> HIDE DEF o
    <3>9. Proves(ReceiptHash(receipt), MultiProofOf(receipt, part))
      BY <3>4, <3>7, <3>8, SegmentProves DEF named
    <3> QED  BY <2>2, <3>1, <3>9 DEF GenerateMultiProofForLog, HasLog, part
  <2>7. ASSUME NEW index \in 0 .. n - 1, NEW log \in Logs, NEW i \in 0 .. MaxLogs - 1
        PROVE  VerifyProof(ReceiptHash(receipt), LogHashLeaf(i, log),
                           GenerateProofForLogHash(receipt, index))
                 <=> (i = index /\ log = receipt.logs[index + 1])
    <3> DEFINE own == receipt.logs[index + 1]
               leaf == LogHashLeaf(index, own)
               x == LogHashLeaf(i, log)
    <3>1. index + 1 \in 1 .. n /\ (index + 1) - 1 = index /\ index \in 0 .. MaxLogs - 1
      BY <2>2, ReceiptProofsAssumption
    <3>2. own \in Logs /\ IsLog(own) /\ IsLog(log)
      BY <2>2, <3>1, ReceiptProofsAssumption
    <3>3. leaf \in Range(Leaves)
      <4>1. PICK at : \A k \in 1 .. n :
              /\ at[k] \in 1 .. Len(named)
              /\ named[at[k]] = <<IndexPrefix("log_hashes", k - 1), LogHash(receipt.logs[k])>>
              /\ \A h \in 1 .. n : h < k => at[h] < at[k]
        BY <2>1, LogHashPlaces
      <4> DEFINE p == at[index + 1]
      <4>2. p \in 1 .. Len(named) /\ named[p] = <<IndexPrefix("log_hashes", index), LogHash(own)>>
        BY <3>1, <4>1
      <4>3. named[p][1] = IndexPrefix("log_hashes", index) /\ named[p][2] = LogHash(own)
        BY <4>2
      <4>4. Leaves[p] = leaf /\ p \in DOMAIN Leaves
        <5>1. DOMAIN named = 1 .. Len(named)
          BY <2>4 DEF IsList
        <5> HIDE DEF p, own, named
        <5> QED  BY <2>1, <4>2, <4>3, <5>1 DEF Hashed, LogHashLeaf
      <4> QED  BY <4>4 DEF Range
    <3>4. GenerateProofForLogHash(receipt, index) = GenerateProof(StandardTree(Leaves), leaf)
      BY <2>1, <2>2, <3>1 DEF GenerateProofForLogHash, HasLog, ToMerkleTree
    <3>5. ReceiptHash(receipt) = Root(NewTree(Leaves))
      BY <2>1 DEF ReceiptHash
    <3> HIDE DEF leaf, x, n
    <3>6. VerifyProof(ReceiptHash(receipt), x, GenerateProofForLogHash(receipt, index)) <=> x = leaf
      BY <2>1, <3>3, <3>4, <3>5, ProofExact
    <3>7. ASSUME x = leaf
          PROVE  i = index /\ log = own
      <4>1. HashLeaf(IndexPrefix("log_hashes", i), LogHash(log))
              = HashLeaf(IndexPrefix("log_hashes", index), LogHash(own))
        BY <3>7 DEF x, leaf, LogHashLeaf
      <4> HIDE DEF own
      <4>2. IndexPrefix("log_hashes", i) = IndexPrefix("log_hashes", index) /\ LogHash(log) = LogHash(own)
        BY ONLY <4>1, LeafIsNoPair
      <4>3. i = index
        BY <3>1, <4>2, IndicesDiffer
      <4>4. log = own
        BY <3>2, <4>2, SameLogHash
      <4> QED  BY <4>3, <4>4
    <3>8. i = index /\ log = own => x = leaf
      BY DEF x, leaf
    <3> QED  BY <3>6, <3>7, <3>8 DEF x
  <2> QED  BY <2>5, <2>6, <2>7 DEF LogsProvable
<1> QED
  BY <1>1, ProofsInvariance, PTL


-----------------------------------------------------------------------------
\* Multi-proofs from elsewhere

\* A verifier whose counts add up never runs out of hashes: every stack has as many as are
\* left, and two where two are taken.
AreLong(st, n, flags, path) ==
    /\ \A k \in 0 .. n : IsList(st[k])
    /\ \A k \in 0 .. n - 1 :
         /\ Len(st[k]) >= (IF flags[k + 1] THEN 2 ELSE 1)
         /\ st[k + 1] = Joined(st[k], flags[k + 1], path[Cursor(flags, k + 1)])

LEMMA StackLengths ==
    ASSUME NEW s, IsList(s), NEW flags \in Seq(BOOLEAN), NEW path,
           Len(s) + Cursor(flags, Len(flags)) = Len(flags) + 1,
           NEW st, AreStacks(st, Len(flags), s, flags, path)
    PROVE  AreLong(st, Len(flags), flags, path)
<1> DEFINE n == Len(flags)
<1>7. n \in Nat /\ Len(s) + Cursor(flags, n) = n + 1 /\ AreStacks(st, n, s, flags, path)
  OBVIOUS
<1> DEFINE S == {k \in 0 .. n : IsList(st[k]) /\ Len(st[k]) + k = Len(s) + Cursor(flags, k)}
<1>1. Len(s) \in Nat /\ \A u : IsList(u) => Len(u) \in Nat
  BY DEF IsList
<1>2. \A k \in 0 .. n : Cursor(flags, k) \in Nat
  <2> TAKE k \in 0 .. n
  <2>1. k \in Nat
    OBVIOUS
  <2> QED  BY <2>1, CursorStep
<1>3. 0 \in S
  <2>1. 0 \in 0 .. n /\ Cursor(flags, 0) = 0
    BY CursorStep
  <2>2. st[0] = s
    BY <2>1 DEF AreStacks
  <2> QED  BY <1>1, <2>1, <2>2
<1>4. ASSUME NEW k \in 0 .. n - 1, k \in S
      PROVE  /\ Len(st[k]) >= (IF flags[k + 1] THEN 2 ELSE 1)
             /\ st[k + 1] = Joined(st[k], flags[k + 1], path[Cursor(flags, k + 1)])
             /\ k + 1 \in S
  <2>1. k \in Nat /\ k + 1 \in 0 .. n /\ k + 1 \in 1 .. n /\ k + 1 # 0 /\ (k + 1) - 1 = k /\ k \in 0 .. n
    OBVIOUS
  <2>2. flags[k + 1] \in BOOLEAN
    BY <2>1
  <2>3. st[k + 1] = Joined(st[k], flags[k + 1], path[Cursor(flags, k + 1)])
    BY <2>1 DEF AreStacks
  <2>4. IsList(st[k]) /\ Len(st[k]) + k = Len(s) + Cursor(flags, k) /\ Len(st[k]) \in Nat
    BY <1>1, <1>4
  <2> DEFINE d == IF flags[k + 1] THEN 2 ELSE 1
             c == Cursor(flags, k)
             e == Cursor(flags, k + 1)
             f == Cursor(flags, n)
             l == Len(st[k])
  <2>5. d \in {1, 2} /\ e = c + 2 - d /\ c \in Nat /\ f \in Nat
    <3>1. e = (IF flags[k + 1] THEN c ELSE c + 1) /\ c \in Nat
      BY <2>1, CursorStep
    <3>2. f \in Nat
      BY <1>2, n \in 0 .. n
    <3> HIDE DEF e, c, f
    <3> QED  BY <3>1, <3>2
  <2>6. f <= e + (n - (k + 1))
    BY <2>1, CursorGrows
  <2>7. l \in Nat /\ l + k = Len(s) + c /\ Len(s) + f = n + 1
    BY <2>4
  <2> HIDE DEF c, e, f, l
  <2>8. l >= d
    <3> HIDE DEF d, S
    <3> QED  BY <1>1, <2>1, <2>5, <2>6, <2>7
  <2>9. IsList(st[k + 1]) /\ Len(st[k + 1]) = Len(st[k]) - (IF flags[k + 1] THEN 2 ELSE 1) + 1
    <3> DEFINE u == st[k]
               flag == flags[k + 1]
               x == path[Cursor(flags, k + 1)]
    <3>1. IsList(u) /\ flag \in BOOLEAN /\ Len(u) >= (IF flag THEN 2 ELSE 1)
      BY <2>2, <2>4, <2>8 DEF l
    <3>2. st[k + 1] = Joined(u, flag, x)
      BY <2>3
    <3> HIDE DEF u, flag, x
    <3>3. IsList(Joined(u, flag, x)) /\ Len(Joined(u, flag, x)) = Len(u) - (IF flag THEN 2 ELSE 1) + 1
      BY <3>1, JoinedIs
    <3> QED  BY <3>2, <3>3 DEF u, flag
  <2>10. Len(st[k + 1]) = l - d + 1
    BY <2>9 DEF l
  <2>11. Len(st[k + 1]) + (k + 1) = Len(s) + e
    <3> HIDE DEF d, S
    <3> QED  BY <1>1, <2>1, <2>5, <2>7, <2>10
  <2> QED  BY <2>1, <2>3, <2>8, <2>9, <2>11 DEF l, e
<1> HIDE DEF S
<1>5. \A k \in 0 .. n : k \in S
  <2>1. \A k \in 0 .. n - 1 : k \in S => k + 1 \in S
    BY <1>4
  <2>2. n \in Nat
    OBVIOUS
  <2> HIDE DEF n
  <2> QED  BY ONLY <1>3, <2>1, <2>2, UpTo
<1>6. \A k \in 0 .. n - 1 : k \in 0 .. n
  OBVIOUS
<1> QED
  BY <1>4, <1>5, <1>6 DEF S, AreLong

\* A hash of the tree that pairs two hashes pairs two of the tree.
LEMMA PairInTree ==
    ASSUME NEW L, NEW named \in Seq(L), named # <<>>, NEW tree, IsTree(tree, Hashed(named)),
           NEW a, NEW b, HashPair(a, b) \in TreeHashes(Len(named), tree)
    PROVE  a \in TreeHashes(Len(named), tree) /\ b \in TreeHashes(Len(named), tree)
<1> DEFINE m == 2 * Len(named) - 2
<1> PICK i \in 0 .. m : tree[i] = HashPair(a, b)
  BY DEF TreeHashes
<1> DEFINE n == Len(named)
           leaves == Hashed(named)
<1>1. /\ n \in Nat \ {0} /\ Len(leaves) = n
      /\ \A k \in 1 .. n : leaves[k] = HashLeaf(named[k][1], named[k][2])
  BY HashedType
<1> HIDE DEF leaves
<1>2. i \in 0 .. n - 2
  <2>1. CASE i \in n - 1 .. m
    <3>1. 2 * n - 1 - i \in 1 .. n
      BY <1>1, <2>1
    <3> DEFINE k == 2 * n - 1 - i
    <3>2. tree[i] = leaves[k]
      BY <1>1, <2>1 DEF IsTree, leaves
    <3>3. HashPair(a, b) = HashLeaf(named[k][1], named[k][2])
      BY <1>1, <3>1, <3>2
    <3> QED  BY ONLY <3>3, LeafIsNoPair
  <2> QED  BY <1>1, <2>1
<1>3. tree[i] = HashPair(tree[LeftChild(i)], tree[RightChild(i)])
  BY <1>1, <1>2 DEF IsTree, leaves
<1>4. LeftChild(i) \in 0 .. m /\ RightChild(i) \in 0 .. m
  BY <1>1, <1>2 DEF LeftChild, RightChild
<1>5. HashPair(a, b) = HashPair(tree[LeftChild(i)], tree[RightChild(i)])
  BY <1>3
<1>6. HashPair(b, a) = HashPair(tree[LeftChild(i)], tree[RightChild(i)])
  <2>1. HashPair(a, b) = HashPair(b, a)
    <3>1. {a, b} = {b, a}
      OBVIOUS
    <3> QED  BY <3>1 DEF HashPair
  <2> QED  BY <1>5, <2>1
<1>7. a = tree[LeftChild(i)] \/ a = tree[RightChild(i)]
  BY ONLY <1>5, PairOf
<1>8. b = tree[LeftChild(i)] \/ b = tree[RightChild(i)]
  BY ONLY <1>6, PairOf
<1> QED
  BY <1>4, <1>7, <1>8 DEF TreeHashes

\* No forged multi-proof: whatever flags and hashes it consists of, if it has as many hashes
\* as its flags take and the verifier accepts it, every leaf shown with it is one of the tree,
\* its name and its value included.  (With one hash more than that the verifier would run out
\* of hashes to join.)
THEOREM NoForgedMultiProof ==
    ASSUME NEW L, NEW named \in Seq(L), named # <<>>,
           NEW M, NEW shown \in Seq(M), shown # <<>>,
           NEW flags \in Seq(BOOLEAN), NEW P, NEW path \in Seq(P),
           Len(path) = Cursor(flags, Len(flags)),
           VerifyMultiProof(Root(NewTree(Hashed(named))), Hashed(shown), [path |-> path, flags |-> flags])
    PROVE  \A k \in DOMAIN shown : \E j \in DOMAIN named :
             named[j][1] = shown[k][1] /\ named[j][2] = shown[k][2]
<1> DEFINE tree == NewTree(Hashed(named))
           s == Hashed(shown)
           n == Len(flags)
           m == 2 * Len(named) - 2
           H == TreeHashes(Len(named), tree)
<1>1. /\ Len(named) \in Nat \ {0} /\ Len(Hashed(named)) = Len(named) /\ DOMAIN named = 1 .. Len(named)
      /\ \A k \in 1 .. Len(named) : Hashed(named)[k] = HashLeaf(named[k][1], named[k][2])
  BY HashedType
<1>2. /\ Len(s) = Len(shown) /\ Len(shown) \in Nat \ {0} /\ DOMAIN shown = 1 .. Len(shown)
      /\ DOMAIN s = 1 .. Len(shown)
      /\ \A k \in 1 .. Len(shown) : s[k] = HashLeaf(shown[k][1], shown[k][2])
  BY HashedType
<1>3. IsTree(tree, Hashed(named)) /\ m \in Nat /\ n \in Nat /\ Len(path) \in Nat
  BY <1>1, NewTreeIsTree
<1>4. IsList(s)
  <2>1. s = [k \in 1 .. Len(shown) |-> s[k]]
    BY <1>2 DEF Hashed
  <2> HIDE DEF s
  <2> QED  BY <1>2, <2>1, ListOf
<1> HIDE DEF tree, s, m
<1>5. PICK st : /\ AreStacks(st, n, s, flags, path)
                /\ Accepts(st, Root(tree), s, flags, path)
  <2>1. \E st : /\ AreStacks(st, n, s, flags, path)
                /\ VerifyMultiProof(Root(tree), s, [path |-> path, flags |-> flags])
                     <=> Accepts(st, Root(tree), s, flags, path)
    BY <1>3, VerifiedBy
  <2> QED  BY <2>1 DEF tree, s
<1>6. Len(s) + Cursor(flags, n) = n + 1 /\ Len(st[n]) = 1 /\ st[n][1] = tree[0]
  BY <1>3, <1>5 DEF Accepts, Root
<1>7. /\ \A k \in 0 .. n : IsList(st[k])
      /\ \A k \in 0 .. n - 1 :
           /\ Len(st[k]) >= (IF flags[k + 1] THEN 2 ELSE 1)
           /\ st[k + 1] = Joined(st[k], flags[k + 1], path[Cursor(flags, k + 1)])
  <2>1. AreLong(st, Len(flags), flags, path)
    BY <1>4, <1>5, <1>6, StackLengths
  <2> QED  BY <2>1 DEF AreLong
<1> HIDE DEF n
<1> DEFINE S == {k \in 0 .. n : \A i \in 1 .. Len(st[n - k]) : st[n - k][i] \in H}
<1>8. 0 \in S
  <2>1. n - 0 = n /\ 0 \in 0 .. n /\ 0 \in 0 .. m
    BY <1>3
  <2>2. \A i \in 1 .. Len(st[n]) : i = 1
    BY <1>6
  <2>3. tree[0] \in H
    BY <2>1 DEF TreeHashes, m
  <2> HIDE DEF H
  <2> QED  BY <1>6, <2>1, <2>2, <2>3
<1> HIDE DEF H
<1>9. ASSUME NEW k \in 0 .. n - 1, k \in S
      PROVE  k + 1 \in S
  <2> DEFINE h == n - (k + 1)
             u == st[h]
             flag == flags[h + 1]
             x == path[Cursor(flags, h + 1)]
             r == st[n - k]
             d == IF flag THEN 2 ELSE 1
  <2>1. h \in 0 .. n - 1 /\ h \in 0 .. n /\ h + 1 = n - k /\ k + 1 \in 0 .. n /\ h + 1 \in 1 .. Len(flags)
    BY <1>3 DEF n
  <2>2. \A i \in 1 .. Len(r) : r[i] \in H
    BY <1>9
  <2> HIDE DEF h, S
  <2>3. IsList(u) /\ Len(u) >= d /\ flag \in BOOLEAN
    BY <1>7, <2>1
  <2>4. r = Joined(u, flag, x)
    <3>1. st[h + 1] = Joined(u, flag, x)
      BY <1>7, <2>1
    <3> QED  BY <2>1, <3>1
  <2> HIDE DEF u, flag, x, r
  <2> DEFINE l == Len(u) - d + 1
             y == IF flag THEN u[2] ELSE x
  <2>5. Len(u) \in Nat /\ d \in {1, 2}
    BY <2>3 DEF IsList
  <2>6. /\ Len(r) = l /\ r[l] = HashPair(u[1], y)
        /\ \A i \in 1 .. l - 1 : r[i] = u[i + d]
    <3>1. LET p == Joined(u, flag, x)
          IN  Len(p) = l /\ p[l] = HashPair(u[1], y) /\ \A i \in 1 .. l - 1 : p[i] = u[i + d]
      BY <2>3, JoinedIs
    <3> QED  BY <2>4, <3>1
  <2>7. u[1] \in H /\ y \in H
    <3>1. l \in 1 .. Len(r)
      BY <2>3, <2>5, <2>6
    <3> DEFINE a == u[1]
    <3>2. HashPair(a, y) \in H
      BY <2>2, <2>6, <3>1
    <3> HIDE DEF y, a
    <3>3. a \in H /\ y \in H
      BY <1>3, <3>2, PairInTree DEF H
    <3> QED  BY <3>3 DEF a
  <2>8. ASSUME NEW i \in 1 .. Len(u)
        PROVE  u[i] \in H
    <3>1. CASE i = 1
      BY <2>7, <3>1
    <3>2. CASE i = 2 /\ flag
      BY <2>7, <3>2
    <3>3. CASE i > d
      <4>1. i - d \in 1 .. l - 1 /\ (i - d) + d = i /\ i - d \in 1 .. Len(r)
        BY <2>3, <2>5, <2>6, <3>3
      <4>2. r[i - d] = u[i]
        <5>1. r[i - d] = u[(i - d) + d]
          BY <2>6, <4>1
        <5> QED  BY <4>1, <5>1
      <4> QED  BY <2>2, <4>1, <4>2
    <3>4. i = 1 \/ (i = 2 /\ flag) \/ i > d
      BY <2>3
    <3> QED  BY <3>1, <3>2, <3>3, <3>4
  <2> QED  BY <2>1, <2>8 DEF S, u, h
<1> HIDE DEF S
<1>10. n \in S
  <2>1. \A k \in 0 .. n : k \in S
    BY <1>3, <1>8, <1>9, UpTo
  <2> QED  BY <1>3, <2>1
<1>11. \A i \in 1 .. Len(s) : s[i] \in H
  <2>1. n - n = 0 /\ 0 \in 0 .. n
    BY <1>3
  <2>2. st[0] = s
    BY <1>5, <2>1 DEF AreStacks
  <2> QED  BY <1>10, <2>1, <2>2 DEF S
<1>12. ASSUME NEW k \in 1 .. Len(shown)
       PROVE  \E j \in 1 .. Len(named) : named[j][1] = shown[k][1] /\ named[j][2] = shown[k][2]
  <2>1. PICK i \in 0 .. m : HashLeaf(shown[k][1], shown[k][2]) = tree[i]
    <3>1. s[k] \in H /\ s[k] = HashLeaf(shown[k][1], shown[k][2])
      BY <1>2, <1>11
    <3> DEFINE x == HashLeaf(shown[k][1], shown[k][2])
    <3>2. x \in H
      BY <3>1
    <3> HIDE DEF x
    <3>3. \E i \in 0 .. m : x = tree[i]
      BY <3>2 DEF H, TreeHashes, m
    <3> QED  BY <3>3 DEF x
  <2>2. CASE i \in Len(named) - 1 .. m
    <3> DEFINE j == 2 * Len(named) - 1 - i
    <3>1. j \in 1 .. Len(named)
      BY <1>1, <2>2 DEF m
    <3>2. tree[i] = Hashed(named)[j]
      BY <1>1, <1>3, <2>2 DEF IsTree, m
    <3> HIDE DEF j
    <3>3. HashLeaf(shown[k][1], shown[k][2]) = HashLeaf(named[j][1], named[j][2])
      BY <1>1, <2>1, <3>1, <3>2
    <3>4. shown[k][1] = named[j][1] /\ shown[k][2] = named[j][2]
      BY ONLY <3>3, LeafIsNoPair
    <3> QED  BY <3>1, <3>4
  <2>3. CASE i \in 0 .. Len(named) - 2
    <3>1. HashLeaf(shown[k][1], shown[k][2]) = HashPair(tree[LeftChild(i)], tree[RightChild(i)])
      BY <1>1, <1>3, <2>1, <2>3 DEF IsTree
    <3> QED  BY ONLY <3>1, LeafIsNoPair
  <2> QED  BY <1>1, <2>2, <2>3 DEF m
<1>13. DOMAIN shown = 1 .. Len(shown) /\ DOMAIN named = 1 .. Len(named)
  BY <1>1, <1>2
<1> QED
  BY ONLY <1>12, <1>13

-----------------------------------------------------------------------------
\* Logs a client relies on

\* Receipts with the same hash are the same: their trees have the same leaves, and every
\* field has a name of its own.
LEMMA SameHashSameReceipt ==
    ASSUME NEW r1 \in Receipts, NEW r2 \in Receipts, Digest[r1] = Digest[r2]
    PROVE  r1 = r2
<1> DEFINE a == ReceiptLeaves(r1)
           b == ReceiptLeaves(r2)
<1>1. IsList(a) /\ a # <<>> /\ IsList(b) /\ b # <<>>
  BY ReceiptsAssumption, ReceiptLeavesList
<1>2. Root(NewTree(Hashed(a))) = Root(NewTree(Hashed(b)))
  BY DigestAssumption DEF ReceiptHash
<1> HIDE DEF a, b
<1>3. PICK H : a \in Seq(H) /\ b \in Seq(H)
  <2>1. PICK F : a \in Seq(F)
    BY <1>1 DEF IsList
  <2>2. PICK G : b \in Seq(G)
    BY <1>1 DEF IsList
  <2>3. a \in Seq(F \cup G) /\ b \in Seq(F \cup G)
    BY <2>1, <2>2
  <2> QED  BY <2>3
<1>4. /\ \A k \in DOMAIN a : \E j \in DOMAIN b : b[j][1] = a[k][1] /\ b[j][2] = a[k][2]
      /\ \A k \in DOMAIN b : \E j \in DOMAIN a : a[j][1] = b[k][1] /\ a[j][2] = b[k][2]
  BY <1>1, <1>2, <1>3, SameRootSameLeaves
<1>5. Range(Hashed(a)) = Range(Hashed(b))
  BY <1>4 DEF Range, Hashed
<1> QED
  BY <1>5, ReceiptsAssumption DEF a, b

\* A log that proves itself is in the receipt, at its index.
LEMMA ProvesItsPlace ==
    ASSUME NEW fetched \in SelfProving
    PROVE  /\ fetched.receipt \in Receipts
           /\ HasLog(fetched.receipt, fetched.log_index[1])
           /\ fetched.receipt.logs[fetched.log_index[1] + 1] = fetched.log
<1> DEFINE r == fetched.receipt
           index == fetched.log_index[1]
           log == r.logs[index + 1]
           leaves == Hashed(ReceiptLeaves(r))
           leaf == LogHashLeaf(index, log)
           proof == GenerateProof(StandardTree(leaves), leaf)
<1>1. r \in Receipts /\ fetched.log \in UNION {Range(q.logs) : q \in Receipts} /\ ProvesItself(fetched)
  BY DEF SelfProving, Fetched
<1>2. fetched.log_index # <<>> /\ HasLog(r, index)
  BY <1>1 DEF ProvesItself, GenerateLogProof, GenerateProofForLogHash
<1>3. /\ proof # None
      /\ VerifyProof(Root(NewTree(leaves)), LogHashLeaf(index, fetched.log), proof)
  <2>1. GenerateLogProof(fetched) = proof
    BY <1>2 DEF GenerateLogProof, GenerateProofForLogHash, ToMerkleTree
  <2>2. GetLeaf(fetched) = LogHashLeaf(index, fetched.log)
    BY <1>2 DEF GetLeaf
  <2>3. ReceiptHash(r) = Root(NewTree(leaves))
    BY DEF ReceiptHash
  <2> QED  BY <1>1, <2>1, <2>2, <2>3 DEF ProvesItself
<1>4. leaf \in Range(leaves)
  BY <1>3 DEF GenerateProof, StandardTree, Indices
<1>5. Len(leaves) \in Nat \ {0} /\ DOMAIN leaves = 1 .. Len(leaves)
  <2>1. IsList(ReceiptLeaves(r)) /\ ReceiptLeaves(r) # <<>>
    BY <1>1, ReceiptsAssumption, ReceiptLeavesList
  <2>2. PICK H : ReceiptLeaves(r) \in Seq(H)
    BY <2>1 DEF IsList
  <2> QED  BY <2>1, <2>2, HashedType
<1> HIDE DEF leaves, leaf
<1>6. LogHashLeaf(index, fetched.log) = leaf
  BY <1>3, <1>4, <1>5, ProofExact
<1>7. LogHash(fetched.log) = LogHash(log)
  <2> DEFINE name == IndexPrefix("log_hashes", index)
  <2>1. HashLeaf(name, LogHash(fetched.log)) = HashLeaf(name, LogHash(log))
    BY <1>6 DEF leaf, LogHashLeaf
  <2> HIDE DEF name, log
  <2> QED  BY ONLY <2>1, LeafIsNoPair
<1>8. fetched.log.address = log.address /\ fetched.log.topics = log.topics /\ fetched.log.data = log.data
  BY <1>7 DEF LogHash
<1>9. IsLog(fetched.log) /\ IsLog(log)
  <2>1. \A q \in Receipts : \A i \in DOMAIN q.logs : IsLog(q.logs[i])
    BY ReceiptsAssumption DEF HasLogs
  <2>2. PICK q \in Receipts : fetched.log \in Range(q.logs)
    BY <1>1
  <2>3. IsLog(fetched.log)
    BY <2>1, <2>2 DEF Range
  <2> QED  BY <1>1, <1>2, <2>1, <2>3 DEF HasLog
<1>10. fetched.log = log
  BY <1>8, <1>9 DEF IsLog
<1> QED
  BY <1>1, <1>2, <1>10

\* Every log a client relies on was emitted by an honest validator, at its place of the very
\* receipt: for all receipts, committees, faulty validators and orders of delivery.
THEOREM ReliedWasEmittedSafety == CertificationSpec => []ReliedWasEmitted
<1>1. CertificationTypeOK /\ CertifiedWasComputed => ReliedWasEmitted
  <2> SUFFICES ASSUME CertificationTypeOK, CertifiedWasComputed,
                      NEW fetched \in Relied
               PROVE  \E v \in Honest :
                        /\ signed[v] = fetched.receipt
                        /\ HasLog(signed[v], fetched.log_index[1])
                        /\ signed[v].logs[fetched.log_index[1] + 1] = fetched.log
    BY DEF ReliedWasEmitted
  <2>1. /\ fetched.receipt \in Receipts
        /\ HasLog(fetched.receipt, fetched.log_index[1])
        /\ fetched.receipt.logs[fetched.log_index[1] + 1] = fetched.log
    BY ProvesItsPlace DEF Relied
  <2>2. PICK v \in Honest : signed[v] # Unsigned /\ Digest[signed[v]] = Digest[fetched.receipt]
    BY <2>1 DEF Relied, CertifiedWasComputed, Digests
  <2>3. signed[v] \in Receipts
    BY <2>2 DEF CertificationTypeOK
  <2>4. signed[v] = fetched.receipt
    BY <2>1, <2>2, <2>3, SameHashSameReceipt
  <2> QED  BY <2>1, <2>4
<1> QED
  BY <1>1, CertificationTypes, CertifiedWasComputedSafety, PTL

-----------------------------------------------------------------------------
\* Numbers in their order

\* Of finitely many numbers, one is the last.
LEMMA LastOf ==
    ASSUME NEW S, IsFiniteSet(S), S \subseteq Nat
    PROVE  \A T \in SUBSET S : T # {} => \E x \in T : \A y \in T \ {x} : y < x
<1> DEFINE IsLast(x, T) == x \in T /\ \A y \in T \ {x} : y < x
           P == {T \in SUBSET S : T # {} => \E x \in T : IsLast(x, T)}
<1>1. {} \in P
  OBVIOUS
<1>2. ASSUME NEW T \in SUBSET S, T # {}, \A x \in T : T \ {x} \in P
      PROVE  T \in P
  <2>1. PICK z \in T : TRUE
    BY <1>2
  <2>2. CASE T \ {z} = {}
    <3>1. IsLast(z, T)
      BY <2>1, <2>2
    <3> QED  BY <2>1, <3>1
  <2>3. CASE T \ {z} # {}
    <3>1. PICK x \in T \ {z} : IsLast(x, T \ {z})
      BY <1>2, <2>1, <2>3
    <3>2. x \in Nat /\ z \in Nat /\ x # z /\ \A y \in T : y \in Nat
      BY <2>1, <3>1
    <3>3. CASE z < x
      <4>1. IsLast(x, T)
        BY <3>1, <3>3
      <4> QED  BY <3>1, <4>1
    <3>4. CASE x < z
      <4>1. \A y \in T \ {z} : y < z
        BY <3>1, <3>2, <3>4
      <4>2. IsLast(z, T)
        BY <2>1, <4>1
      <4> QED  BY <2>1, <4>2
    <3> QED  BY <3>2, <3>3, <3>4
  <2> QED  BY <2>2, <2>3
<1> HIDE DEF P
<1>3. \A T \in SUBSET S : T \in P
  BY <1>1, <1>2, PartsInduction
<1> QED
  BY <1>3 DEF P

\* A finite set of numbers can be listed in order: the last one goes to the end of the others.
LEMMA AscendingDefined ==
    ASSUME NEW S, IsFiniteSet(S), S \subseteq Nat
    PROVE  Ascending(S) \in SetToSeqs(S) /\ Ascends(Ascending(S))
<1> DEFINE P == {T \in SUBSET S : \E s \in SetToSeqs(T) : Ascends(s)}
<1>1. {} \in P
  <2> DEFINE s == [i \in 1 .. 0 |-> 0]
  <2>1. Cardinality({}) = 0
    BY FS_EmptySet
  <2>2. s \in SetToSeqs({}) /\ Ascends(s)
    BY <2>1 DEF SetToSeqs, Ascends
  <2> HIDE DEF s
  <2> QED  BY <2>2
<1>2. ASSUME NEW T \in SUBSET S, T # {}, \A x \in T : T \ {x} \in P
      PROVE  T \in P
  <2>1. PICK x \in T : \A y \in T \ {x} : y < x
    BY <1>2, LastOf
  <2>2. IsFiniteSet(T)
    BY FS_Subset
  <2> DEFINE n == Cardinality(T)
             m == Cardinality(T \ {x})
  <2>3. n \in Nat /\ m \in Nat /\ m = n - 1
    BY <2>1, <2>2, SmallerPart
  <2>4. PICK s \in SetToSeqs(T \ {x}) : Ascends(s)
    BY <1>2, <2>1
  <2>5. /\ s \in [1 .. m -> T \ {x}]
        /\ \A i, j \in 1 .. m : i # j => s[i] # s[j]
    BY <2>4 DEF SetToSeqs
  <2> HIDE DEF n, m, P
  <2> DEFINE t == [i \in 1 .. n |-> IF i = n THEN x ELSE s[i]]
  <2>6. \A i \in 1 .. n : i # n => i \in 1 .. m /\ t[i] = s[i] /\ s[i] \in T \ {x}
    BY <2>3, <2>5
  <2>7. n \in 1 .. n /\ t[n] = x
    BY <2>3
  <2>8. t \in [1 .. n -> T]
    BY <2>1, <2>6
  <2>9. DOMAIN t = 1 .. n
    OBVIOUS
  <2> HIDE DEF t
  <2>10. \A i, j \in 1 .. n : i # j => t[i] # t[j]
    BY <2>5, <2>6, <2>7
  <2>11. t \in SetToSeqs(T)
    BY <2>8, <2>10 DEF SetToSeqs, n
  <2>12. ASSUME NEW i \in 1 .. n, NEW j \in 1 .. n, i < j
         PROVE  t[i] < t[j]
    <3>1. i # n
      BY <2>3, <2>12
    <3>2. CASE j = n
      BY <2>1, <2>6, <2>7, <3>1, <3>2
    <3>3. CASE j # n
      <4>1. i \in DOMAIN s /\ j \in DOMAIN s /\ t[i] = s[i] /\ t[j] = s[j]
        BY <2>5, <2>6, <3>1, <3>3
      <4>2. s[i] < s[j]
        BY ONLY <2>4, <2>12, <4>1 DEF Ascends
      <4> QED  BY ONLY <4>1, <4>2
    <3> QED  BY <3>2, <3>3
  <2>13. Ascends(t)
    BY <2>9, <2>12 DEF Ascends
  <2> QED  BY <2>11, <2>13 DEF P
<1> HIDE DEF P
<1>3. \A T \in SUBSET S : T \in P
  BY <1>1, <1>2, PartsInduction
<1>4. \E s \in SetToSeqs(S) : Ascends(s)
  BY <1>3 DEF P
<1> QED
  BY <1>4 DEF Ascending

-----------------------------------------------------------------------------
\* The client and the contract

\* The committee of the SDK and the contract of the bridge agree, for every committee of
\* addresses and every list of attestations: signatures in an order the contract accepts pass
\* the client, and a certificate, sorted by signer, passes the contract.
THEOREM ChainAgreesSafety == CertificationSpec => []ChainAgrees
<1>1. CertificationTypeOK => ChainAgrees
  <2> SUFFICES ASSUME CertificationTypeOK, NEW digest \in Digests
               PROVE  LET signers    == [i \in DOMAIN collected |-> Recover(collected[i], digest)]
                          recovered  == RecoveredSigners(TheCommittee, digest, collected)
                          accepts(s) == Chain!SignaturesOK(s, Validators) /\ Chain!ComputeTxWeight(s) >= QuorumSize
                      IN /\ accepts(signers) => Certified(digest)
                         /\ Certified(digest) => accepts(Ascending(recovered))
    BY DEF ChainAgrees
  <2> DEFINE signers == [i \in DOMAIN collected |-> Recover(collected[i], digest)]
             recovered == RecoveredSigners(TheCommittee, digest, collected)
             s == Ascending(recovered)
  <2>1. \A l : /\ Chain!SignaturesOK(l, Validators) <=> SignaturesOK(l, Validators)
               /\ Chain!ComputeTxWeight(l) = ComputeTxWeight(l)
    BY DEF Chain!SignaturesOK, SignaturesOK, Chain!ComputeTxWeight, ComputeTxWeight,
           Chain!ZeroAddress, ZeroAddress
  <2>2. ASSUME SignaturesOK(signers, Validators), ComputeTxWeight(signers) >= QuorumSize
        PROVE  Certified(digest)
    <3>1. /\ TheCommittee.quorum_size = QuorumSize /\ TheCommittee.validators = Validators
          /\ TheCommittee.quorum_size \in Nat /\ TheCommittee.validators \subseteq Nat
      BY CertificationAssumption, NumbersAssumption DEF TheCommittee
    <3>2. PICK H : collected \in Seq(H)
      BY DEF CertificationTypeOK
    <3> QED  BY <2>2, <3>1, <3>2, ChainImpliesClient DEF Certified
  <2>3. ASSUME Certified(digest)
        PROVE  SignaturesOK(s, Validators) /\ ComputeTxWeight(s) >= QuorumSize
    <3>1. recovered \in SUBSET Validators /\ Cardinality(recovered) >= QuorumSize
      BY <2>3, QuorumOfSigners
    <3> HIDE DEF recovered
    <3>2. IsFiniteSet(recovered) /\ recovered \subseteq Nat /\ \A x \in recovered : x > 0
      <4>1. recovered \subseteq Validators /\ IsFiniteSet(Validators) /\ Validators \subseteq Nat \ {0}
        BY <3>1, CertificationAssumption, NumbersAssumption
      <4>2. IsFiniteSet(recovered)
        BY <4>1, FS_Subset
      <4>3. \A x \in recovered : x \in Nat /\ x # 0
        BY <4>1
      <4> QED  BY ONLY <4>2, <4>3
    <3> DEFINE n == Cardinality(recovered)
    <3>3. s \in [1 .. n -> recovered] /\ Ascends(s)
      BY <3>2, AscendingDefined DEF SetToSeqs
    <3>4. n \in Nat
      BY <3>2, FS_CardinalityType
    <3> HIDE DEF s, n
    <3>5. DOMAIN s = 1 .. n /\ Len(s) = n
      BY <3>3, <3>4
    <3>6. ASSUME NEW i \in 1 .. n
          PROVE  /\ s[i] > (IF i = 1 THEN ZeroAddress ELSE s[i - 1])
                 /\ s[i] \in Validators
      <4>1. s[i] \in recovered /\ s[i] \in Nat /\ s[i] > 0 /\ s[i] \in Validators
        BY <3>1, <3>2, <3>3
      <4>2. CASE i = 1
        BY <4>1, <4>2 DEF ZeroAddress
      <4>3. CASE i # 1
        <5>1. i - 1 \in 1 .. n /\ i - 1 < i
          BY <3>4, <4>3
        <5>2. s[i - 1] < s[i] /\ s[i - 1] \in Nat
          BY <3>2, <3>3, <3>5, <5>1 DEF Ascends
        <5> QED  BY <4>1, <4>3, <5>2
      <4> QED  BY <4>2, <4>3
    <3> QED  BY <3>1, <3>5, <3>6 DEF SignaturesOK, ComputeTxWeight, n
  <2> HIDE DEF signers, recovered, s
  <2> QED  BY <2>1, <2>2, <2>3 DEF signers, recovered, s
<1> QED
  BY <1>1, CertificationTypes, PTL
=============================================================================
