----------------------------- MODULE MerkleTree -----------------------------
(***************************************************************************)
(* types/src/cryptography/merkle_tree.rs: the tree behind the hash of a    *)
(* receipt, its proofs and its multi-proofs, and the paths ("logs[0].data") *)
(* under which structures put their fields into it.                        *)
(*                                                                         *)
(* A hash is the term it was computed from, so that hashes are equal iff   *)
(* they were computed alike: keccak256 without collisions.  A tree is a    *)
(* function on 0..2n-2, the array of the code; the i-th of n leaves sits   *)
(* at the i-th place from the end.  An Option is a value or None.          *)
(***************************************************************************)
EXTENDS Integers, Sequences, FiniteSets, SequencesExt

None == [none |-> TRUE]

DefaultHash           == [zero |-> TRUE]
HashLeaf(path, value) == [leaf |-> <<path, value>>]
HashPair(a, b)        == [pair |-> {a, b}]

LeftChild(i)  == 2 * i + 1
RightChild(i) == 2 * i + 2
Parent(i)     == (i - 1) \div 2
Sibling(i)    == IF i % 2 = 0 THEN i - 1 ELSE i + 1

-----------------------------------------------------------------------------
NewTree(leaves) ==
    LET n == Len(leaves)
        tree[i \in 0 .. (IF n = 0 THEN 0 ELSE 2 * n - 2)] ==
            IF n = 0 THEN DefaultHash
            ELSE IF i >= n - 1 THEN leaves[2 * n - 1 - i]
            ELSE HashPair(tree[LeftChild(i)], tree[RightChild(i)])
    IN tree

Root(tree) == tree[0]

IsLeafIndex(tree, i) == i \in DOMAIN tree /\ LeftChild(i) \notin DOMAIN tree

\* Where StandardMerkleTree finds a leaf: of equal leaves, the last.
Indices(leaves) ==
    [l \in Range(leaves) |-> 2 * Len(leaves) - 1 - Max({j \in DOMAIN leaves : leaves[j] = l})]

StandardTree(leaves) == [tree |-> NewTree(leaves), indices |-> Indices(leaves)]

\* The siblings met on the way up to the root.
PathFrom(tree, index) ==
    LET path[i \in DOMAIN tree] ==
            IF i = 0 THEN <<>> ELSE <<tree[Sibling(i)]>> \o path[Parent(i)]
    IN path[index]

GenerateProof(standard, leaf) ==
    IF leaf \in DOMAIN standard.indices
    THEN [path |-> PathFrom(standard.tree, standard.indices[leaf])]
    ELSE None

VerifyProof(root, leaf, proof) == root = FoldLeft(HashPair, leaf, proof.path)

-----------------------------------------------------------------------------
\* Two neighbours at the front of the queue are hashed with each other.
Pairs(queue) == Len(queue) > 1 /\ queue[2] = Sibling(queue[1])

\* Mutant of MultiProofFrom: the parent goes to the front of the queue.
MultiProofFromDepthFirst(tree, indices) ==
    LET prove[queue \in Seq(DOMAIN tree)] ==
            IF queue = <<>> \/ queue[1] = 0
            THEN [path |-> <<>>, flags |-> <<>>]
            ELSE LET node == queue[1]
                     rest == prove[<<Parent(node)>> \o SubSeq(queue, IF Pairs(queue) THEN 3 ELSE 2, Len(queue))]
                 IN [path  |-> (IF Pairs(queue) THEN <<>> ELSE <<tree[Sibling(node)]>>) \o rest.path,
                     flags |-> <<Pairs(queue)>> \o rest.flags]
    IN IF indices = <<>> THEN [path |-> <<tree[0]>>, flags |-> <<>>] ELSE prove[indices]

\* The queue of nodes still to be joined, from which each step takes one node, or
\* two that are siblings, and to which it appends the parent.
MultiProofFrom(tree, indices) ==
    LET prove[queue \in Seq(DOMAIN tree)] ==
            IF queue = <<>> \/ queue[1] = 0
            THEN [path |-> <<>>, flags |-> <<>>]
            ELSE LET node == queue[1]
                     rest == prove[Append(SubSeq(queue, IF Pairs(queue) THEN 3 ELSE 2, Len(queue)),
                                          Parent(node))]
                 IN [path  |-> (IF Pairs(queue) THEN <<>> ELSE <<tree[Sibling(node)]>>) \o rest.path,
                     flags |-> <<Pairs(queue)>> \o rest.flags]
    IN IF indices = <<>> THEN [path |-> <<tree[0]>>, flags |-> <<>>] ELSE prove[indices]

GenerateMultiProof(standard, leaves) ==
    IF /\ \A k \in DOMAIN leaves : leaves[k] \in DOMAIN standard.indices
       /\ \A k \in DOMAIN leaves : IsLeafIndex(standard.tree, standard.indices[leaves[k]])
    THEN MultiProofFrom(standard.tree, [k \in DOMAIN leaves |-> standard.indices[leaves[k]]])
    ELSE None

\* Mutant of VerifyMultiProof: neither the lengths nor what is left over is checked.
VerifyMultiProofUncounted(root, leaves, proof) ==
    LET flags     == proof.flags
        path      == proof.path
        cursor(k) == Cardinality({i \in 1..k : ~flags[i]})
        stack[k \in 0..Len(flags)] ==
            IF k = 0 THEN leaves
            ELSE LET s == stack[k - 1] IN
                 IF flags[k]
                 THEN Append(Tail(Tail(s)), HashPair(s[1], s[2]))
                 ELSE Append(Tail(s), HashPair(s[1], path[cursor(k)]))
    IN root = IF leaves = <<>> THEN path[1] ELSE stack[Len(flags)][Len(stack[Len(flags)])]

\* The verifier repeats the steps the flags tell it; a proof whose lengths do not
\* add up is rejected before.
VerifyMultiProof(root, leaves, proof) ==
    LET flags     == proof.flags
        path      == proof.path
        cursor(k) == Cardinality({i \in 1..k : ~flags[i]})
        stack[k \in 0..Len(flags)] ==
            IF k = 0 THEN leaves
            ELSE LET s == stack[k - 1] IN
                 IF flags[k]
                 THEN Append(Tail(Tail(s)), HashPair(s[1], s[2]))
                 ELSE Append(Tail(s), HashPair(s[1], path[cursor(k)]))
        joined    == stack[Len(flags)]
        left      == Len(path) - cursor(Len(flags))
    IN /\ Len(path) >= cursor(Len(flags))
       /\ Len(leaves) + Len(path) = Len(flags) + 1
       /\ \/ Len(joined) = 1 /\ left = 0 /\ root = joined[1]
          \/ Len(joined) = 0 /\ left = 1 /\ root = path[Len(path)]

-----------------------------------------------------------------------------
JoinPrefix(prefix, sub) ==
    IF prefix = "" THEN sub ELSE IF sub = "" THEN prefix ELSE prefix \o "." \o sub

\* index counts from 0, as in the code.
IndexPrefix(prefix, index) == prefix \o "[" \o ToString(index) \o "]"

\* Named leaves are pairs of a path and a value; apply_prefix_to_leaves and
\* add_merkleizable put them under a prefix, add_slice under one per item.
Under(prefix, leaves) == [k \in DOMAIN leaves |-> <<JoinPrefix(prefix, leaves[k][1]), leaves[k][2]>>]

Slice(prefix, items) ==
    FlattenSeq([i \in DOMAIN items |-> Under(IndexPrefix(prefix, i - 1), items[i])])

Hashed(leaves) == [k \in DOMAIN leaves |-> HashLeaf(leaves[k][1], leaves[k][2])]
=============================================================================
