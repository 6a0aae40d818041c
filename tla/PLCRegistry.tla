---------------------------- MODULE PLCRegistry ----------------------------
(***************************************************************************)
(* examples/bsky/contract/src/PLCRegistry.sol: the operations of one DID,  *)
(* as pure operators on the contract's storage.  The storage is a record   *)
(* of the CIDs stored, the latest operation and, for each CID, the index   *)
(* of the rotation key that signed it.                                     *)
(*                                                                         *)
(* An operation is identified by its CID and never changes, so Ops gives   *)
(* its content: the CID it follows (prev, NoCid for a creation), its       *)
(* rotation keys, strongest first, and the key that signed it.  Signatures *)
(* are verified (isTestMode): the precompile that does so accepts exactly  *)
(* the key that signed.                                                    *)
(***************************************************************************)
EXTENDS Integers, Sequences, FiniteSets, FiniteSetsExt

CONSTANTS
    Ops,        \* CID |-> [prev, keys, signer]
    NoCid       \* the empty CID

Cids == DOMAIN Ops

\* The CID is a hash of the content, and that names the operation it follows: no operation
\* follows itself, in however many steps.
ASSUME OpsAssumption ==
    /\ NoCid \notin Cids
    /\ \A c \in Cids :
           Ops[c].prev \in Cids \cup {NoCid} /\ Ops[c].keys \in Seq(Range(Ops[c].keys))
    /\ \A S \in SUBSET Cids : (\A c \in S : Ops[c].prev \in S) => S = {}

\* A uint256, at a smaller width.
Width == 8

EmptyRegistry == [stored |-> {}, latest |-> NoCid, signerIndices |-> [c \in Cids |-> 0]]

\* Where in a list of rotation keys the signature of an operation verifies.
SignerIndices(cid, keys) == {i \in 0 .. Len(keys) - 1 : keys[i + 1] = Ops[cid].signer}

\* An operation and those it follows.
History[cid \in Cids \cup {NoCid}] ==
    IF cid = NoCid THEN {} ELSE {cid} \cup History[Ops[cid].prev]

Creates(cid)   == Ops[cid].prev = NoCid
Extends(r, cid) == r.latest = Ops[cid].prev

\* The operations of the current history that follow the same one as cid: the first that
\* a fork at cid would nullify, if it exists.
Nullified(r, cid) == {c \in History[r.latest] : Ops[c].prev = Ops[cid].prev}
Disputed(r, cid)  == r.signerIndices[CHOOSE c \in Nullified(r, cid) : TRUE]

\* Mutant of Stronger: a key of equal or lesser power may fork the history.
StrongerAny(r, cid) == SignerIndices(cid, Ops[Ops[cid].prev].keys)

\* The keys that may fork the history and did sign.
Stronger(r, cid) ==
    {i \in SignerIndices(cid, Ops[Ops[cid].prev].keys) : i < Disputed(r, cid)}

\* The plain requirements of add: the loop over the stronger keys runs past the end of the
\* list, which reverts, when it finds none and the disputed index lies beyond it.
AddValid(r, cid) ==
    LET prev == Ops[cid].prev
    IN  IF Creates(cid) THEN SignerIndices(cid, Ops[cid].keys) # {}
        ELSE /\ prev \in r.stored
             /\ IF Extends(r, cid) THEN SignerIndices(cid, Ops[prev].keys) # {}
                ELSE /\ Nullified(r, cid) # {}
                     /\ Stronger(r, cid) # {} \/ Disputed(r, cid) <= Len(Ops[prev].keys)

\* What is left to the quorum: that the operation is not too late at this replica.
AddAgreed(r, cid) ==
    IF Creates(cid) THEN r.latest = NoCid ELSE ~Extends(r, cid) => Stronger(r, cid) # {}

\* The index add records: uint256(-1) for a fork that is stored and does not take effect.
SignerIndex(r, cid) ==
    IF Creates(cid) THEN 0
    ELSE LET found == IF Extends(r, cid) THEN SignerIndices(cid, Ops[Ops[cid].prev].keys)
                      ELSE Stronger(r, cid)
         IN  IF found = {} THEN (-1) % 2^Width ELSE Min(found)

\* Storage after an add that the quorum lets pass: the latest operation moves on only where
\* the condition also holds at this replica.
Added(r, cid) ==
    [stored |-> r.stored \cup {cid},
     latest |-> IF AddAgreed(r, cid) THEN cid ELSE r.latest,
     signerIndices |-> [r.signerIndices EXCEPT ![cid] = SignerIndex(r, cid)]]
=============================================================================
