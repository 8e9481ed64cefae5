---------------------------- MODULE PointSlices ----------------------------
(***************************************************************************)
(* The helpers on slices of kyber points the cothority is built from.      *)
(* Slices are sequences (the i-th element of the Go slice is element i + 1 *)
(* of the sequence), points are arbitrary values.                          *)
(***************************************************************************)
EXTENDS Integers, Sequences, Functions

(* dagacothority.ContainsSameElems: equal lengths, and every element of b  *)
(* present in the set made of the elements of a.  Nothing looks for the    *)
(* elements of a in b.                                                     *)
ContainsSameElems(a, b) ==
    /\ Len(a) = Len(b)
    /\ Range(b) \subseteq Range(a)

(* dagacothority.IndexOf: the 0-based index of the first occurrence, -1    *)
(* (and an error, which the callers test) when the key is not in the slice.*)
IndexOf(keys, key) ==
    IF \E i \in DOMAIN keys : keys[i] = key
      THEN (CHOOSE i \in DOMAIN keys :
              keys[i] = key /\ \A j \in 1 .. i - 1 : keys[j] # key) - 1
      ELSE -1

(* protocols.NextNode: the tree node after ownIndex in the ring of keys.   *)
(* treeNodes is the sequence of the keys of the tree's nodes; the result   *)
(* is the key of the node found, or the value none.                        *)
NextNode(ownIndex, keys, treeNodes, none) ==
    LET next == keys[((ownIndex + 1) % Len(keys)) + 1]
    IN  IF next \in Range(treeNodes) THEN next ELSE none

(* What ContainsSameElems' comment promises: the same elements on both     *)
(* sides.                                                                  *)
SameElements(a, b) == Len(a) = Len(b) /\ Range(a) = Range(b)
=============================================================================
