-------------------------- MODULE MCCollectionState --------------------------
(***************************************************************************)
(* Instances of CollectionState for TLC.                                   *)
(***************************************************************************)
EXTENDS CollectionState, TLC

CONSTANTS w1, w2, p1, p2, r1, r2, c1, c2, i1

OneRevision == [p \in Partitions |-> r1]

TwoRevisions == [p \in Partitions |-> IF p = p1 THEN r1 ELSE r2]

Symmetry == Permutations(Workers)
==============================================================================
