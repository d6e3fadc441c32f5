--------------------------- MODULE MCCommitWorker ---------------------------
(* Small instances of CommitWorker for TLC.                                *)
EXTENDS CommitWorker, TLC

CONSTANT o1

\* The first order has one unit more than the others.
Uneven == [o \in Orders |-> [p \in Products |-> IF o = o1 THEN 2 ELSE 1]]

Symmetry == Permutations(Products) \cup Permutations(Workers)
=============================================================================
