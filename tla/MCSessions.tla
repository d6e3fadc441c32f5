----------------------------- MODULE MCSessions ------------------------------
(* Small instances of Sessions for TLC.                                    *)
EXTENDS Sessions, TLC

Symmetry == Permutations(Tokens) \cup Permutations(Requests)
==============================================================================
