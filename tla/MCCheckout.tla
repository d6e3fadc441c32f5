----------------------------- MODULE MCCheckout -----------------------------
(* Small instances of Checkout for TLC.                                    *)
EXTENDS Checkout, TLC

Symmetry == Permutations(Users) \cup Permutations(Products)
               \cup Permutations(Requests)
=============================================================================
