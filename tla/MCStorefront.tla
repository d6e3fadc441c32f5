---------------------------- MODULE MCStorefront -----------------------------
(* A small instance of Storefront for TLC.                                 *)
EXTENDS Storefront

\* Two products of one moment and two of an earlier one: the product that is
\* added comes between the others, where a page may end.
Created == [p \in Products |-> IF p \in {1, 4} THEN 2 ELSE 1]

\* One of the first product in the cart, and as many as may be of the second.
InCart == [p \in Wanted |-> IF p = 1 THEN 1 ELSE 3]

\* Two tabs of one user.
OneUser == [s \in Shoppers |-> "ann"]
==============================================================================
