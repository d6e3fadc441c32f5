--------------------------- MODULE MCSecureConfirm ---------------------------
(* Small instances of SecureConfirm for TLC.                               *)
EXTENDS SecureConfirm, TLC

CONSTANTS u1, u2, c3

\* The last checkout is another user's.
Owners == [c \in Checkouts |-> IF c = c3 THEN u2 ELSE u1]
Methods == [c \in Checkouts |-> "UPI"]

Symmetry == Permutations(Requests) \cup Permutations(Keys)
               \cup Permutations(ProviderOrders)
=============================================================================
