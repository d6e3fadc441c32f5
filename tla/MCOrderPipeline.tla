--------------------------- MODULE MCOrderPipeline ---------------------------
(* Small instances of OrderPipeline for TLC.                               *)
EXTENDS OrderPipeline, TLC

CorePayloads == {<<"captured", "payment.captured">>,
                 <<"failed", "payment.failed">>}

OneOfEach == [o \in Orders |-> [p \in Products |-> 1]]

Symmetry == Permutations(Orders) \cup Permutations(Events)
               \cup Permutations(Deliveries) \cup Permutations(Workers)
=============================================================================
