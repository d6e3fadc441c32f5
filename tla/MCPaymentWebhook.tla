-------------------------- MODULE MCPaymentWebhook --------------------------
(* Small instances of PaymentWebhook for TLC.                              *)
EXTENDS PaymentWebhook, TLC

\* What the PSP sends about a payment.  The entity of a payment.authorized
\* event may be captured by the time it is sent.
AllPayloads == {<<"authorized", "payment.authorized">>,
                <<"captured", "payment.authorized">>,
                <<"captured", "payment.captured">>,
                <<"captured", "order.paid">>,
                <<"captured", "payment.downtime">>,
                <<"failed", "payment.failed">>,
                <<"created", "payment.pending">>}

\* One for each status the handler stores.
CorePayloads == {<<"authorized", "payment.authorized">>,
                 <<"captured", "payment.captured">>,
                 <<"failed", "payment.failed">>}

Symmetry == Permutations(Orders) \cup Permutations(Events)
               \cup Permutations(Deliveries)
=============================================================================
