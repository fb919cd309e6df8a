-------------------------- MODULE MCPaymentRefund --------------------------
(* PaymentRefund for TLC. *)
EXTENDS PaymentRefund, TLC

Symmetry ==
    Permutations(Payments) \cup Permutations(Drafts) \cup Permutations(Agreements)
        \cup Permutations(Servers)
=============================================================================
