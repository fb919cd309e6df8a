----------------------------- MODULE MCSessions -----------------------------
(* Sessions for TLC. *)
EXTENDS Sessions, TLC

(* Rows and requests of a kind are interchangeable. *)
Symmetry ==
    Permutations(Users) \cup Permutations(Nonces) \cup Permutations(Tokens)
        \cup Permutations(Requests) \cup Permutations(Wallets)
        \cup Permutations(Providers) \cup Permutations(ProviderIds)
=============================================================================
