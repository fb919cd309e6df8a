----------------------------- MODULE MCFreeTier -----------------------------
(* FreeTier for TLC. *)
EXTENDS FreeTier, TLC

(* Users, drafts and handlers are interchangeable. *)
Symmetry ==
    Permutations(Users) \cup Permutations(DraftIds) \cup Permutations(Handlers)
=============================================================================
