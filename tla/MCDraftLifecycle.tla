-------------------------- MODULE MCDraftLifecycle --------------------------
(* DraftLifecycle for TLC. *)
EXTENDS DraftInvariant
=============================================================================
