----------------------- MODULE MCTransactionHandlers -----------------------
(* TransactionHandlers for TLC. *)
EXTENDS TransactionHandlers, TLC

Symmetry == Permutations(Txs) \cup Permutations(Wallets)
=============================================================================
