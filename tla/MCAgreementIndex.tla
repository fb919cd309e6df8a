-------------------------- MODULE MCAgreementIndex --------------------------
(* AgreementIndex for TLC. *)
EXTENDS AgreementIndex, TLC

(* Agreements, wallets and servers of a kind are interchangeable. *)
Symmetry == Permutations(Agreements) \cup Permutations(Parties) \cup Permutations(Servers)

(* No action reads, and no property of the run speaks of, the rest of a     *)
(* state: which transactions were submitted and the jobs that tell of no    *)
(* cancellation or expiry.                                                  *)
View == <<chain, chain_signed, chain_votes, claimed, status, signed_at, due,
          {j \in queue : j.event \in Concluded}, subscribed, stream, listener, expiry, crashes>>
=============================================================================
