---------------------------- MODULE OldestFirst ----------------------------
(***************************************************************************)
(* What SELECT ... ORDER BY column ASC LIMIT n may return: the workers that *)
(* empty a table in batches (notification_worker, refund_worker) all ask   *)
(* for their rows like this.  <<r, q>> is in before when the column of r is *)
(* smaller than that of q; rows of the same second come in any order.      *)
(***************************************************************************)
EXTENDS Naturals, FiniteSets, Sequences

Batches(rows, before, limit) ==
    LET n == IF Cardinality(rows) < limit THEN Cardinality(rows) ELSE limit IN
    {b \in [1..n -> rows] :
        /\ \A x, y \in 1..n : x < y => b[x] # b[y] /\ <<b[y], b[x]>> \notin before
        /\ \A r \in rows : (\E x \in 1..n : b[x] = r) \/ \A x \in 1..n : <<r, b[x]>> \notin before}
=============================================================================
