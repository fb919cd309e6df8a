---------------------------- MODULE HealthReport ----------------------------
(***************************************************************************)
(* What /health promises a monitor that restarts the container: while the   *)
(* process serves, the level it reports only rises; it reaches "failed"     *)
(* after a critical worker has ended, and then stays there.                 *)
(***************************************************************************)
EXTENDS Naturals

CONSTANTS
    Workers,   \* background workers
    Critical   \* those the process cannot do without

VARIABLES
    up,     \* "starting", "serving" or "stopped"
    level,  \* 0 all is well, 1 degraded, 2 failed
    ended   \* workers that no longer run

vars == <<up, level, ended>>

TypeOK ==
    /\ up \in {"starting", "serving", "stopped"}
    /\ level \in 0..2
    /\ ended \subseteq Workers

Init == up = "starting" /\ level = 0 /\ ended = {}

Begin == up = "starting" /\ up' = "serving" /\ UNCHANGED <<level, ended>>

Stop == up # "stopped" /\ up' = "stopped" /\ UNCHANGED <<level, ended>>

WorkerEnds(w) ==
    /\ up = "serving" /\ w \notin ended
    /\ ended' = ended \cup {w}
    /\ UNCHANGED <<up, level>>

Degrade == up = "serving" /\ level = 0 /\ level' = 1 /\ UNCHANGED <<up, ended>>

Fail ==
    /\ up = "serving" /\ level < 2
    /\ ended \cap Critical # {}
    /\ level' = 2
    /\ UNCHANGED <<up, ended>>

Next == Begin \/ Stop \/ Degrade \/ Fail \/ \E w \in Workers : WorkerEnds(w)

(* A critical worker that has ended is reported as long as the process      *)
(* lives.                                                                   *)
Spec == Init /\ [][Next]_vars /\ WF_vars(Fail)
=============================================================================
