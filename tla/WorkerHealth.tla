---------------------------- MODULE WorkerHealth ----------------------------
(***************************************************************************)
(* One server process from start to end: the bootstrap of main.rs, the      *)
(* supervisor of the background workers (workers/supervisor.rs), the status *)
(* each worker keeps of itself (workers/policy.rs and the workers), the     *)
(* flag they all write (ProcessHealthState of state.rs) and the /health     *)
(* endpoint that reads it (router.rs).                                      *)
(*                                                                         *)
(* The flag is one atomic byte; supervisor and worker tasks write it        *)
(* concurrently, each after it has changed a state of its own.  A worker's  *)
(* status is a local variable of its task that nobody else reads, so it     *)
(* does not matter that some workers assign it only after they have made    *)
(* the mark; and that main spawns the workers one by one is covered by      *)
(* TaskRuns, which each of them may take at any later time.                 *)
(***************************************************************************)
EXTENDS Naturals, Sequences

CONSTANTS
    Loopers,  \* workers with transition_to_degraded: event_listener, notification_worker
    Scanners, \* workers with report_degraded: refund_worker, expiry_worker
    Keepers,  \* the keeper, which has a circuit breaker
    Critical  \* workers spawned as WorkerCriticality::Critical

Workers == Loopers \cup Scanners \cup Keepers

ASSUME WorkersAssumption ==
    /\ Critical \subseteq Workers
    /\ Loopers \cap Scanners = {} /\ Loopers \cap Keepers = {} /\ Scanners \cap Keepers = {}

VARIABLES
    boot,       \* the next step of main
    stopped,    \* the process has ended
    health,     \* ProcessHealthState
    lifecycle,  \* the supervisor's map
    status,     \* the WorkerStatus each worker keeps
    owes,       \* the mark each worker, or its supervisor, is about to make
    answer      \* the last answer of /health

vars == <<boot, stopped, health, lifecycle, status, owes, answer>>

---------------------------------------------------------------------------
(* Plausible slips in the code below; nothing here is part of the           *)
(* specification.                                                           *)
Mutant_mark_degraded_stores(h) == "Degraded"
Mutant_BootSteps_healthy_late ==
    <<"config", "database", "migrations", "vault_keypair", "treasury_keypair",
      "validate_pubkeys", "spawn_workers", "set_healthy", "bind">>
Mutant_mark_runtime_failed_once(h) == IF h = "Healthy" THEN "RuntimeFailed" ELSE h
Mutant_lifecycle_lost(w, how) == [v \in Workers \ {w} |-> lifecycle[v]]

---------------------------------------------------------------------------
(* Types *)

BootSteps == <<"config", "database", "migrations", "vault_keypair", "treasury_keypair",
               "validate_pubkeys", "set_healthy", "spawn_workers", "bind">>
Fallible  == {"config", "database", "migrations", "vault_keypair", "treasury_keypair",
              "validate_pubkeys", "bind"}

ProcessHealth   == {"Healthy", "Degraded", "RuntimeFailed", "StartupFailed"}
Ended           == {"Exited", "Panicked", "Cancelled"}
WorkerLifecycle == {"absent", "Starting", "Running"} \cup Ended
WorkerStatus    == {"Healthy", "Degraded", "Disabled"}
Mark            == {"none", "degraded", "failed"}

TypeOK ==
    /\ boot \in 1..(Len(BootSteps) + 1)
    /\ stopped \in BOOLEAN
    /\ health \in ProcessHealth
    /\ lifecycle \in [Workers -> WorkerLifecycle]
    /\ status \in [Workers -> WorkerStatus]
    /\ owes \in [Workers -> Mark]
    /\ answer \in ProcessHealth \cup {"none"}

---------------------------------------------------------------------------
(* ProcessHealthState *)

(* compare_exchange(HEALTHY, DEGRADED); its failure is ignored. *)
mark_degraded(h) == IF h = "Healthy" THEN "Degraded" ELSE h
mark_runtime_failed(h) == "RuntimeFailed"

(* DegradationReason::suggested_status *)
suggested_status(reason) ==
    IF reason \in {"RpcUnavailable", "RetryBackoff"} THEN "Degraded" ELSE "Disabled"

(* record_runtime_failure, by criticality. *)
record_runtime_failure(w, h) ==
    IF w \in Critical THEN mark_runtime_failed(h) ELSE mark_degraded(h)

(* The supervisor's insert, and the mark a reporting worker goes on to make. *)
observe_end(w, how) == [lifecycle EXCEPT ![w] = how]
report(w) == [owes EXCEPT ![w] = "degraded"]

---------------------------------------------------------------------------
(* main and bootstrap_state *)

Alive == ~stopped

BootStep ==
    /\ Alive /\ boot <= Len(BootSteps)
    /\ boot' = boot + 1
    /\ health' = IF BootSteps[boot] = "set_healthy" THEN "Healthy" ELSE health
    /\ lifecycle' = IF BootSteps[boot] = "spawn_workers"
                    THEN [w \in Workers |-> "Starting"] ELSE lifecycle
    /\ UNCHANGED <<stopped, status, owes, answer>>

(* A StartupError, the panic of validate_keypair_pubkeys, or no port: main  *)
(* returns, and the workers, if there are any, go with it.                  *)
BootFails ==
    /\ Alive /\ boot <= Len(BootSteps)
    /\ BootSteps[boot] \in Fallible
    /\ stopped' = TRUE
    /\ UNCHANGED <<boot, health, lifecycle, status, owes, answer>>

Serving == Alive /\ boot > Len(BootSteps)

ProcessStops ==
    /\ Serving
    /\ stopped' = TRUE
    /\ UNCHANGED <<boot, health, lifecycle, status, owes, answer>>

---------------------------------------------------------------------------
(* WorkerSupervisor::spawn, the outer task of each worker *)

TaskRuns(w) ==
    /\ Alive /\ lifecycle[w] = "Starting"
    /\ lifecycle' = [lifecycle EXCEPT ![w] = "Running"]
    /\ UNCHANGED <<boot, stopped, health, status, owes, answer>>

(* The worker's future ends or panics; nothing starts it again. *)
TaskEnds(w, how) ==
    /\ Alive /\ lifecycle[w] = "Running" /\ owes[w] = "none"
    /\ lifecycle' = observe_end(w, how)
    /\ owes' = [owes EXCEPT ![w] = "failed"]
    /\ UNCHANGED <<boot, stopped, health, status, answer>>

RecordRuntimeFailure(w) ==
    /\ Alive /\ owes[w] = "failed"
    /\ health' = record_runtime_failure(w, health)
    /\ owes' = [owes EXCEPT ![w] = "none"]
    /\ UNCHANGED <<boot, stopped, lifecycle, status, answer>>

---------------------------------------------------------------------------
(* The workers' own loops *)

Running(w) == Alive /\ lifecycle[w] = "Running" /\ owes[w] = "none"

(* transition_to_degraded: does nothing if the worker is degraded already. *)
TransitionToDegraded(w) ==
    /\ Running(w) /\ w \in Loopers /\ status[w] # "Degraded"
    /\ status' = [status EXCEPT ![w] = "Degraded"]
    /\ owes' = report(w)
    /\ UNCHANGED <<boot, stopped, health, lifecycle, answer>>

(* transition_to_healthy, or a cycle that goes well: the flag stays. *)
Recovers(w) ==
    /\ Running(w) /\ w \in Loopers \cup Scanners /\ status[w] = "Degraded"
    /\ status' = [status EXCEPT ![w] = "Healthy"]
    /\ UNCHANGED <<boot, stopped, health, lifecycle, owes, answer>>

(* report_degraded when the query of a cycle fails, *)
CycleFails(w) ==
    /\ Running(w) /\ w \in Scanners
    /\ status' = [status EXCEPT ![w] = suggested_status("RpcUnavailable")]
    /\ owes' = report(w)
    /\ UNCHANGED <<boot, stopped, health, lifecycle, answer>>

(* and when one item of it does: reported, but the cycle still returns      *)
(* WorkerStatus::Healthy.                                                   *)
ItemFails(w) ==
    /\ Running(w) /\ w \in Scanners
    /\ status' = [status EXCEPT ![w] = "Healthy"]
    /\ owes' = report(w)
    /\ UNCHANGED <<boot, stopped, health, lifecycle, answer>>

(* circuit_breaker_status: every later cycle of the keeper is skipped. *)
BreakerTrips(w) ==
    /\ Running(w) /\ w \in Keepers /\ status[w] # "Disabled"
    /\ status' = [status EXCEPT ![w] = suggested_status("CircuitBreakerTripped")]
    /\ owes' = report(w)
    /\ UNCHANGED <<boot, stopped, health, lifecycle, answer>>

MarkDegraded(w) ==
    /\ Alive /\ owes[w] = "degraded"
    /\ health' = mark_degraded(health)
    /\ owes' = [owes EXCEPT ![w] = "none"]
    /\ UNCHANGED <<boot, stopped, lifecycle, status, answer>>

---------------------------------------------------------------------------
(* health_handler; health_response answers 200 for the first two states and *)
(* 503 for the others, with a text of its own for each.                     *)
HealthHandler ==
    /\ Serving
    /\ answer' = health
    /\ UNCHANGED <<boot, stopped, health, lifecycle, status, owes>>

---------------------------------------------------------------------------
Init ==
    /\ boot = 1
    /\ stopped = FALSE
    /\ health = "StartupFailed"
    /\ lifecycle = [w \in Workers |-> "absent"]
    /\ status = [w \in Workers |-> "Healthy"]
    /\ owes = [w \in Workers |-> "none"]
    /\ answer = "none"

WorkerStep(w) ==
    \/ TaskRuns(w)
    \/ \E how \in Ended : TaskEnds(w, how)
    \/ RecordRuntimeFailure(w)
    \/ TransitionToDegraded(w)
    \/ Recovers(w)
    \/ CycleFails(w)
    \/ ItemFails(w)
    \/ BreakerTrips(w)
    \/ MarkDegraded(w)

Next ==
    \/ BootStep
    \/ BootFails
    \/ ProcessStops
    \/ HealthHandler
    \/ \E w \in Workers : WorkerStep(w)

(* The runtime polls a task that is ready; nothing obliges a worker to      *)
(* fail, a client to probe or the process to stop.                          *)
FairSpec ==
    /\ Init /\ [][Next]_vars
    /\ \A w \in Workers : WF_vars(RecordRuntimeFailure(w)) /\ WF_vars(MarkDegraded(w))

---------------------------------------------------------------------------
(* Properties *)

(* "healthy" is believed only while nothing went wrong: no worker has ended *)
(* or thinks itself impaired, except one whose report is still on its way.  *)
HealthyMeansNoTrouble ==
    health = "Healthy" =>
        \A w \in Workers : owes[w] = "none" =>
            lifecycle[w] \notin Ended /\ status[w] = "Healthy"

(* A monitor never sees the process get better, whatever the order in which *)
(* supervisors and workers write the flag: a 503 is not taken back by a     *)
(* worker that reports a lesser trouble afterwards.                         *)
Severity(a) == CASE a = "none" -> 0 [] a = "Healthy" -> 1
                 [] a = "Degraded" -> 2 [] OTHER -> 3

AnswersNeverImprove == [][Severity(answer') >= Severity(answer)]_answer

(* What of the process HealthReport speaks of. *)
ReportedUp == IF stopped THEN "stopped"
              ELSE IF health = "StartupFailed" THEN "starting" ELSE "serving"
ReportedLevel == CASE health = "Degraded" -> 1
                   [] health = "RuntimeFailed" -> 2
                   [] OTHER -> 0
EndedWorkers == {w \in Workers : lifecycle[w] \in Ended}

(* The process, with its flag written by store and compare-and-swap,        *)
(* implements the report of HealthReport: the level only rises, and the end *)
(* of a critical worker reaches it unless the process stops first.          *)
Report == INSTANCE HealthReport WITH
    up <- ReportedUp, level <- ReportedLevel, ended <- EndedWorkers

ImplementsHealthReport == Report!Spec
=============================================================================
