------------------------- MODULE WorkerHealthProofs -------------------------
(***************************************************************************)
(* Proofs about WorkerHealth, for any sets of workers: the flag, what       *)
(* /health answers, and that every step of the process is one of            *)
(* HealthReport or leaves the report as it is.                              *)
(***************************************************************************)
EXTENDS WorkerHealth, TLAPS

---------------------------------------------------------------------------
(* The inductive invariant.  main sets the flag before it spawns the        *)
(* workers and serves after both: boot tells what there can be to mark, and *)
(* what an answer can have been taken from.                                 *)

SetHealthy == 7
Spawn == 8

BootInv ==
    /\ boot <= SetHealthy <=> health = "StartupFailed"
    /\ boot <= Spawn => \A w \in Workers : lifecycle[w] = "absent" /\ owes[w] = "none"
    /\ boot <= Len(BootSteps) => answer = "none"
    /\ boot > Spawn => \A w \in Workers : lifecycle[w] # "absent"

WorkerInv(w) ==
    /\ owes[w] = "degraded" => lifecycle[w] = "Running"
    /\ owes[w] = "failed" => lifecycle[w] \in Ended
    /\ lifecycle[w] \in {"absent", "Starting"} => status[w] = "Healthy"

AnswerInv == Severity(answer) <= Severity(health)

IInv ==
    /\ TypeOK
    /\ BootInv
    /\ \A w \in Workers : WorkerInv(w)
    /\ HealthyMeansNoTrouble
    /\ AnswerInv

---------------------------------------------------------------------------
(* Facts about the operators *)

LEMMA BootFacts ==
    /\ Len(BootSteps) = 9
    /\ \A i \in 1..9 : BootSteps[i] = "set_healthy" <=> i = SetHealthy
    /\ \A i \in 1..9 : BootSteps[i] = "spawn_workers" <=> i = Spawn
  BY DEF BootSteps, SetHealthy, Spawn

LEMMA SeverityFacts ==
    /\ Severity("none") = 0
    /\ Severity("Healthy") = 1
    /\ Severity("Degraded") = 2
    /\ Severity("RuntimeFailed") = 3
    /\ Severity("StartupFailed") = 3
  BY DEF Severity

(* Neither mark leaves the flag "Healthy" or takes a level back, and the    *)
(* flag of a process that has not started stays.                            *)
LEMMA MarksRise ==
    ASSUME NEW h \in ProcessHealth, NEW w \in Workers
    PROVE  /\ mark_degraded(h) \in ProcessHealth \ {"Healthy"}
           /\ record_runtime_failure(w, h) \in ProcessHealth \ {"Healthy"}
           /\ Severity(h) <= Severity(mark_degraded(h))
           /\ Severity(h) <= Severity(record_runtime_failure(w, h))
           /\ h # "StartupFailed" => mark_degraded(h) # "StartupFailed"
           /\ h # "StartupFailed" => record_runtime_failure(w, h) # "StartupFailed"
  BY SeverityFacts DEF ProcessHealth, mark_degraded, record_runtime_failure, mark_runtime_failed

---------------------------------------------------------------------------
(* One lemma per action or group of actions *)

LEMMA BootStepKeeps ==
    ASSUME IInv, BootStep PROVE IInv'
<1> USE DEF IInv
<1>0. boot \in 1..9 /\ boot' = boot + 1
  BY BootFacts DEF BootStep, TypeOK
<1>1. /\ boot = SetHealthy => health' = "Healthy" /\ lifecycle' = lifecycle
      /\ boot = Spawn => health' = health /\ lifecycle' = [w \in Workers |-> "Starting"]
      /\ boot # SetHealthy => health' = health
      /\ boot # Spawn => lifecycle' = lifecycle
  BY <1>0, BootFacts DEF BootStep, SetHealthy, Spawn
<1>2. TypeOK'
  BY <1>0, <1>1, BootFacts DEF BootStep, TypeOK, ProcessHealth, WorkerLifecycle
<1>3. BootInv'
  BY <1>0, <1>1, BootFacts DEF BootStep, TypeOK, BootInv, SetHealthy, Spawn
<1>4. \A w \in Workers : WorkerInv(w)'
  BY <1>0, <1>1 DEF BootStep, BootInv, WorkerInv, Spawn
<1>5. HealthyMeansNoTrouble'
  <2>1. boot <= Spawn => \A w \in Workers : lifecycle'[w] \notin Ended /\ status[w] = "Healthy"
    BY <1>0, <1>1 DEF BootInv, WorkerInv, Ended, Spawn, SetHealthy
  <2> QED
    BY <1>0, <1>1, <2>1 DEF BootStep, HealthyMeansNoTrouble, SetHealthy, Spawn
<1>6. AnswerInv'
  BY <1>0, <1>1, BootFacts, SeverityFacts DEF BootStep, BootInv, AnswerInv, SetHealthy
<1> QED
  BY <1>2, <1>3, <1>4, <1>5, <1>6

(* The process ends, or a monitor asks. *)
LEMMA ProcessKeeps ==
    ASSUME IInv, BootFails \/ ProcessStops \/ HealthHandler PROVE IInv'
<1> USE DEF IInv
<1>1. UNCHANGED <<boot, health, lifecycle, status, owes>>
  BY DEF BootFails, ProcessStops, HealthHandler
<1>2. TypeOK'
  BY DEF TypeOK, BootFails, ProcessStops, HealthHandler
<1>3. BootInv'
  BY BootFacts DEF BootInv, TypeOK, BootFails, ProcessStops, HealthHandler, Serving
<1>4. (\A w \in Workers : WorkerInv(w)') /\ HealthyMeansNoTrouble'
  BY <1>1 DEF WorkerInv, HealthyMeansNoTrouble
<1>5. AnswerInv'
  <2>1. CASE answer' = answer
    BY <1>1, <2>1 DEF AnswerInv
  <2>2. CASE answer' = health
    BY <1>1, <2>2, SeverityFacts DEF AnswerInv, TypeOK, ProcessHealth
  <2> QED
    BY <2>1, <2>2 DEF BootFails, ProcessStops, HealthHandler
<1> QED
  BY <1>2, <1>3, <1>4, <1>5

(* A worker has been spawned when anything happens to it. *)
LEMMA SpawnedAfterBoot ==
    ASSUME IInv, NEW w \in Workers, lifecycle[w] # "absent"
    PROVE  boot = 9 \/ boot = 10
  BY BootFacts DEF IInv, TypeOK, BootInv, Spawn

LEMMA OwesAfterBoot ==
    ASSUME IInv, NEW w \in Workers, owes[w] # "none"
    PROVE  boot = 9 \/ boot = 10
  BY BootFacts DEF IInv, TypeOK, BootInv, Spawn

(* The supervisor's task of one worker, and what the worker notes of itself *)
(* before it marks the process: the flag stays.                             *)
LEMMA WorkerKeeps ==
    ASSUME IInv, NEW w \in Workers,
           \/ TaskRuns(w)
           \/ \E how \in Ended : TaskEnds(w, how)
           \/ TransitionToDegraded(w)
           \/ Recovers(w)
           \/ CycleFails(w)
           \/ ItemFails(w)
           \/ BreakerTrips(w)
    PROVE  IInv'
<1> USE DEF IInv
<1>1. TypeOK' /\ WorkerInv(w)'
  <2>1. CASE TaskRuns(w)
    BY <2>1 DEF TaskRuns, TypeOK, WorkerInv, WorkerLifecycle, Ended
  <2>2. CASE \E how \in Ended : TaskEnds(w, how)
    BY <2>2 DEF TaskEnds, observe_end, TypeOK, WorkerInv, WorkerLifecycle, Ended, Mark
  <2>3. CASE TransitionToDegraded(w) \/ Recovers(w)
    BY <2>3 DEF TransitionToDegraded, Recovers, Running, report, TypeOK, WorkerInv,
       WorkerStatus, Ended, Mark
  <2>4. CASE CycleFails(w) \/ ItemFails(w) \/ BreakerTrips(w)
    BY <2>4 DEF CycleFails, ItemFails, BreakerTrips, Running, report, suggested_status,
       TypeOK, WorkerInv, WorkerStatus, Ended, Mark
  <2> QED
    BY <2>1, <2>2, <2>3, <2>4
<1>2. /\ UNCHANGED <<boot, health, answer>>
      /\ \A v \in Workers \ {w} : /\ lifecycle'[v] = lifecycle[v]
                                  /\ status'[v] = status[v]
                                  /\ owes'[v] = owes[v]
      /\ lifecycle[w] # "absent" /\ lifecycle'[w] # "absent"
  <2>1. CASE TaskRuns(w)
    BY <2>1 DEF TaskRuns, TypeOK
  <2>2. CASE \E how \in Ended : TaskEnds(w, how)
    BY <2>2 DEF TaskEnds, observe_end, TypeOK, Ended
  <2>3. CASE TransitionToDegraded(w) \/ Recovers(w)
    BY <2>3 DEF TransitionToDegraded, Recovers, Running, report, TypeOK
  <2>4. CASE CycleFails(w) \/ ItemFails(w) \/ BreakerTrips(w)
    BY <2>4 DEF CycleFails, ItemFails, BreakerTrips, Running, report, TypeOK
  <2> QED
    BY <2>1, <2>2, <2>3, <2>4
<1>3. boot = 9 \/ boot = 10
  BY <1>2, SpawnedAfterBoot
<1>4. BootInv'
  BY <1>2, <1>3 DEF BootInv, Spawn
<1>5. \A v \in Workers : WorkerInv(v)'
  BY <1>1, <1>2 DEF WorkerInv
<1>6. owes'[w] = "none" => /\ lifecycle'[w] \notin Ended
                           /\ status'[w] = status[w] \/ status'[w] = "Healthy"
                           /\ owes[w] = "none"
  <2>1. CASE TaskRuns(w)
    BY <2>1 DEF TaskRuns, TypeOK, Ended
  <2>2. CASE \E how \in Ended : TaskEnds(w, how)
    BY <2>2 DEF TaskEnds, TypeOK
  <2>3. CASE TransitionToDegraded(w) \/ Recovers(w)
    BY <2>3 DEF TransitionToDegraded, Recovers, Running, report, TypeOK, Ended
  <2>4. CASE CycleFails(w) \/ ItemFails(w) \/ BreakerTrips(w)
    BY <2>4 DEF CycleFails, ItemFails, BreakerTrips, Running, report, TypeOK
  <2> QED
    BY <2>1, <2>2, <2>3, <2>4
<1>7. HealthyMeansNoTrouble'
  BY <1>2, <1>6 DEF HealthyMeansNoTrouble
<1>8. AnswerInv'
  BY <1>2 DEF AnswerInv
<1> QED
  BY <1>1, <1>4, <1>5, <1>7, <1>8

(* The two writes of the flag. *)
LEMMA MarkKeeps ==
    ASSUME IInv, NEW w \in Workers, RecordRuntimeFailure(w) \/ MarkDegraded(w)
    PROVE  IInv'
<1> USE DEF IInv
<1>1. /\ owes[w] # "none"
      /\ owes' = [owes EXCEPT ![w] = "none"]
      /\ UNCHANGED <<boot, stopped, lifecycle, status, answer>>
      /\ health' = mark_degraded(health) \/ health' = record_runtime_failure(w, health)
  BY DEF RecordRuntimeFailure, MarkDegraded
<1>2. boot = 9 \/ boot = 10
  BY <1>1, OwesAfterBoot
<1>3. health # "StartupFailed"
  BY <1>2 DEF BootInv, SetHealthy
<1>4. health' \in ProcessHealth \ {"Healthy", "StartupFailed"}
      /\ Severity(health) <= Severity(health')
  BY <1>1, <1>3, MarksRise DEF TypeOK
<1>5. TypeOK'
  BY <1>1, <1>4 DEF TypeOK, Mark
<1>6. BootInv'
  BY <1>1, <1>2, <1>4, BootFacts DEF BootInv, SetHealthy, Spawn
<1>7. \A v \in Workers : WorkerInv(v)'
  BY <1>1 DEF WorkerInv, TypeOK
<1>8. HealthyMeansNoTrouble'
  BY <1>4 DEF HealthyMeansNoTrouble
<1>9. AnswerInv'
  <2>1. Severity(answer) \in Nat /\ Severity(health) \in Nat /\ Severity(health') \in Nat
    BY <1>4, SeverityFacts DEF TypeOK, ProcessHealth
  <2> QED
    BY <1>1, <1>4, <2>1 DEF AnswerInv
<1> QED
  BY <1>5, <1>6, <1>7, <1>8, <1>9

---------------------------------------------------------------------------
(* The theorems *)

(* The strengthened invariant holds in every reachable state. *)
THEOREM Invariance == FairSpec => []IInv
<1>1. Init => IInv
  <2> SUFFICES ASSUME Init PROVE IInv
    OBVIOUS
  <2>1. TypeOK
    <3>1. stopped \in BOOLEAN
      BY Zenon DEF Init
    <3>2. boot \in 1..(Len(BootSteps) + 1)
      BY BootFacts DEF Init
    <3> QED
      BY <3>1, <3>2 DEF Init, TypeOK, ProcessHealth, WorkerLifecycle, WorkerStatus, Mark
  <2>2. BootInv /\ (\A w \in Workers : WorkerInv(w)) /\ HealthyMeansNoTrouble
    BY BootFacts DEF Init, BootInv, WorkerInv, HealthyMeansNoTrouble, SetHealthy, Spawn, Ended
  <2>3. AnswerInv
    BY SeverityFacts DEF Init, AnswerInv
  <2> QED
    BY <2>1, <2>2, <2>3 DEF IInv
<1>2. IInv /\ [Next]_vars => IInv'
  <2> SUFFICES ASSUME IInv, [Next]_vars PROVE IInv'
    OBVIOUS
  <2>1. CASE BootStep
    BY <2>1, BootStepKeeps
  <2>2. CASE BootFails \/ ProcessStops \/ HealthHandler
    BY <2>2, ProcessKeeps
  <2>3. CASE \E w \in Workers : WorkerStep(w)
    BY <2>3, WorkerKeeps, MarkKeeps DEF WorkerStep
  <2>4. CASE UNCHANGED vars
    BY <2>4 DEF vars, IInv, TypeOK, BootInv, WorkerInv, HealthyMeansNoTrouble, AnswerInv
  <2> QED
    BY <2>1, <2>2, <2>3, <2>4 DEF Next
<1> QED
  BY <1>1, <1>2, PTL DEF FairSpec

(* Every reachable state is well typed: the flag always holds one of the    *)
(* four values of ProcessHealth, whoever writes it.                         *)
THEOREM TypeCorrect == FairSpec => []TypeOK
<1>1. IInv => TypeOK
  BY DEF IInv
<1> QED
  BY <1>1, Invariance, PTL

(* While the flag reads "Healthy" no worker has ended or is impaired but    *)
(* one whose mark is on its way, for any number of workers: main sets the   *)
(* flag before it spawns them, and no mark leaves it "Healthy".             *)
THEOREM HealthyIsTrue == FairSpec => []HealthyMeansNoTrouble
<1>1. IInv => HealthyMeansNoTrouble
  BY DEF IInv
<1> QED
  BY <1>1, Invariance, PTL

(* The answers of /health never improve, however the compare-and-swap of    *)
(* workers and the stores of supervisors interleave.                        *)
THEOREM AnswersOnlyWorsen == FairSpec => AnswersNeverImprove
<1>1. IInv /\ [Next]_vars => [Severity(answer') >= Severity(answer)]_answer
  <2> SUFFICES ASSUME IInv, Next, answer' # answer
               PROVE  Severity(answer') >= Severity(answer)
    BY DEF vars
  <2>1. answer' = health
    BY DEF Next, BootStep, BootFails, ProcessStops, HealthHandler, WorkerStep, TaskRuns,
       TaskEnds, RecordRuntimeFailure, TransitionToDegraded, Recovers, CycleFails,
       ItemFails, BreakerTrips, MarkDegraded
  <2>2. Severity(answer) \in Nat /\ Severity(health) \in Nat
    BY SeverityFacts DEF IInv, TypeOK, ProcessHealth
  <2> QED
    BY <2>1, <2>2 DEF IInv, AnswerInv
<1> QED
  BY <1>1, Invariance, PTL DEF FairSpec, AnswersNeverImprove

---------------------------------------------------------------------------
(* The refinement.  What the mapping of Report computes, as facts: *)

LEMMA LevelFacts ==
    /\ health \in {"StartupFailed", "Healthy"} => ReportedLevel = 0
    /\ health = "Degraded" => ReportedLevel = 1
    /\ health = "RuntimeFailed" => ReportedLevel = 2
  BY Zenon DEF ReportedLevel

LEMMA LevelFactsNext ==
    /\ health' \in {"StartupFailed", "Healthy"} => ReportedLevel' = 0
    /\ health' = "Degraded" => ReportedLevel' = 1
    /\ health' = "RuntimeFailed" => ReportedLevel' = 2
  BY Zenon DEF ReportedLevel

LEMMA SameFlagSameLevel ==
    ASSUME UNCHANGED health PROVE ReportedLevel' = ReportedLevel
  BY DEF ReportedLevel

LEMMA SameTasksSameEnded ==
    ASSUME UNCHANGED lifecycle PROVE EndedWorkers' = EndedWorkers
  BY DEF EndedWorkers

(* A step of main: "serving" begins when it sets the flag. *)
LEMMA BootIsReported ==
    ASSUME IInv, BootStep
    PROVE  Report!Begin \/ UNCHANGED Report!vars
<1>0. boot \in 1..9 /\ ~stopped
  BY BootFacts DEF IInv, TypeOK, BootStep, Alive
<1>1. EndedWorkers' = EndedWorkers
  <2>1. CASE boot = Spawn
    <3>1. \A w \in Workers : lifecycle[w] \notin Ended /\ lifecycle'[w] \notin Ended
      BY <1>0, <2>1, BootFacts DEF IInv, BootInv, BootStep, Ended, Spawn
    <3> QED
      BY <3>1 DEF EndedWorkers
  <2>2. CASE boot # Spawn
    BY <1>0, <2>2, BootFacts, SameTasksSameEnded DEF BootStep
  <2> QED
    BY <2>1, <2>2
<1>2. CASE boot = SetHealthy
  <2>1. health = "StartupFailed" /\ health' = "Healthy" /\ ~stopped'
    BY <1>0, <1>2, BootFacts DEF IInv, BootInv, BootStep, SetHealthy
  <2> QED
    BY <1>0, <1>1, <2>1, LevelFacts, LevelFactsNext DEF Report!Begin, ReportedUp
<1>3. CASE boot # SetHealthy
  <2>1. health' = health /\ stopped' = stopped
    BY <1>0, <1>3, BootFacts DEF BootStep
  <2> QED
    BY <1>1, <2>1, SameFlagSameLevel DEF Report!vars, ReportedUp
<1> QED
  BY <1>2, <1>3

LEMMA StopIsReported ==
    ASSUME IInv, BootFails \/ ProcessStops
    PROVE  Report!Stop
<1>1. ~stopped /\ stopped' /\ UNCHANGED <<health, lifecycle>>
  BY DEF BootFails, ProcessStops, Serving, Alive
<1> QED
  BY <1>1, SameFlagSameLevel, SameTasksSameEnded DEF Report!Stop, ReportedUp

LEMMA EndIsReported ==
    ASSUME IInv, NEW w \in Workers, NEW how \in Ended, TaskEnds(w, how)
    PROVE  Report!WorkerEnds(w)
<1>1. ~stopped /\ lifecycle[w] = "Running" /\ UNCHANGED <<stopped, health>>
  BY DEF TaskEnds, Alive
<1>2. health # "StartupFailed"
  BY <1>1, SpawnedAfterBoot DEF IInv, BootInv, SetHealthy
<1>3. w \notin EndedWorkers
  BY <1>1 DEF EndedWorkers, Ended
<1>4. EndedWorkers' = EndedWorkers \cup {w}
  BY DEF TaskEnds, observe_end, EndedWorkers, IInv, TypeOK
<1> QED
  BY <1>1, <1>2, <1>3, <1>4, SameFlagSameLevel DEF Report!WorkerEnds, ReportedUp

(* Only the supervisor of a critical worker that has ended writes "failed". *)
LEMMA MarkIsReported ==
    ASSUME IInv, NEW w \in Workers, RecordRuntimeFailure(w) \/ MarkDegraded(w)
    PROVE  Report!Degrade \/ Report!Fail \/ UNCHANGED Report!vars
<1>1. ~stopped /\ owes[w] # "none" /\ UNCHANGED <<stopped, lifecycle>>
  BY DEF RecordRuntimeFailure, MarkDegraded, Alive
<1>2. health # "StartupFailed"
  BY <1>1, OwesAfterBoot DEF IInv, BootInv, SetHealthy
<1>3. ReportedUp = "serving" /\ EndedWorkers' = EndedWorkers
  BY <1>1, <1>2, SameTasksSameEnded DEF ReportedUp
<1>4. CASE health' = health
  BY <1>1, <1>3, <1>4, SameFlagSameLevel DEF Report!vars, ReportedUp
<1>5. CASE health = "Healthy" /\ health' = "Degraded"
  BY <1>1, <1>3, <1>5, LevelFacts, LevelFactsNext DEF Report!Degrade, ReportedUp
<1>6. CASE RecordRuntimeFailure(w) /\ w \in Critical /\ health # "RuntimeFailed"
  <2>1. w \in EndedWorkers
    BY <1>6 DEF RecordRuntimeFailure, IInv, WorkerInv, EndedWorkers
  <2>2. health' = "RuntimeFailed"
    BY <1>6 DEF RecordRuntimeFailure, record_runtime_failure, mark_runtime_failed
  <2>3. ReportedLevel \in {0, 1} /\ ReportedLevel' = 2
    BY <1>2, <1>6, <2>2, LevelFacts, LevelFactsNext DEF IInv, TypeOK, ProcessHealth
  <2> QED
    BY <1>1, <1>2, <1>3, <1>6, <2>1, <2>2, <2>3 DEF Report!Fail, ReportedUp
<1> QED
  BY <1>4, <1>5, <1>6 DEF RecordRuntimeFailure, MarkDegraded, record_runtime_failure,
     mark_runtime_failed, mark_degraded

LEMMA StepIsReported ==
    ASSUME IInv, [Next]_vars
    PROVE  Report!Next \/ UNCHANGED Report!vars
<1>1. ASSUME UNCHANGED <<stopped, health, EndedWorkers>>
      PROVE  UNCHANGED Report!vars
  BY <1>1, SameFlagSameLevel DEF Report!vars, ReportedUp
<1>2. CASE BootStep \/ BootFails \/ ProcessStops
  BY <1>2, BootIsReported, StopIsReported DEF Report!Next
<1>3. CASE HealthHandler \/ UNCHANGED vars
  BY <1>1, <1>3, SameTasksSameEnded DEF HealthHandler, vars
<1>4. ASSUME NEW w \in Workers, WorkerStep(w)
      PROVE  Report!Next \/ UNCHANGED Report!vars
  <2>1. CASE TaskRuns(w)
    <3>1. EndedWorkers' = EndedWorkers
      BY <2>1 DEF TaskRuns, EndedWorkers, Ended, IInv, TypeOK
    <3> QED
      BY <1>1, <2>1, <3>1 DEF TaskRuns
  <2>2. CASE \E how \in Ended : TaskEnds(w, how)
    BY <2>2, EndIsReported DEF Report!Next
  <2>3. CASE RecordRuntimeFailure(w) \/ MarkDegraded(w)
    BY <2>3, MarkIsReported DEF Report!Next
  <2>4. CASE \/ TransitionToDegraded(w) \/ Recovers(w) \/ CycleFails(w) \/ ItemFails(w)
             \/ BreakerTrips(w)
    BY <1>1, <2>4, SameTasksSameEnded DEF TransitionToDegraded, Recovers, CycleFails,
       ItemFails, BreakerTrips
  <2> QED
    BY <1>4, <2>1, <2>2, <2>3, <2>4 DEF WorkerStep
<1> QED
  BY <1>2, <1>3, <1>4 DEF Next

(* The safety part of ImplementsHealthReport, for any sets of workers: the  *)
(* process starts as a report does, and each of its steps is one of         *)
(* HealthReport or leaves the report as it is, so the level never falls and *)
(* says "failed" only after a critical worker has ended.                    *)
THEOREM RefinesHealthReport ==
    FairSpec => Report!Init /\ [][Report!Next]_(Report!vars)
<1>1. Init => Report!Init
  BY LevelFacts DEF Init, Report!Init, ReportedUp, EndedWorkers, Ended
<1>2. IInv /\ [Next]_vars => [Report!Next]_(Report!vars)
  BY StepIsReported
<1> QED
  BY <1>1, <1>2, Invariance, PTL DEF FairSpec
=============================================================================
