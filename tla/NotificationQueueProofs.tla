---------------------- MODULE NotificationQueueProofs ----------------------
(***************************************************************************)
(* Proofs about NotificationQueue, for any finite sets of jobs and keepers, *)
(* any sets of wallets, invitations and workers, and all values of the      *)
(* bounds.                                                                  *)
(***************************************************************************)
EXTENDS NotificationQueue, FiniteSetTheorems, SequenceTheorems, TLAPS

---------------------------------------------------------------------------
(* The inductive invariant *)

WorkerInv(s) == worker[s].pc # "idle" => worker[s].batch # <<>>

(* A keeper that has sent a reminder has it in its list until it is counted. *)
KeeperInv(s) ==
    /\ keeper[s].pc = "count" <=> keeper[s].at # None
    /\ keeper[s].at # None => keeper[s].at \in keeper[s].todo

CoreInv ==
    /\ TypeOK
    /\ \A s \in Workers : WorkerInv(s)
    /\ \A s \in Keepers : KeeperInv(s)

(* Keepers that selected i and are not done with it, and those of them whose *)
(* reminder is sent and not counted.                                         *)
Holders(i) == {s \in Keepers : i \in keeper[s].todo}
Counting(i) == {s \in Keepers : keeper[s].at = i}

(* Every reminder is counted, lost or about to be counted; a keeper that     *)
(* counts i lets go of it, and nobody selects i again.                       *)
ReminderInv(i) ==
    /\ reminders[i] = reminder_count[i] + lost[i] + Cardinality(Counting(i))
    /\ reminder_count[i] + Cardinality(Holders(i)) <= Cardinality(Keepers)

IInv == CoreInv /\ \A i \in Invitations : ReminderInv(i)

---------------------------------------------------------------------------
(* The worker *)

WorkerType == [pc : {"idle", "lookup", "email", "record"}, batch : Seq(Jobs), delivered : BOOLEAN]
KeeperType == [pc : {"idle", "send", "count"},
               todo : SUBSET Invitations, at : Invitations \cup {None}]

LEMMA BatchProperties ==
    ASSUME TypeOK, Pending # {}, NEW b \in fetch_pending_jobs
    PROVE  b \in Seq(Jobs) /\ b # <<>>
<1> DEFINE n == IF Cardinality(Pending) < BatchLimit THEN Cardinality(Pending) ELSE BatchLimit
<1>1. Pending \subseteq Jobs
  BY DEF Pending
<1>2. n \in Nat \ {0}
  <2>1. IsFiniteSet(Pending) /\ Cardinality(Pending) \in Nat
    BY <1>1, QueueAssumption, FS_Subset, FS_CardinalityType
  <2>2. Cardinality(Pending) # 0
    BY <2>1, FS_EmptySet
  <2> QED
    BY <2>1, <2>2, QueueAssumption
<1>3. b \in [1..n -> Pending]
  BY DEF fetch_pending_jobs, Batches
<1> HIDE DEF n
<1>4. b \in Seq(Pending) /\ Len(b) = n
  BY <1>2, <1>3
<1> QED
  BY <1>1, <1>2, <1>4, SeqMonotonic

LEMMA WorkerMoves ==
    ASSUME CoreInv, NEW s \in Workers, NEW w \in WorkerType, WorkerGoes(s, w),
           w.pc # "idle" => w.batch # <<>>
    PROVE  worker' \in [Workers -> WorkerType] /\ \A r \in Workers : WorkerInv(r)'
<1>1. /\ worker' \in [Workers -> WorkerType] /\ worker'[s] = w
      /\ \A r \in Workers \ {s} : worker'[r] = worker[r]
  BY DEF WorkerGoes, CoreInv, TypeOK, WorkerType
<1> QED
  BY <1>1 DEF CoreInv, WorkerInv

LEMMA BusyWorker ==
    ASSUME CoreInv, NEW s \in Workers, worker[s].pc # "idle"
    PROVE  LET b == worker[s].batch IN
           /\ b \in Seq(Jobs) /\ b # <<>> /\ Len(b) \in Nat \ {0}
           /\ Job(s) \in Jobs /\ Tail(b) \in Seq(Jobs) /\ Len(Tail(b)) = Len(b) - 1
<1> DEFINE b == worker[s].batch
<1>1. b \in Seq(Jobs) /\ b # <<>>
  BY DEF CoreInv, TypeOK, WorkerInv
<1>2. Job(s) = Head(b)
  BY DEF Job
<1> HIDE DEF b
<1>3. /\ Len(b) \in Nat \ {0} /\ Head(b) \in Jobs
      /\ Tail(b) \in Seq(Jobs) /\ Len(Tail(b)) = Len(b) - 1
  BY <1>1, HeadTailProperties, LenProperties, EmptySeq
<1> QED
  BY <1>1, <1>2, <1>3 DEF b

LEMMA NextJobRecord ==
    ASSUME CoreInv, NEW s \in Workers, worker[s].pc # "idle", NextJob(s)
    PROVE  worker' \in [Workers -> WorkerType] /\ \A r \in Workers : WorkerInv(r)'
<1> DEFINE b == worker[s].batch
           w == IF Len(b) = 1 THEN IdleWorker
                ELSE [pc |-> "lookup", batch |-> Tail(b), delivered |-> FALSE]
<1>1. WorkerGoes(s, w)
  BY DEF NextJob
<1>2. Len(b) \in Nat \ {0} /\ Tail(b) \in Seq(Jobs) /\ Len(Tail(b)) = Len(b) - 1
  BY BusyWorker
<1> HIDE DEF b
<1>3. CASE Len(b) = 1
  <2>1. w \in WorkerType /\ w.pc = "idle"
    BY <1>3 DEF WorkerType, IdleWorker
  <2> QED
    BY <1>1, <2>1, WorkerMoves
<1>4. CASE Len(b) # 1
  <2>1. Tail(b) # <<>>
    <3>1. Len(Tail(b)) # 0
      BY <1>2, <1>4
    <3> QED
      BY <1>2, <3>1, EmptySeq
  <2>2. w \in WorkerType /\ w.batch = Tail(b)
    BY <1>2, <1>4 DEF WorkerType
  <2> QED
    BY <1>1, <2>1, <2>2, WorkerMoves
<1> QED
  BY <1>3, <1>4

(* The counters of a job stay within their types. *)
LEMMA AttemptsType ==
    ASSUME TypeOK, NEW j \in Jobs
    PROVE  increment_attempts(j) \in [Jobs -> 0..MaxAttempts]
<1>1. attempts \in [Jobs -> 0..MaxAttempts] /\ MaxAttempts \in Nat
  BY QueueAssumption DEF TypeOK
<1> QED
  BY <1>1 DEF increment_attempts

LEMMA WorkerCore ==
    ASSUME CoreInv, NEW s \in Workers, WorkerStep(s)
    PROVE  CoreInv'
<1>0. worker[s] \in WorkerType
  BY DEF CoreInv, TypeOK, WorkerType
<1>1. UNCHANGED <<now, scheduled_at, recipient, wallets, online, invitation, reminder_count,
                  reminders, lost, keeper, crashes>>
  BY DEF WorkerStep, Fetch, SendToUser, NoUserFound, EmailSent, EmailFails, NoEmailFound,
         Record, RecordFails, userVars, reminderVars
<1>2. \A r \in Keepers : KeeperInv(r)'
  BY <1>1 DEF CoreInv, KeeperInv
<1>3. ASSUME worker' \in [Workers -> WorkerType], \A r \in Workers : WorkerInv(r)',
             told' \subseteq Jobs, written_off' \subseteq Jobs,
             status' \in [Jobs -> {"absent", "pending", "sent"}],
             attempts' \in [Jobs -> 0..MaxAttempts]
      PROVE  CoreInv'
  BY <1>1, <1>2, <1>3 DEF CoreInv, TypeOK, WorkerType
<1>4. CASE Fetch(s)
  <2>1. PICK b \in fetch_pending_jobs :
            WorkerGoes(s, [pc |-> "lookup", batch |-> b, delivered |-> FALSE])
    BY <1>4 DEF Fetch
  <2>2. b \in Seq(Jobs) /\ b # <<>>
    BY <1>4, BatchProperties DEF Fetch, CoreInv
  <2> DEFINE w == [pc |-> "lookup", batch |-> b, delivered |-> FALSE]
  <2>3. w \in WorkerType /\ w.batch = b
    BY <2>2 DEF WorkerType
  <2> HIDE DEF w
  <2>4. worker' \in [Workers -> WorkerType] /\ \A r \in Workers : WorkerInv(r)'
    BY <2>1, <2>2, <2>3, WorkerMoves DEF w
  <2> QED
    BY <1>3, <1>4, <2>4 DEF Fetch, outcomeVars, CoreInv, TypeOK
<1>5. CASE SendToUser(s) \/ NoUserFound(s) \/ EmailSent(s) \/ EmailFails(s) \/ NoEmailFound(s)
  <2>1. worker[s].pc # "idle" /\ UNCHANGED <<status, attempts>>
    BY <1>5 DEF SendToUser, NoUserFound, EmailSent, EmailFails, NoEmailFound
  <2>2. PICK c \in {"email", "record"}, d \in BOOLEAN :
            WorkerGoes(s, [worker[s] EXCEPT !.pc = c, !.delivered = d])
    <3>1. worker[s].delivered \in BOOLEAN
      BY <1>0 DEF WorkerType
    <3>2. [worker[s] EXCEPT !.pc = "record"] =
              [worker[s] EXCEPT !.pc = "record", !.delivered = worker[s].delivered]
      BY <1>0 DEF WorkerType
    <3>3. CASE EmailFails(s)
      BY <3>1, <3>2, <3>3 DEF EmailFails
    <3>4. CASE SendToUser(s)
      <4>1. (recipient[Job(s)] \in online) \in BOOLEAN
        OBVIOUS
      <4> QED
        BY <3>4, <4>1 DEF SendToUser
    <3>5. CASE NoUserFound(s) \/ EmailSent(s) \/ NoEmailFound(s)
      BY <3>5 DEF NoUserFound, EmailSent, NoEmailFound
    <3> QED
      BY <1>5, <3>3, <3>4, <3>5
  <2> DEFINE w == [worker[s] EXCEPT !.pc = c, !.delivered = d]
  <2>3. w \in WorkerType /\ w.batch = worker[s].batch
    BY <1>0 DEF WorkerType
  <2> HIDE DEF w
  <2>4. worker[s].batch # <<>> /\ Job(s) \in Jobs
    BY <2>1, BusyWorker
  <2>5. worker' \in [Workers -> WorkerType] /\ \A r \in Workers : WorkerInv(r)'
    BY <2>2, <2>3, <2>4, WorkerMoves DEF w
  <2>6. told' \subseteq Jobs /\ written_off' \subseteq Jobs
    BY <1>5, <2>4 DEF SendToUser, NoUserFound, EmailSent, EmailFails, NoEmailFound,
       outcomeVars, CoreInv, TypeOK
  <2> QED
    BY <1>3, <2>1, <2>5, <2>6 DEF CoreInv, TypeOK
<1>6. CASE Record(s) \/ RecordFails(s)
  <2>1. worker[s].pc # "idle" /\ NextJob(s) /\ UNCHANGED <<told, written_off>>
    BY <1>6 DEF Record, RecordFails, outcomeVars
  <2>2. worker' \in [Workers -> WorkerType] /\ \A r \in Workers : WorkerInv(r)'
    BY <2>1, NextJobRecord
  <2>3. Job(s) \in Jobs
    BY <2>1, BusyWorker
  <2>4. /\ status' = status \/ status' = [status EXCEPT ![Job(s)] = "sent"]
        /\ attempts' = attempts \/ attempts' = increment_attempts(Job(s))
    BY <1>6 DEF Record, RecordFails, mark_sent
  <2>5. attempts' \in [Jobs -> 0..MaxAttempts]
    BY <2>3, <2>4, AttemptsType DEF CoreInv, TypeOK
  <2>6. status' \in [Jobs -> {"absent", "pending", "sent"}]
    BY <2>3, <2>4 DEF CoreInv, TypeOK
  <2> QED
    BY <1>3, <2>1, <2>2, <2>5, <2>6 DEF CoreInv, TypeOK
<1> QED
  BY <1>4, <1>5, <1>6 DEF WorkerStep

LEMMA OtherCore ==
    ASSUME CoreInv, UserStep \/ (\E s \in Workers : WorkerCrashes(s)) \/ UNCHANGED vars
    PROVE  CoreInv'
<1> USE DEF CoreInv
<1>1. UNCHANGED keeper
  BY DEF UserStep, EnqueueNotification, Register, ChangeOnline, InvitationAges, Tick,
         WorkerCrashes, vars, reminderVars
<1>2. \A r \in Keepers : KeeperInv(r)'
  BY <1>1 DEF KeeperInv
<1>3. ASSUME UNCHANGED worker, TypeOK'
      PROVE  CoreInv'
  BY <1>2, <1>3 DEF WorkerInv
<1>4. ASSUME NEW j \in Jobs, NEW p \in Pubkeys, EnqueueNotification(j, p)
      PROVE  CoreInv'
  BY <1>3, <1>4 DEF EnqueueNotification, outcomeVars, userVars, reminderVars, TypeOK
<1>5. ASSUME NEW p \in Pubkeys, Register(p) \/ ChangeOnline(p)
      PROVE  CoreInv'
  BY <1>3, <1>5 DEF Register, ChangeOnline, queueVars, outcomeVars, reminderVars, TypeOK
<1>6. ASSUME NEW i \in Invitations, InvitationAges(i)
      PROVE  CoreInv'
  BY <1>3, <1>6 DEF InvitationAges, queueVars, outcomeVars, userVars, TypeOK
<1>7. CASE Tick
  <2>1. now' \in 0..MaxTime
    BY <1>7, QueueAssumption DEF Tick, TypeOK
  <2> QED
    BY <1>3, <1>7, <2>1 DEF Tick, queueVars, outcomeVars, userVars, reminderVars, TypeOK
<1>8. ASSUME NEW s \in Workers, WorkerCrashes(s)
      PROVE  CoreInv'
  <2>1. IdleWorker \in WorkerType /\ IdleWorker.pc = "idle"
    BY DEF IdleWorker, WorkerType
  <2>2. worker' \in [Workers -> WorkerType] /\ \A r \in Workers : WorkerInv(r)'
    BY <1>8, <2>1, WorkerMoves DEF WorkerCrashes
  <2>3. crashes' \in 0..MaxCrashes
    BY <1>8, QueueAssumption DEF WorkerCrashes, TypeOK
  <2> QED
    BY <1>2, <1>8, <2>2, <2>3 DEF WorkerCrashes, outcomeVars, userVars, reminderVars, TypeOK, WorkerType
<1>9. CASE UNCHANGED vars
  BY <1>3, <1>9 DEF vars, queueVars, outcomeVars, userVars, reminderVars, TypeOK
<1> QED
  BY <1>4, <1>5, <1>6, <1>7, <1>8, <1>9 DEF UserStep

---------------------------------------------------------------------------
(* The reminders *)

LEMMA KeepersAreFinite ==
    ASSUME NEW S \in SUBSET Keepers
    PROVE  IsFiniteSet(S) /\ Cardinality(S) \in Nat /\ Cardinality(S) <= Cardinality(Keepers)
  BY QueueAssumption, FS_Subset, FS_CardinalityType

LEMMA ReminderTypes ==
    ASSUME TypeOK, NEW i \in Invitations
    PROVE  /\ reminder_count[i] \in Nat /\ reminders[i] \in Nat /\ lost[i] \in Nat
           /\ Cardinality(Keepers) \in Nat
           /\ IsFiniteSet(Holders(i)) /\ Cardinality(Holders(i)) \in Nat
           /\ IsFiniteSet(Counting(i)) /\ Cardinality(Counting(i)) \in Nat
<1>1. Holders(i) \in SUBSET Keepers /\ Counting(i) \in SUBSET Keepers /\ Keepers \in SUBSET Keepers
  BY DEF Holders, Counting
<1> QED
  BY <1>1, KeepersAreFinite, QueueAssumption DEF TypeOK

(* Where a keeper may go, and what is left of its part in each invitation. *)
LEMMA KeeperMoves ==
    ASSUME CoreInv, NEW s \in Keepers, NEW k \in KeeperType, KeeperGoes(s, k)
    PROVE  /\ keeper' \in [Keepers -> KeeperType] /\ keeper'[s] = k
           /\ \A r \in Keepers \ {s} : keeper'[r] = keeper[r]
           /\ \A i \in Invitations :
                  /\ Holders(i)' = IF i \in k.todo THEN Holders(i) \cup {s} ELSE Holders(i) \ {s}
                  /\ Counting(i)' = IF k.at = i THEN Counting(i) \cup {s} ELSE Counting(i) \ {s}
<1>1. /\ keeper' \in [Keepers -> KeeperType] /\ keeper'[s] = k
      /\ \A r \in Keepers \ {s} : keeper'[r] = keeper[r]
  BY DEF KeeperGoes, CoreInv, TypeOK, KeeperType
<1>2. ASSUME NEW i \in Invitations
      PROVE  /\ Holders(i)' = IF i \in k.todo THEN Holders(i) \cup {s} ELSE Holders(i) \ {s}
             /\ Counting(i)' = IF k.at = i THEN Counting(i) \cup {s} ELSE Counting(i) \ {s}
  BY <1>1 DEF Holders, Counting
<1> QED
  BY <1>1, <1>2

(* A keeper that is done with i, by whatever end. *)
LEMMA DoneWith ==
    ASSUME CoreInv, NEW s \in Keepers, NEW i, NextReminder(s, i)
    PROVE  \E k \in KeeperType : /\ KeeperGoes(s, k) /\ k.todo = keeper[s].todo \ {i}
                                 /\ k.at = None /\ k.pc # "count"
<1> DEFINE rest == keeper[s].todo \ {i}
           k == IF rest = {} THEN IdleKeeper ELSE [pc |-> "send", todo |-> rest, at |-> None]
<1>1. KeeperGoes(s, k)
  BY DEF NextReminder
<1>2. rest \subseteq Invitations
  BY DEF CoreInv, TypeOK
<1>3. k \in KeeperType /\ k.todo = rest /\ k.at = None /\ k.pc # "count"
  BY <1>2 DEF KeeperType, IdleKeeper
<1> QED
  BY <1>1, <1>3

LEMMA KeeperCore ==
    ASSUME CoreInv, NEW s \in Keepers, KeeperStep(s) \/ KeeperCrashes(s)
    PROVE  CoreInv'
<1> USE DEF CoreInv
<1>0. keeper[s] \in KeeperType /\ KeeperInv(s)
  BY DEF TypeOK, KeeperType
<1>1. UNCHANGED <<now, queueVars, userVars, invitation>>
  BY DEF KeeperStep, KeeperCrashes, ReminderScan, ReminderSent, ReminderFails, CountReminder,
         CountFails
<1>2. \A r \in Workers : WorkerInv(r)'
  BY <1>1 DEF WorkerInv, queueVars, outcomeVars
<1>3. ASSUME NEW k \in KeeperType, KeeperGoes(s, k),
             k.pc = "count" <=> k.at # None, k.at # None => k.at \in k.todo,
             reminder_count' \in [Invitations -> Nat], reminders' \in [Invitations -> Nat],
             lost' \in [Invitations -> 0..MaxLost], crashes' \in 0..MaxCrashes
      PROVE  CoreInv'
  <2>1. /\ keeper' \in [Keepers -> KeeperType] /\ keeper'[s] = k
        /\ \A r \in Keepers \ {s} : keeper'[r] = keeper[r]
    BY <1>3, KeeperMoves
  <2>2. \A r \in Keepers : KeeperInv(r)'
    BY <1>3, <2>1 DEF KeeperInv
  <2>3. TypeOK'
    BY <1>1, <1>3, <2>1 DEF TypeOK, KeeperType, queueVars, outcomeVars, userVars
  <2> QED
    BY <1>2, <2>2, <2>3
<1>4. CASE ReminderScan(s)
  <2>1. PICK found \in SUBSET {i \in Invitations : NeedsReminder(i)} \ {{}} :
            KeeperGoes(s, [pc |-> "send", todo |-> found, at |-> None])
    BY <1>4 DEF ReminderScan
  <2> DEFINE k == [pc |-> "send", todo |-> found, at |-> None]
  <2>2. k \in KeeperType /\ k.pc = "send" /\ k.at = None
    BY DEF KeeperType
  <2> HIDE DEF k
  <2>3. KeeperGoes(s, k)
    BY <2>1 DEF k
  <2> QED
    BY <1>3, <1>4, <2>2, <2>3 DEF ReminderScan, TypeOK
<1>5. ASSUME NEW i \in Invitations, ReminderSent(s, i)
      PROVE  CoreInv'
  <2> DEFINE k == [keeper[s] EXCEPT !.pc = "count", !.at = i]
  <2>1. k \in KeeperType /\ k.pc = "count" /\ k.at = i /\ k.todo = keeper[s].todo
    BY <1>0 DEF KeeperType
  <2>2. KeeperGoes(s, k) /\ i \in keeper[s].todo
    BY <1>5 DEF ReminderSent
  <2> HIDE DEF k
  <2>3. reminders' \in [Invitations -> Nat]
    BY <1>5 DEF ReminderSent, TypeOK
  <2> QED
    BY <1>3, <1>5, <2>1, <2>2, <2>3, QueueAssumption DEF ReminderSent, TypeOK
<1>6. ASSUME NEW i \in Invitations, ReminderFails(s, i)
      PROVE  CoreInv'
  <2>1. PICK k \in KeeperType : KeeperGoes(s, k) /\ k.at = None /\ k.pc # "count"
    BY <1>6, DoneWith DEF ReminderFails
  <2> QED
    BY <1>3, <1>6, <2>1 DEF ReminderFails, TypeOK
<1>7. CASE CountReminder(s)
  <2>1. PICK k \in KeeperType : KeeperGoes(s, k) /\ k.at = None /\ k.pc # "count"
    BY <1>7, DoneWith DEF CountReminder
  <2>2. reminder_count' \in [Invitations -> Nat]
    BY <1>0, <1>7 DEF CountReminder, KeeperInv, KeeperType, TypeOK
  <2> QED
    BY <1>3, <1>7, <2>1, <2>2 DEF CountReminder, TypeOK
<1>8. CASE CountFails(s)
  <2>1. PICK k \in KeeperType : KeeperGoes(s, k) /\ k.at = None /\ k.pc # "count"
    BY <1>8, DoneWith DEF CountFails
  <2>2. lost' \in [Invitations -> 0..MaxLost]
    BY <1>0, <1>8, QueueAssumption DEF CountFails, KeeperInv, KeeperType, TypeOK
  <2> QED
    BY <1>3, <1>8, <2>1, <2>2 DEF CountFails, TypeOK
<1>9. CASE KeeperCrashes(s)
  <2>1. IdleKeeper \in KeeperType /\ IdleKeeper.at = None /\ IdleKeeper.pc # "count"
    BY DEF IdleKeeper, KeeperType
  <2>2. lost' \in [Invitations -> 0..MaxLost]
    <3> DEFINE i == keeper[s].at
    <3>1. /\ lost \in [Invitations -> 0..MaxLost] /\ MaxLost \in Nat
          /\ i \in Invitations \cup {None}
      BY <1>0, QueueAssumption DEF KeeperType, TypeOK
    <3>2. \/ UNCHANGED lost
          \/ i # None /\ lost[i] < MaxLost /\ lost' = [lost EXCEPT ![i] = lost[i] + 1]
      BY <1>9 DEF KeeperCrashes
    <3> HIDE DEF i
    <3>3. ASSUME i # None, lost[i] < MaxLost PROVE lost[i] + 1 \in 0..MaxLost
      BY <3>1, <3>3
    <3> QED
      BY <3>1, <3>2, <3>3
  <2>3. crashes' \in 0..MaxCrashes
    BY <1>9, QueueAssumption DEF KeeperCrashes, TypeOK
  <2> QED
    BY <1>3, <1>9, <2>1, <2>2, <2>3 DEF KeeperCrashes, TypeOK
<1> QED
  BY <1>4, <1>5, <1>6, <1>7, <1>8, <1>9 DEF KeeperStep

(* A keeper lets go of what it is at, and of no more than it held. *)
LEMMA LetGo ==
    ASSUME CoreInv, NEW s \in Keepers, NEW k \in KeeperType, KeeperGoes(s, k),
           k.at = None, k.todo \subseteq keeper[s].todo, NEW i \in Invitations
    PROVE  /\ Cardinality(Holders(i))' \in Nat
           /\ Cardinality(Holders(i))' <= Cardinality(Holders(i))
           /\ i \in keeper[s].todo \ k.todo =>
                  Cardinality(Holders(i))' = Cardinality(Holders(i)) - 1
           /\ Cardinality(Counting(i))' = IF keeper[s].at = i THEN Cardinality(Counting(i)) - 1
                                          ELSE Cardinality(Counting(i))
<1>1. /\ Holders(i)' = IF i \in k.todo THEN Holders(i) \cup {s} ELSE Holders(i) \ {s}
      /\ Counting(i)' = IF k.at = i THEN Counting(i) \cup {s} ELSE Counting(i) \ {s}
  BY KeeperMoves
<1>2. s \in Holders(i) <=> i \in keeper[s].todo
  BY DEF Holders
<1>3. s \in Counting(i) <=> keeper[s].at = i
  BY DEF Counting
<1>4. k.at # i
  BY QueueAssumption
<1>5. /\ IsFiniteSet(Holders(i)) /\ Cardinality(Holders(i)) \in Nat
      /\ IsFiniteSet(Counting(i)) /\ Cardinality(Counting(i)) \in Nat
  BY ReminderTypes DEF CoreInv
<1>6. Cardinality(Counting(i))' = IF keeper[s].at = i THEN Cardinality(Counting(i)) - 1
                                  ELSE Cardinality(Counting(i))
  <2>1. Counting(i)' = Counting(i) \ {s}
    BY <1>1, <1>4
  <2>2. Cardinality(Counting(i) \ {s}) = IF s \in Counting(i) THEN Cardinality(Counting(i)) - 1
                                         ELSE Cardinality(Counting(i))
    BY <1>5, FS_RemoveElement
  <2> QED
    BY <1>3, <2>1, <2>2
<1>7. CASE i \in k.todo
  <2>1. Holders(i)' = Holders(i)
    BY <1>1, <1>2, <1>7
  <2> QED
    BY <1>5, <1>6, <1>7, <2>1
<1>8. CASE i \notin k.todo
  <2>1. Holders(i)' = Holders(i) \ {s}
    BY <1>1, <1>8
  <2>2. /\ Cardinality(Holders(i) \ {s}) = IF s \in Holders(i) THEN Cardinality(Holders(i)) - 1
                                           ELSE Cardinality(Holders(i))
        /\ Cardinality(Holders(i) \ {s}) \in Nat
    BY <1>5, FS_RemoveElement, FS_CardinalityType
  <2> QED
    BY <1>2, <1>5, <1>6, <2>1, <2>2
<1> QED
  BY <1>7, <1>8

LEMMA ReminderStep ==
    ASSUME IInv, [Next]_vars, NEW i \in Invitations
    PROVE  ReminderInv(i)'
<1>0. /\ CoreInv /\ ReminderInv(i)
      /\ reminder_count \in [Invitations -> Nat] /\ reminders \in [Invitations -> Nat]
      /\ lost \in [Invitations -> 0..MaxLost] /\ MaxLost \in Nat
      /\ reminder_count[i] \in Nat /\ reminders[i] \in Nat /\ lost[i] \in Nat
      /\ Cardinality(Keepers) \in Nat
      /\ IsFiniteSet(Holders(i)) /\ Cardinality(Holders(i)) \in Nat
      /\ IsFiniteSet(Counting(i)) /\ Cardinality(Counting(i)) \in Nat
  BY ReminderTypes, QueueAssumption DEF IInv, CoreInv, TypeOK
<1>1. CASE UserStep \/ (\E s \in Workers : WorkerStep(s) \/ WorkerCrashes(s)) \/ UNCHANGED vars
  <2>1. UNCHANGED <<reminder_count, reminders, lost, keeper>>
    BY <1>1 DEF UserStep, EnqueueNotification, Register, ChangeOnline, InvitationAges, Tick,
                WorkerStep, Fetch, SendToUser, NoUserFound, EmailSent, EmailFails, NoEmailFound,
                Record, RecordFails, WorkerCrashes, vars, reminderVars
  <2>2. Holders(i)' = Holders(i) /\ Counting(i)' = Counting(i)
    BY <2>1 DEF Holders, Counting
  <2> QED
    BY <1>0, <2>1, <2>2 DEF ReminderInv
<1>2. ASSUME NEW s \in Keepers, KeeperStep(s) \/ KeeperCrashes(s)
      PROVE  ReminderInv(i)'
  <2>0. keeper[s] \in KeeperType /\ KeeperInv(s)
    BY <1>0 DEF CoreInv, TypeOK, KeeperType
  <2>1. CASE ReminderScan(s)
    <3>1. PICK found \in SUBSET {j \in Invitations : NeedsReminder(j)} \ {{}} :
              KeeperGoes(s, [pc |-> "send", todo |-> found, at |-> None])
      BY <2>1 DEF ReminderScan
    <3>2. /\ keeper[s].at = None
          /\ UNCHANGED <<reminder_count, reminders, lost>>
      BY <2>0, <2>1 DEF ReminderScan, KeeperInv
    <3> DEFINE k == [pc |-> "send", todo |-> found, at |-> None]
    <3>3. k \in KeeperType /\ k.todo = found /\ k.at = None
      BY DEF KeeperType
    <3> HIDE DEF k
    <3>4. /\ Holders(i)' = IF i \in k.todo THEN Holders(i) \cup {s} ELSE Holders(i) \ {s}
          /\ Counting(i)' = IF k.at = i THEN Counting(i) \cup {s} ELSE Counting(i) \ {s}
      BY <1>0, <3>1, <3>3, KeeperMoves DEF k
    <3>5. Counting(i)' = Counting(i)
      BY <3>2, <3>3, <3>4, QueueAssumption DEF Counting
    <3>6. reminder_count'[i] + Cardinality(Holders(i))' <= Cardinality(Keepers)
      <4>1. CASE i \in found
        <5>1. reminder_count[i] = 0
          BY <4>1 DEF NeedsReminder
        <5>2. Holders(i)' \in SUBSET Keepers
          BY DEF Holders
        <5>3. Cardinality(Holders(i)') \in Nat /\ Cardinality(Holders(i)') <= Cardinality(Keepers)
          BY <5>2, KeepersAreFinite
        <5> QED
          BY <3>2, <5>1, <5>3
      <4>2. CASE i \notin found
        <5>1. Holders(i)' \subseteq Holders(i)
          BY <3>3, <3>4, <4>2
        <5>2. Cardinality(Holders(i)') \in Nat /\ Cardinality(Holders(i)') <= Cardinality(Holders(i))
          BY <1>0, <5>1, FS_Subset, FS_CardinalityType
        <5> QED
          BY <1>0, <3>2, <5>2 DEF ReminderInv
      <4> QED
        BY <4>1, <4>2
    <3> QED
      BY <1>0, <3>2, <3>5, <3>6 DEF ReminderInv
  <2>2. ASSUME NEW j \in Invitations, ReminderSent(s, j)
        PROVE  ReminderInv(i)'
    <3> DEFINE k == [keeper[s] EXCEPT !.pc = "count", !.at = j]
    <3>1. k \in KeeperType /\ k.todo = keeper[s].todo /\ k.at = j
      BY <2>0 DEF KeeperType
    <3>2. /\ KeeperGoes(s, k) /\ keeper[s].at = None
          /\ reminders' = [reminders EXCEPT ![j] = @ + 1]
          /\ UNCHANGED <<reminder_count, lost>>
      BY <2>0, <2>2 DEF ReminderSent, KeeperInv
    <3> HIDE DEF k
    <3>3. /\ Holders(i)' = IF i \in k.todo THEN Holders(i) \cup {s} ELSE Holders(i) \ {s}
          /\ Counting(i)' = IF k.at = i THEN Counting(i) \cup {s} ELSE Counting(i) \ {s}
      BY <1>0, <3>1, <3>2, KeeperMoves
    <3>4. Holders(i)' = Holders(i)
      BY <3>1, <3>3 DEF Holders
    <3>5. s \notin Counting(i)
      BY <3>2, QueueAssumption DEF Counting
    <3>6. CASE i = j
      <4>0. Counting(i)' = Counting(i) \cup {s}
        BY <3>1, <3>3, <3>6
      <4>1. Cardinality(Counting(i))' = Cardinality(Counting(i)) + 1
        <5>1. IsFiniteSet(Counting(i))
          BY <1>0
        <5>2. Cardinality(Counting(i) \cup {s}) = Cardinality(Counting(i)) + 1
          BY <3>5, <5>1, FS_AddElement
        <5> QED
          BY <4>0, <5>2
      <4>2. reminders'[i] = reminders[i] + 1
        BY <1>0, <3>2, <3>6
      <4> QED
        BY <1>0, <3>2, <3>4, <4>1, <4>2 DEF ReminderInv
    <3>7. CASE i # j
      <4>1. Counting(i)' = Counting(i)
        BY <3>1, <3>3, <3>5, <3>7
      <4>2. reminders'[i] = reminders[i]
        BY <1>0, <3>2, <3>7
      <4> QED
        BY <1>0, <3>2, <3>4, <4>1, <4>2 DEF ReminderInv
    <3> QED
      BY <3>6, <3>7
  <2>3. ASSUME NEW j \in Invitations, ReminderFails(s, j)
        PROVE  ReminderInv(i)'
    <3>1. /\ keeper[s].at = None /\ UNCHANGED <<reminder_count, reminders, lost>>
      BY <2>0, <2>3 DEF ReminderFails, KeeperInv
    <3>2. PICK k \in KeeperType : /\ KeeperGoes(s, k) /\ k.todo = keeper[s].todo \ {j}
                                  /\ k.at = None
      BY <1>0, <2>3, DoneWith DEF ReminderFails
    <3>3. /\ Cardinality(Holders(i))' \in Nat /\ Cardinality(Holders(i))' <= Cardinality(Holders(i))
          /\ Cardinality(Counting(i))' = Cardinality(Counting(i))
      BY <1>0, <3>1, <3>2, LetGo, QueueAssumption
    <3> QED
      BY <1>0, <3>1, <3>3 DEF ReminderInv
  <2>4. CASE CountReminder(s)
    <3>1. /\ keeper[s].at # None /\ keeper[s].at \in keeper[s].todo
          /\ keeper[s].at \in Invitations
          /\ reminder_count' = [reminder_count EXCEPT ![keeper[s].at] = @ + 1]
          /\ UNCHANGED <<reminders, lost>>
      BY <2>0, <2>4 DEF CountReminder, KeeperInv, KeeperType
    <3>2. PICK k \in KeeperType : /\ KeeperGoes(s, k) /\ k.todo = keeper[s].todo \ {keeper[s].at}
                                  /\ k.at = None
      BY <1>0, <2>4, DoneWith DEF CountReminder
    <3>3. /\ Cardinality(Holders(i))' \in Nat /\ Cardinality(Holders(i))' <= Cardinality(Holders(i))
          /\ i = keeper[s].at => Cardinality(Holders(i))' = Cardinality(Holders(i)) - 1
          /\ Cardinality(Counting(i))' = IF keeper[s].at = i THEN Cardinality(Counting(i)) - 1
                                         ELSE Cardinality(Counting(i))
      BY <1>0, <3>1, <3>2, LetGo
    <3>4. reminder_count'[i] = IF i = keeper[s].at THEN reminder_count[i] + 1
                               ELSE reminder_count[i]
      BY <1>0, <3>1
    <3> QED
      BY <1>0, <3>1, <3>3, <3>4 DEF ReminderInv
  <2>5. CASE CountFails(s) \/ KeeperCrashes(s)
    <3>1. /\ UNCHANGED <<reminder_count, reminders>>
          /\ \/ keeper[s].at = None /\ UNCHANGED lost
             \/ keeper[s].at # None /\ lost' = [lost EXCEPT ![keeper[s].at] = @ + 1]
      BY <2>0, <2>5 DEF CountFails, KeeperCrashes, KeeperInv
    <3>2. PICK k \in KeeperType : /\ KeeperGoes(s, k) /\ k.todo \subseteq keeper[s].todo
                                  /\ k.at = None
      <4>1. CASE CountFails(s)
        BY <1>0, <4>1, DoneWith DEF CountFails
      <4>2. CASE KeeperCrashes(s)
        <5>1. IdleKeeper \in KeeperType /\ IdleKeeper.todo = {} /\ IdleKeeper.at = None
          BY DEF IdleKeeper, KeeperType
        <5> QED
          BY <4>2, <5>1 DEF KeeperCrashes
      <4> QED
        BY <2>5, <4>1, <4>2
    <3>3. /\ Cardinality(Holders(i))' \in Nat /\ Cardinality(Holders(i))' <= Cardinality(Holders(i))
          /\ Cardinality(Counting(i))' = IF keeper[s].at = i THEN Cardinality(Counting(i)) - 1
                                         ELSE Cardinality(Counting(i))
      BY <1>0, <3>2, LetGo
    <3>4. lost'[i] = IF keeper[s].at = i THEN lost[i] + 1 ELSE lost[i]
      BY <1>0, <3>1, QueueAssumption
    <3> QED
      BY <1>0, <3>1, <3>3, <3>4 DEF ReminderInv
  <2> QED
    BY <1>2, <2>1, <2>2, <2>3, <2>4, <2>5 DEF KeeperStep
<1> QED
  BY <1>1, <1>2 DEF Next

---------------------------------------------------------------------------
(* Main results *)

LEMMA InitEstablishes == Init => IInv
<1> SUFFICES ASSUME Init PROVE IInv
  OBVIOUS
<1> USE DEF Init
<1>1. TypeOK
  BY QueueAssumption DEF TypeOK, IdleWorker, IdleKeeper
<1>2. (\A s \in Workers : WorkerInv(s)) /\ \A s \in Keepers : KeeperInv(s)
  BY DEF WorkerInv, KeeperInv, IdleWorker, IdleKeeper
<1>3. ASSUME NEW i \in Invitations
      PROVE  ReminderInv(i)
  <2>1. Holders(i) = {} /\ Counting(i) = {}
    BY QueueAssumption DEF Holders, Counting, IdleKeeper
  <2>2. Cardinality(Holders(i)) = 0 /\ Cardinality(Counting(i)) = 0 /\ Cardinality(Keepers) \in Nat
    BY <2>1, QueueAssumption, FS_EmptySet, FS_CardinalityType
  <2> QED
    BY <2>2 DEF ReminderInv
<1> QED
  BY <1>1, <1>2, <1>3 DEF IInv, CoreInv

LEMMA StepKeeps == IInv /\ [Next]_vars => IInv'
<1> SUFFICES ASSUME IInv, [Next]_vars PROVE IInv'
  OBVIOUS
<1>1. CoreInv'
  BY WorkerCore, KeeperCore, OtherCore DEF IInv, Next
<1> QED
  BY <1>1, ReminderStep DEF IInv

(* The inductive invariant holds in every reachable state, with or without  *)
(* fairness.                                                                *)
THEOREM Invariance == Spec => []IInv
<1> QED
  BY InitEstablishes, StepKeeps, PTL DEF Spec

(* Every variable of the queue, its workers and the keepers keeps its type; *)
(* in particular only wallets that are registered are online.               *)
THEOREM TypeCorrect == Spec => []TypeOK
<1>1. IInv => TypeOK
  BY DEF IInv, CoreInv
<1> QED
  BY <1>1, Invariance, PTL

(* With any number of keepers that select, send, count, fail and crash in   *)
(* any order, an invitation is reminded of at most once per keeper and once *)
(* for every count that was lost, and no reminder is counted that was not   *)
(* sent.                                                                    *)
THEOREM RemindersBounded == Spec => []RemindersAreBounded
<1>1. ASSUME IInv, NEW i \in Invitations
      PROVE  /\ reminder_count[i] <= reminders[i]
             /\ reminders[i] <= Cardinality(Keepers) + lost[i]
  <2>1. /\ reminder_count[i] \in Nat /\ reminders[i] \in Nat /\ lost[i] \in Nat
        /\ Cardinality(Keepers) \in Nat
        /\ IsFiniteSet(Holders(i)) /\ Cardinality(Holders(i)) \in Nat
        /\ Cardinality(Counting(i)) \in Nat
    BY <1>1, ReminderTypes DEF IInv, CoreInv
  <2>2. Counting(i) \subseteq Holders(i)
    BY <1>1, QueueAssumption DEF Counting, Holders, IInv, CoreInv, KeeperInv
  <2>3. Cardinality(Counting(i)) <= Cardinality(Holders(i))
    BY <2>1, <2>2, FS_Subset
  <2> QED
    BY <1>1, <2>1, <2>3 DEF IInv, ReminderInv
<1>2. IInv => RemindersAreBounded
  BY <1>1 DEF RemindersAreBounded
<1> QED
  BY <1>2, Invariance, PTL
=============================================================================
