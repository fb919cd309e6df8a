------------------------- MODULE NotificationQueue -------------------------
(***************************************************************************)
(* notification_queue and the worker that empties it                        *)
(* (services/notification.rs, workers/notification_worker.rs), and the      *)
(* other sender of email: scan 1 of the keeper, the invitation reminders    *)
(* (workers/keeper.rs).  Each server process runs one of each; the two only *)
(* share the process, so its crash is a crash of both.                      *)
(*                                                                         *)
(* A job is delivered at least once at best: telling the recipient and      *)
(* recording it are separate steps, and so are a reminder and its count.    *)
(***************************************************************************)
EXTENDS OldestFirst

CONSTANTS
    Jobs,         \* notification_queue.id
    Pubkeys,      \* wallets that are told something
    Invitations,  \* party_invitations.id
    Workers,      \* notification workers, one in each server process
    Keepers,      \* keepers, one in each server process
    None,         \* no recipient yet, no invitation
    BatchLimit,   \* the argument of fetch_pending_jobs
    MaxTime,      \* last second of the clock
    MaxAttempts,  \* attempts are counted up to here; the code never reads them
    MaxLost,      \* bound on the reminders whose UPDATE is lost
    MaxCrashes    \* bound on the crashes of a behaviour

ASSUME QueueAssumption ==
    /\ None \notin Pubkeys \cup Invitations
    /\ IsFiniteSet(Jobs) /\ IsFiniteSet(Keepers)
    /\ BatchLimit \in Nat \ {0} /\ MaxAttempts \in Nat \ {0}
    /\ MaxTime \in Nat /\ MaxLost \in Nat /\ MaxCrashes \in Nat

VARIABLES
    now,             \* the clock that scheduled_at is taken from
    status,          \* notification_queue.status
    scheduled_at,    \* notification_queue.scheduled_at
    recipient,       \* notification_queue.recipient_pubkey
    attempts,        \* notification_queue.attempts
    told,            \* jobs whose recipient was told, over a socket or by email
    written_off,     \* jobs treated as delivered although nobody was told
    wallets,         \* pubkeys in auth_wallet
    online,          \* pubkeys whose user has a registered, live WebSocket
    worker,          \* where the notification worker of each server is
    invitation,      \* "fresh", "due" for a reminder, or "closed"
    reminder_count,  \* party_invitations.reminder_count
    reminders,       \* reminders sent
    lost,            \* reminders sent whose UPDATE never happened
    keeper,          \* where scan 1 of each server is
    crashes          \* crashes so far

outcomeVars  == <<told, written_off>>
queueVars    == <<status, scheduled_at, recipient, attempts, outcomeVars, worker>>
userVars     == <<wallets, online>>
reminderVars == <<invitation, reminder_count, reminders, lost, keeper>>
vars == <<now, queueVars, userVars, reminderVars, crashes>>

---------------------------------------------------------------------------
(* Types *)

IdleWorker == [pc |-> "idle", batch |-> <<>>, delivered |-> FALSE]
IdleKeeper == [pc |-> "idle", todo |-> {}, at |-> None]

TypeOK ==
    /\ now \in 0..MaxTime
    /\ status \in [Jobs -> {"absent", "pending", "sent"}]
    /\ scheduled_at \in [Jobs -> 0..MaxTime]
    /\ recipient \in [Jobs -> Pubkeys \cup {None}]
    /\ attempts \in [Jobs -> 0..MaxAttempts]
    /\ told \subseteq Jobs /\ written_off \subseteq Jobs
    /\ online \subseteq wallets /\ wallets \subseteq Pubkeys
    /\ worker \in [Workers -> [pc : {"idle", "lookup", "email", "record"},
                               batch : Seq(Jobs), delivered : BOOLEAN]]
    /\ invitation \in [Invitations -> {"fresh", "due", "closed"}]
    /\ reminder_count \in [Invitations -> Nat]
    /\ reminders \in [Invitations -> Nat]
    /\ lost \in [Invitations -> 0..MaxLost]
    /\ keeper \in [Keepers -> [pc : {"idle", "send", "count"},
                               todo : SUBSET Invitations, at : Invitations \cup {None}]]
    /\ crashes \in 0..MaxCrashes

---------------------------------------------------------------------------
(* Plausible slips in the code below; nothing here is part of the           *)
(* specification.                                                           *)
Mutant_latest_first == {jk \in Jobs \X Jobs : scheduled_at[jk[1]] > scheduled_at[jk[2]]}
Mutant_enqueue_wrong_argument(j, p) ==
    /\ status[j] = "absent"
    /\ status' = [status EXCEPT ![j] = "pending"]
    /\ scheduled_at' = [scheduled_at EXCEPT ![j] = now]
    /\ recipient' = [recipient EXCEPT ![j] = j]
    /\ UNCHANGED <<now, attempts, outcomeVars, worker, userVars, reminderVars, crashes>>
Mutant_reminded_before_forgotten(i) == invitation[i] = "due"

---------------------------------------------------------------------------
(* services/notification.rs *)

Pending == {j \in Jobs : status[j] = "pending"}

(* fetch_pending_jobs: ORDER BY scheduled_at ASC LIMIT BatchLimit. *)
Before == {jk \in Pending \X Pending : scheduled_at[jk[1]] < scheduled_at[jk[2]]}
fetch_pending_jobs == Batches(Pending, Before, BatchLimit)

(* mark_sent sets two columns; the migrated table has no sent_at, so the    *)
(* statement is refused.                                                    *)
NotificationQueueColumns == {"id", "event_type", "agreement_pda", "recipient_pubkey",
                             "status", "attempts", "created_at", "scheduled_at"}
MarkSentColumns == {"status", "sent_at", "id"}
mark_sent_succeeds == MarkSentColumns \subseteq NotificationQueueColumns

increment_attempts(j) ==
    [attempts EXCEPT ![j] = IF @ < MaxAttempts THEN @ + 1 ELSE @]

(* What is recorded of a job that counts as delivered. *)
mark_sent(j) ==
    /\ status' = IF mark_sent_succeeds THEN [status EXCEPT ![j] = "sent"] ELSE status
    /\ attempts' = IF mark_sent_succeeds THEN attempts ELSE increment_attempts(j)

(* enqueue_notification; every caller passes a type the worker knows and a  *)
(* pda or draft id.                                                         *)
EnqueueNotification(j, p) ==
    /\ status[j] = "absent"
    /\ status' = [status EXCEPT ![j] = "pending"]
    /\ scheduled_at' = [scheduled_at EXCEPT ![j] = now]
    /\ recipient' = [recipient EXCEPT ![j] = p]
    /\ UNCHANGED <<now, attempts, outcomeVars, worker, userVars, reminderVars, crashes>>

---------------------------------------------------------------------------
(* notification_worker: one pass of run *)

WorkerGoes(s, w) == worker' = [worker EXCEPT ![s] = w]
Job(s) == Head(worker[s].batch)

NextJob(s) ==
    WorkerGoes(s, IF Len(worker[s].batch) = 1 THEN IdleWorker
                  ELSE [pc |-> "lookup", batch |-> Tail(worker[s].batch), delivered |-> FALSE])

Fetch(s) ==
    /\ worker[s].pc = "idle" /\ Pending # {}
    /\ \E b \in fetch_pending_jobs :
           WorkerGoes(s, [pc |-> "lookup", batch |-> b, delivered |-> FALSE])
    /\ UNCHANGED <<now, status, scheduled_at, recipient, attempts, outcomeVars, userVars,
                   reminderVars, crashes>>

(* lookup_user_id finds the user; build_ws_event, send_to_user. *)
SendToUser(s) ==
    LET j == Job(s)  ws_delivered == recipient[j] \in online IN
    /\ worker[s].pc = "lookup"
    /\ recipient[j] \in wallets
    /\ told' = IF ws_delivered THEN told \cup {j} ELSE told
    /\ WorkerGoes(s, [worker[s] EXCEPT !.pc = "email", !.delivered = ws_delivered])
    /\ UNCHANGED <<now, status, scheduled_at, recipient, attempts, written_off, userVars, reminderVars,
                   crashes>>

(* lookup_user_id finds nobody, or its query fails: recorded like a         *)
(* delivery.                                                                *)
NoUserFound(s) ==
    /\ worker[s].pc = "lookup"
    /\ WorkerGoes(s, [worker[s] EXCEPT !.pc = "record", !.delivered = TRUE])
    /\ written_off' = written_off \cup ({Job(s)} \ told)
    /\ UNCHANGED <<now, status, scheduled_at, recipient, attempts, told, userVars,
                   reminderVars, crashes>>

(* lookup_user_email and send_email, with the address the user has or has   *)
(* not by now: sent, *)
EmailSent(s) ==
    /\ worker[s].pc = "email"
    /\ told' = told \cup {Job(s)}
    /\ WorkerGoes(s, [worker[s] EXCEPT !.pc = "record", !.delivered = TRUE])
    /\ UNCHANGED <<now, status, scheduled_at, recipient, attempts, written_off, userVars, reminderVars,
                   crashes>>

(* refused by the provider, *)
EmailFails(s) ==
    /\ worker[s].pc = "email"
    /\ WorkerGoes(s, [worker[s] EXCEPT !.pc = "record"])
    /\ UNCHANGED <<now, status, scheduled_at, recipient, attempts, outcomeVars, userVars,
                   reminderVars, crashes>>

(* or no address was found, because there is none or because a query or the *)
(* decryption failed: this counts as a success.                             *)
NoEmailFound(s) ==
    /\ worker[s].pc = "email"
    /\ WorkerGoes(s, [worker[s] EXCEPT !.pc = "record", !.delivered = TRUE])
    /\ written_off' = written_off \cup ({Job(s)} \ told)
    /\ UNCHANGED <<now, status, scheduled_at, recipient, attempts, told, userVars,
                   reminderVars, crashes>>

Record(s) ==
    /\ worker[s].pc = "record"
    /\ \/ worker[s].delivered /\ mark_sent(Job(s))
       \/ ~worker[s].delivered /\ attempts' = increment_attempts(Job(s)) /\ UNCHANGED status
    /\ NextJob(s)
    /\ UNCHANGED <<now, scheduled_at, recipient, outcomeVars, userVars, reminderVars, crashes>>

(* The statements of Record fail; both are only logged. *)
RecordFails(s) ==
    /\ worker[s].pc = "record"
    /\ NextJob(s)
    /\ UNCHANGED <<now, status, scheduled_at, recipient, attempts, outcomeVars, userVars,
                   reminderVars, crashes>>

---------------------------------------------------------------------------
(* keeper: send_invitation_reminders *)

KeeperGoes(s, k) == keeper' = [keeper EXCEPT ![s] = k]

(* The SELECT: pending, old enough and never reminded, *)
NeedsReminder(i) == invitation[i] = "due" /\ reminder_count[i] = 0

(* as far as the creator of the draft has an email.                         *)
ReminderScan(s) ==
    /\ keeper[s].pc = "idle"
    /\ \E found \in SUBSET {i \in Invitations : NeedsReminder(i)} \ {{}} :
           KeeperGoes(s, [pc |-> "send", todo |-> found, at |-> None])
    /\ UNCHANGED <<now, queueVars, userVars, invitation, reminder_count, reminders, lost, crashes>>

NextReminder(s, i) ==
    LET rest == keeper[s].todo \ {i} IN
    KeeperGoes(s, IF rest = {} THEN IdleKeeper ELSE [pc |-> "send", todo |-> rest, at |-> None])

ReminderSent(s, i) ==
    /\ keeper[s].pc = "send" /\ i \in keeper[s].todo
    /\ reminders' = [reminders EXCEPT ![i] = @ + 1]
    /\ KeeperGoes(s, [keeper[s] EXCEPT !.pc = "count", !.at = i])
    /\ UNCHANGED <<now, queueVars, userVars, invitation, reminder_count, lost, crashes>>

ReminderFails(s, i) ==
    /\ keeper[s].pc = "send" /\ i \in keeper[s].todo
    /\ NextReminder(s, i)
    /\ UNCHANGED <<now, queueVars, userVars, invitation, reminder_count, reminders, lost, crashes>>

CountReminder(s) ==
    /\ keeper[s].pc = "count"
    /\ reminder_count' = [reminder_count EXCEPT ![keeper[s].at] = @ + 1]
    /\ NextReminder(s, keeper[s].at)
    /\ UNCHANGED <<now, queueVars, userVars, invitation, reminders, lost, crashes>>

CountFails(s) ==
    LET i == keeper[s].at IN
    /\ keeper[s].pc = "count" /\ lost[i] < MaxLost
    /\ lost' = [lost EXCEPT ![i] = @ + 1]
    /\ NextReminder(s, i)
    /\ UNCHANGED <<now, queueVars, userVars, invitation, reminder_count, reminders, crashes>>

---------------------------------------------------------------------------
(* The process stops and is started again: the tables stay. *)
WorkerCrashes(s) ==
    /\ crashes < MaxCrashes
    /\ crashes' = crashes + 1
    /\ WorkerGoes(s, IdleWorker)
    /\ UNCHANGED <<now, status, scheduled_at, recipient, attempts, outcomeVars, userVars, reminderVars>>

KeeperCrashes(s) ==
    LET i == keeper[s].at IN
    /\ crashes < MaxCrashes
    /\ crashes' = crashes + 1
    /\ KeeperGoes(s, IdleKeeper)
    /\ \/ i = None /\ UNCHANGED lost
       \/ i # None /\ lost[i] < MaxLost /\ lost' = [lost EXCEPT ![i] = @ + 1]
    /\ UNCHANGED <<now, queueVars, userVars, invitation, reminder_count, reminders>>

(* Everybody else: sign-ins, sockets, accepts and expiry. *)
Register(p) ==
    /\ p \notin wallets
    /\ wallets' = wallets \cup {p}
    /\ UNCHANGED <<now, queueVars, online, reminderVars, crashes>>

ChangeOnline(p) ==
    /\ p \in wallets
    /\ online' = IF p \in online THEN online \ {p} ELSE online \cup {p}
    /\ UNCHANGED <<now, queueVars, wallets, reminderVars, crashes>>

InvitationAges(i) ==
    /\ \/ invitation[i] = "fresh" /\ invitation' = [invitation EXCEPT ![i] = "due"]
       \/ invitation[i] # "closed" /\ invitation' = [invitation EXCEPT ![i] = "closed"]
    /\ UNCHANGED <<now, queueVars, userVars, reminder_count, reminders, lost, keeper, crashes>>

Tick ==
    /\ now < MaxTime
    /\ now' = now + 1
    /\ UNCHANGED <<queueVars, userVars, reminderVars, crashes>>

---------------------------------------------------------------------------
Init ==
    /\ now = 0
    /\ status = [j \in Jobs |-> "absent"]
    /\ scheduled_at = [j \in Jobs |-> 0]
    /\ recipient = [j \in Jobs |-> None]
    /\ attempts = [j \in Jobs |-> 0]
    /\ told = {} /\ written_off = {} /\ wallets = {} /\ online = {}
    /\ worker = [s \in Workers |-> IdleWorker]
    /\ invitation = [i \in Invitations |-> "fresh"]
    /\ reminder_count = [i \in Invitations |-> 0]
    /\ reminders = [i \in Invitations |-> 0]
    /\ lost = [i \in Invitations |-> 0]
    /\ keeper = [s \in Keepers |-> IdleKeeper]
    /\ crashes = 0

WorkerStep(s) ==
    \/ Fetch(s) \/ SendToUser(s) \/ NoUserFound(s)
    \/ EmailSent(s) \/ EmailFails(s) \/ NoEmailFound(s)
    \/ Record(s) \/ RecordFails(s)

KeeperStep(s) ==
    \/ ReminderScan(s)
    \/ \E i \in Invitations : ReminderSent(s, i) \/ ReminderFails(s, i)
    \/ CountReminder(s) \/ CountFails(s)

UserStep ==
    \/ \E j \in Jobs, p \in Pubkeys : EnqueueNotification(j, p)
    \/ \E p \in Pubkeys : Register(p) \/ ChangeOnline(p)
    \/ \E i \in Invitations : InvitationAges(i)
    \/ Tick

Next ==
    \/ UserStep
    \/ \E s \in Workers : WorkerStep(s) \/ WorkerCrashes(s)
    \/ \E s \in Keepers : KeeperStep(s) \/ KeeperCrashes(s)

Spec == Init /\ [][Next]_vars

(* The worker's interval fires and its loop goes on; the statement that     *)
(* records an attempt at a job, made over and over, does not always fail.   *)
FairSpec ==
    /\ Spec
    /\ \A s \in Workers :
           /\ WF_vars(WorkerStep(s))
           /\ \A j \in Jobs : SF_vars(Record(s) /\ Job(s) = j)

---------------------------------------------------------------------------
(* Properties *)

(* A job is in every batch when fewer than BatchLimit others are as old. *)
IsOld(j) ==
    /\ status[j] # "absent"
    /\ Cardinality({k \in Pending \ {j} : scheduled_at[k] <= scheduled_at[j]}) < BatchLimit

(* A job among the oldest whose recipient stays online is not passed over:  *)
(* after whatever emails, statements and processes failed before, the       *)
(* recipient is told - unless the worker wrote the job off, because its     *)
(* lookup of the user or of the address found nobody or failed ("skipping   *)
(* job"), which the code does not tell from a delivery.                     *)
OldJobIsToldOrWrittenOff ==
    \A j \in Jobs :
        <>[](IsOld(j) /\ recipient[j] \in online) => <>(j \in told \cup written_off)

(* Sending first and counting afterwards repeats reminders, but only so     *)
(* often: one per keeper that had selected the invitation, and one for      *)
(* every count that was lost.                                               *)
RemindersAreBounded ==
    \A i \in Invitations :
        /\ reminder_count[i] <= reminders[i]
        /\ reminders[i] <= Cardinality(Keepers) + lost[i]

(* What the documents say that the code does not do. *)

(* "Polls notification_queue every 5 seconds.  For each pending job: [...]  *)
(* Mark as sent on success, increment attempts on failure": a job that      *)
(* waits is tried.                                                          *)
EveryPendingJobIsTried ==
    \A j \in Jobs : status[j] = "pending" ~> attempts[j] > 0 \/ status[j] = "sent"
=============================================================================
