--------------------------- MODULE PaymentRefund ---------------------------
(***************************************************************************)
(* agreement_payments and everybody who changes its status:                 *)
(*                                                                         *)
(*   - confirm_payment_atomic (services/solana_pay.rs);                     *)
(*   - scans 5 and 6 of the keeper, which expire a payment that did not     *)
(*     arrive in time and mark one that arrived late for refund             *)
(*     (workers/keeper.rs);                                                 *)
(*   - the listener, which marks the payment of a cancelled or expired      *)
(*     agreement for refund (initiate_refund_if_eligible);                  *)
(*   - the refund worker, which pays back what is marked                    *)
(*     (workers/refund_worker.rs, services/refund.rs).                      *)
(*                                                                         *)
(* Each server process runs all of them.  Two of the writers read a row,    *)
(* await, and then write by id only; the worker pays before it records; and *)
(* every submission of a draft draws a new agreement address and links the  *)
(* draft's confirmed payments to it, also when they were linked before.     *)
(*                                                                         *)
(* No row can be inserted by this build (see InsertPaymentSucceeds of       *)
(* FreeTier) and confirm_payment_atomic has no caller: InsertPayment and    *)
(* ConfirmPayment stand for the poller and the INSERT the code is written   *)
(* for.                                                                     *)
(***************************************************************************)
EXTENDS OldestFirst

CONSTANTS
    Payments,    \* agreement_payments.id
    Drafts,      \* agreement_drafts.id
    Agreements,  \* agreement addresses that submissions draw
    Servers,     \* server processes
    None,        \* no payment, no draft, no address
    PayWindow,   \* the 900 seconds of scan 5
    LateWindow,  \* the 3600 seconds of scan 6
    RowLimit,    \* the LIMIT of process_pending_refunds
    MaxParties,  \* parties of an agreement
    MaxTime,     \* last second of the clock
    MaxCrashes   \* bound on the crashes of a behaviour

ASSUME PaymentAssumption ==
    /\ None \notin Payments /\ None \notin Drafts /\ None \notin Agreements
    /\ IsFiniteSet(Payments) /\ IsFiniteSet(Servers)
    /\ PayWindow \in Nat /\ LateWindow \in Nat /\ MaxTime \in Nat /\ MaxCrashes \in Nat
    /\ RowLimit \in Nat \ {0} /\ MaxParties \in Nat \ {0}

VARIABLES
    now,                  \* the clock
    status,               \* agreement_payments.status
    draft_id,             \* agreement_payments.draft_id
    created_at,           \* agreement_payments.created_at
    confirmed,            \* payments with confirmed_at set
    refund_initiated_at,  \* agreement_payments.refund_initiated_at
    agreement_pda,        \* agreement_payments.agreement_pda
    paid,                 \* payments whose transfer landed
    submitted,            \* the draft each address was drawn for
    parties,              \* its rows in agreement_parties
    reported,             \* agreements some log said were cancelled or expired
    keeper,               \* where scans 5 and 6 of each server are
    listener,             \* the payment each server's listener is about to mark
    worker,               \* where the refund worker of each server is
    opened,               \* how often a payment was marked for refund
    transferred,          \* payments with a refund transfer an RPC node accepted
    crashes               \* crashes so far

rowVars   == <<status, draft_id, created_at, confirmed, refund_initiated_at, agreement_pda>>
chainVars == <<paid, submitted, parties, reported>>
countVars == <<opened, transferred>>
vars == <<now, rowVars, chainVars, keeper, listener, worker, countVars, crashes>>

---------------------------------------------------------------------------
(* Types *)

PaymentStatus == {"absent", "pending", "confirmed", "expired", "refund_pending", "refunded"}

IdleKeeper == [pc |-> "idle", todo |-> {}, at |-> None]
IdleWorker == [pc |-> "idle", batch |-> <<>>]

TypeOK ==
    /\ now \in 0..MaxTime
    /\ status \in [Payments -> PaymentStatus]
    /\ created_at \in [Payments -> 0..MaxTime]
    /\ refund_initiated_at \in [Payments -> 0..MaxTime]
    /\ draft_id \in [Payments -> Drafts \cup {None}]
    /\ agreement_pda \in [Payments -> Agreements \cup {None}]
    /\ confirmed \subseteq Payments /\ paid \subseteq Payments
    /\ submitted \in [Agreements -> Drafts \cup {None}]
    /\ parties \in [Agreements -> 0..MaxParties]
    /\ reported \subseteq Agreements
    /\ keeper \in [Servers -> [pc : {"idle", "select", "check", "mark", "disabled"},
                               todo : SUBSET Payments, at : Payments \cup {None}]]
    /\ listener \in [Servers -> Payments \cup {None}]
    /\ worker \in [Servers -> [pc : {"idle", "transfer", "record"},
                               batch : Seq(Payments \X (1..MaxParties))]]
    /\ opened \in [Payments -> Nat] /\ transferred \subseteq Payments
    /\ crashes \in 0..MaxCrashes

---------------------------------------------------------------------------
(* Plausible slips in the code below; nothing here is part of the           *)
(* specification.                                                           *)
Mutant_TimedOut_any_unrefunded(p) ==
    status[p] \in {"pending", "confirmed"} /\ created_at[p] + PayWindow < now
Mutant_MayBeLate_or_open(p) ==
    status[p] \in {"expired", "refund_pending"} /\ created_at[p] + LateWindow > now
Mutant_mark_as_refunding(p) == [status EXCEPT ![p] = "refunding"]
Mutant_Linkable_unconfirmed(p, d) == draft_id[p] = d

---------------------------------------------------------------------------
(* The statements *)

(* WHERE status = 'pending' AND created_at < now - 900 *)
TimedOut(p) == status[p] = "pending" /\ created_at[p] + PayWindow < now

(* WHERE status = 'expired' AND created_at > now - 3600 *)
MayBeLate(p) == status[p] = "expired" /\ created_at[p] + LateWindow > now

(* WHERE draft_id = ... AND status = 'confirmed' *)
Linkable(p, d) == draft_id[p] = d /\ status[p] = "confirmed"

(* WHERE agreement_pda = ... AND status = 'confirmed' *)
Refundable(p, a) == agreement_pda[p] = a /\ status[p] = "confirmed"

(* SET status = 'refund_pending' WHERE id = ..., in scan 6 and in the       *)
(* listener: whatever the status is by now.                                 *)
refund_pending(p) == [status EXCEPT ![p] = "refund_pending"]

MarkForRefund(p) ==
    /\ status' = refund_pending(p)
    /\ refund_initiated_at' = [refund_initiated_at EXCEPT ![p] = now]
    /\ opened' = [opened EXCEPT ![p] = @ + 1]

(* SET status = 'refunded' WHERE id = ... AND status = 'refund_pending' *)
refunded(p) == [status EXCEPT ![p] = IF @ = "refund_pending" THEN "refunded" ELSE @]

(* The rows of process_pending_refunds: the JOIN has one for every party of *)
(* the agreement, and none for a payment without one.                       *)
Joined(p) == status[p] = "refund_pending" /\ agreement_pda[p] # None
RefundRows ==
    UNION {{<<p, k>> : k \in 1..parties[agreement_pda[p]]} : p \in {q \in Payments : Joined(q)}}
Before ==
    {rq \in RefundRows \X RefundRows :
        refund_initiated_at[rq[1][1]] < refund_initiated_at[rq[2][1]]}
RefundBatches == Batches(RefundRows, Before, RowLimit)

---------------------------------------------------------------------------
(* The payer, the poller and the draft *)

InsertPayment(p, d) ==
    /\ status[p] = "absent"
    /\ status' = [status EXCEPT ![p] = "pending"]
    /\ draft_id' = [draft_id EXCEPT ![p] = d]
    /\ created_at' = [created_at EXCEPT ![p] = now]
    /\ UNCHANGED <<now, confirmed, refund_initiated_at, agreement_pda, chainVars, keeper,
                   listener, worker, countVars, crashes>>

(* The payer's transfer lands, however late. *)
Pay(p) ==
    /\ status[p] # "absent" /\ p \notin paid
    /\ paid' = paid \cup {p}
    /\ UNCHANGED <<now, rowVars, submitted, parties, reported, keeper, listener, worker,
                   countVars, crashes>>

(* confirm_payment_atomic: one UPDATE ... WHERE status = 'pending'. *)
ConfirmPayment(p) ==
    /\ p \in paid /\ status[p] = "pending"
    /\ status' = [status EXCEPT ![p] = "confirmed"]
    /\ confirmed' = confirmed \cup {p}
    /\ UNCHANGED <<now, draft_id, created_at, refund_initiated_at, agreement_pda, chainVars,
                   keeper, listener, worker, countVars, crashes>>

(* submit_draft draws a fresh agreement_id each time it is called; its last *)
(* statement links the draft's confirmed payments to the new address, and   *)
(* its answer is what makes the address known.                              *)
SubmitDraft(d, a) ==
    /\ submitted[a] = None
    /\ submitted' = [submitted EXCEPT ![a] = d]
    /\ agreement_pda' = [p \in Payments |-> IF Linkable(p, d) THEN a ELSE agreement_pda[p]]
    /\ UNCHANGED <<now, status, draft_id, created_at, confirmed, refund_initiated_at, paid,
                   parties, reported, keeper, listener, worker, countVars, crashes>>

(* handle_create_agreement of some listener inserts a party. *)
IndexParty(a) ==
    /\ submitted[a] # None /\ parties[a] < MaxParties
    /\ parties' = [parties EXCEPT ![a] = @ + 1]
    /\ UNCHANGED <<now, rowVars, paid, submitted, reported, keeper, listener, worker, countVars,
                   crashes>>

(* A log says that the agreement was cancelled or expired, truly or not     *)
(* (MisleadingLog of AgreementIndex).                                       *)
EndIsReported(a) ==
    /\ submitted[a] # None /\ a \notin reported
    /\ reported' = reported \cup {a}
    /\ UNCHANGED <<now, rowVars, paid, submitted, parties, keeper, listener, worker, countVars,
                   crashes>>

---------------------------------------------------------------------------
(* The listener: initiate_refund_if_eligible *)

ListenerGoes(s, p) == listener' = [listener EXCEPT ![s] = p]

(* The log reaches this server, if it does, however late, and a log like it *)
(* may follow.  fetch_optional takes one of the agreement's confirmed       *)
(* payments, whichever comes first.                                         *)
RefundSelect(s, a, p) ==
    /\ a \in reported /\ listener[s] = None
    /\ Refundable(p, a)
    /\ ListenerGoes(s, p)
    /\ UNCHANGED <<now, rowVars, chainVars, keeper, worker, countVars, crashes>>

RefundMark(s) ==
    /\ listener[s] # None
    /\ MarkForRefund(listener[s])
    /\ ListenerGoes(s, None)
    /\ UNCHANGED <<now, draft_id, created_at, confirmed, agreement_pda, chainVars, keeper, worker,
                   transferred, crashes>>

(* The handler fails before or at the UPDATE; nothing repeats it. *)
RefundMarkFails(s) ==
    /\ listener[s] # None
    /\ ListenerGoes(s, None)
    /\ UNCHANGED <<now, rowVars, chainVars, keeper, worker, countVars, crashes>>

---------------------------------------------------------------------------
(* The keeper: scans 5 and 6 *)

KeeperGoes(s, k) == keeper' = [keeper EXCEPT ![s] = k]

(* expire_timed_out_payments, one UPDATE, *)
ExpireTimedOutPayments(s) ==
    /\ keeper[s].pc = "idle"
    /\ status' = [p \in Payments |-> IF TimedOut(p) THEN "expired" ELSE status[p]]
    /\ KeeperGoes(s, [keeper[s] EXCEPT !.pc = "select"])
    /\ UNCHANGED <<now, draft_id, created_at, confirmed, refund_initiated_at, agreement_pda,
                   chainVars, listener, worker, countVars, crashes>>

(* or its failure, which is logged. *)
ExpireFails(s) ==
    /\ keeper[s].pc = "idle"
    /\ KeeperGoes(s, [keeper[s] EXCEPT !.pc = "select"])
    /\ UNCHANGED <<now, rowVars, chainVars, listener, worker, countVars, crashes>>

(* Scan 3 trips the circuit breaker: no later scan of this process runs. *)
KeeperDisabled(s) ==
    /\ keeper[s].pc = "idle"
    /\ KeeperGoes(s, [keeper[s] EXCEPT !.pc = "disabled"])
    /\ UNCHANGED <<now, rowVars, chainVars, listener, worker, countVars, crashes>>

(* reconcile_late_payments: the SELECT; a failed one counts as empty.       *)
LateSelect(s) ==
    /\ keeper[s].pc = "select"
    /\ \E found \in {{}, {p \in Payments : MayBeLate(p)}} :
           KeeperGoes(s, IF found = {} THEN IdleKeeper
                         ELSE [pc |-> "check", todo |-> found, at |-> None])
    /\ UNCHANGED <<now, rowVars, chainVars, listener, worker, countVars, crashes>>

AfterLate(s, p) ==
    LET rest == keeper[s].todo \ {p} IN
    KeeperGoes(s, IF rest = {} THEN IdleKeeper ELSE [pc |-> "check", todo |-> rest, at |-> None])

(* get_account finds an account at the reference key, which has nothing to  *)
(* do with the payment: a transfer that names the key makes no account      *)
(* there, and whoever pays for one may make it;                             *)
ReferenceExists(s, p) ==
    /\ keeper[s].pc = "check" /\ p \in keeper[s].todo
    /\ KeeperGoes(s, [keeper[s] EXCEPT !.pc = "mark", !.at = p])
    /\ UNCHANGED <<now, rowVars, chainVars, listener, worker, countVars, crashes>>

(* or it finds none, or its task fails. *)
ReferenceMissing(s, p) ==
    /\ keeper[s].pc = "check" /\ p \in keeper[s].todo
    /\ AfterLate(s, p)
    /\ UNCHANGED <<now, rowVars, chainVars, listener, worker, countVars, crashes>>

LateMark(s) ==
    /\ keeper[s].pc = "mark"
    /\ MarkForRefund(keeper[s].at)
    /\ AfterLate(s, keeper[s].at)
    /\ UNCHANGED <<now, draft_id, created_at, confirmed, agreement_pda, chainVars, listener, worker,
                   transferred, crashes>>

LateMarkFails(s) ==
    /\ keeper[s].pc = "mark"
    /\ AfterLate(s, keeper[s].at)
    /\ UNCHANGED <<now, rowVars, chainVars, listener, worker, countVars, crashes>>

---------------------------------------------------------------------------
(* refund_worker: one pass of process_pending_refunds *)

WorkerGoes(s, w) == worker' = [worker EXCEPT ![s] = w]
Row(s) == Head(worker[s].batch)[1]

NextRow(s) ==
    WorkerGoes(s, IF Len(worker[s].batch) = 1 THEN IdleWorker
                  ELSE [pc |-> "transfer", batch |-> Tail(worker[s].batch)])

FetchRefunds(s) ==
    /\ worker[s].pc = "idle" /\ RefundRows # {}
    /\ \E b \in RefundBatches : WorkerGoes(s, [pc |-> "transfer", batch |-> b])
    /\ UNCHANGED <<now, rowVars, chainVars, keeper, listener, countVars, crashes>>

(* execute_refund: an RPC node accepts the transfer and answers with its    *)
(* signature; nobody waits for it to land;                                  *)
TransferSent(s) ==
    /\ worker[s].pc = "transfer"
    /\ transferred' = transferred \cup {Row(s)}
    /\ WorkerGoes(s, [worker[s] EXCEPT !.pc = "record"])
    /\ UNCHANGED <<now, rowVars, chainVars, keeper, listener, opened, crashes>>

(* it is refused: a bad key, no token account of the creator, no blockhash, *)
(* no answer to the submission;                                             *)
TransferFails(s) ==
    /\ worker[s].pc = "transfer"
    /\ NextRow(s)
    /\ UNCHANGED <<now, rowVars, chainVars, keeper, listener, countVars, crashes>>

(* or it is accepted and the answer is lost.                                *)
TransferAnswerLost(s) ==
    /\ worker[s].pc = "transfer"
    /\ transferred' = transferred \cup {Row(s)}
    /\ NextRow(s)
    /\ UNCHANGED <<now, rowVars, chainVars, keeper, listener, opened, crashes>>

RecordRefund(s) ==
    /\ worker[s].pc = "record"
    /\ status' = refunded(Row(s))
    /\ NextRow(s)
    /\ UNCHANGED <<now, draft_id, created_at, confirmed, refund_initiated_at, agreement_pda,
                   chainVars, keeper, listener, countVars, crashes>>

(* report_degraded: the payment stays refund_pending. *)
RecordFails(s) ==
    /\ worker[s].pc = "record"
    /\ NextRow(s)
    /\ UNCHANGED <<now, rowVars, chainVars, keeper, listener, countVars, crashes>>

---------------------------------------------------------------------------
(* The process stops and is started again: the table stays, a log that was  *)
(* not handled is not sent again.                                           *)
Crash(s) ==
    /\ crashes < MaxCrashes
    /\ crashes' = crashes + 1
    /\ KeeperGoes(s, IdleKeeper)
    /\ ListenerGoes(s, None)
    /\ WorkerGoes(s, IdleWorker)
    /\ UNCHANGED <<now, rowVars, chainVars, countVars>>

Tick ==
    /\ now < MaxTime
    /\ now' = now + 1
    /\ UNCHANGED <<rowVars, chainVars, keeper, listener, worker, countVars, crashes>>

---------------------------------------------------------------------------
Init ==
    /\ now = 0
    /\ status = [p \in Payments |-> "absent"]
    /\ created_at = [p \in Payments |-> 0]
    /\ refund_initiated_at = [p \in Payments |-> 0]
    /\ draft_id = [p \in Payments |-> None]
    /\ agreement_pda = [p \in Payments |-> None]
    /\ confirmed = {} /\ paid = {} /\ reported = {}
    /\ submitted = [a \in Agreements |-> None]
    /\ parties = [a \in Agreements |-> 0]
    /\ keeper = [s \in Servers |-> IdleKeeper]
    /\ listener = [s \in Servers |-> None]
    /\ worker = [s \in Servers |-> IdleWorker]
    /\ opened = [p \in Payments |-> 0]
    /\ transferred = {}
    /\ crashes = 0

PaymentStep(p) == (\E d \in Drafts : InsertPayment(p, d)) \/ Pay(p) \/ ConfirmPayment(p)

AgreementStep(a) == (\E d \in Drafts : SubmitDraft(d, a)) \/ IndexParty(a) \/ EndIsReported(a)

ListenerStep(s) ==
    \/ \E a \in Agreements, p \in Payments : RefundSelect(s, a, p)
    \/ RefundMark(s) \/ RefundMarkFails(s)

KeeperStep(s) ==
    \/ ExpireTimedOutPayments(s) \/ ExpireFails(s) \/ KeeperDisabled(s)
    \/ LateSelect(s)
    \/ \E p \in Payments : ReferenceExists(s, p) \/ ReferenceMissing(s, p)
    \/ LateMark(s) \/ LateMarkFails(s)

WorkerStep(s) ==
    \/ FetchRefunds(s)
    \/ TransferSent(s) \/ TransferFails(s) \/ TransferAnswerLost(s)
    \/ RecordRefund(s) \/ RecordFails(s)

Next ==
    \/ \E p \in Payments : PaymentStep(p)
    \/ \E a \in Agreements : AgreementStep(a)
    \/ \E s \in Servers : ListenerStep(s) \/ KeeperStep(s) \/ WorkerStep(s) \/ Crash(s)
    \/ Tick

Spec == Init /\ [][Next]_vars

---------------------------------------------------------------------------
(* Properties *)

(* Money goes back only where it came in: whatever the keeper found at a    *)
(* reference key, and however often drafts were submitted and ends          *)
(* reported, nothing is transferred for a payment that never arrived, a     *)
(* confirmed payment is not up for refund unless the end of an agreement of *)
(* its own draft was reported, and no refund is recorded that no node       *)
(* accepted.                                                                *)
OnlyOwedRefunds ==
    \A p \in Payments :
        /\ p \in transferred => p \in paid
        /\ status[p] \in {"refund_pending", "refunded"} /\ p \in confirmed =>
               \E a \in reported : submitted[a] = draft_id[p]
        /\ status[p] = "refunded" => p \in transferred

(* Keeper and listener write by id what they read before an await, so that  *)
(* a refund may be opened again after it was made: but not more often than  *)
(* there are servers, however often they are restarted and the log          *)
(* repeated; a server that runs alone never opens one twice.                *)
RefundsAreOpenedOncePerServer == \A p \in Payments : opened[p] <= Cardinality(Servers)

(* The status machine of a payment: in time it is confirmed, else it        *)
(* expires; what expired or was confirmed may be up for refund, and then be *)
(* refunded.  No stale write of keeper, poller, listener or worker takes a  *)
(* payment any other way, but for the one above: a server that read the row *)
(* before it was refunded reopens it, as long as it was opened less often   *)
(* than there are servers.                                                  *)
StatusMachine ==
    {<<"absent", "pending">>, <<"pending", "confirmed">>, <<"pending", "expired">>,
     <<"expired", "refund_pending">>, <<"confirmed", "refund_pending">>,
     <<"refund_pending", "refunded">>}

StatusFollowsMachine ==
    [][\A p \in Payments :
           status'[p] # status[p] =>
               \/ <<status[p], status'[p]>> \in StatusMachine
               \/ /\ <<status[p], status'[p]>> = <<"refunded", "refund_pending">>
                  /\ opened[p] < Cardinality(Servers)]_vars
=============================================================================
