# Pactum backend: TLA+ models, model checking and proofs

Pactum is a Rust (axum, sqlx, tokio) backend for signing agreements on Solana.
Users prepare an agreement off-chain as a *draft*, invite parties by email, pay
a fee (the first few agreements are free) and receive a `create_agreement`
transaction to sign. Background workers follow the chain and do the
housekeeping. All shared state is in PostgreSQL, except the registry of
WebSocket connections, which is in memory.

The source root is `src/`: the crate is `src/src/`, the schema
`src/migrations/`, the design document
`src/openspec/specs/pactum_backend_spec.md` ("the spec" below).

## 1. Inventory

| Component | State | Operations | Hard behaviour |
|---|---|---|---|
| Drafts and invitations (`handlers/agreement.rs`, `invite.rs`, `draft.rs`) | `agreement_drafts`, `party_invitations` | create, accept, reinvite, discard, submit | read-modify-write of the JSON party list under row locks; checks that are stale after awaits; several statements without a transaction; notification after the commit |
| Free tier and payment initiation (`handlers/payment.rs`, `agreement.rs`) | `user_agreement_counts`, `agreement_payments`, `agreement_drafts.paid` | initiate, create | check-then-act on a counter; partial failure; retries |
| WebSocket channels (`handlers/ws.rs`, `state.rs`) | `ws_channels`, one broadcast channel and one task per connection | connect, disconnect, forward, publish | a second connection replaces the first; bounded channel; deregistration by user id |
| Keeper (`workers/keeper.rs`) | its own `WorkerStatus`; tables of the others | seven scans every 60 s | races with the handlers; circuit breaker without reset |
| Notification queue (`services/notification.rs`, `workers/notification_worker.rs`) | `notification_queue` | enqueue, fetch, deliver, mark | at-least-once delivery, a batch of ten, retries |
| Agreement index (`workers/event_listener.rs`, `expiry_worker.rs`, `services/program_log.rs`, `solana_logs.rs`) | `agreement_parties` | one handler per program event; expiry with a soft lock | lost and repeated log events; crash while the soft lock is held |
| Payments and refunds (`workers/refund_worker.rs`, `services/refund.rs`, `solana_pay.rs`) | `agreement_payments` | confirm, expire, reconcile, refund | an on-chain transfer and a row that records it; updates without a status guard |
| Sign-in and sessions (`handlers/auth.rs`, `services/jwt.rs`) | `siws_nonces`, `refresh_tokens`, `user_accounts`, `auth_wallet` | challenge, verify, link, refresh, logout, OAuth | single use of nonces and tokens; account creation in two statements |
| Supervision and start-up (`main.rs`, `workers/supervisor.rs`, `policy.rs`, `state.rs`, `/health` of `router.rs`) | lifecycle map, `ProcessHealthState` | boot, spawn, observe exit, mark degraded or failed, report | concurrent marks by store and compare-and-swap |
| Transaction handlers (`handlers/agreement.rs`, `services/solana.rs`) | none here; the agreement account on chain | create, sign, cancel, vote, retract, expire | an account read before other transactions land; addresses derived again from passed values |
| Storage, crypto, profile, routing, configuration | none of its own, or single-row writes | | pure functions and I/O |

How they interact: handlers and workers share the database and meet only in its
rows; `accept_invite`, the event listener and the notification worker publish
through `send_to_user`, and what cannot be delivered at once goes to
`notification_queue`; the keeper expires what handlers created; the event
listener turns chain events into rows that the expiry and refund workers act on.

What makes each part correct:

* drafts: no acceptance is lost, a draft becomes ready exactly when the last
  party has accepted, an invitation has one outcome, nothing is submitted that
  is unpaid or unresolved, locks never block for good;
* free tier: what is free is counted and the limit holds as far as the
  statements can enforce it;
* channels: the map holds live connections only, events reach the right user
  once and in order, an orphaned connection ends;
* sessions: a nonce or a refresh token makes one session at most, a wallet
  stays with its account, an access token names no wallet of somebody else;
* agreement index: what it records did happen on chain or was in a log about
  that agreement, a conclusion is final, one server at a time expires an agreement;
* notifications: an old job is not passed over, reminders repeat only so often,
  and (what the code does not do) every job is tried;
* payments: only what came in goes back, a refund is opened only so often, the
  status of a payment follows its machine;
* health: no report of trouble is hidden by a lesser or later one;
* transactions: what lands acts on the agreement that was asked for, and a
  completed agreement has its credential unless a handler was outrun.

`PROJECT.json` lists the components with their status and, under `hazards`, each
place where such a property is at risk.

## 2. Plan

Modules, the most important behaviour first; all of them exist.

1. `DraftLifecycle`, which implements the abstract specification `DraftContract`
   (with `DraftInvariant`, `DraftLifecycleProofs`)
2. `FreeTier` (with `FreeTierProofs`)
3. `WsChannels` (with `WsChannelsProofs`)
4. `Sessions` (with `SessionsProofs`)
5. `AgreementIndex` (with `ChainProofs`)
6. `NotificationQueue` (with `OldestFirst`, `NotificationQueueProofs`)
7. `PaymentRefund` (with `OldestFirst`, `PaymentRefundProofs`)
8. `WorkerHealth`, which implements the abstract specification `HealthReport`
   (with `WorkerHealthProofs`)
9. `TransactionHandlers` (with `ChainProofs`)

Every state change of the server that more than one task can observe is now an
action of one of these, but for the rate limiter and single-column writes that
nothing else reads. Every safety property that a passing run checks is proved.

## 3. Modules

### DraftLifecycle and DraftContract

One state variable per column that matters, keyed by row id; `"absent"` is a row
that does not exist. A handler with one write, computed from values that no one
else changes, is one action; every other handler is one action per statement or
await. `pc[r]` and `loc[r]` are the program counter and the locals of request
`r`; a request is handled once, so `Requests` bounds the total number of
multi-step requests.

| Code | Actions |
|---|---|
| `create_agreement` | `CreateAgreement` (draft row), `InsertInvitation` (one INSERT each, no transaction) |
| `accept_invite` | `AcceptBegin` (`now`), `AcceptLockInvite`, `AcceptLockDraft` (the two `FOR UPDATE`), `AcceptCommit`, `AcceptNotify` |
| `delete_draft`, `reinvite_draft` | `DeleteDraft`, `ReinviteDraft` |
| `submit_draft` | `SubmitBegin` (read and gates), `SubmitUpload`, `SubmitBuild` (RPC), `SubmitPersist`, `SubmitRespond` |
| `initiate_payment`, its write to this table | `InitiatePaymentMarksPaid` |
| keeper scans 2 and 3 | `KeeperWake`, `KeeperExpire`, `KeeperExpireFails`, `KeeperBalances` |
| any error return, dropped request or crash | `RequestFails` |

Row locks are `draftLock` and `inviteLock`. Every statement that writes a draft
row, or inserts an invitation (its foreign key takes a share lock on the draft
row), waits until no transaction holds the row. The keeper's UPDATE takes its
rows one by one; since it holds them only for its own statement and nothing that
holds a row waits for a row the keeper could hold, it is modelled as one step
that runs when the stale rows are free.

Abstractions: an invitation token is its id; `ready_at` and the reminder columns
are written and never read here; the creator column never changes, so the
creator check is folded into the action; gate 3 of `submit_draft` (the creator
has an email) is a free choice; the creator's wallet row is never deleted, so
`AcceptNotify` always finds a user. A server crash is `RequestFails` of every
request in flight. A request names at least one party (`SlotsAssumption`).

`DraftContract` says what the endpoints promise as if each were one step: no
requests in flight, no locks, no copies of a row. An acceptance marks its
invitation, fills its slot and, if it was the last, makes the draft ready, all at
once. `ImplementsDraftContract` is that specification under a mapping that drops
locks, requests, clock and keeper, and reads a slot as its wallet or as the
invitation it waits for. A multi-step request takes effect at one of its
statements (an acceptance at its commit, a creation at the INSERT of the draft);
its other steps stutter. What the contract leaves open is what the code leaves
open: a discarded draft may still be paid, accepted or submitted.

### FreeTier

`user_agreement_counts` and its two readers. A handler slot is reused when its
request is answered, so requests are unbounded in number and `Handlers` bounds
how many run at the same time. `direct` counts what the free branch of
`create_agreement` hands out; `answer` is the last answer of `initiate_payment`
per draft; `lost` records users one of whose requests died between the two
UPDATEs. `InsertPaymentSucceeds` compares the column list of the INSERT with the
migrated table.

### WsChannels

`ws_channels[u]` is the connection whose sender is registered. The map owns the
only handle of a sender, so replacing or removing an entry closes that channel;
the receiver first yields what is buffered. A full channel drops its oldest
event (`Lagged` is then skipped by the loop). The `select!` loop of a connection
is `SocketCloses`, `ForwardEvent`, `ForwardFails`, `ChannelCloses`; what follows
the loop is `Deregister`. Events are numbered in the order of publication; an event
is one call of `send_to_user`, so a notification that is sent again is another event.

### Sessions

One variable per table (`user_accounts`, `auth_wallet`, `auth_oauth`, the email
of `user_contacts`, `siws_nonces`, `refresh_tokens`), the access tokens ever
issued, and the ghost variable `origin`, which records the credential each
session was made from. None of these handlers uses a transaction, so each is one action per
statement:

| Code | Actions |
|---|---|
| `challenge` | `Challenge` |
| `verify` | `VerifyConsume`, `FindWallet`, `CreateAccount`, `BindWallet`, `Issue` |
| `link_wallet` | `LinkConsume`, `CheckWallet`, `BindWallet`, `Issue` |
| `oauth_callback` | `OAuthFind`, `OAuthConflict`, `OAuthSameProvider`, `OAuthUpsert`, `OAuthContact`, `Issue` |
| `refresh` | `RefreshConsume`, `RefreshFindPubkey`, `Issue` |
| `logout`, `update_contacts`, `delete_contacts` | `logout`, `UpdateContacts` |
| keeper scan 7 | `KeeperCleansNonces`, `KeeperCleansTokens` |
| any error return, bad signature or crash | `RequestFails` |

Abstractions: the age of a nonce or token is live or stale (`NonceAges`,
`TokenAges`); access tokens never expire, which allows more than the code does;
a signature that does not verify is a request that fails after its nonce is
gone, as in the code. Two accounts may end up with the same email, and an account
may have several wallets: the schema allows both.

### AgreementIndex

`chain`, `chain_signed` and `chain_votes` are the agreement account, outside the
repository; `status`, `signed_at` and `due` are `agreement_parties`, `queue` what
was ever enqueued. Each server has a log stream, a listener and an expiry worker.

| Code | Actions |
|---|---|
| on-chain program; other logs | `ChainCreates`, `ChainSigns`, `ChainCancels`, `ChainExpires`, `ChainVotes`; `MisleadingLog` |
| `connect_and_listen`, `handle_event` | `Receive`, `HandlerFails`, `SubscriptionEnds`, `Reconnect` |
| `handle_create_agreement` | `InsertParty` per party, `Notify` |
| `handle_sign_agreement` | `RecordSignature`, `CountUnsigned`, `Notify` |
| `handle_cancellation` | `Conclude`, `Notify` |
| `handle_vote_revoke` | `Notify` |
| `expire_due_agreements` | `ExpiryScan`, `LockAgreement`, `LockFails`, `UnlockAgreement`, `UnlockFails` |
| `submit_expire_transaction` | `SubmitAccepted`, `SubmitFails`, `SubmitRefused` |
| process stop and restart | `Crash` |

`sent` records for which agreements a transaction was submitted. Whatever the
node answers, the agreement does not expire by it, because the transaction names
another address (see `TransactionHandlers`): `ChainExpires` is anybody's
transaction, and the rows of an accepted submission stay `expiring`. Logs reach
only the servers subscribed at that moment.

A log need not be true. `solana_logs.rs:106` drops the `err` of a notification and
forwards every transaction that mentions the program, and `parse_logs` puts the
lines of all its instructions and programs together: the last `Instruction:` line
counts, and without a line that names an agreement the transaction's signature
takes its place, which matches no row. `Emit` is what arrives of an instruction that was
carried out (possibly nothing, when another program's line comes last);
`MisleadingLog` is a log that names an event the chain did not do, from a
transaction that was rolled back or from another program, about any agreement and
wallet. `claimed` remembers those events, and the properties say what they may and
may not affect. Assumptions about the outside: the program accepts a transaction
only in the state it is meant for and names every party when an agreement is
created; no log waits unhandled for the thirty days until `expires_at`
(`BeingCreated`). A query that fails in `ExpiryScan` is a step not taken: the
worker is only marked degraded and scans again. In other modules: the WebSocket
broadcasts (`WsChannels`), the refund trigger (`PaymentRefund`), the worker's
status (`WorkerHealth`). Who is told is not recorded in `queue`, only that
somebody is.

### NotificationQueue

`notification_queue` by column (`status`, `scheduled_at`, `recipient`,
`attempts`), the wallets known and the users online, and the two senders of a
server process: the notification worker, which takes a batch and treats its jobs
one after the other, and scan 1 of the keeper.

| Code | Actions |
|---|---|
| `enqueue_notification` | `EnqueueNotification` |
| `notification_worker::run` | `Fetch`, then per job `SendToUser` or `NoUserFound`; `EmailSent`, `EmailFails` or `NoEmailFound`; `Record` or `RecordFails` |
| `send_invitation_reminders` | `ReminderScan`, then per invitation `ReminderSent` or `ReminderFails`; `CountReminder` or `CountFails` |
| process stop and restart | `WorkerCrashes`, `KeeperCrashes` |

`Batches` of `OldestFirst` is what `ORDER BY ... LIMIT` may return, in any order
among rows of the same second. `mark_sent_succeeds` compares the columns that
`mark_sent` sets with those of the table; `sent_at` is not among them, so the
statement always fails and the job's attempts are counted instead. `told` and
`reminders` are ghosts: what went out; `written_off` is another: jobs the worker
treats as delivered although nobody was told, because it found no user for the
wallet or no address (`notification_worker.rs:52-57`, "skipping job"). The event type is left out, since every
caller passes one the worker knows. `ws_channels` is reduced to who is online; a
crash of a process is a crash of its worker or of its keeper, as the two share
nothing else here.

### PaymentRefund

`agreement_payments` by column, the agreement addresses that submissions drew, the
outside as far as it matters (which payments arrived, which agreements a log said
had ended, truly or not) and, per server, the keeper in scans 5 and 6, the
listener in its refund trigger and the refund worker in its batch.

| Code | Actions |
|---|---|
| INSERT of `initiate_payment` | `InsertPayment` |
| `confirm_payment_atomic` | `ConfirmPayment` |
| end of `submit_draft`; `handle_create_agreement` | `SubmitDraft`; `IndexParty` |
| `expire_timed_out_payments` | `ExpireTimedOutPayments`, `ExpireFails` |
| `reconcile_late_payments` | `LateSelect`, then per payment `ReferenceExists` or `ReferenceMissing`; `LateMark` or `LateMarkFails` |
| `initiate_refund_if_eligible` | `RefundSelect`, `RefundMark` or `RefundMarkFails` |
| `process_pending_refunds`, `execute_refund` | `FetchRefunds`, then per row `TransferSent`, `TransferFails` or `TransferAnswerLost`; `RecordRefund` or `RecordFails` |
| circuit breaker; process stop and restart | `KeeperDisabled`; `Crash` |

In this build the INSERT always fails (`FreeTier`) and `confirm_payment_atomic` has
no caller; both are actions nevertheless, because everything after them is written
for them. `SubmitDraft` may be taken again and again for a draft: each time it draws
an address not drawn before and links the draft's confirmed payments to it
(`draft.rs:249-302`). `ReferenceExists` has no condition: `get_account` at the
reference key (`keeper.rs:405`) finds an account there or not, whether or not the
payment arrived. A batch of the refund worker is a sequence of pairs of a payment
and a party, as the JOIN makes them. `opened` and `transferred` are ghosts: how
often a payment was marked, and for which a node accepted a transfer. Amounts are
left out, and so is whether an accepted transfer lands, since nothing here asks.

### WorkerHealth and HealthReport

`boot` walks through `BootSteps`; each step before the flag is set may fail and end
the process. Each worker has the supervisor's lifecycle and a status of its own,
and changes the flag in a second step (`owes`): that is where writers interleave.

| Code | Actions |
|---|---|
| `main`, `bootstrap_state` | `BootStep`, `BootFails`, `ProcessStops` |
| `WorkerSupervisor::spawn` | `TaskRuns`, `TaskEnds`, `RecordRuntimeFailure` |
| `transition_to_degraded`, `transition_to_healthy` (listener, notification worker) | `TransitionToDegraded`, `Recovers` |
| `report_degraded` (refund and expiry worker) | `CycleFails`, `ItemFails`, `Recovers` |
| circuit breaker of the keeper | `BreakerTrips` |
| `mark_degraded` | `MarkDegraded` |
| `health_handler` | `HealthHandler` |

`HealthReport` says what `/health` promises to a monitor, without flag and marks:
the level only rises while the process serves, and the end of a critical worker is
reported unless the process stops first. `ImplementsHealthReport` is that
specification, fairness included, under the mapping of the flag to a level, of
`StartupFailed` to "starting" and of the lifecycle map to the set of ended workers.

### TransactionHandlers

`account` is the agreement account at each address, `tx` the transactions that
clients, or the expiry worker, hold. A handler (`SignAgreement`, `CancelAgreement`,
`VoteRevoke`, `RetractRevokeVote`, `CreateAgreement`, `SubmitExpire`) is one step:
it reads one account and answers with what a builder of `services/solana.rs` makes
of it. `ClientSigns`, `Lands` and `IsForgotten` come later, in any order.
`Executes` is the program as the code uses it, and no stricter. An address is the
pair it is derived from. The place of a field in the account matters once:
`agreement_id_at` says that reading at another byte than `AgreementIdFirst` may yield
any agreement's id or none (`NoId`), since the bytes run over the creator and half
of an id that a client may choose (`DirectCreate`); the expiry worker reads at byte
32 of the whole account, where the handlers skip the discriminator first. The
parties of an agreement are a set; `agreement.rs:228-232` does not reject a wallet
named twice, and what the program makes of one is not known here. Bytes, fees and blockhashes are left out. The
specification is `TxSpec` (`TxInit`, `TxNext`, `TxTypeOK`), because `ChainProofs`
extends it and `AgreementIndex`.

### Supporting modules

`DraftInvariant` holds the inductive invariant `IInv` of `DraftLifecycle`;
`OldestFirst` the operator both batch workers share; the `MC` modules instantiate
the others for TLC and add symmetry sets where no liveness is checked;
the eight modules named `...Proofs` hold the proofs, each with the inductive
invariants it needs (that of `DraftLifecycle` is in `DraftInvariant`). Operators whose
names start with `Mutant_` are deliberate mistakes, paired in `PROJECT.json` with
the property that detects each of them; no specification uses them.

## 4. Runs

Passing runs:

| Run | Shows | Bounds |
|---|---|---|
| `draft` | `ImplementsDraftContract`, `SlotsMatchInvitations`, `ReadyIffResolved`, `SubmittedOnlyIfPaidAndResolved`, `CreatorNotifiedAtMostOnce`, `ResolvedSlotsAreFinal`, `InvitationOutcomeIsFinal`, `RequestsFinish`, `StaleInvitationsExpire` | one draft, two slots, two invitation ids, one wallet, three requests, two instants |
| `free_tier` | `OverdrawBoundedByConcurrency`, `PaidDraftsAreCounted` | two users, two drafts, three handlers, allowance 2 |
| `ws_channels` | `RegisteredTaskIsAlive`, `EventsAreRoutedOnceInOrder`, `OrphanedConnectionEnds`, `AcceptedEventIsForwarded` | two users, three connections, capacity 1, two events |
| `sessions` | `SessionsAreNotForked`, `AccessTokensNameOwnWallet`, `WalletStaysWithAccount` | two users, one wallet, two nonces, three refresh tokens, two providers and two identities at each, one email, three requests |
| `agreement_index` | `IndexFollowsChain`, `ExpiryLockIsExclusive`, `ConclusionIsFinal` | one agreement, one wallet, two servers, one misleading log, one revoke vote, one crash |
| `notifications` | `OldJobIsToldOrWrittenOff`, `RemindersAreBounded` | two jobs and a batch of one, one wallet, one invitation, one worker, two keepers, one lost count, one crash, two instants |
| `worker_health` | `HealthyMeansNoTrouble`, `AnswersNeverImprove`, `ImplementsHealthReport` | one listener, two scanning workers, the keeper (critical) |
| `payments` | `OnlyOwedRefunds`, `RefundsAreOpenedOncePerServer`, `StatusFollowsMachine` | two payments, two drafts, two agreement addresses, two servers, one party, a batch of one row, one crash, two instants |
| `signing` | `CredentialMissingOnlyIfStale`, `LandsOnNamedAgreement` | two wallets, both parties of each agreement, one agreement id (used by either wallet as creator), two transactions at a time |

Drafts share nothing with each other, so one draft is enough for the properties
of a draft; two slots and three requests give create and the race of two accepts, or
of an accept with a discard, a submission or a duplicate. `InviteExpiry = 0` and
two instants make an invitation valid now and overdue after one tick. The free
tier needs one more handler than it takes for two to race. Three connections let
one replacement be replaced in turn. Three requests and one wallet let two
sign-ins race for it while a third links or refreshes; the third token is the
successor of a successor. Agreements share nothing either; two servers handle
each log twice and race for the lock, one crash is enough to lose a lock, and one
misleading log is enough to make the index wrong, or, repeating a creation, to add
rows under a lock. With two wallets the run takes longer than five minutes, so TLC
sees one; the proofs cover any number. `VIEW` leaves out what no action reads and
no property of the run speaks of. A batch of one and two jobs are the smallest queue in which one job can keep another
out; two keepers race for one invitation. Two payments are what one draft submitted
twice, or two drafts, can tell apart, and the fewest that compete for a batch of one
row; two servers give every overlap of stale mark, batch and record, and a server
that restarts may try to mark again.
One worker of each kind (two scanners) gives every pair of writers of the flag. Two
transactions held at a time are the fewest of which one can outrun the other.

Deadlock is checked in `free_tier` only. In the other runs the bounded system ends:
requests, connections, tokens, events and the clock are bounded, an agreement, a
payment or the process comes to an end, and a worker with nothing to do waits.

Violation runs, each a disagreement between code and documentation (quoted under
`findings`):

| Run | What the counterexample shows |
|---|---|
| `tx_names_every_party` | invited parties are missing from the transaction: it is built from `draft_payload`, which acceptance does not update |
| `missed_expirations` | a process that stops between the lock and the submission leaves `expiring` rows that no scan selects again: nothing is ever submitted for the agreement |
| `pending_jobs_are_tried` | `mark_sent` always fails, so a delivered job stays at the head of the queue and a later one is never tried |

Seen in the models, and in the code, without a run of their own: a draft whose
parties all had wallets from the start is inserted as `awaiting_party_wallets`
and no action ever makes it ready (this is why the second half of
`ReadyIffResolved` speaks of drafts with invited parties only); a repeated
`initiate_payment` for one draft is charged again; the bound of
`OverdrawBoundedByConcurrency` is attained, so concurrent requests do exceed the
free allowance; `submit_draft` may be repeated and hands out a further
transaction each time; a submit already past its gates, or a late accept that
revives the draft, records storage for a discarded draft (the spec, line 1043,
says none is spent); a failure after the commit of an accept loses the
notification of the creator for good (line 361); the paid path of
`initiate_payment` inserts columns `agreement_payments` does not have and omits
two it requires, so it always fails; two first OAuth sign-ins at once create two
accounts; a logout that loses the race to a refresh revokes nothing; the OAuth
callback issues an access token without a wallet even for an account that has
one; after a failed INSERT in `handle_create_agreement` the remaining rows decide
when "Completed" is announced; no handler records completion, so the expiry
worker tries completed agreements again in every cycle after thirty days; a
reinvitation belongs to no slot of the draft, so accepting it answers NotFound
(`draft.rs:185`; the spec, line 921, calls it "resend invitation to an expired
party slot"); the free branch of `create_agreement` counts nothing
(`agreement.rs:220`; line 524 says every free agreement is counted); the task of a
replaced WebSocket connection removes its successor from the map (`ws.rs:58`).

`submit_expire_transaction` takes the agreement id from bytes 32 to 47 of the account
(`expiry_worker.rs:198`), where the handlers skip an 8-byte discriminator and find
it at 40: the transaction names the address of another id, in practice no
agreement's, so the worker does not expire what it found (`expiry_worker.rs:3-4`
says it does), and the rows of an accepted submission stay `expiring`.
`build_retract_revoke_vote_tx` puts the voter in the place of the creator
(`solana.rs:442`, marked as a placeholder), so a vote can be retracted only by a
voter who created the agreement. A sign transaction requires the signature of the
agreement's `vault_funder`, which for agreements made by this service is the vault,
and `build_sign_agreement_tx` does not add it (line 1747 of the spec: "partially
signs them with vault_keypair"). `LandsOnNamedAgreement` claims nothing about where
an expiry or a retraction lands: for these two builders the claim would be false.

A log of a rolled-back cancellation, or one that another program prints, concludes
an agreement that is pending on chain (`event_listener.rs:302` has no guard), tells
its parties so and marks its payment for refund; the log of the real end may then
turn Cancelled into Expired or back. The properties of `AgreementIndex` except what
`claimed` names, and nothing else.

Of refunds: the JOIN of the refund worker (`refund_worker.rs:40`) returns a row per
party and the loop does not look at the status again, so one pending payment is
transferred once per party in a single cycle (the spec, lines 1536-1562, wants one
transfer); a transfer whose record fails, or whose process stops, is made again in
the next cycle, any number of times; two servers may both transfer, and a server
that read the row before may mark it again after it was refunded
(`RefundsAreOpenedOncePerServer` bounds that, and the bound is attained); a payment
is linked to the last submission of its draft, and the end of that agreement refunds
it although an earlier agreement of the draft is live, or the other way round when
the listener had read the row before; `fetch_optional` marks one payment when an
agreement has several; scan 6 looks for an account at the reference key, where a
transfer makes none, and what it marks has no `agreement_pda`, so the JOIN never
returns it: a late payment is not refunded (the spec, lines 1346-1348, says it is);
`refund_amount` is never written, so what is transferred is zero units;
`calculate_refund_amount` and `confirm_payment_atomic` have no caller;
`execute_refund` says "sends+confirms" and only sends; rows that fail for ever, such
as those of a creator without a token account (`refund.rs:75-83`), are never set
aside for the manual review of line 1577 and can fill the batch. That the oldest
refund is made in the end is therefore not claimed.

### Fairness

`DraftLifecycle!FairSpec`: weak fairness for each request that has started (tokio
polls a handler until it answers), for the keeper loop (an interval timer) and
for time; strong fairness for the keeper's UPDATE, which may fail in any cycle
but not in all of them. Weak fairness is enough for lock waits because each
request runs once and the holder of a row is obliged to finish. Nothing obliges
anybody to call the API. `RequestFails` is never obliged to happen.
`WsChannels!FairSpec`: weak fairness for the task of each connection; clients and
publishers owe nothing. `AgreementIndex!RestartSpec`, for the violation run:
statements and RPC calls succeed, though a node may refuse what it gets, and both
workers' loops go on; only a crash goes wrong. `NotificationQueue!FairSpec`: weak
fairness for each worker's loop (an interval timer), and strong fairness, per job,
for the statement that records an attempt, which may fail any number of times but
not for ever; emails and lookups may fail always, and nothing obliges a keeper, a
user or the clock. `WorkerHealth!FairSpec`: weak fairness for the second
half of a report, which follows the first without an await. `StaleInvitationsExpire` excepts a keeper that the
circuit breaker has stopped, since nothing starts it again.

## 5. Proofs

`DraftLifecycleProofs` proves, for all finite or infinite sets of drafts, slots,
invitations, wallets and requests and for any times, each safety property that
`draft` checks: `TypeCorrect`, `NoLostAccept`, `ReadyExactly`,
`SubmitGatesStayTrue`, `NotifiedAtMostOnce`, `OutcomeIsFinal`,
`ResolvedIsFinal`, `RefinesContract`. They rest on `Invariance: Spec => []IInv`. Assumptions: there is
a slot, the times are naturals, and `None`, wallets and invitation ids are
distinct.

`SlotsMatchInvitations` alone is not inductive. A request between
`AcceptLockDraft` and `AcceptCommit` holds a copy of the party list, so `IInv`
adds that this copy is the current list with one slot resolved, that its request
holds both row locks and that its invitation is still pending (`AcceptInv`), and
that a held row belongs to a request in such a place. That an invitation id names
one slot of one draft needs the bookkeeping of ids (`IdsInv`, `PayloadInv`,
`AbsentInv`): an id is drawn once, before its row exists, and a request that is
still inserting owns its ids (`InsertInv`). `SubmitInv` carries the gates through
the awaits of `submit_draft`: `paid` is never reset, and a list that was resolved
stays resolved, even if the draft is discarded. `NotifyInv` says that a request
about to notify belongs to a draft that is complete and has not been announced;
as a complete draft has no invitation left to accept, no second request gets
there. The proof has one lemma per action; actions that touch neither rows nor
locks share a frame lemma.

`RefinesContract` is `Spec => ImplementsDraftContract`, step by step: initial states
map to initial states, and each action to one action of `DraftContract` or to a
stutter. The step that needs the invariant is `AcceptCommit`, which writes a whole
list read earlier: by `AcceptInv` that list is the current one with one slot filled,
by `IdsInv` that slot is the only one waiting for the invitation, and the invitation
is still pending, so the write is the contract's `Accept` of that slot. Creation
needs that the ids it draws are fresh in the contract's sense (no slot of another
draft waits for one), `Tell` needs `NotifyInv`, and `Submit` needs `SubmitInv`, since
the contract tests the gates at the moment the handler acts on them.

`FreeTierProofs` proves `OverdrawBounded` and `PaidIsCounted` for any finite sets
of handlers and drafts and any allowance. The first needs that a request is
admitted only while `free_used` is below the limit and that every increment
leaves the set of admitted requests; the second counts paid drafts against
`free_used` plus requests between their two statements. The arguments about
cardinality are lemmas on adding and removing one element. `TypeCorrect` is proved
along with them.

`SessionsProofs` proves `TypeCorrect`, `NoForkedSessions`, `OwnWallet` and
`WalletStays` for any sets of users, wallets, nonces, tokens, providers and
requests, from the assumption that `None`, nonces, tokens and requests are
distinct. Neither property is
inductive alone: a nonce or token is consumed by one statement and its session
issued by another. `RequestInv` therefore says, for each request and each place
in its handler, that what it consumed is gone, so nobody else can consume it,
that a refreshed session is issued to the user of the old token, and that the
wallet about to go into an access token is bound to its user; `TokenInv` says
that whatever a session was made from is gone. Frame lemmas cover the actions that only add rows
(`Grows`) or issue nothing (`NoSession`). `WalletStays` rests on the primary key
of `auth_wallet` alone: no statement of the code updates or deletes a row of it.

`WorkerHealthProofs` proves `TypeCorrect`, `HealthyIsTrue`, `AnswersOnlyWorsen` and
`RefinesHealthReport` for any disjoint sets of workers of each kind. `AnswersNeverImprove`
compares two answers, given at different times, and each step sees one of them only;
the invariant therefore says that no answer was worse than the flag is now
(`AnswerInv`), and `BootInv` that no answer and no mark comes before `main` has set
the flag. `WorkerInv` says what a mark on its way implies about its worker.
`RefinesHealthReport` is the safety part of `ImplementsHealthReport`, step by step:
initial states map to initial states, and every action to an action of
`HealthReport` or a stutter.

`ChainProofs` proves of `AgreementIndex` `TypeCorrect`, `IndexIsTrue`, `LockExcludes` and
`ConclusionStays` for any sets of agreements, wallets and servers and any number of
crashes and of misleading logs. What the index believes travels from the chain, or
from a claim, to a row through a log and a handler: `StreamInv` and `ListenerInv` say
that a log on its way, or being handled, is still what the chain did or what was
claimed (`LogIsTrue`), which holds because neither takes anything back (`ChainGrows`).
`ConclusionStays` follows: without a claimed end both statuses would have to be the
chain's. `ExpiryLockIsExclusive` needs that whoever holds an agreement has left no row
`PendingSignatures` (`ExpiryInv`), and this would fail if a row were inserted
meanwhile: `DueInv` says that no row of an overdue agreement is still to come unless
a log repeats its creation, which is where the assumption on late logs enters.

Of `TransactionHandlers`, `ChainProofs` proves `TxTypeCorrect`, `LandsWhereNamed` and
`CredentialOnlyMissedIfStale` for any wallets and ids, any number of transactions at
a time and any finite, nonempty sets of parties. Both properties compare what
happens when a transaction lands with what its handler was asked and saw, so `TxInv`
speaks of every transaction still held. `AimedAt` says that whoever asked has to
sign it, and which account it acts on, except for an expiry or a retraction, which
may act on any. `SignedAsSeen` says that a signature
that would be final on the account its handler saw carries a `metadata_uri`. It
survives whatever lands in between because an agreement, once made, keeps its
parties (`AgreementsStay`): only the signatures can be stale. `LastSignerIsFinal`
then closes the argument: if they are not, the signature that completes the
agreement is exactly the one `is_final_signature` counts, and the credential is made.

`WsChannelsProofs` proves `TypeCorrect`, `RegisteredIsAlive` and `RoutedOnceInOrder`
for any users and connections, any capacity above zero and any number of events.
What a client sees is decided when an event enters a buffer, so `OrderInv`,
`RouteInv` and `OneSocketInv` speak of what is buffered as well as of what was
received. That an event goes to one socket follows from `RegisteredTaskIsAlive` and
from the single entry per user.

`PaymentRefundProofs` proves `TypeCorrect`, `RefundsAreOwed`, `OpenedOncePerServer` and
`FollowsMachine` for any finite sets of payments and servers, any drafts and
addresses, and all values of the bounds. The updates by id carry no status guard, so
the invariant is about what each writer still holds. `RowInv` separates the two
kinds of payment: one once confirmed is never expired, nor the other way round, and
only a confirmed one is ever linked, to an address drawn for its own draft.
`KeeperInv`, `ListenerInv` and `WorkerInv` say that what was read before an await can
be stale only in one direction: rows move forward (`Forward`), the keeper holds what
was never confirmed, the listener what was confirmed and whose draft had an agreement
reported as ended (`Owed`, which a later submission does not take back), and the
worker what was confirmed, hence paid. `HolderInv` bounds openings: those made and the
servers that may still make one (`Holders`) are together no more than the servers,
because a row that was opened is selected by nobody again. `FollowsMachine` then reads
each write against `RowInv` and these.

`NotificationQueueProofs` proves `TypeCorrect` and `RemindersBounded` for any finite
sets of jobs and keepers. `ReminderInv` accounts for every reminder as counted, lost
or about to be counted, and bounds the counts and the keepers that still hold the
invitation, together, by the number of keepers: a keeper lets go of an invitation
when it counts it, and a counted invitation is not selected again.

The assumptions, named in the modules, are that `None` is none of the values it
stands beside, that bounds are naturals, that a batch and a channel hold at least
one element, and, where something is counted, that the sets are finite.

Only model-checked: the liveness properties (`RequestsFinish`,
`StaleInvitationsExpire`, `OrphanedConnectionEnds`, `AcceptedEventIsForwarded`,
`OldJobIsToldOrWrittenOff`) and the fairness half of
`ImplementsHealthReport`, since fairness and ENABLED are outside the prover's reach.
The violation runs are counterexamples and need no proof.

## 6. Not modelled

The byte-level encoding of Solana transactions, storage uploads and hashing,
encryption, metadata, email templates, the route table, the reading of the
environment and the mapping of errors to status codes: pure functions or I/O without
protocol state. The treasury sweep of the keeper (scan 4)
computes, logs and writes the time of the sweep, which only the next one reads. The
rate limiter of `get_invite` is one step under one lock, whose bound is its own
guard. Refund arithmetic has no caller. The on-chain program is not part of this
repository; each module says what it assumes of it.
