-------------------------- MODULE DraftLifecycle --------------------------
(***************************************************************************)
(* The pre-chain life of an agreement: the rows of agreement_drafts and     *)
(* party_invitations, and everything that writes them -                     *)
(*                                                                         *)
(*   POST /agreement             create_agreement   handlers/agreement.rs   *)
(*   POST /invite/{token}/accept accept_invite      handlers/invite.rs      *)
(*   DELETE /draft/{id}          delete_draft       handlers/draft.rs       *)
(*   PUT /draft/{id}/reinvite    reinvite_draft     handlers/draft.rs       *)
(*   POST /draft/{id}/submit     submit_draft       handlers/draft.rs       *)
(*   POST /payment/initiate      initiate_payment   handlers/payment.rs     *)
(*                               (here only its write to this table)        *)
(*   keeper scans 2 and 3                           workers/keeper.rs       *)
(*                                                                         *)
(* A handler that writes once, from values no other handler changes, is one *)
(* action.  The others are one action per database statement or await that  *)
(* another task can interleave with; what such a request has read so far is *)
(* in loc[r].  PostgreSQL runs at its default READ COMMITTED: a statement   *)
(* outside a transaction is atomic, SELECT ... FOR UPDATE holds the row     *)
(* until its transaction ends, and a statement that writes a held row       *)
(* waits for it and then sees the committed version.                       *)
(***************************************************************************)
EXTENDS Naturals

CONSTANTS
    DraftIds,      \* agreement_drafts.id
    Slots,         \* positions in the party list of a draft
    InviteIds,     \* party_invitations.id (and, one to one, its token)
    Wallets,       \* base58 public keys
    Requests,      \* HTTP requests, each handled once
    None,          \* SQL NULL, Rust None, an unheld row lock
    InviteExpiry,  \* config.invite_expiry_seconds
    MaxTime        \* bound on the clock

ASSUME TimeAssumption == InviteExpiry \in Nat /\ MaxTime \in Nat

ASSUME SlotsAssumption == Slots # {}

ASSUME NoneAssumption ==
    /\ None \notin Wallets \cup InviteIds \cup Requests \cup DraftIds
    /\ Wallets \cap InviteIds = {}

VARIABLES
    status,            \* agreement_drafts.status, or "absent": no such row
    party_slots,       \* agreement_drafts.party_slots
    draft_payload,     \* agreement_drafts.draft_payload.parties
    paid,              \* agreement_drafts.paid
    storage_uploaded,  \* agreement_drafts.storage_uploaded
    agreement_pda,     \* agreement_drafts.agreement_pda: the submission that set it
    inv_status,        \* party_invitations.status, or "absent"
    inv_draft,         \* party_invitations.draft_id
    inv_expires,       \* party_invitations.expires_at
    ids,               \* every invitation id drawn so far (Uuid::new_v4)
    draftLock,         \* the transaction that holds the draft row FOR UPDATE
    inviteLock,        \* the transaction that holds the invitation row
    pc,                \* where each request is
    loc,               \* the local variables of each request
    clock,             \* current_unix_timestamp()
    keeper,            \* where the keeper loop is
    keeperNow,         \* `now` of expire_stale_invitations
    notified,          \* DraftReady messages sent or queued, per draft
    txs                \* create_agreement transactions handed to creators

draftVars  == <<status, party_slots, draft_payload, paid, storage_uploaded,
                agreement_pda>>
inviteVars == <<inv_status, inv_draft, inv_expires, ids>>
lockVars   == <<draftLock, inviteLock>>
reqVars    == <<pc, loc>>
keeperVars == <<keeper, keeperNow>>
outVars    == <<notified, txs>>
vars == <<draftVars, inviteVars, lockVars, reqVars, clock, keeperVars, outVars>>

---------------------------------------------------------------------------
(* Types *)

DraftStatus  == {"absent", "awaiting_party_wallets", "ready_to_submit",
                 "discarded"}
InviteStatus == {"absent", "pending", "accepted", "expired"}
Time         == 0..MaxTime
DraftPartyEntry == [pubkey : Wallets \cup {None}, invite_id : InviteIds \cup {None}]
PartyList    == [Slots -> DraftPartyEntry]
Transaction  == [draft : DraftIds, pda : Requests, parties : SUBSET Wallets]

AcceptPC == {"lock_invite", "lock_draft", "commit", "notify"}
SubmitPC == {"upload", "build", "persist", "link"}
PC       == {"idle", "insert", "done"} \cup AcceptPC \cup SubmitPC

Local == [draft   : DraftIds \cup {None},
          invite  : InviteIds \cup {None},
          wallet  : Wallets \cup {None},
          now     : Time,
          slots   : PartyList,
          todo    : SUBSET InviteIds,
          parties : SUBSET Wallets]

EmptyEntry == [pubkey |-> None, invite_id |-> None]
EmptyList  == [s \in Slots |-> EmptyEntry]
EmptyLocal == [draft |-> None, invite |-> None, wallet |-> None, now |-> 0,
               slots |-> EmptyList, todo |-> {}, parties |-> {}]

TypeOK ==
    /\ status \in [DraftIds -> DraftStatus]
    /\ party_slots \in [DraftIds -> PartyList]
    /\ draft_payload \in [DraftIds -> PartyList]
    /\ paid \in [DraftIds -> BOOLEAN]
    /\ storage_uploaded \in [DraftIds -> BOOLEAN]
    /\ agreement_pda \in [DraftIds -> Requests \cup {None}]
    /\ inv_status \in [InviteIds -> InviteStatus]
    /\ inv_draft \in [InviteIds -> DraftIds \cup {None}]
    /\ inv_expires \in [InviteIds -> Nat]
    /\ ids \subseteq InviteIds
    /\ draftLock \in [DraftIds -> Requests \cup {None}]
    /\ inviteLock \in [InviteIds -> Requests \cup {None}]
    /\ pc \in [Requests -> PC]
    /\ loc \in [Requests -> Local]
    /\ clock \in Time
    /\ keeper \in {"sleep", "expire", "balances", "disabled"}
    /\ keeperNow \in Time
    /\ notified \in [DraftIds -> Nat]
    /\ txs \subseteq Transaction

---------------------------------------------------------------------------
(* Plausible slips in the code below.  PROJECT.json pairs each with the     *)
(* property that notices it; nothing here is part of the specification.     *)

Mutant_DraftRowFree(d) == TRUE
Mutant_InviteRowFree(i) == TRUE
Mutant_resolve_wrong_argument(slots, i, w) ==
    [s \in Slots |-> IF slots[s].invite_id = i
                     THEN [pubkey |-> i, invite_id |-> None]
                     ELSE slots[s]]
Mutant_any_pubkey_resolved(slots) == \E s \in Slots : slots[s].pubkey # None
Mutant_gates_skip_payment(d) == status[d] = "ready_to_submit"
Mutant_gates_skip_status(d) == paid[d]
Mutant_StaleInvitation_any_status(i) ==
    inv_status[i] # "absent" /\ inv_expires[i] < keeperNow
Mutant_StaleInvitation_reversed(i) ==
    inv_status[i] = "pending" /\ keeperNow < inv_expires[i]
Mutant_validate_ignores_status(i, now) == now <= inv_expires[i]
Mutant_ReleaseLocks(r) == UNCHANGED lockVars

---------------------------------------------------------------------------
(* Helpers of the handlers *)

(* A row no open transaction holds FOR UPDATE. *)
DraftRowFree(d) == draftLock[d] = None
InviteRowFree(i) == inviteLock[i] = None

(* A transaction ends, by commit, rollback or the loss of its connection. *)
ReleaseLocks(r) ==
    /\ draftLock' = [d \in DraftIds |-> IF draftLock[d] = r THEN None
                                        ELSE draftLock[d]]
    /\ inviteLock' = [i \in InviteIds |-> IF inviteLock[i] = r THEN None
                                          ELSE inviteLock[i]]

validate_pending_invitation(i, now) ==
    /\ inv_status[i] = "pending"
    /\ now <= inv_expires[i]

(* The loop stops at the first slot that carries the invitation id; an id   *)
(* is drawn for one slot, so there is at most one.                          *)
HasSlotFor(slots, i) == \E s \in Slots : slots[s].invite_id = i

resolve_party_slot_pubkey(slots, i, w) ==
    [s \in Slots |-> IF slots[s].invite_id = i
                     THEN [pubkey |-> w, invite_id |-> None]
                     ELSE slots[s]]

all_pubkeys_resolved(slots) == \A s \in Slots : slots[s].pubkey # None

(* The entry create_agreement pushes for one party: a wallet when the       *)
(* request names one or the email belongs to a user with a wallet, a fresh  *)
(* invitation id otherwise.                                                *)
PartyEntry(x) == IF x \in Wallets THEN [pubkey |-> x, invite_id |-> None]
                                  ELSE [pubkey |-> None, invite_id |-> x]

(* The parties of the transaction are read from draft_payload.              *)
PayloadParties(d) ==
    {draft_payload[d][s].pubkey : s \in Slots} \ {None}

(* Gates 1 and 2 (payment, readiness); gate 3, the creator's email, is a    *)
(* free choice of the environment.                                          *)
evaluate_submit_gates(d) == paid[d] /\ status[d] = "ready_to_submit"

(* The request moves on with the locals l, or returns and has none left. *)
Goto(r, label, l) == /\ pc' = [pc EXCEPT ![r] = label]
                     /\ loc' = [loc EXCEPT ![r] = l]
Return(r) == Goto(r, "done", EmptyLocal)

---------------------------------------------------------------------------
(* create_agreement.  When every party is resolved and the user is on the   *)
(* free tier the handler writes no row at all (module FreeTier), so that    *)
(* branch does not appear here.                                             *)

CreateAgreement(r, d) ==
    /\ pc[r] = "idle"
    /\ status[d] = "absent"
    /\ \E p \in [Slots -> Wallets \cup (InviteIds \ ids)] :
        LET invited == {s \in Slots : p[s] \in InviteIds}
            entries == [s \in Slots |-> PartyEntry(p[s])]
            new     == {p[s] : s \in invited}
        IN  /\ \A s, t \in invited : p[s] = p[t] => s = t
            /\ status' = [status EXCEPT ![d] = "awaiting_party_wallets"]
            /\ party_slots' = [party_slots EXCEPT ![d] = entries]
            /\ draft_payload' = [draft_payload EXCEPT ![d] = entries]
            /\ ids' = ids \cup new
            /\ IF new = {} THEN Return(r)
               ELSE Goto(r, "insert", [loc[r] EXCEPT !.draft = d, !.now = clock,
                                                     !.todo = new])
    /\ UNCHANGED <<paid, storage_uploaded, agreement_pda, inv_status, inv_draft,
                   inv_expires, lockVars, clock, keeperVars, outVars>>

(* One INSERT per invitation, outside any transaction; its foreign key      *)
(* takes a share lock on the draft row.                                     *)
InsertInvitation(r, i) ==
    /\ pc[r] = "insert"
    /\ i \in loc[r].todo
    /\ DraftRowFree(loc[r].draft)
    /\ inv_status' = [inv_status EXCEPT ![i] = "pending"]
    /\ inv_draft' = [inv_draft EXCEPT ![i] = loc[r].draft]
    /\ inv_expires' = [inv_expires EXCEPT ![i] = loc[r].now + InviteExpiry]
    /\ IF loc[r].todo = {i} THEN Return(r)
       ELSE Goto(r, "insert", [loc[r] EXCEPT !.todo = @ \ {i}])
    /\ UNCHANGED <<draftVars, ids, lockVars, clock, keeperVars, outVars>>

---------------------------------------------------------------------------
(* accept_invite: one database transaction, then the notification.          *)

(* `now` is taken before the transaction starts to wait for any row. *)
AcceptBegin(r, i, w) ==
    /\ pc[r] = "idle"
    /\ inv_status[i] # "absent"
    /\ Goto(r, "lock_invite", [loc[r] EXCEPT !.invite = i, !.wallet = w,
                                             !.now = clock])
    /\ UNCHANGED <<draftVars, inviteVars, lockVars, clock, keeperVars, outVars>>

AcceptLockInvite(r) ==
    LET i == loc[r].invite IN
    /\ pc[r] = "lock_invite"
    /\ InviteRowFree(i)
    /\ \/ /\ validate_pending_invitation(i, loc[r].now)
          /\ inviteLock' = [inviteLock EXCEPT ![i] = r]
          /\ Goto(r, "lock_draft", loc[r])
       \/ /\ ~validate_pending_invitation(i, loc[r].now)
          /\ UNCHANGED inviteLock
          /\ Return(r)
    /\ UNCHANGED <<draftVars, inviteVars, draftLock, clock, keeperVars, outVars>>

AcceptLockDraft(r) ==
    LET i == loc[r].invite
        d == inv_draft[i]
    IN
    /\ pc[r] = "lock_draft"
    /\ DraftRowFree(d)
    /\ \/ /\ HasSlotFor(party_slots[d], i)
          /\ draftLock' = [draftLock EXCEPT ![d] = r]
          /\ UNCHANGED inviteLock
          /\ Goto(r, "commit",
                  [loc[r] EXCEPT !.draft = d,
                      !.slots = resolve_party_slot_pubkey(party_slots[d], i,
                                                          loc[r].wallet)])
       \/ /\ ~HasSlotFor(party_slots[d], i)
          /\ ReleaseLocks(r)
          /\ Return(r)
    /\ UNCHANGED <<draftVars, inviteVars, clock, keeperVars, outVars>>

(* Both UPDATEs become visible at the commit.  ready_at, written together   *)
(* with 'ready_to_submit' and read nowhere, is left out.                    *)
AcceptCommit(r) ==
    LET i     == loc[r].invite
        d     == loc[r].draft
        ready == all_pubkeys_resolved(loc[r].slots)
    IN
    /\ pc[r] = "commit"
    /\ inv_status' = [inv_status EXCEPT ![i] = "accepted"]
    /\ party_slots' = [party_slots EXCEPT ![d] = loc[r].slots]
    /\ status' = [status EXCEPT ![d] = IF ready THEN "ready_to_submit" ELSE @]
    /\ ReleaseLocks(r)
    /\ IF ready THEN Goto(r, "notify", [EmptyLocal EXCEPT !.draft = d])
       ELSE Return(r)
    /\ UNCHANGED <<draft_payload, paid, storage_uploaded, agreement_pda,
                   inv_draft, inv_expires, ids, clock, keeperVars, outVars>>

(* send_to_user, or enqueue_notification when the creator is offline.       *)
AcceptNotify(r) ==
    /\ pc[r] = "notify"
    /\ notified' = [notified EXCEPT ![loc[r].draft] = @ + 1]
    /\ Return(r)
    /\ UNCHANGED <<draftVars, inviteVars, lockVars, clock, keeperVars, txs>>

---------------------------------------------------------------------------
(* The creator's other requests.  ensure_creator_only compares with a       *)
(* column that is never written again, so it has no state of its own: these *)
(* are the creator's calls.                                                *)

(* No condition on the status: any draft can be discarded. *)
DeleteDraft(d) ==
    /\ status[d] # "absent"
    /\ DraftRowFree(d)
    /\ status' = [status EXCEPT ![d] = "discarded"]
    /\ UNCHANGED <<party_slots, draft_payload, paid, storage_uploaded,
                   agreement_pda, inviteVars, lockVars, reqVars, clock,
                   keeperVars, outVars>>

(* A new row for the email of an expired one; no slot learns its id. *)
ReinviteDraft(i, j) ==
    /\ inv_status[i] = "expired"
    /\ j \notin ids
    /\ DraftRowFree(inv_draft[i])
    /\ ids' = ids \cup {j}
    /\ inv_status' = [inv_status EXCEPT ![j] = "pending"]
    /\ inv_draft' = [inv_draft EXCEPT ![j] = inv_draft[i]]
    /\ inv_expires' = [inv_expires EXCEPT ![j] = clock + InviteExpiry]
    /\ UNCHANGED <<draftVars, lockVars, reqVars, clock, keeperVars, outVars>>

(* The free-tier branch of initiate_payment, as this table sees it. *)
InitiatePaymentMarksPaid(d) ==
    /\ status[d] # "absent"
    /\ DraftRowFree(d)
    /\ paid' = [paid EXCEPT ![d] = TRUE]
    /\ UNCHANGED <<status, party_slots, draft_payload, storage_uploaded,
                   agreement_pda, inviteVars, lockVars, reqVars, clock,
                   keeperVars, outVars>>

---------------------------------------------------------------------------
(* submit_draft: get_draft_row and the gates, then three writes with an RPC *)
(* call between them, no transaction around them.                           *)

SubmitBegin(r, d) ==
    /\ pc[r] = "idle"
    /\ status[d] # "absent"
    /\ evaluate_submit_gates(d)
    /\ Goto(r, "upload", [loc[r] EXCEPT !.draft = d,
                                        !.parties = PayloadParties(d)])
    /\ UNCHANGED <<draftVars, inviteVars, lockVars, clock, keeperVars, outVars>>

SubmitUpload(r) ==
    /\ pc[r] = "upload"
    /\ DraftRowFree(loc[r].draft)
    /\ storage_uploaded' = [storage_uploaded EXCEPT ![loc[r].draft] = TRUE]
    /\ Goto(r, "build", loc[r])
    /\ UNCHANGED <<status, party_slots, draft_payload, paid, agreement_pda,
                   inviteVars, lockVars, clock, keeperVars, outVars>>

(* build_create_agreement_tx asks the RPC node for rent and a blockhash. *)
SubmitBuild(r) ==
    /\ pc[r] = "build"
    /\ Goto(r, "persist", loc[r])
    /\ UNCHANGED <<draftVars, inviteVars, lockVars, clock, keeperVars,
                   outVars>>

(* The agreement id is drawn per call, so the address is r's own. *)
SubmitPersist(r) ==
    /\ pc[r] = "persist"
    /\ DraftRowFree(loc[r].draft)
    /\ agreement_pda' = [agreement_pda EXCEPT ![loc[r].draft] = r]
    /\ Goto(r, "link", loc[r])
    /\ UNCHANGED <<status, party_slots, draft_payload, paid, storage_uploaded,
                   inviteVars, lockVars, clock, keeperVars, outVars>>

(* The UPDATE of agreement_payments and the answer. *)
SubmitRespond(r) ==
    /\ pc[r] = "link"
    /\ txs' = txs \cup {[draft |-> loc[r].draft, pda |-> r,
                         parties |-> loc[r].parties]}
    /\ Return(r)
    /\ UNCHANGED <<draftVars, inviteVars, lockVars, clock, keeperVars,
                   notified>>

---------------------------------------------------------------------------
(* A statement or RPC call fails, the client goes away, or the server       *)
(* stops: the request ends where it is and its open transaction rolls back. *)

RequestFails(r) ==
    /\ pc[r] \notin {"idle", "done"}
    /\ ReleaseLocks(r)
    /\ Return(r)
    /\ UNCHANGED <<draftVars, inviteVars, clock, keeperVars, outVars>>

---------------------------------------------------------------------------
(* The keeper loop.  Scan 1 only writes the reminder columns, which nothing *)
(* here reads, and scans 4 to 7 write other tables.                         *)

KeeperWake ==
    /\ keeper = "sleep"
    /\ keeperNow' = clock
    /\ keeper' = "expire"
    /\ UNCHANGED <<draftVars, inviteVars, lockVars, reqVars, clock, outVars>>

StaleInvitation(i) == inv_status[i] = "pending" /\ inv_expires[i] < keeperNow

(* The UPDATE waits for held rows and evaluates its WHERE clause again. *)
KeeperExpire ==
    /\ keeper = "expire"
    /\ \A i \in InviteIds : StaleInvitation(i) => InviteRowFree(i)
    /\ inv_status' = [i \in InviteIds |-> IF StaleInvitation(i) THEN "expired"
                                          ELSE inv_status[i]]
    /\ keeper' = "balances"
    /\ UNCHANGED <<draftVars, inv_draft, inv_expires, ids, lockVars, reqVars,
                   clock, keeperNow, outVars>>

(* The query fails: it is logged, and the next cycle tries again. *)
KeeperExpireFails ==
    /\ keeper = "expire"
    /\ keeper' = "balances"
    /\ UNCHANGED <<draftVars, inviteVars, lockVars, reqVars, clock, keeperNow,
                   outVars>>

(* check_hot_wallet_balances: the circuit breaker is never reset. *)
KeeperBalances ==
    /\ keeper = "balances"
    /\ keeper' \in {"sleep", "disabled"}
    /\ UNCHANGED <<draftVars, inviteVars, lockVars, reqVars, clock, keeperNow,
                   outVars>>

Tick ==
    /\ clock < MaxTime
    /\ clock' = clock + 1
    /\ UNCHANGED <<draftVars, inviteVars, lockVars, reqVars, keeperVars, outVars>>

---------------------------------------------------------------------------
Init ==
    /\ status = [d \in DraftIds |-> "absent"]
    /\ party_slots = [d \in DraftIds |-> EmptyList]
    /\ draft_payload = [d \in DraftIds |-> EmptyList]
    /\ paid = [d \in DraftIds |-> FALSE]
    /\ storage_uploaded = [d \in DraftIds |-> FALSE]
    /\ agreement_pda = [d \in DraftIds |-> None]
    /\ inv_status = [i \in InviteIds |-> "absent"]
    /\ inv_draft = [i \in InviteIds |-> None]
    /\ inv_expires = [i \in InviteIds |-> 0]
    /\ ids = {}
    /\ draftLock = [d \in DraftIds |-> None]
    /\ inviteLock = [i \in InviteIds |-> None]
    /\ pc = [r \in Requests |-> "idle"]
    /\ loc = [r \in Requests |-> EmptyLocal]
    /\ clock = 0
    /\ keeper = "sleep"
    /\ keeperNow = 0
    /\ notified = [d \in DraftIds |-> 0]
    /\ txs = {}

(* A request that has started runs on by itself. *)
RequestStep(r) ==
    \/ \E i \in InviteIds : InsertInvitation(r, i)
    \/ AcceptLockInvite(r)
    \/ AcceptLockDraft(r)
    \/ AcceptCommit(r)
    \/ AcceptNotify(r)
    \/ SubmitUpload(r)
    \/ SubmitBuild(r)
    \/ SubmitPersist(r)
    \/ SubmitRespond(r)

RequestStarts(r) ==
    \/ \E d \in DraftIds : CreateAgreement(r, d) \/ SubmitBegin(r, d)
    \/ \E i \in InviteIds, w \in Wallets : AcceptBegin(r, i, w)

CreatorStep ==
    \/ \E d \in DraftIds : DeleteDraft(d) \/ InitiatePaymentMarksPaid(d)
    \/ \E i, j \in InviteIds : ReinviteDraft(i, j)

KeeperStep == KeeperWake \/ KeeperExpire \/ KeeperExpireFails \/ KeeperBalances

Next ==
    \/ \E r \in Requests : RequestStarts(r) \/ RequestStep(r) \/ RequestFails(r)
    \/ CreatorStep
    \/ KeeperStep
    \/ Tick

Spec == Init /\ [][Next]_vars

(* Fairness: tokio keeps polling a handler until it answers and wakes the   *)
(* keeper every 60 seconds; time passes.  Nobody is obliged to call the API.*)
(* Each request runs once, so a wait for a row lock needs no more than weak *)
(* fairness: whoever holds the row is itself obliged to finish.  The scan   *)
(* may fail any number of times, but not in every cycle for ever.           *)
FairSpec ==
    /\ Spec
    /\ \A r \in Requests : WF_vars(RequestStep(r))
    /\ WF_vars(KeeperStep)
    /\ SF_vars(KeeperExpire)
    /\ WF_vars(Tick)

---------------------------------------------------------------------------
(* Properties.  The payload is the party list as it was created, so an      *)
(* email slot is one whose payload entry carries an invitation id.          *)

EmailSlot(d, s) == draft_payload[d][s].invite_id # None

(* No accepted party is lost and none appears from nowhere: an email slot   *)
(* has a wallet exactly when its invitation is accepted, and until then it  *)
(* still names that invitation.  accept_invite reads party_slots, edits its *)
(* copy and writes the whole list back, so two parties of one draft that    *)
(* accept at the same time depend on the FOR UPDATE of the draft row.       *)
SlotsMatchInvitations ==
    \A d \in DraftIds, s \in Slots : EmailSlot(d, s) =>
        LET i == draft_payload[d][s].invite_id IN
        IF inv_status[i] = "accepted"
        THEN party_slots[d][s].pubkey # None /\ party_slots[d][s].invite_id = None
        ELSE party_slots[d][s] = draft_payload[d][s]

(* 'ready_to_submit' is never early and never missed: a ready draft has a   *)
(* wallet in every slot, and a draft with invited parties that still waits  *)
(* has a slot to wait for (whatever the order of accepts, discards and      *)
(* failures around it).                                                     *)
ReadyIffResolved ==
    \A d \in DraftIds :
        /\ status[d] = "ready_to_submit" => all_pubkeys_resolved(party_slots[d])
        /\ status[d] = "awaiting_party_wallets" /\ (\E s \in Slots : EmailSlot(d, s))
               => ~all_pubkeys_resolved(party_slots[d])

(* submit_draft checks its gates on a row it read earlier; still, storage   *)
(* is only recorded, and a transaction only handed out, for a draft that is *)
(* paid and whose parties have all accepted - also when the creator         *)
(* discards the draft between the check and the writes.                     *)
SubmittedOnlyIfPaidAndResolved ==
    \A d \in DraftIds :
        storage_uploaded[d] \/ agreement_pda[d] # None \/ (\E t \in txs : t.draft = d)
            => paid[d] /\ all_pubkeys_resolved(party_slots[d])

(* One accept, and only one, completes a draft: however the accepts         *)
(* interleave, at most one of them reaches the notification, so the creator *)
(* is told once.                                                            *)
CreatorNotifiedAtMostOnce ==
    \A d \in DraftIds :
        /\ notified[d] <= 1
        /\ \A r \in Requests : pc[r] = "notify" /\ loc[r].draft = d =>
               /\ notified[d] = 0
               /\ \A q \in Requests \ {r} : pc[q] = "notify" => loc[q].draft # d

(* The wallet of a slot is never replaced or removed, whoever writes the    *)
(* list next.                                                               *)
ResolvedSlotsAreFinal ==
    [][\A d \in DraftIds, s \in Slots :
          party_slots[d][s].pubkey # None =>
              party_slots'[d][s].pubkey = party_slots[d][s].pubkey]_vars

(* An invitation has one outcome: the keeper does not expire an accepted    *)
(* one, and an accept that waited behind the keeper does not revive an      *)
(* expired one.                                                             *)
InvitationOutcomeIsFinal ==
    [][\A i \in InviteIds : inv_status[i] \in {"accepted", "expired"} =>
          inv_status'[i] = inv_status[i]]_vars

(* What of the rows DraftContract speaks of. *)
ContractStage ==
    [d \in DraftIds |-> CASE status[d] = "awaiting_party_wallets" -> "waiting"
                          [] status[d] = "ready_to_submit" -> "ready"
                          [] OTHER -> status[d]]
ContractParty ==
    [d \in DraftIds |-> [s \in Slots |->
        IF party_slots[d][s].pubkey # None THEN party_slots[d][s].pubkey
        ELSE party_slots[d][s].invite_id]]
PaidDrafts == {d \in DraftIds : paid[d]}
SubmittedDrafts ==
    {d \in DraftIds : storage_uploaded[d] \/ agreement_pda[d] # None \/ \E t \in txs : t.draft = d}

Contract == INSTANCE DraftContract WITH
    Drafts <- DraftIds, Invitations <- InviteIds,
    stage <- ContractStage, party <- ContractParty, invitation <- inv_status,
    paid <- PaidDrafts, told <- notified, submitted <- SubmittedDrafts

(* The handlers, with their locks, copies and gaps between statements, look *)
(* to everybody else like the single steps of DraftContract: an acceptance  *)
(* takes effect at its commit and on the party list of that moment, and     *)
(* nothing is told or submitted of a draft but what its rows then justify.  *)
ImplementsDraftContract == Contract!Spec

(* Row locks never block each other for good: every request that starts     *)
(* gets its answer.                                                         *)
RequestsFinish == \A r \in Requests : pc[r] # "idle" ~> pc[r] = "done"

(* An invitation past its window does not stay pending, whatever scans fail *)
(* and whoever holds its row, as long as the circuit breaker has not        *)
(* stopped the keeper.                                                      *)
StaleInvitationsExpire ==
    \A i \in InviteIds :
        inv_status[i] = "pending" /\ inv_expires[i] < clock
            ~> inv_status[i] # "pending" \/ keeper = "disabled"

---------------------------------------------------------------------------
(* What the repository's documents and comments say that the code does not  *)
(* do; each is the subject of a run that finds a counterexample.            *)

(* DraftPartyEntry.pubkey is "None until invitation accepted", and the      *)
(* creator submits "the resolved party list": the transaction should name   *)
(* every party.                                                             *)
TransactionNamesEveryParty ==
    \A t \in txs : \A s \in Slots : party_slots[t.draft][s].pubkey \in t.parties
=============================================================================
