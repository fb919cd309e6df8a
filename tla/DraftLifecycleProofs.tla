------------------------ MODULE DraftLifecycleProofs ------------------------
(***************************************************************************)
(* TLAPS proofs about DraftLifecycle, for any number of drafts, parties,    *)
(* invitations, wallets and concurrent requests and any clock bound.  The   *)
(* argument is the inductive invariant IInv of DraftInvariant: one lemma    *)
(* per action shows that the action preserves it.                           *)
(***************************************************************************)
EXTENDS DraftInvariant, TLAPS

USE DEF draftVars, inviteVars, lockVars, reqVars, keeperVars, outVars

(* What the parts of IInv about the two tables depend on. *)
Tables == <<status, party_slots, draft_payload, inv_status, inv_draft, ids>>

(* Request r moves to label with locals l; every other request stays. *)
Moves(r, label, l) ==
    /\ pc' \in [Requests -> PC] /\ loc' \in [Requests -> Local]
    /\ pc'[r] = label /\ loc'[r] = l
    /\ \A q \in Requests \ {r} : pc'[q] = pc[q] /\ loc'[q] = loc[q]

(* What the end of r's transaction leaves of the row locks. *)
Releases(r) ==
    /\ draftLock' \in [DraftIds -> Requests \cup {None}]
    /\ inviteLock' \in [InviteIds -> Requests \cup {None}]
    /\ \A d \in DraftIds : draftLock[d] # r => draftLock'[d] = draftLock[d]
    /\ \A i \in InviteIds : inviteLock[i] # r => inviteLock'[i] = inviteLock[i]

---------------------------------------------------------------------------
(* Facts about the helpers *)

(* The locals of a request that has not started or has returned are typed. *)
LEMMA EmptyLocalType == EmptyLocal \in Local
BY NoneAssumption, TimeAssumption
   DEF EmptyLocal, Local, EmptyList, EmptyEntry, PartyList, DraftPartyEntry, Time

(* Goto moves one request only. *)
LEMMA GotoMoves ==
    ASSUME TypeOK, NEW r \in Requests, NEW label \in PC, NEW l \in Local,
           Goto(r, label, l)
    PROVE  Moves(r, label, l)
BY DEF TypeOK, Goto, Moves

(* Return moves one request only, to "done". *)
LEMMA ReturnMoves ==
    ASSUME TypeOK, NEW r \in Requests, Return(r)
    PROVE  Moves(r, "done", EmptyLocal)
BY EmptyLocalType, GotoMoves DEF Return, PC

(* ReleaseLocks gives up the rows of one transaction only. *)
LEMMA ReleaseLocksReleases ==
    ASSUME TypeOK, NEW r \in Requests, ReleaseLocks(r)
    PROVE  Releases(r)
BY DEF TypeOK, ReleaseLocks, Releases

(* A step that writes neither table keeps the parts about the tables. *)
LEMMA TablesFrame ==
    ASSUME IInv, UNCHANGED Tables
    PROVE  /\ AbsentInv' /\ IdsInv' /\ PayloadInv'
           /\ SlotsMatchInvitations' /\ ReadyIffResolved'
<1>1. AbsentInv' /\ PayloadInv' /\ ReadyIffResolved'
  BY DEF IInv, Tables, AbsentInv, PayloadInv, ReadyIffResolved, EmailSlot,
         all_pubkeys_resolved
<1>2. IdsInv' /\ SlotsMatchInvitations'
  BY DEF IInv, Tables, IdsInv, SlotsMatchInvitations, EmailSlot
<1> QED
  BY <1>1, <1>2

(* A step that writes neither table and starts no insertion keeps InsertInv. *)
LEMMA InsertFrame ==
    ASSUME IInv, UNCHANGED Tables, NEW r \in Requests, NEW label, NEW l,
           label # "insert", Moves(r, label, l)
    PROVE  InsertInv'
BY DEF IInv, Tables, Moves, InsertInv

---------------------------------------------------------------------------
(* The keeper and the clock *)

(* A step that only the keeper and the clock see. *)
LEMMA KeeperFrame ==
    ASSUME IInv, TypeOK',
           UNCHANGED <<draftVars, inviteVars, lockVars, reqVars, outVars>>
    PROVE  IInv'
<1>1. /\ AbsentInv' /\ IdsInv' /\ PayloadInv'
      /\ SlotsMatchInvitations' /\ ReadyIffResolved'
  BY TablesFrame DEF Tables
<1>2. InsertInv' /\ NotifyInv' /\ SubmitInv' /\ CreatorNotifiedAtMostOnce'
  BY DEF IInv, InsertInv, NotifyInv, SubmitInv, CreatorNotifiedAtMostOnce,
         all_pubkeys_resolved
<1>3. AcceptInv'
  BY DEF IInv, AcceptInv, HasSlotFor, resolve_party_slot_pubkey
<1>4. SubmittedOnlyIfPaidAndResolved'
  BY DEF IInv, SubmittedOnlyIfPaidAndResolved, all_pubkeys_resolved
<1> QED
  BY <1>1, <1>2, <1>3, <1>4 DEF IInv

(* The keeper's wake-up, its balance check and the clock preserve IInv. *)
LEMMA KeeperAndClockStep ==
    ASSUME IInv, KeeperWake \/ KeeperExpireFails \/ KeeperBalances \/ Tick
    PROVE  IInv'
<1>1. TypeOK'
  BY TimeAssumption
     DEF IInv, TypeOK, KeeperWake, KeeperExpireFails, KeeperBalances, Tick, Time
<1> QED
  BY <1>1, KeeperFrame DEF KeeperWake, KeeperExpireFails, KeeperBalances, Tick

(* Expiring the stale invitations preserves IInv: no held row is stale, and *)
(* only pending rows, never accepted ones, change.                          *)
LEMMA KeeperExpireStep == ASSUME IInv, KeeperExpire PROVE IInv'
<1> USE DEF KeeperExpire
<1>0. \A i \in InviteIds :
          /\ inv_status'[i] # inv_status[i] =>
                 /\ inv_status[i] = "pending" /\ inv_status'[i] = "expired"
                 /\ inviteLock[i] = None
          /\ inv_status[i] = "absent" <=> inv_status'[i] = "absent"
          /\ inv_status[i] = "accepted" <=> inv_status'[i] = "accepted"
  BY DEF StaleInvitation, InviteRowFree
<1>1. TypeOK'
  BY DEF IInv, TypeOK, InviteStatus
<1>2. AbsentInv' /\ PayloadInv' /\ ReadyIffResolved'
  BY DEF IInv, AbsentInv, PayloadInv, ReadyIffResolved, EmailSlot,
         all_pubkeys_resolved
<1>3. IdsInv'
  BY <1>0 DEF IInv, TypeOK, IdsInv, EmailSlot, PartyList, DraftPartyEntry
<1>4. InsertInv'
  BY <1>0 DEF IInv, TypeOK, InsertInv, Local
<1>5. AcceptInv'
  <2> SUFFICES ASSUME NEW r \in Requests
               PROVE  AcceptInv!(r)'
    BY DEF AcceptInv
  <2>1. CASE pc[r] \in {"lock_invite", "lock_draft", "commit"}
    BY <1>0, <2>1, NoneAssumption
       DEF IInv, AcceptInv, HasSlotFor, resolve_party_slot_pubkey
  <2>2. CASE pc[r] \notin {"lock_invite", "lock_draft", "commit"}
    BY <2>2
  <2> QED
    BY <2>1, <2>2
<1>6. SlotsMatchInvitations'
  BY <1>0 DEF IInv, TypeOK, SlotsMatchInvitations, EmailSlot, PartyList,
              DraftPartyEntry
<1>7. NotifyInv' /\ SubmitInv' /\ CreatorNotifiedAtMostOnce'
  BY DEF IInv, NotifyInv, SubmitInv, CreatorNotifiedAtMostOnce,
         all_pubkeys_resolved
<1>8. SubmittedOnlyIfPaidAndResolved'
  BY DEF IInv, SubmittedOnlyIfPaidAndResolved, all_pubkeys_resolved
<1> QED
  BY <1>1, <1>2, <1>3, <1>4, <1>5, <1>6, <1>7, <1>8 DEF IInv

---------------------------------------------------------------------------
(* The creator's single-statement requests *)

(* Discarding a draft preserves IInv. *)
LEMMA DeleteDraftStep ==
    ASSUME IInv, NEW d \in DraftIds, DeleteDraft(d) PROVE IInv'
<1> USE DEF DeleteDraft
<1>1. TypeOK'
  BY DEF IInv, TypeOK, DraftStatus
<1>2. AbsentInv' /\ PayloadInv' /\ ReadyIffResolved'
  BY DEF IInv, TypeOK, AbsentInv, PayloadInv, ReadyIffResolved, EmailSlot,
         all_pubkeys_resolved
<1>3. IdsInv' /\ SlotsMatchInvitations'
  BY DEF IInv, IdsInv, SlotsMatchInvitations, EmailSlot
<1>4. InsertInv' /\ NotifyInv' /\ SubmitInv' /\ CreatorNotifiedAtMostOnce'
  BY DEF IInv, InsertInv, NotifyInv, SubmitInv, CreatorNotifiedAtMostOnce,
         all_pubkeys_resolved
<1>5. AcceptInv'
  BY DEF IInv, AcceptInv, HasSlotFor, resolve_party_slot_pubkey
<1>6. SubmittedOnlyIfPaidAndResolved'
  BY DEF IInv, SubmittedOnlyIfPaidAndResolved, all_pubkeys_resolved
<1> QED
  BY <1>1, <1>2, <1>3, <1>4, <1>5, <1>6 DEF IInv

(* Marking a draft paid preserves IInv. *)
LEMMA MarksPaidStep ==
    ASSUME IInv, NEW d \in DraftIds, InitiatePaymentMarksPaid(d) PROVE IInv'
<1> USE DEF InitiatePaymentMarksPaid
<1>1. TypeOK'
  BY DEF IInv, TypeOK
<1>2. /\ AbsentInv' /\ IdsInv' /\ PayloadInv'
      /\ SlotsMatchInvitations' /\ ReadyIffResolved'
  BY TablesFrame DEF Tables
<1>3. InsertInv' /\ NotifyInv' /\ CreatorNotifiedAtMostOnce'
  BY DEF IInv, InsertInv, NotifyInv, CreatorNotifiedAtMostOnce,
         all_pubkeys_resolved
<1>4. AcceptInv'
  BY DEF IInv, AcceptInv, HasSlotFor, resolve_party_slot_pubkey
<1>5. SubmitInv' /\ SubmittedOnlyIfPaidAndResolved'
  BY DEF IInv, TypeOK, SubmitInv, SubmittedOnlyIfPaidAndResolved,
         all_pubkeys_resolved
<1> QED
  BY <1>1, <1>2, <1>3, <1>4, <1>5 DEF IInv

(* Inviting an expired party again preserves IInv: the id is new, so no     *)
(* slot and no pending insertion has it.                                    *)
LEMMA ReinviteDraftStep ==
    ASSUME IInv, NEW i \in InviteIds, NEW j \in InviteIds, ReinviteDraft(i, j)
    PROVE  IInv'
<1> USE DEF ReinviteDraft
<1>0. /\ inv_status[j] = "absent"
      /\ inv_status'[j] = "pending"
      /\ inv_draft'[j] \in DraftIds
      /\ \A k \in InviteIds \ {j} :
             inv_status'[k] = inv_status[k] /\ inv_draft'[k] = inv_draft[k]
      /\ \A d \in DraftIds, s \in Slots : draft_payload[d][s].invite_id # j
  BY NoneAssumption DEF IInv, TypeOK, IdsInv, EmailSlot
<1>1. TypeOK'
  <2>1. clock + InviteExpiry \in Nat
    BY TimeAssumption DEF IInv, TypeOK, Time
  <2> QED
    BY <2>1 DEF IInv, TypeOK, InviteStatus
<1>2. AbsentInv' /\ PayloadInv' /\ ReadyIffResolved'
  BY DEF IInv, AbsentInv, PayloadInv, ReadyIffResolved, EmailSlot,
         all_pubkeys_resolved
<1>3. IdsInv'
  BY <1>0 DEF IInv, TypeOK, IdsInv, EmailSlot, PartyList, DraftPartyEntry
<1>4. InsertInv'
  BY <1>0 DEF IInv, TypeOK, InsertInv, Local
<1>5. AcceptInv'
  BY <1>0 DEF IInv, AcceptInv, HasSlotFor, resolve_party_slot_pubkey
<1>6. SlotsMatchInvitations'
  BY <1>0 DEF IInv, TypeOK, SlotsMatchInvitations, EmailSlot, PartyList,
              DraftPartyEntry
<1>7. NotifyInv' /\ SubmitInv' /\ CreatorNotifiedAtMostOnce'
  BY DEF IInv, NotifyInv, SubmitInv, CreatorNotifiedAtMostOnce,
         all_pubkeys_resolved
<1>8. SubmittedOnlyIfPaidAndResolved'
  BY DEF IInv, SubmittedOnlyIfPaidAndResolved, all_pubkeys_resolved
<1> QED
  BY <1>1, <1>2, <1>3, <1>4, <1>5, <1>6, <1>7, <1>8 DEF IInv

---------------------------------------------------------------------------
(* Steps of a request that write neither table *)

(* Parts that a step of request r leaves alone when it writes neither table *)
(* nor paid, keeps the rows of other transactions held, and does not become *)
(* a step of the accept's transaction.                                      *)
LEMMA AcceptFrame ==
    ASSUME IInv, UNCHANGED Tables, NEW r \in Requests, NEW label, NEW l,
           label \notin {"lock_invite", "lock_draft", "commit"},
           Moves(r, label, l),
           Releases(r) \/ UNCHANGED lockVars
    PROVE  AcceptInv'
<1> SUFFICES ASSUME NEW q \in Requests
             PROVE  AcceptInv!(q)'
  BY DEF AcceptInv
<1>1. CASE q = r
  BY <1>1 DEF Moves
<1>2. CASE q # r /\ pc[q] \in {"lock_invite", "lock_draft", "commit"}
  BY <1>2 DEF IInv, AcceptInv, Tables, Moves, Releases, HasSlotFor,
              resolve_party_slot_pubkey
<1>3. CASE q # r /\ pc[q] \notin {"lock_invite", "lock_draft", "commit"}
  BY <1>3 DEF Moves
<1> QED
  BY <1>1, <1>2, <1>3

(* Sending or queueing the notification preserves IInv: this request was    *)
(* the only one to complete the draft.                                      *)
LEMMA AcceptNotifyStep ==
    ASSUME IInv, NEW r \in Requests, AcceptNotify(r) PROVE IInv'
<1> USE DEF AcceptNotify
<1>0. Moves(r, "done", EmptyLocal)
  BY ReturnMoves DEF IInv
<1>a. loc[r].draft \in DraftIds /\ all_pubkeys_resolved(party_slots[loc[r].draft])
  BY DEF IInv, NotifyInv
<1>1. TypeOK'
  BY <1>0, <1>a DEF IInv, TypeOK, Moves
<1>2. /\ AbsentInv' /\ IdsInv' /\ PayloadInv'
      /\ SlotsMatchInvitations' /\ ReadyIffResolved'
  BY TablesFrame DEF Tables
<1>3. InsertInv' /\ AcceptInv'
  BY <1>0, InsertFrame, AcceptFrame DEF Tables
<1>4. NotifyInv'
  BY <1>0, <1>a DEF IInv, TypeOK, NotifyInv, Moves, all_pubkeys_resolved
<1>5. SubmitInv'
  BY <1>0 DEF IInv, SubmitInv, SubmitPC, Moves, all_pubkeys_resolved
<1>6. SubmittedOnlyIfPaidAndResolved'
  BY DEF IInv, SubmittedOnlyIfPaidAndResolved, all_pubkeys_resolved
<1>7. CreatorNotifiedAtMostOnce'
  <2> DEFINE d == loc[r].draft
  <2>1. notified[d] = 0 /\ \A q \in Requests \ {r} : pc[q] = "notify" => loc[q].draft # d
    BY <1>a DEF IInv, CreatorNotifiedAtMostOnce
  <2>2. notified'[d] = 1 /\ \A e \in DraftIds : e # d => notified'[e] = notified[e]
    BY <1>a, <2>1 DEF IInv, TypeOK
  <2>3. \A q \in Requests : pc'[q] = "notify" =>
            q # r /\ pc[q] = "notify" /\ loc'[q] = loc[q]
    BY <1>0 DEF Moves
  <2>4. \A q \in Requests : pc[q] = "notify" => loc[q].draft \in DraftIds
    BY DEF IInv, NotifyInv
  <2> HIDE DEF d, AcceptNotify
  <2> QED
    BY <2>1, <2>2, <2>3, <2>4 DEF IInv, TypeOK, CreatorNotifiedAtMostOnce
<1> QED
  BY <1>1, <1>2, <1>3, <1>4, <1>5, <1>6, <1>7 DEF IInv

(* A request that fails, wherever it is, preserves IInv. *)
LEMMA RequestFailsStep ==
    ASSUME IInv, NEW r \in Requests, RequestFails(r) PROVE IInv'
<1> USE DEF RequestFails
<1>0. Moves(r, "done", EmptyLocal) /\ Releases(r)
  BY ReturnMoves, ReleaseLocksReleases DEF IInv
<1>1. TypeOK'
  BY <1>0 DEF IInv, TypeOK, Moves, Releases
<1>2. /\ AbsentInv' /\ IdsInv' /\ PayloadInv'
      /\ SlotsMatchInvitations' /\ ReadyIffResolved'
  BY TablesFrame DEF Tables
<1>3. InsertInv' /\ AcceptInv'
  BY <1>0, InsertFrame, AcceptFrame DEF Tables
<1>4. NotifyInv' /\ SubmitInv'
  BY <1>0 DEF IInv, NotifyInv, SubmitInv, SubmitPC, Moves, all_pubkeys_resolved
<1>5. SubmittedOnlyIfPaidAndResolved'
  BY DEF IInv, SubmittedOnlyIfPaidAndResolved, all_pubkeys_resolved
<1>6. CreatorNotifiedAtMostOnce'
  BY <1>0 DEF IInv, CreatorNotifiedAtMostOnce, Moves
<1> QED
  BY <1>1, <1>2, <1>3, <1>4, <1>5, <1>6 DEF IInv

(* Passing the gates of submit_draft preserves IInv. *)
LEMMA SubmitBeginStep ==
    ASSUME IInv, NEW r \in Requests, NEW d \in DraftIds, SubmitBegin(r, d)
    PROVE  IInv'
<1> USE DEF SubmitBegin
<1> DEFINE l == [loc[r] EXCEPT !.draft = d, !.parties = PayloadParties(d)]
<1>a. PayloadParties(d) \subseteq Wallets
  BY DEF IInv, TypeOK, PayloadParties, PartyList, DraftPartyEntry
<1>b. l \in Local /\ l.draft = d
  <2>1. loc[r] \in Local
    BY DEF IInv, TypeOK
  <2> HIDE DEF SubmitBegin
  <2> QED
    BY <1>a, <2>1 DEF Local
<1>0. Moves(r, "upload", l)
  BY <1>b, GotoMoves DEF IInv, PC, SubmitPC
<1> HIDE DEF l
<1>1. TypeOK'
  BY <1>0 DEF IInv, TypeOK, Moves
<1>2. /\ AbsentInv' /\ IdsInv' /\ PayloadInv'
      /\ SlotsMatchInvitations' /\ ReadyIffResolved'
  BY TablesFrame DEF Tables
<1>3. InsertInv' /\ AcceptInv'
  BY <1>0, InsertFrame, AcceptFrame DEF Tables
<1>4. NotifyInv'
  BY <1>0 DEF IInv, NotifyInv, Moves, all_pubkeys_resolved
<1>5. SubmitInv'
  <2>1. paid[d] /\ all_pubkeys_resolved(party_slots[d])
    BY DEF evaluate_submit_gates, IInv, ReadyIffResolved
  <2> QED
    BY <1>0, <1>b, <2>1 DEF IInv, SubmitInv, Moves, all_pubkeys_resolved
<1>6. SubmittedOnlyIfPaidAndResolved'
  BY DEF IInv, SubmittedOnlyIfPaidAndResolved, all_pubkeys_resolved
<1>7. CreatorNotifiedAtMostOnce'
  BY <1>0 DEF IInv, CreatorNotifiedAtMostOnce, Moves
<1> QED
  BY <1>1, <1>2, <1>3, <1>4, <1>5, <1>6, <1>7 DEF IInv

(* The later steps of submit_draft preserve IInv: what the gates saw - paid, *)
(* every party resolved - cannot be undone by then.                          *)
LEMMA SubmitLaterStep ==
    ASSUME IInv, NEW r \in Requests,
           \/ SubmitUpload(r) \/ SubmitBuild(r)
           \/ SubmitPersist(r) \/ SubmitRespond(r)
    PROVE  IInv'
<1> USE DEF SubmitUpload, SubmitBuild, SubmitPersist, SubmitRespond
<1> DEFINE d == loc[r].draft
<1>a. d \in DraftIds /\ paid[d] /\ all_pubkeys_resolved(party_slots[d])
  BY DEF IInv, SubmitInv, SubmitPC
<1>b. PICK label \in PC, l \in Local :
          /\ Moves(r, label, l)
          /\ label \in SubmitPC \cup {"done"}
          /\ label \in SubmitPC => l.draft = d
  <2>1. CASE SubmitRespond(r)
    BY <2>1, ReturnMoves, EmptyLocalType DEF IInv, PC, SubmitPC
  <2>2. CASE SubmitUpload(r)
    BY <2>2, GotoMoves DEF IInv, TypeOK, PC, SubmitPC
  <2>3. CASE SubmitBuild(r)
    BY <2>3, GotoMoves DEF IInv, TypeOK, PC, SubmitPC
  <2>4. CASE SubmitPersist(r)
    BY <2>4, GotoMoves DEF IInv, TypeOK, PC, SubmitPC
  <2> QED
    BY <2>1, <2>2, <2>3, <2>4
<1>c. UNCHANGED <<Tables, lockVars, paid, notified>>
  BY DEF Tables
<1>1. TypeOK'
  <2>1. loc[r].parties \subseteq Wallets
    BY DEF IInv, TypeOK, Local
  <2>2. txs' \subseteq Transaction
    <3>1. [draft |-> loc[r].draft, pda |-> r, parties |-> loc[r].parties]
              \in Transaction
      BY <1>a, <2>1 DEF Transaction
    <3> QED
      BY <3>1 DEF IInv, TypeOK
  <2> QED
    <3>1. /\ storage_uploaded' \in [DraftIds -> BOOLEAN]
          /\ agreement_pda' \in [DraftIds -> Requests \cup {None}]
      BY <1>a DEF IInv, TypeOK
    <3>2. UNCHANGED <<inv_expires, clock, keeper, keeperNow>>
      OBVIOUS
    <3> HIDE DEF SubmitUpload, SubmitBuild, SubmitPersist, SubmitRespond
    <3> QED
      BY <1>b, <1>c, <2>2, <3>1, <3>2 DEF IInv, TypeOK, Moves, Tables
<1>2. /\ AbsentInv' /\ IdsInv' /\ PayloadInv'
      /\ SlotsMatchInvitations' /\ ReadyIffResolved'
  BY <1>c, TablesFrame
<1>3. InsertInv' /\ AcceptInv'
  BY <1>b, <1>c, InsertFrame, AcceptFrame DEF SubmitPC
<1>4. NotifyInv'
  BY <1>b, <1>c DEF IInv, NotifyInv, Moves, Tables, SubmitPC, all_pubkeys_resolved
<1>5. SubmitInv'
  BY <1>a, <1>b, <1>c DEF IInv, SubmitInv, Moves, Tables, all_pubkeys_resolved
<1>6. SubmittedOnlyIfPaidAndResolved'
  <2> SUFFICES ASSUME NEW e \in DraftIds, e # d,
                      \/ storage_uploaded'[e] \/ agreement_pda'[e] # None
                      \/ \E t \in txs' : t.draft = e
               PROVE  paid[e] /\ all_pubkeys_resolved(party_slots[e])
    BY <1>a, <1>c DEF SubmittedOnlyIfPaidAndResolved, Tables, all_pubkeys_resolved
  <2>1. \/ storage_uploaded[e] \/ agreement_pda[e] # None
        \/ \E t \in txs : t.draft = e
    BY <1>a DEF IInv, TypeOK
  <2> QED
    BY <2>1 DEF IInv, SubmittedOnlyIfPaidAndResolved
<1>7. CreatorNotifiedAtMostOnce'
  BY <1>b, <1>c DEF IInv, CreatorNotifiedAtMostOnce, Moves, SubmitPC
<1> QED
  BY <1>1, <1>2, <1>3, <1>4, <1>5, <1>6, <1>7 DEF IInv

(* Starting to accept preserves IInv. *)
LEMMA AcceptBeginStep ==
    ASSUME IInv, NEW r \in Requests, NEW i \in InviteIds, NEW w \in Wallets,
           AcceptBegin(r, i, w)
    PROVE  IInv'
<1> USE DEF AcceptBegin
<1> DEFINE l == [loc[r] EXCEPT !.invite = i, !.wallet = w, !.now = clock]
<1>a. l \in Local /\ l.invite = i /\ l.wallet = w
  BY DEF IInv, TypeOK, Local
<1>0. Moves(r, "lock_invite", l)
  BY <1>a, GotoMoves DEF IInv, PC, AcceptPC
<1> HIDE DEF l
<1>1. TypeOK'
  BY <1>0 DEF IInv, TypeOK, Moves
<1>2. /\ AbsentInv' /\ IdsInv' /\ PayloadInv'
      /\ SlotsMatchInvitations' /\ ReadyIffResolved'
  BY TablesFrame DEF Tables
<1>3. InsertInv'
  BY <1>0, InsertFrame DEF Tables
<1>4. AcceptInv'
  BY <1>0, <1>a DEF IInv, AcceptInv, Moves, HasSlotFor, resolve_party_slot_pubkey
<1>5. NotifyInv' /\ SubmitInv'
  BY <1>0 DEF IInv, NotifyInv, SubmitInv, SubmitPC, Moves, all_pubkeys_resolved
<1>6. SubmittedOnlyIfPaidAndResolved'
  BY DEF IInv, SubmittedOnlyIfPaidAndResolved, all_pubkeys_resolved
<1>7. CreatorNotifiedAtMostOnce'
  BY <1>0 DEF IInv, CreatorNotifiedAtMostOnce, Moves
<1> QED
  BY <1>1, <1>2, <1>3, <1>4, <1>5, <1>6, <1>7 DEF IInv

(* Locking and checking the invitation row preserves IInv. *)
LEMMA AcceptLockInviteStep ==
    ASSUME IInv, NEW r \in Requests, AcceptLockInvite(r) PROVE IInv'
<1> USE DEF AcceptLockInvite
<1> DEFINE i == loc[r].invite
<1>a. i \in InviteIds /\ loc[r].wallet \in Wallets /\ inviteLock[i] = None
  BY DEF IInv, AcceptInv, InviteRowFree
<1>b. \/ /\ inv_status[i] = "pending" /\ Moves(r, "lock_draft", loc[r])
         /\ inviteLock' = [inviteLock EXCEPT ![i] = r]
      \/ Moves(r, "done", EmptyLocal) /\ UNCHANGED inviteLock
  BY GotoMoves, ReturnMoves
     DEF IInv, TypeOK, PC, AcceptPC, validate_pending_invitation
<1>1. TypeOK'
  BY <1>a, <1>b DEF IInv, TypeOK, Moves
<1>2. /\ AbsentInv' /\ IdsInv' /\ PayloadInv'
      /\ SlotsMatchInvitations' /\ ReadyIffResolved'
  BY TablesFrame DEF Tables
<1>3. InsertInv'
  BY <1>b, InsertFrame DEF Tables
<1>4. AcceptInv'
  <2> SUFFICES ASSUME NEW q \in Requests
               PROVE  AcceptInv!(q)'
    BY DEF AcceptInv
  <2>1. CASE q = r
    BY <1>a, <1>b, <2>1 DEF IInv, TypeOK, Moves
  <2>2. CASE q # r
    <3>1. pc'[q] = pc[q] /\ loc'[q] = loc[q]
      BY <1>b, <2>2 DEF Moves
    <3>2. pc[q] \in {"lock_draft", "commit"} =>
              inviteLock'[loc[q].invite] = inviteLock[loc[q].invite]
      BY <1>a, <1>b, NoneAssumption DEF IInv, TypeOK, AcceptInv
    <3> QED
      BY <3>1, <3>2 DEF IInv, AcceptInv, HasSlotFor, resolve_party_slot_pubkey
  <2> QED
    BY <2>1, <2>2
<1>5. NotifyInv' /\ SubmitInv'
  BY <1>b DEF IInv, NotifyInv, SubmitInv, SubmitPC, Moves, all_pubkeys_resolved
<1>6. SubmittedOnlyIfPaidAndResolved'
  BY DEF IInv, SubmittedOnlyIfPaidAndResolved, all_pubkeys_resolved
<1>7. CreatorNotifiedAtMostOnce'
  BY <1>b DEF IInv, CreatorNotifiedAtMostOnce, Moves
<1> QED
  BY <1>1, <1>2, <1>3, <1>4, <1>5, <1>6, <1>7 DEF IInv

(* Locking the draft row and editing a copy of its party list preserves     *)
(* IInv; when no slot carries the invitation the transaction rolls back.    *)
LEMMA AcceptLockDraftStep ==
    ASSUME IInv, NEW r \in Requests, AcceptLockDraft(r) PROVE IInv'
<1> USE DEF AcceptLockDraft
<1> DEFINE i == loc[r].invite
           d == inv_draft[i]
           l == [loc[r] EXCEPT !.draft = d,
                    !.slots = resolve_party_slot_pubkey(party_slots[d], i,
                                                        loc[r].wallet)]
<1>a. /\ i \in InviteIds /\ loc[r].wallet \in Wallets /\ d \in DraftIds
      /\ draftLock[d] = None /\ inviteLock[i] = r /\ inv_status[i] = "pending"
  BY DEF IInv, AcceptInv, IdsInv, DraftRowFree
<1>b. /\ l \in Local
      /\ l.draft = d /\ l.invite = i /\ l.wallet = loc[r].wallet
      /\ l.slots = resolve_party_slot_pubkey(party_slots[d], i, loc[r].wallet)
  <2>1. resolve_party_slot_pubkey(party_slots[d], i, loc[r].wallet) \in PartyList
    <3>1. party_slots[d] \in PartyList
      BY <1>a DEF IInv, TypeOK
    <3> HIDE DEF AcceptLockDraft, d, i
    <3> QED
      BY <1>a, <3>1 DEF resolve_party_slot_pubkey, PartyList, DraftPartyEntry
  <2>2. loc[r] \in Local
    BY DEF IInv, TypeOK
  <2> HIDE DEF AcceptLockDraft
  <2> QED
    BY <1>a, <2>1, <2>2 DEF Local
<1>c. \/ /\ HasSlotFor(party_slots[d], i) /\ Moves(r, "commit", l)
         /\ draftLock' = [draftLock EXCEPT ![d] = r] /\ UNCHANGED inviteLock
      \/ Moves(r, "done", EmptyLocal) /\ Releases(r)
  BY <1>b, GotoMoves, ReturnMoves, ReleaseLocksReleases DEF IInv, PC, AcceptPC
<1> HIDE DEF l
<1>1. TypeOK'
  BY <1>a, <1>c DEF IInv, TypeOK, Moves, Releases
<1>2. /\ AbsentInv' /\ IdsInv' /\ PayloadInv'
      /\ SlotsMatchInvitations' /\ ReadyIffResolved'
  BY TablesFrame DEF Tables
<1>3. InsertInv'
  BY <1>c, InsertFrame DEF Tables
<1>4. AcceptInv'
  <2>1. CASE Moves(r, "done", EmptyLocal) /\ Releases(r)
    BY <2>1, AcceptFrame DEF Tables
  <2>2. CASE /\ HasSlotFor(party_slots[d], i) /\ Moves(r, "commit", l)
             /\ draftLock' = [draftLock EXCEPT ![d] = r] /\ UNCHANGED inviteLock
    <3> SUFFICES ASSUME NEW q \in Requests
                 PROVE  AcceptInv!(q)'
      BY DEF AcceptInv
    <3>0. party_slots' = party_slots /\ inv_status' = inv_status
      OBVIOUS
    <3>1. CASE q = r
      <4>1. pc'[q] = "commit" /\ loc'[q] = l
        BY <2>2, <3>1 DEF Moves
      <4>2. draftLock'[d] = q /\ inviteLock'[i] = q
        BY <1>a, <2>2, <3>1 DEF IInv, TypeOK
      <4>3. HasSlotFor(party_slots'[d], i) /\ l.slots =
                resolve_party_slot_pubkey(party_slots'[d], i, loc[r].wallet)
        BY <1>b, <2>2, <3>0 DEF HasSlotFor, resolve_party_slot_pubkey
      <4> HIDE DEF d, i
      <4> QED
        BY <1>a, <1>b, <2>2, <3>0, <4>1, <4>2, <4>3
    <3>2. CASE q # r
      <4>1. pc'[q] = pc[q] /\ loc'[q] = loc[q]
        BY <2>2, <3>2 DEF Moves
      <4>2. pc[q] = "commit" =>
                draftLock'[loc[q].draft] = draftLock[loc[q].draft]
        BY <1>a, <2>2, NoneAssumption DEF IInv, TypeOK, AcceptInv
      <4>3. inviteLock' = inviteLock
        BY <2>2
      <4>4. AcceptInv!(q)
        BY DEF IInv, AcceptInv
      <4> HIDE DEF AcceptLockDraft, d, i
      <4>5. pc[q] = "commit" =>
                /\ HasSlotFor(party_slots'[loc[q].draft], loc[q].invite)
                /\ loc[q].slots = resolve_party_slot_pubkey(
                       party_slots'[loc[q].draft], loc[q].invite, loc[q].wallet)
        BY <3>0, <4>4
      <4>6. CASE pc[q] \in {"lock_invite", "lock_draft"}
        BY <3>0, <4>1, <4>3, <4>4, <4>6
      <4>7. CASE pc[q] = "commit"
        <5>1. pc'[q] = "commit" /\ loc'[q] = loc[q]
          BY <4>1, <4>7
        <5>2. draftLock'[loc'[q].draft] = q /\ inviteLock'[loc'[q].invite] = q
          BY <4>2, <4>3, <4>4, <4>7, <5>1
        <5>3. inv_status'[loc'[q].invite] = "pending"
          BY <3>0, <4>4, <4>7, <5>1
        <5>4. /\ HasSlotFor(party_slots'[loc'[q].draft], loc'[q].invite)
              /\ loc'[q].slots = resolve_party_slot_pubkey(
                     party_slots'[loc'[q].draft], loc'[q].invite, loc'[q].wallet)
          BY <4>5, <4>7, <5>1
        <5> QED
          BY <4>4, <4>7, <5>1, <5>2, <5>3, <5>4
             DEF HasSlotFor, resolve_party_slot_pubkey
      <4> QED
        BY <4>1, <4>6, <4>7
    <3> QED
      BY <3>1, <3>2
  <2> QED
    BY <1>c, <2>1, <2>2
<1>5. NotifyInv' /\ SubmitInv'
  <2>1. UNCHANGED <<party_slots, notified, paid>>
    OBVIOUS
  <2>2. \A q \in Requests : pc'[q] \in SubmitPC \cup {"notify"} =>
            pc[q] = pc'[q] /\ loc[q] = loc'[q]
    BY <1>c DEF Moves, SubmitPC
  <2> HIDE DEF AcceptLockDraft
  <2> QED
    BY <2>1, <2>2 DEF IInv, NotifyInv, SubmitInv, all_pubkeys_resolved
<1>6. SubmittedOnlyIfPaidAndResolved'
  BY DEF IInv, SubmittedOnlyIfPaidAndResolved, all_pubkeys_resolved
<1>7. CreatorNotifiedAtMostOnce'
  BY <1>c DEF IInv, CreatorNotifiedAtMostOnce, Moves
<1> QED
  BY <1>1, <1>2, <1>3, <1>4, <1>5, <1>6, <1>7 DEF IInv

---------------------------------------------------------------------------
(* The steps that write the tables *)

(* The commit of an accept preserves IInv.  The row locks say that the list *)
(* it writes is the current one with the slot of its own invitation - and   *)
(* no other - resolved.                                                     *)
LEMMA AcceptCommitStep ==
    ASSUME IInv, NEW r \in Requests, AcceptCommit(r) PROVE IInv'
<1> USE DEF AcceptCommit
<1> DEFINE i == loc[r].invite
           d == loc[r].draft
           w == loc[r].wallet
           nl == [EmptyLocal EXCEPT !.draft = d]
<1>a. /\ i \in InviteIds /\ w \in Wallets /\ d \in DraftIds
      /\ inv_status[i] = "pending" /\ inviteLock[i] = r /\ draftLock[d] = r
      /\ HasSlotFor(party_slots[d], i)
      /\ loc[r].slots = resolve_party_slot_pubkey(party_slots[d], i, w)
  BY DEF IInv, AcceptInv
<1>b. PICK s \in Slots : party_slots[d][s].invite_id = i
  BY <1>a DEF HasSlotFor
<1>c. EmailSlot(d, s) /\ draft_payload[d][s].invite_id = i
      /\ party_slots[d][s].pubkey = None
  <2>1. party_slots[d][s].invite_id # None
    BY <1>a, <1>b, NoneAssumption
  <2>2. EmailSlot(d, s)
    BY <1>a, <2>1 DEF IInv, PayloadInv, EmailSlot
  <2>3. party_slots[d][s] = draft_payload[d][s]
    BY <1>a, <2>1, <2>2 DEF IInv, SlotsMatchInvitations
  <2> QED
    BY <1>a, <1>b, <2>2, <2>3 DEF IInv, PayloadInv
<1>d. \A t \in Slots : t # s => party_slots[d][t].invite_id # i
  <2> SUFFICES ASSUME NEW t \in Slots, t # s, party_slots[d][t].invite_id = i
               PROVE  FALSE
    OBVIOUS
  <2>1. party_slots[d][t].invite_id # None
    BY <1>a, NoneAssumption
  <2>2. EmailSlot(d, t)
    BY <1>a, <2>1 DEF IInv, PayloadInv, EmailSlot
  <2>3. draft_payload[d][t].invite_id = i
    BY <1>a, <2>1, <2>2 DEF IInv, SlotsMatchInvitations
  <2> QED
    BY <1>a, <1>c, <2>3 DEF IInv, IdsInv
<1>e. /\ party_slots' \in [DraftIds -> PartyList]
      /\ party_slots'[d][s] = [pubkey |-> w, invite_id |-> None]
      /\ \A t \in Slots : t # s => party_slots'[d][t] = party_slots[d][t]
      /\ \A e \in DraftIds : e # d => party_slots'[e] = party_slots[e]
  <2>1. loc[r].slots \in PartyList
    BY DEF IInv, TypeOK, Local
  <2>2. party_slots'[d] = loc[r].slots
    BY <1>a DEF IInv, TypeOK
  <2>3. /\ loc[r].slots[s] = [pubkey |-> w, invite_id |-> None]
        /\ \A t \in Slots : t # s => loc[r].slots[t] = party_slots[d][t]
    BY <1>a, <1>b, <1>d DEF resolve_party_slot_pubkey
  <2> QED
    BY <1>a, <2>1, <2>2, <2>3 DEF IInv, TypeOK
<1>f. /\ inv_status'[i] = "accepted"
      /\ \A k \in InviteIds : k # i => inv_status'[k] = inv_status[k]
  BY <1>a DEF IInv, TypeOK
<1>g. all_pubkeys_resolved(loc[r].slots) <=> all_pubkeys_resolved(party_slots'[d])
  BY <1>a DEF IInv, TypeOK
<1>h. /\ \A e \in DraftIds : e # d => status'[e] = status[e]
      /\ status[d] # "absent"
      /\ status'[d] = IF all_pubkeys_resolved(party_slots'[d])
                      THEN "ready_to_submit" ELSE status[d]
  <2>1. status[d] # "absent"
    BY <1>a, <1>c, NoneAssumption
       DEF IInv, AbsentInv, EmailSlot, EmptyList, EmptyEntry
  <2> QED
    BY <1>a, <1>g, <2>1 DEF IInv, TypeOK
<1>i. ~all_pubkeys_resolved(party_slots[d])
  BY <1>c DEF all_pubkeys_resolved
<1>j. \A e \in DraftIds : all_pubkeys_resolved(party_slots[e]) =>
          e # d /\ all_pubkeys_resolved(party_slots'[e])
  BY <1>e, <1>i
<1>k. \/ /\ all_pubkeys_resolved(party_slots'[d])
         /\ Moves(r, "notify", nl)
      \/ /\ ~all_pubkeys_resolved(party_slots'[d])
         /\ Moves(r, "done", EmptyLocal)
  <2>1. nl \in Local
    BY <1>a, EmptyLocalType DEF Local
  <2> QED
    BY <1>g, <2>1, GotoMoves, ReturnMoves DEF IInv, PC, AcceptPC
<1>l. nl.draft = d
  BY DEF EmptyLocal
<1>m. Releases(r)
  BY ReleaseLocksReleases DEF IInv
<1> HIDE DEF nl
<1>1. TypeOK'
  <2>1. status' \in [DraftIds -> DraftStatus]
    BY DEF IInv, TypeOK, DraftStatus
  <2>2. inv_status' \in [InviteIds -> InviteStatus]
    BY DEF IInv, TypeOK, InviteStatus
  <2> QED
    BY <1>e, <1>k, <1>m, <2>1, <2>2 DEF IInv, TypeOK, Moves, Releases
<1>2. AbsentInv'
  BY <1>e, <1>h DEF IInv, AbsentInv
<1>3. IdsInv'
  BY <1>a, <1>f DEF IInv, TypeOK, IdsInv, EmailSlot, PartyList, DraftPartyEntry
<1>4. PayloadInv'
  BY <1>c, <1>e, <1>h DEF IInv, PayloadInv, EmailSlot
<1>5. InsertInv'
  <2>1. \A q \in Requests : pc'[q] = "insert" =>
            q # r /\ pc[q] = "insert" /\ loc'[q] = loc[q] /\ i \notin loc[q].todo
    BY <1>a, <1>k DEF IInv, InsertInv, Moves
  <2> QED
    <3> SUFFICES ASSUME NEW q \in Requests, pc'[q] = "insert"
                 PROVE  InsertInv!(q)!2'
      BY DEF InsertInv
    <3>1. draft_payload' = draft_payload
      OBVIOUS
    <3>2. \A k \in loc[q].todo : k \in InviteIds /\ inv_status'[k] = inv_status[k]
      BY <1>f, <2>1 DEF IInv, TypeOK, Local
    <3> QED
      BY <2>1, <3>1, <3>2 DEF IInv, InsertInv
<1>6. AcceptInv'
  <2> SUFFICES ASSUME NEW q \in Requests
               PROVE  AcceptInv!(q)'
    BY DEF AcceptInv
  <2>1. CASE q = r
    BY <1>k, <2>1 DEF Moves
  <2>2. CASE q # r
    <3>1. pc'[q] = pc[q] /\ loc'[q] = loc[q]
      BY <1>k, <2>2 DEF Moves
    <3>2. pc[q] \in {"lock_draft", "commit"} =>
              /\ loc[q].invite # i
              /\ inviteLock'[loc[q].invite] = inviteLock[loc[q].invite]
      BY <1>a, <1>m, <2>2 DEF IInv, AcceptInv, Releases
    <3>3. pc[q] = "commit" =>
              /\ loc[q].draft # d
              /\ draftLock'[loc[q].draft] = draftLock[loc[q].draft]
      BY <1>a, <1>m, <2>2 DEF IInv, AcceptInv, Releases
    <3>4. pc[q] = "commit" => party_slots'[loc[q].draft] = party_slots[loc[q].draft]
      BY <1>e, <3>3 DEF IInv, AcceptInv
    <3>5. pc[q] = "lock_invite" => inv_status'[loc[q].invite] # "absent"
      BY <1>f DEF IInv, AcceptInv
    <3>6. pc[q] \in {"lock_draft", "commit"} =>
              inv_status'[loc[q].invite] = inv_status[loc[q].invite]
      BY <1>f, <3>2 DEF IInv, AcceptInv
    <3>7. AcceptInv!(q)
      BY DEF IInv, AcceptInv
    <3>8. pc[q] = "commit" =>
              /\ HasSlotFor(party_slots'[loc[q].draft], loc[q].invite)
              /\ loc[q].slots = resolve_party_slot_pubkey(
                     party_slots'[loc[q].draft], loc[q].invite, loc[q].wallet)
      BY <3>4, <3>7
    <3> QED
      BY <3>1, <3>2, <3>3, <3>5, <3>6, <3>7, <3>8
         DEF HasSlotFor, resolve_party_slot_pubkey
  <2> QED
    BY <2>1, <2>2
<1>7. NotifyInv'
  <2>1. \A e \in DraftIds : notified'[e] > 0 => all_pubkeys_resolved(party_slots'[e])
    BY <1>j DEF IInv, NotifyInv
  <2>2. ASSUME NEW q \in Requests, pc'[q] = "notify"
        PROVE  loc'[q].draft \in DraftIds /\
               all_pubkeys_resolved(party_slots'[loc'[q].draft])
    <3>1. CASE q = r
      BY <1>a, <1>k, <1>l, <2>2, <3>1 DEF Moves
    <3>2. CASE q # r
      <4>1. pc[q] = "notify" /\ loc'[q] = loc[q]
        BY <1>k, <2>2, <3>2 DEF Moves
      <4> QED
        BY <1>j, <4>1 DEF IInv, NotifyInv
    <3> QED
      BY <3>1, <3>2
  <2> QED
    BY <2>1, <2>2 DEF NotifyInv, all_pubkeys_resolved
<1>8. SubmitInv'
  BY <1>j, <1>k DEF IInv, SubmitInv, SubmitPC, Moves
<1>9. SlotsMatchInvitations'
  <2> SUFFICES ASSUME NEW e \in DraftIds, NEW t \in Slots, EmailSlot(e, t)
               PROVE  IF inv_status'[draft_payload[e][t].invite_id] = "accepted"
                      THEN /\ party_slots'[e][t].pubkey # None
                           /\ party_slots'[e][t].invite_id = None
                      ELSE party_slots'[e][t] = draft_payload[e][t]
    BY DEF SlotsMatchInvitations, EmailSlot
  <2>1. draft_payload[e][t].invite_id \in InviteIds
    BY DEF EmailSlot, IInv, TypeOK, PartyList, DraftPartyEntry
  <2>2. CASE e = d /\ t = s
    BY <1>a, <1>c, <1>e, <1>f, <2>2, NoneAssumption DEF EmailSlot
  <2>3. CASE ~(e = d /\ t = s)
    <3>1. draft_payload[e][t].invite_id # i
      BY <1>a, <1>c, <2>3 DEF IInv, IdsInv
    <3>2. party_slots'[e][t] = party_slots[e][t]
      BY <1>e, <2>3
    <3> QED
      BY <1>f, <2>1, <3>1, <3>2 DEF IInv, SlotsMatchInvitations, EmailSlot
  <2> QED
    BY <2>2, <2>3
<1>10. ReadyIffResolved'
  <2> SUFFICES ASSUME NEW e \in DraftIds
               PROVE  ReadyIffResolved!(e)'
    BY DEF ReadyIffResolved
  <2>1. CASE e = d
    BY <1>h, <1>i, <2>1 DEF IInv, ReadyIffResolved
  <2>2. CASE e # d
    BY <1>e, <1>h, <2>2 DEF IInv, ReadyIffResolved, EmailSlot
  <2> QED
    BY <2>1, <2>2
<1>11. SubmittedOnlyIfPaidAndResolved'
  BY <1>j DEF IInv, SubmittedOnlyIfPaidAndResolved
<1>12. CreatorNotifiedAtMostOnce'
  <2>1. notified[d] = 0
    BY <1>a, <1>i DEF IInv, TypeOK, NotifyInv
  <2>2. \A q \in Requests : pc[q] = "notify" => loc[q].draft # d
    BY <1>a, <1>i DEF IInv, NotifyInv
  <2>3. pc'[r] # "notify" \/ loc'[r].draft = d
    BY <1>k, <1>l DEF Moves
  <2>4. \A q \in Requests : q # r => pc'[q] = pc[q] /\ loc'[q] = loc[q]
    BY <1>k DEF Moves
  <2>5. notified' = notified
    OBVIOUS
  <2> HIDE DEF d
  <2> QED
    BY <2>1, <2>2, <2>3, <2>4, <2>5 DEF IInv, CreatorNotifiedAtMostOnce
<1> QED
  BY <1>1, <1>2, <1>3, <1>4, <1>5, <1>6, <1>7, <1>8, <1>9, <1>10, <1>11, <1>12
     DEF IInv

(* create_agreement's INSERT of the draft preserves IInv: the ids it draws  *)
(* are fresh, so no other slot or row mentions them.                        *)
LEMMA CreateAgreementStep ==
    ASSUME IInv, NEW r \in Requests, NEW d \in DraftIds, CreateAgreement(r, d)
    PROVE  IInv'
<1> USE DEF CreateAgreement
<1>p. PICK p \in [Slots -> Wallets \cup (InviteIds \ ids)] :
          LET invited == {s \in Slots : p[s] \in InviteIds}
              entries == [s \in Slots |-> PartyEntry(p[s])]
              new     == {p[s] : s \in invited}
          IN  /\ \A s, t \in invited : p[s] = p[t] => s = t
              /\ status' = [status EXCEPT ![d] = "awaiting_party_wallets"]
              /\ party_slots' = [party_slots EXCEPT ![d] = entries]
              /\ draft_payload' = [draft_payload EXCEPT ![d] = entries]
              /\ ids' = ids \cup new
              /\ IF new = {} THEN Return(r)
                 ELSE Goto(r, "insert", [loc[r] EXCEPT !.draft = d, !.now = clock,
                                                       !.todo = new])
  OBVIOUS
<1> DEFINE entries == [s \in Slots |-> PartyEntry(p[s])]
           new     == {p[s] : s \in {t \in Slots : p[t] \in InviteIds}}
           l == [loc[r] EXCEPT !.draft = d, !.now = clock, !.todo = new]
<1>a. /\ new \subseteq InviteIds /\ new \cap ids = {}
      /\ status[d] = "absent" /\ party_slots[d] = EmptyList
      /\ draft_payload[d] = EmptyList
  BY NoneAssumption DEF IInv, AbsentInv
<1>b. /\ entries \in PartyList
      /\ \A s \in Slots :
             \/ /\ entries[s].pubkey # None /\ entries[s].invite_id = None
             \/ /\ entries[s].pubkey = None /\ entries[s].invite_id \in new
                /\ entries[s].invite_id # None /\ entries[s].invite_id = p[s]
  <2>1. \A s \in Slots : p[s] \in Wallets \/ p[s] \in InviteIds
    OBVIOUS
  <2> QED
    BY <2>1, NoneAssumption DEF PartyEntry, PartyList, DraftPartyEntry
<1>c. \A k \in new : \E s \in Slots : entries[s].invite_id = k
  BY NoneAssumption DEF PartyEntry
<1>d. \A s, t \in Slots :
          entries[s].invite_id \in new /\ entries[s].invite_id = entries[t].invite_id
              => s = t
  BY <1>p, <1>a, <1>b, NoneAssumption
<1>e. /\ l \in Local /\ l.draft = d /\ l.todo = new
  <2>1. loc[r] \in Local /\ clock \in Time /\ new \in SUBSET InviteIds
    BY <1>a DEF IInv, TypeOK
  <2> HIDE DEF new
  <2> QED
    BY <2>1 DEF Local
<1>f. Moves(r, "done", EmptyLocal) \/ Moves(r, "insert", l)
  BY <1>p, <1>e, GotoMoves, ReturnMoves DEF IInv, PC
<1>g. /\ status' \in [DraftIds -> DraftStatus]
      /\ status'[d] = "awaiting_party_wallets"
      /\ party_slots' \in [DraftIds -> PartyList] /\ party_slots'[d] = entries
      /\ draft_payload' \in [DraftIds -> PartyList] /\ draft_payload'[d] = entries
      /\ \A e \in DraftIds : e # d => /\ status'[e] = status[e]
                                      /\ party_slots'[e] = party_slots[e]
                                      /\ draft_payload'[e] = draft_payload[e]
      /\ ids' = ids \cup new
  BY <1>p, <1>b DEF IInv, TypeOK, DraftStatus
<1>h. ~all_pubkeys_resolved(party_slots[d])
  BY <1>a, SlotsAssumption DEF all_pubkeys_resolved, EmptyList, EmptyEntry
<1>i. \A e \in DraftIds : all_pubkeys_resolved(party_slots[e]) =>
          e # d /\ all_pubkeys_resolved(party_slots'[e])
  BY <1>g, <1>h
<1>j. \A k \in new : inv_status[k] = "absent"
  BY <1>a DEF IInv, IdsInv
<1> HIDE DEF entries, new, l
<1>1. TypeOK'
  BY <1>a, <1>f, <1>g DEF IInv, TypeOK, Moves
<1>2. AbsentInv'
  BY <1>g DEF IInv, AbsentInv
<1>3. IdsInv'
  <2>1. \A k \in InviteIds : inv_status'[k] # "absent" =>
            k \in ids' /\ inv_draft'[k] \in DraftIds
    BY <1>g DEF IInv, IdsInv
  <2>2. ASSUME NEW e \in DraftIds, NEW s \in Slots,
               draft_payload'[e][s].invite_id # None
        PROVE  LET i == draft_payload'[e][s].invite_id IN
               /\ i \in ids'
               /\ inv_status'[i] # "absent" => inv_draft'[i] = e
               /\ \A f \in DraftIds, t \in Slots :
                      draft_payload'[f][t].invite_id = i => f = e /\ t = s
    <3>1. CASE e = d
      <4>1. draft_payload'[e][s].invite_id \in new
        BY <1>b, <1>g, <2>2, <3>1
      <4>2. ASSUME NEW f \in DraftIds, NEW t \in Slots,
                   draft_payload'[f][t].invite_id = draft_payload'[e][s].invite_id
            PROVE  f = e /\ t = s
        <5>1. CASE f = d
          BY <1>d, <1>g, <3>1, <4>1, <4>2, <5>1
        <5>2. CASE f # d
          BY <1>a, <1>g, <2>2, <4>1, <4>2, <5>2 DEF IInv, IdsInv, EmailSlot
        <5> QED
          BY <5>1, <5>2
      <4> QED
        BY <1>g, <1>j, <4>1, <4>2
    <3>2. CASE e # d
      <4>1. /\ draft_payload'[e][s] = draft_payload[e][s]
            /\ draft_payload[e][s].invite_id \in ids
        BY <1>g, <2>2, <3>2 DEF IInv, IdsInv, EmailSlot
      <4>2. \A t \in Slots :
                draft_payload'[d][t].invite_id # draft_payload[e][s].invite_id
        BY <1>a, <1>b, <1>g, <2>2, <4>1
      <4> QED
        BY <1>g, <2>2, <4>1, <4>2 DEF IInv, IdsInv, EmailSlot
    <3> QED
      BY <3>1, <3>2
  <2> QED
    BY <2>1, <2>2 DEF IdsInv, EmailSlot
<1>4. PayloadInv'
  BY <1>b, <1>g DEF IInv, PayloadInv, EmailSlot
<1>5. InsertInv'
  <2>0. inv_status' = inv_status
    OBVIOUS
  <2>1. \A q \in Requests : q # r => pc'[q] = pc[q] /\ loc'[q] = loc[q]
    BY <1>f DEF Moves
  <2>2. ASSUME NEW q \in Requests, pc[q] = "insert", NEW k \in loc[q].todo
        PROVE  loc[q].draft # d /\ k \notin new
    <3>1. PICK s \in Slots : draft_payload[loc[q].draft][s].invite_id = k
      BY <2>2 DEF IInv, InsertInv
    <3>2. k \in InviteIds /\ loc[q].draft \in DraftIds
      BY <2>2 DEF IInv, InsertInv, TypeOK, Local
    <3>3. k \in ids
      BY <3>1, <3>2, NoneAssumption DEF IInv, IdsInv, EmailSlot
    <3> QED
      BY <1>a, <3>1, <3>2, <3>3, NoneAssumption DEF EmptyList, EmptyEntry
  <2>3. ASSUME NEW q \in Requests, pc'[q] = "insert"
        PROVE  loc'[q].draft \in DraftIds /\ InsertInv!(q)!2'
    <3>1. CASE q = r
      BY <1>c, <1>e, <1>f, <1>g, <1>j, <2>0, <2>1, <2>2, <2>3, <3>1 DEF Moves
    <3>2. CASE q # r
      <4>1. pc[q] = "insert" /\ loc'[q] = loc[q] /\ loc[q].draft \in DraftIds
        BY <2>1, <2>3, <3>2 DEF IInv, InsertInv
      <4>2. pc'[r] = "insert" => loc'[r].todo = new
        BY <1>e, <1>f DEF Moves
      <4> QED
        BY <1>g, <2>0, <2>1, <2>2, <4>1, <4>2 DEF IInv, InsertInv
    <3> QED
      BY <3>1, <3>2
  <2> QED
    BY <2>3 DEF InsertInv
<1>6. AcceptInv'
  <2> SUFFICES ASSUME NEW q \in Requests
               PROVE  AcceptInv!(q)'
    BY DEF AcceptInv
  <2>1. CASE q = r
    BY <1>f, <2>1 DEF Moves
  <2>2. CASE q # r
    <3>1. pc'[q] = pc[q] /\ loc'[q] = loc[q]
      BY <1>f, <2>2 DEF Moves
    <3>2. AcceptInv!(q)
      BY DEF IInv, AcceptInv
    <3>3. pc[q] = "commit" => loc[q].draft # d
      BY <1>a, <3>2, NoneAssumption DEF HasSlotFor, EmptyList, EmptyEntry
    <3>4. pc[q] = "commit" => party_slots'[loc[q].draft] = party_slots[loc[q].draft]
      BY <1>g, <3>2, <3>3
    <3>5. pc[q] = "commit" =>
              /\ HasSlotFor(party_slots'[loc[q].draft], loc[q].invite)
              /\ loc[q].slots = resolve_party_slot_pubkey(
                     party_slots'[loc[q].draft], loc[q].invite, loc[q].wallet)
      BY <3>2, <3>4
    <3> QED
      BY <3>1, <3>2, <3>5 DEF HasSlotFor, resolve_party_slot_pubkey
  <2> QED
    BY <2>1, <2>2
<1>7. NotifyInv'
  <2>1. \A q \in Requests : pc'[q] = "notify" => pc[q] = "notify" /\ loc'[q] = loc[q]
    BY <1>f DEF Moves
  <2> QED
    BY <1>i, <2>1 DEF IInv, NotifyInv
<1>8. SubmitInv'
  BY <1>f, <1>i DEF IInv, SubmitInv, SubmitPC, Moves
<1>9. SlotsMatchInvitations'
  <2> SUFFICES ASSUME NEW e \in DraftIds, NEW s \in Slots,
                      draft_payload'[e][s].invite_id # None
               PROVE  IF inv_status[draft_payload'[e][s].invite_id] = "accepted"
                      THEN /\ party_slots'[e][s].pubkey # None
                           /\ party_slots'[e][s].invite_id = None
                      ELSE party_slots'[e][s] = draft_payload'[e][s]
    BY DEF SlotsMatchInvitations, EmailSlot
  <2>1. CASE e = d
    BY <1>b, <1>g, <1>j, <2>1
  <2>2. CASE e # d
    BY <1>g, <2>2 DEF IInv, SlotsMatchInvitations, EmailSlot
  <2> QED
    BY <2>1, <2>2
<1>10. ReadyIffResolved'
  <2> SUFFICES ASSUME NEW e \in DraftIds
               PROVE  ReadyIffResolved!(e)'
    BY DEF ReadyIffResolved
  <2>1. CASE e = d
    BY <1>b, <1>g, <2>1 DEF EmailSlot, all_pubkeys_resolved
  <2>2. CASE e # d
    BY <1>g, <2>2 DEF IInv, ReadyIffResolved, EmailSlot
  <2> QED
    BY <2>1, <2>2
<1>11. SubmittedOnlyIfPaidAndResolved'
  BY <1>i DEF IInv, SubmittedOnlyIfPaidAndResolved
<1>12. CreatorNotifiedAtMostOnce'
  BY <1>f DEF IInv, CreatorNotifiedAtMostOnce, Moves
<1> QED
  BY <1>1, <1>2, <1>3, <1>4, <1>5, <1>6, <1>7, <1>8, <1>9, <1>10, <1>11, <1>12
     DEF IInv

(* Inserting an invitation row preserves IInv: the row is the one its slot  *)
(* has named since the draft was created.                                   *)
LEMMA InsertInvitationStep ==
    ASSUME IInv, NEW r \in Requests, NEW i \in InviteIds, InsertInvitation(r, i)
    PROVE  IInv'
<1> USE DEF InsertInvitation
<1> DEFINE d == loc[r].draft
           l == [loc[r] EXCEPT !.todo = @ \ {i}]
<1>a. /\ d \in DraftIds /\ i \in loc[r].todo /\ inv_status[i] = "absent"
      /\ loc[r].now + InviteExpiry \in Nat
  BY TimeAssumption DEF IInv, InsertInv, TypeOK, Local, Time
<1>b. PICK s \in Slots : draft_payload[d][s].invite_id = i
  BY <1>a DEF IInv, InsertInv
<1>c. EmailSlot(d, s) /\ i \in ids
  BY <1>a, <1>b, NoneAssumption DEF EmailSlot, IInv, IdsInv
<1>d. /\ l \in Local /\ l.draft = d /\ l.todo = loc[r].todo \ {i}
  BY DEF IInv, TypeOK, Local
<1>e. Moves(r, "done", EmptyLocal) \/ Moves(r, "insert", l)
  BY <1>d, GotoMoves, ReturnMoves DEF IInv, PC
<1>f. /\ inv_status' \in [InviteIds -> InviteStatus] /\ inv_status'[i] = "pending"
      /\ inv_draft' \in [InviteIds -> DraftIds \cup {None}] /\ inv_draft'[i] = d
      /\ inv_expires' \in [InviteIds -> Nat]
      /\ \A k \in InviteIds : k # i => /\ inv_status'[k] = inv_status[k]
                                       /\ inv_draft'[k] = inv_draft[k]
  BY <1>a DEF IInv, TypeOK, InviteStatus
<1>g. UNCHANGED <<status, party_slots, draft_payload, paid, storage_uploaded,
                  agreement_pda, ids, draftLock, inviteLock, notified, txs>>
  OBVIOUS
<1> HIDE DEF l
<1>1. TypeOK'
  BY <1>e, <1>f DEF IInv, TypeOK, Moves
<1> HIDE DEF InsertInvitation
<1>2. AbsentInv' /\ PayloadInv' /\ ReadyIffResolved'
  BY <1>g DEF IInv, AbsentInv, PayloadInv, ReadyIffResolved, EmailSlot,
              all_pubkeys_resolved
<1>3. IdsInv'
  <2>1. \A k \in InviteIds : inv_status'[k] # "absent" =>
            k \in ids' /\ inv_draft'[k] \in DraftIds
    BY <1>a, <1>c, <1>f, <1>g DEF IInv, IdsInv
  <2>2. ASSUME NEW e \in DraftIds, NEW t \in Slots, EmailSlot(e, t)
        PROVE  /\ draft_payload[e][t].invite_id \in ids
               /\ inv_status'[draft_payload[e][t].invite_id] # "absent" =>
                      inv_draft'[draft_payload[e][t].invite_id] = e
               /\ \A f \in DraftIds, u \in Slots :
                      draft_payload[f][u].invite_id = draft_payload[e][t].invite_id
                          => f = e /\ u = t
    <3>1. draft_payload[e][t].invite_id \in InviteIds
      BY <2>2 DEF EmailSlot, IInv, TypeOK, PartyList, DraftPartyEntry
    <3> QED
      BY <1>a, <1>b, <1>f, <2>2, <3>1 DEF IInv, IdsInv
  <2> QED
    BY <1>g, <2>1, <2>2 DEF IdsInv, EmailSlot
<1>4. InsertInv'
  <2>1. \A q \in Requests : q # r => pc'[q] = pc[q] /\ loc'[q] = loc[q]
    BY <1>e DEF Moves
  <2>2. pc[r] = "insert"
    BY DEF InsertInvitation
  <2>3. ASSUME NEW q \in Requests, pc'[q] = "insert"
        PROVE  InsertInv!(q)!2'
    <3>1. /\ pc[q] = "insert" /\ loc'[q].draft = loc[q].draft
          /\ loc'[q].todo \subseteq loc[q].todo /\ i \notin loc'[q].todo
          /\ loc'[q].todo \subseteq InviteIds
      <4>1. CASE q = r
        BY <1>d, <1>e, <2>2, <2>3, <4>1 DEF Moves, IInv, TypeOK, Local
      <4>2. CASE q # r
        BY <1>a, <2>1, <2>2, <2>3, <4>2 DEF IInv, InsertInv, TypeOK, Local
      <4> QED
        BY <4>1, <4>2
    <3>2. \A p \in Requests : pc'[p] = "insert" =>
              pc[p] = "insert" /\ loc'[p].todo \subseteq loc[p].todo
      BY <1>d, <1>e, <2>1, <2>2 DEF Moves
    <3> QED
      BY <1>f, <1>g, <3>1, <3>2 DEF IInv, InsertInv
  <2> QED
    BY <2>3 DEF InsertInv
<1>5. AcceptInv'
  <2> SUFFICES ASSUME NEW q \in Requests
               PROVE  AcceptInv!(q)'
    BY DEF AcceptInv
  <2>1. CASE q = r
    BY <1>e, <2>1 DEF Moves
  <2>2. CASE q # r
    <3>1. pc'[q] = pc[q] /\ loc'[q] = loc[q]
      BY <1>e, <2>2 DEF Moves
    <3>2. AcceptInv!(q)
      BY DEF IInv, AcceptInv
    <3>3. pc[q] \in {"lock_invite", "lock_draft", "commit"} =>
              inv_status'[loc[q].invite] = inv_status[loc[q].invite]
      BY <1>a, <1>f, <3>2
    <3> QED
      BY <1>g, <3>1, <3>2, <3>3 DEF HasSlotFor, resolve_party_slot_pubkey
  <2> QED
    BY <2>1, <2>2
<1>6. NotifyInv' /\ SubmitInv'
  BY <1>e, <1>g DEF IInv, NotifyInv, SubmitInv, SubmitPC, Moves, all_pubkeys_resolved
<1>7. SlotsMatchInvitations'
  <2> SUFFICES ASSUME NEW e \in DraftIds, NEW t \in Slots, EmailSlot(e, t)
               PROVE  IF inv_status'[draft_payload[e][t].invite_id] = "accepted"
                      THEN /\ party_slots[e][t].pubkey # None
                           /\ party_slots[e][t].invite_id = None
                      ELSE party_slots[e][t] = draft_payload[e][t]
    BY <1>g DEF SlotsMatchInvitations, EmailSlot
  <2>1. draft_payload[e][t].invite_id \in InviteIds
    BY DEF EmailSlot, IInv, TypeOK, PartyList, DraftPartyEntry
  <2> QED
    BY <1>a, <1>f, <2>1 DEF IInv, SlotsMatchInvitations
<1>8. SubmittedOnlyIfPaidAndResolved'
  BY <1>g DEF IInv, SubmittedOnlyIfPaidAndResolved, all_pubkeys_resolved
<1>9. CreatorNotifiedAtMostOnce'
  BY <1>e, <1>g DEF IInv, CreatorNotifiedAtMostOnce, Moves
<1> QED
  BY <1>1, <1>2, <1>3, <1>4, <1>5, <1>6, <1>7, <1>8, <1>9 DEF IInv

---------------------------------------------------------------------------
(* The invariant, and the theorems *)

(* Every initial state satisfies IInv. *)
LEMMA InitIInv == Init => IInv
<1> SUFFICES ASSUME Init PROVE IInv
  OBVIOUS
<1> USE DEF Init
<1>1. EmptyList \in PartyList /\ \A s \in Slots : EmptyList[s] = EmptyEntry
  BY NoneAssumption DEF EmptyList, EmptyEntry, PartyList, DraftPartyEntry
<1>2. TypeOK
  BY <1>1, EmptyLocalType, TimeAssumption
     DEF TypeOK, DraftStatus, InviteStatus, PC, Time
<1>3. \A d \in DraftIds, s \in Slots : ~EmailSlot(d, s)
  BY <1>1 DEF EmailSlot, EmptyEntry
<1>4. AbsentInv /\ IdsInv /\ PayloadInv /\ SlotsMatchInvitations
  BY <1>3 DEF AbsentInv, IdsInv, PayloadInv, SlotsMatchInvitations
<1>5. InsertInv /\ AcceptInv /\ NotifyInv /\ SubmitInv
  BY DEF InsertInv, AcceptInv, NotifyInv, SubmitInv, SubmitPC
<1>6. /\ ReadyIffResolved /\ SubmittedOnlyIfPaidAndResolved
      /\ CreatorNotifiedAtMostOnce
  BY DEF ReadyIffResolved, SubmittedOnlyIfPaidAndResolved,
         CreatorNotifiedAtMostOnce
<1> QED
  BY <1>2, <1>4, <1>5, <1>6 DEF IInv

(* Every step preserves IInv. *)
LEMMA NextIInv == IInv /\ [Next]_vars => IInv'
<1> SUFFICES ASSUME IInv, [Next]_vars PROVE IInv'
  OBVIOUS
<1>1. CASE \E r \in Requests : RequestStarts(r)
  BY <1>1, CreateAgreementStep, SubmitBeginStep, AcceptBeginStep DEF RequestStarts
<1>2. ASSUME NEW r \in Requests, RequestStep(r)
      PROVE  IInv'
  <2>1. CASE \E i \in InviteIds : InsertInvitation(r, i)
    BY <2>1, InsertInvitationStep
  <2>2. CASE AcceptLockInvite(r) \/ AcceptLockDraft(r)
    BY <2>2, AcceptLockInviteStep, AcceptLockDraftStep
  <2>3. CASE AcceptCommit(r) \/ AcceptNotify(r)
    BY <2>3, AcceptCommitStep, AcceptNotifyStep
  <2>4. CASE \/ SubmitUpload(r) \/ SubmitBuild(r)
             \/ SubmitPersist(r) \/ SubmitRespond(r)
    BY <2>4, SubmitLaterStep
  <2> QED
    BY <1>2, <2>1, <2>2, <2>3, <2>4 DEF RequestStep
<1>3. CASE \E r \in Requests : RequestFails(r)
  BY <1>3, RequestFailsStep
<1>4. CASE CreatorStep
  BY <1>4, DeleteDraftStep, MarksPaidStep, ReinviteDraftStep DEF CreatorStep
<1>5. CASE KeeperStep \/ Tick
  BY <1>5, KeeperAndClockStep, KeeperExpireStep DEF KeeperStep
<1>6. CASE UNCHANGED vars
  <2>1. TypeOK'
    BY <1>6 DEF vars, IInv, TypeOK
  <2> QED
    BY <1>6, <2>1, KeeperFrame DEF vars
<1> QED
  BY <1>1, <1>2, <1>3, <1>4, <1>5, <1>6 DEF Next

(* IInv holds in every reachable state. *)
THEOREM Invariance == Spec => []IInv
<1> QED
  BY InitIInv, NextIInv, PTL DEF Spec

(* Every row, lock and local variable keeps its type, for any number of     *)
(* drafts, invitations and concurrent requests.                             *)
THEOREM TypeCorrect == Spec => []TypeOK
<1>1. IInv => TypeOK
  BY DEF IInv
<1> QED
  BY <1>1, Invariance, PTL

(* accept_invite never loses or invents a party: an email slot has a wallet *)
(* exactly when its invitation is accepted.                                 *)
THEOREM NoLostAccept == Spec => []SlotsMatchInvitations
<1>1. IInv => SlotsMatchInvitations
  BY DEF IInv
<1> QED
  BY <1>1, Invariance, PTL

(* accept_invite sets 'ready_to_submit' neither early nor late.             *)
THEOREM ReadyExactly == Spec => []ReadyIffResolved
<1>1. IInv => ReadyIffResolved
  BY DEF IInv
<1> QED
  BY <1>1, Invariance, PTL

(* submit_draft records storage and hands out a transaction only for paid   *)
(* drafts with every party resolved, although it checks its gates on a row  *)
(* read earlier.                                                            *)
THEOREM SubmitGatesStayTrue == Spec => []SubmittedOnlyIfPaidAndResolved
<1>1. IInv => SubmittedOnlyIfPaidAndResolved
  BY DEF IInv
<1> QED
  BY <1>1, Invariance, PTL

(* At most one of the concurrent accepts of a draft notifies its creator.   *)
THEOREM NotifiedAtMostOnce == Spec => []CreatorNotifiedAtMostOnce
<1>1. IInv => CreatorNotifiedAtMostOnce
  BY DEF IInv
<1> QED
  BY <1>1, Invariance, PTL

(* An invitation keeps its outcome: only a pending row is ever accepted or  *)
(* expired, and the row lock keeps it pending for the accept that holds it. *)
THEOREM OutcomeIsFinal == Spec => InvitationOutcomeIsFinal
<1> DEFINE A == \A i \in InviteIds : inv_status[i] \in {"accepted", "expired"} =>
                    inv_status'[i] = inv_status[i]
<1>1. ASSUME IInv, [Next]_vars PROVE [A]_vars
  <2> SUFFICES ASSUME Next PROVE A
    BY <1>1
  <2>1. CASE \E r \in Requests : RequestStarts(r)
    BY <2>1 DEF RequestStarts, CreateAgreement, SubmitBegin, AcceptBegin
  <2>2. ASSUME NEW r \in Requests, RequestStep(r) PROVE A
    <3>1. CASE \E i \in InviteIds : InsertInvitation(r, i)
      BY <1>1, <3>1 DEF InsertInvitation, IInv, InsertInv, TypeOK
    <3>2. CASE AcceptCommit(r)
      BY <1>1, <3>2 DEF AcceptCommit, IInv, AcceptInv, TypeOK
    <3>3. CASE UNCHANGED inv_status
      BY <3>3
    <3> QED
      BY <2>2, <3>1, <3>2, <3>3
         DEF RequestStep, AcceptLockInvite, AcceptLockDraft, AcceptNotify,
             SubmitUpload, SubmitBuild, SubmitPersist, SubmitRespond
  <2>3. CASE \E r \in Requests : RequestFails(r)
    BY <2>3 DEF RequestFails
  <2>4. CASE CreatorStep
    <3>1. CASE \E i, j \in InviteIds : ReinviteDraft(i, j)
      BY <1>1, <3>1 DEF ReinviteDraft, IInv, IdsInv, TypeOK
    <3> QED
      BY <2>4, <3>1 DEF CreatorStep, DeleteDraft, InitiatePaymentMarksPaid
  <2>5. CASE KeeperStep \/ Tick
    BY <2>5 DEF KeeperStep, KeeperWake, KeeperExpire,
              KeeperExpireFails, KeeperBalances, Tick,
                StaleInvitation
  <2> QED
    BY <2>1, <2>2, <2>3, <2>4, <2>5 DEF Next
<1>2. IInv /\ [Next]_vars => [A]_vars
  BY <1>1
<1> QED
  BY <1>2, Invariance, PTL DEF Spec, InvitationOutcomeIsFinal

(* No write of a party list replaces or removes a wallet: the only list an  *)
(* accept writes is the current one with its own, empty, slot filled.       *)
THEOREM ResolvedIsFinal == Spec => ResolvedSlotsAreFinal
<1> DEFINE A == \A d \in DraftIds, s \in Slots :
                    party_slots[d][s].pubkey # None =>
                        party_slots'[d][s].pubkey = party_slots[d][s].pubkey
<1>1. ASSUME IInv, [Next]_vars PROVE [A]_vars
  <2> SUFFICES ASSUME Next PROVE A
    BY <1>1
  <2>1. CASE UNCHANGED party_slots
    BY <2>1
  <2>2. ASSUME NEW r \in Requests, NEW d \in DraftIds, CreateAgreement(r, d)
        PROVE  A
    <3>1. \A e \in DraftIds : e # d => party_slots'[e] = party_slots[e]
      BY <1>1, <2>2 DEF CreateAgreement, IInv, TypeOK
    <3>2. \A s \in Slots : party_slots[d][s].pubkey = None
      BY <1>1, <2>2 DEF CreateAgreement, IInv, AbsentInv, EmptyList, EmptyEntry
    <3> QED
      BY <3>1, <3>2
  <2>3. ASSUME NEW r \in Requests, AcceptCommit(r) PROVE A
    <3> DEFINE d == loc[r].draft
               i == loc[r].invite
    <3>1. /\ d \in DraftIds /\ i \in InviteIds
          /\ loc[r].slots = resolve_party_slot_pubkey(party_slots[d], i,
                                                      loc[r].wallet)
      BY <1>1, <2>3 DEF AcceptCommit, IInv, AcceptInv
    <3>2. \A e \in DraftIds : e # d => party_slots'[e] = party_slots[e]
      BY <1>1, <2>3, <3>1 DEF AcceptCommit, IInv, TypeOK
    <3>3. \A s \in Slots : party_slots[d][s].pubkey # None =>
              party_slots[d][s].invite_id # i
      BY <1>1, <3>1, NoneAssumption
         DEF IInv, PayloadInv, SlotsMatchInvitations, EmailSlot
    <3>4. \A s \in Slots : party_slots'[d][s] =
              IF party_slots[d][s].invite_id = i
              THEN [pubkey |-> loc[r].wallet, invite_id |-> None]
              ELSE party_slots[d][s]
      BY <1>1, <2>3, <3>1 DEF AcceptCommit, IInv, TypeOK, resolve_party_slot_pubkey
    <3> QED
      BY <3>2, <3>3, <3>4
  <2>4. \/ UNCHANGED party_slots
        \/ \E r \in Requests, d \in DraftIds : CreateAgreement(r, d)
        \/ \E r \in Requests : AcceptCommit(r)
    BY DEF Next, RequestStarts, RequestStep, SubmitBegin, AcceptBegin,
           InsertInvitation, AcceptLockInvite, AcceptLockDraft, AcceptNotify,
           SubmitUpload, SubmitBuild, SubmitPersist, SubmitRespond,
           RequestFails, CreatorStep, DeleteDraft, ReinviteDraft,
           InitiatePaymentMarksPaid, KeeperStep, KeeperWake, KeeperExpire,
           KeeperExpireFails, KeeperBalances, Tick
  <2> QED
    BY <2>1, <2>2, <2>3, <2>4
<1>2. IInv /\ [Next]_vars => [A]_vars
  BY <1>1
<1> QED
  BY <1>2, Invariance, PTL DEF Spec, ResolvedSlotsAreFinal
---------------------------------------------------------------------------
(* The contract.  What a row says of a slot, in the words of DraftContract. *)

LEMMA PartyFacts ==
    ASSUME IInv, NEW d \in DraftIds, NEW s \in Slots
    PROVE  /\ party_slots[d][s].pubkey \in Wallets \cup {None}
           /\ party_slots[d][s].invite_id \in InviteIds \cup {None}
           /\ ContractParty[d][s] = IF party_slots[d][s].pubkey # None
                                    THEN party_slots[d][s].pubkey
                                    ELSE party_slots[d][s].invite_id
           /\ ContractParty[d][s] \in Wallets <=> party_slots[d][s].pubkey # None
           /\ ContractParty[d][s] \in InviteIds =>
                  /\ party_slots[d][s].pubkey = None
                  /\ draft_payload[d][s].invite_id = ContractParty[d][s]
                  /\ EmailSlot(d, s)
<1>1. party_slots[d][s] \in DraftPartyEntry
  BY DEF IInv, TypeOK, PartyList
<1>2. /\ party_slots[d][s].pubkey \in Wallets \cup {None}
      /\ party_slots[d][s].invite_id \in InviteIds \cup {None}
  BY <1>1 DEF DraftPartyEntry
<1>3. ContractParty[d][s] = IF party_slots[d][s].pubkey # None
                            THEN party_slots[d][s].pubkey
                            ELSE party_slots[d][s].invite_id
  BY DEF ContractParty
<1>4. ContractParty[d][s] \in Wallets <=> party_slots[d][s].pubkey # None
  BY <1>2, <1>3, NoneAssumption
<1>5. ASSUME ContractParty[d][s] \in InviteIds
      PROVE  /\ party_slots[d][s].pubkey = None
             /\ draft_payload[d][s].invite_id = ContractParty[d][s]
             /\ EmailSlot(d, s)
  <2>1. /\ party_slots[d][s].pubkey = None
        /\ party_slots[d][s].invite_id = ContractParty[d][s]
        /\ ContractParty[d][s] # None
    BY <1>2, <1>3, <1>5, NoneAssumption
  <2>2. EmailSlot(d, s)
    BY <2>1 DEF IInv, PayloadInv, EmailSlot
  <2>3. party_slots[d][s] = draft_payload[d][s]
    BY <2>1, <2>2 DEF IInv, SlotsMatchInvitations
  <2> QED
    BY <2>1, <2>2, <2>3
<1> QED
  BY <1>2, <1>3, <1>4, <1>5

LEMMA CompleteMeansResolved ==
    ASSUME IInv, NEW d \in DraftIds
    PROVE  Contract!Complete(ContractParty[d]) <=> all_pubkeys_resolved(party_slots[d])
  BY PartyFacts DEF Contract!Complete, all_pubkeys_resolved

(* Replacing one party list. *)
LEMMA ContractPartyIs ==
    ASSUME NEW d \in DraftIds, NEW list, ContractParty'[d] = list,
           \A e \in DraftIds \ {d} : ContractParty'[e] = ContractParty[e]
    PROVE  ContractParty' = [ContractParty EXCEPT ![d] = list]
<1>1. /\ ContractParty' = [e \in DraftIds |-> ContractParty'[e]]
      /\ ContractParty = [e \in DraftIds |-> ContractParty[e]]
  BY DEF ContractParty
<1> QED
  BY <1>1

(* Steps that touch none of the rows the contract speaks of. *)
LEMMA ContractFrame ==
    ASSUME UNCHANGED <<draftVars, inv_status, outVars>>
    PROVE  UNCHANGED Contract!vars
  BY DEF draftVars, outVars, Contract!vars, ContractStage, ContractParty, PaidDrafts,
         SubmittedDrafts

LEMMA CreateAgreementKeepsContract ==
    ASSUME IInv, NEW r \in Requests, NEW d \in DraftIds, CreateAgreement(r, d)
    PROVE  Contract!Create(d)
<1>1. PICK p \in [Slots -> Wallets \cup (InviteIds \ ids)] :
          /\ \A s, t \in {u \in Slots : p[u] \in InviteIds} : p[s] = p[t] => s = t
          /\ status' = [status EXCEPT ![d] = "awaiting_party_wallets"]
          /\ party_slots' = [party_slots EXCEPT ![d] = [s \in Slots |-> PartyEntry(p[s])]]
  BY DEF CreateAgreement
<1>2. UNCHANGED <<paid, storage_uploaded, agreement_pda, inv_status, notified, txs>>
  BY DEF CreateAgreement, outVars
<1>3. status[d] = "absent"
  BY DEF CreateAgreement
<1>4. ASSUME NEW i \in InviteIds \ ids PROVE i \in Contract!Fresh
  <2>1. inv_status[i] = "absent"
    BY DEF IInv, IdsInv
  <2>2. ASSUME NEW e \in DraftIds, NEW s \in Slots PROVE ContractParty[e][s] # i
    <3>1. SUFFICES ASSUME ContractParty[e][s] = i PROVE FALSE
      OBVIOUS
    <3>2. EmailSlot(e, s) /\ draft_payload[e][s].invite_id = i
      BY <3>1, PartyFacts
    <3> QED
      BY <3>2 DEF IInv, IdsInv
  <2> QED
    BY <2>1, <2>2 DEF Contract!Fresh
<1>5. p \in [Slots -> Wallets \cup Contract!Fresh]
  BY <1>4
<1>6. ASSUME NEW s \in Slots
      PROVE  (IF PartyEntry(p[s]).pubkey # None THEN PartyEntry(p[s]).pubkey
              ELSE PartyEntry(p[s]).invite_id) = p[s]
  BY NoneAssumption DEF PartyEntry
<1>7. ContractParty' = [ContractParty EXCEPT ![d] = p]
  <2>1. \A e \in DraftIds :
            party_slots'[e] = IF e = d THEN [s \in Slots |-> PartyEntry(p[s])] ELSE party_slots[e]
    BY <1>1 DEF IInv, TypeOK
  <2>2. ContractParty'[d] = p
    <3>1. ContractParty'[d] = [s \in Slots |->
              IF PartyEntry(p[s]).pubkey # None THEN PartyEntry(p[s]).pubkey
              ELSE PartyEntry(p[s]).invite_id]
      BY <2>1 DEF ContractParty
    <3> QED
      BY <1>6, <3>1
  <2>3. \A e \in DraftIds \ {d} : ContractParty'[e] = ContractParty[e]
    BY <2>1 DEF ContractParty
  <2> QED
    BY <2>2, <2>3, ContractPartyIs
<1>8. \A s, t \in Slots : p[s] = p[t] /\ p[s] \in InviteIds => s = t
  BY <1>1
<1>9. ContractStage[d] = "absent" /\ ContractStage' = [ContractStage EXCEPT ![d] = "waiting"]
  BY <1>1, <1>3 DEF ContractStage, IInv, TypeOK
<1>10. UNCHANGED <<inv_status, PaidDrafts, notified, SubmittedDrafts>>
  BY <1>2 DEF PaidDrafts, SubmittedDrafts
<1> QED
  BY <1>5, <1>7, <1>8, <1>9, <1>10 DEF Contract!Create

(* The commit is the step in which an acceptance takes place. *)
LEMMA AcceptCommitKeepsContract ==
    ASSUME IInv, NEW r \in Requests, AcceptCommit(r)
    PROVE  \E d \in DraftIds, s \in Slots, w \in Wallets : Contract!Accept(d, s, w)
<1> DEFINE i == loc[r].invite
           d == loc[r].draft
           w == loc[r].wallet
<1>1. /\ d \in DraftIds /\ i \in InviteIds /\ w \in Wallets
      /\ inv_status[i] = "pending"
      /\ HasSlotFor(party_slots[d], i)
      /\ loc[r].slots = resolve_party_slot_pubkey(party_slots[d], i, w)
  BY DEF AcceptCommit, IInv, AcceptInv
<1>2. PICK s \in Slots : party_slots[d][s].invite_id = i
  BY <1>1 DEF HasSlotFor
<1>3. ASSUME NEW t \in Slots, party_slots[d][t].invite_id = i
      PROVE  EmailSlot(d, t) /\ draft_payload[d][t].invite_id = i /\ party_slots[d][t].pubkey = None
  <2>1. EmailSlot(d, t)
    BY <1>1, <1>3, NoneAssumption DEF IInv, PayloadInv, EmailSlot
  <2>2. party_slots[d][t] = draft_payload[d][t] /\ draft_payload[d][t].pubkey = None
    BY <1>1, <1>3, <2>1, NoneAssumption DEF IInv, SlotsMatchInvitations, PayloadInv
  <2> QED
    BY <1>3, <2>1, <2>2
<1>4. \A t \in Slots : party_slots[d][t].invite_id = i <=> t = s
  BY <1>1, <1>2, <1>3 DEF IInv, IdsInv
<1>5. ContractParty[d][s] = i
  BY <1>1, <1>2, <1>3 DEF ContractParty
<1> DEFINE list == [ContractParty[d] EXCEPT ![s] = w]
<1>6. \A t \in Slots : loc[r].slots[t] = IF t = s THEN [pubkey |-> w, invite_id |-> None]
                                         ELSE party_slots[d][t]
  BY <1>1, <1>4 DEF resolve_party_slot_pubkey
<1>7. list = [t \in Slots |-> IF loc[r].slots[t].pubkey # None THEN loc[r].slots[t].pubkey
                              ELSE loc[r].slots[t].invite_id]
  <2>1. ContractParty[d] = [t \in Slots |-> ContractParty[d][t]]
    BY <1>1 DEF ContractParty
  <2>2. \A t \in Slots : ContractParty[d][t] = IF party_slots[d][t].pubkey # None
                                               THEN party_slots[d][t].pubkey
                                               ELSE party_slots[d][t].invite_id
    BY <1>1 DEF ContractParty
  <2>3. ASSUME NEW t \in Slots
        PROVE  list[t] = IF loc[r].slots[t].pubkey # None THEN loc[r].slots[t].pubkey
                         ELSE loc[r].slots[t].invite_id
    <3>1. CASE t = s
      BY <1>1, <1>6, <2>1, <3>1, NoneAssumption
    <3>2. CASE t # s
      BY <1>6, <2>1, <2>2, <3>2
    <3> QED
      BY <3>1, <3>2
  <2>4. list = [t \in Slots |-> list[t]]
    BY <2>1
  <2> HIDE DEF list
  <2> QED
    BY <2>3, <2>4
<1>8. /\ inv_status' = [inv_status EXCEPT ![i] = "accepted"]
      /\ party_slots' = [party_slots EXCEPT ![d] = loc[r].slots]
      /\ status' = [status EXCEPT ![d] = IF all_pubkeys_resolved(loc[r].slots)
                                         THEN "ready_to_submit" ELSE status[d]]
      /\ UNCHANGED <<paid, storage_uploaded, agreement_pda, notified, txs>>
  BY DEF AcceptCommit, outVars
<1>9. ContractParty' = [ContractParty EXCEPT ![d] = list]
  <2>1. \A e \in DraftIds : party_slots'[e] = IF e = d THEN loc[r].slots ELSE party_slots[e]
    BY <1>1, <1>8 DEF IInv, TypeOK
  <2> HIDE DEF i, d, w, list
  <2>2. ContractParty'[d] = list
    BY <1>1, <1>7, <2>1 DEF ContractParty
  <2>3. \A e \in DraftIds \ {d} : ContractParty'[e] = ContractParty[e]
    BY <2>1 DEF ContractParty
  <2> QED
    BY <1>1, <2>2, <2>3, ContractPartyIs
<1>10. Contract!Complete(list) <=> all_pubkeys_resolved(loc[r].slots)
  <2>1. ASSUME NEW t \in Slots PROVE list[t] \in Wallets <=> loc[r].slots[t].pubkey # None
    <3>1. CASE t = s
      <4>1. loc[r].slots[t].pubkey = w /\ w \in Wallets /\ w # None
        BY <1>1, <1>6, <3>1, NoneAssumption
      <4>2. list[t] = loc[r].slots[t].pubkey
        <5> HIDE DEF list, w
        <5> QED
          BY <1>7, <4>1
      <4> QED
        BY <4>1, <4>2
    <3>2. CASE t # s
      <4>1. loc[r].slots[t] = party_slots[d][t] /\ list[t] = ContractParty[d][t]
        BY <1>6, <1>7, <3>2 DEF ContractParty
      <4> QED
        BY <1>1, <4>1, PartyFacts
    <3> QED
      BY <3>1, <3>2
  <2> HIDE DEF list
  <2> QED
    BY <2>1 DEF Contract!Complete, all_pubkeys_resolved
<1>11. ContractStage' = [ContractStage EXCEPT ![d] =
           IF Contract!Complete(list) THEN "ready" ELSE ContractStage[d]]
  <2> HIDE DEF list, i, d, w
  <2>1. \A e \in DraftIds : status'[e] =
            IF e = d /\ Contract!Complete(list) THEN "ready_to_submit" ELSE status[e]
    BY <1>1, <1>8, <1>10 DEF IInv, TypeOK
  <2> QED
    BY <1>1, <2>1 DEF ContractStage
<1>12. UNCHANGED <<PaidDrafts, notified, SubmittedDrafts>>
  BY <1>8 DEF PaidDrafts, SubmittedDrafts
<1>13. Contract!Accept(d, s, w)
  <2> HIDE DEF i, d, w
  <2> QED
    BY <1>1, <1>5, <1>8, <1>9, <1>11, <1>12 DEF Contract!Accept
<1> QED
  BY <1>1, <1>13

(* The three writes of submit_draft show as one submission; the later ones  *)
(* change nothing that was not so before.                                   *)
LEMMA SubmitKeepsContract ==
    ASSUME IInv, NEW r \in Requests, SubmitUpload(r) \/ SubmitPersist(r) \/ SubmitRespond(r)
    PROVE  Contract!Submit(loc[r].draft) /\ loc[r].draft \in DraftIds
<1> DEFINE d == loc[r].draft
<1>1. d \in DraftIds /\ paid[d] /\ all_pubkeys_resolved(party_slots[d])
  BY DEF SubmitUpload, SubmitPersist, SubmitRespond, IInv, SubmitInv, SubmitPC
<1>2. UNCHANGED <<status, party_slots, inv_status, paid, notified>>
  BY DEF SubmitUpload, SubmitPersist, SubmitRespond, inviteVars, draftVars, outVars
<1>3. Contract!Complete(ContractParty[d])
  BY <1>1, CompleteMeansResolved
<1>4. SubmittedDrafts' = SubmittedDrafts \cup {d}
  <2>1. CASE SubmitUpload(r)
    BY <1>1, <2>1 DEF SubmitUpload, SubmittedDrafts, outVars, IInv, TypeOK
  <2>2. CASE SubmitPersist(r)
    BY <1>1, <2>2, NoneAssumption DEF SubmitPersist, SubmittedDrafts, outVars, IInv, TypeOK
  <2>3. CASE SubmitRespond(r)
    <3>1. /\ txs' = txs \cup {[draft |-> d, pda |-> r, parties |-> loc[r].parties]}
          /\ UNCHANGED <<storage_uploaded, agreement_pda>>
      BY <2>3 DEF SubmitRespond, draftVars
    <3> DEFINE x == [draft |-> d, pda |-> r, parties |-> loc[r].parties]
    <3>2. \A e : (\E t \in txs' : t.draft = e) <=> e = d \/ \E t \in txs : t.draft = e
      <4>1. x.draft = d /\ txs' = txs \cup {x}
        BY <3>1
      <4> HIDE DEF x, d
      <4> QED
        BY <4>1
    <3> HIDE DEF d
    <3> QED
      BY <1>1, <3>1, <3>2 DEF SubmittedDrafts
  <2> QED
    BY <2>1, <2>2, <2>3
<1>5. UNCHANGED <<ContractStage, ContractParty, PaidDrafts>>
  BY <1>2 DEF ContractStage, ContractParty, PaidDrafts
<1> QED
  BY <1>1, <1>2, <1>3, <1>4, <1>5 DEF Contract!Submit, PaidDrafts

LEMMA NotifyKeepsContract ==
    ASSUME IInv, NEW r \in Requests, AcceptNotify(r)
    PROVE  Contract!Tell(loc[r].draft) /\ loc[r].draft \in DraftIds
<1> DEFINE d == loc[r].draft
<1>1. d \in DraftIds /\ all_pubkeys_resolved(party_slots[d])
  BY DEF AcceptNotify, IInv, NotifyInv
<1>2. notified[d] = 0 /\ notified' = [notified EXCEPT ![d] = 1]
  <2>1. notified[d] = 0
    BY <1>1 DEF AcceptNotify, IInv, CreatorNotifiedAtMostOnce
  <2>2. notified' = [notified EXCEPT ![d] = notified[d] + 1]
    BY DEF AcceptNotify
  <2> QED
    BY <2>1, <2>2
<1>3. UNCHANGED <<draftVars, inv_status, txs>>
  BY DEF AcceptNotify, inviteVars
<1>4. UNCHANGED <<ContractStage, ContractParty, PaidDrafts, SubmittedDrafts>>
  BY <1>3 DEF draftVars, ContractStage, ContractParty, PaidDrafts, SubmittedDrafts
<1> QED
  BY <1>1, <1>2, <1>3, <1>4, CompleteMeansResolved DEF Contract!Tell

LEMMA CreatorKeepsContract ==
    ASSUME IInv, NEW d \in DraftIds
    PROVE  /\ DeleteDraft(d) => Contract!Discard(d)
           /\ InitiatePaymentMarksPaid(d) => Contract!Pay(d)
<1>1. ASSUME DeleteDraft(d) PROVE Contract!Discard(d)
  <2>1. /\ status[d] # "absent" /\ status' = [status EXCEPT ![d] = "discarded"]
        /\ UNCHANGED <<party_slots, paid, storage_uploaded, agreement_pda, inv_status, notified, txs>>
    BY <1>1 DEF DeleteDraft, inviteVars, outVars
  <2>2. UNCHANGED <<ContractParty, PaidDrafts, SubmittedDrafts>>
    BY <2>1 DEF ContractParty, PaidDrafts, SubmittedDrafts
  <2>3. ContractStage[d] # "absent" /\ ContractStage' = [ContractStage EXCEPT ![d] = "discarded"]
    BY <2>1 DEF ContractStage, IInv, TypeOK
  <2> QED
    BY <2>1, <2>2, <2>3 DEF Contract!Discard
<1>2. ASSUME InitiatePaymentMarksPaid(d) PROVE Contract!Pay(d)
  <2>1. /\ status[d] # "absent" /\ paid' = [paid EXCEPT ![d] = TRUE]
        /\ UNCHANGED <<status, party_slots, storage_uploaded, agreement_pda, inv_status, notified, txs>>
    BY <1>2 DEF InitiatePaymentMarksPaid, inviteVars, outVars
  <2>2. UNCHANGED <<ContractStage, ContractParty, SubmittedDrafts>>
    BY <2>1 DEF ContractStage, ContractParty, SubmittedDrafts
  <2>3. ContractStage[d] # "absent"
    BY <2>1 DEF ContractStage
  <2>4. PaidDrafts' = PaidDrafts \cup {d}
    BY <2>1, Zenon DEF PaidDrafts, IInv, TypeOK
  <2> QED
    BY <2>1, <2>2, <2>3, <2>4 DEF Contract!Pay
<1> QED
  BY <1>1, <1>2

(* Both ways a row of party_invitations comes into being. *)
LEMMA InviteKeepsContract ==
    ASSUME IInv, NEW i \in InviteIds, inv_status[i] = "absent",
           inv_status' = [inv_status EXCEPT ![i] = "pending"], UNCHANGED <<draftVars, outVars>>
    PROVE  Contract!Invite(i)
<1>1. UNCHANGED <<ContractStage, ContractParty, PaidDrafts, SubmittedDrafts, notified>>
  BY DEF draftVars, outVars, ContractStage, ContractParty, PaidDrafts, SubmittedDrafts
<1> QED
  BY <1>1 DEF Contract!Invite

LEMMA KeeperKeepsContract ==
    ASSUME IInv, KeeperExpire
    PROVE  \E stale \in SUBSET InviteIds : Contract!Expire(stale)
<1> DEFINE stale == {i \in InviteIds : StaleInvitation(i)}
<1>1. /\ inv_status' = [i \in InviteIds |-> IF i \in stale THEN "expired" ELSE inv_status[i]]
      /\ \A i \in stale : inv_status[i] = "pending"
      /\ UNCHANGED <<draftVars, outVars>>
  BY DEF KeeperExpire, StaleInvitation
<1>2. UNCHANGED <<ContractStage, ContractParty, PaidDrafts, SubmittedDrafts, notified>>
  BY <1>1 DEF draftVars, outVars, ContractStage, ContractParty, PaidDrafts, SubmittedDrafts
<1>3. Contract!Expire(stale)
  BY <1>1, <1>2 DEF Contract!Expire
<1> QED
  BY <1>3

LEMMA StepKeepsContract == IInv /\ [Next]_vars => [Contract!Next]_(Contract!vars)
<1> SUFFICES ASSUME IInv, [Next]_vars PROVE Contract!Next \/ UNCHANGED Contract!vars
  OBVIOUS
<1>1. CASE UNCHANGED vars
  BY <1>1, ContractFrame DEF vars, inviteVars
<1>2. ASSUME NEW r \in Requests, RequestStarts(r)
      PROVE  Contract!Next \/ UNCHANGED Contract!vars
  <2>1. CASE \E d \in DraftIds : CreateAgreement(r, d)
    BY <2>1, CreateAgreementKeepsContract DEF Contract!Next, Contract!DraftStep
  <2>2. CASE \/ \E d \in DraftIds : SubmitBegin(r, d)
             \/ \E i \in InviteIds, w \in Wallets : AcceptBegin(r, i, w)
    BY <2>2, ContractFrame DEF SubmitBegin, AcceptBegin, inviteVars
  <2> QED
    BY <1>2, <2>1, <2>2 DEF RequestStarts
<1>3. ASSUME NEW r \in Requests, RequestStep(r) \/ RequestFails(r)
      PROVE  Contract!Next \/ UNCHANGED Contract!vars
  <2>1. ASSUME NEW i \in InviteIds, InsertInvitation(r, i)
        PROVE  Contract!Next
    <3>1. inv_status[i] = "absent"
      BY <2>1 DEF InsertInvitation, IInv, InsertInv
    <3>2. Contract!Invite(i)
      BY <2>1, <3>1, InviteKeepsContract DEF InsertInvitation
    <3> QED
      BY <3>2 DEF Contract!Next
  <2>2. CASE AcceptCommit(r)
    BY <2>2, AcceptCommitKeepsContract DEF Contract!Next, Contract!DraftStep
  <2>3. CASE AcceptNotify(r)
    BY <2>3, NotifyKeepsContract DEF Contract!Next, Contract!DraftStep
  <2>4. CASE SubmitUpload(r) \/ SubmitPersist(r) \/ SubmitRespond(r)
    BY <2>4, SubmitKeepsContract DEF Contract!Next, Contract!DraftStep
  <2>5. CASE AcceptLockInvite(r) \/ AcceptLockDraft(r) \/ SubmitBuild(r) \/ RequestFails(r)
    BY <2>5, ContractFrame DEF AcceptLockInvite, AcceptLockDraft, SubmitBuild, RequestFails,
                               inviteVars
  <2> QED
    BY <1>3, <2>1, <2>2, <2>3, <2>4, <2>5 DEF RequestStep
<1>4. CASE CreatorStep
  <2>1. CASE \E d \in DraftIds : DeleteDraft(d) \/ InitiatePaymentMarksPaid(d)
    BY <2>1, CreatorKeepsContract DEF Contract!Next, Contract!DraftStep
  <2>2. ASSUME NEW i \in InviteIds, NEW j \in InviteIds, ReinviteDraft(i, j)
        PROVE  Contract!Next
    <3>1. inv_status[j] = "absent"
      BY <2>2 DEF ReinviteDraft, IInv, IdsInv
    <3>2. Contract!Invite(j)
      BY <2>2, <3>1, InviteKeepsContract DEF ReinviteDraft
    <3> QED
      BY <3>2 DEF Contract!Next
  <2> QED
    BY <1>4, <2>1, <2>2 DEF CreatorStep
<1>5. CASE KeeperStep \/ Tick
  <2>1. CASE KeeperExpire
    BY <2>1, KeeperKeepsContract DEF Contract!Next
  <2>2. CASE KeeperWake \/ KeeperExpireFails \/ KeeperBalances \/ Tick
    BY <2>2, ContractFrame DEF KeeperWake, KeeperExpireFails, KeeperBalances, Tick, inviteVars
  <2> QED
    BY <1>5, <2>1, <2>2 DEF KeeperStep
<1> QED
  BY <1>1, <1>2, <1>3, <1>4, <1>5 DEF Next

(* The handlers of drafts and invitations, for any number of drafts and     *)
(* concurrent requests, behave as if each took effect in one step: what the *)
(* row locks of accept_invite are for.                                      *)
THEOREM RefinesContract == Spec => ImplementsDraftContract
<1>1. Init => Contract!Init
  <2> SUFFICES ASSUME Init PROVE Contract!Init
    OBVIOUS
  <2>1. ContractStage = [d \in DraftIds |-> "absent"]
    BY DEF Init, ContractStage
  <2>2. ContractParty = [d \in DraftIds |-> [s \in Slots |-> None]]
    BY DEF Init, ContractParty, EmptyList, EmptyEntry
  <2>3. PaidDrafts = {} /\ SubmittedDrafts = {}
    BY DEF Init, PaidDrafts, SubmittedDrafts
  <2> QED
    BY <2>1, <2>2, <2>3 DEF Init, Contract!Init
<1> QED
  BY <1>1, StepKeepsContract, Invariance, PTL DEF Spec, ImplementsDraftContract, Contract!Spec
=============================================================================
