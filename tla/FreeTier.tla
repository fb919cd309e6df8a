------------------------------ MODULE FreeTier ------------------------------
(***************************************************************************)
(* The lifetime allowance of free agreements: user_agreement_counts, and    *)
(* the two handlers that consult it -                                       *)
(*                                                                         *)
(*   POST /agreement               create_agreement   handlers/agreement.rs *)
(*   POST /payment/initiate/{id}   initiate_payment   handlers/payment.rs   *)
(*                                                                         *)
(* Neither uses a transaction: each reads free_used with a SELECT and acts  *)
(* on the answer several statements later, while other requests of the same *)
(* user do the same.  A handler slot is reused as soon as its request is    *)
(* answered, so the number of requests is unbounded and Cardinality(        *)
(* Handlers) is the number of them that can be in flight together.          *)
(***************************************************************************)
EXTENDS Naturals, FiniteSets

CONSTANTS
    Users,      \* user_accounts.id
    DraftIds,   \* agreement_drafts.id
    Handlers,   \* requests being handled at the same time
    None,       \* no such row, no user
    FreeTier,   \* config.platform_fee_free_tier
    MaxDirect   \* bound on the agreements the free branch hands out

ASSUME FreeTierAssumption == FreeTier \in Nat /\ MaxDirect \in Nat

ASSUME HandlersAssumption ==
    /\ IsFiniteSet(Handlers) /\ Handlers # {}
    /\ IsFiniteSet(DraftIds)

ASSUME NoneAssumption == None \notin Users /\ None \notin DraftIds

VARIABLES
    creator,    \* agreement_drafts.creator_pubkey (its user), None: no row
    paid,       \* agreement_drafts.paid
    free_used,  \* user_agreement_counts.free_used, 0 without a row
    direct,     \* agreements handed out by create_agreement's free branch
    answer,     \* the last answer of initiate_payment about each draft
    lost,       \* users with a request that failed between its two UPDATEs
    pc,         \* where each handler is
    who,        \* auth.user_id of the request it handles
    draft       \* draft_id of that request

vars == <<creator, paid, free_used, direct, answer, lost, pc, who, draft>>

PC == {"idle", "insert", "build", "mark", "count"}
Answers == {"none", "free", "pending", "unsupported", "error"}

TypeOK ==
    /\ creator \in [DraftIds -> Users \cup {None}]
    /\ paid \in [DraftIds -> BOOLEAN]
    /\ free_used \in [Users -> Nat]
    /\ direct \in [Users -> 0..MaxDirect]
    /\ answer \in [DraftIds -> Answers]
    /\ lost \subseteq Users
    /\ pc \in [Handlers -> PC]
    /\ who \in [Handlers -> Users \cup {None}]
    /\ draft \in [Handlers -> DraftIds \cup {None}]

---------------------------------------------------------------------------
(* Plausible slips in the code below; nothing here is part of the           *)
(* specification.                                                           *)

Mutant_OnFreeTier_at_most(u) == free_used[u] <= FreeTier
Mutant_CountFreeUse_excluded(u) == 1
Mutant_CountFreeUse_down(u) == 0 - free_used[u] - 1

---------------------------------------------------------------------------
(* Helpers of the handlers *)

(* free_used < platform_fee_free_tier, as both handlers evaluate it. *)
OnFreeTier(u) == free_used[u] < FreeTier

(* INSERT ... ON CONFLICT DO UPDATE SET free_used = free_used + 1. *)
CountFreeUse(u) == free_used[u] + 1

(* The columns of agreement_payments, those of them that are NOT NULL       *)
(* without a default, and the ones initiate_payment inserts.                *)
PaymentColumns ==
    {"id", "draft_id", "user_id", "method", "status", "usd_amount_cents",
     "token_reference_pubkey", "token_mint", "token_amount",
     "token_tx_signature", "token_source_ata", "refund_amount",
     "refund_usd_cents", "refund_tx_signature", "refund_initiated_at",
     "refund_completed_at", "created_at", "confirmed_at", "agreement_pda"}
RequiredColumns == {"draft_id", "user_id", "method", "usd_amount_cents"}
InsertedColumns ==
    {"id", "draft_id", "method", "creator_pubkey", "token_mint", "token_amount",
     "token_reference_pubkey", "treasury_ata", "status"}

InsertPaymentSucceeds == /\ InsertedColumns \subseteq PaymentColumns
                         /\ RequiredColumns \subseteq InsertedColumns

Goto(h, label, u, d) == /\ pc' = [pc EXCEPT ![h] = label]
                        /\ who' = [who EXCEPT ![h] = u]
                        /\ draft' = [draft EXCEPT ![h] = d]
Return(h) == Goto(h, "idle", None, None)

---------------------------------------------------------------------------
(* create_agreement *)

(* free_used is read before the parties are resolved; whether they all are  *)
(* is up to the request.                                                    *)
CreateBegin(h, u) ==
    /\ pc[h] = "idle"
    /\ \/ Goto(h, "insert", u, None)
       \/ OnFreeTier(u) /\ Goto(h, "build", u, None)
       (* the second alternative: every party has a wallet already *)
    /\ UNCHANGED <<creator, paid, free_used, direct, answer, lost>>

(* build_create_agreement_tx, then the answer: no row is written. *)
CreateAnswersDirectly(h) ==
    /\ pc[h] = "build"
    /\ direct[who[h]] < MaxDirect
    /\ direct' = [direct EXCEPT ![who[h]] = @ + 1]
    /\ Return(h)
    /\ UNCHANGED <<creator, paid, free_used, answer, lost>>

CreateInsertsDraft(h, d) ==
    /\ pc[h] = "insert"
    /\ creator[d] = None
    /\ creator' = [creator EXCEPT ![d] = who[h]]
    /\ Return(h)
    /\ UNCHANGED <<paid, free_used, direct, answer, lost>>

---------------------------------------------------------------------------
(* initiate_payment *)

(* The creator column never changes, so its check is part of this step; the *)
(* read of free_used is the step.                                           *)
InitiateOnFreeTier(h, u, d) ==
    /\ pc[h] = "idle"
    /\ creator[d] = u
    /\ OnFreeTier(u)
    /\ Goto(h, "mark", u, d)
    /\ UNCHANGED <<creator, paid, free_used, direct, answer, lost>>

(* The paid path: the payment method is resolved and a row inserted. *)
InitiatePaid(u, d) ==
    /\ creator[d] = u
    /\ ~OnFreeTier(u)
    /\ answer' \in {[answer EXCEPT ![d] = a] : a \in
           {"unsupported", IF InsertPaymentSucceeds THEN "pending" ELSE "error"}}
    /\ UNCHANGED <<creator, paid, free_used, direct, lost, pc, who, draft>>

InitiateMarksPaid(h) ==
    /\ pc[h] = "mark"
    /\ paid' = [paid EXCEPT ![draft[h]] = TRUE]
    /\ Goto(h, "count", who[h], draft[h])
    /\ UNCHANGED <<creator, free_used, direct, answer, lost>>

InitiateCounts(h) ==
    /\ pc[h] = "count"
    /\ free_used' = [free_used EXCEPT ![who[h]] = CountFreeUse(who[h])]
    /\ answer' = [answer EXCEPT ![draft[h]] = "free"]
    /\ Return(h)
    /\ UNCHANGED <<creator, paid, direct, lost>>

---------------------------------------------------------------------------
(* A statement fails, the client disconnects or the server stops. *)
RequestFails(h) ==
    /\ pc[h] # "idle"
    /\ lost' = IF pc[h] = "count" THEN lost \cup {who[h]} ELSE lost
    /\ Return(h)
    /\ UNCHANGED <<creator, paid, free_used, direct, answer>>

Init ==
    /\ creator = [d \in DraftIds |-> None]
    /\ paid = [d \in DraftIds |-> FALSE]
    /\ free_used = [u \in Users |-> 0]
    /\ direct = [u \in Users |-> 0]
    /\ answer = [d \in DraftIds |-> "none"]
    /\ lost = {}
    /\ pc = [h \in Handlers |-> "idle"]
    /\ who = [h \in Handlers |-> None]
    /\ draft = [h \in Handlers |-> None]

HandlerStep(h) ==
    \/ \E u \in Users : CreateBegin(h, u)
    \/ CreateAnswersDirectly(h)
    \/ \E d \in DraftIds : CreateInsertsDraft(h, d)
    \/ \E u \in Users, d \in DraftIds : InitiateOnFreeTier(h, u, d)
    \/ InitiateMarksPaid(h)
    \/ InitiateCounts(h)

ReliableNext ==
    \/ \E h \in Handlers : HandlerStep(h)
    \/ \E u \in Users, d \in DraftIds : InitiatePaid(u, d)

Next == ReliableNext \/ \E h \in Handlers : RequestFails(h)

Spec == Init /\ [][Next]_vars

(* The system on a day when nothing fails. *)
ReliableSpec == Init /\ [][ReliableNext]_vars

---------------------------------------------------------------------------
(* Properties *)

(* Requests of u that passed the check and have not counted it yet. *)
Admitted(u) == {h \in Handlers : pc[h] \in {"mark", "count"} /\ who[h] = u}
Uncounted(u) == {h \in Handlers : pc[h] = "count" /\ who[h] = u}
PaidDrafts(u) == {d \in DraftIds : paid[d] /\ creator[d] = u}

(* The check of initiate_payment and its increment are separate statements, *)
(* so a user can overdraw the allowance by sending requests together - but  *)
(* by no more than the number of further requests in flight at that moment, *)
(* however many are sent in all: each overdraw needs a request that read    *)
(* free_used while it was still below the limit.                            *)
OverdrawBoundedByConcurrency ==
    \A u \in Users : free_used[u] + Cardinality(Admitted(u))
                         <= FreeTier + Cardinality(Handlers) - 1

(* No draft becomes paid for nothing: as long as no request of the user     *)
(* died between `paid = true` and the increment, every paid draft has used  *)
(* up an allowance, or is about to.                                         *)
PaidDraftsAreCounted ==
    \A u \in Users \ lost :
        Cardinality(PaidDrafts(u)) <= free_used[u] + Cardinality(Uncounted(u))
=============================================================================
