--------------------------- MODULE DraftInvariant ---------------------------
(***************************************************************************)
(* The inductive invariant of DraftLifecycle, in named parts.  The safety   *)
(* properties of that module are not inductive by themselves: what makes    *)
(* them so is what a transaction that holds a row may rely on (AcceptInv),  *)
(* what the invitations still to be inserted are (InsertInv), and that an   *)
(* invitation id belongs to one slot of one draft (IdsInv).                 *)
(***************************************************************************)
EXTENDS DraftLifecycle

(* A draft that does not exist yet has no parties. *)
AbsentInv ==
    \A d \in DraftIds : status[d] = "absent" =>
        party_slots[d] = EmptyList /\ draft_payload[d] = EmptyList

(* Invitation ids are fresh when drawn, and drawn for one slot; the row of  *)
(* an invitation belongs to the draft of that slot.                         *)
IdsInv ==
    /\ \A i \in InviteIds :
           inv_status[i] # "absent" => i \in ids /\ inv_draft[i] \in DraftIds
    /\ \A d \in DraftIds, s \in Slots : EmailSlot(d, s) =>
           LET i == draft_payload[d][s].invite_id IN
           /\ i \in ids
           /\ inv_status[i] # "absent" => inv_draft[i] = d
           /\ \A e \in DraftIds, t \in Slots :
                  draft_payload[e][t].invite_id = i => e = d /\ t = s

(* A party of the payload has a wallet or an invitation, not both; the slot *)
(* of a party that had a wallet from the start is never touched.            *)
PayloadInv ==
    \A d \in DraftIds, s \in Slots :
        IF EmailSlot(d, s)
        THEN draft_payload[d][s].pubkey = None
        ELSE /\ party_slots[d][s] = draft_payload[d][s]
             /\ status[d] # "absent" => draft_payload[d][s].pubkey # None

(* create_agreement still has to insert the invitations of its own slots.   *)
InsertInv ==
    \A r \in Requests : pc[r] = "insert" =>
        /\ loc[r].draft \in DraftIds
        /\ \A i \in loc[r].todo :
               /\ inv_status[i] = "absent"
               /\ \E s \in Slots : draft_payload[loc[r].draft][s].invite_id = i
               /\ \A q \in Requests \ {r} : pc[q] = "insert" => i \notin loc[q].todo

(* What an accept knows while it holds its rows: the invitation stays       *)
(* pending, and the list it will write is the current one with its own slot *)
(* resolved.                                                                *)
AcceptInv ==
    \A r \in Requests :
        /\ pc[r] \in {"lock_invite", "lock_draft", "commit"} =>
               /\ loc[r].invite \in InviteIds
               /\ loc[r].wallet \in Wallets
               /\ inv_status[loc[r].invite] # "absent"
        /\ pc[r] \in {"lock_draft", "commit"} =>
               /\ inviteLock[loc[r].invite] = r
               /\ inv_status[loc[r].invite] = "pending"
        /\ pc[r] = "commit" =>
               /\ loc[r].draft \in DraftIds
               /\ draftLock[loc[r].draft] = r
               /\ HasSlotFor(party_slots[loc[r].draft], loc[r].invite)
               /\ loc[r].slots = resolve_party_slot_pubkey(
                      party_slots[loc[r].draft], loc[r].invite, loc[r].wallet)

(* A notification is about a complete draft. *)
NotifyInv ==
    /\ \A d \in DraftIds : notified[d] > 0 => all_pubkeys_resolved(party_slots[d])
    /\ \A r \in Requests : pc[r] = "notify" =>
           loc[r].draft \in DraftIds /\ all_pubkeys_resolved(party_slots[loc[r].draft])

(* The gates a submission passed still hold while it runs. *)
SubmitInv ==
    \A r \in Requests : pc[r] \in SubmitPC =>
        /\ loc[r].draft \in DraftIds
        /\ paid[loc[r].draft]
        /\ all_pubkeys_resolved(party_slots[loc[r].draft])

IInv ==
    /\ TypeOK
    /\ AbsentInv
    /\ IdsInv
    /\ PayloadInv
    /\ InsertInv
    /\ AcceptInv
    /\ NotifyInv
    /\ SubmitInv
    /\ SlotsMatchInvitations
    /\ ReadyIffResolved
    /\ SubmittedOnlyIfPaidAndResolved
    /\ CreatorNotifiedAtMostOnce
=============================================================================
