--------------------------- MODULE DraftContract ---------------------------
(***************************************************************************)
(* What the draft endpoints promise creators and parties, as if each were   *)
(* one step: no requests in flight, no row locks, no copies of a row.  In   *)
(* particular an acceptance marks its invitation, fills its slot and, if    *)
(* that was the last one, makes the draft ready, all at once.               *)
(***************************************************************************)
EXTENDS Naturals

CONSTANTS
    Drafts,       \* drafts
    Slots,        \* the parties of a draft
    Invitations,  \* invitations by email
    Wallets,      \* public keys
    None          \* not there

VARIABLES
    stage,       \* of a draft: "absent", "waiting", "ready" or "discarded"
    party,       \* who is in a slot: a wallet, or the invitation it waits for
    invitation,  \* of an invitation: "absent", "pending", "accepted", "expired"
    paid,        \* drafts that are paid for
    told,        \* how often the creator of a draft was told that it is ready
    submitted    \* drafts with something uploaded, linked or handed out

vars == <<stage, party, invitation, paid, told, submitted>>

TypeOK ==
    /\ stage \in [Drafts -> {"absent", "waiting", "ready", "discarded"}]
    /\ party \in [Drafts -> [Slots -> Wallets \cup Invitations \cup {None}]]
    /\ invitation \in [Invitations -> {"absent", "pending", "accepted", "expired"}]
    /\ paid \subseteq Drafts
    /\ told \in [Drafts -> 0..1]
    /\ submitted \subseteq Drafts

Complete(list) == \A s \in Slots : list[s] \in Wallets

(* Neither sent nor expected by anybody. *)
Fresh == {i \in Invitations : /\ invitation[i] = "absent"
                              /\ \A d \in Drafts, s \in Slots : party[d][s] # i}

Init ==
    /\ stage = [d \in Drafts |-> "absent"]
    /\ party = [d \in Drafts |-> [s \in Slots |-> None]]
    /\ invitation = [i \in Invitations |-> "absent"]
    /\ paid = {}
    /\ told = [d \in Drafts |-> 0]
    /\ submitted = {}

Create(d) ==
    /\ stage[d] = "absent"
    /\ \E list \in [Slots -> Wallets \cup Fresh] :
           /\ \A s, t \in Slots : list[s] = list[t] /\ list[s] \in Invitations => s = t
           /\ party' = [party EXCEPT ![d] = list]
    /\ stage' = [stage EXCEPT ![d] = "waiting"]
    /\ UNCHANGED <<invitation, paid, told, submitted>>

Invite(i) ==
    /\ invitation[i] = "absent"
    /\ invitation' = [invitation EXCEPT ![i] = "pending"]
    /\ UNCHANGED <<stage, party, paid, told, submitted>>

(* Also for a discarded draft, which its last acceptance makes ready. *)
Accept(d, s, w) ==
    LET i    == party[d][s]
        list == [party[d] EXCEPT ![s] = w]
    IN
    /\ i \in Invitations /\ invitation[i] = "pending"
    /\ invitation' = [invitation EXCEPT ![i] = "accepted"]
    /\ party' = [party EXCEPT ![d] = list]
    /\ stage' = [stage EXCEPT ![d] = IF Complete(list) THEN "ready" ELSE @]
    /\ UNCHANGED <<paid, told, submitted>>

(* Any number of invitations at once. *)
Expire(stale) ==
    /\ \A i \in stale : invitation[i] = "pending"
    /\ invitation' = [i \in Invitations |-> IF i \in stale THEN "expired" ELSE invitation[i]]
    /\ UNCHANGED <<stage, party, paid, told, submitted>>

Discard(d) ==
    /\ stage[d] # "absent"
    /\ stage' = [stage EXCEPT ![d] = "discarded"]
    /\ UNCHANGED <<party, invitation, paid, told, submitted>>

Pay(d) ==
    /\ stage[d] # "absent"
    /\ paid' = paid \cup {d}
    /\ UNCHANGED <<stage, party, invitation, told, submitted>>

Tell(d) ==
    /\ Complete(party[d]) /\ told[d] = 0
    /\ told' = [told EXCEPT ![d] = 1]
    /\ UNCHANGED <<stage, party, invitation, paid, submitted>>

Submit(d) ==
    /\ d \in paid /\ Complete(party[d])
    /\ submitted' = submitted \cup {d}
    /\ UNCHANGED <<stage, party, invitation, paid, told>>

DraftStep(d) ==
    \/ Create(d) \/ Discard(d) \/ Pay(d) \/ Tell(d) \/ Submit(d)
    \/ \E s \in Slots, w \in Wallets : Accept(d, s, w)

Next ==
    \/ \E d \in Drafts : DraftStep(d)
    \/ \E i \in Invitations : Invite(i)
    \/ \E stale \in SUBSET Invitations : Expire(stale)

Spec == Init /\ [][Next]_vars
=============================================================================
