--------------------------- MODULE AgreementIndex ---------------------------
(***************************************************************************)
(* agreement_parties, the index of what happened on chain, and its writers: *)
(*                                                                         *)
(*   event listener    workers/event_listener.rs, services/solana_logs.rs   *)
(*   expiry worker     workers/expiry_worker.rs                             *)
(*                                                                         *)
(* Each server process runs one of each.  Program logs reach a server only  *)
(* while it is subscribed, in order, and are handled one at a time, one     *)
(* action per statement; a handler that fails is logged and its log is not  *)
(* handled again.  The chain is outside the repository: it accepts the      *)
(* transactions the program allows and emits a log for each.                *)
(*                                                                         *)
(* A log need not be true.  The subscription forwards whatever mentions the *)
(* program and drops the error of a failed transaction, and parse_logs puts *)
(* the lines of all instructions and of all programs of a transaction       *)
(* together: what a rolled-back cancellation, or another program, prints is *)
(* handled like the real thing (MisleadingLog).                             *)
(*                                                                         *)
(* The expiry worker's own transaction is that of SubmitExpire in           *)
(* TransactionHandlers, which reads the address from the wrong bytes;       *)
(* here an agreement expires by anybody's transaction.                      *)
(***************************************************************************)
EXTENDS Naturals, Sequences, FiniteSets

CONSTANTS
    Agreements,  \* agreement PDAs
    Parties,     \* wallets; every one is a party of every agreement
    Servers,     \* server processes
    None,        \* no agreement, no wallet
    MaxVotes,    \* bound on the revoke votes per agreement
    MaxClaims,   \* bound on the events that logs name and the chain did not do
    MaxCrashes   \* bound on the crashes of a behaviour

ASSUME IndexAssumption ==
    /\ None \notin Agreements \cup Parties
    /\ MaxVotes \in Nat /\ MaxClaims \in Nat /\ MaxCrashes \in Nat

VARIABLES
    chain,         \* the agreement account's status
    chain_signed,  \* who has signed on chain
    chain_votes,   \* who has voted to revoke
    claimed,       \* events that a log named although the chain did not do them
    sent,          \* agreements an expire_agreement transaction was submitted for
    status,        \* agreement_parties.status, per agreement and party
    signed_at,     \* parties whose signed_at is not NULL
    due,           \* agreements whose rows are past expires_at
    queue,         \* notification_queue: what anybody was ever to be told
    subscribed,    \* servers with a log subscription
    stream,        \* logs a server has received and not handled
    listener,      \* what the listener of each server is doing
    expiry,        \* what the expiry worker of each server is doing
    crashes        \* crashes so far

chainVars == <<chain, chain_signed, chain_votes, claimed, sent>>
rowVars   == <<status, signed_at, due, queue>>
vars == <<chainVars, rowVars, subscribed, stream, listener, expiry, crashes>>

---------------------------------------------------------------------------
(* Types *)

ChainStatus == {"none", "PendingSignatures", "Completed", "Cancelled", "Expired"}
RowStatus   == {"absent", "PendingSignatures", "expiring", "Cancelled", "Expired"}
Concluded   == {"Cancelled", "Expired"}

InstructionType == {"CreateAgreement", "SignAgreement", "CancelAgreement",
                    "ExpireAgreement", "VoteRevoke"}
ParsedEvent == [instruction : InstructionType, agreement : Agreements,
                signer : Parties \cup {None}]

NotificationEvent == {"AgreementCreated", "Signed", "Completed", "Cancelled",
                      "Expired", "RevokeVote"}
Job == [event : NotificationEvent, agreement : Agreements]

ListenerPC == {"idle", "insert", "sign", "count", "conclude", "notify"}
Listener == [pc : ListenerPC, event : ParsedEvent \cup {None},
             todo : SUBSET Parties, notice : NotificationEvent \cup {None}]
IdleListener == [pc |-> "idle", event |-> None, todo |-> {}, notice |-> None]

ExpiryPC == {"idle", "lock", "submit", "unlock"}
Expiry == [pc : ExpiryPC, todo : SUBSET Agreements, at : Agreements \cup {None}]
IdleExpiry == [pc |-> "idle", todo |-> {}, at |-> None]

TypeOK ==
    /\ chain \in [Agreements -> ChainStatus]
    /\ chain_signed \in [Agreements -> SUBSET Parties]
    /\ chain_votes \in [Agreements -> SUBSET Parties]
    /\ claimed \subseteq ParsedEvent
    /\ sent \subseteq Agreements
    /\ status \in [Agreements -> [Parties -> RowStatus]]
    /\ signed_at \in [Agreements -> SUBSET Parties]
    /\ due \subseteq Agreements
    /\ queue \subseteq Job
    /\ subscribed \subseteq Servers
    /\ stream \in [Servers -> Seq(ParsedEvent)]
    /\ listener \in [Servers -> Listener]
    /\ expiry \in [Servers -> Expiry]
    /\ crashes \in 0..MaxCrashes

---------------------------------------------------------------------------
(* Helpers *)

Rows(a) == {p \in Parties : status[a][p] # "absent"}

SetRows(a, from, to) ==
    [status EXCEPT ![a] = [p \in Parties |->
        IF status[a][p] \in from THEN to ELSE status[a][p]]]

(* Plausible slips in the code below; nothing here is part of the           *)
(* specification.                                                           *)
Mutant_cancellation_as_expiry(i) == IF i = "CancelAgreement" THEN "Expired" ELSE "Cancelled"
Mutant_unlock_any_row(a) == SetRows(a, RowStatus \ {"absent"}, "PendingSignatures")
Mutant_rows_affected_ignored(a) == TRUE
Mutant_lock_list(a) == SetRows(a, {"PendingSignatures"}, a)

(* handle_cancel_agreement and handle_expire_agreement: the new status. *)
CancellationStatus(i) == IF i = "CancelAgreement" THEN "Cancelled" ELSE "Expired"

(* lock_agreement_for_expiry: its UPDATE, and whether it took a row. *)
lock_agreement_for_expiry(a) == SetRows(a, {"PendingSignatures"}, "expiring")
LockTakesRow(a) == \E p \in Parties : status[a][p] = "PendingSignatures"

unlock_agreement_from_expiry(a) == SetRows(a, {"expiring"}, "PendingSignatures")

(* parse_logs: of the lines "Instruction: ..." of a transaction the last    *)
(* counts, and one that is not the program's makes it no event at all; when *)
(* no data line names the agreement, the signature of the transaction takes *)
(* its place, and the event touches no agreement's row.                     *)
parse_logs(instructions, pda, signer) ==
    LET last == instructions[Len(instructions)] IN
    IF last \in InstructionType /\ pda # None
    THEN [instruction |-> last, agreement |-> pda, signer |-> signer] ELSE None

(* A transaction's log goes to whoever is subscribed. *)
Deliver(event) ==
    stream' = [s \in Servers |-> IF s \in subscribed /\ event # None
                                 THEN Append(stream[s], event) ELSE stream[s]]

(* The log of an instruction that was carried out, alone or followed by     *)
(* another program's.                                                       *)
Emit(i, a, p) ==
    \E instructions \in {<<i>>, <<i, "other">>}, pda \in {a, None} :
        Deliver(parse_logs(instructions, pda, p))

---------------------------------------------------------------------------
(* The chain *)

ChainCreates(a) ==
    /\ chain[a] = "none"
    /\ chain' = [chain EXCEPT ![a] = "PendingSignatures"]
    /\ Emit("CreateAgreement", a, None)
    /\ UNCHANGED <<chain_signed, chain_votes, claimed, sent, rowVars, subscribed, listener, expiry, crashes>>

ChainSigns(a, p) ==
    LET signers == chain_signed[a] \cup {p} IN
    /\ chain[a] = "PendingSignatures"
    /\ p \notin chain_signed[a]
    /\ chain_signed' = [chain_signed EXCEPT ![a] = signers]
    /\ chain' = IF signers = Parties THEN [chain EXCEPT ![a] = "Completed"] ELSE chain
    /\ Emit("SignAgreement", a, p)
    /\ UNCHANGED <<chain_votes, claimed, sent, rowVars, subscribed, listener, expiry, crashes>>

ChainCancels(a) ==
    /\ chain[a] = "PendingSignatures"
    /\ chain' = [chain EXCEPT ![a] = "Cancelled"]
    /\ Emit("CancelAgreement", a, None)
    /\ UNCHANGED <<chain_signed, chain_votes, claimed, sent, rowVars, subscribed, listener, expiry, crashes>>

ChainExpires(a) ==
    /\ chain[a] = "PendingSignatures"
    /\ chain' = [chain EXCEPT ![a] = "Expired"]
    /\ Emit("ExpireAgreement", a, None)
    /\ UNCHANGED <<chain_signed, chain_votes, claimed, sent, rowVars, subscribed, listener, expiry, crashes>>

ChainVotes(a, p) ==
    /\ chain[a] = "Completed"
    /\ p \notin chain_votes[a] /\ Cardinality(chain_votes[a]) < MaxVotes
    /\ chain_votes' = [chain_votes EXCEPT ![a] = @ \cup {p}]
    /\ Emit("VoteRevoke", a, p)
    /\ UNCHANGED <<chain, chain_signed, claimed, sent, rowVars, subscribed, listener, expiry, crashes>>

(* A log of a transaction that failed and changed nothing, or whose lines   *)
(* another program printed, names an event.  (A signature that names no     *)
(* signer matches no row.)                                                  *)
HasSigner(e) == e.instruction \in {"SignAgreement", "VoteRevoke"}

MisleadingLog(e) ==
    /\ HasSigner(e) <=> e.signer # None
    /\ e \notin claimed /\ Cardinality(claimed) < MaxClaims
    /\ claimed' = claimed \cup {e}
    /\ Deliver(e)
    /\ UNCHANGED <<chain, chain_signed, chain_votes, sent, rowVars, subscribed, listener,
                   expiry, crashes>>

---------------------------------------------------------------------------
(* Event listener *)

(* connect_and_listen takes the next log; parse_logs has found its event. *)
Receive(s) ==
    /\ listener[s].pc = "idle"
    /\ stream[s] # <<>>
    /\ stream' = [stream EXCEPT ![s] = Tail(@)]
    /\ LET e == Head(stream[s]) IN
       listener' = [listener EXCEPT ![s] =
           [event |-> e,
            pc |-> CASE e.instruction = "CreateAgreement" -> "insert"
                     [] e.instruction = "SignAgreement" -> "sign"
                     [] e.instruction = "VoteRevoke" -> "notify"
                     [] OTHER -> "conclude",
            todo |-> IF e.instruction = "CreateAgreement" THEN Parties
                     ELSE IF e.instruction = "VoteRevoke" THEN {e.signer} ELSE {},
            notice |-> IF e.instruction = "VoteRevoke" THEN "RevokeVote" ELSE None]]
    /\ UNCHANGED <<chainVars, rowVars, subscribed, expiry, crashes>>

ListenerGoes(s, l) == listener' = [listener EXCEPT ![s] = l]

(* handle_create_agreement: INSERT ... ON CONFLICT DO NOTHING, per party. *)
InsertParty(s, p) ==
    LET l == listener[s]  a == l.event.agreement IN
    /\ l.pc = "insert" /\ p \in l.todo
    /\ status' = IF status[a][p] = "absent"
                 THEN [status EXCEPT ![a][p] = "PendingSignatures"] ELSE status
    /\ IF l.todo = {p}
       THEN ListenerGoes(s, [l EXCEPT !.pc = "notify", !.todo = Parties,
                                      !.notice = "AgreementCreated"])
       ELSE ListenerGoes(s, [l EXCEPT !.todo = @ \ {p}])
    /\ UNCHANGED <<chainVars, signed_at, due, queue, subscribed, stream, expiry, crashes>>

(* handle_sign_agreement: the UPDATE, then the count of unsigned rows. *)
RecordSignature(s) ==
    LET l == listener[s]  a == l.event.agreement  p == l.event.signer IN
    /\ l.pc = "sign"
    /\ \/ /\ p \in Rows(a)
          /\ signed_at' = [signed_at EXCEPT ![a] = @ \cup {p}]
          /\ ListenerGoes(s, [l EXCEPT !.pc = "count"])
       \/ /\ p \notin Rows(a)
          /\ UNCHANGED signed_at
          /\ ListenerGoes(s, IdleListener)
    /\ UNCHANGED <<chainVars, status, due, queue, subscribed, stream, expiry, crashes>>

CountUnsigned(s) ==
    LET l == listener[s]  a == l.event.agreement IN
    /\ l.pc = "count"
    /\ ListenerGoes(s, [l EXCEPT !.pc = "notify", !.todo = {l.event.signer},
           !.notice = IF Rows(a) \subseteq signed_at[a] THEN "Completed" ELSE "Signed"])
    /\ UNCHANGED <<chainVars, rowVars, subscribed, stream, expiry, crashes>>

(* handle_cancellation: the UPDATE of every row. *)
Conclude(s) ==
    LET l == listener[s]  a == l.event.agreement
        new == CancellationStatus(l.event.instruction) IN
    /\ l.pc = "conclude"
    /\ status' = SetRows(a, RowStatus \ {"absent"}, new)
    /\ ListenerGoes(s, [l EXCEPT !.pc = "notify", !.notice = new])
    /\ UNCHANGED <<chainVars, signed_at, due, queue, subscribed, stream, expiry, crashes>>

(* enqueue_notification for each party to tell, which handle_cancellation   *)
(* reads from the rows just before; one that fails is only logged.  What    *)
(* follows belongs to other modules: the WebSocket broadcast (WsChannels)   *)
(* and the refund of a cancelled agreement, which touches payments only.    *)
Notify(s) ==
    LET l == listener[s]  a == l.event.agreement
        recipients == IF l.notice \in Concluded THEN Rows(a) ELSE l.todo IN
    /\ l.pc = "notify"
    /\ \E told \in SUBSET recipients :
           queue' = queue \cup {[event |-> l.notice, agreement |-> a] : p \in told}
    /\ ListenerGoes(s, IdleListener)
    /\ UNCHANGED <<chainVars, status, signed_at, due, subscribed, stream, expiry, crashes>>

(* A statement fails: handle_event returns the error, the loop goes on. *)
HandlerFails(s) ==
    /\ listener[s].pc \in {"insert", "sign", "count", "conclude"}
    /\ ListenerGoes(s, IdleListener)
    /\ UNCHANGED <<chainVars, rowVars, subscribed, stream, expiry, crashes>>

(* The subscription ends; what it delivered is still in the channel. *)
SubscriptionEnds(s) ==
    /\ s \in subscribed
    /\ subscribed' = subscribed \ {s}
    /\ UNCHANGED <<chainVars, rowVars, stream, listener, expiry, crashes>>

(* run, five seconds after the channel was found empty and closed. *)
Reconnect(s) ==
    /\ s \notin subscribed
    /\ stream[s] = <<>> /\ listener[s].pc = "idle"
    /\ subscribed' = subscribed \cup {s}
    /\ UNCHANGED <<chainVars, rowVars, stream, listener, expiry, crashes>>

---------------------------------------------------------------------------
(* Expiry worker *)

ExpiryGoes(s, x) == expiry' = [expiry EXCEPT ![s] = x]

(* The loop turns to the next agreement of the scan. *)
NextAgreement(s, a) ==
    LET rest == expiry[s].todo \ {a} IN
    ExpiryGoes(s, IF rest = {} THEN IdleExpiry
                  ELSE [pc |-> "lock", todo |-> rest, at |-> None])

ExpiryScan(s) ==
    LET found == {a \in due : \E p \in Parties : status[a][p] = "PendingSignatures"} IN
    /\ expiry[s].pc = "idle"
    /\ found # {}
    /\ ExpiryGoes(s, [pc |-> "lock", todo |-> found, at |-> None])
    /\ UNCHANGED <<chainVars, rowVars, subscribed, stream, listener, crashes>>

LockAgreement(s, a) ==
    /\ expiry[s].pc = "lock" /\ a \in expiry[s].todo
    /\ status' = lock_agreement_for_expiry(a)
    /\ IF LockTakesRow(a)
       THEN ExpiryGoes(s, [expiry[s] EXCEPT !.pc = "submit", !.at = a])
       ELSE NextAgreement(s, a)
    /\ UNCHANGED <<chainVars, signed_at, due, queue, subscribed, stream, listener, crashes>>

LockFails(s, a) ==
    /\ expiry[s].pc = "lock" /\ a \in expiry[s].todo
    /\ NextAgreement(s, a)
    /\ UNCHANGED <<chainVars, rowVars, subscribed, stream, listener, crashes>>

(* submit_expire_transaction: an RPC node accepts the transaction and the   *)
(* rows stay as they are,                                                   *)
SubmitAccepted(s) ==
    LET a == expiry[s].at IN
    /\ expiry[s].pc = "submit"
    /\ sent' = sent \cup {a}
    /\ NextAgreement(s, a)
    /\ UNCHANGED <<chain, chain_signed, chain_votes, claimed, rowVars, subscribed, stream, listener,
                   crashes>>

(* refuses it, or accepts it and the answer is lost: an error either way,   *)
SubmitRefused(s) ==
    LET a == expiry[s].at IN
    /\ expiry[s].pc = "submit"
    /\ sent' = sent \cup {a}
    /\ ExpiryGoes(s, [expiry[s] EXCEPT !.pc = "unlock"])
    /\ UNCHANGED <<chain, chain_signed, chain_votes, claimed, rowVars, subscribed, stream, listener,
                   crashes>>

(* or is not reached, nor the account found.                                *)
SubmitFails(s) ==
    /\ expiry[s].pc = "submit"
    /\ ExpiryGoes(s, [expiry[s] EXCEPT !.pc = "unlock"])
    /\ UNCHANGED <<chainVars, rowVars, subscribed, stream, listener, crashes>>

UnlockAgreement(s) ==
    LET a == expiry[s].at IN
    /\ expiry[s].pc = "unlock"
    /\ status' = unlock_agreement_from_expiry(a)
    /\ NextAgreement(s, a)
    /\ UNCHANGED <<chainVars, signed_at, due, queue, subscribed, stream, listener, crashes>>

UnlockFails(s) ==
    /\ expiry[s].pc = "unlock"
    /\ NextAgreement(s, expiry[s].at)
    /\ UNCHANGED <<chainVars, rowVars, subscribed, stream, listener, crashes>>

---------------------------------------------------------------------------
(* The process stops and is started again: the tables stay. *)
Crash(s) ==
    /\ crashes < MaxCrashes
    /\ crashes' = crashes + 1
    /\ subscribed' = subscribed \ {s}
    /\ stream' = [stream EXCEPT ![s] = <<>>]
    /\ ListenerGoes(s, IdleListener)
    /\ ExpiryGoes(s, IdleExpiry)
    /\ UNCHANGED <<chainVars, rowVars>>

(* Thirty days after the INSERT: longer than any log waits to be handled. *)
BeingCreated(a) ==
    \E s \in Servers :
        \/ listener[s].pc = "insert" /\ listener[s].event.agreement = a
        \/ \E i \in 1..Len(stream[s]) :
               stream[s][i].instruction = "CreateAgreement" /\ stream[s][i].agreement = a

DeadlinePasses(a) ==
    /\ a \notin due /\ Rows(a) # {} /\ ~BeingCreated(a)
    /\ due' = due \cup {a}
    /\ UNCHANGED <<chainVars, status, signed_at, queue, subscribed, stream, listener,
                   expiry, crashes>>

---------------------------------------------------------------------------
Init ==
    /\ chain = [a \in Agreements |-> "none"]
    /\ chain_signed = [a \in Agreements |-> {}]
    /\ chain_votes = [a \in Agreements |-> {}]
    /\ claimed = {}
    /\ sent = {}
    /\ status = [a \in Agreements |-> [p \in Parties |-> "absent"]]
    /\ signed_at = [a \in Agreements |-> {}]
    /\ due = {}
    /\ queue = {}
    /\ subscribed = {}
    /\ stream = [s \in Servers |-> <<>>]
    /\ listener = [s \in Servers |-> IdleListener]
    /\ expiry = [s \in Servers |-> IdleExpiry]
    /\ crashes = 0

ChainStep ==
    \E a \in Agreements : \/ ChainCreates(a)
                          \/ \E p \in Parties : ChainSigns(a, p) \/ ChainVotes(a, p)
                          \/ ChainCancels(a)
                          \/ ChainExpires(a)
                          \/ DeadlinePasses(a)

ListenerStep(s) ==
    \/ Receive(s)
    \/ \E p \in Parties : InsertParty(s, p)
    \/ RecordSignature(s)
    \/ CountUnsigned(s)
    \/ Conclude(s)
    \/ Notify(s)
    \/ Reconnect(s)

(* The expiry worker when nothing goes wrong. *)
ExpiryStep(s) ==
    \/ ExpiryScan(s)
    \/ \E a \in Agreements : LockAgreement(s, a)
    \/ SubmitAccepted(s)
    \/ SubmitRefused(s)
    \/ UnlockAgreement(s)

FailureStep(s) ==
    \/ HandlerFails(s)
    \/ SubscriptionEnds(s)
    \/ \E a \in Agreements : LockFails(s, a)
    \/ SubmitFails(s)
    \/ UnlockFails(s)

Next ==
    \/ ChainStep
    \/ \E e \in ParsedEvent : MisleadingLog(e)
    \/ \E s \in Servers : ListenerStep(s) \/ ExpiryStep(s) \/ FailureStep(s) \/ Crash(s)

Spec == Init /\ [][Next]_vars

(* Statements and RPC calls succeed, though a node may refuse what it gets  *)
(* and a process may stop; the loops of both workers go on.                 *)
RestartNext ==
    \/ ChainStep
    \/ \E e \in ParsedEvent : MisleadingLog(e)
    \/ \E s \in Servers : ListenerStep(s) \/ ExpiryStep(s) \/ Crash(s)

RestartSpec ==
    /\ Init /\ [][RestartNext]_vars
    /\ \A s \in Servers : WF_vars(ListenerStep(s)) /\ WF_vars(ExpiryStep(s))

---------------------------------------------------------------------------
(* Properties *)

Claims(i, a, p) == [instruction |-> i, agreement |-> a, signer |-> p] \in claimed

(* What the chain did, or some log claimed that it did. *)
Created(a) == chain[a] # "none" \/ Claims("CreateAgreement", a, None)
SignedBy(a) == chain_signed[a] \cup {p \in Parties : Claims("SignAgreement", a, p)}
ConclusionClaimed(a, st) ==
    Claims(IF st = "Cancelled" THEN "CancelAgreement" ELSE "ExpireAgreement", a, None)
EndedAs(a, st) == chain[a] = st \/ ConclusionClaimed(a, st)

(* The index may lag behind the chain and miss what it did not hear of, but *)
(* nothing in it comes from nowhere, is mixed up or is written under        *)
(* another agreement or wallet: each row, signature and conclusion, and     *)
(* each cancellation or expiry told to a party, is what the chain did or    *)
(* what a log for this very agreement said it did.  (It cannot be more: the *)
(* listener does not look at whether the transaction failed.)               *)
IndexFollowsChain ==
    \A a \in Agreements :
        /\ Rows(a) # {} => Created(a)
        /\ signed_at[a] \subseteq SignedBy(a)
        /\ \A p \in Parties : status[a][p] \in Concluded => EndedAs(a, status[a][p])
        /\ \A j \in queue : j.agreement = a /\ j.event \in Concluded => EndedAs(a, j.event)

(* A concluded row stays concluded, although an expiry worker that read the *)
(* row before, and whose transaction is then refused, puts rows back to     *)
(* 'PendingSignatures'; and Cancelled and Expired are exchanged only after  *)
(* a log has claimed an end of the agreement that did not happen.           *)
ConclusionIsFinal ==
    [][\A a \in Agreements, p \in Parties :
           status[a][p] \in Concluded =>
               /\ status'[a][p] \in Concluded
               /\ \/ status'[a][p] = status[a][p]
                  \/ \E st \in Concluded : ConclusionClaimed(a, st)]_vars

(* "Only the instance that wins this UPDATE will submit the transaction":   *)
(* no two workers are between lock and unlock of one agreement - unless a   *)
(* log claimed its creation again and so added rows after the deadline.     *)
Holds(s, a) == expiry[s].pc \in {"submit", "unlock"} /\ expiry[s].at = a

ExpiryLockIsExclusive ==
    \A s, t \in Servers, a \in Agreements :
        Holds(s, a) /\ Holds(t, a) /\ ~Claims("CreateAgreement", a, None) => s = t

(* What the documents say that the code does not do. *)

(* "On any restart, the worker catches up on missed expirations": for an    *)
(* overdue agreement that is pending on chain a transaction is submitted,   *)
(* unless the agreement ends in some other way first.                       *)
MissedExpirationsAreCaughtUp ==
    \A a \in Agreements :
        a \in due ~> a \in sent \/ chain[a] # "PendingSignatures"
=============================================================================
