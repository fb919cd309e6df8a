---------------------------- MODULE ChainProofs ----------------------------
(***************************************************************************)
(* Proofs about the two modules that meet at the chain: AgreementIndex, for *)
(* any sets of agreements, wallets and servers and any number of crashes    *)
(* and of misleading logs, and TransactionHandlers, for any wallets, ids    *)
(* and sets of parties and any number of transactions at a time.            *)
(***************************************************************************)
EXTENDS AgreementIndex, TransactionHandlers, FiniteSetTheorems, SequenceTheorems, TLAPS

---------------------------------------------------------------------------
(* The inductive invariant. *)

(* A log speaks the truth when it is emitted, or is one of those that were  *)
(* claimed, and neither the chain nor the claims take back what the index   *)
(* believes on its account.                                                 *)
LogIsTrue(e) ==
    /\ e.instruction = "CreateAgreement" => Created(e.agreement)
    /\ e.instruction = "SignAgreement" => e.signer \in SignedBy(e.agreement)
    /\ e.instruction = "VoteRevoke" => e.signer \in Parties
    /\ e.instruction = "CancelAgreement" => EndedAs(e.agreement, "Cancelled")
    /\ e.instruction = "ExpireAgreement" => EndedAs(e.agreement, "Expired")

StreamInv(s) == \A i \in 1..Len(stream[s]) : LogIsTrue(stream[s][i])

ListenerInv(s) ==
    LET l == listener[s] IN
    l.pc # "idle" =>
        /\ l.event \in ParsedEvent
        /\ LogIsTrue(l.event)
        /\ l.pc = "insert" => l.event.instruction = "CreateAgreement"
        /\ l.pc \in {"sign", "count"} => l.event.instruction = "SignAgreement"
        /\ l.pc = "conclude" => l.event.instruction \in {"CancelAgreement", "ExpireAgreement"}
        /\ l.pc = "notify" => /\ l.notice \in NotificationEvent
                              /\ l.notice \in Concluded => EndedAs(l.event.agreement, l.notice)

(* The part of BeingCreated that is on server s. *)
CreatedAt(s, a) ==
    \/ listener[s].pc = "insert" /\ listener[s].event.agreement = a
    \/ \E i \in 1..Len(stream[s]) :
           stream[s][i].instruction = "CreateAgreement" /\ stream[s][i].agreement = a

(* No log claims that the agreement is created a second time. *)
CreatedOnce(a) == ~Claims("CreateAgreement", a, None)

(* An overdue agreement gets no more rows. *)
DueInv ==
    \A a \in due : CreatedOnce(a) =>
        chain[a] # "none" /\ \A s \in Servers : ~CreatedAt(s, a)

(* Who holds an agreement has left no row of it 'PendingSignatures', which  *)
(* is what another worker would have to find.                               *)
NothingToLock(a) == \A p \in Parties : status[a][p] # "PendingSignatures"

ExpiryInv(s) ==
    /\ expiry[s].todo \subseteq due
    /\ expiry[s].pc \in {"submit", "unlock"} => expiry[s].at \in due
    /\ \A a \in Agreements : Holds(s, a) /\ CreatedOnce(a) => NothingToLock(a)

IInv ==
    /\ TypeOK
    /\ \A s \in Servers : StreamInv(s) /\ ListenerInv(s) /\ ExpiryInv(s)
    /\ DueInv
    /\ IndexFollowsChain
    /\ ExpiryLockIsExclusive

---------------------------------------------------------------------------
(* Sequences of logs *)

LEMMA TailOfSeq ==
    ASSUME NEW S, NEW q \in Seq(S), q # <<>>
    PROVE  /\ Tail(q) \in Seq(S) /\ Len(Tail(q)) = Len(q) - 1
           /\ Head(q) = q[1] /\ Head(q) \in S /\ 1 \in 1..Len(q)
           /\ \A i \in 1..Len(Tail(q)) : i + 1 \in 1..Len(q) /\ Tail(q)[i] = q[i + 1]
  BY HeadTailProperties, EmptySeq, LenProperties, ElementOfSeq

LEMMA AppendToSeq ==
    ASSUME NEW S, NEW q \in Seq(S), NEW e \in S
    PROVE  /\ Append(q, e) \in Seq(S) /\ Len(Append(q, e)) = Len(q) + 1
           /\ \A i \in 1..Len(Append(q, e)) :
                  (i \in 1..Len(q) /\ Append(q, e)[i] = q[i]) \/ Append(q, e)[i] = e
  BY AppendProperties, LenProperties

---------------------------------------------------------------------------
(* Frames *)

(* What no step takes back. *)
ChainGrows ==
    /\ claimed \subseteq claimed'
    /\ \A a \in Agreements :
        /\ chain[a] # "none" => chain'[a] # "none"
        /\ chain[a] \in Concluded => chain'[a] = chain[a]
        /\ chain_signed[a] \subseteq chain_signed'[a]

LEMMA QuietChain ==
    ASSUME UNCHANGED <<claimed, chain, chain_signed>>
    PROVE  ChainGrows
  BY DEF ChainGrows

LEMMA ReportsGrow ==
    ASSUME ChainGrows, NEW a \in Agreements
    PROVE  /\ Created(a) => Created(a)'
           /\ SignedBy(a) \subseteq SignedBy(a)'
           /\ \A st \in Concluded : EndedAs(a, st) => EndedAs(a, st)'
           /\ CreatedOnce(a)' => CreatedOnce(a)
<1>1. \A i, p : Claims(i, a, p) => Claims(i, a, p)'
  BY DEF ChainGrows, Claims
<1>2. Created(a) => Created(a)'
  BY <1>1 DEF ChainGrows, Created
<1>3. SignedBy(a) \subseteq SignedBy(a)'
  BY <1>1 DEF ChainGrows, SignedBy
<1>4. \A st \in Concluded : EndedAs(a, st) => EndedAs(a, st)'
  BY <1>1 DEF ChainGrows, EndedAs, ConclusionClaimed
<1>5. CreatedOnce(a)' => CreatedOnce(a)
  BY <1>1 DEF CreatedOnce
<1> QED
  BY <1>2, <1>3, <1>4, <1>5

LEMMA LogStaysTrue ==
    ASSUME NEW e \in ParsedEvent, LogIsTrue(e), ChainGrows
    PROVE  LogIsTrue(e)'
<1>1. e.agreement \in Agreements /\ "Cancelled" \in Concluded /\ "Expired" \in Concluded
  BY DEF ParsedEvent, Concluded
<1> QED
  BY <1>1, ReportsGrow DEF LogIsTrue

LEMMA StreamStays ==
    ASSUME ChainGrows, NEW s \in Servers, stream[s] \in Seq(ParsedEvent), StreamInv(s),
           stream'[s] = stream[s]
    PROVE  StreamInv(s)'
<1> SUFFICES ASSUME NEW i \in 1..Len(stream[s]) PROVE LogIsTrue(stream[s][i])'
  BY DEF StreamInv
<1>1. stream[s][i] \in ParsedEvent /\ LogIsTrue(stream[s][i])
  BY ElementOfSeq DEF StreamInv
<1>2. \A e \in ParsedEvent : LogIsTrue(e) => LogIsTrue(e)'
  BY LogStaysTrue
<1> QED
  BY <1>1, <1>2 DEF LogIsTrue

(* The event and the notice of a listener stay true as well. *)
LEMMA EventStaysTrue ==
    ASSUME ChainGrows, NEW s \in Servers, listener[s].event \in ParsedEvent,
           LogIsTrue(listener[s].event), listener'[s].event = listener[s].event
    PROVE  LogIsTrue(listener[s].event)'
<1>1. \A e \in ParsedEvent : LogIsTrue(e) => LogIsTrue(e)'
  BY LogStaysTrue
<1> QED
  BY <1>1 DEF LogIsTrue

LEMMA ListenerStays ==
    ASSUME ChainGrows, NEW s \in Servers, ListenerInv(s), listener'[s] = listener[s]
    PROVE  ListenerInv(s)'
<1> SUFFICES ASSUME listener[s].pc # "idle" PROVE ListenerInv(s)'
  BY DEF ListenerInv
<1>1. listener[s].event \in ParsedEvent /\ LogIsTrue(listener[s].event)
  BY DEF ListenerInv
<1>3. LogIsTrue(listener[s].event)'
  BY <1>1, EventStaysTrue
<1>4. listener[s].event.agreement \in Agreements
  BY <1>1 DEF ParsedEvent
<1>5. ASSUME listener[s].pc = "notify", listener[s].notice \in Concluded
      PROVE  EndedAs(listener[s].event.agreement, listener[s].notice)'
  <2>1. EndedAs(listener[s].event.agreement, listener[s].notice)
    BY <1>5 DEF ListenerInv
  <2>2. \A a \in Agreements, st \in Concluded : EndedAs(a, st) => EndedAs(a, st)'
    BY ReportsGrow
  <2> QED
    BY <1>4, <1>5, <2>1, <2>2 DEF EndedAs, ConclusionClaimed, Claims
<1> QED
  BY <1>1, <1>3, <1>5 DEF ListenerInv

LEMMA IndexStays ==
    ASSUME ChainGrows, IndexFollowsChain, UNCHANGED <<status, signed_at, queue>>
    PROVE  IndexFollowsChain'
<1>1. \A a \in Agreements : Rows(a)' = Rows(a)
  BY DEF Rows
<1>2. \A a \in Agreements : /\ Created(a) => Created(a)'
                            /\ SignedBy(a) \subseteq SignedBy(a)'
                            /\ \A st \in Concluded : EndedAs(a, st) => EndedAs(a, st)'
  BY ReportsGrow
<1>3. ASSUME NEW a \in Agreements
      PROVE  /\ \A p \in Parties : status[a][p] \in Concluded => EndedAs(a, status[a][p])'
             /\ \A j \in queue : j.agreement = a /\ j.event \in Concluded => EndedAs(a, j.event)'
  BY <1>2 DEF IndexFollowsChain
<1> QED
  BY <1>1, <1>2, <1>3 DEF IndexFollowsChain, EndedAs, ConclusionClaimed, Claims

(* A log is delivered: it is true, and it creates no agreement that has     *)
(* rows already, unless it claims to.                                       *)
LEMMA ChainKeeps ==
    ASSUME IInv, ChainGrows, NEW log \in ParsedEvent \cup {None}, Deliver(log),
           log # None => /\ LogIsTrue(log)'
                         /\ log.instruction = "CreateAgreement" =>
                                chain[log.agreement] = "none" \/ ~CreatedOnce(log.agreement)',
           chain' \in [Agreements -> ChainStatus],
           chain_signed' \in [Agreements -> SUBSET Parties],
           chain_votes' \in [Agreements -> SUBSET Parties],
           claimed' \subseteq ParsedEvent,
           UNCHANGED <<sent, rowVars, subscribed, listener, expiry, crashes>>
    PROVE  IInv'
<1> USE DEF IInv
<1>1. ASSUME NEW s \in Servers
      PROVE  /\ stream'[s] \in Seq(ParsedEvent)
             /\ \A k \in 1..Len(stream'[s]) :
                    \/ k \in 1..Len(stream[s]) /\ stream'[s][k] = stream[s][k]
                    \/ log # None /\ stream'[s][k] = log
  <2>1. stream[s] \in Seq(ParsedEvent)
    BY DEF TypeOK
  <2>2. (log # None /\ stream'[s] = Append(stream[s], log)) \/ stream'[s] = stream[s]
    BY DEF Deliver
  <2>3. CASE stream'[s] = stream[s]
    BY <2>1, <2>3
  <2>4. CASE log # None /\ stream'[s] = Append(stream[s], log)
    <3>1. /\ Append(stream[s], log) \in Seq(ParsedEvent)
          /\ \A k \in 1..Len(Append(stream[s], log)) :
                 \/ k \in 1..Len(stream[s]) /\ Append(stream[s], log)[k] = stream[s][k]
                 \/ Append(stream[s], log)[k] = log
      BY <2>1, <2>4, AppendToSeq
    <3> QED
      BY <2>4, <3>1
  <2> QED
    BY <2>2, <2>3, <2>4
<1>2. TypeOK'
  <2>1. DOMAIN stream' = Servers /\ stream' = [s \in DOMAIN stream' |-> stream'[s]]
    BY DEF Deliver
  <2>2. stream' \in [Servers -> Seq(ParsedEvent)]
    BY <1>1, <2>1
  <2> QED
    BY <2>2 DEF TypeOK, rowVars
<1>3. ASSUME NEW s \in Servers PROVE StreamInv(s)'
  <2>1. stream[s] \in Seq(ParsedEvent)
    BY DEF TypeOK
  <2>2. \A k \in 1..Len(stream[s]) : stream[s][k] \in ParsedEvent /\ LogIsTrue(stream[s][k])
    BY <2>1, ElementOfSeq DEF StreamInv
  <2>3. \A e \in ParsedEvent : LogIsTrue(e) => LogIsTrue(e)'
    BY LogStaysTrue
  <2>4. log # None => LogIsTrue(log)'
    OBVIOUS
  <2> QED
    BY <1>1, <2>2, <2>3, <2>4 DEF StreamInv, LogIsTrue
<1>4. ASSUME NEW s \in Servers PROVE ListenerInv(s)'
  BY ListenerStays
<1>5. ASSUME NEW s \in Servers PROVE ExpiryInv(s)'
  <2>1. \A b \in Agreements : CreatedOnce(b)' => CreatedOnce(b)
    BY ReportsGrow
  <2> QED
    BY <2>1 DEF ExpiryInv, Holds, NothingToLock, rowVars
<1>6. DueInv'
  <2> SUFFICES ASSUME NEW b \in due, CreatedOnce(b)'
               PROVE  chain'[b] # "none" /\ \A s \in Servers : ~CreatedAt(s, b)'
    BY DEF DueInv, rowVars
  <2>1. b \in Agreements /\ CreatedOnce(b)
    BY ReportsGrow DEF TypeOK
  <2>2. chain[b] # "none" /\ \A s \in Servers : ~CreatedAt(s, b)
    BY <2>1 DEF DueInv
  <2>3. ~(log # None /\ log.instruction = "CreateAgreement" /\ log.agreement = b)
    BY <2>2 DEF CreatedOnce
  <2>4. ASSUME NEW s \in Servers PROVE ~CreatedAt(s, b)'
    BY <1>1, <2>2, <2>3 DEF CreatedAt
  <2> QED
    BY <2>1, <2>2, <2>4 DEF ChainGrows
<1>7. IndexFollowsChain'
  BY IndexStays DEF rowVars
<1>8. ExpiryLockIsExclusive'
  BY ReportsGrow DEF ExpiryLockIsExclusive, Holds, CreatedOnce
<1> QED
  BY <1>2, <1>3, <1>4, <1>5, <1>6, <1>7, <1>8

(* The log of a transaction, or nothing, reaches the subscribers. *)
LEMMA EmitDelivers ==
    ASSUME NEW i \in InstructionType, NEW a \in Agreements, NEW p \in Parties \cup {None},
           Emit(i, a, p)
    PROVE  LET log == [instruction |-> i, agreement |-> a, signer |-> p] IN
           log \in ParsedEvent /\ (Deliver(log) \/ Deliver(None))
<1> DEFINE log == [instruction |-> i, agreement |-> a, signer |-> p]
<1>1. log \in ParsedEvent
  BY DEF ParsedEvent
<1>2. PICK instructions \in {<<i>>, <<i, "other">>}, pda \in {a, None} :
          Deliver(parse_logs(instructions, pda, p))
  BY DEF Emit
<1>3. parse_logs(instructions, pda, p) \in {log, None}
  <2>1. CASE instructions = <<i>>
    <3>1. instructions[Len(instructions)] = i
      BY <2>1
    <3> QED
      BY <3>1 DEF parse_logs
  <2>2. CASE instructions = <<i, "other">>
    <3>1. instructions[Len(instructions)] = "other" /\ "other" \notin InstructionType
      BY <2>2 DEF InstructionType
    <3> QED
      BY <3>1 DEF parse_logs
  <2> QED
    BY <2>1, <2>2
<1>4. Deliver(log) \/ Deliver(None)
  BY <1>2, <1>3
<1> QED
  BY <1>1, <1>4

LEMMA EmitKeeps ==
    ASSUME IInv, ChainGrows,
           NEW i \in InstructionType, NEW a \in Agreements, NEW p \in Parties \cup {None},
           Emit(i, a, p),
           LogIsTrue([instruction |-> i, agreement |-> a, signer |-> p])',
           i = "CreateAgreement" => chain[a] = "none",
           chain' \in [Agreements -> ChainStatus],
           chain_signed' \in [Agreements -> SUBSET Parties],
           chain_votes' \in [Agreements -> SUBSET Parties],
           UNCHANGED <<claimed, sent, rowVars, subscribed, listener, expiry, crashes>>
    PROVE  IInv'
<1> DEFINE log == [instruction |-> i, agreement |-> a, signer |-> p]
<1>1. log \in ParsedEvent /\ (Deliver(log) \/ Deliver(None)) /\ claimed' \subseteq ParsedEvent
  BY EmitDelivers DEF IInv, TypeOK
<1>2. LogIsTrue(log)' /\ (log.instruction = "CreateAgreement" => chain[log.agreement] = "none")
  OBVIOUS
<1> HIDE DEF log
<1>3. CASE Deliver(log)
  BY <1>1, <1>2, <1>3, ChainKeeps
<1>4. CASE Deliver(None)
  BY <1>1, <1>4, ChainKeeps
<1> QED
  BY <1>1, <1>3, <1>4

(* The five instructions of the program. *)
LEMMA ChainStepsKeep ==
    ASSUME IInv, NEW a \in Agreements,
           \/ ChainCreates(a)
           \/ \E q \in Parties : ChainSigns(a, q) \/ ChainVotes(a, q)
           \/ ChainCancels(a)
           \/ ChainExpires(a)
    PROVE  IInv'
<1> USE DEF IInv
<1>0. /\ chain \in [Agreements -> ChainStatus]
      /\ chain_signed \in [Agreements -> SUBSET Parties]
      /\ chain_votes \in [Agreements -> SUBSET Parties]
  BY DEF TypeOK
<1> HIDE DEF IInv
<1>1. CASE ChainCreates(a)
  <2>1. ChainGrows /\ chain' \in [Agreements -> ChainStatus]
    BY <1>0, <1>1 DEF ChainCreates, ChainGrows, ChainStatus, Concluded
  <2>2. LogIsTrue([instruction |-> "CreateAgreement", agreement |-> a, signer |-> None])'
    BY <1>0, <1>1 DEF ChainCreates, LogIsTrue, Created, SignedBy, EndedAs
  <2>3. /\ "CreateAgreement" \in InstructionType
        /\ Emit("CreateAgreement", a, None)
        /\ UNCHANGED <<chain_signed, chain_votes, claimed, sent, rowVars, subscribed, listener,
                       expiry, crashes>>
    BY <1>1 DEF ChainCreates, InstructionType
  <2> QED
    BY <1>0, <1>1, <2>1, <2>2, <2>3, EmitKeeps DEF ChainCreates
<1>2. ASSUME NEW q \in Parties, ChainSigns(a, q) PROVE IInv'
  <2>1. /\ ChainGrows /\ chain' \in [Agreements -> ChainStatus]
        /\ chain_signed' \in [Agreements -> SUBSET Parties]
    BY <1>0, <1>2 DEF ChainSigns, ChainGrows, ChainStatus, Concluded
  <2>2. LogIsTrue([instruction |-> "SignAgreement", agreement |-> a, signer |-> q])'
    BY <1>0, <1>2 DEF ChainSigns, LogIsTrue, Created, SignedBy, EndedAs
  <2>3. /\ "SignAgreement" \in InstructionType
        /\ Emit("SignAgreement", a, q)
        /\ UNCHANGED <<chain_votes, claimed, sent, rowVars, subscribed, listener, expiry, crashes>>
    BY <1>2 DEF ChainSigns, InstructionType
  <2> QED
    BY <1>0, <2>1, <2>2, <2>3, EmitKeeps
<1>3. CASE ChainCancels(a)
  <2>1. ChainGrows /\ chain' \in [Agreements -> ChainStatus]
    BY <1>0, <1>3 DEF ChainCancels, ChainGrows, ChainStatus, Concluded
  <2>2. LogIsTrue([instruction |-> "CancelAgreement", agreement |-> a, signer |-> None])'
    BY <1>0, <1>3 DEF ChainCancels, LogIsTrue, Created, SignedBy, EndedAs
  <2>3. /\ "CancelAgreement" \in InstructionType
        /\ Emit("CancelAgreement", a, None)
        /\ UNCHANGED <<chain_signed, chain_votes, claimed, sent, rowVars, subscribed, listener,
                       expiry, crashes>>
    BY <1>3 DEF ChainCancels, InstructionType
  <2> QED
    BY <1>0, <2>1, <2>2, <2>3, EmitKeeps
<1>4. CASE ChainExpires(a)
  <2>1. ChainGrows /\ chain' \in [Agreements -> ChainStatus]
    BY <1>0, <1>4 DEF ChainExpires, ChainGrows, ChainStatus, Concluded
  <2>2. LogIsTrue([instruction |-> "ExpireAgreement", agreement |-> a, signer |-> None])'
    BY <1>0, <1>4 DEF ChainExpires, LogIsTrue, Created, SignedBy, EndedAs
  <2>3. /\ "ExpireAgreement" \in InstructionType
        /\ Emit("ExpireAgreement", a, None)
        /\ UNCHANGED <<chain_signed, chain_votes, claimed, sent, rowVars, subscribed, listener,
                       expiry, crashes>>
    BY <1>4 DEF ChainExpires, InstructionType
  <2> QED
    BY <1>0, <2>1, <2>2, <2>3, EmitKeeps
<1>5. ASSUME NEW q \in Parties, ChainVotes(a, q) PROVE IInv'
  <2>1. ChainGrows /\ chain_votes' \in [Agreements -> SUBSET Parties]
    BY <1>0, <1>5 DEF ChainVotes, ChainGrows
  <2>2. LogIsTrue([instruction |-> "VoteRevoke", agreement |-> a, signer |-> q])'
    BY <1>0, <1>5 DEF ChainVotes, LogIsTrue, Created, SignedBy, EndedAs
  <2>3. /\ "VoteRevoke" \in InstructionType
        /\ Emit("VoteRevoke", a, q)
        /\ UNCHANGED <<chain, chain_signed, claimed, sent, rowVars, subscribed, listener, expiry,
                       crashes>>
    BY <1>5 DEF ChainVotes, InstructionType
  <2> QED
    BY <1>0, <2>1, <2>2, <2>3, EmitKeeps
<1> QED
  BY <1>1, <1>2, <1>3, <1>4, <1>5

(* A misleading log backs what it says by its being claimed. *)
LEMMA MisleadingKeeps ==
    ASSUME IInv, NEW e \in ParsedEvent, MisleadingLog(e)
    PROVE  IInv'
<1>1. ChainGrows /\ claimed' \subseteq ParsedEvent /\ e \in claimed'
  BY DEF MisleadingLog, ChainGrows, IInv, TypeOK
<1>2. e.agreement \in Agreements /\ e.signer \in Parties \cup {None}
      /\ e = [instruction |-> e.instruction, agreement |-> e.agreement, signer |-> e.signer]
  BY DEF ParsedEvent
<1>3. HasSigner(e) => e.signer \in Parties
  BY <1>2 DEF MisleadingLog
<1>4. ~HasSigner(e) => e.signer = None
  BY DEF MisleadingLog
<1>5. Claims(e.instruction, e.agreement, e.signer)'
  BY <1>1, <1>2 DEF Claims
<1>6. LogIsTrue(e)'
  BY <1>2, <1>3, <1>4, <1>5 DEF HasSigner, LogIsTrue, Created, SignedBy, EndedAs, ConclusionClaimed
<1>7. e.instruction = "CreateAgreement" => ~CreatedOnce(e.agreement)'
  BY <1>4, <1>5 DEF HasSigner, CreatedOnce
<1>8. /\ Deliver(e)
      /\ UNCHANGED <<chain, chain_signed, chain_votes, sent, rowVars, subscribed, listener,
                     expiry, crashes>>
  BY DEF MisleadingLog
<1>9. /\ chain' \in [Agreements -> ChainStatus]
      /\ chain_signed' \in [Agreements -> SUBSET Parties]
      /\ chain_votes' \in [Agreements -> SUBSET Parties]
  BY <1>8 DEF IInv, TypeOK
<1> QED
  BY <1>1, <1>6, <1>7, <1>8, <1>9, ChainKeeps

(* Thirty days pass. *)
LEMMA DeadlineKeeps ==
    ASSUME IInv, NEW a \in Agreements, DeadlinePasses(a)
    PROVE  IInv'
<1> USE DEF IInv
<1>1. /\ UNCHANGED <<claimed, chain, chain_signed, status, signed_at, queue, stream, listener,
                     expiry>>
      /\ ChainGrows
  BY QuietChain DEF DeadlinePasses, chainVars
<1>2. TypeOK'
  BY DEF DeadlinePasses, TypeOK, chainVars
<1>3. \A s \in Servers : StreamInv(s)' /\ ListenerInv(s)'
  BY <1>1, StreamStays, ListenerStays DEF TypeOK
<1>4. \A s \in Servers : ExpiryInv(s)'
  BY <1>1 DEF DeadlinePasses, ExpiryInv, Holds, NothingToLock, CreatedOnce, Claims
<1>5. DueInv'
  <2>1. CreatedOnce(a) => chain[a] # "none" /\ \A s \in Servers : ~CreatedAt(s, a)
    BY DEF DeadlinePasses, IndexFollowsChain, Created, CreatedOnce, BeingCreated, CreatedAt
  <2> QED
    BY <1>1, <2>1 DEF DeadlinePasses, DueInv, CreatedAt, CreatedOnce, Claims
<1>6. IndexFollowsChain' /\ ExpiryLockIsExclusive'
  BY <1>1, IndexStays DEF ExpiryLockIsExclusive, Holds, Claims
<1> QED
  BY <1>2, <1>3, <1>4, <1>5, <1>6

---------------------------------------------------------------------------
(* The listener of one server *)

(* What is left to show when only the listener of server s moves: that its  *)
(* own part holds, that it is not about to create what it was not creating, *)
(* that a row becomes 'PendingSignatures' only before the agreement is due, *)
(* and what the index then says.                                            *)
LEMMA ListenerFrame ==
    ASSUME IInv, TypeOK', NEW s \in Servers,
           UNCHANGED <<claimed, chain, chain_signed, due, expiry>>,
           \A t \in Servers \ {s} : listener'[t] = listener[t] /\ stream'[t] = stream[t],
           StreamInv(s)', ListenerInv(s)',
           \A a \in Agreements : CreatedAt(s, a)' => CreatedAt(s, a),
           \A a \in due : CreatedOnce(a) /\ NothingToLock(a) => NothingToLock(a)',
           IndexFollowsChain'
    PROVE  IInv'
<1> USE DEF IInv
<1>0. ChainGrows /\ \A a \in Agreements : CreatedOnce(a)' <=> CreatedOnce(a)
  BY QuietChain DEF CreatedOnce, Claims
<1>1. \A t \in Servers : StreamInv(t)' /\ ListenerInv(t)'
  BY <1>0, StreamStays, ListenerStays DEF TypeOK
<1>2. \A t \in Servers : ExpiryInv(t)'
  <2> SUFFICES ASSUME NEW t \in Servers PROVE ExpiryInv(t)'
    OBVIOUS
  <2>1. ASSUME NEW a \in Agreements, Holds(t, a)', CreatedOnce(a)' PROVE NothingToLock(a)'
    <3>1. Holds(t, a) /\ CreatedOnce(a) /\ NothingToLock(a)
      BY <1>0, <2>1 DEF ExpiryInv, Holds
    <3>2. a \in due
      BY <3>1 DEF ExpiryInv, Holds
    <3> QED
      BY <3>1, <3>2
  <2> QED
    BY <2>1 DEF ExpiryInv
<1>3. DueInv'
  <2> SUFFICES ASSUME NEW a \in due, CreatedOnce(a), NEW t \in Servers PROVE ~CreatedAt(t, a)'
    BY <1>0 DEF DueInv, TypeOK
  <2>1. ~CreatedAt(t, a) /\ a \in Agreements
    BY DEF DueInv, TypeOK
  <2>2. CASE t = s
    BY <2>1, <2>2
  <2>3. CASE t # s
    BY <2>1, <2>3 DEF CreatedAt
  <2> QED
    BY <2>2, <2>3
<1>4. ExpiryLockIsExclusive'
  BY DEF ExpiryLockIsExclusive, Holds, Claims
<1> QED
  BY <1>1, <1>2, <1>3, <1>4

(* The pc, the recipients and the notice that Receive computes. *)
LEMMA ReceiveGoes ==
    ASSUME IInv, NEW s \in Servers, Receive(s)
    PROVE  LET e == stream[s][1]  l == listener'[s] IN
           /\ l.event = e
           /\ l \in Listener
           /\ e.instruction = "CreateAgreement" => l.pc = "insert"
           /\ e.instruction = "SignAgreement" => l.pc = "sign"
           /\ e.instruction = "VoteRevoke" => l.pc = "notify" /\ l.notice = "RevokeVote"
           /\ e.instruction \in {"CancelAgreement", "ExpireAgreement"} => l.pc = "conclude"
<1> DEFINE e == stream[s][1]
           to == CASE e.instruction = "CreateAgreement" -> "insert"
                   [] e.instruction = "SignAgreement" -> "sign"
                   [] e.instruction = "VoteRevoke" -> "notify"
                   [] OTHER -> "conclude"
<1>1. stream[s] \in Seq(ParsedEvent) /\ stream[s] # <<>> /\ listener \in [Servers -> Listener]
  BY DEF IInv, TypeOK, Receive
<1>2. e \in ParsedEvent /\ Head(stream[s]) = e /\ LogIsTrue(e)
  <2>1. Head(stream[s]) = stream[s][1] /\ Head(stream[s]) \in ParsedEvent /\ 1 \in 1..Len(stream[s])
    BY <1>1, TailOfSeq
  <2> QED
    BY <2>1 DEF IInv, StreamInv
<1>3. listener'[s] =
          [event |-> e, pc |-> to,
           todo |-> IF e.instruction = "CreateAgreement" THEN Parties
                    ELSE IF e.instruction = "VoteRevoke" THEN {e.signer} ELSE {},
           notice |-> IF e.instruction = "VoteRevoke" THEN "RevokeVote" ELSE None]
  BY <1>1, <1>2, Zenon DEF Receive
<1>4. /\ e.instruction = "CreateAgreement" => to = "insert"
      /\ e.instruction = "SignAgreement" => to = "sign"
      /\ e.instruction = "VoteRevoke" => to = "notify"
      /\ e.instruction = "CancelAgreement" => to = "conclude"
      /\ e.instruction = "ExpireAgreement" => to = "conclude"
  BY Zenon
<1>5. e.instruction \in InstructionType /\ e.signer \in Parties \cup {None}
  BY <1>2 DEF ParsedEvent
<1> HIDE DEF to
<1>6. to \in ListenerPC
  BY <1>4, <1>5 DEF InstructionType, ListenerPC
<1>7. e.instruction = "VoteRevoke" => {e.signer} \in SUBSET Parties
  BY <1>2 DEF LogIsTrue
<1>8. listener'[s] \in Listener
  BY <1>2, <1>3, <1>6, <1>7 DEF Listener, NotificationEvent
<1> QED
  BY <1>2, <1>3, <1>4, <1>8

LEMMA ReceiveKeeps ==
    ASSUME IInv, NEW s \in Servers, Receive(s)
    PROVE  IInv'
<1> USE DEF IInv
<1>0. stream[s] \in Seq(ParsedEvent) /\ stream[s] # <<>> /\ stream \in [Servers -> Seq(ParsedEvent)]
  BY DEF TypeOK, Receive
<1>1. stream' = [stream EXCEPT ![s] = Tail(stream[s])]
  BY DEF Receive
<1>2. /\ stream'[s] \in Seq(ParsedEvent)
      /\ \A i \in 1..Len(stream'[s]) : i + 1 \in 1..Len(stream[s]) /\ stream'[s][i] = stream[s][i + 1]
      /\ 1 \in 1..Len(stream[s])
      /\ stream[s][1] \in ParsedEvent
  BY <1>0, <1>1, TailOfSeq
<1>3. UNCHANGED <<claimed, chain, chain_signed, due, expiry, status, signed_at, queue>>
  BY DEF Receive, chainVars, rowVars
<1>4. \A e \in ParsedEvent : LogIsTrue(e) => LogIsTrue(e)'
  BY <1>3, QuietChain, LogStaysTrue
<1>5. \A t \in Servers \ {s} : listener'[t] = listener[t] /\ stream'[t] = stream[t]
  BY DEF Receive, TypeOK
<1>6. TypeOK'
  <2>1. stream' \in [Servers -> Seq(ParsedEvent)]
    BY <1>0, <1>1, <1>2
  <2>2. listener' \in [Servers -> Listener]
    <3>1. listener' = [listener EXCEPT ![s] = listener'[s]]
      BY DEF Receive, TypeOK
    <3> QED
      BY <3>1, ReceiveGoes DEF TypeOK
  <2> QED
    BY <2>1, <2>2 DEF Receive, TypeOK, chainVars, rowVars
<1>7. StreamInv(s)'
  <2> SUFFICES ASSUME NEW i \in 1..Len(stream'[s]) PROVE LogIsTrue(stream[s][i])'
    BY DEF StreamInv
  <2> DEFINE e == stream[s][i + 1]
  <2>1. stream'[s][i] = e /\ i + 1 \in 1..Len(stream[s])
    BY <1>2
  <2>2. e \in ParsedEvent /\ LogIsTrue(e)
    BY <1>0, <2>1, ElementOfSeq DEF StreamInv
  <2> QED
    BY <2>1, <2>2, <1>4 DEF LogIsTrue
<1>8. ListenerInv(s)'
  <2>1. LogIsTrue(stream[s][1])
    BY <1>2 DEF StreamInv
  <2>2. listener'[s].event = stream[s][1] /\ LogIsTrue(listener[s].event)'
    BY <1>2, <1>4, <2>1, ReceiveGoes DEF LogIsTrue
  <2>3. stream[s][1].instruction \in InstructionType
    BY <1>2 DEF ParsedEvent
  <2> QED
    BY <1>2, <2>2, <2>3, ReceiveGoes DEF ListenerInv, LogIsTrue, InstructionType,
       NotificationEvent, Concluded
<1>9. \A a \in Agreements : CreatedAt(s, a)' => CreatedAt(s, a)
  <2> SUFFICES ASSUME NEW a \in Agreements, CreatedAt(s, a)' PROVE CreatedAt(s, a)
    OBVIOUS
  <2>1. CASE listener'[s].pc = "insert" /\ listener'[s].event.agreement = a
    <3>1. stream[s][1].instruction = "CreateAgreement" /\ stream[s][1].agreement = a
      BY <1>2, <2>1, ReceiveGoes DEF ParsedEvent, InstructionType
    <3> QED
      BY <1>2, <3>1 DEF CreatedAt
  <2>2. CASE \E i \in 1..Len(stream'[s]) :
                 stream'[s][i].instruction = "CreateAgreement" /\ stream'[s][i].agreement = a
    BY <1>2, <2>2 DEF CreatedAt
  <2> QED
    BY <2>1, <2>2 DEF CreatedAt
<1>10. IndexFollowsChain' /\ \A a \in due : NothingToLock(a) => NothingToLock(a)'
  BY <1>3, QuietChain, IndexStays DEF NothingToLock
<1> QED
  BY <1>3, <1>5, <1>6, <1>7, <1>8, <1>9, <1>10, ListenerFrame

(* What a handler that is under way knows of its log. *)
LEMMA HandlerFacts ==
    ASSUME IInv, NEW s \in Servers, listener[s].pc # "idle"
    PROVE  /\ listener[s] \in Listener
           /\ listener[s].event \in ParsedEvent
           /\ listener[s].event.agreement \in Agreements
           /\ listener[s].event.signer \in Parties \cup {None}
           /\ LogIsTrue(listener[s].event)
  BY DEF IInv, TypeOK, ListenerInv, ParsedEvent

LEMMA InsertPartyKeeps ==
    ASSUME IInv, NEW s \in Servers, NEW p \in Parties, InsertParty(s, p)
    PROVE  IInv'
<1> USE DEF IInv
<1> DEFINE l == listener[s]
           a == l.event.agreement
<1>0. /\ l.pc = "insert" /\ l \in Listener /\ l.event \in ParsedEvent
      /\ a \in Agreements /\ Created(a) /\ LogIsTrue(l.event)
      /\ status \in [Agreements -> [Parties -> RowStatus]]
  BY HandlerFacts DEF InsertParty, TypeOK, ListenerInv, LogIsTrue
<1>1. /\ listener' = [listener EXCEPT ![s] = listener'[s]]
      /\ listener'[s] \in Listener
      /\ listener'[s].event = l.event
      /\ \/ listener'[s].pc = "notify" /\ listener'[s].notice = "AgreementCreated"
         \/ listener'[s].pc = "insert"
  <2>1. CASE l.todo = {p}
    <3>1. listener' = [listener EXCEPT ![s] = [l EXCEPT !.pc = "notify", !.todo = Parties,
                                                        !.notice = "AgreementCreated"]]
      BY <2>1 DEF InsertParty, ListenerGoes
    <3> QED
      BY <1>0, <3>1 DEF TypeOK, Listener, ListenerPC, NotificationEvent
  <2>2. CASE l.todo # {p}
    <3>1. listener' = [listener EXCEPT ![s] = [l EXCEPT !.todo = l.todo \ {p}]]
      BY <2>2 DEF InsertParty, ListenerGoes
    <3> QED
      BY <1>0, <3>1 DEF TypeOK, Listener
  <2> QED
    BY <2>1, <2>2
<1>2. UNCHANGED <<claimed, chain, chain_signed, chain_votes, sent, signed_at, due, queue, subscribed,
                  stream, expiry, crashes>>
  BY DEF InsertParty, chainVars
<1>3. /\ status' \in [Agreements -> [Parties -> RowStatus]]
      /\ \A b \in Agreements, q \in Parties :
             status'[b][q] # status[b][q] => b = a /\ status'[b][q] = "PendingSignatures"
  BY <1>0 DEF InsertParty, RowStatus
<1>4. ListenerInv(s)'
  <2>1. LogIsTrue(l.event)'
    BY <1>0, <1>1, <1>2, QuietChain, EventStaysTrue
  <2> QED
    BY <1>0, <1>1, <2>1 DEF NotificationEvent, ListenerInv, LogIsTrue, Concluded
<1>5. TypeOK'
  <2>1. listener' \in [Servers -> Listener]
    BY <1>1, <1>4 DEF TypeOK
  <2> QED
    BY <1>2, <1>3, <2>1 DEF TypeOK
<1>6. \A t \in Servers \ {s} : listener'[t] = listener[t] /\ stream'[t] = stream[t]
  BY <1>1, <1>2 DEF TypeOK
<1>7. StreamInv(s)'
  BY <1>2, QuietChain, StreamStays DEF TypeOK
<1>8. \A b \in Agreements : CreatedAt(s, b)' => CreatedAt(s, b)
  BY <1>0, <1>1, <1>2 DEF CreatedAt, TypeOK
<1>9. a \in due => ~CreatedOnce(a)
  BY <1>0 DEF DueInv, CreatedAt
<1>10. \A b \in due : CreatedOnce(b) /\ NothingToLock(b) => NothingToLock(b)'
  <2>1. due \subseteq Agreements
    BY DEF TypeOK
  <2> QED
    BY <1>3, <1>9, <2>1 DEF NothingToLock
<1>11. IndexFollowsChain'
  <2>1. \A b \in Agreements : Created(b)' <=> Created(b)
    BY <1>2 DEF Created, Claims
  <2>2. \A b \in Agreements : SignedBy(b)' = SignedBy(b)
    BY <1>2 DEF SignedBy, Claims
  <2>3. \A b \in Agreements, st \in Concluded : EndedAs(b, st)' <=> EndedAs(b, st)
    BY <1>2 DEF EndedAs, ConclusionClaimed, Claims
  <2> QED
    BY <1>0, <1>2, <1>3, <2>1, <2>2, <2>3 DEF IndexFollowsChain, Rows, Concluded
<1> QED
  BY <1>2, <1>4, <1>5, <1>6, <1>7, <1>8, <1>10, <1>11, ListenerFrame

LEMMA RecordSignatureKeeps ==
    ASSUME IInv, NEW s \in Servers, RecordSignature(s)
    PROVE  IInv'
<1> USE DEF IInv
<1> DEFINE l == listener[s]
           a == l.event.agreement
           p == l.event.signer
<1>0. /\ l.pc = "sign" /\ l \in Listener /\ l.event \in ParsedEvent
      /\ a \in Agreements /\ p \in SignedBy(a) /\ p \in Parties
      /\ chain_signed \in [Agreements -> SUBSET Parties]
      /\ signed_at \in [Agreements -> SUBSET Parties]
  BY HandlerFacts DEF RecordSignature, TypeOK, ListenerInv, LogIsTrue, SignedBy
<1>1. /\ listener' = [listener EXCEPT ![s] = listener'[s]]
      /\ listener'[s] \in Listener
      /\ \/ listener'[s].pc = "count" /\ listener'[s].event = l.event
         \/ listener'[s].pc = "idle"
  <2>1. CASE p \in Rows(a)
    <3>1. listener' = [listener EXCEPT ![s] = [l EXCEPT !.pc = "count"]]
      BY <2>1 DEF RecordSignature, ListenerGoes
    <3> QED
      BY <1>0, <3>1 DEF TypeOK, Listener, ListenerPC
  <2>2. CASE p \notin Rows(a)
    <3>1. listener' = [listener EXCEPT ![s] = IdleListener]
      BY <2>2 DEF RecordSignature, ListenerGoes
    <3> QED
      BY <1>0, <3>1 DEF TypeOK, Listener, ListenerPC, IdleListener
  <2> QED
    BY <2>1, <2>2
<1>2. UNCHANGED <<claimed, chain, chain_signed, chain_votes, sent, status, due, queue, subscribed,
                  stream, expiry, crashes>>
  BY DEF RecordSignature, chainVars
<1>3. /\ signed_at' \in [Agreements -> SUBSET Parties]
      /\ \A b \in Agreements : signed_at'[b] \subseteq signed_at[b] \cup SignedBy(b)
  BY <1>0 DEF RecordSignature
<1>4. ListenerInv(s)'
  <2>1. /\ LogIsTrue(l.event)
        /\ l.event.instruction = "SignAgreement"
    BY <1>0 DEF ListenerInv
  <2>2. listener'[s].pc = "count" => LogIsTrue(l.event)'
    BY <1>0, <1>1, <1>2, <2>1, QuietChain, EventStaysTrue
  <2> QED
    BY <1>0, <1>1, <2>1, <2>2 DEF ListenerInv, LogIsTrue
<1>5. TypeOK'
  <2>1. listener' \in [Servers -> Listener]
    BY <1>1, <1>4 DEF TypeOK
  <2> QED
    BY <1>2, <1>3, <2>1 DEF TypeOK
<1>6. \A t \in Servers \ {s} : listener'[t] = listener[t] /\ stream'[t] = stream[t]
  BY <1>1, <1>2 DEF TypeOK
<1>7. StreamInv(s)'
  BY <1>2, QuietChain, StreamStays DEF TypeOK
<1>8. \A b \in Agreements : CreatedAt(s, b)' => CreatedAt(s, b)
  BY <1>1, <1>2 DEF CreatedAt
<1>9. \A b \in due : NothingToLock(b) => NothingToLock(b)'
  BY <1>2 DEF NothingToLock
<1>10. IndexFollowsChain'
  <2>1. \A b \in Agreements : (Created(b)' <=> Created(b)) /\ SignedBy(b)' = SignedBy(b)
    BY <1>2 DEF Created, SignedBy, Claims
  <2>2. \A b \in Agreements, st \in Concluded : EndedAs(b, st)' <=> EndedAs(b, st)
    BY <1>2 DEF EndedAs, ConclusionClaimed, Claims
  <2> QED
    BY <1>2, <1>3, <2>1, <2>2 DEF IndexFollowsChain, Rows
<1> QED
  BY <1>2, <1>4, <1>5, <1>6, <1>7, <1>8, <1>9, <1>10, ListenerFrame

(* What a step does to a concluded row, which says what the chain says or   *)
(* what some log claimed.                                                   *)
RowStays(b, q) ==
    status[b][q] \in Concluded =>
        /\ status'[b][q] \in Concluded
        /\ \/ status'[b][q] = status[b][q]
           \/ \E st \in Concluded : ConclusionClaimed(b, st)

LEMMA ConcludeKeeps ==
    ASSUME IInv, NEW s \in Servers, Conclude(s)
    PROVE  IInv' /\ \A b \in Agreements, q \in Parties : RowStays(b, q)
<1> USE DEF IInv
<1> DEFINE l == listener[s]
           a == l.event.agreement
           new == CancellationStatus(l.event.instruction)
<1>0. /\ l.pc = "conclude" /\ l \in Listener /\ l.event \in ParsedEvent
      /\ a \in Agreements /\ LogIsTrue(l.event)
      /\ status \in [Agreements -> [Parties -> RowStatus]]
  BY HandlerFacts DEF Conclude, TypeOK
<1>1. new \in Concluded /\ EndedAs(a, new)
  BY <1>0 DEF ListenerInv, LogIsTrue, CancellationStatus, Concluded
<1> HIDE DEF new
<1>2. listener' = [listener EXCEPT ![s] = [l EXCEPT !.pc = "notify", !.notice = new]]
  BY DEF Conclude, ListenerGoes, new
<1>3. UNCHANGED <<claimed, chain, chain_signed, chain_votes, sent, signed_at, due, queue, subscribed,
                  stream, expiry, crashes>>
  BY DEF Conclude, chainVars
<1>4. /\ status' \in [Agreements -> [Parties -> RowStatus]]
      /\ \A b \in Agreements, q \in Parties :
             \/ status'[b][q] = status[b][q]
             \/ b = a /\ status[b][q] # "absent" /\ status'[b][q] = new
  <2>1. status' = SetRows(a, RowStatus \ {"absent"}, new)
    BY DEF Conclude, new
  <2> QED
    BY <1>0, <1>1, <2>1 DEF SetRows, RowStatus, Concluded
<1>5. \A b \in Agreements : /\ (Created(b)' <=> Created(b)) /\ SignedBy(b)' = SignedBy(b)
                            /\ \A st \in Concluded : EndedAs(b, st)' <=> EndedAs(b, st)
  <2>1. \A b \in Agreements : (Created(b)' <=> Created(b)) /\ SignedBy(b)' = SignedBy(b)
    BY <1>3 DEF Created, SignedBy, Claims
  <2> QED
    BY <1>3, <2>1 DEF EndedAs, ConclusionClaimed, Claims
<1>6. listener'[s] \in Listener /\ ListenerInv(s)'
  <2>1. /\ listener'[s] \in Listener /\ listener'[s].pc = "notify"
        /\ listener'[s].event = l.event /\ listener'[s].notice = new
    BY <1>0, <1>1, <1>2 DEF TypeOK, Listener, ListenerPC, NotificationEvent, Concluded
  <2>2. LogIsTrue(l.event)'
    BY <1>0, <1>3, <2>1, QuietChain, EventStaysTrue
  <2>3. EndedAs(listener[s].event.agreement, listener[s].notice)'
    BY <1>0, <1>1, <1>3, <2>1 DEF EndedAs, ConclusionClaimed, Claims
  <2> QED
    BY <1>0, <1>1, <2>2, <2>1, <2>3 DEF NotificationEvent, ListenerInv, Concluded
<1>7. TypeOK'
  <2>1. listener' \in [Servers -> Listener]
    BY <1>2, <1>6 DEF TypeOK
  <2> QED
    BY <1>3, <1>4, <2>1 DEF TypeOK
<1>8. \A t \in Servers \ {s} : listener'[t] = listener[t] /\ stream'[t] = stream[t]
  BY <1>2, <1>3 DEF TypeOK
<1>9. StreamInv(s)'
  BY <1>3, QuietChain, StreamStays DEF TypeOK
<1>10. \A b \in Agreements : CreatedAt(s, b)' => CreatedAt(s, b)
  BY <1>0, <1>2, <1>3 DEF CreatedAt, TypeOK
<1>11. \A b \in due : NothingToLock(b) => NothingToLock(b)'
  BY <1>1, <1>4 DEF NothingToLock, TypeOK, Concluded
<1>12. IndexFollowsChain'
  BY <1>0, <1>1, <1>3, <1>4, <1>5 DEF IndexFollowsChain, Rows
<1>13. ASSUME NEW b \in Agreements, NEW q \in Parties PROVE RowStays(b, q)
  <2> SUFFICES ASSUME status[b][q] \in Concluded, status'[b][q] # status[b][q],
                      ~\E st \in Concluded : ConclusionClaimed(b, st)
               PROVE  FALSE
    BY <1>1, <1>4 DEF RowStays
  <2>1. b = a /\ status'[b][q] = new
    BY <1>4
  <2>2. EndedAs(b, status[b][q])
    BY DEF IndexFollowsChain
  <2> QED
    BY <1>1, <2>1, <2>2 DEF EndedAs
<1>14. IInv'
  BY <1>3, <1>6, <1>7, <1>8, <1>9, <1>10, <1>11, <1>12, ListenerFrame
<1> QED
  BY <1>13, <1>14

(* The steps of the listener that write no row. *)
LEMMA QuietListenerKeeps ==
    ASSUME IInv, NEW s \in Servers,
           CountUnsigned(s) \/ Notify(s) \/ HandlerFails(s) \/ SubscriptionEnds(s) \/ Reconnect(s)
    PROVE  IInv'
<1> USE DEF IInv
<1> DEFINE l == listener[s]
           a == l.event.agreement
<1>0. l \in Listener /\ listener \in [Servers -> Listener] /\ queue \subseteq Job
  BY DEF TypeOK
<1>1. UNCHANGED <<claimed, chain, chain_signed, chain_votes, sent, status, signed_at, due, stream,
                  expiry, crashes>>
  BY DEF CountUnsigned, Notify, HandlerFails, SubscriptionEnds, Reconnect, chainVars, rowVars
<1>2. /\ listener' = [listener EXCEPT ![s] = listener'[s]]
      /\ listener'[s] \in Listener
      /\ ListenerInv(s)'
      /\ listener'[s].pc = "insert" => listener'[s] = l
  <2>1. CASE CountUnsigned(s)
    <3>1. /\ l.pc = "count" /\ l.event \in ParsedEvent /\ a \in Agreements
          /\ l.event.signer \in Parties
      BY <2>1, HandlerFacts DEF CountUnsigned, ListenerInv, LogIsTrue, SignedBy, TypeOK
    <3>2. PICK n \in {"Completed", "Signed"} :
              listener' = [listener EXCEPT ![s] = [l EXCEPT !.pc = "notify",
                               !.todo = {l.event.signer}, !.notice = n]]
      BY <2>1 DEF CountUnsigned, ListenerGoes
    <3>3. /\ listener' = [listener EXCEPT ![s] = listener'[s]]
          /\ listener'[s] \in Listener
          /\ listener'[s].pc = "notify" /\ listener'[s].event = l.event
          /\ listener'[s].notice = n
      BY <1>0, <3>1, <3>2 DEF Listener, ListenerPC, NotificationEvent
    <3>4. LogIsTrue(l.event)'
      BY <1>1, <2>1, <3>1, <3>3, QuietChain, EventStaysTrue, HandlerFacts
    <3> QED
      BY <3>1, <3>3, <3>4 DEF NotificationEvent, ListenerInv, LogIsTrue, Concluded
  <2>2. CASE Notify(s) \/ HandlerFails(s)
    <3>1. listener' = [listener EXCEPT ![s] = IdleListener]
      BY <2>2 DEF Notify, HandlerFails, ListenerGoes
    <3> QED
      BY <1>0, <3>1 DEF IdleListener, Listener, ListenerPC, ListenerInv
  <2>3. CASE SubscriptionEnds(s) \/ Reconnect(s)
    <3>1. listener' = listener
      BY <2>3 DEF SubscriptionEnds, Reconnect
    <3> QED
      BY <1>0, <1>1, <3>1, QuietChain, ListenerStays
  <2> QED
    BY <2>1, <2>2, <2>3
<1>3. queue' \subseteq Job /\ \A j \in queue' : j \in queue \/ (j.event \in Concluded => EndedAs(j.agreement, j.event))
  <2>1. CASE Notify(s)
    <3>1. /\ l.pc = "notify" /\ a \in Agreements /\ l.notice \in NotificationEvent
          /\ l.notice \in Concluded => EndedAs(a, l.notice)
      BY <2>1, HandlerFacts DEF Notify, ListenerInv
    <3>2. \A j \in queue' : j \in queue \/ j = [event |-> l.notice, agreement |-> a]
      BY <2>1 DEF Notify
    <3> QED
      BY <1>0, <3>1, <3>2 DEF Job
  <2>2. CASE queue' = queue
    BY <1>0, <2>2
  <2> QED
    BY <2>1, <2>2 DEF CountUnsigned, HandlerFails, SubscriptionEnds, Reconnect, rowVars
<1>4. TypeOK'
  <2>1. listener' \in [Servers -> Listener]
    BY <1>0, <1>2
  <2>2. subscribed' \subseteq Servers
    BY DEF CountUnsigned, Notify, HandlerFails, SubscriptionEnds, Reconnect, TypeOK
  <2> QED
    BY <1>1, <1>3, <2>1, <2>2 DEF TypeOK
<1>5. \A t \in Servers \ {s} : listener'[t] = listener[t] /\ stream'[t] = stream[t]
  BY <1>0, <1>1, <1>2
<1>6. StreamInv(s)'
  BY <1>1, QuietChain, StreamStays DEF TypeOK
<1>7. \A b \in Agreements : CreatedAt(s, b)' => CreatedAt(s, b)
  BY <1>1, <1>2 DEF CreatedAt
<1>8. IndexFollowsChain'
  <2>1. \A b \in Agreements : (Created(b)' <=> Created(b)) /\ SignedBy(b)' = SignedBy(b)
    BY <1>1 DEF Created, SignedBy, Claims
  <2>2. \A b \in Agreements, st \in Concluded : EndedAs(b, st)' <=> EndedAs(b, st)
    BY <1>1 DEF EndedAs, ConclusionClaimed, Claims
  <2> QED
    BY <1>1, <1>3, <2>1, <2>2 DEF IndexFollowsChain, Rows
<1>9. \A b \in due : NothingToLock(b) => NothingToLock(b)'
  BY <1>1 DEF NothingToLock
<1> QED
  BY <1>1, <1>2, <1>4, <1>5, <1>6, <1>7, <1>8, <1>9, ListenerFrame

---------------------------------------------------------------------------
(* The expiry worker of one server *)

(* What is left to show when only the expiry worker of server s moves: that *)
(* it takes only what nobody holds, and that what others hold stays without *)
(* a row to lock.                                                           *)
LEMMA ExpiryFrame ==
    ASSUME IInv, TypeOK', NEW s \in Servers,
           UNCHANGED <<claimed, chain, chain_signed, due, stream, listener>>,
           \A t \in Servers \ {s} : expiry'[t] = expiry[t],
           ExpiryInv(s)',
           \A t \in Servers \ {s}, a \in Agreements :
               Holds(t, a) /\ CreatedOnce(a) => NothingToLock(a)' /\ ~Holds(s, a)',
           IndexFollowsChain'
    PROVE  IInv'
<1> USE DEF IInv
<1>0. ChainGrows /\ \A a \in Agreements : CreatedOnce(a)' <=> CreatedOnce(a)
  BY QuietChain DEF CreatedOnce, Claims
<1>1. \A t \in Servers : StreamInv(t)' /\ ListenerInv(t)'
  BY <1>0, StreamStays, ListenerStays DEF TypeOK
<1>2. DueInv'
  <2> SUFFICES ASSUME NEW a \in due, CreatedOnce(a)
               PROVE  chain[a] # "none" /\ \A t \in Servers : ~CreatedAt(t, a)'
    BY <1>0 DEF DueInv, TypeOK
  <2>1. chain[a] # "none" /\ \A t \in Servers : ~CreatedAt(t, a)
    BY DEF DueInv
  <2> QED
    BY <2>1 DEF CreatedAt
<1>3. \A t \in Servers \ {s}, a \in Agreements : Holds(t, a)' = Holds(t, a)
  BY DEF Holds
<1>4. \A t \in Servers : ExpiryInv(t)'
  <2> SUFFICES ASSUME NEW t \in Servers \ {s} PROVE ExpiryInv(t)'
    OBVIOUS
  <2>1. ExpiryInv(t)
    OBVIOUS
  <2>2. \A a \in Agreements : Holds(t, a)' /\ CreatedOnce(a)' => NothingToLock(a)'
    BY <1>0, <1>3
  <2> QED
    BY <2>1, <2>2 DEF ExpiryInv
<1>5. ExpiryLockIsExclusive'
  <2> SUFFICES ASSUME NEW t \in Servers, NEW u \in Servers, NEW a \in Agreements,
                      Holds(t, a)', Holds(u, a)', CreatedOnce(a)', t # u
               PROVE  FALSE
    BY DEF ExpiryLockIsExclusive, CreatedOnce
  <2>1. CreatedOnce(a)
    BY <1>0
  <2> QED
    BY <1>3, <2>1 DEF ExpiryLockIsExclusive, CreatedOnce
<1> QED
  BY <1>1, <1>2, <1>4, <1>5

(* SetRows changes the rows of one agreement that have a status of `from`. *)
LEMMA SetRowsFacts ==
    ASSUME TypeOK, NEW a \in Agreements, NEW from, NEW to \in RowStatus
    PROVE  /\ SetRows(a, from, to) \in [Agreements -> [Parties -> RowStatus]]
           /\ \A b \in Agreements, p \in Parties :
                  IF b = a /\ status[b][p] \in from
                  THEN SetRows(a, from, to)[b][p] = to
                  ELSE SetRows(a, from, to)[b][p] = status[b][p]
  BY DEF SetRows, TypeOK

(* The worker turns to the next agreement: it holds none. *)
LEMMA NextAgreementFacts ==
    ASSUME IInv, NEW s \in Servers, NEW a, NextAgreement(s, a), UNCHANGED due
    PROVE  /\ expiry' \in [Servers -> Expiry]
           /\ \A t \in Servers \ {s} : expiry'[t] = expiry[t]
           /\ expiry'[s].pc \in {"idle", "lock"}
           /\ ExpiryInv(s)'
<1>0. expiry \in [Servers -> Expiry] /\ expiry[s].todo \subseteq due
  BY DEF IInv, TypeOK, ExpiryInv
<1>1. PICK x \in {IdleExpiry, [pc |-> "lock", todo |-> expiry[s].todo \ {a}, at |-> None]} :
          expiry' = [expiry EXCEPT ![s] = x]
  BY DEF NextAgreement, ExpiryGoes
<1>2. x \in Expiry /\ x.pc \in {"idle", "lock"} /\ x.todo \subseteq due
  BY <1>0 DEF Expiry, ExpiryPC, IdleExpiry
<1>3. expiry'[s] = x
  BY <1>0, <1>1
<1>4. ExpiryInv(s)'
  BY <1>2, <1>3 DEF ExpiryInv, Holds
<1> QED
  BY <1>0, <1>1, <1>2, <1>3, <1>4

(* The steps that write no row. *)
LEMMA QuietExpiryKeeps ==
    ASSUME IInv, NEW s \in Servers,
           \/ ExpiryScan(s)
           \/ \E a \in Agreements : LockFails(s, a)
           \/ SubmitAccepted(s)
           \/ SubmitRefused(s)
           \/ SubmitFails(s)
           \/ UnlockFails(s)
    PROVE  IInv'
<1> USE DEF IInv
<1>0. expiry \in [Servers -> Expiry] /\ due \subseteq Agreements
  BY DEF TypeOK
<1>1. UNCHANGED <<claimed, chain, chain_signed, chain_votes, status, signed_at, due, queue, subscribed,
                  stream, listener, crashes>>
  BY DEF ExpiryScan, LockFails, SubmitAccepted, SubmitRefused, SubmitFails, UnlockFails,
     chainVars, rowVars
<1>2. /\ expiry' \in [Servers -> Expiry]
      /\ \A t \in Servers \ {s} : expiry'[t] = expiry[t]
      /\ ExpiryInv(s)'
      /\ \A a \in Agreements : Holds(s, a)' => Holds(s, a)
  <2>1. CASE ExpiryScan(s)
    <3> DEFINE found == {a \in due : \E p \in Parties : status[a][p] = "PendingSignatures"}
               x == [pc |-> "lock", todo |-> found, at |-> None]
    <3>1. expiry' = [expiry EXCEPT ![s] = x]
      BY <2>1 DEF ExpiryScan, ExpiryGoes
    <3>2. x \in Expiry /\ x.pc = "lock" /\ x.todo \subseteq due
      BY <1>0 DEF Expiry, ExpiryPC
    <3>3. expiry'[s] = x
      BY <1>0, <3>1
    <3> HIDE DEF x
    <3> QED
      BY <1>0, <1>1, <3>1, <3>2, <3>3 DEF ExpiryInv, Holds
  <2>2. CASE NextAgreement(s, expiry[s].at) \/ \E a \in Agreements : NextAgreement(s, a)
    BY <1>1, <2>2, NextAgreementFacts DEF Holds
  <2>3. CASE SubmitRefused(s) \/ SubmitFails(s)
    <3>1. expiry' = [expiry EXCEPT ![s] = [expiry[s] EXCEPT !.pc = "unlock"]]
      BY <2>3 DEF SubmitRefused, SubmitFails, ExpiryGoes
    <3>2. expiry[s].pc = "submit" /\ expiry[s] \in Expiry /\ ExpiryInv(s)
      BY <1>0, <2>3 DEF SubmitRefused, SubmitFails
    <3>3. /\ expiry'[s] \in Expiry /\ expiry'[s].pc = "unlock"
          /\ expiry'[s].todo = expiry[s].todo /\ expiry'[s].at = expiry[s].at
      BY <1>0, <3>1, <3>2 DEF Expiry, ExpiryPC
    <3>4. \A a \in Agreements : Holds(s, a)' = Holds(s, a)
      BY <3>2, <3>3 DEF Holds
    <3>5. ExpiryInv(s)'
      BY <1>1, <3>2, <3>3, <3>4 DEF ExpiryInv, NothingToLock, CreatedOnce, Claims
    <3> QED
      BY <1>0, <3>1, <3>3, <3>4, <3>5
  <2> QED
    BY <2>1, <2>2, <2>3 DEF LockFails, SubmitAccepted, UnlockFails
<1>3. sent' \subseteq Agreements
  <2>1. expiry[s].pc = "submit" => expiry[s].at \in Agreements
    BY <1>0 DEF ExpiryInv
  <2> QED
    BY <2>1 DEF ExpiryScan, LockFails, SubmitAccepted, SubmitRefused, SubmitFails,
       UnlockFails, chainVars, TypeOK
<1>4. TypeOK'
  BY <1>1, <1>2, <1>3 DEF TypeOK
<1>5. IndexFollowsChain'
  BY <1>1, QuietChain, IndexStays
<1>6. \A t \in Servers \ {s}, a \in Agreements :
          Holds(t, a) /\ CreatedOnce(a) => NothingToLock(a)' /\ ~Holds(s, a)'
  BY <1>1, <1>2 DEF ExpiryInv, NothingToLock, ExpiryLockIsExclusive, CreatedOnce
<1> QED
  BY <1>1, <1>2, <1>4, <1>5, <1>6, ExpiryFrame

(* Neither taking nor giving back the lock makes or concludes a row. *)
LEMMA RowsMove ==
    ASSUME IInv, UNCHANGED <<claimed, chain, chain_signed, signed_at, queue>>,
           \A b \in Agreements, p \in Parties :
               \/ status'[b][p] = status[b][p]
               \/ /\ status[b][p] \in {"PendingSignatures", "expiring"}
                  /\ status'[b][p] \in {"PendingSignatures", "expiring"}
    PROVE  IndexFollowsChain'
<1>1. \A b \in Agreements : (Created(b)' <=> Created(b)) /\ SignedBy(b)' = SignedBy(b)
  BY DEF Created, SignedBy, Claims
<1>2. \A b \in Agreements, st \in Concluded : EndedAs(b, st)' <=> EndedAs(b, st)
  BY DEF EndedAs, ConclusionClaimed, Claims
<1>3. \A b \in Agreements : Rows(b)' = Rows(b)
  BY DEF Rows
<1> QED
  BY <1>1, <1>2, <1>3 DEF IInv, IndexFollowsChain, Concluded

(* The lock is taken only where a row is 'PendingSignatures', so by nobody  *)
(* while another worker holds the agreement; a lock or an unlock changes no *)
(* concluded row.                                                           *)
LEMMA LockKeeps ==
    ASSUME IInv, NEW s \in Servers, NEW a \in Agreements, LockAgreement(s, a)
    PROVE  IInv' /\ \A b \in Agreements, q \in Parties : RowStays(b, q)
<1> USE DEF IInv
<1>0. expiry \in [Servers -> Expiry] /\ due \subseteq Agreements /\ a \in due
  BY DEF TypeOK, LockAgreement, ExpiryInv
<1>1. UNCHANGED <<claimed, chain, chain_signed, chain_votes, sent, signed_at, due, queue, subscribed,
                  stream, listener, crashes>>
  BY DEF LockAgreement, chainVars
<1>2. /\ status' \in [Agreements -> [Parties -> RowStatus]]
      /\ \A b \in Agreements, p \in Parties :
             IF b = a /\ status[b][p] = "PendingSignatures"
             THEN status'[b][p] = "expiring" ELSE status'[b][p] = status[b][p]
  <2>1. status' = SetRows(a, {"PendingSignatures"}, "expiring")
    BY DEF LockAgreement, lock_agreement_for_expiry
  <2>2. "expiring" \in RowStatus
    BY DEF RowStatus
  <2> QED
    BY <2>1, <2>2, SetRowsFacts
<1>3. \A b \in Agreements : (NothingToLock(b) \/ b = a) => NothingToLock(b)'
  BY <1>2 DEF NothingToLock
<1>4. IndexFollowsChain'
  BY <1>1, <1>2, RowsMove
<1>5. /\ expiry' \in [Servers -> Expiry]
      /\ \A t \in Servers \ {s} : expiry'[t] = expiry[t]
      /\ ExpiryInv(s)'
      /\ \A t \in Servers \ {s}, b \in Agreements :
             Holds(t, b) /\ CreatedOnce(b) => ~Holds(s, b)'
  <2>1. CASE LockTakesRow(a)
    <3>1. expiry' = [expiry EXCEPT ![s] = [expiry[s] EXCEPT !.pc = "submit", !.at = a]]
      BY <2>1 DEF LockAgreement, ExpiryGoes
    <3>2. /\ expiry'[s] \in Expiry /\ expiry'[s].pc = "submit" /\ expiry'[s].at = a
          /\ expiry'[s].todo = expiry[s].todo
      BY <1>0, <3>1 DEF Expiry, ExpiryPC
    <3>3. ~NothingToLock(a)
      BY <2>1 DEF LockTakesRow, NothingToLock
    <3>4. \A t \in Servers : CreatedOnce(a) => ~Holds(t, a)
      BY <3>3 DEF ExpiryInv
    <3>5. \A b \in Agreements : Holds(s, b)' => b = a
      BY <3>2 DEF Holds
    <3>6. ExpiryInv(s)'
      BY <1>0, <1>1, <1>3, <3>2, <3>5 DEF ExpiryInv
    <3>7. expiry' \in [Servers -> Expiry] /\ \A t \in Servers \ {s} : expiry'[t] = expiry[t]
      BY <1>0, <3>1, <3>2
    <3> QED
      BY <3>4, <3>5, <3>6, <3>7
  <2>2. CASE ~LockTakesRow(a)
    <3>1. NextAgreement(s, a)
      BY <2>2 DEF LockAgreement
    <3> QED
      BY <1>1, <3>1, NextAgreementFacts DEF Holds
  <2> QED
    BY <2>1, <2>2
<1>6. TypeOK'
  BY <1>1, <1>2, <1>5 DEF TypeOK
<1>7. \A t \in Servers \ {s}, b \in Agreements :
          Holds(t, b) /\ CreatedOnce(b) => NothingToLock(b)' /\ ~Holds(s, b)'
  BY <1>3, <1>5 DEF ExpiryInv
<1>8. IInv'
  BY <1>1, <1>4, <1>5, <1>6, <1>7, ExpiryFrame
<1> QED
  BY <1>2, <1>8 DEF RowStays, Concluded

LEMMA UnlockKeeps ==
    ASSUME IInv, NEW s \in Servers, UnlockAgreement(s)
    PROVE  IInv' /\ \A b \in Agreements, q \in Parties : RowStays(b, q)
<1> USE DEF IInv
<1> DEFINE a == expiry[s].at
<1>0. a \in Agreements /\ Holds(s, a) /\ due \subseteq Agreements
  BY DEF TypeOK, UnlockAgreement, ExpiryInv, Holds
<1>1. UNCHANGED <<claimed, chain, chain_signed, chain_votes, sent, signed_at, due, queue, subscribed,
                  stream, listener, crashes>>
  BY DEF UnlockAgreement, chainVars
<1>2. /\ status' \in [Agreements -> [Parties -> RowStatus]]
      /\ \A b \in Agreements, p \in Parties :
             IF b = a /\ status[b][p] = "expiring"
             THEN status'[b][p] = "PendingSignatures" ELSE status'[b][p] = status[b][p]
  <2>1. status' = SetRows(a, {"expiring"}, "PendingSignatures")
    BY DEF UnlockAgreement, unlock_agreement_from_expiry
  <2>2. "PendingSignatures" \in RowStatus
    BY DEF RowStatus
  <2> HIDE DEF a
  <2> QED
    BY <1>0, <2>1, <2>2, SetRowsFacts
<1>3. IndexFollowsChain'
  BY <1>1, <1>2, RowsMove
<1>4. /\ expiry' \in [Servers -> Expiry]
      /\ \A t \in Servers \ {s} : expiry'[t] = expiry[t]
      /\ expiry'[s].pc \in {"idle", "lock"}
      /\ ExpiryInv(s)'
  BY <1>1, NextAgreementFacts DEF UnlockAgreement
<1>5. TypeOK'
  BY <1>1, <1>2, <1>4 DEF TypeOK
<1>6. ASSUME NEW t \in Servers \ {s}, NEW b \in Agreements, Holds(t, b), CreatedOnce(b)
      PROVE  NothingToLock(b)' /\ ~Holds(s, b)'
  <2>1. b # a
    BY <1>0, <1>6 DEF ExpiryLockIsExclusive, CreatedOnce
  <2>2. NothingToLock(b)
    BY <1>6 DEF ExpiryInv
  <2> QED
    BY <1>2, <1>4, <2>1, <2>2 DEF NothingToLock, Holds
<1>7. IInv'
  BY <1>1, <1>3, <1>4, <1>5, <1>6, ExpiryFrame
<1> QED
  BY <1>2, <1>7 DEF RowStays, Concluded

---------------------------------------------------------------------------
(* The process stops: a lock it held is held by nobody, and the rows stay   *)
(* 'expiring'.                                                              *)
LEMMA CrashKeeps ==
    ASSUME IInv, NEW s \in Servers, Crash(s)
    PROVE  IInv'
<1> USE DEF IInv
<1>1. UNCHANGED <<claimed, chain, chain_signed, chain_votes, sent, status, signed_at, due, queue>>
  BY DEF Crash, chainVars, rowVars
<1>2. /\ stream' = [stream EXCEPT ![s] = <<>>]
      /\ listener' = [listener EXCEPT ![s] = IdleListener]
      /\ expiry' = [expiry EXCEPT ![s] = IdleExpiry]
  BY DEF Crash, ListenerGoes, ExpiryGoes
<1>3. /\ stream'[s] = <<>> /\ listener'[s] = IdleListener /\ expiry'[s] = IdleExpiry
      /\ \A t \in Servers \ {s} : /\ stream'[t] = stream[t]
                                  /\ listener'[t] = listener[t]
                                  /\ expiry'[t] = expiry[t]
  BY <1>2 DEF TypeOK
<1>4. TypeOK'
  <2>1. <<>> \in Seq(ParsedEvent) /\ IdleListener \in Listener /\ IdleExpiry \in Expiry
    BY DEF IdleListener, Listener, ListenerPC, IdleExpiry, Expiry, ExpiryPC
  <2>2. stream' \in [Servers -> Seq(ParsedEvent)] /\ listener' \in [Servers -> Listener]
        /\ expiry' \in [Servers -> Expiry]
    BY <1>2, <2>1 DEF TypeOK
  <2>3. crashes' \in 0..MaxCrashes /\ subscribed' \subseteq Servers
    BY IndexAssumption DEF Crash, TypeOK
  <2> QED
    BY <1>1, <2>2, <2>3 DEF TypeOK
<1>5. \A t \in Servers : StreamInv(t)' /\ ListenerInv(t)' /\ ExpiryInv(t)'
  <2>1. StreamInv(s)' /\ ListenerInv(s)' /\ ExpiryInv(s)'
    BY <1>3 DEF StreamInv, ListenerInv, ExpiryInv, Holds, IdleListener, IdleExpiry
  <2>2. \A t \in Servers \ {s} : StreamInv(t)' /\ ListenerInv(t)'
    BY <1>1, <1>3, QuietChain, StreamStays, ListenerStays DEF TypeOK
  <2>3. \A t \in Servers \ {s} : ExpiryInv(t)'
    BY <1>1, <1>3 DEF ExpiryInv, Holds, NothingToLock, CreatedOnce, Claims
  <2> QED
    BY <2>1, <2>2, <2>3
<1>6. DueInv'
  <2>1. \A t \in Servers, a \in due : CreatedAt(t, a)' => CreatedAt(t, a)
    BY <1>3 DEF CreatedAt, IdleListener
  <2> QED
    BY <1>1, <2>1 DEF DueInv, CreatedOnce, Claims
<1>7. IndexFollowsChain' /\ ExpiryLockIsExclusive'
  BY <1>1, <1>3, QuietChain, IndexStays DEF ExpiryLockIsExclusive, Holds, Claims, IdleExpiry
<1> QED
  BY <1>4, <1>5, <1>6, <1>7

---------------------------------------------------------------------------
(* The theorems *)

(* The strengthened invariant holds in every reachable state. *)
THEOREM Invariance == Spec => []IInv
<1>1. Init => IInv
  <2> SUFFICES ASSUME Init PROVE IInv
    OBVIOUS
  <2>1. TypeOK
    <3>1. <<>> \in Seq(ParsedEvent) /\ IdleListener \in Listener /\ IdleExpiry \in Expiry
      BY DEF IdleListener, Listener, ListenerPC, IdleExpiry, Expiry, ExpiryPC
    <3> QED
      BY <3>1, IndexAssumption DEF Init, TypeOK, ChainStatus, RowStatus
  <2>2. \A s \in Servers : StreamInv(s) /\ ListenerInv(s) /\ ExpiryInv(s)
    BY DEF Init, StreamInv, ListenerInv, ExpiryInv, Holds, IdleListener, IdleExpiry
  <2>3. DueInv /\ IndexFollowsChain /\ ExpiryLockIsExclusive
    BY DEF Init, DueInv, IndexFollowsChain, Rows, Concluded, ExpiryLockIsExclusive, Holds,
       IdleExpiry
  <2> QED
    BY <2>1, <2>2, <2>3 DEF IInv
<1>2. IInv /\ [Next]_vars => IInv'
  <2> SUFFICES ASSUME IInv, [Next]_vars PROVE IInv'
    OBVIOUS
  <2>1. CASE ChainStep
    <3>1. PICK a \in Agreements : \/ ChainCreates(a)
                                  \/ \E p \in Parties : ChainSigns(a, p) \/ ChainVotes(a, p)
                                  \/ ChainCancels(a)
                                  \/ ChainExpires(a)
                                  \/ DeadlinePasses(a)
      BY <2>1 DEF ChainStep
    <3> QED
      BY <3>1, ChainStepsKeep, DeadlineKeeps
  <2>2. ASSUME NEW s \in Servers, ListenerStep(s) PROVE IInv'
    BY <2>2, ReceiveKeeps, InsertPartyKeeps, RecordSignatureKeeps, ConcludeKeeps,
       QuietListenerKeeps DEF ListenerStep
  <2>3. ASSUME NEW s \in Servers, ExpiryStep(s) PROVE IInv'
    BY <2>3, LockKeeps, UnlockKeeps, QuietExpiryKeeps DEF ExpiryStep
  <2>4. ASSUME NEW s \in Servers, FailureStep(s) PROVE IInv'
    BY <2>4, QuietListenerKeeps, QuietExpiryKeeps DEF FailureStep
  <2>5. ASSUME NEW s \in Servers, Crash(s) PROVE IInv'
    BY <2>5, CrashKeeps
  <2>7. ASSUME NEW e \in ParsedEvent, MisleadingLog(e) PROVE IInv'
    BY <2>7, MisleadingKeeps
  <2>6. CASE UNCHANGED vars
    <3>1. TypeOK'
      BY <2>6 DEF vars, chainVars, rowVars, IInv, TypeOK
    <3>2. ChainGrows
      BY <2>6, QuietChain DEF vars, chainVars
    <3>3. \A s \in Servers : StreamInv(s)' /\ ListenerInv(s)'
      BY <2>6, <3>2, StreamStays, ListenerStays DEF vars, IInv, TypeOK
    <3>4. IndexFollowsChain'
      BY <2>6, <3>2, IndexStays DEF vars, rowVars, IInv
    <3>5. DueInv' /\ ExpiryLockIsExclusive' /\ \A s \in Servers : ExpiryInv(s)'
      BY <2>6 DEF vars, chainVars, rowVars, IInv, DueInv, CreatedAt, CreatedOnce, Claims,
         ExpiryLockIsExclusive, ExpiryInv, Holds, NothingToLock
    <3> QED
      BY <3>1, <3>3, <3>4, <3>5 DEF IInv
  <2> QED
    BY <2>1, <2>2, <2>3, <2>4, <2>5, <2>6, <2>7 DEF Next
<1> QED
  BY <1>1, <1>2, PTL DEF Spec

(* Every reachable state is well typed; in particular a statement never     *)
(* writes a status that the table does not know.                            *)
THEOREM TypeCorrect == Spec => []TypeOK
<1>1. IInv => TypeOK
  BY DEF IInv
<1> QED
  BY <1>1, Invariance, PTL

(* Whatever logs are missed, cut short or untrue, handlers fail and         *)
(* processes stop, on any number of servers: what agreement_parties says of *)
(* an agreement happened on chain, or a log of this agreement said so.      *)
THEOREM IndexIsTrue == Spec => []IndexFollowsChain
<1>1. IInv => IndexFollowsChain
  BY DEF IInv
<1> QED
  BY <1>1, Invariance, PTL

(* "Only the instance that wins this UPDATE will submit the transaction":   *)
(* the row lock of the expiry worker excludes any number of servers, of an  *)
(* agreement whose creation no log made up.                                 *)
THEOREM LockExcludes == Spec => []ExpiryLockIsExclusive
<1>1. IInv => ExpiryLockIsExclusive
  BY DEF IInv
<1> QED
  BY <1>1, Invariance, PTL

(* A row that was cancelled or expired stays cancelled or expired whatever  *)
(* a late expiry worker or a second server does, and turns from one into    *)
(* the other only after a log that named an end the chain did not bring.    *)
THEOREM ConclusionStays == Spec => ConclusionIsFinal
<1> DEFINE Stays == \A a \in Agreements, p \in Parties : RowStays(a, p)
<1>1. IInv /\ [Next]_vars => [Stays]_vars
  <2> SUFFICES ASSUME IInv, Next PROVE Stays
    OBVIOUS
  <2>0. ASSUME UNCHANGED status PROVE Stays
    BY <2>0 DEF RowStays
  <2>1. CASE ChainStep \/ \E e \in ParsedEvent : MisleadingLog(e)
    BY <2>0, <2>1 DEF ChainStep, ChainCreates, ChainSigns, ChainVotes, ChainCancels, ChainExpires,
       DeadlinePasses, MisleadingLog, rowVars
  <2>2. ASSUME NEW s \in Servers, ListenerStep(s) PROVE Stays
    <3>1. ASSUME NEW p \in Parties, InsertParty(s, p) PROVE Stays
      <4>1. listener[s].event.agreement \in Agreements
        BY <3>1, HandlerFacts DEF InsertParty
      <4> QED
        BY <3>1, <4>1 DEF RowStays, InsertParty, IInv, TypeOK, Concluded
    <3>2. CASE Conclude(s)
      BY <3>2, ConcludeKeeps
    <3>3. CASE Receive(s) \/ RecordSignature(s) \/ CountUnsigned(s) \/ Notify(s) \/ Reconnect(s)
      BY <2>0, <3>3 DEF Receive, RecordSignature, CountUnsigned, Notify, Reconnect, rowVars
    <3> QED
      BY <2>2, <3>1, <3>2, <3>3 DEF ListenerStep
  <2>3. ASSUME NEW s \in Servers, ExpiryStep(s) PROVE Stays
    <3>1. CASE UnlockAgreement(s) \/ \E a \in Agreements : LockAgreement(s, a)
      BY <3>1, LockKeeps, UnlockKeeps
    <3>2. CASE ExpiryScan(s) \/ SubmitAccepted(s) \/ SubmitRefused(s)
      BY <2>0, <3>2 DEF ExpiryScan, SubmitAccepted, SubmitRefused, rowVars
    <3> QED
      BY <2>3, <3>1, <3>2 DEF ExpiryStep
  <2>4. ASSUME NEW s \in Servers, FailureStep(s) \/ Crash(s) PROVE Stays
    BY <2>0, <2>4 DEF FailureStep, HandlerFails, SubscriptionEnds, LockFails, SubmitFails,
       UnlockFails, Crash, rowVars
  <2> QED
    BY <2>1, <2>2, <2>3, <2>4 DEF Next
<1>2. Stays <=> \A a \in Agreements, p \in Parties :
                    status[a][p] \in Concluded =>
                        /\ status'[a][p] \in Concluded
                        /\ \/ status'[a][p] = status[a][p]
                           \/ \E st \in Concluded : ConclusionClaimed(a, st)
  BY DEF RowStays
<1> QED
  BY <1>1, <1>2, Invariance, PTL DEF Spec, ConclusionIsFinal

---------------------------------------------------------------------------
(* TransactionHandlers: the inductive invariant. *)

(* Whoever asked has to sign, and the account a transaction acts on is the  *)
(* one it was asked for, but for the two builders that may miss.            *)
AimedAt(x) ==
    /\ x.by \in x.needs
    /\ x.ix = "create" => x.parties \in PartySets
    /\ x.ix \notin {"expire", "retract_revoke_vote"} => x.agreement = x.asked

(* A transaction that would be the final signature on the account its       *)
(* handler saw has the metadata_uri: the parties are still the ones it saw, *)
(* the signatures need not be.                                              *)
SignedAsSeen(x) ==
    x.ix = "sign" =>
        /\ Exists(x.asked)
        /\ is_final_signature(Cardinality(account[x.asked].parties), Cardinality(x.seen),
                              x.by \in x.seen) => x.metadata_uri

TxInv ==
    /\ TxTypeOK
    /\ \A pda \in Pdas : Exists(pda) => account[pda].parties \in PartySets
    /\ \A t \in Txs : tx[t] # NoTx => AimedAt(tx[t]) /\ SignedAsSeen(tx[t])

---------------------------------------------------------------------------
(* Lemmas about the program and the builders *)

(* An agreement that exists keeps its parties and goes on existing, and one *)
(* that does not is only made by a creation, with the parties it names.     *)
LEMMA ExecutesFacts ==
    ASSUME NEW x \in Transaction, NEW a \in AgreementState
    PROVE  /\ Executes(x, a) \in AgreementState
           /\ a.status # "absent" => /\ Executes(x, a).status # "absent"
                                     /\ Executes(x, a).parties = a.parties
           /\ a.status = "absent" /\ Executes(x, a).status # "absent" =>
                  x.ix = "create" /\ Executes(x, a).parties = x.parties
<1>1. CASE x.ix = "create" /\ a.status = "absent"
  BY <1>1 DEF Executes, Absent, AgreementState, AgreementStatus, Transaction, Keys
<1>2. CASE x.ix = "sign" /\ a.status = "PendingSignatures" /\ x.by \in a.parties \ a.signed_by
  BY <1>2 DEF Executes, AgreementState, AgreementStatus, Transaction
<1>3. CASE x.ix = "cancel" /\ a.status = "PendingSignatures"
  BY <1>3 DEF Executes, AgreementState, AgreementStatus, Transaction
<1>4. CASE x.ix = "expire" /\ a.status = "PendingSignatures"
  BY <1>4 DEF Executes, AgreementState, AgreementStatus, Transaction
<1>5. CASE x.ix = "vote_revoke" /\ a.status = "Completed" /\ x.by \in a.parties
  BY <1>5 DEF Executes, AgreementState, AgreementStatus, Transaction
<1>6. CASE x.ix = "retract_revoke_vote" /\ a.status = "Completed"
  BY <1>6 DEF Executes, AgreementState, AgreementStatus, Transaction
<1>7. CASE /\ ~(x.ix = "create" /\ a.status = "absent")
           /\ ~(x.ix = "sign" /\ a.status = "PendingSignatures" /\ x.by \in a.parties \ a.signed_by)
           /\ ~(x.ix = "cancel" /\ a.status = "PendingSignatures")
           /\ ~(x.ix = "expire" /\ a.status = "PendingSignatures")
           /\ ~(x.ix = "vote_revoke" /\ a.status = "Completed" /\ x.by \in a.parties)
           /\ ~(x.ix = "retract_revoke_vote" /\ a.status = "Completed")
  <2>1. Executes(x, a) = a
    BY <1>7 DEF Executes
  <2> QED
    BY <2>1
<1> QED
  BY <1>1, <1>2, <1>3, <1>4, <1>5, <1>6, <1>7

(* An address derived from the creator and the id of an agreement is that   *)
(* agreement's.                                                             *)
LEMMA DerivedAgain ==
    ASSUME NEW pda \in Pdas, NEW signer
    PROVE  agreement_of(pda, signer) = pda
  BY DEF agreement_of, derive_agreement_pda, Pdas

LEMMA AddressFacts ==
    /\ Pdas \subseteq Addresses
    /\ \A w \in Wallets, id \in Ids \cup {NoId} : derive_agreement_pda(w, id) \in Addresses
    /\ \A pda \in Pdas : pda.creator \in Wallets /\ pda.agreement_id \in Ids
    /\ \A pda \in Pdas : agreement_id_at(pda, 32) \subseteq Ids \cup {NoId}
  BY DEF Pdas, Addresses, derive_agreement_pda, agreement_id_at, AgreementIdFirst

(* The transactions of the handlers are transactions, aimed as TxInv says. *)
LEMMA VaultSignedIsAimed ==
    ASSUME NEW pda \in Pdas, NEW by \in Keys, NEW acts_on \in Addresses,
           NEW ix \in Instruction \ {"create", "sign"},
           ix \notin {"expire", "retract_revoke_vote"} => acts_on = pda
    PROVE  LET x == build_vault_signed_tx(ix, pda, by, acts_on) IN
           x \in Transaction /\ AimedAt(x) /\ x.ix # "sign"
<1> DEFINE x == build_vault_signed_tx(ix, pda, by, acts_on)
<1>1. x \in Transaction
  BY DEF build_vault_signed_tx, Transaction, Keys
<1>2. AimedAt(x) /\ x.ix # "sign"
  BY DEF build_vault_signed_tx, AimedAt
<1> QED
  BY <1>1, <1>2

LEMMA CreationIsAimed ==
    ASSUME NEW pda \in Pdas, NEW parties \in PartySets
    PROVE  LET x == build_create_agreement_tx(pda, parties) IN
           x \in Transaction /\ AimedAt(x) /\ x.ix # "sign"
<1> DEFINE x == build_create_agreement_tx(pda, parties)
<1>1. x \in Transaction
  BY PartiesAssumption, AddressFacts DEF build_create_agreement_tx, Transaction, Keys, Instruction
<1>2. AimedAt(x) /\ x.ix # "sign"
  BY DEF build_create_agreement_tx, AimedAt
<1> QED
  BY <1>1, <1>2

LEMMA SignatureIsAimed ==
    ASSUME TxTypeOK, NEW pda \in Pdas, NEW signer \in Wallets, NEW metadata_uri \in BOOLEAN
    PROVE  LET x == build_sign_agreement_tx(pda, signer, metadata_uri) IN
           /\ x \in Transaction /\ AimedAt(x)
           /\ x.asked = pda /\ x.by = signer /\ x.metadata_uri = metadata_uri
           /\ x.seen = account[pda].signed_by
<1> DEFINE x == build_sign_agreement_tx(pda, signer, metadata_uri)
<1>1. account[pda].vault_funder \in Keys /\ account[pda].signed_by \in SUBSET Wallets
  BY DEF TxTypeOK, AgreementState
<1>2. x \in Transaction
  BY <1>1, DerivedAgain, AddressFacts DEF build_sign_agreement_tx, Transaction, Keys, Instruction
<1>3. AimedAt(x)
  BY DerivedAgain DEF build_sign_agreement_tx, AimedAt
<1>4. /\ x.asked = pda /\ x.by = signer /\ x.metadata_uri = metadata_uri
      /\ x.seen = account[pda].signed_by
  BY DEF build_sign_agreement_tx
<1> QED
  BY <1>2, <1>3, <1>4

(* What no step takes back: an agreement exists, with its parties. *)
AgreementsStay ==
    \A pda \in Pdas :
        Exists(pda) => Exists(pda)' /\ account'[pda].parties = account[pda].parties

(* Then what a transaction's handler saw of the parties is still so. *)
LEMMA SeenStays ==
    ASSUME TxInv, AgreementsStay, NEW t \in Txs, tx[t] # NoTx, tx'[t] = tx[t]
    PROVE  AimedAt(tx'[t]) /\ SignedAsSeen(tx[t])'
<1>1. tx[t] \in Transaction /\ AimedAt(tx[t]) /\ SignedAsSeen(tx[t])
  BY DEF TxInv, TxTypeOK
<1>2. tx[t].asked \in Pdas
  BY <1>1 DEF Transaction
<1> QED
  BY <1>1, <1>2 DEF AgreementsStay, SignedAsSeen, Exists

(* A step that leaves every transaction alone or forgets it. *)
LEMMA ChainStepKeeps ==
    ASSUME TxInv, AgreementsStay, account' \in [Pdas -> AgreementState],
           \A pda \in Pdas : Exists(pda)' => account'[pda].parties \in PartySets,
           tx' \in [Txs -> Transaction \cup {NoTx}],
           \A t \in Txs : tx'[t] = tx[t] \/ tx'[t] = NoTx
    PROVE  TxInv'
<1>1. ASSUME NEW t \in Txs, tx'[t] # NoTx PROVE AimedAt(tx'[t]) /\ SignedAsSeen(tx[t])'
  BY <1>1, SeenStays
<1> QED
  BY <1>1 DEF TxInv, TxTypeOK

LEMMA AnswerKeeps ==
    ASSUME TxInv, NEW t \in Txs, NEW built \in Transaction,
           AimedAt(built), SignedAsSeen(built), Answer(t, built)
    PROVE  TxInv'
<1>1. tx' \in [Txs -> Transaction \cup {NoTx}] /\ account' = account
  BY DEF Answer, TxInv, TxTypeOK
<1>2. AgreementsStay
  BY <1>1 DEF AgreementsStay, Exists
<1>3. ASSUME NEW u \in Txs, tx'[u] # NoTx PROVE AimedAt(tx'[u]) /\ SignedAsSeen(tx[u])'
  <2>1. CASE u = t
    <3>1. tx'[u] = built
      BY <2>1 DEF Answer, TxInv, TxTypeOK
    <3> QED
      BY <1>1, <3>1 DEF SignedAsSeen, Exists
  <2>2. CASE u # t
    <3>1. tx'[u] = tx[u]
      BY <2>2 DEF Answer, TxInv, TxTypeOK
    <3> QED
      BY <1>2, <1>3, <3>1, SeenStays
  <2> QED
    BY <2>1, <2>2
<1> QED
  BY <1>1, <1>3 DEF TxInv, TxTypeOK, Exists

---------------------------------------------------------------------------
(* The steps *)

LEMMA HandlerStepKeeps ==
    ASSUME TxInv, NEW t \in Txs, NEW pda \in Pdas, HandlerStep(t, pda)
    PROVE  TxInv'
<1> USE AddressFacts, DerivedAgain
<1>1. ASSUME NEW parties \in PartySets, CreateAgreement(t, pda, parties) PROVE TxInv'
  BY <1>1, CreationIsAimed, AnswerKeeps DEF CreateAgreement, SignedAsSeen
<1>2. ASSUME NEW w \in Wallets, NEW metadata_uri \in BOOLEAN,
             SignAgreement(t, pda, w, metadata_uri)
      PROVE  TxInv'
  <2> DEFINE x == build_sign_agreement_tx(pda, w, metadata_uri)
  <2>1. /\ x \in Transaction /\ AimedAt(x)
        /\ x.asked = pda /\ x.by = w /\ x.metadata_uri = metadata_uri
        /\ x.seen = account[pda].signed_by
    BY SignatureIsAimed DEF TxInv
  <2>2. SignedAsSeen(x) /\ Answer(t, x)
    BY <1>2, <2>1 DEF SignAgreement, SignedAsSeen
  <2> QED
    BY <2>1, <2>2, AnswerKeeps
<1>3. ASSUME NEW w \in Wallets, CancelAgreement(t, pda, w) PROVE TxInv'
  <2> DEFINE x == build_cancel_agreement_tx(pda, w)
  <2>1. x \in Transaction /\ AimedAt(x) /\ x.ix # "sign"
    BY VaultSignedIsAimed DEF build_cancel_agreement_tx, Instruction, Keys
  <2> QED
    BY <1>3, <2>1, AnswerKeeps DEF CancelAgreement, SignedAsSeen
<1>4. ASSUME NEW w \in Wallets, VoteRevoke(t, pda, w) PROVE TxInv'
  <2> DEFINE x == build_vote_revoke_tx(pda, w)
  <2>1. x \in Transaction /\ AimedAt(x) /\ x.ix # "sign"
    BY VaultSignedIsAimed DEF build_vote_revoke_tx, Instruction, Keys
  <2> QED
    BY <1>4, <2>1, AnswerKeeps DEF VoteRevoke, SignedAsSeen
<1>5. ASSUME NEW w \in Wallets, RetractRevokeVote(t, pda, w) PROVE TxInv'
  <2> DEFINE x == build_retract_revoke_vote_tx(pda, w)
  <2>1. x \in Transaction /\ AimedAt(x) /\ x.ix # "sign"
    BY VaultSignedIsAimed DEF build_retract_revoke_vote_tx, Instruction, Keys
  <2> QED
    BY <1>5, <2>1, AnswerKeeps DEF RetractRevokeVote, SignedAsSeen
<1>6. CASE SubmitExpire(t, pda)
  <2>1. PICK id \in Ids \cup {NoId} : Answer(t, build_expire_agreement_tx(pda, id))
    BY <1>6 DEF SubmitExpire
  <2> DEFINE x == build_expire_agreement_tx(pda, id)
  <2>2. x \in Transaction /\ AimedAt(x) /\ x.ix # "sign"
    BY VaultSignedIsAimed DEF build_expire_agreement_tx, Instruction, Keys
  <2> QED
    BY <2>1, <2>2, AnswerKeeps DEF SignedAsSeen
<1> QED
  BY <1>1, <1>2, <1>3, <1>4, <1>5, <1>6 DEF HandlerStep

LEMMA LandsKeeps ==
    ASSUME TxInv, NEW t \in Txs, Lands(t)
    PROVE  TxInv'
<1> DEFINE x == tx[t]
<1>1. x \in Transaction /\ AimedAt(x)
  BY DEF Lands, TxInv, TxTypeOK
<1>2. /\ tx' \in [Txs -> Transaction \cup {NoTx}]
      /\ \A u \in Txs : tx'[u] = tx[u] \/ tx'[u] = NoTx
  BY DEF Lands, TxInv, TxTypeOK
<1>3. ASSUME NEW pda \in Pdas
      PROVE  account'[pda] = account[pda] \/ account'[pda] = Executes(x, account[pda])
  BY DEF Lands, TxInv, TxTypeOK
<1>4. account' \in [Pdas -> AgreementState]
  <2>1. x.agreement \in Pdas => Executes(x, account[x.agreement]) \in AgreementState
    BY <1>1, ExecutesFacts DEF TxInv, TxTypeOK
  <2> QED
    BY <2>1 DEF Lands, TxInv, TxTypeOK
<1>5. AgreementsStay
  BY <1>1, <1>3, ExecutesFacts DEF AgreementsStay, Exists, TxInv, TxTypeOK
<1>6. ASSUME NEW pda \in Pdas, Exists(pda)' PROVE account'[pda].parties \in PartySets
  BY <1>1, <1>3, <1>5, <1>6, ExecutesFacts
     DEF AgreementsStay, Exists, AimedAt, TxInv, TxTypeOK
<1> QED
  BY <1>2, <1>4, <1>5, <1>6, ChainStepKeeps

LEMMA IsForgottenKeeps ==
    ASSUME TxInv, NEW t \in Txs, IsForgotten(t)
    PROVE  TxInv'
<1>1. /\ tx' \in [Txs -> Transaction \cup {NoTx}]
      /\ \A u \in Txs : tx'[u] = tx[u] \/ tx'[u] = NoTx
  BY DEF IsForgotten, TxInv, TxTypeOK
<1>2. AgreementsStay
  BY DEF IsForgotten, AgreementsStay, Exists
<1> QED
  BY <1>1, <1>2, ChainStepKeeps DEF IsForgotten, TxInv, TxTypeOK, Exists

LEMMA DirectCreateKeeps ==
    ASSUME TxInv, NEW pda \in Pdas, NEW parties \in PartySets, NEW f \in Wallets,
           DirectCreate(pda, parties, f)
    PROVE  TxInv'
<1> DEFINE made == [Absent EXCEPT !.status = "PendingSignatures", !.parties = parties,
                                  !.vault_funder = f]
<1>1. made \in AgreementState /\ made.parties = parties
  BY PartiesAssumption DEF Absent, AgreementState, AgreementStatus, Keys
<1>2. /\ account' \in [Pdas -> AgreementState] /\ account'[pda] = made
      /\ \A other \in Pdas \ {pda} : account'[other] = account[other]
  BY <1>1 DEF DirectCreate, TxInv, TxTypeOK
<1>3. AgreementsStay
  BY <1>2 DEF DirectCreate, AgreementsStay, Exists
<1>4. ASSUME NEW other \in Pdas, Exists(other)' PROVE account'[other].parties \in PartySets
  BY <1>1, <1>2, <1>4 DEF TxInv, Exists
<1> QED
  BY <1>2, <1>3, <1>4, ChainStepKeeps DEF DirectCreate, TxInv, TxTypeOK

(* A signature changes nothing that TxInv speaks of. *)
LEMMA ClientSignsKeeps ==
    ASSUME TxInv, NEW t \in Txs, NEW w \in Wallets, ClientSigns(t, w)
    PROVE  TxInv'
<1> DEFINE x == tx[t]
<1>1. x \in Transaction /\ AimedAt(x) /\ SignedAsSeen(x)
  BY DEF ClientSigns, TxInv, TxTypeOK
<1>2. tx' = [tx EXCEPT ![t] = [x EXCEPT !.signed = x.signed \cup {w}]] /\ account' = account
  BY DEF ClientSigns
<1>3. [x EXCEPT !.signed = x.signed \cup {w}] \in Transaction
  BY <1>1 DEF Transaction, Keys
<1>4. AgreementsStay
  BY <1>2 DEF AgreementsStay, Exists
<1>5. ASSUME NEW u \in Txs, tx'[u] # NoTx PROVE AimedAt(tx'[u]) /\ SignedAsSeen(tx[u])'
  <2>1. CASE u = t
    <3>1. tx'[u] = [x EXCEPT !.signed = x.signed \cup {w}]
      BY <1>2, <2>1 DEF TxInv, TxTypeOK
    <3> QED
      BY <1>1, <1>2, <3>1 DEF AimedAt, SignedAsSeen, Exists, Transaction
  <2>2. CASE u # t
    <3>1. tx'[u] = tx[u]
      BY <1>2, <2>2 DEF TxInv, TxTypeOK
    <3> QED
      BY <1>4, <1>5, <3>1, SeenStays
  <2> QED
    BY <2>1, <2>2
<1> QED
  BY <1>2, <1>3, <1>5 DEF TxInv, TxTypeOK, Exists

THEOREM TxInvariance == TxSpec => []TxInv
<1>1. TxInit => TxInv
  <2> SUFFICES ASSUME TxInit PROVE TxInv
    OBVIOUS
  <2>1. Absent \in AgreementState /\ Absent.status = "absent"
    BY DEF Absent, AgreementState, AgreementStatus, Keys
  <2> QED
    BY <2>1 DEF TxInit, TxInv, TxTypeOK, Exists
<1>2. TxInv /\ [TxNext]_txVars => TxInv'
  <2> SUFFICES ASSUME TxInv, [TxNext]_txVars PROVE TxInv'
    OBVIOUS
  <2>1. CASE UNCHANGED txVars
    BY <2>1 DEF txVars, TxInv, TxTypeOK, Exists, SignedAsSeen
  <2>2. CASE TxNext
    BY <2>2, HandlerStepKeeps, LandsKeeps, IsForgottenKeeps, ClientSignsKeeps,
       DirectCreateKeeps DEF TxNext
  <2> QED
    BY <2>1, <2>2
<1> QED
  BY <1>1, <1>2, PTL DEF TxSpec

(* TransactionHandlers is type correct: every account and every transaction *)
(* a handler builds, a client signs or the program executes is of its kind. *)
THEOREM TxTypeCorrect == TxSpec => []TxTypeOK
  BY TxInvariance, PTL DEF TxInv

(* What may change an account. *)
LEMMA OnlyLandingForgets ==
    ASSUME TxInv, [TxNext]_txVars, NEW t \in Txs, tx[t] # NoTx, tx'[t] = NoTx
    PROVE  Lands(t) \/ (IsForgotten(t) /\ account' = account)
<1>1. ~ UNCHANGED txVars
  BY DEF txVars
<1>2. ASSUME NEW u \in Txs, NEW pda \in Pdas, HandlerStep(u, pda) PROVE FALSE
  <2>1. PICK built : Answer(u, built)
    BY <1>2 DEF HandlerStep, CreateAgreement, SignAgreement, CancelAgreement, VoteRevoke,
       RetractRevokeVote, SubmitExpire
  <2>2. u # t /\ tx'[t] = tx[t]
    BY <2>1 DEF Answer, TxInv, TxTypeOK
  <2> QED
    BY <2>2
<1>3. ASSUME NEW u \in Txs, Lands(u) \/ IsForgotten(u) PROVE u = t
  BY <1>3 DEF Lands, IsForgotten, TxInv, TxTypeOK
<1>4. ASSUME NEW u \in Txs, NEW w \in Wallets, ClientSigns(u, w) PROVE FALSE
  <2>1. tx[t] \in Transaction /\ tx[t].ix # "none"
    BY DEF TxInv, TxTypeOK, Transaction, Instruction
  <2>2. tx'[t].ix = tx[t].ix
    BY <1>4, <2>1 DEF ClientSigns, TxInv, TxTypeOK, Transaction
  <2> QED
    BY <2>1, <2>2 DEF NoTx
<1>5. ASSUME NEW pda \in Pdas, NEW parties \in PartySets, NEW f \in Wallets,
             DirectCreate(pda, parties, f)
      PROVE  FALSE
  BY <1>5 DEF DirectCreate
<1> QED
  BY <1>1, <1>2, <1>3, <1>4, <1>5 DEF TxNext, IsForgotten

(* No transaction that lands acts for somebody who did not sign it, and a   *)
(* creation, a signature, a cancellation or a vote acts on no agreement but *)
(* the one its request named: not even where two creators use one id, which *)
(* the address keeps apart.                                                 *)
THEOREM LandsWhereNamed == TxSpec => LandsOnNamedAgreement
<1> DEFINE Named(t, pda) ==
        /\ tx[t] # NoTx /\ tx'[t] = NoTx /\ account'[pda] # account[pda]
        => /\ tx[t].by \in tx[t].signed
           /\ tx[t].ix \notin {"retract_revoke_vote", "expire"} => pda = tx[t].asked
<1>1. TxInv /\ [TxNext]_txVars => [\A t \in Txs, pda \in Pdas : Named(t, pda)]_txVars
  <2> SUFFICES ASSUME TxInv, [TxNext]_txVars, NEW t \in Txs, NEW pda \in Pdas,
                      tx[t] # NoTx, tx'[t] = NoTx, account'[pda] # account[pda]
               PROVE  Named(t, pda)
    OBVIOUS
  <2>1. Lands(t)
    BY OnlyLandingForgets
  <2>2. pda = tx[t].agreement
    BY <2>1 DEF Lands, TxInv, TxTypeOK
  <2>3. AimedAt(tx[t]) /\ tx[t].needs \subseteq tx[t].signed
    BY <2>1 DEF Lands, TxInv
  <2> QED
    BY <2>2, <2>3 DEF AimedAt
<1> QED
  BY <1>1, TxInvariance, PTL DEF TxSpec, LandsOnNamedAgreement

(* The one signature that makes a set of signers the parties is what        *)
(* is_final_signature counts.                                               *)
LEMMA LastSignerIsFinal ==
    ASSUME NEW parties, IsFiniteSet(parties), NEW signed_by, NEW by,
           by \notin signed_by, signed_by \cup {by} = parties
    PROVE  is_final_signature(Cardinality(parties), Cardinality(signed_by), by \in signed_by)
<1>1. IsFiniteSet(signed_by)
  BY FS_Subset
<1>2. Cardinality(parties) = Cardinality(signed_by) + 1
  BY <1>1, FS_AddElement
<1> QED
  BY <1>2 DEF is_final_signature

(* An agreement that completes gets its credential, unless the signature    *)
(* that completes it was built when other signatures were on the account    *)
(* than when it landed: the handler's count is exact on what it read.       *)
THEOREM CredentialOnlyMissedIfStale == TxSpec => CredentialMissingOnlyIfStale
<1> DEFINE Stale(pda) ==
        /\ account[pda].status = "PendingSignatures"
        /\ account'[pda].status = "Completed" /\ ~account'[pda].nft_asset
        => \E t \in Txs : /\ tx[t] # NoTx /\ tx'[t] = NoTx
                          /\ tx[t].seen # account[pda].signed_by
<1>1. TxInv /\ [TxNext]_txVars => [\A pda \in Pdas : Stale(pda)]_txVars
  <2> SUFFICES ASSUME TxInv, [TxNext]_txVars, NEW pda \in Pdas,
                      account[pda].status = "PendingSignatures",
                      account'[pda].status = "Completed", ~account'[pda].nft_asset
               PROVE  \E t \in Txs : /\ tx[t] # NoTx /\ tx'[t] = NoTx
                                     /\ tx[t].seen # account[pda].signed_by
    OBVIOUS
  <2>1. account' # account
    OBVIOUS
  <2>2. ~ \E other \in Pdas, parties \in PartySets, f \in Wallets :
              DirectCreate(other, parties, f)
    BY DEF DirectCreate, TxInv, TxTypeOK
  <2>3. PICK t \in Txs : Lands(t)
    BY <2>1, <2>2 DEF TxNext, txVars, HandlerStep, CreateAgreement, SignAgreement,
       CancelAgreement, VoteRevoke, RetractRevokeVote, SubmitExpire, Answer, IsForgotten,
       ClientSigns
  <2> DEFINE x == tx[t]
             a == account[pda]
  <2>4. x \in Transaction /\ AimedAt(x) /\ SignedAsSeen(x) /\ x # NoTx /\ tx'[t] = NoTx
    BY <2>3 DEF Lands, TxInv, TxTypeOK
  <2>5. pda = x.agreement /\ account'[pda] = Executes(x, a)
    BY <2>1, <2>3 DEF Lands, TxInv, TxTypeOK
  <2>6. /\ x.ix = "sign" /\ x.by \in a.parties \ a.signed_by
        /\ a.signed_by \cup {x.by} = a.parties /\ ~x.metadata_uri
    <3>1. a \in AgreementState
      BY DEF TxInv, TxTypeOK
    <3> QED
      BY <2>4, <2>5, <3>1 DEF Executes, AgreementState, Transaction
  <2>7. pda = x.asked
    BY <2>4, <2>5, <2>6 DEF AimedAt
  <2>8. is_final_signature(Cardinality(a.parties), Cardinality(a.signed_by),
                           x.by \in a.signed_by)
    <3>1. IsFiniteSet(a.parties)
      BY PartiesAssumption DEF TxInv, Exists
    <3> QED
      BY <2>6, <3>1, LastSignerIsFinal
  <2>9. x.seen # a.signed_by
    BY <2>4, <2>6, <2>7, <2>8 DEF SignedAsSeen
  <2> QED
    BY <2>4, <2>9
<1> QED
  BY <1>1, TxInvariance, PTL DEF TxSpec, CredentialMissingOnlyIfStale
=============================================================================
