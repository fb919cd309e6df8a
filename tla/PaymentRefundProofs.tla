------------------------ MODULE PaymentRefundProofs ------------------------
(***************************************************************************)
(* Proofs about PaymentRefund, for any finite sets of payments and servers  *)
(* and all values of the bounds.                                            *)
(***************************************************************************)
EXTENDS PaymentRefund, FiniteSetTheorems, SequenceTheorems, TLAPS

---------------------------------------------------------------------------
(* The inductive invariant: what the writers still hold, between reading a  *)
(* row and writing it by its id.                                            *)

Opened == {"refund_pending", "refunded"}

(* The end of an agreement of the payment's draft was reported. *)
Owed(p) == \E a \in reported : submitted[a] = draft_id[p]

(* Once confirmed a payment is never expired, and the other way round; it   *)
(* is linked only to agreements of its draft, and only when confirmed.      *)
RowInv(p) ==
    /\ status[p] # "absent" => draft_id[p] \in Drafts
    /\ p \in confirmed => p \in paid /\ status[p] \in {"confirmed"} \cup Opened
    /\ status[p] = "confirmed" => p \in confirmed
    /\ agreement_pda[p] # None => p \in confirmed /\ submitted[agreement_pda[p]] = draft_id[p]
    /\ status[p] \in Opened <=> opened[p] > 0
    /\ status[p] \in Opened /\ p \in confirmed => Owed(p)
    /\ status[p] = "refunded" => p \in transferred
    /\ p \in transferred => p \in paid

KeeperInv(s) ==
    /\ \A p \in keeper[s].todo : p \notin confirmed /\ status[p] \in {"expired"} \cup Opened
    /\ keeper[s].pc = "mark" => keeper[s].at \in keeper[s].todo

ListenerInv(s) == \A p \in Payments : listener[s] = p => p \in confirmed /\ Owed(p)

WorkerInv(s) ==
    LET b == worker[s].batch IN
    /\ worker[s].pc = "idle" <=> b = <<>>
    /\ \A i \in 1..Len(b) : b[i][1] \in confirmed
    /\ worker[s].pc = "record" => b[1][1] \in transferred

(* Servers that may still open a refund of p. *)
Holders(p) == {s \in Servers : p \in keeper[s].todo \/ listener[s] = p}

HolderInv(p) == opened[p] + Cardinality(Holders(p)) <= Cardinality(Servers)

CoreInv ==
    /\ TypeOK
    /\ \A p \in Payments : RowInv(p)
    /\ \A s \in Servers : KeeperInv(s) /\ ListenerInv(s) /\ WorkerInv(s)

IInv == CoreInv /\ \A p \in Payments : HolderInv(p)

---------------------------------------------------------------------------
(* What a batch of refunds holds *)

Rows == Payments \X (1..MaxParties)

LEMMA RowsAreFinite ==
    IsFiniteSet(Rows)
<1>1. IsFiniteSet(1..MaxParties)
  BY PaymentAssumption, FS_Interval
<1> QED
  BY <1>1, PaymentAssumption, FS_Product DEF Rows

LEMMA BatchProperties ==
    ASSUME TypeOK, RefundRows # {}, NEW b \in RefundBatches
    PROVE  /\ b \in Seq(Rows) /\ b # <<>>
           /\ \A i \in 1..Len(b) : b[i][1] \in Payments /\ agreement_pda[b[i][1]] # None
<1>1. ASSUME NEW r \in RefundRows
      PROVE  r \in Rows /\ r[1] \in Payments /\ agreement_pda[r[1]] # None
  <2>1. PICK q \in Payments : Joined(q) /\ r \in {<<q, k>> : k \in 1..parties[agreement_pda[q]]}
    BY DEF RefundRows
  <2>2. PICK k \in 1..parties[agreement_pda[q]] : r = <<q, k>>
    BY <2>1
  <2>3. agreement_pda[q] \in Agreements /\ agreement_pda[q] # None
    BY <2>1 DEF Joined, TypeOK
  <2>4. parties[agreement_pda[q]] \in 0..MaxParties /\ MaxParties \in Nat
    BY <2>3, PaymentAssumption DEF TypeOK
  <2> QED
    BY <2>2, <2>3, <2>4 DEF Rows
<1> DEFINE n == IF Cardinality(RefundRows) < RowLimit THEN Cardinality(RefundRows) ELSE RowLimit
<1>2. n \in Nat \ {0}
  <2>1. IsFiniteSet(RefundRows) /\ Cardinality(RefundRows) \in Nat
    BY <1>1, RowsAreFinite, FS_Subset, FS_CardinalityType
  <2>2. Cardinality(RefundRows) # 0
    BY <2>1, FS_EmptySet
  <2> QED
    BY <2>1, <2>2, PaymentAssumption
<1>3. b \in [1..n -> RefundRows]
  BY DEF RefundBatches, Batches
<1> HIDE DEF n
<1>4. b \in Seq(RefundRows) /\ Len(b) = n
  BY <1>2, <1>3
<1>5. b \in Seq(Rows)
  BY <1>1, <1>4, SeqMonotonic
<1> QED
  BY <1>1, <1>2, <1>3, <1>4, <1>5

---------------------------------------------------------------------------
(* Rows only move forward, and what a process holds of them stays true as   *)
(* long as it does not move itself.                                         *)

Forward ==
    /\ confirmed \subseteq confirmed' /\ transferred \subseteq transferred'
    /\ \A p \in Payments : p \in confirmed /\ Owed(p) => Owed(p)'
    /\ \A p \in Payments : p \notin confirmed /\ status[p] \in {"expired"} \cup Opened =>
           p \notin confirmed' /\ status'[p] \in {"expired"} \cup Opened

LEMMA KeeperFrame ==
    ASSUME CoreInv, Forward, NEW s \in Servers, keeper'[s] = keeper[s]
    PROVE  KeeperInv(s)'
<1>1. KeeperInv(s) /\ keeper[s].todo \subseteq Payments
  BY DEF CoreInv, TypeOK
<1> QED
  BY <1>1 DEF KeeperInv, Forward

LEMMA ListenerFrame ==
    ASSUME CoreInv, Forward, NEW s \in Servers, listener'[s] = listener[s]
    PROVE  ListenerInv(s)'
<1>1. ListenerInv(s)
  BY DEF CoreInv
<1> QED
  BY <1>1 DEF ListenerInv, Forward

LEMMA WorkerFrame ==
    ASSUME CoreInv, Forward, NEW s \in Servers, worker'[s] = worker[s]
    PROVE  WorkerInv(s)'
<1>1. WorkerInv(s)
  BY DEF CoreInv
<1> QED
  BY <1>1 DEF WorkerInv, Forward

(* What RowInv speaks of; a step that leaves it alone only moves processes. *)
coreVars == <<status, draft_id, confirmed, agreement_pda, paid, submitted, reported, opened,
              transferred>>

LEMMA RowFrame ==
    ASSUME CoreInv, UNCHANGED coreVars
    PROVE  Forward /\ \A p \in Payments : RowInv(p)'
  BY DEF CoreInv, RowInv, Forward, Owed, coreVars

---------------------------------------------------------------------------
(* The payer, the poller and the draft *)

LEMMA PaymentCore ==
    ASSUME CoreInv, NEW p \in Payments, PaymentStep(p)
    PROVE  CoreInv'
<1> USE DEF CoreInv
<1>1. ASSUME NEW d \in Drafts, InsertPayment(p, d)
      PROVE  CoreInv'
  <2>1. TypeOK'
    BY <1>1 DEF InsertPayment, chainVars, countVars, TypeOK, PaymentStatus
  <2>2. /\ status[p] = "absent" /\ RowInv(p)
        /\ p \notin confirmed /\ agreement_pda[p] = None /\ opened[p] = 0
    <3>1. status[p] = "absent" /\ RowInv(p)
      BY <1>1 DEF InsertPayment
    <3>2. opened[p] \in Nat
      BY DEF TypeOK
    <3>3. p \notin confirmed /\ opened[p] = 0
      BY <3>1, <3>2 DEF RowInv, Opened
    <3>4. agreement_pda[p] = None
      BY <3>1, <3>3 DEF RowInv
    <3> QED
      BY <3>1, <3>3, <3>4
  <2>3. /\ status'[p] = "pending" /\ draft_id'[p] = d
        /\ \A q \in Payments \ {p} : status'[q] = status[q] /\ draft_id'[q] = draft_id[q]
        /\ UNCHANGED <<confirmed, agreement_pda, paid, submitted, reported, opened, transferred>>
    BY <1>1 DEF InsertPayment, chainVars, countVars, TypeOK
  <2>4. RowInv(p)'
    BY <2>2, <2>3 DEF RowInv, Opened, TypeOK
  <2>5. \A q \in Payments \ {p} : RowInv(q)'
    BY <2>3 DEF RowInv, Owed
  <2>6. Forward
    BY <1>1, <2>2, <2>3 DEF InsertPayment, Forward, Owed, Opened
  <2> QED
    BY <1>1, <2>1, <2>4, <2>5, <2>6, KeeperFrame, ListenerFrame, WorkerFrame DEF InsertPayment
<1>2. CASE Pay(p)
  <2>1. TypeOK'
    BY <1>2 DEF Pay, rowVars, countVars, TypeOK
  <2>2. Forward /\ \A q \in Payments : RowInv(q)'
    BY <1>2 DEF Pay, rowVars, countVars, RowInv, Forward, Owed
  <2> QED
    BY <1>2, <2>1, <2>2, KeeperFrame, ListenerFrame, WorkerFrame DEF Pay
<1>3. CASE ConfirmPayment(p)
  <2>1. TypeOK'
    BY <1>3 DEF ConfirmPayment, chainVars, countVars, TypeOK, PaymentStatus
  <2>2. /\ p \in paid /\ status[p] = "pending" /\ status'[p] = "confirmed"
        /\ \A q \in Payments \ {p} : status'[q] = status[q]
        /\ confirmed' = confirmed \cup {p}
        /\ UNCHANGED <<draft_id, agreement_pda, paid, submitted, reported, opened, transferred>>
    BY <1>3 DEF ConfirmPayment, chainVars, countVars, TypeOK
  <2>3. RowInv(p)'
    BY <2>2 DEF RowInv, Opened
  <2>4. \A q \in Payments \ {p} : RowInv(q)'
    BY <2>2 DEF RowInv, Owed
  <2>5. Forward
    BY <2>2 DEF Forward, Owed, Opened
  <2> QED
    BY <1>3, <2>1, <2>3, <2>4, <2>5, KeeperFrame, ListenerFrame, WorkerFrame DEF ConfirmPayment
<1> QED
  BY <1>1, <1>2, <1>3 DEF PaymentStep

(* A new address, or a new report, takes nothing from the payments of other *)
(* agreements.                                                              *)
LEMMA AgreementCore ==
    ASSUME CoreInv, NEW a \in Agreements, AgreementStep(a)
    PROVE  CoreInv'
<1> USE DEF CoreInv
<1>1. ASSUME NEW d \in Drafts, SubmitDraft(d, a)
      PROVE  CoreInv'
  <2>1. TypeOK'
    BY <1>1 DEF SubmitDraft, countVars, TypeOK
  <2>2. /\ submitted[a] = None /\ submitted'[a] = d
        /\ \A b \in Agreements \ {a} : submitted'[b] = submitted[b]
        /\ UNCHANGED <<status, draft_id, confirmed, paid, reported, opened, transferred>>
    BY <1>1 DEF SubmitDraft, countVars, TypeOK
  <2>3. ASSUME NEW q \in Payments
        PROVE  \/ Linkable(q, d) /\ agreement_pda'[q] = a
               \/ agreement_pda'[q] = agreement_pda[q]
    BY <1>1 DEF SubmitDraft
  <2>4. ASSUME NEW q \in Payments, q \in confirmed
        PROVE  /\ draft_id[q] # None
               /\ Owed(q) => Owed(q)'
    <3>1. draft_id[q] # None
      BY <2>4, PaymentAssumption DEF RowInv, Opened
    <3>2. reported \subseteq Agreements
      BY DEF TypeOK
    <3> QED
      BY <2>2, <3>1, <3>2 DEF Owed
  <2>5. ASSUME NEW q \in Payments
        PROVE  RowInv(q)'
    <3>1. RowInv(q) /\ agreement_pda[q] \in Agreements \cup {None}
      BY DEF TypeOK
    <3>2. agreement_pda'[q] # None => /\ q \in confirmed
                                      /\ submitted'[agreement_pda'[q]] = draft_id[q]
      BY <2>2, <2>3, <2>4, <3>1 DEF RowInv, Linkable
    <3>3. status[q] \in Opened /\ q \in confirmed => Owed(q)'
      BY <2>4, <3>1 DEF RowInv
    <3> QED
      BY <2>2, <3>1, <3>2, <3>3 DEF RowInv
  <2>6. Forward
    BY <2>2, <2>4 DEF Forward
  <2> QED
    BY <1>1, <2>1, <2>5, <2>6, KeeperFrame, ListenerFrame, WorkerFrame DEF SubmitDraft
<1>2. CASE IndexParty(a)
  <2>1. TypeOK'
    <3>1. parties[a] + 1 \in 0..MaxParties
      BY <1>2, PaymentAssumption DEF IndexParty, TypeOK
    <3>2. parties' \in [Agreements -> 0..MaxParties]
      BY <1>2, <3>1 DEF IndexParty, TypeOK
    <3> QED
      BY <1>2, <3>2 DEF IndexParty, rowVars, countVars, TypeOK
  <2>2. Forward /\ \A q \in Payments : RowInv(q)'
    BY <1>2, RowFrame DEF IndexParty, rowVars, countVars, coreVars
  <2> QED
    BY <1>2, <2>1, <2>2, KeeperFrame, ListenerFrame, WorkerFrame DEF IndexParty
<1>3. CASE EndIsReported(a)
  <2>1. TypeOK'
    BY <1>3 DEF EndIsReported, rowVars, countVars, TypeOK
  <2>2. Forward /\ \A q \in Payments : RowInv(q)'
    BY <1>3 DEF EndIsReported, rowVars, countVars, RowInv, Forward, Owed
  <2> QED
    BY <1>3, <2>1, <2>2, KeeperFrame, ListenerFrame, WorkerFrame DEF EndIsReported
<1> QED
  BY <1>1, <1>2, <1>3 DEF AgreementStep

LEMMA TickCore ==
    ASSUME CoreInv, Tick \/ UNCHANGED vars
    PROVE  CoreInv'
<1>1. TypeOK'
  BY PaymentAssumption DEF CoreInv, Tick, vars, rowVars, chainVars, countVars, TypeOK
<1>2. UNCHANGED coreVars /\ UNCHANGED <<keeper, listener, worker>>
  BY DEF Tick, vars, rowVars, chainVars, countVars, coreVars
<1> QED
  BY <1>1, <1>2, RowFrame, KeeperFrame, ListenerFrame, WorkerFrame DEF CoreInv

---------------------------------------------------------------------------
(* The listener and the keeper *)

KeeperType == [pc : {"idle", "select", "check", "mark", "disabled"},
               todo : SUBSET Payments, at : Payments \cup {None}]
WorkerType == [pc : {"idle", "transfer", "record"}, batch : Seq(Rows)]

LEMMA ListenerMoves ==
    ASSUME CoreInv, Forward, NEW s \in Servers, NEW l \in Payments \cup {None},
           ListenerGoes(s, l),
           l # None => l \in confirmed /\ Owed(l)
    PROVE  /\ listener' \in [Servers -> Payments \cup {None}]
           /\ \A r \in Servers : ListenerInv(r)'
<1>1. /\ listener' \in [Servers -> Payments \cup {None}] /\ listener'[s] = l
      /\ \A r \in Servers \ {s} : listener'[r] = listener[r]
  BY DEF ListenerGoes, CoreInv, TypeOK
<1>2. ListenerInv(s)'
  BY <1>1, PaymentAssumption DEF ListenerInv, Forward
<1> QED
  BY <1>1, <1>2, ListenerFrame

LEMMA KeeperMoves ==
    ASSUME CoreInv, Forward, NEW s \in Servers, NEW k \in KeeperType, KeeperGoes(s, k),
           \A p \in k.todo : p \notin confirmed' /\ status'[p] \in {"expired"} \cup Opened,
           k.pc = "mark" => k.at \in k.todo
    PROVE  /\ keeper' \in [Servers -> KeeperType]
           /\ \A r \in Servers : KeeperInv(r)'
<1>1. /\ keeper' \in [Servers -> KeeperType] /\ keeper'[s] = k
      /\ \A r \in Servers \ {s} : keeper'[r] = keeper[r]
  BY DEF KeeperGoes, CoreInv, TypeOK, KeeperType
<1>2. KeeperInv(s)'
  BY <1>1 DEF KeeperInv
<1> QED
  BY <1>1, <1>2, KeeperFrame

(* MarkForRefund, as the two that call it do, with an id they read before. *)
LEMMA MarkCore ==
    ASSUME CoreInv, NEW p \in Payments, MarkForRefund(p),
           UNCHANGED <<draft_id, confirmed, agreement_pda, chainVars, transferred>>,
           status[p] # "absent", p \in confirmed => Owed(p)
    PROVE  /\ Forward
           /\ \A q \in Payments : RowInv(q)'
           /\ status' \in [Payments -> PaymentStatus]
           /\ refund_initiated_at' \in [Payments -> 0..MaxTime]
           /\ opened' \in [Payments -> Nat]
<1>1. /\ status' = [status EXCEPT ![p] = "refund_pending"]
      /\ refund_initiated_at' = [refund_initiated_at EXCEPT ![p] = now]
      /\ opened' = [opened EXCEPT ![p] = @ + 1]
  BY DEF MarkForRefund, refund_pending
<1>2. Forward
  BY <1>1 DEF Forward, CoreInv, TypeOK, RowInv, Opened, Owed, chainVars
<1>3. \A q \in Payments \ {p} : RowInv(q)'
  BY <1>1 DEF CoreInv, TypeOK, RowInv, Owed, chainVars
<1>4. RowInv(p)'
  BY <1>1 DEF CoreInv, TypeOK, RowInv, Opened, Owed, chainVars
<1> QED
  BY <1>1, <1>2, <1>3, <1>4 DEF CoreInv, TypeOK, PaymentStatus

LEMMA ListenerCore ==
    ASSUME CoreInv, NEW s \in Servers, ListenerStep(s)
    PROVE  CoreInv'
<1> USE DEF CoreInv
<1>0. ListenerInv(s) /\ listener[s] \in Payments \cup {None}
  BY DEF TypeOK
<1>1. ASSUME NEW a \in Agreements, NEW p \in Payments, RefundSelect(s, a, p)
      PROVE  CoreInv'
  <2>1. /\ ListenerGoes(s, p) /\ a \in reported /\ Refundable(p, a)
        /\ UNCHANGED <<now, rowVars, chainVars, keeper, worker, countVars, crashes>>
    BY <1>1 DEF RefundSelect
  <2>2. p \in confirmed /\ Owed(p)
    BY <2>1, PaymentAssumption DEF Refundable, RowInv, Owed
  <2>3. Forward /\ \A q \in Payments : RowInv(q)'
    BY <2>1, RowFrame DEF coreVars, rowVars, chainVars, countVars
  <2>4. listener' \in [Servers -> Payments \cup {None}] /\ \A r \in Servers : ListenerInv(r)'
    BY <2>1, <2>2, <2>3, ListenerMoves
  <2>5. TypeOK'
    BY <2>1, <2>4 DEF TypeOK, rowVars, chainVars, countVars
  <2> QED
    BY <2>1, <2>3, <2>4, <2>5, KeeperFrame, WorkerFrame
<1>2. CASE RefundMark(s)
  <2> DEFINE p == listener[s]
  <2>1. /\ MarkForRefund(p) /\ ListenerGoes(s, None) /\ p # None
        /\ UNCHANGED <<now, draft_id, created_at, confirmed, agreement_pda, chainVars, keeper,
                       worker, transferred, crashes>>
    BY <1>2 DEF RefundMark
  <2>2. p \in Payments /\ p \in confirmed /\ Owed(p) /\ status[p] # "absent"
    BY <1>0, <2>1 DEF ListenerInv, RowInv, Opened
  <2> HIDE DEF p
  <2>3. /\ Forward /\ \A q \in Payments : RowInv(q)'
        /\ status' \in [Payments -> PaymentStatus]
        /\ refund_initiated_at' \in [Payments -> 0..MaxTime]
        /\ opened' \in [Payments -> Nat]
    BY <2>1, <2>2, MarkCore
  <2>4. listener' \in [Servers -> Payments \cup {None}] /\ \A r \in Servers : ListenerInv(r)'
    BY <2>1, <2>3, ListenerMoves
  <2>5. TypeOK'
    BY <2>1, <2>3, <2>4 DEF TypeOK, chainVars
  <2> QED
    BY <2>1, <2>3, <2>4, <2>5, KeeperFrame, WorkerFrame
<1>3. CASE RefundMarkFails(s)
  <2>1. /\ ListenerGoes(s, None)
        /\ UNCHANGED <<now, rowVars, chainVars, keeper, worker, countVars, crashes>>
    BY <1>3 DEF RefundMarkFails
  <2>2. Forward /\ \A q \in Payments : RowInv(q)'
    BY <2>1, RowFrame DEF coreVars, rowVars, chainVars, countVars
  <2>3. listener' \in [Servers -> Payments \cup {None}] /\ \A r \in Servers : ListenerInv(r)'
    BY <2>1, <2>2, ListenerMoves
  <2>4. TypeOK'
    BY <2>1, <2>3 DEF TypeOK, rowVars, chainVars, countVars
  <2> QED
    BY <2>1, <2>2, <2>3, <2>4, KeeperFrame, WorkerFrame
<1> QED
  BY <1>1, <1>2, <1>3 DEF ListenerStep

LEMMA KeeperOnly ==
    ASSUME CoreInv, NEW s \in Servers, NEW k \in KeeperType, KeeperGoes(s, k),
           UNCHANGED <<now, rowVars, chainVars, listener, worker, countVars, crashes>>,
           \A p \in k.todo : p \notin confirmed /\ status[p] \in {"expired"} \cup Opened,
           k.pc = "mark" => k.at \in k.todo
    PROVE  CoreInv'
<1>1. UNCHANGED coreVars
  BY DEF coreVars, rowVars, chainVars, countVars
<1>2. Forward /\ \A q \in Payments : RowInv(q)'
  BY <1>1, RowFrame
<1>3. /\ \A p \in k.todo : p \notin confirmed' /\ status'[p] \in {"expired"} \cup Opened
      /\ k.pc = "mark" => k.at \in k.todo
  BY <1>1 DEF coreVars
<1>4. keeper' \in [Servers -> KeeperType] /\ \A r \in Servers : KeeperInv(r)'
  BY <1>2, <1>3, KeeperMoves
<1>5. TypeOK'
  BY <1>4 DEF CoreInv, TypeOK, KeeperType, rowVars, chainVars, countVars
<1> QED
  BY <1>2, <1>4, <1>5, ListenerFrame, WorkerFrame DEF CoreInv

(* The record a keeper goes to when it is done with p. *)
LEMMA AfterLateRecord ==
    ASSUME CoreInv, NEW s \in Servers, NEW p, AfterLate(s, p)
    PROVE  \E k \in KeeperType : /\ KeeperGoes(s, k)
                                 /\ k.todo = keeper[s].todo \ {p}
                                 /\ k.pc # "mark"
<1> DEFINE rest == keeper[s].todo \ {p}
           k == IF rest = {} THEN IdleKeeper ELSE [pc |-> "check", todo |-> rest, at |-> None]
<1>1. KeeperGoes(s, k)
  BY DEF AfterLate
<1>2. rest \subseteq Payments
  BY DEF CoreInv, TypeOK
<1>3. k \in KeeperType /\ k.todo = rest /\ k.pc # "mark"
  BY <1>2 DEF KeeperType, IdleKeeper
<1> QED
  BY <1>1, <1>3

LEMMA KeeperCore ==
    ASSUME CoreInv, NEW s \in Servers, KeeperStep(s)
    PROVE  CoreInv'
<1> USE DEF CoreInv
<1>0. KeeperInv(s) /\ keeper[s] \in KeeperType
  BY DEF TypeOK, KeeperType
<1>1. CASE ExpireTimedOutPayments(s)
  <2> DEFINE k == [keeper[s] EXCEPT !.pc = "select"]
  <2>1. /\ status' = [p \in Payments |-> IF TimedOut(p) THEN "expired" ELSE status[p]]
        /\ KeeperGoes(s, k)
        /\ UNCHANGED <<now, draft_id, created_at, confirmed, refund_initiated_at,
                       agreement_pda, chainVars, listener, worker, countVars, crashes>>
    BY <1>1 DEF ExpireTimedOutPayments
  <2>2. k \in KeeperType /\ k.todo = keeper[s].todo /\ k.pc = "select"
    BY <1>0 DEF KeeperType
  <2> HIDE DEF k
  <2>3. \A p \in Payments :
            status'[p] = status[p] \/ (status[p] = "pending" /\ status'[p] = "expired")
    BY <2>1 DEF TimedOut
  <2>4. Forward
    BY <2>1, <2>3 DEF Forward, Owed, Opened, chainVars, countVars
  <2>5. \A p \in Payments : RowInv(p)'
    BY <2>1, <2>3 DEF RowInv, Owed, Opened, chainVars, countVars
  <2>6. keeper[s].todo \subseteq Payments
    BY DEF TypeOK
  <2>7. \A p \in k.todo : p \notin confirmed' /\ status'[p] \in {"expired"} \cup Opened
    BY <1>0, <2>2, <2>4, <2>6 DEF KeeperInv, Forward
  <2>8. keeper' \in [Servers -> KeeperType] /\ \A r \in Servers : KeeperInv(r)'
    BY <2>1, <2>2, <2>4, <2>7, KeeperMoves
  <2>9. status' \in [Payments -> PaymentStatus]
    BY <2>1 DEF TypeOK, PaymentStatus
  <2>10. TypeOK'
    BY <2>1, <2>8, <2>9 DEF TypeOK, KeeperType, chainVars, countVars
  <2> QED
    BY <2>1, <2>4, <2>5, <2>8, <2>10, ListenerFrame, WorkerFrame
<1>2. CASE ExpireFails(s) \/ KeeperDisabled(s)
  <2>1. PICK c \in {"select", "disabled"} : KeeperGoes(s, [keeper[s] EXCEPT !.pc = c])
    BY <1>2 DEF ExpireFails, KeeperDisabled
  <2> DEFINE k == [keeper[s] EXCEPT !.pc = c]
  <2>2. k \in KeeperType /\ k.todo = keeper[s].todo /\ k.pc # "mark"
    BY <1>0 DEF KeeperType
  <2>3. UNCHANGED <<now, rowVars, chainVars, listener, worker, countVars, crashes>>
    BY <1>2 DEF ExpireFails, KeeperDisabled
  <2> HIDE DEF k
  <2>4. \A p \in k.todo : p \notin confirmed /\ status[p] \in {"expired"} \cup Opened
    BY <1>0, <2>2 DEF KeeperInv
  <2> QED
    BY <2>1, <2>2, <2>3, <2>4, KeeperOnly DEF k
<1>3. CASE LateSelect(s)
  <2>1. PICK found \in {{}, {p \in Payments : MayBeLate(p)}} :
            KeeperGoes(s, IF found = {} THEN IdleKeeper
                          ELSE [pc |-> "check", todo |-> found, at |-> None])
    BY <1>3 DEF LateSelect
  <2> DEFINE k == IF found = {} THEN IdleKeeper
                  ELSE [pc |-> "check", todo |-> found, at |-> None]
  <2>2. k \in KeeperType /\ k.todo = found /\ k.pc # "mark"
    BY DEF KeeperType, IdleKeeper
  <2>3. \A p \in found : p \notin confirmed /\ status[p] \in {"expired"} \cup Opened
    BY DEF MayBeLate, RowInv, Opened
  <2>4. UNCHANGED <<now, rowVars, chainVars, listener, worker, countVars, crashes>>
    BY <1>3 DEF LateSelect
  <2> HIDE DEF k
  <2> QED
    BY <2>1, <2>2, <2>3, <2>4, KeeperOnly DEF k
<1>4. ASSUME NEW p \in Payments, ReferenceExists(s, p)
      PROVE  CoreInv'
  <2> DEFINE k == [keeper[s] EXCEPT !.pc = "mark", !.at = p]
  <2>1. /\ p \in keeper[s].todo /\ KeeperGoes(s, k)
        /\ UNCHANGED <<now, rowVars, chainVars, listener, worker, countVars, crashes>>
    BY <1>4 DEF ReferenceExists
  <2>2. k \in KeeperType /\ k.todo = keeper[s].todo /\ k.at = p
    BY <1>0 DEF KeeperType
  <2> HIDE DEF k
  <2>3. \A q \in k.todo : q \notin confirmed /\ status[q] \in {"expired"} \cup Opened
    BY <1>0, <2>2 DEF KeeperInv
  <2> QED
    BY <2>1, <2>2, <2>3, KeeperOnly
<1>5. ASSUME NEW p, AfterLate(s, p),
             UNCHANGED <<now, rowVars, chainVars, listener, worker, countVars, crashes>>
      PROVE  CoreInv'
  <2>1. PICK k \in KeeperType : /\ KeeperGoes(s, k)
                                /\ k.todo = keeper[s].todo \ {p}
                                /\ k.pc # "mark"
    BY <1>5, AfterLateRecord
  <2>2. \A q \in k.todo : q \notin confirmed /\ status[q] \in {"expired"} \cup Opened
    BY <1>0, <2>1 DEF KeeperInv
  <2> QED
    BY <1>5, <2>1, <2>2, KeeperOnly
<1>6. ASSUME NEW p \in Payments, ReferenceMissing(s, p)
      PROVE  CoreInv'
  BY <1>5, <1>6 DEF ReferenceMissing
<1>7. CASE LateMarkFails(s)
  BY <1>5, <1>7 DEF LateMarkFails
<1>8. CASE LateMark(s)
  <2> DEFINE p == keeper[s].at
  <2>1. /\ MarkForRefund(p) /\ AfterLate(s, p) /\ keeper[s].pc = "mark"
        /\ UNCHANGED <<now, draft_id, created_at, confirmed, agreement_pda, chainVars, listener,
                       worker, transferred, crashes>>
    BY <1>8 DEF LateMark
  <2>2. p \in Payments /\ p \notin confirmed /\ status[p] # "absent"
    BY <1>0, <2>1 DEF KeeperInv, TypeOK, Opened
  <2> HIDE DEF p
  <2>3. /\ Forward /\ \A q \in Payments : RowInv(q)'
        /\ status' \in [Payments -> PaymentStatus]
        /\ refund_initiated_at' \in [Payments -> 0..MaxTime]
        /\ opened' \in [Payments -> Nat]
    BY <2>1, <2>2, MarkCore
  <2>4. PICK k \in KeeperType : /\ KeeperGoes(s, k)
                                /\ k.todo = keeper[s].todo \ {p}
                                /\ k.pc # "mark"
    BY <2>1, AfterLateRecord
  <2>5. keeper[s].todo \subseteq Payments
    BY DEF TypeOK
  <2>6. \A q \in k.todo : q \notin confirmed' /\ status'[q] \in {"expired"} \cup Opened
    BY <1>0, <2>3, <2>4, <2>5 DEF KeeperInv, Forward
  <2>7. keeper' \in [Servers -> KeeperType] /\ \A r \in Servers : KeeperInv(r)'
    BY <2>3, <2>4, <2>6, KeeperMoves
  <2>8. TypeOK'
    BY <2>1, <2>3, <2>7 DEF TypeOK, KeeperType, chainVars
  <2> QED
    BY <2>1, <2>3, <2>7, <2>8, ListenerFrame, WorkerFrame
<1> QED
  BY <1>1, <1>2, <1>3, <1>4, <1>6, <1>7, <1>8 DEF KeeperStep

---------------------------------------------------------------------------
(* The refund worker *)

LEMMA WorkerMoves ==
    ASSUME CoreInv, Forward, NEW s \in Servers, NEW w \in WorkerType, WorkerGoes(s, w),
           w.pc = "idle" <=> w.batch = <<>>,
           \A i \in 1..Len(w.batch) : w.batch[i][1] \in confirmed,
           w.pc = "record" => w.batch[1][1] \in transferred'
    PROVE  /\ worker' \in [Servers -> WorkerType]
           /\ \A r \in Servers : WorkerInv(r)'
<1>1. /\ worker' \in [Servers -> WorkerType] /\ worker'[s] = w
      /\ \A r \in Servers \ {s} : worker'[r] = worker[r]
  BY DEF WorkerGoes, CoreInv, TypeOK, WorkerType, Rows
<1>2. WorkerInv(s)'
  BY <1>1 DEF WorkerInv, Forward
<1> QED
  BY <1>1, <1>2, WorkerFrame

LEMMA BusyWorker ==
    ASSUME CoreInv, NEW s \in Servers, worker[s].pc # "idle"
    PROVE  LET b == worker[s].batch IN
           /\ b \in Seq(Rows) /\ b # <<>>
           /\ \A i \in 1..Len(b) : b[i][1] \in confirmed
           /\ Len(b) \in Nat \ {0}
           /\ Head(b) = b[1] /\ Head(b) \in Rows
           /\ Tail(b) \in Seq(Rows) /\ Len(Tail(b)) = Len(b) - 1
           /\ \A i \in 1..(Len(b) - 1) : i + 1 \in 1..Len(b) /\ Tail(b)[i] = b[i + 1]
           /\ Row(s) = b[1][1] /\ Row(s) \in Payments
           /\ Row(s) \in confirmed /\ Row(s) \in paid
           /\ worker[s].pc = "record" => Row(s) \in transferred
<1> DEFINE b == worker[s].batch
<1>1. /\ b \in Seq(Rows) /\ b # <<>>
      /\ \A i \in 1..Len(b) : b[i][1] \in confirmed
      /\ worker[s].pc = "record" => b[1][1] \in transferred
  BY DEF CoreInv, TypeOK, WorkerInv, Rows
<1>2. Row(s) = Head(b)[1]
  BY DEF Row
<1> HIDE DEF b
<1>3. Len(b) \in Nat \ {0} /\ 1 \in 1..Len(b)
  BY <1>1, LenProperties, EmptySeq
<1>4. Head(b) = b[1] /\ Head(b) \in Rows /\ Tail(b) \in Seq(Rows) /\ Len(Tail(b)) = Len(b) - 1
  BY <1>1, <1>3, HeadTailProperties
<1>5. \A i \in 1..(Len(b) - 1) : i + 1 \in 1..Len(b) /\ Tail(b)[i] = b[i + 1]
  BY <1>1, <1>3, <1>4, HeadTailProperties
<1>6. b[1][1] \in Payments
  BY <1>4 DEF Rows
<1>7. b[1][1] \in confirmed
  BY <1>1, <1>3
<1>8. b[1][1] \in paid
  BY <1>6, <1>7 DEF CoreInv, RowInv
<1> QED
  BY <1>1, <1>2, <1>3, <1>4, <1>5, <1>6, <1>7, <1>8 DEF b

LEMMA NextRowRecord ==
    ASSUME CoreInv, NEW s \in Servers, worker[s].pc # "idle", NextRow(s)
    PROVE  \E w \in WorkerType :
               /\ WorkerGoes(s, w) /\ w.pc # "record"
               /\ w.pc = "idle" <=> w.batch = <<>>
               /\ \A i \in 1..Len(w.batch) : w.batch[i][1] \in confirmed
<1> DEFINE b == worker[s].batch
           w == IF Len(b) = 1 THEN IdleWorker ELSE [pc |-> "transfer", batch |-> Tail(b)]
<1>1. WorkerGoes(s, w)
  BY DEF NextRow
<1>2. /\ b \in Seq(Rows) /\ Len(b) \in Nat \ {0}
      /\ \A i \in 1..Len(b) : b[i][1] \in confirmed
      /\ Tail(b) \in Seq(Rows) /\ Len(Tail(b)) = Len(b) - 1
      /\ \A i \in 1..(Len(b) - 1) : i + 1 \in 1..Len(b) /\ Tail(b)[i] = b[i + 1]
  BY BusyWorker
<1> HIDE DEF b
<1>3. \A i \in 1..Len(Tail(b)) : Tail(b)[i][1] \in confirmed
  BY <1>2
<1>4. (Tail(b) = <<>>) <=> (Len(b) = 1)
  <2>1. (Tail(b) = <<>>) <=> (Len(Tail(b)) = 0)
    BY <1>2, EmptySeq
  <2> QED
    BY <1>2, <2>1
<1>5. /\ w \in WorkerType /\ w.batch = Tail(b) /\ w.pc # "record"
      /\ w.pc = "idle" <=> w.batch = <<>>
  <2>1. CASE Len(b) = 1
    BY <1>2, <1>4, <2>1 DEF WorkerType, IdleWorker
  <2>2. CASE Len(b) # 1
    BY <1>2, <1>4, <2>2 DEF WorkerType
  <2> QED
    BY <2>1, <2>2
<1> HIDE DEF w
<1> QED
  BY <1>1, <1>3, <1>5 DEF b

(* The row of a busy worker is transferred, recorded or given up. *)
LEMMA WorkerCounts ==
    ASSUME CoreInv, NEW s \in Servers, worker[s].pc # "idle",
           UNCHANGED transferred \/ transferred' = transferred \cup {Row(s)},
           UNCHANGED status \/ (worker[s].pc = "record" /\ status' = refunded(Row(s))),
           UNCHANGED <<draft_id, confirmed, agreement_pda, paid, submitted, reported, opened>>
    PROVE  /\ Forward
           /\ \A q \in Payments : RowInv(q)'
           /\ transferred' \subseteq Payments
           /\ status' \in [Payments -> PaymentStatus]
<1> DEFINE p == Row(s)
<1>1. /\ p \in Payments /\ p \in confirmed /\ p \in paid
      /\ worker[s].pc = "record" => p \in transferred
  BY BusyWorker
<1>2. transferred \subseteq Payments /\ status \in [Payments -> PaymentStatus]
  BY DEF CoreInv, TypeOK
<1>3. transferred \subseteq transferred' /\ transferred' \subseteq transferred \cup {p}
  OBVIOUS
<1>4. /\ status' \in [Payments -> PaymentStatus]
      /\ \A q \in Payments :
             \/ status'[q] = status[q]
             \/ status[q] = "refund_pending" /\ status'[q] = "refunded" /\ q \in transferred
  BY <1>1, <1>2 DEF refunded, PaymentStatus
<1> HIDE DEF p
<1>5. Forward
  BY <1>3, <1>4 DEF Forward, Owed, Opened
<1>6. \A q \in Payments : RowInv(q)'
  BY <1>1, <1>3, <1>4 DEF CoreInv, RowInv, Owed, Opened
<1> QED
  BY <1>1, <1>2, <1>3, <1>4, <1>5, <1>6

LEMMA WorkerCore ==
    ASSUME CoreInv, NEW s \in Servers, WorkerStep(s)
    PROVE  CoreInv'
<1> USE DEF CoreInv
<1>1. CASE FetchRefunds(s)
  <2>1. PICK b \in RefundBatches : WorkerGoes(s, [pc |-> "transfer", batch |-> b])
    BY <1>1 DEF FetchRefunds
  <2>2. /\ RefundRows # {}
        /\ UNCHANGED <<now, rowVars, chainVars, keeper, listener, countVars, crashes>>
    BY <1>1 DEF FetchRefunds
  <2>3. /\ b \in Seq(Rows) /\ b # <<>>
        /\ \A i \in 1..Len(b) : b[i][1] \in Payments /\ agreement_pda[b[i][1]] # None
    BY <2>2, BatchProperties
  <2>4. \A i \in 1..Len(b) : b[i][1] \in confirmed
    BY <2>3 DEF RowInv
  <2> DEFINE w == [pc |-> "transfer", batch |-> b]
  <2>5. w \in WorkerType /\ w.batch = b /\ w.pc = "transfer"
    BY <2>3 DEF WorkerType
  <2> HIDE DEF w
  <2>6. WorkerGoes(s, w)
    BY <2>1 DEF w
  <2>7. Forward /\ \A p \in Payments : RowInv(p)'
    BY <2>2, RowFrame DEF coreVars, rowVars, chainVars, countVars
  <2>8. worker' \in [Servers -> WorkerType] /\ \A r \in Servers : WorkerInv(r)'
    BY <2>3, <2>4, <2>5, <2>6, <2>7, WorkerMoves
  <2>9. TypeOK'
    BY <2>2, <2>8 DEF TypeOK, WorkerType, Rows, rowVars, chainVars, countVars
  <2> QED
    BY <2>2, <2>7, <2>8, <2>9, KeeperFrame, ListenerFrame
<1>2. CASE TransferSent(s)
  <2> DEFINE w == [worker[s] EXCEPT !.pc = "record"]
             b == worker[s].batch
  <2>1. /\ worker[s].pc = "transfer" /\ WorkerGoes(s, w)
        /\ transferred' = transferred \cup {Row(s)}
        /\ UNCHANGED <<now, rowVars, chainVars, keeper, listener, opened, crashes>>
    BY <1>2 DEF TransferSent
  <2>2. b # <<>> /\ (\A i \in 1..Len(b) : b[i][1] \in confirmed) /\ Row(s) = b[1][1]
    BY <2>1, BusyWorker
  <2>3. w \in WorkerType /\ w.batch = b /\ w.pc = "record"
    BY DEF WorkerType, Rows, TypeOK
  <2> HIDE DEF w, b
  <2>4. /\ Forward /\ \A q \in Payments : RowInv(q)'
        /\ transferred' \subseteq Payments
    BY <2>1, WorkerCounts DEF rowVars, chainVars
  <2>5. worker' \in [Servers -> WorkerType] /\ \A r \in Servers : WorkerInv(r)'
    BY <2>1, <2>2, <2>3, <2>4, WorkerMoves
  <2>6. TypeOK'
    BY <2>1, <2>4, <2>5 DEF TypeOK, WorkerType, Rows, rowVars, chainVars
  <2> QED
    BY <2>1, <2>4, <2>5, <2>6, KeeperFrame, ListenerFrame
<1>3. CASE TransferFails(s) \/ TransferAnswerLost(s) \/ RecordRefund(s) \/ RecordFails(s)
  <2>1. /\ worker[s].pc # "idle" /\ NextRow(s)
        /\ transferred' = transferred \cup {Row(s)} \/ UNCHANGED transferred
        /\ (worker[s].pc = "record" /\ status' = refunded(Row(s))) \/ UNCHANGED status
        /\ UNCHANGED <<now, draft_id, created_at, confirmed, refund_initiated_at, agreement_pda,
                       chainVars, keeper, listener, opened, crashes>>
    BY <1>3 DEF TransferFails, TransferAnswerLost, RecordRefund, RecordFails, rowVars, countVars
  <2>2. /\ Forward /\ \A q \in Payments : RowInv(q)'
        /\ transferred' \subseteq Payments /\ status' \in [Payments -> PaymentStatus]
    BY <2>1, WorkerCounts DEF chainVars
  <2>3. PICK w \in WorkerType : /\ WorkerGoes(s, w) /\ w.pc # "record"
                                /\ w.pc = "idle" <=> w.batch = <<>>
                                /\ \A i \in 1..Len(w.batch) : w.batch[i][1] \in confirmed
    BY <2>1, NextRowRecord
  <2>4. worker' \in [Servers -> WorkerType] /\ \A r \in Servers : WorkerInv(r)'
    BY <2>2, <2>3, WorkerMoves
  <2>5. TypeOK'
    BY <2>1, <2>2, <2>4 DEF TypeOK, WorkerType, Rows, chainVars
  <2> QED
    BY <2>1, <2>2, <2>4, <2>5, KeeperFrame, ListenerFrame
<1> QED
  BY <1>1, <1>2, <1>3 DEF WorkerStep

LEMMA CrashCore ==
    ASSUME CoreInv, NEW s \in Servers, Crash(s)
    PROVE  CoreInv'
<1>1. /\ KeeperGoes(s, IdleKeeper) /\ ListenerGoes(s, None) /\ WorkerGoes(s, IdleWorker)
      /\ UNCHANGED <<now, rowVars, chainVars, countVars>>
      /\ crashes < MaxCrashes /\ crashes' = crashes + 1
  BY DEF Crash
<1>2. Forward /\ \A q \in Payments : RowInv(q)'
  BY <1>1, RowFrame DEF coreVars, rowVars, chainVars, countVars
<1>3. IdleKeeper \in KeeperType /\ IdleKeeper.todo = {} /\ IdleKeeper.pc # "mark"
  BY DEF IdleKeeper, KeeperType
<1>4. /\ IdleWorker \in WorkerType /\ IdleWorker.pc = "idle" /\ IdleWorker.batch = <<>>
      /\ \A i \in 1..Len(IdleWorker.batch) : IdleWorker.batch[i][1] \in confirmed
  BY DEF IdleWorker, WorkerType
<1>5. keeper' \in [Servers -> KeeperType] /\ \A r \in Servers : KeeperInv(r)'
  BY <1>1, <1>2, <1>3, KeeperMoves
<1>6. listener' \in [Servers -> Payments \cup {None}] /\ \A r \in Servers : ListenerInv(r)'
  BY <1>1, <1>2, ListenerMoves
<1>7. worker' \in [Servers -> WorkerType] /\ \A r \in Servers : WorkerInv(r)'
  BY <1>1, <1>2, <1>4, WorkerMoves
<1>8. crashes' \in 0..MaxCrashes
  BY <1>1, PaymentAssumption DEF CoreInv, TypeOK
<1>9. TypeOK'
  BY <1>1, <1>5, <1>6, <1>7, <1>8
     DEF CoreInv, TypeOK, KeeperType, WorkerType, Rows, rowVars, chainVars, countVars
<1> QED
  BY <1>2, <1>5, <1>6, <1>7, <1>9 DEF CoreInv

---------------------------------------------------------------------------
(* How often a refund is opened *)

LEMMA HoldersAreFinite ==
    ASSUME NEW S \in SUBSET Servers
    PROVE  IsFiniteSet(S) /\ Cardinality(S) \in Nat /\ Cardinality(S) <= Cardinality(Servers)
  BY PaymentAssumption, FS_Subset, FS_CardinalityType

(* Nobody starts to hold p, *)
LEMMA NoNewHolder ==
    ASSUME CoreInv, NEW p \in Payments, HolderInv(p),
           opened'[p] = opened[p], Holders(p)' \subseteq Holders(p)
    PROVE  HolderInv(p)'
<1>1. Holders(p) \in SUBSET Servers /\ opened[p] \in Nat
  BY DEF Holders, CoreInv, TypeOK
<1>2. IsFiniteSet(Holders(p)) /\ Cardinality(Holders(p)) \in Nat /\ Cardinality(Servers) \in Nat
  BY <1>1, HoldersAreFinite
<1>3. Cardinality(Holders(p)') <= Cardinality(Holders(p)) /\ Cardinality(Holders(p)') \in Nat
  BY <1>2, FS_Subset, FS_CardinalityType
<1>4. Cardinality(Servers)' = Cardinality(Servers)
  OBVIOUS
<1> QED
  BY <1>1, <1>2, <1>3 DEF HolderInv

(* or somebody does while no refund of p was ever opened, *)
LEMMA FirstHolder ==
    ASSUME CoreInv, NEW p \in Payments, opened'[p] = 0
    PROVE  HolderInv(p)'
<1>1. Holders(p)' \in SUBSET Servers
  BY DEF Holders
<1>2. Cardinality(Holders(p)') \in Nat /\ Cardinality(Holders(p)') <= Cardinality(Servers)
  BY <1>1, HoldersAreFinite
<1> QED
  BY <1>2 DEF HolderInv

(* or a holder opens one and lets go. *)
LEMMA HolderOpens ==
    ASSUME CoreInv, NEW p \in Payments, HolderInv(p), NEW s \in Holders(p),
           opened'[p] = opened[p] + 1, Holders(p)' \subseteq Holders(p) \ {s}
    PROVE  HolderInv(p)'
<1>1. Holders(p) \in SUBSET Servers /\ opened[p] \in Nat
  BY DEF Holders, CoreInv, TypeOK
<1>2. IsFiniteSet(Holders(p)) /\ Cardinality(Holders(p)) \in Nat /\ Cardinality(Servers) \in Nat
  BY <1>1, HoldersAreFinite
<1>3. /\ IsFiniteSet(Holders(p) \ {s})
      /\ Cardinality(Holders(p) \ {s}) = Cardinality(Holders(p)) - 1
  BY <1>2, FS_RemoveElement
<1>4. /\ Cardinality(Holders(p)') <= Cardinality(Holders(p) \ {s})
      /\ Cardinality(Holders(p)') \in Nat
  BY <1>3, FS_Subset, FS_CardinalityType
<1> QED
  BY <1>1, <1>2, <1>3, <1>4 DEF HolderInv

LEMMA HolderStep ==
    ASSUME IInv, [Next]_vars, NEW p \in Payments
    PROVE  HolderInv(p)'
<1> USE DEF IInv
<1>0. CoreInv /\ HolderInv(p) /\ RowInv(p) /\ opened[p] \in Nat
  BY DEF CoreInv, TypeOK
<1>1. ASSUME UNCHANGED opened, Holders(p)' \subseteq Holders(p)
      PROVE  HolderInv(p)'
  BY <1>0, <1>1, NoNewHolder
<1>2. ASSUME UNCHANGED <<keeper, opened>>,
             \A s \in Servers : listener'[s] = listener[s] \/ listener'[s] = None
      PROVE  HolderInv(p)'
  BY <1>1, <1>2, PaymentAssumption DEF Holders
<1>3. ASSUME UNCHANGED <<listener, opened>>, NEW s \in Servers, NEW k, KeeperGoes(s, k),
             k.todo \subseteq keeper[s].todo
      PROVE  HolderInv(p)'
  <2>1. keeper'[s] = k /\ \A r \in Servers \ {s} : keeper'[r] = keeper[r]
    BY <1>3 DEF KeeperGoes, CoreInv, TypeOK
  <2> QED
    BY <1>1, <1>3, <2>1 DEF Holders
<1>4. ASSUME \/ \E q \in Payments : PaymentStep(q)
             \/ \E a \in Agreements : AgreementStep(a)
      PROVE  HolderInv(p)'
  BY <1>2, <1>4 DEF PaymentStep, InsertPayment, Pay, ConfirmPayment, AgreementStep, SubmitDraft,
                    IndexParty, EndIsReported, countVars
<1>5. ASSUME NEW s \in Servers, ListenerStep(s)
      PROVE  HolderInv(p)'
  <2>0. \A l : ListenerGoes(s, l) =>
            listener'[s] = l /\ \A r \in Servers \ {s} : listener'[r] = listener[r]
    BY DEF ListenerGoes, CoreInv, TypeOK
  <2>1. ASSUME NEW a \in Agreements, NEW q \in Payments, RefundSelect(s, a, q)
        PROVE  HolderInv(p)'
    <3>1. /\ UNCHANGED <<keeper, opened>> /\ status[q] = "confirmed"
          /\ listener'[s] = q /\ \A r \in Servers \ {s} : listener'[r] = listener[r]
      BY <2>0, <2>1 DEF RefundSelect, Refundable, countVars
    <3>2. CASE q = p
      <4>1. opened[p] = 0
        BY <1>0, <3>1, <3>2 DEF RowInv, Opened
      <4> QED
        BY <1>0, <3>1, <4>1, FirstHolder
    <3>3. CASE q # p
      <4>1. Holders(p)' \subseteq Holders(p)
        BY <3>1, <3>3 DEF Holders
      <4> QED
        BY <1>1, <3>1, <4>1
    <3> QED
      BY <3>2, <3>3
  <2>2. CASE RefundMarkFails(s)
    BY <1>2, <2>0, <2>2 DEF RefundMarkFails, countVars
  <2>3. CASE RefundMark(s)
    <3>1. /\ UNCHANGED keeper /\ listener'[s] = None
          /\ \A r \in Servers \ {s} : listener'[r] = listener[r]
          /\ opened' = [opened EXCEPT ![listener[s]] = @ + 1]
          /\ listener[s] # None
      BY <2>0, <2>3 DEF RefundMark, MarkForRefund
    <3>2. listener[s] \in Payments /\ listener[s] \in confirmed
      BY <3>1 DEF CoreInv, TypeOK, ListenerInv
    <3>3. CASE listener[s] = p
      <4>1. p \notin keeper[s].todo
        BY <3>2, <3>3 DEF CoreInv, KeeperInv
      <4>2. s \in Holders(p) /\ Holders(p)' \subseteq Holders(p) \ {s}
        BY <3>1, <3>3, <4>1, PaymentAssumption DEF Holders
      <4>3. opened'[p] = opened[p] + 1
        BY <3>1, <3>3 DEF CoreInv, TypeOK
      <4> QED
        BY <1>0, <4>2, <4>3, HolderOpens
    <3>4. CASE listener[s] # p
      <4>1. opened'[p] = opened[p]
        BY <3>1, <3>4 DEF CoreInv, TypeOK
      <4>2. Holders(p)' \subseteq Holders(p)
        BY <3>1, PaymentAssumption DEF Holders
      <4> QED
        BY <1>0, <4>1, <4>2, NoNewHolder
    <3> QED
      BY <3>3, <3>4
  <2> QED
    BY <1>5, <2>1, <2>2, <2>3 DEF ListenerStep
<1>6. ASSUME NEW s \in Servers, KeeperStep(s)
      PROVE  HolderInv(p)'
  <2>0. /\ keeper[s] \in KeeperType /\ KeeperInv(s)
        /\ \A k : KeeperGoes(s, k) =>
               keeper'[s] = k /\ \A r \in Servers \ {s} : keeper'[r] = keeper[r]
    BY DEF KeeperGoes, CoreInv, TypeOK, KeeperType
  <2>1. CASE ExpireTimedOutPayments(s) \/ ExpireFails(s) \/ KeeperDisabled(s)
    <3>1. PICK c \in {"select", "disabled"} : KeeperGoes(s, [keeper[s] EXCEPT !.pc = c])
      BY <2>1 DEF ExpireTimedOutPayments, ExpireFails, KeeperDisabled
    <3>2. [keeper[s] EXCEPT !.pc = c].todo = keeper[s].todo
      BY <2>0 DEF KeeperType
    <3>3. UNCHANGED <<listener, opened>>
      BY <2>1 DEF ExpireTimedOutPayments, ExpireFails, KeeperDisabled, countVars
    <3> QED
      BY <1>3, <3>1, <3>2, <3>3
  <2>2. CASE LateSelect(s)
    <3>1. PICK found \in {{}, {q \in Payments : MayBeLate(q)}} :
              KeeperGoes(s, IF found = {} THEN IdleKeeper
                            ELSE [pc |-> "check", todo |-> found, at |-> None])
      BY <2>2 DEF LateSelect
    <3>2. UNCHANGED <<listener, opened>>
      BY <2>2 DEF LateSelect, countVars
    <3>3. keeper'[s].todo = found /\ \A r \in Servers \ {s} : keeper'[r] = keeper[r]
      BY <2>0, <3>1 DEF IdleKeeper
    <3>4. CASE p \in found
      <4>1. opened[p] = 0
        BY <1>0, <3>4 DEF MayBeLate, RowInv, Opened
      <4> QED
        BY <1>0, <3>2, <4>1, FirstHolder
    <3>5. CASE p \notin found
      <4>1. Holders(p)' \subseteq Holders(p)
        BY <3>2, <3>3, <3>5 DEF Holders
      <4> QED
        BY <1>1, <3>2, <4>1
    <3> QED
      BY <3>4, <3>5
  <2>3. ASSUME NEW q \in Payments, ReferenceExists(s, q)
        PROVE  HolderInv(p)'
    <3>1. [keeper[s] EXCEPT !.pc = "mark", !.at = q].todo = keeper[s].todo
      BY <2>0 DEF KeeperType
    <3> QED
      BY <1>3, <2>3, <3>1 DEF ReferenceExists, countVars
  <2>4. ASSUME NEW q, AfterLate(s, q), UNCHANGED <<listener, opened>>
        PROVE  HolderInv(p)'
    <3>1. PICK k \in KeeperType : KeeperGoes(s, k) /\ k.todo = keeper[s].todo \ {q}
      BY <1>0, <2>4, AfterLateRecord
    <3> QED
      BY <1>3, <2>4, <3>1
  <2>5. ASSUME NEW q \in Payments, ReferenceMissing(s, q)
        PROVE  HolderInv(p)'
    BY <2>4, <2>5 DEF ReferenceMissing, countVars
  <2>6. CASE LateMarkFails(s)
    BY <2>4, <2>6 DEF LateMarkFails, countVars
  <2>7. CASE LateMark(s)
    <3>1. /\ UNCHANGED listener /\ AfterLate(s, keeper[s].at) /\ keeper[s].pc = "mark"
          /\ opened' = [opened EXCEPT ![keeper[s].at] = @ + 1]
      BY <2>7 DEF LateMark, MarkForRefund
    <3>2. PICK k \in KeeperType : KeeperGoes(s, k) /\ k.todo = keeper[s].todo \ {keeper[s].at}
      BY <1>0, <3>1, AfterLateRecord
    <3>3. /\ keeper'[s].todo = keeper[s].todo \ {keeper[s].at}
          /\ \A r \in Servers \ {s} : keeper'[r] = keeper[r]
      BY <2>0, <3>2
    <3>4. keeper[s].at \in keeper[s].todo /\ keeper[s].at \notin confirmed
      BY <2>0, <3>1 DEF KeeperInv
    <3>5. CASE keeper[s].at = p
      <4>1. listener[s] # p
        BY <3>4, <3>5 DEF CoreInv, ListenerInv
      <4>2. s \in Holders(p) /\ Holders(p)' \subseteq Holders(p) \ {s}
        BY <3>1, <3>3, <3>4, <3>5, <4>1 DEF Holders
      <4>3. opened'[p] = opened[p] + 1
        BY <3>1, <3>5 DEF CoreInv, TypeOK
      <4> QED
        BY <1>0, <4>2, <4>3, HolderOpens
    <3>6. CASE keeper[s].at # p
      <4>1. opened'[p] = opened[p]
        BY <3>1, <3>6 DEF CoreInv, TypeOK
      <4>2. Holders(p)' \subseteq Holders(p)
        BY <3>1, <3>3 DEF Holders
      <4> QED
        BY <1>0, <4>1, <4>2, NoNewHolder
    <3> QED
      BY <3>5, <3>6
  <2> QED
    BY <1>6, <2>1, <2>2, <2>3, <2>5, <2>6, <2>7 DEF KeeperStep
<1>7. ASSUME NEW s \in Servers, WorkerStep(s)
      PROVE  HolderInv(p)'
  BY <1>2, <1>7 DEF WorkerStep, FetchRefunds, TransferSent, TransferFails, TransferAnswerLost,
                    RecordRefund, RecordFails, countVars
<1>8. ASSUME NEW s \in Servers, Crash(s)
      PROVE  HolderInv(p)'
  <2>1. /\ UNCHANGED opened
        /\ keeper'[s] = IdleKeeper /\ \A r \in Servers \ {s} : keeper'[r] = keeper[r]
        /\ listener'[s] = None /\ \A r \in Servers \ {s} : listener'[r] = listener[r]
    BY <1>8 DEF Crash, KeeperGoes, ListenerGoes, countVars, CoreInv, TypeOK
  <2>2. Holders(p)' \subseteq Holders(p)
    BY <2>1, PaymentAssumption DEF Holders, IdleKeeper
  <2> QED
    BY <1>1, <2>1, <2>2
<1>9. CASE Tick \/ UNCHANGED vars
  BY <1>2, <1>9 DEF Tick, vars, countVars
<1> QED
  BY <1>4, <1>5, <1>6, <1>7, <1>8, <1>9 DEF Next

---------------------------------------------------------------------------
(* Main results *)

LEMMA InitEstablishes == Init => IInv
<1> SUFFICES ASSUME Init PROVE IInv
  OBVIOUS
<1> USE DEF Init
<1>1. TypeOK
  BY PaymentAssumption DEF TypeOK, PaymentStatus, IdleKeeper, IdleWorker
<1>2. \A p \in Payments : RowInv(p)
  BY DEF RowInv, Opened
<1>3. \A s \in Servers : KeeperInv(s) /\ ListenerInv(s) /\ WorkerInv(s)
  BY PaymentAssumption DEF KeeperInv, ListenerInv, WorkerInv, IdleKeeper, IdleWorker
<1>4. ASSUME NEW p \in Payments
      PROVE  HolderInv(p)
  <2>1. Holders(p) = {}
    BY PaymentAssumption DEF Holders, IdleKeeper
  <2>2. Cardinality(Holders(p)) = 0 /\ Cardinality(Servers) \in Nat
    BY <2>1, PaymentAssumption, FS_EmptySet, FS_CardinalityType
  <2> QED
    BY <2>2 DEF HolderInv
<1> QED
  BY <1>1, <1>2, <1>3, <1>4 DEF IInv, CoreInv

LEMMA StepKeeps == IInv /\ [Next]_vars => IInv'
<1> SUFFICES ASSUME IInv, [Next]_vars PROVE IInv'
  OBVIOUS
<1>1. CoreInv'
  BY PaymentCore, AgreementCore, ListenerCore, KeeperCore, WorkerCore, CrashCore, TickCore
     DEF IInv, Next
<1>2. \A p \in Payments : HolderInv(p)'
  BY HolderStep
<1> QED
  BY <1>1, <1>2 DEF IInv

(* The inductive invariant holds in every reachable state. *)
THEOREM Invariance == Spec => []IInv
  BY InitEstablishes, StepKeeps, PTL DEF Spec

(* Every variable of the payments and of their writers keeps its type.      *)
THEOREM TypeCorrect == Spec => []TypeOK
<1>1. IInv => TypeOK
  BY DEF IInv, CoreInv
<1> QED
  BY <1>1, Invariance, PTL

(* However scans, listener, worker, repeated submissions and reports,       *)
(* crashes and lost answers interleave, nothing is transferred for a        *)
(* payment that did not arrive, a confirmed one is up for refund only after *)
(* the end of an agreement of its draft was reported, and a refund is       *)
(* recorded only after a transfer.                                          *)
THEOREM RefundsAreOwed == Spec => []OnlyOwedRefunds
<1>1. IInv => OnlyOwedRefunds
  BY DEF IInv, CoreInv, RowInv, Owed, Opened, OnlyOwedRefunds
<1> QED
  BY <1>1, Invariance, PTL

(* A server that holds a payment may still open its refund. *)
LEMMA HolderLeavesRoom ==
    ASSUME IInv, NEW p \in Payments
    PROVE  /\ opened[p] <= Cardinality(Servers)
           /\ Holders(p) # {} => opened[p] < Cardinality(Servers)
<1>1. Holders(p) \in SUBSET Servers /\ opened[p] \in Nat
  BY DEF Holders, IInv, CoreInv, TypeOK
<1>2. /\ IsFiniteSet(Holders(p)) /\ Cardinality(Holders(p)) \in Nat
      /\ Cardinality(Servers) \in Nat
  BY <1>1, HoldersAreFinite, PaymentAssumption, FS_CardinalityType
<1>3. Holders(p) # {} => Cardinality(Holders(p)) # 0
  BY <1>2, FS_EmptySet
<1>4. opened[p] + Cardinality(Holders(p)) <= Cardinality(Servers)
  BY DEF IInv, HolderInv
<1> QED
  BY <1>1, <1>2, <1>3, <1>4

(* With any number of servers, crashes and repeated logs a refund is opened *)
(* at most as often as there are servers.                                   *)
THEOREM OpenedOncePerServer == Spec => []RefundsAreOpenedOncePerServer
<1>1. IInv => RefundsAreOpenedOncePerServer
  BY HolderLeavesRoom DEF RefundsAreOpenedOncePerServer
<1> QED
  BY <1>1, Invariance, PTL

(* Every step of every writer takes a payment along its status machine, or  *)
(* reopens a refund opened less often than there are servers.               *)
THEOREM FollowsMachine == Spec => StatusFollowsMachine
<1> DEFINE Moved(p) ==
        status'[p] # status[p] =>
            \/ <<status[p], status'[p]>> \in StatusMachine
            \/ /\ <<status[p], status'[p]>> = <<"refunded", "refund_pending">>
               /\ opened[p] < Cardinality(Servers)
<1>1. IInv /\ [Next]_vars => [\A p \in Payments : Moved(p)]_vars
  <2> SUFFICES ASSUME IInv, [Next]_vars, NEW p \in Payments, status'[p] # status[p]
               PROVE  Moved(p)
    OBVIOUS
  <2> USE DEF StatusMachine
  <2>0. CoreInv /\ status \in [Payments -> PaymentStatus]
    BY DEF IInv, CoreInv, TypeOK
  <2>1. ASSUME NEW q \in Payments, MarkForRefund(q), Holders(q) # {},
               status[q] \in {"expired", "confirmed"} \cup Opened
        PROVE  Moved(p)
    <3>1. p = q /\ status'[p] = "refund_pending"
      BY <2>0, <2>1 DEF MarkForRefund, refund_pending
    <3>2. opened[p] < Cardinality(Servers)
      BY <2>1, <3>1, HolderLeavesRoom
    <3> QED
      BY <2>1, <3>1, <3>2 DEF Opened
  <2>2. ASSUME NEW q \in Payments, PaymentStep(q) PROVE Moved(p)
    BY <2>0, <2>2 DEF PaymentStep, InsertPayment, Pay, ConfirmPayment, rowVars
  <2>3. ASSUME NEW a \in Agreements, AgreementStep(a) PROVE Moved(p)
    BY <2>3 DEF AgreementStep, SubmitDraft, IndexParty, EndIsReported, rowVars
  <2>4. ASSUME NEW s \in Servers, ListenerStep(s) PROVE Moved(p)
    <3>1. RefundMark(s)
      BY <2>4 DEF ListenerStep, RefundSelect, RefundMarkFails, rowVars
    <3>2. listener[s] \in Payments /\ listener[s] \in confirmed
      BY <2>0, <3>1 DEF RefundMark, CoreInv, TypeOK, ListenerInv
    <3>3. s \in Holders(listener[s]) /\ status[listener[s]] \in {"confirmed"} \cup Opened
      BY <2>0, <3>2 DEF Holders, CoreInv, RowInv
    <3> QED
      BY <2>1, <3>1, <3>2, <3>3 DEF RefundMark
  <2>5. ASSUME NEW s \in Servers, KeeperStep(s) PROVE Moved(p)
    <3>1. LateMark(s) \/ ExpireTimedOutPayments(s)
      BY <2>5 DEF KeeperStep, ExpireFails, KeeperDisabled, LateSelect, ReferenceExists,
                  ReferenceMissing, LateMarkFails, rowVars
    <3>2. CASE ExpireTimedOutPayments(s)
      BY <3>2 DEF ExpireTimedOutPayments, TimedOut
    <3>3. CASE LateMark(s)
      <4>1. /\ keeper[s].at \in keeper[s].todo /\ keeper[s].at \in Payments
            /\ status[keeper[s].at] \in {"expired"} \cup Opened
        BY <2>0, <3>3 DEF LateMark, CoreInv, TypeOK, KeeperInv
      <4>2. s \in Holders(keeper[s].at)
        BY <4>1 DEF Holders
      <4> QED
        BY <2>1, <3>3, <4>1, <4>2 DEF LateMark
    <3> QED
      BY <3>1, <3>2, <3>3
  <2>6. ASSUME NEW s \in Servers, WorkerStep(s) PROVE Moved(p)
    <3>1. RecordRefund(s)
      BY <2>6 DEF WorkerStep, FetchRefunds, TransferSent, TransferFails, TransferAnswerLost,
                  RecordFails, rowVars
    <3> QED
      BY <2>0, <3>1 DEF RecordRefund, refunded
  <2>7. ASSUME NEW s \in Servers, Crash(s) PROVE Moved(p)
    BY <2>7 DEF Crash, rowVars
  <2>8. CASE Tick \/ UNCHANGED vars
    BY <2>8 DEF Tick, vars, rowVars
  <2> QED
    BY <2>2, <2>3, <2>4, <2>5, <2>6, <2>7, <2>8 DEF Next
<1> QED
  BY <1>1, Invariance, PTL DEF Spec, StatusFollowsMachine
=============================================================================
