--------------------------- MODULE FreeTierProofs ---------------------------
(***************************************************************************)
(* TLAPS proofs about FreeTier, for any allowance, any number of users and  *)
(* drafts, and any (finite) number of requests in flight together.          *)
(***************************************************************************)
EXTENDS FreeTier, FiniteSetTheorems, TLAPS

(* A request at work has a user, and one past the check has a draft of that *)
(* user; only a draft that exists is paid.                                  *)
RequestsInv ==
    /\ \A h \in Handlers : pc[h] # "idle" => who[h] \in Users
    /\ \A h \in Handlers : pc[h] \in {"mark", "count"} =>
           draft[h] \in DraftIds /\ creator[draft[h]] = who[h]
    /\ \A d \in DraftIds : paid[d] => creator[d] # None

IInv ==
    /\ TypeOK
    /\ RequestsInv
    /\ OverdrawBoundedByConcurrency
    /\ PaidDraftsAreCounted

(* One more, one less, or the same: what a step of one handler does to a    *)
(* set of handlers.                                                         *)
LEMMA CardAdd ==
    ASSUME NEW S, IsFiniteSet(S), NEW T, NEW x, T \subseteq S \cup {x}
    PROVE  /\ IsFiniteSet(T) /\ Cardinality(T) \in Nat /\ Cardinality(S) \in Nat
           /\ Cardinality(T) <= Cardinality(S) + 1
<1>1. /\ IsFiniteSet(S \cup {x})
      /\ Cardinality(S \cup {x}) = Cardinality(S) \/
         Cardinality(S \cup {x}) = Cardinality(S) + 1
  BY FS_AddElement
<1>2. IsFiniteSet(T) /\ Cardinality(T) <= Cardinality(S \cup {x})
  BY <1>1, FS_Subset
<1> QED
  BY <1>1, <1>2, FS_CardinalityType

(* Dropping a member makes a finite set smaller by one. *)
LEMMA CardRemove ==
    ASSUME NEW S, IsFiniteSet(S), NEW x \in S, NEW T, T \subseteq S \ {x}
    PROVE  /\ Cardinality(T) \in Nat /\ Cardinality(S) \in Nat
           /\ Cardinality(T) + 1 <= Cardinality(S)
<1>1. IsFiniteSet(S \ {x}) /\ Cardinality(S \ {x}) = Cardinality(S) - 1
  BY FS_RemoveElement
<1>2. IsFiniteSet(T) /\ Cardinality(T) <= Cardinality(S \ {x})
  BY <1>1, FS_Subset
<1> QED
  BY <1>1, <1>2, FS_CardinalityType

(* The sets the properties count are finite. *)
LEMMA CountedSetsFinite ==
    ASSUME NEW u
    PROVE  /\ IsFiniteSet(Admitted(u)) /\ Cardinality(Admitted(u)) \in Nat
           /\ IsFiniteSet(Uncounted(u)) /\ Cardinality(Uncounted(u)) \in Nat
           /\ IsFiniteSet(PaidDrafts(u)) /\ Cardinality(PaidDrafts(u)) \in Nat
           /\ Cardinality(Admitted(u)) <= Cardinality(Handlers)
           /\ Cardinality(Handlers) \in Nat \ {0}
<1>1. /\ Admitted(u) \subseteq Handlers /\ Uncounted(u) \subseteq Handlers
      /\ PaidDrafts(u) \subseteq DraftIds
  BY DEF Admitted, Uncounted, PaidDrafts
<1>2. Cardinality(Handlers) \in Nat \ {0}
  BY HandlersAssumption, FS_CardinalityType, FS_EmptySet
<1> QED
  BY <1>1, <1>2, HandlersAssumption, FS_Subset, FS_CardinalityType

(* The same in the next state. *)
LEMMA CountedSetsFiniteNext ==
    ASSUME NEW u
    PROVE  /\ IsFiniteSet(Admitted(u)') /\ Cardinality(Admitted(u)') \in Nat
           /\ IsFiniteSet(Uncounted(u)') /\ Cardinality(Uncounted(u)') \in Nat
           /\ IsFiniteSet(PaidDrafts(u)') /\ Cardinality(PaidDrafts(u)') \in Nat
           /\ Cardinality(Admitted(u)') <= Cardinality(Handlers)
<1>1. /\ Admitted(u)' \subseteq Handlers /\ Uncounted(u)' \subseteq Handlers
      /\ PaidDrafts(u)' \subseteq DraftIds
  BY DEF Admitted, Uncounted, PaidDrafts
<1> QED
  BY <1>1, HandlersAssumption, FS_Subset, FS_CardinalityType

(* Requests that neither pass nor leave the check keep both counts. *)
LEMMA CountsFrame ==
    ASSUME IInv, free_used' = free_used, lost \subseteq lost',
           \A u \in Users : /\ Admitted(u)' \subseteq Admitted(u)
                            /\ Uncounted(u)' = Uncounted(u) \/ u \in lost'
                            /\ PaidDrafts(u)' = PaidDrafts(u)
    PROVE  OverdrawBoundedByConcurrency' /\ PaidDraftsAreCounted'
<1>1. ASSUME NEW u \in Users
      PROVE  free_used'[u] + Cardinality(Admitted(u)')
                 <= FreeTier + Cardinality(Handlers) - 1
  <2>1. Cardinality(Admitted(u)') <= Cardinality(Admitted(u))
    BY CountedSetsFinite, FS_Subset
  <2>2. free_used[u] + Cardinality(Admitted(u))
            <= FreeTier + Cardinality(Handlers) - 1
    BY DEF IInv, OverdrawBoundedByConcurrency
  <2> QED
    BY <2>1, <2>2, CountedSetsFinite, CountedSetsFiniteNext, FreeTierAssumption
       DEF IInv, TypeOK
<1>2. PaidDraftsAreCounted'
  BY DEF IInv, PaidDraftsAreCounted
<1> QED
  BY <1>1, <1>2 DEF OverdrawBoundedByConcurrency

(* A step of create_agreement preserves IInv: it admits nobody and pays for *)
(* nothing.                                                                 *)
LEMMA CreateSteps ==
    ASSUME IInv, NEW h \in Handlers,
           \/ \E u \in Users : CreateBegin(h, u)
           \/ CreateAnswersDirectly(h)
           \/ \E d \in DraftIds : CreateInsertsDraft(h, d)
    PROVE  IInv'
<1> USE DEF CreateBegin, CreateAnswersDirectly, CreateInsertsDraft, Goto, Return
<1>1. TypeOK'
  <2>1. CASE \E u \in Users : CreateBegin(h, u)
    BY <2>1 DEF IInv, TypeOK, PC
  <2>2. CASE CreateAnswersDirectly(h)
    BY <2>2, FreeTierAssumption DEF IInv, TypeOK, RequestsInv, PC
  <2>3. CASE \E d \in DraftIds : CreateInsertsDraft(h, d)
    BY <2>3 DEF IInv, TypeOK, RequestsInv, PC
  <2> QED
    BY <2>1, <2>2, <2>3
<1>2. /\ \A g \in Handlers : g # h => /\ pc'[g] = pc[g] /\ who'[g] = who[g]
                                      /\ draft'[g] = draft[g]
      /\ pc[h] \notin {"mark", "count"} /\ pc'[h] \notin {"mark", "count"}
      /\ pc'[h] # "idle" => who'[h] \in Users
      /\ UNCHANGED <<paid, free_used, lost>>
  BY DEF IInv, TypeOK
<1>3. \A d \in DraftIds : creator'[d] = creator[d] \/ ~paid[d]
  BY DEF IInv, TypeOK, RequestsInv
<1>4. \A d \in DraftIds : creator[d] # None => creator'[d] = creator[d]
  BY DEF IInv, TypeOK
<1> HIDE DEF CreateBegin, CreateAnswersDirectly, CreateInsertsDraft, Goto, Return
<1>5. RequestsInv'
  BY <1>2, <1>3, <1>4, NoneAssumption DEF IInv, RequestsInv
<1>6. \A u \in Users : /\ Admitted(u)' \subseteq Admitted(u)
                       /\ Uncounted(u)' = Uncounted(u)
                       /\ PaidDrafts(u)' = PaidDrafts(u)
  BY <1>2, <1>3 DEF Admitted, Uncounted, PaidDrafts
<1> QED
  BY <1>1, <1>2, <1>5, <1>6, CountsFrame DEF IInv

(* Passing the free-tier check preserves IInv: the counter was still below  *)
(* the limit, so even with every handler admitted the bound holds.          *)
LEMMA InitiateOnFreeTierStep ==
    ASSUME IInv, NEW h \in Handlers, NEW u \in Users, NEW d \in DraftIds,
           InitiateOnFreeTier(h, u, d)
    PROVE  IInv'
<1> USE DEF InitiateOnFreeTier, Goto
<1>1. TypeOK'
  BY DEF IInv, TypeOK, PC
<1>2. /\ \A g \in Handlers : g # h => /\ pc'[g] = pc[g] /\ who'[g] = who[g]
                                      /\ draft'[g] = draft[g]
      /\ pc[h] = "idle" /\ pc'[h] = "mark" /\ who'[h] = u /\ draft'[h] = d
      /\ UNCHANGED <<creator, paid, free_used, lost>>
      /\ creator[d] = u /\ free_used[u] < FreeTier
  BY DEF IInv, TypeOK, OnFreeTier
<1> HIDE DEF InitiateOnFreeTier, Goto
<1>3. RequestsInv'
  BY <1>2 DEF IInv, RequestsInv
<1>4. ASSUME NEW v \in Users
      PROVE  free_used'[v] + Cardinality(Admitted(v)')
                 <= FreeTier + Cardinality(Handlers) - 1
  <2>1. CASE v = u
    <3>1. free_used'[v] \in Nat /\ free_used'[v] < FreeTier
      BY <1>2, <2>1 DEF IInv, TypeOK
    <3>2. /\ Cardinality(Admitted(v)') \in Nat /\ Cardinality(Handlers) \in Nat
          /\ Cardinality(Admitted(v)') <= Cardinality(Handlers)
      BY CountedSetsFinite, CountedSetsFiniteNext
    <3> QED
      BY <3>1, <3>2, FreeTierAssumption
  <2>2. CASE v # u
    <3>1. Admitted(v)' = Admitted(v)
      BY <1>2, <2>2 DEF Admitted
    <3> QED
      BY <1>2, <3>1 DEF IInv, OverdrawBoundedByConcurrency
  <2> QED
    BY <2>1, <2>2
<1>5. PaidDraftsAreCounted'
  <2>1. \A v \in Users : Uncounted(v)' = Uncounted(v) /\ PaidDrafts(v)' = PaidDrafts(v)
    BY <1>2 DEF Uncounted, PaidDrafts
  <2> QED
    BY <1>2, <2>1 DEF IInv, PaidDraftsAreCounted
<1> QED
  BY <1>1, <1>3, <1>4, <1>5 DEF IInv, OverdrawBoundedByConcurrency

(* The paid path of initiate_payment writes nothing that IInv mentions. *)
LEMMA InitiatePaidStep ==
    ASSUME IInv, NEW u \in Users, NEW d \in DraftIds, InitiatePaid(u, d)
    PROVE  IInv'
<1> USE DEF InitiatePaid
<1>1. TypeOK'
  <2>1. PICK a \in {"unsupported",
                    IF InsertPaymentSucceeds THEN "pending" ELSE "error"} :
            answer' = [answer EXCEPT ![d] = a]
    OBVIOUS
  <2>2. a \in Answers
    BY DEF Answers
  <2> QED
    BY <2>1, <2>2 DEF IInv, TypeOK
<1>2. RequestsInv'
  BY DEF IInv, RequestsInv
<1>3. \A v \in Users : /\ Admitted(v)' = Admitted(v)
                       /\ Uncounted(v)' = Uncounted(v)
                       /\ PaidDrafts(v)' = PaidDrafts(v)
  BY DEF Admitted, Uncounted, PaidDrafts
<1> QED
  BY <1>1, <1>2, <1>3, CountsFrame DEF IInv

(* Marking a draft paid preserves IInv: the request that does so is the one *)
(* that will count it.                                                      *)
LEMMA InitiateMarksPaidStep ==
    ASSUME IInv, NEW h \in Handlers, InitiateMarksPaid(h) PROVE IInv'
<1> USE DEF InitiateMarksPaid, Goto
<1> DEFINE u == who[h]
           d == draft[h]
<1>0. u \in Users /\ d \in DraftIds /\ creator[d] = u
  BY DEF IInv, RequestsInv
<1>1. TypeOK'
  BY <1>0 DEF IInv, TypeOK, PC
<1>2. /\ \A g \in Handlers : g # h => pc'[g] = pc[g]
      /\ \A g \in Handlers : who'[g] = who[g] /\ draft'[g] = draft[g]
      /\ pc[h] = "mark" /\ pc'[h] = "count"
      /\ UNCHANGED <<creator, free_used, lost>>
      /\ \A e \in DraftIds : e # d => paid'[e] = paid[e]
  BY <1>0 DEF IInv, TypeOK
<1> HIDE DEF InitiateMarksPaid, Goto
<1>3. RequestsInv'
  BY <1>0, <1>2, NoneAssumption DEF IInv, RequestsInv
<1>4. OverdrawBoundedByConcurrency'
  <2>1. \A v \in Users : Admitted(v)' = Admitted(v)
    BY <1>2 DEF Admitted
  <2> QED
    BY <1>2, <2>1 DEF IInv, OverdrawBoundedByConcurrency
<1>5. ASSUME NEW v \in Users, v \notin lost
      PROVE  Cardinality(PaidDrafts(v)')
                 <= free_used[v] + Cardinality(Uncounted(v)')
  <2>0. Cardinality(PaidDrafts(v)) <= free_used[v] + Cardinality(Uncounted(v))
    BY <1>5 DEF IInv, PaidDraftsAreCounted
  <2>1. CASE v = u
    <3>1. PaidDrafts(v)' \subseteq PaidDrafts(v) \cup {d}
      BY <1>2 DEF PaidDrafts
    <3>2. h \in Uncounted(v)' /\ Uncounted(v) \subseteq Uncounted(v)' \ {h}
      BY <1>2, <2>1 DEF Uncounted
    <3>3. Cardinality(PaidDrafts(v)') <= Cardinality(PaidDrafts(v)) + 1
      BY <3>1, CardAdd, CountedSetsFinite
    <3>4. Cardinality(Uncounted(v)) + 1 <= Cardinality(Uncounted(v)')
      BY <3>2, CardRemove, CountedSetsFiniteNext
    <3> QED
      BY <2>0, <3>3, <3>4, CountedSetsFinite, CountedSetsFiniteNext
         DEF IInv, TypeOK
  <2>2. CASE v # u
    <3>1. PaidDrafts(v)' = PaidDrafts(v)
      BY <1>0, <1>2, <2>2 DEF PaidDrafts
    <3>2. Uncounted(v)' = Uncounted(v)
      BY <1>2, <2>2 DEF Uncounted
    <3> QED
      BY <2>0, <3>1, <3>2
  <2> QED
    BY <2>1, <2>2
<1> QED
  BY <1>1, <1>2, <1>3, <1>4, <1>5 DEF IInv, PaidDraftsAreCounted

(* The increment preserves IInv: what the counter gains, the requests in    *)
(* flight lose.                                                             *)
LEMMA InitiateCountsStep ==
    ASSUME IInv, NEW h \in Handlers, InitiateCounts(h) PROVE IInv'
<1> USE DEF InitiateCounts, Goto, Return
<1> DEFINE u == who[h]
<1>0. u \in Users /\ draft[h] \in DraftIds
  BY DEF IInv, RequestsInv
<1>1. TypeOK'
  BY <1>0 DEF IInv, TypeOK, PC, Answers, CountFreeUse
<1>2. /\ \A g \in Handlers : g # h => /\ pc'[g] = pc[g] /\ who'[g] = who[g]
                                      /\ draft'[g] = draft[g]
      /\ pc[h] = "count" /\ pc'[h] = "idle"
      /\ UNCHANGED <<creator, paid, lost>>
      /\ free_used'[u] = free_used[u] + 1
      /\ \A v \in Users : v # u => free_used'[v] = free_used[v]
  BY <1>0 DEF IInv, TypeOK, CountFreeUse
<1> HIDE DEF InitiateCounts, Goto, Return
<1>3. RequestsInv'
  BY <1>2 DEF IInv, RequestsInv
<1>4. \A v \in Users : PaidDrafts(v)' = PaidDrafts(v)
  BY <1>2 DEF PaidDrafts
<1>5. ASSUME NEW v \in Users
      PROVE  /\ free_used'[v] + Cardinality(Admitted(v)')
                    <= FreeTier + Cardinality(Handlers) - 1
             /\ v \notin lost => Cardinality(PaidDrafts(v)')
                    <= free_used'[v] + Cardinality(Uncounted(v)')
  <2>0. /\ free_used[v] + Cardinality(Admitted(v))
               <= FreeTier + Cardinality(Handlers) - 1
        /\ v \notin lost =>
               Cardinality(PaidDrafts(v)) <= free_used[v] + Cardinality(Uncounted(v))
    BY DEF IInv, OverdrawBoundedByConcurrency, PaidDraftsAreCounted
  <2>1. CASE v = u
    <3>1. h \in Admitted(v) /\ Admitted(v)' \subseteq Admitted(v) \ {h}
      BY <1>2, <2>1 DEF Admitted
    <3>2. Uncounted(v) \subseteq Uncounted(v)' \cup {h}
      BY <1>2, <2>1 DEF Uncounted
    <3>3. Cardinality(Admitted(v)') + 1 <= Cardinality(Admitted(v))
      BY <3>1, CardRemove, CountedSetsFinite
    <3>4. Cardinality(Uncounted(v)) <= Cardinality(Uncounted(v)') + 1
      BY <3>2, CardAdd, CountedSetsFiniteNext
    <3> QED
      BY <1>2, <1>4, <2>0, <2>1, <3>3, <3>4, CountedSetsFinite,
         CountedSetsFiniteNext, FreeTierAssumption
         DEF IInv, TypeOK
  <2>2. CASE v # u
    <3>1. Admitted(v)' = Admitted(v) /\ Uncounted(v)' = Uncounted(v)
      BY <1>2, <2>2 DEF Admitted, Uncounted
    <3> QED
      BY <1>2, <1>4, <2>0, <2>2, <3>1
  <2> QED
    BY <2>1, <2>2
<1> QED
  BY <1>1, <1>2, <1>3, <1>5
     DEF IInv, OverdrawBoundedByConcurrency, PaidDraftsAreCounted

(* A failing request preserves IInv; when it dies between the two UPDATEs   *)
(* its user is excused.                                                     *)
LEMMA RequestFailsStep ==
    ASSUME IInv, NEW h \in Handlers, RequestFails(h) PROVE IInv'
<1> USE DEF RequestFails, Goto, Return
<1>1. TypeOK'
  BY DEF IInv, TypeOK, PC, RequestsInv
<1>2. /\ \A g \in Handlers : g # h => /\ pc'[g] = pc[g] /\ who'[g] = who[g]
                                      /\ draft'[g] = draft[g]
      /\ pc'[h] = "idle"
      /\ UNCHANGED <<creator, paid, free_used>>
      /\ lost \subseteq lost' /\ (pc[h] = "count" => who[h] \in lost')
  BY DEF IInv, TypeOK
<1> HIDE DEF RequestFails, Goto, Return
<1>3. RequestsInv'
  BY <1>2 DEF IInv, RequestsInv
<1>4. \A u \in Users : /\ Admitted(u)' \subseteq Admitted(u)
                       /\ Uncounted(u)' = Uncounted(u) \/ u \in lost'
                       /\ PaidDrafts(u)' = PaidDrafts(u)
  BY <1>2 DEF Admitted, Uncounted, PaidDrafts
<1> QED
  BY <1>1, <1>2, <1>3, <1>4, CountsFrame DEF IInv

(* IInv holds in every reachable state. *)
THEOREM Invariance == Spec => []IInv
<1>1. Init => IInv
  <2> SUFFICES ASSUME Init PROVE IInv
    OBVIOUS
  <2>1. TypeOK
    BY FreeTierAssumption DEF Init, TypeOK, PC, Answers
  <2>2. RequestsInv
    BY DEF Init, RequestsInv
  <2>3. \A u \in Users : /\ Admitted(u) = {} /\ Uncounted(u) = {}
                         /\ PaidDrafts(u) = {} /\ free_used[u] = 0
    BY DEF Init, Admitted, Uncounted, PaidDrafts
  <2>4. Cardinality({}) = 0 /\ Cardinality(Handlers) \in Nat \ {0}
    BY FS_EmptySet, CountedSetsFinite
  <2> QED
    <3>1. 0 + 0 <= FreeTier + Cardinality(Handlers) - 1 /\ 0 <= 0 + 0
      BY <2>4, FreeTierAssumption
    <3>2. OverdrawBoundedByConcurrency /\ PaidDraftsAreCounted
      BY <2>3, <2>4, <3>1 DEF OverdrawBoundedByConcurrency, PaidDraftsAreCounted
    <3> QED
      BY <2>1, <2>2, <3>2 DEF IInv
<1>2. IInv /\ [Next]_vars => IInv'
  <2> SUFFICES ASSUME IInv, [Next]_vars PROVE IInv'
    OBVIOUS
  <2>1. CASE \E h \in Handlers : HandlerStep(h)
    BY <2>1, CreateSteps, InitiateOnFreeTierStep, InitiateMarksPaidStep,
       InitiateCountsStep DEF HandlerStep
  <2>2. CASE \E u \in Users, d \in DraftIds : InitiatePaid(u, d)
    BY <2>2, InitiatePaidStep
  <2>3. CASE \E h \in Handlers : RequestFails(h)
    BY <2>3, RequestFailsStep
  <2>4. CASE UNCHANGED vars
    <3>1. TypeOK' /\ RequestsInv'
      BY <2>4 DEF vars, IInv, TypeOK, RequestsInv
    <3>2. \A u \in Users : /\ Admitted(u)' = Admitted(u)
                           /\ Uncounted(u)' = Uncounted(u)
                           /\ PaidDrafts(u)' = PaidDrafts(u)
      BY <2>4 DEF vars, Admitted, Uncounted, PaidDrafts
    <3> QED
      BY <2>4, <3>1, <3>2, CountsFrame DEF vars, IInv
  <2> QED
    BY <2>1, <2>2, <2>3, <2>4 DEF Next, ReliableNext
<1> QED
  BY <1>1, <1>2, PTL DEF Spec

(* Every reachable state is well typed: a request in flight never leaves a  *)
(* counter, a draft or its own place in the handler out of range.           *)
THEOREM TypeCorrect == Spec => []TypeOK
<1>1. IInv => TypeOK
  BY DEF IInv
<1> QED
  BY <1>1, Invariance, PTL

(* initiate_payment's check-then-increment overdraws the allowance by at    *)
(* most the other requests in flight, whatever the number of users, drafts  *)
(* and requests.                                                            *)
THEOREM OverdrawBounded == Spec => []OverdrawBoundedByConcurrency
<1>1. IInv => OverdrawBoundedByConcurrency
  BY DEF IInv
<1> QED
  BY <1>1, Invariance, PTL

(* Unless a request dies between its two UPDATEs, a draft marked paid has   *)
(* used up an allowance of its creator.                                     *)
THEOREM PaidIsCounted == Spec => []PaidDraftsAreCounted
<1>1. IInv => PaidDraftsAreCounted
  BY DEF IInv
<1> QED
  BY <1>1, Invariance, PTL
=============================================================================
