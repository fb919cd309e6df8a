-------------------------- MODULE WsChannelsProofs --------------------------
(***************************************************************************)
(* Proofs about WsChannels, for any sets of users and connections, any      *)
(* channel capacity and any number of events.                               *)
(***************************************************************************)
EXTENDS WsChannels, SequenceTheorems, TLAPS

---------------------------------------------------------------------------
(* The inductive invariant. *)

Seen(c, e) ==
    \/ \E i \in 1..Len(received[c]) : received[c][i] = e
    \/ \E i \in 1..Len(buffer[c]) : buffer[c][i] = e

(* What a connection has forwarded comes before what it will forward. *)
OrderInv(c) ==
    /\ Increasing(received[c])
    /\ Increasing(buffer[c])
    /\ \A i \in 1..Len(received[c]), j \in 1..Len(buffer[c]) : received[c][i] < buffer[c][j]

RouteInv(c) ==
    /\ task[c] = "new" => received[c] = <<>> /\ buffer[c] = <<>>
    /\ \A e \in Nat : Seen(c, e) => e \in 1..Len(to) /\ to[e] = owner[c] /\ e \notin queued

OneSocketInv == \A c, d \in Conns, e \in Nat : Seen(c, e) /\ Seen(d, e) => c = d

(* TypeOK, with the domains of the two functions it only applies. *)
TypeInv ==
    /\ TypeOK
    /\ buffer \in [Conns -> Seq(Events)]
    /\ received \in [Conns -> Seq(Events)]

IInv ==
    /\ TypeInv
    /\ RegisteredTaskIsAlive
    /\ \A c \in Conns : OrderInv(c) /\ RouteInv(c)
    /\ OneSocketInv

---------------------------------------------------------------------------
(* Sequences of events *)

LEMMA IncreasingAppend ==
    ASSUME NEW q \in Seq(Nat), NEW e \in Nat, Increasing(q),
           \A i \in 1..Len(q) : q[i] < e
    PROVE  /\ Append(q, e) \in Seq(Nat)
           /\ Increasing(Append(q, e))
<1>1. /\ Append(q, e) \in Seq(Nat) /\ Len(Append(q, e)) = Len(q) + 1
      /\ \A i \in 1..Len(q) : Append(q, e)[i] = q[i]
      /\ Append(q, e)[Len(q) + 1] = e
  BY AppendProperties
<1>2. /\ DOMAIN q = 1..Len(q) /\ Len(q) \in Nat
      /\ DOMAIN Append(q, e) = 1..(Len(q) + 1)
      /\ \A i \in 1..Len(q) : q[i] \in Nat
  BY <1>1, LenProperties, ElementOfSeq
<1> QED
  BY <1>1, <1>2 DEF Increasing

LEMMA IncreasingTail ==
    ASSUME NEW q \in Seq(Nat), q # <<>>, Increasing(q)
    PROVE  /\ Tail(q) \in Seq(Nat)
           /\ Len(Tail(q)) = Len(q) - 1
           /\ Increasing(Tail(q))
           /\ 1 \in 1..Len(q) /\ Head(q) = q[1]
           /\ \A i \in 1..Len(Tail(q)) : i + 1 \in 1..Len(q) /\ Tail(q)[i] = q[i + 1]
           /\ \A i \in 1..Len(Tail(q)) : Head(q) < Tail(q)[i]
<1>1. /\ Tail(q) \in Seq(Nat) /\ Len(Tail(q)) = Len(q) - 1
      /\ \A i \in 1..Len(Tail(q)) : Tail(q)[i] = q[i + 1]
      /\ Len(q) \in Nat \ {0} /\ Head(q) = q[1]
  BY HeadTailProperties, EmptySeq, LenProperties
<1>2. /\ DOMAIN q = 1..Len(q) /\ DOMAIN Tail(q) = 1..(Len(q) - 1)
      /\ \A i \in 1..Len(q) : q[i] \in Nat
  BY <1>1, LenProperties, ElementOfSeq
<1>3. \A i \in 1..(Len(q) - 1) : i + 1 \in 1..Len(q) /\ Tail(q)[i] = q[i + 1]
  BY <1>1
<1>4. Increasing(Tail(q))
  <2> SUFFICES ASSUME NEW i \in 1..(Len(q) - 1), NEW j \in 1..(Len(q) - 1), i < j
               PROVE  Tail(q)[i] < Tail(q)[j]
    BY <1>2 DEF Increasing
  <2>1. i + 1 \in 1..Len(q) /\ j + 1 \in 1..Len(q) /\ i + 1 < j + 1
    BY <1>1
  <2>2. q[i + 1] < q[j + 1]
    BY <1>2, <2>1 DEF Increasing
  <2> QED
    BY <1>3, <2>2
<1>5. \A i \in 1..(Len(q) - 1) : Head(q) < Tail(q)[i]
  BY <1>1, <1>2, <1>3 DEF Increasing
<1> QED
  BY <1>1, <1>2, <1>3, <1>4, <1>5

(* The parts of the invariant say of the two sequences together what the    *)
(* property says.                                                           *)
LEMMA InvariantImpliesRouting == IInv => EventsAreRoutedOnceInOrder
<1> SUFFICES ASSUME IInv PROVE EventsAreRoutedOnceInOrder
  OBVIOUS
<1> USE DEF IInv
<1>1. ASSUME NEW c \in Conns
      PROVE  /\ received[c] \in Seq(Nat) /\ buffer[c] \in Seq(Nat)
             /\ Increasing(received[c] \o buffer[c])
             /\ \A e \in ToSet(received[c] \o buffer[c]) : e \in Nat /\ Seen(c, e)
  <2> DEFINE r == received[c]
             b == buffer[c]
  <2>1. r \in Seq(Nat) /\ b \in Seq(Nat)
    <3>1. r \in Seq(Events) /\ b \in Seq(Events) /\ Events \subseteq Nat
      BY DEF TypeInv, Events
    <3> QED
      BY <3>1, SeqMonotonic
  <2>2. OrderInv(c)
    OBVIOUS
  <2>3. /\ Increasing(r) /\ Increasing(b)
        /\ \A i \in 1..Len(r), j \in 1..Len(b) : r[i] < b[j]
    BY <2>2 DEF OrderInv
  <2>4. \A e : Seen(c, e) <=> (\E i \in 1..Len(r) : r[i] = e) \/ \E i \in 1..Len(b) : b[i] = e
    BY DEF Seen
  <2> HIDE DEF r, b
  <2>5. /\ r \o b \in Seq(Nat) /\ Len(r \o b) = Len(r) + Len(b)
        /\ \A i \in 1..(Len(r) + Len(b)) :
               (r \o b)[i] = IF i <= Len(r) THEN r[i] ELSE b[i - Len(r)]
    BY <2>1, ConcatProperties
  <2>6. /\ Len(r) \in Nat /\ Len(b) \in Nat
        /\ DOMAIN r = 1..Len(r) /\ DOMAIN b = 1..Len(b)
        /\ DOMAIN (r \o b) = 1..(Len(r) + Len(b))
    BY <2>1, <2>5, LenProperties
  <2>7. ASSUME NEW i \in 1..(Len(r) + Len(b))
        PROVE  \/ i \in 1..Len(r) /\ (r \o b)[i] = r[i]
               \/ i > Len(r) /\ i - Len(r) \in 1..Len(b) /\ (r \o b)[i] = b[i - Len(r)]
    BY <2>5, <2>6
  <2>8. Increasing(r \o b)
    <3> SUFFICES ASSUME NEW i \in 1..(Len(r) + Len(b)), NEW j \in 1..(Len(r) + Len(b)), i < j
                 PROVE  (r \o b)[i] < (r \o b)[j]
      BY <2>6 DEF Increasing
    <3>1. CASE j \in 1..Len(r)
      BY <2>3, <2>6, <2>7, <3>1 DEF Increasing
    <3>2. CASE i > Len(r)
      BY <2>3, <2>6, <2>7, <3>2 DEF Increasing
    <3>3. CASE i \in 1..Len(r) /\ j > Len(r)
      BY <2>3, <2>6, <2>7, <3>3
    <3> QED
      BY <2>6, <3>1, <3>2, <3>3
  <2>9. \A e \in ToSet(r \o b) : e \in Nat /\ Seen(c, e)
    <3> SUFFICES ASSUME NEW i \in 1..(Len(r) + Len(b))
                 PROVE  (r \o b)[i] \in Nat /\ Seen(c, (r \o b)[i])
      BY <2>6 DEF ToSet
    <3>1. (r \o b)[i] \in Nat
      BY <2>5, <2>6, ElementOfSeq
    <3> QED
      BY <2>4, <2>7, <3>1
  <2> QED
    BY <2>1, <2>8, <2>9 DEF r, b
<1>2. ASSUME NEW c \in Conns
      PROVE  \A e \in ToSet(received[c] \o buffer[c]) : to[e] = owner[c] /\ e \notin queued
  BY <1>1 DEF RouteInv
<1>3. ASSUME NEW c \in Conns, NEW d \in Conns, c # d
      PROVE  ToSet(received[c] \o buffer[c]) \cap ToSet(received[d] \o buffer[d]) = {}
  BY <1>1, <1>3 DEF OneSocketInv
<1> QED
  BY <1>1, <1>2, <1>3 DEF EventsAreRoutedOnceInOrder

---------------------------------------------------------------------------
(* The steps of one connection *)

LEMMA EventsAreNat ==
    ASSUME TypeInv, NEW c \in Conns
    PROVE  received[c] \in Seq(Nat) /\ buffer[c] \in Seq(Nat)
<1>1. received[c] \in Seq(Events) /\ buffer[c] \in Seq(Events) /\ Events \subseteq Nat
  BY DEF TypeInv, Events
<1> QED
  BY <1>1, SeqMonotonic

(* When connection c moves, it sees nothing new and the others see what     *)
(* they saw.                                                                *)
LEMMA ConnFrame ==
    ASSUME IInv, TypeInv', RegisteredTaskIsAlive', NEW c \in Conns,
           UNCHANGED <<to, queued>>,
           \A d \in Conns \ {c} : /\ received'[d] = received[d] /\ buffer'[d] = buffer[d]
                                 /\ owner'[d] = owner[d] /\ task'[d] = task[d],
           OrderInv(c)', task'[c] # "new",
           \A e \in Nat : Seen(c, e)' => Seen(c, e) /\ owner'[c] = owner[c]
    PROVE  IInv'
<1> USE DEF IInv
<1>1. \A d \in Conns \ {c}, e \in Nat : Seen(d, e)' <=> Seen(d, e)
  BY DEF Seen
<1>2. \A d \in Conns : OrderInv(d)'
  BY DEF OrderInv
<1>3. RouteInv(c)'
  BY DEF RouteInv
<1>4. \A d \in Conns \ {c} : RouteInv(d)'
  BY <1>1 DEF RouteInv
<1>5. OneSocketInv'
  BY <1>1 DEF OneSocketInv
<1> QED
  BY <1>2, <1>3, <1>4, <1>5

LEMMA UpgradeKeeps ==
    ASSUME IInv, NEW c \in Conns, NEW u \in Users, Upgrade(c, u)
    PROVE  IInv'
<1> USE DEF IInv
<1>1. /\ task[c] = "new"
      /\ task' = [task EXCEPT ![c] = "serving"]
      /\ owner' = [owner EXCEPT ![c] = u]
      /\ ws_channels' = [ws_channels EXCEPT ![u] = c]
      /\ up' = up \cup {c}
      /\ UNCHANGED <<buffer, received, to, queued>>
  BY DEF Upgrade, insert_channel
<1>2. TypeInv'
  BY <1>1 DEF TypeInv, TypeOK
<1>3. RegisteredTaskIsAlive'
  BY <1>1, NoneAssumption DEF RegisteredTaskIsAlive, TypeInv, TypeOK
<1>4. received[c] = <<>> /\ buffer[c] = <<>>
  BY <1>1 DEF RouteInv
<1>5. \A e \in Nat : ~Seen(c, e)'
  BY <1>1, <1>4 DEF Seen
<1>6. OrderInv(c)'
  BY <1>1 DEF OrderInv
<1>7. /\ task'[c] # "new"
      /\ \A d \in Conns \ {c} : /\ received'[d] = received[d] /\ buffer'[d] = buffer[d]
                                /\ owner'[d] = owner[d] /\ task'[d] = task[d]
  BY <1>1 DEF TypeInv, TypeOK
<1> QED
  BY <1>1, <1>2, <1>3, <1>5, <1>6, <1>7, ConnFrame

(* The map keeps its entries while the tasks they belong to only go from    *)
(* "serving" to "leaving".                                                  *)
LEMMA AliveFrame ==
    ASSUME IInv, UNCHANGED <<ws_channels, owner>>,
           \A d \in Conns : task[d] \in {"serving", "leaving"} =>
                                task'[d] \in {"serving", "leaving"}
    PROVE  RegisteredTaskIsAlive'
  BY NoneAssumption DEF IInv, TypeInv, TypeOK, RegisteredTaskIsAlive

LEMMA BreakKeeps ==
    ASSUME IInv, NEW c \in Conns, task[c] = "serving", Break(c),
           UNCHANGED <<ws_channels, owner, up, received, to, queued>>
    PROVE  IInv'
<1> USE DEF IInv
<1>1. task' = [task EXCEPT ![c] = "leaving"] /\ buffer' = [buffer EXCEPT ![c] = <<>>]
  BY DEF Break
<1>2. task'[c] = "leaving" /\ buffer'[c] = <<>> /\ received'[c] = received[c]
  BY <1>1 DEF TypeInv, TypeOK
<1>3. TypeInv'
  <2>1. <<>> \in Seq(Events) /\ Len(<<>>) = 0 /\ 0 <= Capacity
    BY BoundsAssumption
  <2>2. task' \in [Conns -> {"new", "serving", "leaving", "gone"}]
    BY <1>1 DEF TypeInv, TypeOK
  <2>3. buffer' \in [Conns -> Seq(Events)] /\ \A d \in Conns : Len(buffer'[d]) <= Capacity
    BY <1>1, <2>1 DEF TypeInv, TypeOK
  <2> QED
    BY <2>2, <2>3 DEF TypeInv, TypeOK
<1>4. RegisteredTaskIsAlive'
  BY <1>1, AliveFrame DEF TypeInv, TypeOK
<1>5. OrderInv(c)'
  BY <1>2 DEF OrderInv, Increasing
<1>6. \A e \in Nat : Seen(c, e)' => Seen(c, e)
  BY <1>2 DEF Seen
<1>7. \A d \in Conns \ {c} : /\ received'[d] = received[d] /\ buffer'[d] = buffer[d]
                            /\ owner'[d] = owner[d] /\ task'[d] = task[d]
  BY <1>1 DEF TypeInv, TypeOK
<1> QED
  BY <1>2, <1>3, <1>4, <1>5, <1>6, <1>7, ConnFrame

(* The head of the buffer is forwarded, or lost with the client. *)
LEMMA TakeKeeps ==
    ASSUME IInv, NEW c \in Conns, task[c] = "serving", buffer[c] # <<>>,
           buffer' = [buffer EXCEPT ![c] = Tail(buffer[c])],
           \/ UNCHANGED received
           \/ received' = [received EXCEPT ![c] = Append(received[c], Head(buffer[c]))],
           UNCHANGED <<ws_channels, task, owner, up, to, queued>>
    PROVE  IInv'
<1> USE DEF IInv
<1> DEFINE r == received[c]
           b == buffer[c]
<1>0. r \in Seq(Nat) /\ b \in Seq(Nat) /\ OrderInv(c)
  BY EventsAreNat
<1>1. /\ r \in Seq(Events) /\ b \in Seq(Events) /\ Len(b) <= Capacity
      /\ buffer \in [Conns -> Seq(Events)] /\ received \in [Conns -> Seq(Events)]
  BY DEF TypeInv, TypeOK
<1>2. /\ buffer'[c] = Tail(b)
      /\ received'[c] = r \/ received'[c] = Append(r, Head(b))
      /\ \A d \in Conns \ {c} : received'[d] = received[d] /\ buffer'[d] = buffer[d]
  BY <1>1
<1>3. /\ Increasing(r) /\ Increasing(b)
      /\ \A i \in 1..Len(r), j \in 1..Len(b) : r[i] < b[j]
  BY <1>0 DEF OrderInv
<1>4. \A e : Seen(c, e) <=> (\E i \in 1..Len(r) : r[i] = e) \/ \E i \in 1..Len(b) : b[i] = e
  BY DEF Seen
<1>5. \A e : Seen(c, e)' <=> \/ \E i \in 1..Len(received'[c]) : received'[c][i] = e
                             \/ \E i \in 1..Len(buffer'[c]) : buffer'[c][i] = e
  BY DEF Seen
<1>6. b # <<>>
  OBVIOUS
<1>7. task'[c] = "serving"
  OBVIOUS
<1> HIDE DEF r, b
<1>8. /\ Tail(b) \in Seq(Nat) /\ Len(Tail(b)) = Len(b) - 1 /\ Increasing(Tail(b))
      /\ 1 \in 1..Len(b) /\ Head(b) = b[1]
      /\ \A i \in 1..Len(Tail(b)) : i + 1 \in 1..Len(b) /\ Tail(b)[i] = b[i + 1]
      /\ \A i \in 1..Len(Tail(b)) : Head(b) < Tail(b)[i]
  BY <1>0, <1>3, <1>6, IncreasingTail
<1>9. Head(b) \in Nat /\ Head(b) \in Events /\ Tail(b) \in Seq(Events)
  BY <1>0, <1>1, <1>6, HeadTailProperties
<1>10. /\ Append(r, Head(b)) \in Seq(Nat) /\ Append(r, Head(b)) \in Seq(Events)
       /\ Increasing(Append(r, Head(b)))
       /\ Len(Append(r, Head(b))) = Len(r) + 1
       /\ \A i \in 1..Len(r) : Append(r, Head(b))[i] = r[i]
       /\ Append(r, Head(b))[Len(r) + 1] = Head(b)
       /\ Len(r) \in Nat
  <2>1. \A i \in 1..Len(r) : r[i] < Head(b)
    BY <1>3, <1>8
  <2>2. Append(r, Head(b)) \in Seq(Nat) /\ Increasing(Append(r, Head(b)))
    BY <1>0, <1>3, <1>9, <2>1, IncreasingAppend
  <2> QED
    BY <1>0, <1>1, <1>9, <2>2, AppendProperties, LenProperties
<1>11. \A i \in 1..Len(received'[c]) :
           \/ i \in 1..Len(r) /\ received'[c][i] = r[i]
           \/ received'[c][i] = b[1]
  <2>1. CASE received'[c] = r
    BY <2>1
  <2>2. CASE received'[c] = Append(r, Head(b))
    <3> SUFFICES ASSUME NEW i \in 1..(Len(r) + 1)
                 PROVE  \/ i \in 1..Len(r) /\ Append(r, Head(b))[i] = r[i]
                        \/ Append(r, Head(b))[i] = b[1]
      BY <1>10, <2>2
    <3>1. i \in 1..Len(r) \/ i = Len(r) + 1
      BY <1>10
    <3> QED
      BY <1>8, <1>10, <3>1
  <2> QED
    BY <1>2, <2>1, <2>2
<1>12. \A e \in Nat : Seen(c, e)' => Seen(c, e)
  <2> SUFFICES ASSUME NEW e \in Nat, Seen(c, e)'
               PROVE  Seen(c, e)
    OBVIOUS
  <2>1. CASE \E i \in 1..Len(received'[c]) : received'[c][i] = e
    BY <1>4, <1>8, <1>11, <2>1
  <2>2. CASE \E i \in 1..Len(buffer'[c]) : buffer'[c][i] = e
    <3>1. PICK i \in 1..Len(Tail(b)) : Tail(b)[i] = e
      BY <1>2, <2>2
    <3>2. i + 1 \in 1..Len(b) /\ b[i + 1] = e
      BY <1>8, <3>1
    <3> QED
      BY <1>4, <3>2
  <2> QED
    BY <1>5, <2>1, <2>2
<1>13. OrderInv(c)'
  <2>1. Increasing(received'[c]) /\ Increasing(buffer'[c])
    BY <1>2, <1>3, <1>8, <1>10
  <2>2. ASSUME NEW i \in 1..Len(received'[c]), NEW j \in 1..Len(Tail(b))
        PROVE  received'[c][i] < Tail(b)[j]
    <3>1. CASE i \in 1..Len(r) /\ received'[c][i] = r[i]
      <4>1. j + 1 \in 1..Len(b) /\ Tail(b)[j] = b[j + 1]
        BY <1>8
      <4> QED
        BY <1>3, <3>1, <4>1
    <3>2. CASE received'[c][i] = b[1]
      BY <1>8, <3>2
    <3> QED
      BY <1>11, <3>1, <3>2
  <2> QED
    BY <1>2, <2>1, <2>2 DEF OrderInv
<1>14. TypeInv'
  <2>1. /\ buffer' \in [Conns -> Seq(Events)] /\ received' \in [Conns -> Seq(Events)]
    BY <1>1, <1>9, <1>10 DEF r, b
  <2>2. Len(b) \in Nat
    BY <1>0, LenProperties
  <2>3. \A d \in Conns : Len(buffer'[d]) <= Capacity
    BY <1>1, <1>2, <1>8, <2>2, BoundsAssumption DEF TypeInv, TypeOK
  <2> QED
    BY <2>1, <2>3 DEF TypeInv, TypeOK
<1>15. RegisteredTaskIsAlive'
  BY AliveFrame DEF TypeInv, TypeOK
<1> QED
  BY <1>2, <1>7, <1>12, <1>13, <1>14, <1>15, ConnFrame

LEMMA DeregisterKeeps ==
    ASSUME IInv, NEW c \in Conns, Deregister(c)
    PROVE  IInv'
<1> USE DEF IInv
<1>1. /\ task' = [task EXCEPT ![c] = "gone"]
      /\ ws_channels' = [ws_channels EXCEPT ![owner[c]] = None]
      /\ UNCHANGED <<owner, up, buffer, received, to, queued>>
  BY DEF Deregister, remove_user_channel
<1>2. TypeInv'
  BY <1>1 DEF TypeInv, TypeOK
<1>3. RegisteredTaskIsAlive'
  BY <1>1, NoneAssumption DEF RegisteredTaskIsAlive, TypeInv, TypeOK
<1>4. OrderInv(c)' /\ \A e \in Nat : Seen(c, e)' => Seen(c, e)
  BY <1>1 DEF OrderInv, Seen
<1>5. /\ task'[c] # "new"
      /\ \A d \in Conns \ {c} : /\ received'[d] = received[d] /\ buffer'[d] = buffer[d]
                                /\ owner'[d] = owner[d] /\ task'[d] = task[d]
  BY <1>1 DEF TypeInv, TypeOK
<1> QED
  BY <1>1, <1>2, <1>3, <1>4, <1>5, ConnFrame

---------------------------------------------------------------------------
(* Publishing *)

(* A newer event goes to the end of the channel; all else that is in it     *)
(* afterwards was in it before.                                             *)
LEMMA EnqueueProperties ==
    ASSUME NEW q \in Seq(Events), NEW e \in Events, Increasing(q), Len(q) <= Capacity,
           \A i \in 1..Len(q) : q[i] < e
    PROVE  /\ Enqueue(q, e) \in Seq(Events)
           /\ Len(Enqueue(q, e)) <= Capacity
           /\ Increasing(Enqueue(q, e))
           /\ \A i \in 1..Len(Enqueue(q, e)) :
                  \/ Enqueue(q, e)[i] = e
                  \/ \E j \in 1..Len(q) : q[j] = Enqueue(q, e)[i]
<1>0. Events \subseteq Nat
  BY DEF Events
<1>1. Events \subseteq Nat /\ q \in Seq(Nat) /\ e \in Nat /\ Len(q) \in Nat
  BY <1>0, SeqMonotonic, LenProperties
<1>2. ASSUME NEW p \in Seq(Events), Increasing(p), Len(p) + 1 <= Capacity,
             \A i \in 1..Len(p) : \E j \in 1..Len(q) : q[j] = p[i]
      PROVE  /\ Append(p, e) \in Seq(Events)
             /\ Len(Append(p, e)) <= Capacity
             /\ Increasing(Append(p, e))
             /\ \A i \in 1..Len(Append(p, e)) :
                    \/ Append(p, e)[i] = e
                    \/ \E j \in 1..Len(q) : q[j] = Append(p, e)[i]
  <2>1. p \in Seq(Nat) /\ Len(p) \in Nat
    BY <1>1, SeqMonotonic, LenProperties
  <2>2. \A i \in 1..Len(p) : p[i] < e
    BY <1>2
  <2>3. Increasing(Append(p, e))
    BY <1>1, <1>2, <2>1, <2>2, IncreasingAppend
  <2>4. /\ Append(p, e) \in Seq(Events)
        /\ Len(Append(p, e)) = Len(p) + 1
        /\ \A i \in 1..Len(p) : Append(p, e)[i] = p[i]
        /\ Append(p, e)[Len(p) + 1] = e
    BY AppendProperties
  <2>5. ASSUME NEW i \in 1..(Len(p) + 1)
        PROVE  \/ Append(p, e)[i] = e
               \/ \E j \in 1..Len(q) : q[j] = Append(p, e)[i]
    <3>1. i \in 1..Len(p) \/ i = Len(p) + 1
      BY <2>1
    <3> QED
      BY <1>2, <2>4, <3>1
  <2> QED
    BY <1>2, <2>3, <2>4, <2>5
<1>3. CASE Len(q) < Capacity
  <2>1. Len(q) + 1 <= Capacity /\ Enqueue(q, e) = Append(q, e)
    BY <1>1, <1>3, BoundsAssumption DEF Enqueue
  <2> QED
    BY <1>2, <2>1
<1>4. CASE ~(Len(q) < Capacity)
  <2>1. Len(q) = Capacity /\ q # <<>> /\ Enqueue(q, e) = Append(Tail(q), e)
    BY <1>1, <1>4, BoundsAssumption DEF Enqueue
  <2>2. Tail(q) \in Seq(Events)
    BY <2>1, HeadTailProperties
  <2>3. /\ Len(Tail(q)) = Len(q) - 1 /\ Increasing(Tail(q))
        /\ \A i \in 1..Len(Tail(q)) : i + 1 \in 1..Len(q) /\ Tail(q)[i] = q[i + 1]
    BY <1>1, <2>1, IncreasingTail
  <2>4. \A i \in 1..Len(Tail(q)) : \E j \in 1..Len(q) : q[j] = Tail(q)[i]
    BY <2>3
  <2>5. Len(Tail(q)) + 1 <= Capacity
    BY <1>1, <2>1, <2>3
  <2>6. /\ Append(Tail(q), e) \in Seq(Events)
        /\ Len(Append(Tail(q), e)) <= Capacity
        /\ Increasing(Append(Tail(q), e))
        /\ \A i \in 1..Len(Append(Tail(q), e)) :
               \/ Append(Tail(q), e)[i] = e
               \/ \E j \in 1..Len(q) : q[j] = Append(Tail(q), e)[i]
    <3> HIDE DEF Increasing
    <3> QED
      BY <1>2, <2>2, <2>3, <2>4, <2>5
  <2> QED
    BY <2>1, <2>6
<1> QED
  BY <1>3, <1>4

LEMMA SendToUserKeeps ==
    ASSUME IInv, NEW u \in Users, SendToUser(u)
    PROVE  IInv'
<1> USE DEF IInv
<1> DEFINE e == Len(to) + 1
<1>1. /\ e <= MaxEvents /\ to' = Append(to, u)
      /\ UNCHANGED <<ws_channels, task, owner, up, received>>
  BY DEF SendToUser
<1>2. /\ to \in Seq(Users) /\ Len(to) \in Nat /\ e \in Nat /\ e \in Events
      /\ queued \subseteq 1..Len(to)
  BY <1>1, BoundsAssumption DEF TypeInv, TypeOK, Events
<1>3. /\ to' \in Seq(Users) /\ Len(to') = e /\ to'[e] = u
      /\ \A i \in 1..Len(to) : to'[i] = to[i]
  BY <1>1, <1>2, AppendProperties
<1>4. \A c \in Conns, n \in Nat : Seen(c, n) => n \in 1..Len(to)
  BY DEF RouteInv
<1>5. \A c \in Conns : ~Seen(c, e)
  BY <1>2, <1>4
<1>6. RegisteredTaskIsAlive'
  BY <1>1, AliveFrame DEF TypeInv, TypeOK
<1>7. CASE ~HasReceiver(u) /\ queued' = queued \cup {e} /\ UNCHANGED buffer
  <2>1. TypeInv'
    <3>1. queued' \subseteq 1..Len(to') /\ Len(to') <= MaxEvents
      <4>1. 1..Len(to) \subseteq 1..e /\ e \in 1..e
        BY <1>2
      <4> HIDE DEF e
      <4> QED
        BY <1>1, <1>2, <1>3, <1>7, <4>1
    <3> QED
      BY <1>1, <1>3, <1>7, <3>1 DEF TypeInv, TypeOK
  <2>2. \A c \in Conns, n \in Nat : Seen(c, n)' <=> Seen(c, n)
    BY <1>1, <1>7 DEF Seen
  <2>3. \A c \in Conns : OrderInv(c)'
    BY <1>1, <1>7 DEF OrderInv
  <2>4. ASSUME NEW c \in Conns
        PROVE  RouteInv(c)'
    <3>1. ASSUME NEW n \in Nat, Seen(c, n)
          PROVE  n \in 1..Len(to') /\ to'[n] = owner'[c] /\ n \notin queued'
      <4>1. n \in 1..Len(to) /\ to[n] = owner[c] /\ n \notin queued
        BY <3>1 DEF RouteInv
      <4> QED
        BY <1>1, <1>2, <1>3, <1>7, <4>1
    <3>2. task'[c] = "new" => received'[c] = <<>> /\ buffer'[c] = <<>>
      BY <1>1, <1>7 DEF RouteInv
    <3> QED
      BY <2>2, <3>1, <3>2 DEF RouteInv
  <2>5. OneSocketInv'
    BY <2>2 DEF OneSocketInv
  <2> QED
    BY <1>6, <2>1, <2>3, <2>4, <2>5
<1>8. CASE HasReceiver(u) /\ buffer' = [buffer EXCEPT ![ws_channels[u]] = Enqueue(buffer[ws_channels[u]], e)]
           /\ UNCHANGED queued
  <2>1. PICK c \in Conns : c = ws_channels[u] /\ owner[c] = u /\ task[c] = "serving"
    BY <1>8, NoneAssumption DEF HasReceiver, RegisteredTaskIsAlive, TypeInv, TypeOK
  <2> DEFINE b == buffer[c]
  <2>2. b \in Seq(Events) /\ Increasing(b) /\ Len(b) <= Capacity
    BY <2>1 DEF TypeInv, TypeOK, OrderInv
  <2>3. \A i \in 1..Len(b) : b[i] < e
    <3> SUFFICES ASSUME NEW i \in 1..Len(b) PROVE b[i] < e
      OBVIOUS
    <3>1. b[i] \in Nat
      BY <2>1, EventsAreNat, ElementOfSeq
    <3>2. Seen(c, b[i])
      BY DEF Seen
    <3> QED
      BY <1>2, <1>4, <2>1, <3>1, <3>2
  <2>4. \A i \in 1..Len(received[c]) : received[c][i] < e
    <3> SUFFICES ASSUME NEW i \in 1..Len(received[c]) PROVE received[c][i] < e
      OBVIOUS
    <3>1. received[c][i] \in Nat
      BY <2>1, EventsAreNat, ElementOfSeq
    <3>2. Seen(c, received[c][i])
      BY DEF Seen
    <3> QED
      BY <1>2, <1>4, <2>1, <3>1, <3>2
  <2> DEFINE q == Enqueue(b, e)
  <2>5. /\ q \in Seq(Events) /\ Len(q) <= Capacity /\ Increasing(q)
        /\ \A i \in 1..Len(q) : q[i] = e \/ \E j \in 1..Len(b) : b[j] = q[i]
    <3> HIDE DEF b, e
    <3> QED
      BY <1>2, <2>2, <2>3, EnqueueProperties
  <2>6. /\ buffer' = [buffer EXCEPT ![c] = q] /\ buffer'[c] = q
        /\ \A d \in Conns \ {c} : buffer'[d] = buffer[d]
    BY <1>8, <2>1 DEF TypeInv
  <2> HIDE DEF b, e, q
  <2>7. TypeInv'
    <3>1. buffer' \in [Conns -> Seq(Events)] /\ \A d \in Conns : Len(buffer'[d]) <= Capacity
      BY <2>1, <2>5, <2>6 DEF TypeInv, TypeOK
    <3>2. Len(to') <= MaxEvents /\ queued' \subseteq 1..Len(to')
      BY <1>1, <1>2, <1>3, <1>8 DEF e
    <3> QED
      BY <1>1, <1>3, <3>1, <3>2 DEF TypeInv, TypeOK
  <2>8. /\ \A n \in Nat : Seen(c, n)' => Seen(c, n) \/ n = e
        /\ \A d \in Conns \ {c}, n \in Nat : Seen(d, n)' => Seen(d, n)
    <3>1. ASSUME NEW n \in Nat, Seen(c, n)' PROVE Seen(c, n) \/ n = e
      <4>1. \/ \E i \in 1..Len(received[c]) : received[c][i] = n
            \/ \E i \in 1..Len(q) : q[i] = n
        BY <1>1, <2>6, <3>1 DEF Seen
      <4> QED
        BY <2>5, <4>1 DEF Seen, b
    <3>2. ASSUME NEW d \in Conns \ {c}, NEW n \in Nat, Seen(d, n)' PROVE Seen(d, n)
      BY <1>1, <2>6, <3>2 DEF Seen
    <3> QED
      BY <3>1, <3>2
  <2>9. ASSUME NEW d \in Conns
        PROVE  OrderInv(d)'
    <3>1. CASE d = c
      <4>1. Increasing(received'[d]) /\ Increasing(buffer'[d])
        BY <1>1, <2>1, <2>5, <2>6, <3>1 DEF OrderInv
      <4>2. ASSUME NEW i \in 1..Len(received[c]), NEW j \in 1..Len(q)
            PROVE  received[c][i] < q[j]
        BY <2>1, <2>4, <2>5 DEF OrderInv, b
      <4> QED
        BY <1>1, <2>6, <3>1, <4>1, <4>2 DEF OrderInv
    <3>2. CASE d # c
      BY <1>1, <2>6, <3>2 DEF OrderInv
    <3> QED
      BY <3>1, <3>2
  <2>10. ASSUME NEW d \in Conns
         PROVE  RouteInv(d)'
    <3>1. ASSUME NEW n \in Nat, Seen(d, n)'
          PROVE  n \in 1..Len(to') /\ to'[n] = owner'[d] /\ n \notin queued'
      <4>1. CASE Seen(d, n)
        <5>1. n \in 1..Len(to) /\ to[n] = owner[d] /\ n \notin queued
          BY <4>1 DEF RouteInv
        <5> QED
          BY <1>1, <1>2, <1>3, <1>8, <5>1 DEF e
      <4>2. CASE d = c /\ n = e
        BY <1>1, <1>2, <1>3, <1>8, <2>1, <4>2 DEF e
      <4> QED
        BY <2>8, <3>1, <4>1, <4>2
    <3>2. task'[d] = "new" => received'[d] = <<>> /\ buffer'[d] = <<>>
      BY <1>1, <2>1, <2>6 DEF RouteInv
    <3> QED
      BY <3>1, <3>2 DEF RouteInv
  <2>11. OneSocketInv'
    <3> SUFFICES ASSUME NEW x \in Conns, NEW y \in Conns, NEW n \in Nat,
                        Seen(x, n)', Seen(y, n)'
                 PROVE  x = y
      BY DEF OneSocketInv
    <3> QED
      BY <1>5, <2>8 DEF OneSocketInv
  <2> QED
    BY <1>6, <2>7, <2>9, <2>10, <2>11
<1> QED
  BY <1>7, <1>8 DEF SendToUser

---------------------------------------------------------------------------
(* Main results *)

LEMMA InitEstablishes == Init => IInv
<1> SUFFICES ASSUME Init PROVE IInv
  OBVIOUS
<1> USE DEF Init
<1>1. <<>> \in Seq(Events) /\ <<>> \in Seq(Users) /\ Len(<<>>) = 0
      /\ 0 <= Capacity /\ 0 <= MaxEvents
  BY BoundsAssumption
<1>2. TypeInv
  BY <1>1 DEF TypeInv, TypeOK
<1>3. RegisteredTaskIsAlive
  BY DEF RegisteredTaskIsAlive
<1>4. \A c \in Conns : received[c] = <<>> /\ buffer[c] = <<>>
  OBVIOUS
<1>5. \A c \in Conns, e \in Nat : ~Seen(c, e)
  BY <1>1, <1>4 DEF Seen
<1>6. \A c \in Conns : OrderInv(c)
  BY <1>1, <1>4 DEF OrderInv, Increasing
<1> QED
  BY <1>2, <1>3, <1>4, <1>5, <1>6 DEF IInv, RouteInv, OneSocketInv

LEMMA StepKeeps == IInv /\ [Next]_vars => IInv'
<1> SUFFICES ASSUME IInv, [Next]_vars PROVE IInv'
  OBVIOUS
<1>1. ASSUME NEW c \in Conns, TaskStep(c) PROVE IInv'
  <2>1. CASE SocketCloses(c)
    BY <2>1, BreakKeeps DEF SocketCloses
  <2>2. CASE ForwardEvent(c)
    BY <2>2, TakeKeeps DEF ForwardEvent
  <2>3. CASE ForwardFails(c)
    BY <2>3, BreakKeeps, TakeKeeps DEF ForwardFails
  <2>4. CASE ChannelCloses(c)
    BY <2>4, BreakKeeps DEF ChannelCloses
  <2>5. CASE Deregister(c)
    BY <2>5, DeregisterKeeps
  <2> QED
    BY <1>1, <2>1, <2>2, <2>3, <2>4, <2>5 DEF TaskStep
<1>2. ASSUME UNCHANGED <<ws_channels, task, owner, buffer, received, to, queued>>,
             up' \subseteq Conns
      PROVE  IInv'
  BY <1>2 DEF IInv, TypeInv, TypeOK, RegisteredTaskIsAlive, OrderInv, RouteInv,
              OneSocketInv, Seen, Increasing
<1>3. ASSUME NEW c \in Conns, ClientLeaves(c) PROVE IInv'
  BY <1>2, <1>3 DEF ClientLeaves, IInv, TypeInv, TypeOK
<1>4. CASE UNCHANGED vars
  BY <1>2, <1>4 DEF vars, IInv, TypeInv, TypeOK
<1> QED
  BY <1>1, <1>3, <1>4, UpgradeKeeps, SendToUserKeeps DEF Next

(* The inductive invariant holds in every reachable state, with or without  *)
(* the fairness of the tasks.                                               *)
THEOREM Invariance == Spec => []IInv
<1> QED
  BY InitEstablishes, StepKeeps, PTL DEF Spec

(* Every variable keeps its type and no channel holds more than Capacity    *)
(* events.                                                                  *)
THEOREM TypeCorrect == Spec => []TypeOK
<1>1. IInv => TypeOK
  BY DEF IInv, TypeInv
<1> QED
  BY <1>1, Invariance, PTL

(* An entry of ws_channels is the sender of a connection of that user whose *)
(* task is still to deregister, although a task removes the entry of its    *)
(* user whoever registered it last.                                         *)
THEOREM RegisteredIsAlive == Spec => []RegisteredTaskIsAlive
<1>1. IInv => RegisteredTaskIsAlive
  BY DEF IInv
<1> QED
  BY <1>1, Invariance, PTL

(* Whatever connects, disconnects, overflows and is replaced, a client sees *)
(* events of its own user only, in the order of publication, none twice,    *)
(* none that send_to_user reported undelivered, and no two sockets see the  *)
(* same event.                                                              *)
THEOREM RoutedOnceInOrder == Spec => []EventsAreRoutedOnceInOrder
<1> QED
  BY Invariance, InvariantImpliesRouting, PTL
=============================================================================
