----------------------------- MODULE WsChannels -----------------------------
(***************************************************************************)
(* The registry of WebSocket connections, AppState.ws_channels, the task    *)
(* that serves one connection (handle_upgrade, handle_ws_connection) and    *)
(* the publishers (send_to_user), all of handlers/ws.rs.                    *)
(*                                                                         *)
(* The map has one sender per user and owns the only handle of it, so       *)
(* overwriting or removing an entry closes the channel of the connection it *)
(* belonged to; tokio's broadcast receiver still yields what is buffered    *)
(* before it reports Closed.                                                *)
(***************************************************************************)
EXTENDS Naturals, SequencesExt

CONSTANTS
    Users,     \* user_accounts.id
    Conns,     \* upgraded sockets, each served by one task
    None,      \* no entry in the map, no owner
    Capacity,  \* the argument of broadcast::channel
    MaxEvents  \* bound on the events published

ASSUME BoundsAssumption == Capacity \in Nat \ {0} /\ MaxEvents \in Nat

ASSUME NoneAssumption == None \notin Users \cup Conns

VARIABLES
    ws_channels,  \* user -> the connection whose sender is registered
    task,         \* where the task of each connection is
    owner,        \* the user each connection authenticated as
    up,           \* connections whose client has not left
    buffer,       \* events in the broadcast channel of each connection
    received,     \* events written to the socket of each connection
    to,           \* the recipient of every event published so far
    queued        \* events for which send_to_user returned false

vars == <<ws_channels, task, owner, up, buffer, received, to, queued>>

Events == 1..MaxEvents

TypeOK ==
    /\ ws_channels \in [Users -> Conns \cup {None}]
    /\ task \in [Conns -> {"new", "serving", "leaving", "gone"}]
    /\ owner \in [Conns -> Users \cup {None}]
    /\ up \subseteq Conns
    /\ \A c \in Conns : /\ buffer[c] \in Seq(Events)
                        /\ Len(buffer[c]) <= Capacity
                        /\ received[c] \in Seq(Events)
    /\ to \in Seq(Users) /\ Len(to) <= MaxEvents
    /\ queued \subseteq 1..Len(to)

---------------------------------------------------------------------------
(* Plausible slips in the code below; nothing here is part of the           *)
(* specification.                                                           *)

Mutant_insert_one_for_all(u, c) == [v \in Users |-> c]
Mutant_remove_forgotten(u) == ws_channels
Mutant_Enqueue_unbounded(buf, e) == Append(buf, e)
Mutant_SenderClosed_ignored(c) == FALSE
Mutant_SenderClosed_early(c) == ws_channels[owner[c]] # c

---------------------------------------------------------------------------
(* tokio::sync::broadcast: a full channel forgets its oldest event. *)
Enqueue(buf, e) == IF Len(buf) < Capacity THEN Append(buf, e)
                   ELSE Append(Tail(buf), e)

(* RecvError::Closed: the sender is gone and nothing is buffered. *)
SenderClosed(c) == ws_channels[owner[c]] # c /\ buffer[c] = <<>>

(* sender.send(event).is_ok(): the entry exists and its receiver has not    *)
(* been dropped, that is, its task is still in the select loop.             *)
HasReceiver(u) == ws_channels[u] # None /\ task[ws_channels[u]] = "serving"

insert_channel(u, c) == [ws_channels EXCEPT ![u] = c]
remove_user_channel(u) == [ws_channels EXCEPT ![u] = None]

---------------------------------------------------------------------------
(* handle_upgrade: registers the new sender, dropping the one it replaces. *)
Upgrade(c, u) ==
    /\ task[c] = "new"
    /\ task' = [task EXCEPT ![c] = "serving"]
    /\ owner' = [owner EXCEPT ![c] = u]
    /\ up' = up \cup {c}
    /\ ws_channels' = insert_channel(u, c)
    /\ UNCHANGED <<buffer, received, to, queued>>

(* The client closes its socket, or the network does. *)
ClientLeaves(c) ==
    /\ c \in up
    /\ task[c] # "gone"
    /\ up' = up \ {c}
    /\ UNCHANGED <<ws_channels, task, owner, buffer, received, to, queued>>

(* handle_ws_connection, one iteration of its select!.  Leaving the loop    *)
(* drops the receiver and whatever it had not read.                         *)
Break(c) ==
    /\ task' = [task EXCEPT ![c] = "leaving"]
    /\ buffer' = [buffer EXCEPT ![c] = <<>>]

SocketCloses(c) ==
    /\ task[c] = "serving"
    /\ c \notin up
    /\ Break(c)
    /\ UNCHANGED <<ws_channels, owner, up, received, to, queued>>

ForwardEvent(c) ==
    /\ task[c] = "serving"
    /\ buffer[c] # <<>>
    /\ c \in up
    /\ received' = [received EXCEPT ![c] = Append(@, Head(buffer[c]))]
    /\ buffer' = [buffer EXCEPT ![c] = Tail(@)]
    /\ UNCHANGED <<ws_channels, task, owner, up, to, queued>>

(* A write to a socket nobody reads fails, or is accepted and lost. *)
ForwardFails(c) ==
    /\ task[c] = "serving"
    /\ buffer[c] # <<>>
    /\ c \notin up
    /\ \/ Break(c)
       \/ buffer' = [buffer EXCEPT ![c] = Tail(@)] /\ UNCHANGED task
    /\ UNCHANGED <<ws_channels, owner, up, received, to, queued>>

ChannelCloses(c) ==
    /\ task[c] = "serving"
    /\ SenderClosed(c)
    /\ Break(c)
    /\ UNCHANGED <<ws_channels, owner, up, received, to, queued>>

(* After the loop: the entry of the user goes, whoever's it is by now, and  *)
(* the socket is dropped.                                                   *)
Deregister(c) ==
    /\ task[c] = "leaving"
    /\ task' = [task EXCEPT ![c] = "gone"]
    /\ ws_channels' = remove_user_channel(owner[c])
    /\ UNCHANGED <<owner, up, buffer, received, to, queued>>

---------------------------------------------------------------------------
(* send_to_user; a caller that is told false puts the event in the          *)
(* notification queue (accept_invite) or tries again later.                 *)
SendToUser(u) ==
    LET e == Len(to) + 1 IN
    /\ e <= MaxEvents
    /\ to' = Append(to, u)
    /\ \/ /\ HasReceiver(u)
          /\ buffer' = [buffer EXCEPT ![ws_channels[u]] = Enqueue(@, e)]
          /\ UNCHANGED queued
       \/ /\ ~HasReceiver(u)
          /\ queued' = queued \cup {e}
          /\ UNCHANGED buffer
    /\ UNCHANGED <<ws_channels, task, owner, up, received>>

---------------------------------------------------------------------------
Init ==
    /\ ws_channels = [u \in Users |-> None]
    /\ task = [c \in Conns |-> "new"]
    /\ owner = [c \in Conns |-> None]
    /\ up = {}
    /\ buffer = [c \in Conns |-> <<>>]
    /\ received = [c \in Conns |-> <<>>]
    /\ to = <<>>
    /\ queued = {}

TaskStep(c) ==
    \/ SocketCloses(c)
    \/ ForwardEvent(c)
    \/ ForwardFails(c)
    \/ ChannelCloses(c)
    \/ Deregister(c)

Next ==
    \/ \E c \in Conns : TaskStep(c) \/ ClientLeaves(c)
    \/ \E c \in Conns, u \in Users : Upgrade(c, u)
    \/ \E u \in Users : SendToUser(u)

Spec == Init /\ [][Next]_vars

(* tokio polls the task of a connection whenever one of its branches is     *)
(* ready; clients and publishers owe nothing.                               *)
FairSpec == Spec /\ \A c \in Conns : WF_vars(TaskStep(c))

---------------------------------------------------------------------------
(* Properties *)

Increasing(s) == \A i, j \in DOMAIN s : i < j => s[i] < s[j]

(* No entry outlives its task: a registered sender is that of a connection  *)
(* of the same user whose task still runs, so the map cannot fill up with   *)
(* channels nobody reads, however connects and disconnects interleave.      *)
RegisteredTaskIsAlive ==
    \A u \in Users : ws_channels[u] # None =>
        /\ owner[ws_channels[u]] = u
        /\ task[ws_channels[u]] \in {"serving", "leaving"}

(* An event is one call of send_to_user.  Through replaced connections and  *)
(* overflows: a client sees its own user's events only, in the order they   *)
(* were published, each once at most and none that the publisher was told   *)
(* had failed; no event reaches two sockets.  (A job the notification       *)
(* worker takes up again is another call, and is seen again.)               *)
EventsAreRoutedOnceInOrder ==
    /\ \A c \in Conns :
           LET seen == received[c] \o buffer[c] IN
           /\ Increasing(seen)
           /\ \A e \in ToSet(seen) : to[e] = owner[c] /\ e \notin queued
    /\ \A c, d \in Conns : c # d =>
           ToSet(received[c] \o buffer[c]) \cap ToSet(received[d] \o buffer[d]) = {}

(* A connection that lost its place in the map does not linger: it forwards *)
(* what it still has and ends, which closes the client's socket, so that    *)
(* nobody keeps listening on a socket no event can reach.                   *)
OrphanedConnectionEnds ==
    \A c \in Conns :
        task[c] = "serving" /\ ws_channels[owner[c]] # c ~> task[c] = "gone"

(* An event accepted by send_to_user is forwarded, unless newer events push *)
(* it out of a full channel or the client leaves - also when another        *)
(* connection of the user takes over first.                                 *)
AcceptedEventIsForwarded ==
    \A c \in Conns, e \in Events :
        e \in ToSet(buffer[c]) ~> \/ e \in ToSet(received[c])
                                  \/ c \notin up
                                  \/ Len(to) >= e + Capacity
=============================================================================
