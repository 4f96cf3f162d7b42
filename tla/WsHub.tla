--------------------------------- MODULE WsHub ---------------------------------
(***************************************************************************)
(* The WebSocket hub of rust-core (realtime/hub.rs) and the life of its    *)
(* connections (realtime/websocket.rs).  Every connection has a handler,   *)
(* which registers it, spawns an inbound and an outbound task, waits for   *)
(* one of the two and unregisters it.  The hub holds the only sender of a  *)
(* connection's channel and the outbound task its receiver.                *)
(*                                                                         *)
(* A broadcast to a room looks at the entries of the DashMap one after the *)
(* other, while connections come, go, join and leave, and removes          *)
(* afterwards those whose receiver was gone.  The broadcasts to one user   *)
(* ("connected", "pong") do the same; they are taken in one step, since    *)
(* nobody relates their messages to anything else.                         *)
(***************************************************************************)
EXTENDS Integers, FiniteSets, Sequences

CONSTANTS
    Conns,      \* connections, numbered by Uuid::new_v4
    Rooms,
    Senders,    \* the tasks that broadcast to rooms
    Announcers, \* those of them that only relay an event to its room
    Messages,   \* what the senders broadcast
    News,       \* what the announcers do
    Hello,      \* a message to one user, "connected" or "pong"
    UserOf,     \* the user of each connection
    MaxQueue    \* bound: with so much in a channel, no client sends a ping and
                \* nobody requests another broadcast

ASSUME HubAssumption == /\ UserOf \in [Conns -> {UserOf[c] : c \in Conns}]
                        /\ MaxQueue \in Nat /\ Hello \notin Messages
                        /\ Announcers \subseteq Senders /\ News \subseteq Messages

VARIABLES
    clients,    \* WsHub.clients: the connections registered
    rooms,      \* Client.rooms of each connection
    queue,      \* its channel
    handler,    \* handle_socket: none, selecting, ended
    inbound, outbound,   \* its tasks: none, running, ended
    peer,       \* the other end, and what TCP knows of it
    got,        \* messages that arrived there
    cast        \* the broadcast each sender is in

hubVars == <<clients, rooms, queue, handler, inbound, outbound, peer, got, cast>>

Task == {"none", "running", "ended"}

\* left: closed, which can be read from the socket; lost: vanished without a
\* word; unacked: lost, and something was written since, on which TCP gives up.
Peer == {"open", "left", "lost", "unacked"}
Failing(c) == peer[c] \in {"left", "unacked"}

Cast   == [on : BOOLEAN, room : Rooms, message : Messages, todo : SUBSET Conns, dead : SUBSET Conns]
NoCast == [on |-> FALSE, todo |-> {}, dead |-> {}]

HubInit ==
    /\ clients = {}
    /\ rooms = [c \in Conns |-> {}]
    /\ queue = [c \in Conns |-> <<>>]
    /\ handler = [c \in Conns |-> "none"]
    /\ inbound = [c \in Conns |-> "none"]
    /\ outbound = [c \in Conns |-> "none"]
    /\ peer = [c \in Conns |-> "open"]
    /\ got = [c \in Conns |-> {}]
    /\ cast = [s \in Senders |-> NoCast]

\* tx.send fails once the outbound task, and with it the receiver, is gone.
Receiving == {c \in Conns : outbound[c] # "ended"}

\* A message to each of the connections S that can take one.
Told(S) == [c \in Conns |-> IF c \in S \cap Receiving THEN Append(queue[c], Hello)
                                                    ELSE queue[c]]

(* handle_socket *)

\* register, "connected" to all connections of the user, and the two tasks.
Connect(c) ==
    /\ handler[c] = "none"
    /\ LET known == clients \cup {c}
           mine  == {d \in known : UserOf[d] = UserOf[c]}
       IN  /\ queue' = Told(mine)
           /\ clients' = known \ (mine \ Receiving)
    /\ handler' = [handler EXCEPT ![c] = "selecting"]
    /\ inbound' = [inbound EXCEPT ![c] = "running"]
    /\ outbound' = [outbound EXCEPT ![c] = "running"]
    /\ UNCHANGED <<rooms, peer, got, cast>>

\* Variant: tokio::join! in place of select!.
BothEnded(c) == inbound[c] = "ended" /\ outbound[c] = "ended"

\* The select! is over when either task is; the other one goes on, detached.
OneEnded(c) == inbound[c] = "ended" \/ outbound[c] = "ended"

Unregister(c) ==
    /\ handler[c] = "selecting" /\ OneEnded(c)
    /\ clients' = clients \ {c}
    /\ handler' = [handler EXCEPT ![c] = "ended"]
    /\ UNCHANGED <<rooms, queue, inbound, outbound, peer, got, cast>>

(* The inbound task: frames the client sent, until it closed or TCP gave up. *)

\* Variant: an entry that is missing is created, as with DashMap::entry.
JoinRoomCreating(c, room) ==
    /\ inbound[c] = "running" /\ room \notin rooms[c]
    /\ rooms' = [rooms EXCEPT ![c] = @ \cup {room}]
    /\ clients' = clients \cup {c}
    /\ UNCHANGED <<queue, handler, inbound, outbound, peer, got, cast>>

\* get_mut: nothing happens to a connection that is not registered any more.
JoinRoom(c, room) ==
    /\ inbound[c] = "running"
    /\ c \in clients /\ room \notin rooms[c]
    /\ rooms' = [rooms EXCEPT ![c] = @ \cup {room}]
    /\ UNCHANGED <<clients, queue, handler, inbound, outbound, peer, got, cast>>

LeaveRoom(c, room) ==
    /\ inbound[c] = "running"
    /\ c \in clients /\ room \in rooms[c]
    /\ rooms' = [rooms EXCEPT ![c] = @ \ {room}]
    /\ UNCHANGED <<clients, queue, handler, inbound, outbound, peer, got, cast>>

Ping(c) ==
    /\ inbound[c] = "running"
    /\ \A d \in Conns : UserOf[d] = UserOf[c] => Len(queue[d]) < MaxQueue
    /\ LET mine == {d \in clients : UserOf[d] = UserOf[c]}
       IN  /\ queue' = Told(mine)
           /\ clients' = clients \ (mine \ Receiving)
    /\ UNCHANGED <<rooms, handler, inbound, outbound, peer, got, cast>>

InboundEnds(c) ==
    /\ inbound[c] = "running" /\ Failing(c)
    /\ inbound' = [inbound EXCEPT ![c] = "ended"]
    /\ UNCHANGED <<clients, rooms, queue, handler, outbound, peer, got, cast>>

(* The outbound task *)

\* A message is written; what an open peer is sent arrives.
OutboundSends(c) ==
    /\ outbound[c] = "running" /\ queue[c] # <<>>
    /\ queue' = [queue EXCEPT ![c] = Tail(@)]
    /\ got' = [got EXCEPT ![c] = IF peer[c] = "open"
                                    THEN @ \cup ({Head(queue[c])} \cap Messages) ELSE @]
    /\ peer' = [peer EXCEPT ![c] = IF @ = "lost" THEN "unacked" ELSE @]
    /\ UNCHANGED <<clients, rooms, handler, inbound, outbound, cast>>

\* ws_tx.send fails: the task ends, and drops the receiver with what it holds.
OutboundFails(c) ==
    /\ outbound[c] = "running" /\ queue[c] # <<>> /\ Failing(c)
    /\ outbound' = [outbound EXCEPT ![c] = "ended"]
    /\ queue' = [queue EXCEPT ![c] = <<>>]
    /\ UNCHANGED <<clients, rooms, handler, inbound, peer, got, cast>>

\* rx.recv() is None: the hub dropped the sender and the channel is empty.
OutboundEnds(c) ==
    /\ outbound[c] = "running" /\ queue[c] = <<>> /\ c \notin clients
    /\ outbound' = [outbound EXCEPT ![c] = "ended"]
    /\ UNCHANGED <<clients, rooms, queue, handler, inbound, peer, got, cast>>

(* broadcast_to_room.  The synchronous code between CastStart and CastEnd runs
   in the sender's task. *)

CastStart(s, room, message) ==
    /\ ~cast[s].on
    /\ cast' = [cast EXCEPT ![s] = [on |-> TRUE, room |-> room, message |-> message,
                                    todo |-> Conns, dead |-> {}]]
    /\ UNCHANGED <<clients, rooms, queue, handler, inbound, outbound, peer, got>>

\* Variant: tx.send(..).is_ok() marks a client as dead.
CastVisitPruningServed(s, c) ==
    /\ cast[s].on /\ c \in cast[s].todo
    /\ LET member == c \in clients /\ cast[s].room \in rooms[c]
       IN  /\ queue' = [queue EXCEPT ![c] = IF member /\ c \in Receiving
                                            THEN Append(@, cast[s].message) ELSE @]
           /\ cast' = [cast EXCEPT ![s].todo = @ \ {c},
                                   ![s].dead = IF member THEN @ \cup ({c} \cap Receiving) ELSE @]
    /\ UNCHANGED <<clients, rooms, handler, inbound, outbound, peer, got>>

\* Variant: the broadcast returns at the first client it cannot serve.
CastVisitStopping(s, c) ==
    /\ cast[s].on /\ c \in cast[s].todo
    /\ LET member == c \in clients /\ cast[s].room \in rooms[c]
       IN  /\ queue' = [queue EXCEPT ![c] = IF member /\ c \in Receiving
                                            THEN Append(@, cast[s].message) ELSE @]
           /\ cast' = [cast EXCEPT
                         ![s].todo = IF member /\ c \notin Receiving THEN {} ELSE @ \ {c},
                         ![s].dead = IF member THEN @ \cup ({c} \ Receiving) ELSE @]
    /\ UNCHANGED <<clients, rooms, handler, inbound, outbound, peer, got>>

\* The entry of c, if there is one, is looked at.
CastVisit(s, c) ==
    /\ cast[s].on /\ c \in cast[s].todo
    /\ LET member == c \in clients /\ cast[s].room \in rooms[c]
       IN  /\ queue' = [queue EXCEPT ![c] = IF member /\ c \in Receiving
                                            THEN Append(@, cast[s].message) ELSE @]
           /\ cast' = [cast EXCEPT ![s].todo = @ \ {c},
                                   ![s].dead = IF member THEN @ \cup ({c} \ Receiving) ELSE @]
    /\ UNCHANGED <<clients, rooms, handler, inbound, outbound, peer, got>>

CastEnd(s) ==
    /\ cast[s].on /\ cast[s].todo = {}
    /\ clients' = clients \ cast[s].dead
    /\ cast' = [cast EXCEPT ![s] = NoCast]
    /\ UNCHANGED <<rooms, queue, handler, inbound, outbound, peer, got>>

(* events::incoming: what a connector reports goes to the room it names, and
   neither the audit log nor the answer depends on it.  Check-ins and anomalies
   are announced in the same way. *)
Incoming(s, room, message) ==
    /\ \A c \in Conns : Len(queue[c]) < MaxQueue
    /\ CastStart(s, room, message)

(* The other end, and TCP: external. *)

Leaves(c) ==
    /\ handler[c] = "selecting" /\ peer[c] = "open"
    /\ \E p \in {"left", "lost"} : peer' = [peer EXCEPT ![c] = p]
    /\ UNCHANGED <<clients, rooms, queue, handler, inbound, outbound, got, cast>>

HubStep ==
    \/ \E c \in Conns :
         \/ Connect(c) \/ Unregister(c)
         \/ \E room \in Rooms : JoinRoom(c, room) \/ LeaveRoom(c, room)
         \/ Ping(c) \/ InboundEnds(c)
         \/ OutboundSends(c) \/ OutboundFails(c) \/ OutboundEnds(c)
         \/ Leaves(c)
         \/ \E s \in Senders : CastVisit(s, c)
    \/ \E s \in Senders : CastEnd(s)
    \/ \E s \in Announcers, room \in Rooms, m \in News : Incoming(s, room, m)

HubSpec == HubInit /\ [][HubStep]_hubVars

\* tokio runs what can run, and TCP gives up on what is never acknowledged.
OutboundStep(c) == OutboundSends(c) \/ OutboundFails(c) \/ OutboundEnds(c)
CastStep(s)     == (\E c \in Conns : CastVisit(s, c)) \/ CastEnd(s)

-----------------------------------------------------------------------------
(* Properties.                                                             *)

HubTypeOK ==
    /\ clients \in SUBSET Conns
    /\ rooms \in [Conns -> SUBSET Rooms]
    /\ queue \in [Conns -> Seq(Messages \cup {Hello})]
    /\ handler \in [Conns -> {"none", "selecting", "ended"}]
    /\ inbound \in [Conns -> Task] /\ outbound \in [Conns -> Task]
    /\ peer \in [Conns -> Peer]
    /\ got \in [Conns -> SUBSET Messages]
    /\ cast \in [Senders -> Cast \cup {NoCast}]

\* A connection whose handler has ended is not in the hub and never comes back,
\* although its detached inbound task may go on to join rooms
\* (websocket.rs:133-138, hub.rs:43-49).
NoGhosts ==
    \A c \in Conns : handler[c] = "ended" => c \notin clients

\* A connection the hub knows is one it can serve or its handler is about to
\* remove, and one that works stays registered: pruning after a broadcast takes
\* only connections whose receiver is gone (hub.rs:63-73).
OnlyDeadPruned ==
    \A c \in Conns : handler[c] = "selecting" /\ c \notin clients
                       => outbound[c] = "ended"

\* A client that is known to be gone, because it closed the connection or TCP
\* gave up on what was sent to it, is unregistered and leaves no task behind
\* (websocket.rs:93-138).
GoneIsUnregistered ==
    \A c \in Conns : Failing(c) ~>
                       c \notin clients /\ inbound[c] # "running" /\ outbound[c] # "running"

\* Who is in the room of an event while its broadcast has still to come by it gets
\* the event, unless it leaves the room or goes away first, although others of the
\* room are served by tasks that have just ended (hub.rs:57-74, websocket.rs:93-97,
\* events/mod.rs:88-104).
Member(c, room) == c \in clients /\ room \in rooms[c] /\ peer[c] = "open"
RoomIsReached ==
    \A s \in Announcers, c \in Conns, room \in Rooms, m \in News :
        (/\ cast[s].on /\ cast[s].room = room /\ cast[s].message = m
         /\ c \in cast[s].todo /\ Member(c, room))
          ~> m \in got[c] \/ ~Member(c, room)
=============================================================================
