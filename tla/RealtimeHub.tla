----------------------------- MODULE RealtimeHub -----------------------------
(***************************************************************************)
(* The WebSocket hub: on every replica connections join rooms, an event    *)
(* sent to a room is offered to a copy of its members and published to the *)
(* other replicas over Redis, and a client that does not drain its buffer  *)
(* is dropped.  A replica that lost its subscription tells its clients to  *)
(* fetch everything again once it has it back.                             *)
(*                                                                         *)
(* Sources: realtime/hub.go and realtime/redis_bus.go.                     *)
(***************************************************************************)
EXTENDS Naturals, Sequences, FiniteSets

CONSTANTS
  Nodes,      \* backend processes
  Sockets,    \* connections, each used once
  Rooms,
  Capacity,   \* of a client's send channel
  Nowhere,    \* no process yet; no socket left out
  MaxEvents   \* bound: events emitted

ASSUME HubAssumption ==
  Capacity \in Nat \ {0} /\ MaxEvents \in Nat /\ Nowhere \notin Nodes

VARIABLES
  home,       \* the replica a connection was accepted by
  hub,        \* hub.clients of all replicas
  member,     \* client.rooms; hub.rooms is its inverse, both change under h.mu
  buf,        \* client.send
  reader,     \* readPump, and the handler that called it
  writer,     \* writePump
  opened,     \* the connections nobody has closed
  peer,       \* the connections whose far end is still there
  dropping,   \* "go h.unregister(target)" that have not run
  casts,      \* broadcasts of this process's own events, with the targets left
  publishing, \* publishRealtimeEvent goroutines that have not run
  bus,        \* per replica, runBusSubscribeLoop
  live,       \* the replicas whose subscription Redis holds
  events,     \* how many events were emitted
  owed,       \* history: what a client was a member for and has not been shown
  shown,      \* history: the events written to a client
  twice       \* history: clients that were shown one event twice

hubVars == <<home, hub, member, buf, reader, writer, opened, peer, dropping, casts,
             publishing, bus, live, events, owed, shown, twice>>
sockets == <<home, reader, writer, opened, peer>>
history == <<owed, shown, twice>>

Ready == [event |-> 0]
Resync == [event |-> 0, resync |-> TRUE]

\* Connections, rooms and the bus hold what the code lets them hold.
HubTypeOK ==
  /\ home \in [Sockets -> Nodes \cup {Nowhere}]
  /\ hub \subseteq Sockets /\ dropping \subseteq Sockets
  /\ member \in [Sockets -> SUBSET Rooms]
  /\ \A s \in Sockets : Len(buf[s]) <= Capacity
  /\ reader \in [Sockets -> {"none", "reading", "joining", "returned"}]
  /\ writer \in [Sockets -> {"none", "waiting", "ended"}]
  /\ events \in 0 .. MaxEvents

HubInit ==
  /\ home = [s \in Sockets |-> Nowhere] /\ hub = {}
  /\ member = [s \in Sockets |-> {}] /\ buf = [s \in Sockets |-> << >>]
  /\ reader = [s \in Sockets |-> "none"] /\ writer = [s \in Sockets |-> "none"]
  /\ opened = {} /\ peer = {} /\ dropping = {} /\ casts = {} /\ publishing = {}
  /\ bus = [r \in Nodes |-> [step |-> "down", first |-> TRUE, inbox |-> << >>,
                                rooms |-> {}, left |-> {}]]
  /\ live = {} /\ events = 0
  /\ owed = [s \in Sockets |-> {}] /\ shown = [s \in Sockets |-> {}] /\ twice = {}

\* The done channel: closed by the unregister that finds the client there.
Done(s) == home[s] # Nowhere /\ s \notin hub

Members(r, g) == {s \in Sockets : home[s] = r /\ g \in member[s]}
-----------------------------------------------------------------------------
(* A connection.                                                            *)

\* Handler: register, the first message, then the two pumps.
Accept(s) ==
  /\ home[s] = Nowhere
  /\ \E r \in Nodes : home' = [home EXCEPT ![s] = r]
  /\ hub' = hub \cup {s} /\ buf' = [buf EXCEPT ![s] = <<Ready>>]
  /\ reader' = [reader EXCEPT ![s] = "reading"] /\ writer' = [writer EXCEPT ![s] = "waiting"]
  /\ opened' = opened \cup {s} /\ peer' = peer \cup {s}
  /\ UNCHANGED <<member, dropping, casts, publishing, bus, live, events, history>>

\* Frames of the far end; handleMessage asks nothing of the hub's clients.
Frame(s) == reader[s] = "reading" /\ s \in opened \cap peer

Join(s, g) ==
  /\ Frame(s)
  /\ member' = [member EXCEPT ![s] = @ \cup {g}]
  /\ UNCHANGED <<sockets, hub, buf, dropping, casts, publishing, bus, live, events, history>>

Leave(s, g) ==
  /\ Frame(s)
  /\ member' = [member EXCEPT ![s] = @ \ {g}]
  /\ owed' = [owed EXCEPT ![s] = {m \in @ : m.room # g}]
  /\ UNCHANGED <<sockets, hub, buf, dropping, casts, publishing, bus, live, events, shown, twice>>

\* Without a word, as when a phone is switched off.
PeerVanishes(s) ==
  /\ s \in peer /\ peer' = peer \ {s}
  /\ UNCHANGED <<home, hub, member, buf, reader, writer, opened, dropping, casts,
                 publishing, bus, live, events, history>>

Unregister(s) ==
  /\ hub' = hub \ {s}
  /\ member' = IF s \in hub THEN [member EXCEPT ![s] = {}] ELSE member

\* The read fails on a closed connection, or after pongWait of silence.
ReadPumpEnds(s) ==
  /\ reader[s] = "reading" /\ s \notin opened \cap peer
  /\ Unregister(s)
  /\ opened' = opened \ {s}
  /\ reader' = [reader EXCEPT ![s] = "joining"]
  /\ UNCHANGED <<home, buf, writer, peer, dropping, casts, publishing, bus, live, events, history>>

\* Only then may the connection be recycled.
HandlerReturns(s) ==
  /\ reader[s] = "joining" /\ writer[s] = "ended"
  /\ reader' = [reader EXCEPT ![s] = "returned"]
  /\ UNCHANGED <<home, hub, member, buf, writer, opened, peer, dropping, casts,
                 publishing, bus, live, events, history>>

\* What the far end makes of a message: a resync is a fresh fetch of it all.
Shown(s, m) ==
  /\ owed' = [owed EXCEPT ![s] = IF m = Resync THEN {} ELSE @ \ {m}]
  /\ shown' = [shown EXCEPT ![s] = IF m.event = 0 THEN @ ELSE @ \cup {m}]
  /\ twice' = IF m \in shown[s] THEN twice \cup {s} ELSE twice

\* A half-opened connection takes what is written for a while.
WriteMessage(s) ==
  /\ writer[s] = "waiting" /\ buf[s] # << >> /\ s \in opened
  /\ buf' = [buf EXCEPT ![s] = Tail(@)]
  /\ IF s \in peer THEN Shown(s, Head(buf[s])) ELSE UNCHANGED history
  /\ UNCHANGED <<sockets, hub, member, dropping, casts, publishing, bus, live, events>>

\* A write or a ping fails, or the client was unregistered.
WritePumpEnds(s) ==
  /\ writer[s] = "waiting" /\ (Done(s) \/ s \notin opened \cap peer)
  /\ writer' = [writer EXCEPT ![s] = "ended"]
  /\ opened' = opened \ {s}
  /\ UNCHANGED <<home, hub, member, buf, reader, peer, dropping, casts, publishing,
                 bus, live, events, history>>

DropSlowClient(s) ==
  /\ s \in dropping /\ dropping' = dropping \ {s}
  /\ Unregister(s)
  /\ UNCHANGED <<sockets, buf, casts, publishing, bus, live, events, history>>
-----------------------------------------------------------------------------
(* Broadcasts.                                                              *)

\* Skipped when done, dropped when the buffer is full.
Offer(s, m) ==
  /\ buf' = IF ~Done(s) /\ Len(buf[s]) < Capacity
            THEN [buf EXCEPT ![s] = Append(@, m)] ELSE buf
  /\ dropping' = IF ~Done(s) /\ Len(buf[s]) = Capacity THEN dropping \cup {s} ELSE dropping

\* Mutant of Subscribed: coming back is like coming for the first time.
NeverMissed(first) == TRUE

\* A first subscription has missed nothing the code makes good for.
Subscribed(first) == first

\* EmitToRoom, and emitToRoomExcept when a client relays a change.
EmitToRoom(r, g) ==
  /\ events < MaxEvents /\ events' = events + 1
  /\ \E except \in {Nowhere} \cup {s \in Sockets : home[s] = r} :
       LET m == [event |-> events + 1, room |-> g, origin |-> r] IN
       /\ casts' = casts \cup {[message |-> m, left |-> Members(r, g) \ {except}]}
       /\ owed' = [s \in Sockets |->
                    IF /\ s \in hub /\ g \in member[s] /\ s # except
                       /\ home[s] = r \/ ~bus[home[s]].first
                    THEN owed[s] \cup {m} ELSE owed[s]]
  /\ UNCHANGED <<sockets, hub, member, buf, dropping, publishing, bus, live, shown, twice>>

Broadcast ==
  \E cast \in casts : \E s \in cast.left :
    /\ Offer(s, cast.message)
    /\ casts' = (casts \ {cast}) \cup {[cast EXCEPT !.left = @ \ {s}]}
    /\ UNCHANGED <<sockets, hub, member, publishing, bus, live, events, history>>

BroadcastEnds ==
  \E cast \in casts :
    /\ cast.left = {} /\ casts' = casts \ {cast}
    /\ publishing' = publishing \cup {cast.message}
    /\ UNCHANGED <<sockets, hub, member, buf, dropping, bus, live, events, history>>
-----------------------------------------------------------------------------
(* The bus.  Publishing goroutines run in any order.                        *)

PublishRealtimeEvent ==
  \E m \in publishing :
    /\ publishing' = publishing \ {m}
    /\ bus' = [r \in Nodes |-> IF r \in live THEN [bus[r] EXCEPT !.inbox = Append(@, m)]
                                  ELSE bus[r]]
    /\ UNCHANGED <<sockets, hub, member, buf, dropping, casts, live, events, history>>

\* Logged, and the other replicas' clients miss the event.
PublishFails ==
  \E m \in publishing :
    /\ publishing' = publishing \ {m}
    /\ owed' = [s \in Sockets |-> IF home[s] = m.origin THEN owed[s] ELSE owed[s] \ {m}]
    /\ UNCHANGED <<sockets, hub, member, buf, dropping, casts, bus, live, events, shown, twice>>

BusStays == <<sockets, hub, member, casts, publishing, events, history>>

Subscribe(r) ==
  /\ bus[r].step = "down"
  /\ live' = live \cup {r}
  /\ bus' = [bus EXCEPT ![r] = [@ EXCEPT !.first = FALSE,
               !.step = IF Subscribed(bus[r].first) THEN "receiving" ELSE "looking"]]
  /\ UNCHANGED <<BusStays, buf, dropping>>

\* resyncLocalRooms: the rooms there are, then a broadcast to each.
ListLocalRooms(r) ==
  /\ bus[r].step = "looking"
  /\ bus' = [bus EXCEPT ![r] = [@ EXCEPT !.step = "resyncing",
                                         !.rooms = {g \in Rooms : Members(r, g) # {}}]]
  /\ UNCHANGED <<BusStays, buf, dropping, live>>

ResyncRoom(r) ==
  /\ bus[r].step = "resyncing" /\ bus[r].left = {}
  /\ \/ \E g \in bus[r].rooms :
          bus' = [bus EXCEPT ![r].rooms = @ \ {g}, ![r].left = Members(r, g) \X {Resync}]
     \/ bus[r].rooms = {} /\ bus' = [bus EXCEPT ![r].step = "receiving"]
  /\ UNCHANGED <<BusStays, buf, dropping, live>>

Foreign(m, r) == m.origin # r

HandleBusMessage(r) ==
  LET m == Head(bus[r].inbox) IN
  /\ bus[r].step = "receiving" /\ bus[r].left = {} /\ bus[r].inbox # << >>
  /\ bus' = [bus EXCEPT ![r].inbox = Tail(@),
               ![r].left = IF Foreign(m, r) THEN Members(r, m.room) \X {m} ELSE {}]
  /\ UNCHANGED <<BusStays, buf, dropping, live>>

BusBroadcast(r) ==
  \E next \in bus[r].left :
    /\ Offer(next[1], next[2])
    /\ bus' = [bus EXCEPT ![r].left = @ \ {next}]
    /\ UNCHANGED <<BusStays, live>>

\* Redis or the network ends the subscription; the loop finds out when it
\* next reads, whatever it had received before.
SubscriptionBreaks(r) ==
  /\ r \in live /\ live' = live \ {r}
  /\ UNCHANGED <<BusStays, buf, dropping, bus>>

SubscriptionLost(r) ==
  /\ bus[r].step = "receiving" /\ bus[r].left = {} /\ r \notin live
  /\ bus' = [bus EXCEPT ![r] = [@ EXCEPT !.step = "down", !.inbox = << >>]]
  /\ UNCHANGED <<BusStays, buf, dropping, live>>
-----------------------------------------------------------------------------
HubFaults ==
  \/ \E s \in Sockets : PeerVanishes(s)
  \/ \E r \in Nodes : SubscriptionBreaks(r)
  \/ PublishFails

HubSteps ==
  \/ \E s \in Sockets : \/ Accept(s) \/ ReadPumpEnds(s) \/ HandlerReturns(s)
                        \/ WriteMessage(s) \/ WritePumpEnds(s) \/ DropSlowClient(s)
                        \/ \E g \in Rooms : Join(s, g) \/ Leave(s, g)
  \/ \E r \in Nodes : \/ Subscribe(r) \/ ListLocalRooms(r) \/ ResyncRoom(r)
                         \/ HandleBusMessage(r) \/ BusBroadcast(r) \/ SubscriptionLost(r)
                         \/ \E g \in Rooms : EmitToRoom(r, g)
  \/ Broadcast \/ BroadcastEnds \/ PublishRealtimeEvent

HubNext == HubFaults \/ HubSteps
-----------------------------------------------------------------------------
HubQuiet ==
  /\ casts = {} /\ publishing = {} /\ dropping = {} /\ live = Nodes
  /\ \A r \in Nodes : bus[r].step = "receiving" /\ bus[r].left = {} /\ bus[r].inbox = << >>

\* When all is quiet, a client that is still connected has been shown every
\* event of the rooms it was in, or told afterwards to fetch everything again:
\* a subscription that was lost for a while leaves nobody behind.  Left out are
\* events whose publication failed, and a replica not yet subscribed at all.
NobodyLeftBehind ==
  HubQuiet => \A s \in hub \cap opened \cap peer : buf[s] = << >> => owed[s] = {}

\* No client is shown an event twice, though every event of a replica comes
\* back to it over the bus.
NoEventTwice == twice = {}

=============================================================================
