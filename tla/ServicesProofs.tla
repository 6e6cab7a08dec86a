--------------------------- MODULE ServicesProofs ----------------------------
(***************************************************************************)
(* Theorems about what the processes do beside answering requests: the     *)
(* WebSocket hub (RealtimeHub) shows every event once or asks for a fresh  *)
(* fetch, for any number of replicas, connections and rooms; a deferred    *)
(* mail (DeferredMail) costs one copy, and one more per fault, for any     *)
(* number of mails and processes; and of the punctual replicas one leads   *)
(* at a time (LeaderElection), as the lock LeaseLock promises.             *)
(***************************************************************************)
EXTENDS MCServices, SequenceTheorems, FiniteSetTheorems, TLAPS

HubSpec == HubInit /\ [][HubNext]_hubVars
-----------------------------------------------------------------------------
(* What the hub's variables hold.                                           *)

Event == [event : Nat \ {0}, room : Rooms, origin : Nodes]

Message == Event \cup {Ready, Resync}

Cast == [message : Event, left : SUBSET Sockets]

Subscription == [step : {"down", "looking", "resyncing", "receiving"}, first : BOOLEAN,
                 inbox : Seq(Event), rooms : SUBSET Rooms,
                 left : SUBSET (Sockets \X Message)]

HubData ==
  /\ home \in [Sockets -> Nodes \cup {Nowhere}]
  /\ hub \subseteq Sockets /\ dropping \subseteq Sockets
  /\ member \in [Sockets -> SUBSET Rooms]
  /\ buf \in [Sockets -> Seq(Message)]
  /\ \A s \in Sockets : Len(buf[s]) <= Capacity
  /\ reader \in [Sockets -> {"none", "reading", "joining", "returned"}]
  /\ writer \in [Sockets -> {"none", "waiting", "ended"}]
  /\ casts \subseteq Cast /\ publishing \subseteq Event
  /\ bus \in [Nodes -> Subscription] /\ live \subseteq Nodes
  /\ events \in 0 .. MaxEvents
  /\ owed \in [Sockets -> SUBSET Event] /\ shown \in [Sockets -> SUBSET Event]

Items(q) == {q[i] : i \in 1 .. Len(q)}

\* Ready and Resync may be queued more than once, events may not.
Distinct(q) ==
  \A i \in 1 .. Len(q) : \A j \in 1 .. Len(q) : q[i] = q[j] /\ q[i].event # 0 => i = j

Reached(s) == shown[s] \cup Items(buf[s])

\* Emitted, and not yet on the bus.
Sent == publishing \cup {c.message : c \in casts}

\* A connection that no replica has accepted yet has no part in anything.
Unborn ==
  \A s \in Sockets : home[s] = Nowhere =>
    /\ s \notin hub /\ buf[s] = << >> /\ shown[s] = {} /\ owed[s] = {}
    /\ member[s] = {} /\ reader[s] = "none"

\* No event has a number that is still to be given.
Numbered ==
  /\ \A m \in Sent : m.event <= events
  /\ \A s \in Sockets : \A m \in Reached(s) : m.event <= events
  /\ \A r \in Nodes : /\ \A m \in Items(bus[r].inbox) : m.event <= events
                      /\ \A x \in bus[r].left : x[2].event <= events

\* An event comes to a connection along one way, and has one place on it.
BufOnce ==
  \A s \in Sockets : Distinct(buf[s]) /\ \A m \in Items(buf[s]) : m \notin shown[s]

CastOnce ==
  /\ \A c \in casts : \A d \in casts : c.message = d.message => c = d
  /\ \A c \in casts : c.message \notin publishing
  /\ \A c \in casts : \A s \in c.left :
       home[s] = c.message.origin /\ c.message \notin Reached(s)

SentOnce ==
  \A m \in Sent :
    /\ \A s \in Sockets : home[s] # m.origin => m \notin Reached(s)
    /\ \A r \in Nodes : m \notin Items(bus[r].inbox) /\ \A x \in bus[r].left : x[2] # m

InboxOnce ==
  \A r \in Nodes :
    /\ Distinct(bus[r].inbox)
    /\ \A m \in Items(bus[r].inbox) : \A s \in Sockets :
         home[s] = r /\ Foreign(m, r) => m \notin Reached(s) /\ << s, m >> \notin bus[r].left

LeftOnce ==
  \A r \in Nodes : \A x \in bus[r].left :
    /\ home[x[1]] = r
    /\ \/ x[2] = Resync
       \/ x[2] \in Event /\ Foreign(x[2], r) /\ x[2] \notin Reached(x[1])

OnceInv ==
  /\ HubData /\ Unborn /\ Numbered
  /\ BufOnce /\ CastOnce /\ SentOnce /\ InboxOnce /\ LeftOnce
  /\ NoEventTwice

\* What a client is owed is of a room it is in, and if it is another replica's,
\* its own has subscribed before.
OwedIsDue ==
  \A s \in hub : \A m \in owed[s] :
    m.room \in member[s] /\ (Foreign(m, home[s]) => ~ bus[home[s]].first)

\* A call to fetch everything again is on its way to the connection.
ResyncComing(s, m) ==
  LET b == bus[home[s]] IN
  \/ home[s] \notin live \/ b.step \in {"down", "looking"}
  \/ b.step = "resyncing" /\ m.room \in b.rooms

OnTheBus(s, m) ==
  \/ m \in Sent \/ m \in Items(bus[home[s]].inbox)
  \/ << s, m >> \in bus[home[s]].left
  \/ ResyncComing(s, m)

Coming(s, m) ==
  \/ s \in dropping
  \/ m \in Items(buf[s]) \/ Resync \in Items(buf[s])
  \/ << s, Resync >> \in bus[home[s]].left
  \/ ~ Foreign(m, home[s]) /\ \E c \in casts : c.message = m /\ s \in c.left
  \/ Foreign(m, home[s]) /\ OnTheBus(s, m)

NobodyForgotten ==
  \A s \in hub \cap opened \cap peer : \A m \in owed[s] : Coming(s, m)

HubInv == OnceInv /\ OwedIsDue /\ NobodyForgotten
-----------------------------------------------------------------------------
(* Queues.                                                                  *)

\* A queue holds one thing more after Append.
LEMMA AppendItems ==
  ASSUME NEW S, NEW q \in Seq(S), NEW e \in S
  PROVE  /\ Append(q, e) \in Seq(S) /\ Len(Append(q, e)) = Len(q) + 1
         /\ Items(Append(q, e)) = Items(q) \cup {e}
         /\ Distinct(q) /\ (e \notin Items(q) \/ e.event = 0) => Distinct(Append(q, e))
<1> DEFINE a == Append(q, e)
<1>1. /\ a \in Seq(S) /\ Len(q) \in Nat /\ Len(a) = Len(q) + 1
      /\ a[Len(q) + 1] = e /\ \A i \in 1 .. Len(q) : a[i] = q[i]
  BY AppendProperties, LenProperties
<1>2. 1 .. Len(a) = (1 .. Len(q)) \cup {Len(q) + 1}
  BY <1>1
<1> HIDE DEF a
<1>3. Items(a) = Items(q) \cup {e}
  BY <1>1, <1>2 DEF Items
<1>4. ASSUME Distinct(q), e \notin Items(q) \/ e.event = 0 PROVE Distinct(a)
  <2> SUFFICES ASSUME NEW i \in 1 .. Len(a), NEW j \in 1 .. Len(a),
                      a[i] = a[j], a[i].event # 0
               PROVE  i = j
    BY DEF Distinct
  <2>1. CASE i \in 1 .. Len(q) /\ j \in 1 .. Len(q)
    BY <2>1, <1>1, <1>4 DEF Distinct
  <2>2. CASE i \in 1 .. Len(q) /\ j = Len(q) + 1
    BY <2>2, <1>1, <1>4 DEF Items
  <2>3. CASE i = Len(q) + 1 /\ j \in 1 .. Len(q)
    BY <2>3, <1>1, <1>4 DEF Items
  <2> QED BY <2>1, <2>2, <2>3, <1>2
<1> QED BY <1>1, <1>3, <1>4 DEF a

\* Tail takes the head out, an event for good.
LEMMA TailItems ==
  ASSUME NEW S, NEW q \in Seq(S), q # << >>
  PROVE  /\ Head(q) \in S /\ Tail(q) \in Seq(S) /\ Len(Tail(q)) = Len(q) - 1
         /\ Items(q) = {Head(q)} \cup Items(Tail(q))
         /\ Distinct(q) => Distinct(Tail(q))
         /\ Distinct(q) /\ Head(q).event # 0 => Head(q) \notin Items(Tail(q))
<1> DEFINE t == Tail(q)
<1>1. /\ t \in Seq(S) /\ Len(q) \in Nat \ {0} /\ Len(t) = Len(q) - 1
      /\ Head(q) = q[1] /\ Head(q) \in S /\ \A i \in 1 .. Len(t) : t[i] = q[i + 1]
  BY HeadTailProperties, EmptySeq
<1> HIDE DEF t
<1>2. ASSUME NEW i \in 1 .. Len(q) PROVE i = 1 \/ (i - 1 \in 1 .. Len(t) /\ t[i - 1] = q[i])
  BY <1>1
<1>3. 1 \in 1 .. Len(q) /\ \A i \in 1 .. Len(t) : i + 1 \in 1 .. Len(q)
  BY <1>1
<1>4. Items(q) = {Head(q)} \cup Items(t)
  <2>1. Items(q) \subseteq {Head(q)} \cup Items(t)
    <3> SUFFICES ASSUME NEW i \in 1 .. Len(q)
                 PROVE  q[i] = q[1] \/ \E j \in 1 .. Len(t) : q[i] = t[j]
      BY <1>1 DEF Items
    <3> QED BY <1>2
  <2>2. {Head(q)} \cup Items(t) \subseteq Items(q)
    BY <1>1, <1>3 DEF Items
  <2> QED BY <2>1, <2>2
<1>5. Distinct(q) => Distinct(t)
  BY <1>1, <1>3 DEF Distinct
<1>6. ASSUME Distinct(q), Head(q).event # 0, Head(q) \in Items(t) PROVE FALSE
  <2>1. PICK i \in 1 .. Len(t) : t[i] = Head(q)
    BY <1>6 DEF Items
  <2>2. q[i + 1] = q[1] /\ q[i + 1].event # 0 /\ i + 1 \in 1 .. Len(q) /\ i + 1 # 1
    BY <2>1, <1>1, <1>3, <1>6
  <2> QED BY <2>2, <1>3, <1>6 DEF Distinct
<1> QED BY <1>1, <1>4, <1>5, <1>6 DEF t
-----------------------------------------------------------------------------
(* The hub's variables keep to their types.                                 *)

\* Only events have a number.
LEMMA OnlyEventsNumbered ==
  /\ Ready \in Message /\ Resync \in Message /\ Event \subseteq Message
  /\ Ready.event = 0 /\ Resync.event = 0
  /\ \A m \in Message : m.event \in Nat /\ (m \in Event <=> m.event # 0)
  /\ \A m \in Event : m.event \in Nat \ {0} /\ m.room \in Rooms /\ m.origin \in Nodes
BY DEF Ready, Resync, Message, Event

\* An offer queues the message, or drops the connection, or meets one that has gone.
LEMMA OfferEffect ==
  ASSUME HubData, NEW s \in Sockets, NEW m \in Message, Offer(s, m)
  PROVE  /\ buf' \in [Sockets -> Seq(Message)] /\ dropping' \subseteq Sockets
         /\ \A t \in Sockets : Len(buf'[t]) <= Capacity
         /\ \A t \in Sockets : t # s => buf'[t] = buf[t]
         /\ \/ buf'[s] = buf[s]
            \/ Len(buf'[s]) = Len(buf[s]) + 1 /\ buf'[s] = Append(buf[s], m)
         /\ dropping \subseteq dropping'
         /\ s \in hub => s \in dropping' \/ buf'[s] = Append(buf[s], m)
<1>1. /\ buf[s] \in Seq(Message) /\ Len(buf[s]) \in Nat /\ Capacity \in Nat
      /\ Append(buf[s], m) \in Seq(Message)
      /\ Len(Append(buf[s], m)) = Len(buf[s]) + 1
  BY AppendItems, LenProperties, HubAssumption DEF HubData
<1>2. s \in hub => ~ Done(s)
  BY DEF Done
<1>3. CASE ~ Done(s) /\ Len(buf[s]) < Capacity
  <2>1. buf' = [buf EXCEPT ![s] = Append(@, m)] /\ dropping' = dropping
    BY <1>1, <1>3 DEF Offer
  <2> QED BY <2>1, <1>1, <1>3 DEF HubData
<1>4. CASE ~ (~ Done(s) /\ Len(buf[s]) < Capacity)
  <2>1. /\ buf' = buf
        /\ dropping' = IF ~ Done(s) /\ Len(buf[s]) = Capacity THEN dropping \cup {s} ELSE dropping
    BY <1>1, <1>4 DEF Offer
  <2>2. s \in hub => s \in dropping'
    BY <2>1, <1>1, <1>2, <1>4 DEF HubData
  <2> QED BY <2>1, <2>2 DEF HubData
<1> QED BY <1>3, <1>4

LEMMA HubDataInit == HubInit => HubData
<1> SUFFICES ASSUME HubInit PROVE HubData
  OBVIOUS
<1>1. << >> \in Seq(Message) /\ << >> \in Seq(Event) /\ Len(<< >>) = 0
  BY EmptySeq
<1>2. [step |-> "down", first |-> TRUE, inbox |-> << >>, rooms |-> {}, left |-> {}] \in Subscription
  BY <1>1 DEF Subscription
<1> QED BY <1>1, <1>2, HubAssumption DEF HubInit, HubData

\* What a replica knows of its subscription changes at one replica at a time.
LEMMA OneSubscription ==
  ASSUME HubData, NEW r \in Nodes, NEW b, b \in Subscription,
         bus' = [bus EXCEPT ![r] = b]
  PROVE  /\ bus' \in [Nodes -> Subscription] /\ bus'[r] = b
         /\ \A n \in Nodes : n # r => bus'[n] = bus[n]
BY DEF HubData

\* A connection's own steps keep the types.
LEMMA ConnectionData ==
  ASSUME HubData, NEW s \in Sockets,
         \/ Accept(s) \/ ReadPumpEnds(s) \/ HandlerReturns(s) \/ WritePumpEnds(s)
         \/ DropSlowClient(s) \/ PeerVanishes(s)
         \/ \E g \in Rooms : Join(s, g) \/ Leave(s, g)
  PROVE  HubData'
<1>1. CASE Accept(s)
  <2>1. PICK r \in Nodes : home' = [home EXCEPT ![s] = r]
    BY <1>1 DEF Accept
  <2>2. <<Ready>> \in Seq(Message) /\ Len(<<Ready>>) = 1
    BY OnlyEventsNumbered
  <2>3. /\ home' \in [Sockets -> Nodes \cup {Nowhere}] /\ hub' \subseteq Sockets
        /\ buf' \in [Sockets -> Seq(Message)]
        /\ \A t \in Sockets : Len(buf'[t]) <= Capacity
    BY <1>1, <2>1, <2>2, HubAssumption DEF Accept, HubData
  <2>4. /\ reader' \in [Sockets -> {"none", "reading", "joining", "returned"}]
        /\ writer' \in [Sockets -> {"none", "waiting", "ended"}]
    BY <1>1 DEF Accept, HubData
  <2> QED BY <1>1, <2>3, <2>4 DEF Accept, HubData, history
<1>2. CASE ReadPumpEnds(s) \/ DropSlowClient(s)
  <2>1. Unregister(s)
    BY <1>2 DEF ReadPumpEnds, DropSlowClient
  <2>2. hub' \subseteq Sockets /\ member' \in [Sockets -> SUBSET Rooms]
    BY <2>1 DEF Unregister, HubData
  <2>3. /\ reader' \in [Sockets -> {"none", "reading", "joining", "returned"}]
        /\ dropping' \subseteq Sockets
    BY <1>2 DEF ReadPumpEnds, DropSlowClient, HubData, sockets
  <2> QED BY <1>2, <2>2, <2>3 DEF ReadPumpEnds, DropSlowClient, HubData, sockets, history
<1>3. CASE HandlerReturns(s) \/ WritePumpEnds(s) \/ PeerVanishes(s)
  <2>1. /\ reader' \in [Sockets -> {"none", "reading", "joining", "returned"}]
        /\ writer' \in [Sockets -> {"none", "waiting", "ended"}]
    BY <1>3 DEF HandlerReturns, WritePumpEnds, PeerVanishes, HubData
  <2> QED BY <1>3, <2>1 DEF HandlerReturns, WritePumpEnds, PeerVanishes, HubData, history
<1>4. ASSUME NEW g \in Rooms, Join(s, g) \/ Leave(s, g) PROVE HubData'
  <2>1. member \in [Sockets -> SUBSET Rooms] /\ owed \in [Sockets -> SUBSET Event]
    BY DEF HubData
  <2>2. CASE Join(s, g)
    <3>1. member' \in [Sockets -> SUBSET Rooms]
      BY <2>1, <2>2 DEF Join
    <3> QED BY <2>2, <3>1 DEF Join, HubData, sockets, history
  <2>3. CASE Leave(s, g)
    <3>1. member' \in [Sockets -> SUBSET Rooms]
      BY <2>1, <2>3 DEF Leave
    <3>2. owed' \in [Sockets -> SUBSET Event]
      BY <2>1, <2>3 DEF Leave
    <3> QED BY <2>3, <3>1, <3>2 DEF Leave, HubData, sockets
  <2> QED BY <1>4, <2>2, <2>3
<1> QED BY <1>1, <1>2, <1>3, <1>4

\* What is written, and what it does to what was owed.
LEMMA WriteEffect ==
  ASSUME HubData, NEW s \in Sockets, WriteMessage(s)
  PROVE  LET m == Head(buf[s]) IN
         /\ HubData' /\ m \in Message
         /\ buf'[s] = Tail(buf[s]) /\ buf[s] # << >>
         /\ \A t \in Sockets : t # s => /\ buf'[t] = buf[t] /\ owed'[t] = owed[t]
                                        /\ shown'[t] = shown[t]
         /\ \/ s \notin peer /\ UNCHANGED history
            \/ /\ owed'[s] = IF m = Resync THEN {} ELSE owed[s] \ {m}
               /\ shown'[s] = IF m.event = 0 THEN shown[s] ELSE shown[s] \cup {m}
               /\ twice' = IF m \in shown[s] THEN twice \cup {s} ELSE twice
<1> DEFINE m == Head(buf[s])
<1>1. /\ m \in Message /\ Tail(buf[s]) \in Seq(Message) /\ Len(buf[s]) \in Nat
      /\ Len(Tail(buf[s])) = Len(buf[s]) - 1 /\ buf[s] # << >> /\ buf[s] \in Seq(Message)
  BY TailItems, LenProperties DEF HubData, WriteMessage
<1>2. m.event # 0 => m \in Event
  BY <1>1, OnlyEventsNumbered
<1>3. /\ buf' \in [Sockets -> Seq(Message)] /\ buf'[s] = Tail(buf[s])
      /\ \A t \in Sockets : t # s => buf'[t] = buf[t]
  BY <1>1 DEF WriteMessage, HubData
<1>4. \A t \in Sockets : Len(buf'[t]) <= Capacity
  <2>1. Len(buf'[s]) <= Capacity
    BY <1>1, <1>3, HubAssumption DEF HubData
  <2> QED BY <1>3, <2>1 DEF HubData
<1>5. CASE s \in peer
  <2>1. Shown(s, m)
    BY <1>5 DEF WriteMessage
  <2>2. /\ owed' \in [Sockets -> SUBSET Event] /\ owed'[s] = IF m = Resync THEN {} ELSE owed[s] \ {m}
        /\ \A t \in Sockets : t # s => owed'[t] = owed[t]
    BY <2>1 DEF Shown, HubData
  <2>3. /\ shown' \in [Sockets -> SUBSET Event]
        /\ shown'[s] = IF m.event = 0 THEN shown[s] ELSE shown[s] \cup {m}
        /\ \A t \in Sockets : t # s => shown'[t] = shown[t]
    BY <2>1, <1>2 DEF Shown, HubData
  <2>4. twice' = IF m \in shown[s] THEN twice \cup {s} ELSE twice
    BY <2>1 DEF Shown
  <2>5. HubData'
    BY <1>3, <1>4, <2>2, <2>3 DEF HubData, WriteMessage, sockets
  <2> QED BY <1>1, <1>3, <2>2, <2>3, <2>4, <2>5
<1>6. CASE s \notin peer
  <2>1. UNCHANGED history
    BY <1>6 DEF WriteMessage
  <2>2. HubData'
    BY <1>3, <1>4, <2>1 DEF HubData, WriteMessage, sockets, history
  <2> QED BY <1>1, <1>3, <1>6, <2>1, <2>2 DEF history
<1> QED BY <1>5, <1>6

\* An event is emitted with a new number, to its own replica's members.
LEMMA EmitEffect ==
  ASSUME HubData, NEW r \in Nodes, NEW g \in Rooms, EmitToRoom(r, g)
  PROVE  LET m == [event |-> events + 1, room |-> g, origin |-> r] IN
         /\ HubData' /\ events' = events + 1 /\ m \in Event
         /\ \E c \in Cast :
              /\ c.message = m /\ c.left \subseteq Members(r, g) /\ casts' = casts \cup {c}
              /\ \A s \in Sockets : \A n \in owed'[s] :
                   \/ n \in owed[s]
                   \/ /\ n = m /\ s \in hub /\ g \in member[s]
                      /\ IF home[s] = r THEN s \in c.left ELSE ~ bus[home[s]].first
         /\ UNCHANGED << sockets, hub, member, buf, dropping, publishing, bus, live, shown, twice >>
<1>1. PICK except \in {Nowhere} \cup {s \in Sockets : home[s] = r} :
        LET m == [event |-> events + 1, room |-> g, origin |-> r] IN
        /\ casts' = casts \cup {[message |-> m, left |-> Members(r, g) \ {except}]}
        /\ owed' = [s \in Sockets |->
                     IF /\ s \in hub /\ g \in member[s] /\ s # except
                        /\ home[s] = r \/ ~ bus[home[s]].first
                     THEN owed[s] \cup {m} ELSE owed[s]]
  BY DEF EmitToRoom
<1> DEFINE m == [event |-> events + 1, room |-> g, origin |-> r]
           c == [message |-> m, left |-> Members(r, g) \ {except}]
<1>2. /\ events \in Nat /\ events' = events + 1 /\ events' \in 0 .. MaxEvents
      /\ UNCHANGED << sockets, hub, member, buf, dropping, publishing, bus, live, shown, twice >>
  BY HubAssumption DEF EmitToRoom, HubData
<1>3. m \in Event
  BY <1>2 DEF Event
<1>4. Members(r, g) \ {except} \subseteq Sockets
  BY DEF Members
<1>5. c \in Cast
  BY <1>3, <1>4 DEF Cast
<1>6. owed' \in [Sockets -> SUBSET Event]
  <2>1. owed \in [Sockets -> SUBSET Event]
    BY DEF HubData
  <2> HIDE DEF m
  <2> QED BY <1>1, <1>3, <2>1 DEF m
<1>7. casts' \subseteq Cast
  BY <1>1, <1>5 DEF HubData
<1>8. HubData'
  BY <1>2, <1>6, <1>7 DEF HubData, sockets
<1>9. /\ c.message = m /\ c.left \subseteq Members(r, g) /\ casts' = casts \cup {c}
      /\ \A s \in Sockets : s \in c.left <=> s \in Members(r, g) /\ s # except
  BY <1>1
<1>10. ASSUME NEW s \in Sockets, NEW n \in owed'[s], n \notin owed[s]
       PROVE  /\ n = m /\ s \in hub /\ g \in member[s]
              /\ IF home[s] = r THEN s \in c.left ELSE ~ bus[home[s]].first
  <2>1. owed'[s] = IF /\ s \in hub /\ g \in member[s] /\ s # except
                      /\ home[s] = r \/ ~ bus[home[s]].first
                   THEN owed[s] \cup {m} ELSE owed[s]
    BY <1>1
  <2>2. /\ n = m /\ s \in hub /\ g \in member[s] /\ s # except
        /\ home[s] = r \/ ~ bus[home[s]].first
    <3> HIDE DEF m
    <3> QED BY <2>1, <1>10
  <2>3. home[s] = r => s \in c.left
    BY <1>9, <2>2 DEF Members
  <2> QED BY <2>2, <2>3
<1> HIDE DEF m, c
<1>11. \E d \in Cast :
         /\ d.message = m /\ d.left \subseteq Members(r, g) /\ casts' = casts \cup {d}
         /\ \A s \in Sockets : \A n \in owed'[s] :
              \/ n \in owed[s]
              \/ /\ n = m /\ s \in hub /\ g \in member[s]
                 /\ IF home[s] = r THEN s \in d.left ELSE ~ bus[home[s]].first
  <2> WITNESS c \in Cast
  <2> QED BY <1>9, <1>10
<1> QED BY <1>2, <1>3, <1>8, <1>11 DEF m

\* Broadcasting and publishing keep the types.
LEMMA BroadcastData ==
  ASSUME HubData, Broadcast \/ BroadcastEnds \/ PublishRealtimeEvent \/ PublishFails
  PROVE  HubData'
<1>1. CASE Broadcast
  <2>0. PICK cast \in casts : \E s \in cast.left :
          /\ Offer(s, cast.message)
          /\ casts' = (casts \ {cast}) \cup {[cast EXCEPT !.left = @ \ {s}]}
    BY <1>1 DEF Broadcast
  <2>1. PICK s \in cast.left :
          /\ Offer(s, cast.message)
          /\ casts' = (casts \ {cast}) \cup {[cast EXCEPT !.left = @ \ {s}]}
    BY <2>0
  <2>2. cast \in Cast
    BY DEF HubData
  <2>3. /\ s \in Sockets /\ cast.message \in Message
        /\ [cast EXCEPT !.left = @ \ {s}] \in Cast
    BY <2>2, OnlyEventsNumbered DEF Cast
  <2>4. casts' \subseteq Cast
    BY <2>1, <2>3 DEF HubData
  <2>5. /\ buf' \in [Sockets -> Seq(Message)] /\ dropping' \subseteq Sockets
        /\ \A t \in Sockets : Len(buf'[t]) <= Capacity
    BY <2>1, <2>3, OfferEffect
  <2> QED BY <1>1, <2>4, <2>5 DEF Broadcast, HubData, sockets, history
<1>2. CASE BroadcastEnds
  <2>1. casts' \subseteq Cast /\ publishing' \subseteq Event
    BY <1>2 DEF BroadcastEnds, HubData, Cast
  <2> QED BY <1>2, <2>1 DEF BroadcastEnds, HubData, sockets, history
<1>3. CASE PublishRealtimeEvent
  <2>1. PICK m \in publishing :
          /\ publishing' = publishing \ {m}
          /\ bus' = [r \in Nodes |-> IF r \in live THEN [bus[r] EXCEPT !.inbox = Append(@, m)]
                                        ELSE bus[r]]
    BY <1>3 DEF PublishRealtimeEvent
  <2>2. ASSUME NEW r \in Nodes PROVE [bus[r] EXCEPT !.inbox = Append(@, m)] \in Subscription
    <3>1. bus[r] \in Subscription /\ m \in Event
      BY DEF HubData
    <3>2. Append(bus[r].inbox, m) \in Seq(Event)
      BY <3>1, AppendItems DEF Subscription
    <3> QED BY <3>1, <3>2 DEF Subscription
  <2>3. bus' \in [Nodes -> Subscription] /\ publishing' \subseteq Event
    BY <2>1, <2>2 DEF HubData
  <2> QED BY <1>3, <2>3 DEF PublishRealtimeEvent, HubData, sockets, history
<1>4. CASE PublishFails
  <2>1. PICK m \in publishing :
          /\ publishing' = publishing \ {m}
          /\ owed' = [s \in Sockets |-> IF home[s] = m.origin THEN owed[s] ELSE owed[s] \ {m}]
    BY <1>4 DEF PublishFails
  <2>2. owed' \in [Sockets -> SUBSET Event] /\ publishing' \subseteq Event
    BY <2>1 DEF HubData
  <2> QED BY <1>4, <2>2 DEF PublishFails, HubData, sockets
<1> QED BY <1>1, <1>2, <1>3, <1>4

\* So do the subscription and its loop.
LEMMA SubscriptionData ==
  ASSUME HubData, NEW r \in Nodes,
         \/ Subscribe(r) \/ ListLocalRooms(r) \/ ResyncRoom(r) \/ HandleBusMessage(r)
         \/ BusBroadcast(r) \/ SubscriptionBreaks(r) \/ SubscriptionLost(r)
  PROVE  HubData'
<1> USE DEF BusStays, sockets, history
<1>1. bus \in [Nodes -> Subscription] /\ bus[r] \in Subscription
  BY DEF HubData
<1>2. CASE Subscribe(r)
  <2> DEFINE b == [bus[r] EXCEPT !.first = FALSE,
                     !.step = IF Subscribed(bus[r].first) THEN "receiving" ELSE "looking"]
  <2>1. b \in Subscription
    BY <1>1 DEF Subscription
  <2>2. bus' = [bus EXCEPT ![r] = b]
    BY <1>2 DEF Subscribe
  <2>3. bus' \in [Nodes -> Subscription] /\ live' \subseteq Nodes
    BY <2>1, <2>2, <1>2, OneSubscription DEF Subscribe, HubData
  <2> QED BY <1>2, <2>3 DEF Subscribe, HubData
<1>3. CASE ListLocalRooms(r)
  <2> DEFINE b == [bus[r] EXCEPT !.step = "resyncing", !.rooms = {g \in Rooms : Members(r, g) # {}}]
  <2>1. b \in Subscription
    BY <1>1 DEF Subscription
  <2>2. bus' = [bus EXCEPT ![r] = b]
    BY <1>3 DEF ListLocalRooms
  <2>3. bus' \in [Nodes -> Subscription]
    BY <2>1, <2>2, OneSubscription
  <2> QED BY <1>3, <2>3 DEF ListLocalRooms, HubData
<1>4. CASE ResyncRoom(r)
  <2>1. ASSUME NEW g \in bus[r].rooms,
               bus' = [bus EXCEPT ![r].rooms = @ \ {g}, ![r].left = Members(r, g) \X {Resync}]
        PROVE  bus' \in [Nodes -> Subscription]
    <3> DEFINE b == [bus[r] EXCEPT !.rooms = @ \ {g}, !.left = Members(r, g) \X {Resync}]
    <3>1. Members(r, g) \X {Resync} \subseteq Sockets \X Message
      BY OnlyEventsNumbered DEF Members
    <3>2. b \in Subscription
      BY <1>1, <3>1 DEF Subscription
    <3>3. bus' = [bus EXCEPT ![r] = b]
      BY <1>1, <2>1
    <3> QED BY <3>2, <3>3, OneSubscription
  <2>2. ASSUME bus' = [bus EXCEPT ![r].step = "receiving"]
        PROVE  bus' \in [Nodes -> Subscription]
    <3> DEFINE b == [bus[r] EXCEPT !.step = "receiving"]
    <3>1. b \in Subscription
      BY <1>1 DEF Subscription
    <3>2. bus' = [bus EXCEPT ![r] = b]
      BY <2>2
    <3> QED BY <3>1, <3>2, OneSubscription
  <2>3. bus' \in [Nodes -> Subscription]
    BY <1>4, <2>1, <2>2 DEF ResyncRoom
  <2> QED BY <1>4, <2>3 DEF ResyncRoom, HubData
<1>5. CASE HandleBusMessage(r)
  <2> DEFINE m == Head(bus[r].inbox)
             l == IF Foreign(m, r) THEN Members(r, m.room) \X {m} ELSE {}
             b == [bus[r] EXCEPT !.inbox = Tail(@), !.left = l]
  <2>1. m \in Event /\ Tail(bus[r].inbox) \in Seq(Event)
    BY <1>1, <1>5, TailItems DEF HandleBusMessage, Subscription
  <2>2. l \subseteq Sockets \X Message
    BY <2>1, OnlyEventsNumbered DEF Members
  <2>3. b \in Subscription
    <3> HIDE DEF l
    <3> QED BY <1>1, <2>1, <2>2 DEF Subscription
  <2>4. bus' = [bus EXCEPT ![r] = b]
    BY <1>1, <1>5 DEF HandleBusMessage
  <2>5. bus' \in [Nodes -> Subscription]
    <3> HIDE DEF b
    <3> QED BY <2>3, <2>4, OneSubscription
  <2> QED BY <1>5, <2>5 DEF HandleBusMessage, HubData
<1>6. CASE BusBroadcast(r)
  <2>1. PICK next \in bus[r].left :
          Offer(next[1], next[2]) /\ bus' = [bus EXCEPT ![r].left = @ \ {next}]
    BY <1>6 DEF BusBroadcast
  <2>2. next[1] \in Sockets /\ next[2] \in Message
    BY <1>1 DEF Subscription
  <2> DEFINE b == [bus[r] EXCEPT !.left = @ \ {next}]
  <2>3. b \in Subscription
    BY <1>1 DEF Subscription
  <2>4. bus' = [bus EXCEPT ![r] = b]
    BY <2>1
  <2>5. bus' \in [Nodes -> Subscription]
    BY <2>3, <2>4, OneSubscription
  <2>6. /\ buf' \in [Sockets -> Seq(Message)] /\ dropping' \subseteq Sockets
        /\ \A t \in Sockets : Len(buf'[t]) <= Capacity
    BY <2>1, <2>2, OfferEffect
  <2> QED BY <1>6, <2>5, <2>6 DEF BusBroadcast, HubData
<1>7. CASE SubscriptionBreaks(r)
  BY <1>7 DEF SubscriptionBreaks, HubData
<1>8. CASE SubscriptionLost(r)
  <2> DEFINE b == [bus[r] EXCEPT !.step = "down", !.inbox = << >>]
  <2>1. b \in Subscription
    BY <1>1, EmptySeq DEF Subscription
  <2>2. bus' = [bus EXCEPT ![r] = b]
    BY <1>8 DEF SubscriptionLost
  <2>3. bus' \in [Nodes -> Subscription]
    BY <2>1, <2>2, OneSubscription
  <2> QED BY <1>8, <2>3 DEF SubscriptionLost, HubData
<1> QED BY <1>2, <1>3, <1>4, <1>5, <1>6, <1>7, <1>8

\* Every step of the hub keeps the types.
LEMMA HubDataStep == HubData /\ [HubNext]_hubVars => HubData'
<1> SUFFICES ASSUME HubData, [HubNext]_hubVars PROVE HubData'
  OBVIOUS
<1>1. ASSUME NEW s \in Sockets, WriteMessage(s) PROVE HubData'
  BY <1>1, WriteEffect
<1>2. ASSUME NEW r \in Nodes, NEW g \in Rooms, EmitToRoom(r, g) PROVE HubData'
  BY <1>2, EmitEffect
<1>3. CASE UNCHANGED hubVars
  BY <1>3 DEF hubVars, HubData
<1> QED BY <1>1, <1>2, <1>3, ConnectionData, SubscriptionData, BroadcastData
        DEF HubNext, HubSteps, HubFaults
-----------------------------------------------------------------------------
(* Nobody is shown an event twice.                                          *)

\* Before a connection is accepted nothing reaches it.
LEMMA UnbornStep ==
  ASSUME OnceInv, HubNext PROVE Unborn'
<1> USE DEF sockets, history, BusStays
<1> SUFFICES ASSUME NEW s \in Sockets, home'[s] = Nowhere
             PROVE  /\ s \notin hub' /\ buf'[s] = << >> /\ shown'[s] = {} /\ owed'[s] = {}
                    /\ member'[s] = {} /\ reader'[s] = "none"
  BY DEF Unborn
<1> DEFINE New == /\ s \notin hub' /\ buf'[s] = << >> /\ shown'[s] = {} /\ owed'[s] = {}
                  /\ member'[s] = {} /\ reader'[s] = "none"
<1>1. HubData
  BY DEF OnceInv
<1>2. home[s] = Nowhere
  <2>1. ASSUME NEW t \in Sockets, Accept(t) PROVE home[s] = Nowhere
    BY <2>1, <1>1 DEF Accept, HubData
  <2>2. (\E t \in Sockets : Accept(t)) \/ UNCHANGED home
    BY DEF HubNext, HubSteps, HubFaults, PeerVanishes, SubscriptionBreaks, PublishFails,
         ReadPumpEnds, HandlerReturns, WriteMessage, WritePumpEnds, DropSlowClient, Join, Leave,
         Subscribe, ListLocalRooms, ResyncRoom, HandleBusMessage, BusBroadcast,
         SubscriptionLost, EmitToRoom, Broadcast, BroadcastEnds, PublishRealtimeEvent
  <2> QED BY <2>1, <2>2
<1>3. /\ s \notin hub /\ buf[s] = << >> /\ shown[s] = {} /\ owed[s] = {}
      /\ member[s] = {} /\ reader[s] = "none"
  BY <1>2 DEF OnceInv, Unborn
<1>4. ASSUME NEW t \in Sockets, Accept(t) PROVE New
  <2>1. t # s
    BY <1>4, <1>1, HubAssumption DEF Accept, HubData
  <2> QED BY <1>4, <2>1, <1>1, <1>3 DEF Accept, HubData
<1>5. ASSUME NEW t \in Sockets, NEW g \in Rooms, Join(t, g) \/ Leave(t, g) PROVE New
  <2>1. t # s
    BY <1>5, <1>3 DEF Join, Leave, Frame
  <2> QED BY <1>5, <2>1, <1>1, <1>3 DEF Join, Leave, HubData
<1>6. ASSUME NEW t \in Sockets, ReadPumpEnds(t) \/ DropSlowClient(t) PROVE New
  <2>1. Unregister(t)
    BY <1>6 DEF ReadPumpEnds, DropSlowClient
  <2>2. s \notin hub' /\ member'[s] = {}
    BY <2>1, <1>1, <1>3 DEF Unregister, HubData
  <2>3. t # s \/ DropSlowClient(t)
    BY <1>6, <1>3 DEF ReadPumpEnds
  <2>4. reader'[s] = "none"
    BY <1>6, <2>3, <1>1, <1>3 DEF ReadPumpEnds, DropSlowClient, HubData
  <2> QED BY <1>6, <2>2, <2>4, <1>1, <1>3 DEF ReadPumpEnds, DropSlowClient, HubData
<1>7. ASSUME NEW t \in Sockets, HandlerReturns(t) \/ WritePumpEnds(t) \/ PeerVanishes(t) PROVE New
  <2>1. t # s \/ ~ HandlerReturns(t)
    BY <1>3 DEF HandlerReturns
  <2>2. reader'[s] = "none"
    BY <1>7, <2>1, <1>1, <1>3 DEF HandlerReturns, WritePumpEnds, PeerVanishes, HubData
  <2> QED BY <1>7, <2>2, <1>3 DEF HandlerReturns, WritePumpEnds, PeerVanishes
<1>8. ASSUME NEW t \in Sockets, WriteMessage(t) PROVE New
  <2>1. t # s
    BY <1>8, <1>3 DEF WriteMessage
  <2>2. buf'[s] = buf[s] /\ owed'[s] = owed[s] /\ shown'[s] = shown[s]
    BY <1>8, <2>1, <1>1, WriteEffect
  <2> QED BY <1>8, <2>2, <1>3 DEF WriteMessage
<1>9. ASSUME NEW r \in Nodes, NEW g \in Rooms, EmitToRoom(r, g) PROVE New
  BY <1>9, <1>1, <1>3, EmitEffect
<1>10. ASSUME NEW t \in Sockets, home[t] # Nowhere, NEW m \in Message, Offer(t, m)
       PROVE  buf'[s] = << >>
  BY <1>10, <1>1, <1>2, <1>3, OfferEffect
<1>11. CASE Broadcast
  <2>0. PICK cast \in casts : \E t \in cast.left : Offer(t, cast.message)
    BY <1>11 DEF Broadcast
  <2>1. PICK t \in cast.left : Offer(t, cast.message)
    BY <2>0
  <2>2. cast \in Cast
    BY <1>1 DEF HubData
  <2>3. t \in Sockets /\ cast.message \in Message /\ home[t] # Nowhere
    BY <2>2, OnlyEventsNumbered, HubAssumption DEF Cast, OnceInv, CastOnce
  <2>4. buf'[s] = << >>
    BY <2>1, <2>3, <1>10
  <2> QED BY <1>11, <2>4, <1>3 DEF Broadcast
<1>12. CASE BroadcastEnds \/ PublishRealtimeEvent
  BY <1>12, <1>3 DEF BroadcastEnds, PublishRealtimeEvent
<1>13. CASE PublishFails
  <2>1. owed'[s] = {} 
    BY <1>13, <1>3 DEF PublishFails
  <2> QED BY <1>13, <2>1, <1>3 DEF PublishFails
<1>14. ASSUME NEW r \in Nodes, BusBroadcast(r) PROVE New
  <2>1. PICK next \in bus[r].left : Offer(next[1], next[2])
    BY <1>14 DEF BusBroadcast
  <2>2. bus[r] \in Subscription
    BY <1>1 DEF HubData
  <2>3. next[1] \in Sockets /\ next[2] \in Message /\ home[next[1]] # Nowhere
    BY <2>2, HubAssumption DEF Subscription, OnceInv, LeftOnce
  <2>4. buf'[s] = << >>
    BY <2>1, <2>3, <1>10
  <2> QED BY <1>14, <2>4, <1>3 DEF BusBroadcast
<1>15. ASSUME NEW r \in Nodes,
              \/ Subscribe(r) \/ ListLocalRooms(r) \/ ResyncRoom(r) \/ HandleBusMessage(r)
              \/ SubscriptionBreaks(r) \/ SubscriptionLost(r)
       PROVE  New
  BY <1>15, <1>3 DEF Subscribe, ListLocalRooms, ResyncRoom, HandleBusMessage,
       SubscriptionBreaks, SubscriptionLost
<1>16. New
  BY <1>4, <1>5, <1>6, <1>7, <1>8, <1>9, <1>11, <1>12, <1>13, <1>14, <1>15
     DEF HubNext, HubSteps, HubFaults
<1> QED BY <1>16

\* A step by which no event comes nearer to anybody keeps the invariant.
LEMMA NothingComesNearer ==
  ASSUME OnceInv, HubData', Unborn', BufOnce', NoEventTwice',
         home' = home, events' = events, casts' = casts, publishing' \subseteq publishing,
         \A s \in Sockets : Reached(s)' \subseteq Reached(s) \cup {Ready, Resync},
         \A r \in Nodes :
           /\ Items(bus'[r].inbox) \subseteq Items(bus[r].inbox) /\ Distinct(bus'[r].inbox)
           /\ \A x \in bus'[r].left : x \in bus[r].left \/ (x[2] = Resync /\ home[x[1]] = r)
  PROVE  OnceInv'
<1>1. HubData
  BY DEF OnceInv
<1>2. Sent' \subseteq Sent /\ Sent \subseteq Event
  BY <1>1 DEF Sent, HubData, Cast
<1>3. \A s \in Sockets : \A m \in Event : m \in Reached(s)' => m \in Reached(s)
  BY OnlyEventsNumbered
<1>4. ASSUME NEW r \in Nodes, NEW m \in Event, m \in Items(bus'[r].inbox)
      PROVE  m \in Items(bus[r].inbox)
  BY <1>4
<1>5. ASSUME NEW r \in Nodes PROVE Items(bus[r].inbox) \subseteq Event
  BY <1>1, LenProperties DEF HubData, Subscription, Items
<1>6. Numbered'
  <2>0. events \in Nat
    BY <1>1, HubAssumption DEF HubData
  <2>1. \A m \in Sent' : m.event <= events
    BY <1>2 DEF OnceInv, Numbered
  <2>2. \A s \in Sockets : \A m \in Reached(s)' : m.event <= events
    BY <2>0, OnlyEventsNumbered DEF OnceInv, Numbered
  <2>3. \A r \in Nodes : /\ \A m \in Items(bus'[r].inbox) : m.event <= events
                         /\ \A x \in bus'[r].left : x[2].event <= events
    BY <2>0, OnlyEventsNumbered DEF OnceInv, Numbered
  <2> QED BY <2>1, <2>2, <2>3 DEF Numbered
<1>7. CastOnce'
  <2>1. \A c \in casts : c.message \in Event /\ \A s \in c.left : s \in Sockets
    BY <1>1 DEF HubData, Cast
  <2> QED BY <2>1, <1>3 DEF OnceInv, CastOnce
<1>8. SentOnce'
  <2> SUFFICES ASSUME NEW m \in Sent'
               PROVE  /\ \A s \in Sockets : home[s] # m.origin => m \notin Reached(s)'
                      /\ \A r \in Nodes : m \notin Items(bus'[r].inbox)
                                          /\ \A x \in bus'[r].left : x[2] # m
    BY DEF SentOnce
  <2>1. m \in Sent /\ m \in Event /\ m # Resync
    BY <1>2, OnlyEventsNumbered
  <2> QED BY <2>1, <1>3 DEF OnceInv, SentOnce
<1>9. InboxOnce'
  <2> SUFFICES ASSUME NEW r \in Nodes, NEW m \in Items(bus'[r].inbox), NEW s \in Sockets,
                      home[s] = r, Foreign(m, r)
               PROVE  m \notin Reached(s)' /\ << s, m >> \notin bus'[r].left
    BY DEF InboxOnce, Foreign
  <2>1. m \in Items(bus[r].inbox) /\ m \in Event /\ m # Resync
    BY <1>5, OnlyEventsNumbered
  <2>2. m \notin Reached(s) /\ << s, m >> \notin bus[r].left
    BY <2>1 DEF OnceInv, InboxOnce
  <2>3. << s, m >>[2] = m
    OBVIOUS
  <2> QED BY <2>1, <2>2, <2>3, <1>3
<1>10. LeftOnce'
  <2> SUFFICES ASSUME NEW r \in Nodes, NEW x \in bus'[r].left
               PROVE  /\ home[x[1]] = r
                      /\ \/ x[2] = Resync
                         \/ x[2] \in Event /\ Foreign(x[2], r) /\ x[2] \notin Reached(x[1])'
    BY DEF LeftOnce, Foreign
  <2>1. CASE x[2] = Resync /\ home[x[1]] = r
    BY <2>1
  <2>2. CASE x \in bus[r].left
    <3>1. x[1] \in Sockets
      BY <2>2, <1>1 DEF HubData, Subscription
    <3> QED BY <2>2, <3>1, <1>3 DEF OnceInv, LeftOnce
  <2> QED BY <2>1, <2>2
<1> QED BY <1>6, <1>7, <1>8, <1>9, <1>10 DEF OnceInv

\* Steps that touch no queue.
LEMMA QueuesStay ==
  ASSUME OnceInv, HubData', Unborn',
         UNCHANGED << home, buf, shown, twice, casts, publishing, events >>,
         \A r \in Nodes : bus'[r].inbox = bus[r].inbox /\ bus'[r].left = bus[r].left
  PROVE  OnceInv'
<1>1. BufOnce' /\ NoEventTwice' /\ \A s \in Sockets : Reached(s)' = Reached(s)
  BY DEF OnceInv, BufOnce, NoEventTwice, Reached
<1>2. \A s \in Sockets : Reached(s)' \subseteq Reached(s) \cup {Ready, Resync}
  BY <1>1
<1>3. \A r \in Nodes :
        /\ Items(bus'[r].inbox) \subseteq Items(bus[r].inbox) /\ Distinct(bus'[r].inbox)
        /\ \A x \in bus'[r].left : x \in bus[r].left \/ (x[2] = Resync /\ home[x[1]] = r)
  <2>1. \A r \in Nodes : Distinct(bus[r].inbox)
    BY DEF OnceInv, InboxOnce
  <2> QED BY <2>1
<1>4. home' = home /\ events' = events /\ casts' = casts /\ publishing' \subseteq publishing
  OBVIOUS
<1> QED BY <1>1, <1>2, <1>3, <1>4, NothingComesNearer

LEMMA AcceptOnce ==
  ASSUME OnceInv, HubData', Unborn', NEW s \in Sockets, Accept(s) PROVE OnceInv'
<1> USE DEF history
<1>1. HubData /\ home[s] = Nowhere /\ buf[s] = << >> /\ shown[s] = {} /\ s \notin hub
  BY DEF OnceInv, Unborn, Accept
<1>2. PICK n \in Nodes : home' = [home EXCEPT ![s] = n]
  BY DEF Accept
<1>3. /\ home'[s] = n /\ \A t \in Sockets : t # s => home'[t] = home[t]
      /\ buf'[s] = << Ready >> /\ \A t \in Sockets : t # s => buf'[t] = buf[t]
      /\ UNCHANGED << shown, twice, casts, publishing, bus, events >>
  BY <1>1, <1>2 DEF Accept, HubData
<1>4. /\ Items(<< Ready >>) = {Ready} /\ Items(<< >>) = {} /\ Distinct(<< Ready >>)
  BY DEF Items, Distinct
<1>5. Reached(s) = {} /\ Reached(s)' = {Ready} /\ \A t \in Sockets : t # s => Reached(t)' = Reached(t)
  BY <1>1, <1>3, <1>4 DEF Reached
<1>6. \A m \in Event : m # Ready
  BY OnlyEventsNumbered
<1>7. \A c \in casts : s \notin c.left
  BY <1>1, HubAssumption DEF OnceInv, CastOnce, HubData, Cast, Event
<1>8. \A r \in Nodes : \A x \in bus[r].left : x[1] # s
  BY <1>1, HubAssumption DEF OnceInv, LeftOnce
<1>9. Numbered'
  <2>1. Sent' = Sent /\ Ready.event <= events
    BY <1>1, <1>3, OnlyEventsNumbered, HubAssumption DEF Sent, HubData
  <2>2. \A t \in Sockets : \A m \in Reached(t)' : m.event <= events
    BY <1>5, <2>1 DEF OnceInv, Numbered
  <2> QED BY <1>3, <2>1, <2>2 DEF OnceInv, Numbered
<1>10. BufOnce'
  BY <1>1, <1>3, <1>4, <1>6 DEF OnceInv, BufOnce
<1>11. CastOnce'
  <2>1. \A c \in casts : \A t \in c.left : t \in Sockets /\ t # s
    BY <1>1, <1>7 DEF HubData, Cast
  <2> QED BY <2>1, <1>3, <1>5 DEF OnceInv, CastOnce
<1>12. SentOnce'
  <2>1. Sent' = Sent /\ Sent \subseteq Event
    BY <1>1, <1>3 DEF Sent, HubData, Cast
  <2> QED BY <2>1, <1>3, <1>5, <1>6 DEF OnceInv, SentOnce
<1>13. InboxOnce'
  <2> SUFFICES ASSUME NEW r \in Nodes, NEW m \in Items(bus[r].inbox), NEW t \in Sockets,
                      home'[t] = r, Foreign(m, r)
               PROVE  m \notin Reached(t)' /\ << t, m >> \notin bus[r].left
    BY <1>3 DEF InboxOnce, OnceInv, Foreign
  <2>1. m \in Event
    BY <1>1, LenProperties DEF HubData, Subscription, Items
  <2>2. CASE t = s
    <3>1. << t, m >>[1] = s
      BY <2>2
    <3> QED BY <2>1, <2>2, <3>1, <1>5, <1>6, <1>8
  <2>3. CASE t # s
    BY <2>3, <1>3, <1>5 DEF OnceInv, InboxOnce
  <2> QED BY <2>2, <2>3
<1>14. LeftOnce'
  <2> SUFFICES ASSUME NEW r \in Nodes, NEW x \in bus[r].left
               PROVE  /\ home'[x[1]] = r
                      /\ \/ x[2] = Resync
                         \/ x[2] \in Event /\ Foreign(x[2], r) /\ x[2] \notin Reached(x[1])'
    BY <1>3 DEF LeftOnce, Foreign
  <2>1. x[1] \in Sockets /\ x[1] # s
    BY <1>1, <1>8 DEF HubData, Subscription
  <2> QED BY <2>1, <1>3, <1>5 DEF OnceInv, LeftOnce
<1> QED BY <1>3, <1>9, <1>10, <1>11, <1>12, <1>13, <1>14 DEF OnceInv, NoEventTwice

LEMMA WriteOnce ==
  ASSUME OnceInv, HubData', Unborn', NEW s \in Sockets, WriteMessage(s) PROVE OnceInv'
<1> DEFINE m == Head(buf[s])
<1>1. HubData
  BY DEF OnceInv
<1>2. /\ m \in Message /\ buf'[s] = Tail(buf[s]) /\ buf[s] # << >>
      /\ \A t \in Sockets : t # s => buf'[t] = buf[t] /\ shown'[t] = shown[t]
      /\ \/ UNCHANGED << shown, twice >>
         \/ /\ shown'[s] = IF m.event = 0 THEN shown[s] ELSE shown[s] \cup {m}
            /\ twice' = IF m \in shown[s] THEN twice \cup {s} ELSE twice
  BY <1>1, WriteEffect DEF history
<1>3. /\ Items(buf[s]) = {m} \cup Items(Tail(buf[s])) /\ Distinct(Tail(buf[s]))
      /\ m.event # 0 => m \notin Items(Tail(buf[s]))
  <2>1. buf[s] \in Seq(Message) /\ Distinct(buf[s])
    BY <1>1 DEF HubData, OnceInv, BufOnce
  <2> QED BY <2>1, <1>2, TailItems
<1>4. m \notin shown[s]
  BY <1>3 DEF OnceInv, BufOnce
<1>5. NoEventTwice'
  BY <1>2, <1>4 DEF OnceInv, NoEventTwice
<1>6. BufOnce'
  BY <1>2, <1>3 DEF OnceInv, BufOnce
<1>7. \A t \in Sockets : Reached(t)' \subseteq Reached(t) \cup {Ready, Resync}
  BY <1>2, <1>3 DEF Reached
<1>8. /\ home' = home /\ events' = events /\ casts' = casts /\ publishing' \subseteq publishing
      /\ bus' = bus
  BY DEF WriteMessage, sockets
<1>9. \A r \in Nodes :
        /\ Items(bus'[r].inbox) \subseteq Items(bus[r].inbox) /\ Distinct(bus'[r].inbox)
        /\ \A x \in bus'[r].left : x \in bus[r].left \/ (x[2] = Resync /\ home[x[1]] = r)
  <2>1. \A r \in Nodes : Distinct(bus[r].inbox)
    BY DEF OnceInv, InboxOnce
  <2> QED BY <1>8, <2>1
<1> QED BY <1>5, <1>6, <1>7, <1>8, <1>9, NothingComesNearer

\* An offer lets nothing but the message come to the connection.
LEMMA OfferReach ==
  ASSUME HubData, BufOnce, NEW s \in Sockets, NEW m \in Message, Offer(s, m), shown' = shown,
         m \notin Reached(s) \/ m.event = 0
  PROVE  /\ BufOnce'
         /\ \A t \in Sockets : t # s => Reached(t)' = Reached(t)
         /\ Reached(s)' \subseteq Reached(s) \cup {m}
<1>1. /\ \A t \in Sockets : t # s => buf'[t] = buf[t]
      /\ buf'[s] = buf[s] \/ buf'[s] = Append(buf[s], m)
  BY OfferEffect
<1>2. buf[s] \in Seq(Message) /\ Distinct(buf[s]) /\ m \notin shown[s]
  <2>1. m.event = 0 => m \notin Event
    BY OnlyEventsNumbered
  <2> QED BY <2>1 DEF HubData, BufOnce, Reached
<1>3. /\ Items(Append(buf[s], m)) = Items(buf[s]) \cup {m}
      /\ m \notin Items(buf[s]) \/ m.event = 0 => Distinct(Append(buf[s], m))
  BY <1>2, AppendItems
<1>4. Items(buf'[s]) \subseteq Items(buf[s]) \cup {m} /\ Distinct(buf'[s])
  BY <1>1, <1>2, <1>3 DEF Reached
<1>5. BufOnce'
  BY <1>1, <1>2, <1>4 DEF BufOnce
<1> QED BY <1>1, <1>4, <1>5 DEF Reached

LEMMA EmitOnce ==
  ASSUME OnceInv, HubData', Unborn', NEW r \in Nodes, NEW g \in Rooms, EmitToRoom(r, g)
  PROVE  OnceInv'
<1>1. HubData
  BY DEF OnceInv
<1> DEFINE m == [event |-> events + 1, room |-> g, origin |-> r]
<1>2. PICK c \in Cast :
        c.message = m /\ c.left \subseteq Members(r, g) /\ casts' = casts \cup {c}
  BY <1>1, EmitEffect
<1>3. /\ m \in Event /\ m.event = events + 1 /\ m.origin = r /\ events \in Nat
      /\ c.message = m /\ casts' = casts \cup {c} /\ events' = events + 1
      /\ UNCHANGED << home, buf, publishing, bus, shown, twice >>
      /\ \A s \in c.left : s \in Sockets /\ home[s] = r
  <2>1. m \in Event /\ events' = events + 1
    BY <1>1, EmitEffect
  <2>2. events \in Nat
    BY <1>1, HubAssumption DEF HubData
  <2>3. UNCHANGED << home, buf, publishing, bus, shown, twice >>
    BY DEF EmitToRoom, sockets
  <2> QED BY <1>2, <2>1, <2>2, <2>3 DEF Members
<1> HIDE DEF m
<1>4. /\ m \notin Sent /\ \A s \in Sockets : m \notin Reached(s)
      /\ \A n \in Nodes : m \notin Items(bus[n].inbox) /\ \A x \in bus[n].left : x[2] # m
  BY <1>3 DEF OnceInv, Numbered
<1>5. Sent' = Sent \cup {m} /\ \A s \in Sockets : Reached(s)' = Reached(s)
  BY <1>3 DEF Sent, Reached
<1>6. Numbered'
  <2>1. \A n \in Sent' : n.event <= events + 1
    <3>1. Sent \subseteq Event
      BY <1>1 DEF Sent, HubData, Cast
    <3> QED BY <3>1, <1>3, <1>5, OnlyEventsNumbered DEF OnceInv, Numbered
  <2>2. ASSUME NEW s \in Sockets, NEW n \in Reached(s) PROVE n.event <= events + 1
    <3>1. n \in Message
      BY <1>1, LenProperties, OnlyEventsNumbered DEF HubData, Reached, Items
    <3> QED BY <3>1, <1>3, OnlyEventsNumbered DEF OnceInv, Numbered
  <2>3. ASSUME NEW n \in Nodes
        PROVE  /\ \A e \in Items(bus[n].inbox) : e.event <= events + 1
               /\ \A x \in bus[n].left : x[2].event <= events + 1
    <3>1. bus[n] \in Subscription
      BY <1>1 DEF HubData
    <3>2. Items(bus[n].inbox) \subseteq Event /\ \A x \in bus[n].left : x[2] \in Message
      BY <3>1, LenProperties DEF Subscription, Items
    <3> QED BY <3>2, <1>3, OnlyEventsNumbered DEF OnceInv, Numbered
  <2> QED BY <2>1, <2>2, <2>3, <1>3, <1>5 DEF Numbered
<1>7. BufOnce' /\ InboxOnce' /\ NoEventTwice'
  BY <1>3, <1>5 DEF OnceInv, BufOnce, InboxOnce, NoEventTwice, Foreign
<1>8. CastOnce'
  <2>1. \A d \in casts : d.message \in Sent /\ \A s \in d.left : s \in Sockets
    BY <1>1 DEF Sent, HubData, Cast
  <2>2. m \notin publishing
    BY <1>4 DEF Sent
  <2> QED BY <2>1, <2>2, <1>3, <1>4, <1>5 DEF OnceInv, CastOnce
<1>9. SentOnce'
  BY <1>3, <1>4, <1>5 DEF OnceInv, SentOnce
<1>10. LeftOnce'
  <2>1. \A n \in Nodes : \A x \in bus[n].left : x[1] \in Sockets
    BY <1>1 DEF HubData, Subscription
  <2> QED BY <2>1, <1>3, <1>5 DEF OnceInv, LeftOnce, Foreign
<1> QED BY <1>6, <1>7, <1>8, <1>9, <1>10 DEF OnceInv

LEMMA BroadcastOnce ==
  ASSUME OnceInv, HubData', Unborn', Broadcast PROVE OnceInv'
<1>1. HubData
  BY DEF OnceInv
<1>2. PICK cast \in casts : \E s \in cast.left :
        /\ Offer(s, cast.message)
        /\ casts' = (casts \ {cast}) \cup {[cast EXCEPT !.left = @ \ {s}]}
  BY DEF Broadcast
<1>3. PICK s \in cast.left :
        /\ Offer(s, cast.message)
        /\ casts' = (casts \ {cast}) \cup {[cast EXCEPT !.left = @ \ {s}]}
  BY <1>2
<1> DEFINE m == cast.message
           rest == [cast EXCEPT !.left = @ \ {s}]
<1>4. /\ s \in Sockets /\ m \in Event /\ m \in Message /\ m # Resync
      /\ rest.message = m /\ rest.left = cast.left \ {s}
  <2>1. cast \in Cast
    BY <1>1 DEF HubData
  <2> QED BY <2>1, OnlyEventsNumbered DEF Cast
<1>5. m \in Sent /\ home[s] = m.origin /\ m \notin Reached(s)
  BY DEF Sent, OnceInv, CastOnce
<1>6. UNCHANGED << home, publishing, bus, events, shown, twice >>
  BY DEF Broadcast, sockets, history
<1>7. casts' = (casts \ {cast}) \cup {rest}
  BY <1>3
<1> HIDE DEF rest
<1>8. /\ BufOnce' /\ \A t \in Sockets : t # s => Reached(t)' = Reached(t)
      /\ Reached(s)' \subseteq Reached(s) \cup {m}
  BY <1>1, <1>3, <1>4, <1>5, <1>6, OfferReach DEF OnceInv
<1>9. Sent' = Sent
  BY <1>4, <1>6, <1>7 DEF Sent
<1>10. Numbered'
  BY <1>5, <1>6, <1>8, <1>9 DEF OnceInv, Numbered
<1>11. CastOnce'
  <2>1. \A c \in casts : \A t \in c.left : t \in Sockets
    BY <1>1 DEF HubData, Cast
  <2>2. \A c \in casts : c # cast => c.message # m
    BY DEF OnceInv, CastOnce
  <2>3. \A c \in casts' : \A d \in casts' : c.message = d.message => c = d
    BY <2>2, <1>4, <1>7 DEF OnceInv, CastOnce
  <2>4. \A c \in casts' : c.message \notin publishing'
    BY <1>4, <1>6, <1>7 DEF OnceInv, CastOnce
  <2>5. ASSUME NEW c \in casts', NEW t \in c.left
        PROVE  home[t] = c.message.origin /\ c.message \notin Reached(t)'
    <3>1. CASE c = rest
      <4>1. t \in cast.left /\ t # s /\ t \in Sockets
        BY <3>1, <2>1, <1>4
      <4> QED BY <4>1, <3>1, <1>4, <1>8 DEF OnceInv, CastOnce
    <3>2. CASE c \in casts /\ c # cast
      BY <3>2, <2>1, <2>2, <1>8 DEF OnceInv, CastOnce
    <3> QED BY <3>1, <3>2, <1>7
  <2> QED BY <2>3, <2>4, <2>5, <1>6 DEF CastOnce
<1>12. SentOnce'
  <2> SUFFICES ASSUME NEW n \in Sent
               PROVE  /\ \A t \in Sockets : home[t] # n.origin => n \notin Reached(t)'
                      /\ \A r \in Nodes : n \notin Items(bus[r].inbox)
                                          /\ \A x \in bus[r].left : x[2] # n
    BY <1>6, <1>9 DEF SentOnce
  <2> QED BY <1>5, <1>8 DEF OnceInv, SentOnce
<1>13. InboxOnce'
  <2>1. \A r \in Nodes : m \notin Items(bus[r].inbox)
    BY <1>5 DEF OnceInv, SentOnce
  <2> QED BY <2>1, <1>6, <1>8 DEF OnceInv, InboxOnce, Foreign
<1>14. LeftOnce'
  <2>1. \A r \in Nodes : \A x \in bus[r].left : x[2] # m /\ x[1] \in Sockets
    BY <1>1, <1>5 DEF OnceInv, SentOnce, HubData, Subscription
  <2> QED BY <2>1, <1>6, <1>8 DEF OnceInv, LeftOnce, Foreign
<1> QED BY <1>6, <1>8, <1>10, <1>11, <1>12, <1>13, <1>14 DEF OnceInv, NoEventTwice

LEMMA BroadcastEndsOnce ==
  ASSUME OnceInv, HubData', Unborn', BroadcastEnds PROVE OnceInv'
<1>1. PICK cast \in casts :
        casts' = casts \ {cast} /\ publishing' = publishing \cup {cast.message}
  BY DEF BroadcastEnds
<1>2. UNCHANGED << home, buf, bus, events, shown, twice >>
  BY DEF BroadcastEnds, sockets, history
<1>3. Sent' = Sent
  <2>1. cast.message \in Sent
    BY DEF Sent
  <2>2. \A c \in casts : c = cast \/ c \in casts'
    BY <1>1
  <2> QED BY <1>1, <2>2 DEF Sent
<1>4. \A s \in Sockets : Reached(s)' = Reached(s)
  BY <1>2 DEF Reached
<1>5. CastOnce'
  <2>1. \A c \in casts : \A s \in c.left : s \in Sockets
    BY DEF OnceInv, HubData, Cast
  <2> QED BY <2>1, <1>1, <1>2, <1>4 DEF OnceInv, CastOnce
<1>6. LeftOnce'
  <2>1. \A r \in Nodes : \A x \in bus[r].left : x[1] \in Sockets
    BY DEF OnceInv, HubData, Subscription
  <2> QED BY <2>1, <1>2, <1>4 DEF OnceInv, LeftOnce, Foreign
<1>7. Numbered' /\ BufOnce' /\ NoEventTwice'
  BY <1>2, <1>3, <1>4 DEF OnceInv, Numbered, BufOnce, NoEventTwice
<1>8. SentOnce'
  BY <1>2, <1>3, <1>4 DEF OnceInv, SentOnce
<1>9. InboxOnce'
  BY <1>2, <1>3, <1>4 DEF OnceInv, InboxOnce, Foreign
<1> QED BY <1>5, <1>6, <1>7, <1>8, <1>9 DEF OnceInv

LEMMA PublishOnce ==
  ASSUME OnceInv, HubData', Unborn', PublishRealtimeEvent PROVE OnceInv'
<1>1. HubData
  BY DEF OnceInv
<1>2. PICK m \in publishing :
        /\ publishing' = publishing \ {m}
        /\ bus' = [r \in Nodes |-> IF r \in live THEN [bus[r] EXCEPT !.inbox = Append(@, m)]
                                      ELSE bus[r]]
  BY DEF PublishRealtimeEvent
<1>3. UNCHANGED << home, buf, casts, events, shown, twice >>
  BY DEF PublishRealtimeEvent, sockets, history
<1>4. m \in Event /\ m \in Sent /\ \A c \in casts : c.message # m
  BY <1>1 DEF HubData, Sent, OnceInv, CastOnce
<1>5. /\ \A s \in Sockets : home[s] # m.origin => m \notin Reached(s)
      /\ \A r \in Nodes : m \notin Items(bus[r].inbox) /\ \A x \in bus[r].left : x[2] # m
  BY <1>4 DEF OnceInv, SentOnce
<1>6. Sent' \subseteq Sent \ {m}
  BY <1>2, <1>3, <1>4 DEF Sent
<1>7. \A s \in Sockets : Reached(s)' = Reached(s)
  BY <1>3 DEF Reached
<1>8. ASSUME NEW r \in Nodes
      PROVE  /\ bus'[r].left = bus[r].left /\ Distinct(bus'[r].inbox)
             /\ Items(bus'[r].inbox) \subseteq Items(bus[r].inbox) \cup {m}
  <2>1. bus[r] \in Subscription /\ Distinct(bus[r].inbox)
    BY <1>1 DEF HubData, OnceInv, InboxOnce
  <2>2. /\ Items(Append(bus[r].inbox, m)) = Items(bus[r].inbox) \cup {m}
        /\ Distinct(Append(bus[r].inbox, m))
    BY <2>1, <1>4, <1>5, AppendItems DEF Subscription
  <2>3. \/ bus'[r] = bus[r]
        \/ bus'[r].left = bus[r].left /\ bus'[r].inbox = Append(bus[r].inbox, m)
    BY <1>2, <2>1 DEF Subscription
  <2> QED BY <2>1, <2>2, <2>3
<1>9. Numbered'
  BY <1>3, <1>4, <1>6, <1>7, <1>8 DEF OnceInv, Numbered
<1>10. CastOnce'
  <2>1. \A c \in casts : \A s \in c.left : s \in Sockets
    BY <1>1 DEF HubData, Cast
  <2> QED BY <2>1, <1>2, <1>3, <1>7 DEF OnceInv, CastOnce
<1>11. SentOnce'
  <2> SUFFICES ASSUME NEW n \in Sent'
               PROVE  /\ \A s \in Sockets : home[s] # n.origin => n \notin Reached(s)
                      /\ \A r \in Nodes : n \notin Items(bus'[r].inbox)
                                          /\ \A x \in bus'[r].left : x[2] # n
    BY <1>3, <1>7 DEF SentOnce
  <2>1. n \in Sent /\ n # m
    BY <1>6
  <2> QED BY <2>1, <1>8 DEF OnceInv, SentOnce
<1>12. InboxOnce'
  <2> SUFFICES ASSUME NEW r \in Nodes, NEW n \in Items(bus'[r].inbox), NEW s \in Sockets,
                      home[s] = r, Foreign(n, r)
               PROVE  n \notin Reached(s) /\ << s, n >> \notin bus'[r].left
    BY <1>3, <1>7, <1>8 DEF InboxOnce, Foreign
  <2>1. CASE n = m
    <3>1. << s, n >>[2] = m
      BY <2>1
    <3> QED BY <2>1, <3>1, <1>5, <1>8 DEF Foreign
  <2>2. CASE n # m
    BY <2>2, <1>8 DEF OnceInv, InboxOnce
  <2> QED BY <2>1, <2>2
<1>13. LeftOnce'
  <2>1. \A r \in Nodes : \A x \in bus[r].left : x[1] \in Sockets
    BY <1>1 DEF HubData, Subscription
  <2> QED BY <2>1, <1>3, <1>7, <1>8 DEF OnceInv, LeftOnce, Foreign
<1>14. BufOnce' /\ NoEventTwice'
  BY <1>3, <1>7 DEF OnceInv, BufOnce, NoEventTwice
<1> QED BY <1>9, <1>10, <1>11, <1>12, <1>13, <1>14 DEF OnceInv

LEMMA PublishFailsOnce ==
  ASSUME OnceInv, HubData', Unborn', PublishFails PROVE OnceInv'
<1>1. publishing' \subseteq publishing
  BY DEF PublishFails
<1>2. UNCHANGED << home, buf, casts, bus, events, shown, twice >>
  BY DEF PublishFails, sockets
<1>3. BufOnce' /\ NoEventTwice' /\ \A s \in Sockets : Reached(s)' = Reached(s)
  BY <1>2 DEF OnceInv, BufOnce, NoEventTwice, Reached
<1>4. \A r \in Nodes :
        /\ Items(bus'[r].inbox) \subseteq Items(bus[r].inbox) /\ Distinct(bus'[r].inbox)
        /\ \A x \in bus'[r].left : x \in bus[r].left \/ (x[2] = Resync /\ home[x[1]] = r)
  BY <1>2 DEF OnceInv, InboxOnce
<1>5. \A s \in Sockets : Reached(s)' \subseteq Reached(s) \cup {Ready, Resync}
  BY <1>3
<1>6. home' = home /\ events' = events /\ casts' = casts
  BY <1>2
<1> QED BY <1>1, <1>3, <1>4, <1>5, <1>6, NothingComesNearer

\* A lost subscription forgets its inbox; a resync hands out no events.
LEMMA LossOnce ==
  ASSUME OnceInv, HubData', Unborn', NEW r \in Nodes, SubscriptionLost(r) \/ ResyncRoom(r)
  PROVE  OnceInv'
<1>1. bus \in [Nodes -> Subscription] /\ \A n \in Nodes : Distinct(bus[n].inbox)
  BY DEF OnceInv, HubData, InboxOnce
<1>2. UNCHANGED << home, buf, casts, publishing, events, shown, twice >>
  BY DEF SubscriptionLost, ResyncRoom, BusStays, sockets, history
<1>3. BufOnce' /\ NoEventTwice' /\ \A s \in Sockets : Reached(s)' = Reached(s)
  BY <1>2 DEF OnceInv, BufOnce, NoEventTwice, Reached
<1>4. Items(<< >>) = {} /\ Distinct(<< >>)
  BY DEF Items, Distinct
<1>5. /\ \A n \in Nodes : n # r => bus'[n] = bus[n]
      /\ bus'[r].inbox = bus[r].inbox \/ bus'[r].inbox = << >>
      /\ \A x \in bus'[r].left : x \in bus[r].left \/ (x[2] = Resync /\ home[x[1]] = r)
  <2>1. CASE SubscriptionLost(r)
    BY <2>1, <1>1 DEF SubscriptionLost, Subscription
  <2>2. ASSUME NEW g \in bus[r].rooms,
               bus' = [bus EXCEPT ![r].rooms = @ \ {g}, ![r].left = Members(r, g) \X {Resync}]
        PROVE  /\ \A n \in Nodes : n # r => bus'[n] = bus[n]
               /\ bus'[r].inbox = bus[r].inbox
               /\ \A x \in bus'[r].left : x[2] = Resync /\ home[x[1]] = r
    BY <2>2, <1>1 DEF Subscription, Members
  <2>3. ASSUME bus' = [bus EXCEPT ![r].step = "receiving"]
        PROVE  /\ \A n \in Nodes : n # r => bus'[n] = bus[n]
               /\ bus'[r].inbox = bus[r].inbox /\ bus'[r].left = bus[r].left
    BY <2>3, <1>1 DEF Subscription
  <2> QED BY <2>1, <2>2, <2>3 DEF ResyncRoom
<1>6. \A n \in Nodes :
        /\ Items(bus'[n].inbox) \subseteq Items(bus[n].inbox) /\ Distinct(bus'[n].inbox)
        /\ \A x \in bus'[n].left : x \in bus[n].left \/ (x[2] = Resync /\ home[x[1]] = n)
  BY <1>1, <1>4, <1>5
<1>7. \A s \in Sockets : Reached(s)' \subseteq Reached(s) \cup {Ready, Resync}
  BY <1>3
<1>8. home' = home /\ events' = events /\ casts' = casts /\ publishing' \subseteq publishing
  BY <1>2
<1> QED BY <1>3, <1>6, <1>7, <1>8, NothingComesNearer

LEMMA HandleOnce ==
  ASSUME OnceInv, HubData', Unborn', NEW r \in Nodes, HandleBusMessage(r) PROVE OnceInv'
<1> DEFINE m == Head(bus[r].inbox)
<1>1. HubData /\ bus[r] \in Subscription /\ bus[r].inbox # << >> /\ bus[r].left = {}
  BY DEF OnceInv, HubData, HandleBusMessage
<1>2. /\ m \in Event /\ Items(bus[r].inbox) = {m} \cup Items(Tail(bus[r].inbox))
      /\ Distinct(Tail(bus[r].inbox)) /\ m \notin Items(Tail(bus[r].inbox))
  <2>1. bus[r].inbox \in Seq(Event) /\ Distinct(bus[r].inbox)
    BY <1>1 DEF Subscription, OnceInv, InboxOnce
  <2> QED BY <2>1, <1>1, TailItems, OnlyEventsNumbered
<1>3. UNCHANGED << home, buf, casts, publishing, events, shown, twice >>
  BY DEF HandleBusMessage, BusStays, sockets, history
<1>4. /\ \A n \in Nodes : n # r => bus'[n] = bus[n]
      /\ bus'[r].inbox = Tail(bus[r].inbox)
      /\ bus'[r].left = IF Foreign(m, r) THEN Members(r, m.room) \X {m} ELSE {}
  BY <1>1 DEF HandleBusMessage, HubData, Subscription
<1> HIDE DEF m
<1>5. \A x \in bus'[r].left : /\ x[1] \in Sockets /\ home[x[1]] = r /\ x[2] = m
                              /\ Foreign(m, r)
  BY <1>4 DEF Members
<1>6. Sent' = Sent /\ \A s \in Sockets : Reached(s)' = Reached(s)
  BY <1>3 DEF Sent, Reached
<1>7. m \in Items(bus[r].inbox) /\ \A n \in Sent : n # m
  BY <1>2 DEF OnceInv, SentOnce
<1>8. Numbered'
  BY <1>2, <1>3, <1>4, <1>5, <1>6, <1>7 DEF OnceInv, Numbered
<1>9. CastOnce'
  <2>1. \A c \in casts : \A s \in c.left : s \in Sockets
    BY <1>1 DEF HubData, Cast
  <2> QED BY <2>1, <1>3, <1>6 DEF OnceInv, CastOnce
<1>10. SentOnce'
  <2> SUFFICES ASSUME NEW n \in Sent
               PROVE  /\ \A s \in Sockets : home[s] # n.origin => n \notin Reached(s)
                      /\ \A i \in Nodes : n \notin Items(bus'[i].inbox)
                                          /\ \A x \in bus'[i].left : x[2] # n
    BY <1>3, <1>6 DEF SentOnce
  <2> QED BY <1>2, <1>4, <1>5, <1>7 DEF OnceInv, SentOnce
<1>11. InboxOnce'
  <2> SUFFICES ASSUME NEW i \in Nodes
               PROVE  /\ Distinct(bus'[i].inbox)
                      /\ \A n \in Items(bus'[i].inbox) : \A s \in Sockets :
                           home[s] = i /\ Foreign(n, i) =>
                             n \notin Reached(s) /\ << s, n >> \notin bus'[i].left
    BY <1>3, <1>6 DEF InboxOnce, Foreign
  <2>1. CASE i # r
    BY <2>1, <1>4 DEF OnceInv, InboxOnce
  <2>2. CASE i = r
    <3>1. ASSUME NEW n \in Items(bus'[r].inbox), NEW s \in Sockets
          PROVE  << s, n >> \notin bus'[r].left
      <4>1. n # m /\ << s, n >>[2] = n
        BY <1>2, <1>4
      <4> QED BY <4>1, <1>5
    <3> QED BY <2>2, <3>1, <1>2, <1>4 DEF OnceInv, InboxOnce
  <2> QED BY <2>1, <2>2
<1>12. LeftOnce'
  <2> SUFFICES ASSUME NEW i \in Nodes, NEW x \in bus'[i].left
               PROVE  /\ home[x[1]] = i
                      /\ \/ x[2] = Resync
                         \/ x[2] \in Event /\ Foreign(x[2], i) /\ x[2] \notin Reached(x[1])'
    BY <1>3 DEF LeftOnce, Foreign
  <2>1. CASE i # r
    <3>1. x \in bus[i].left /\ x[1] \in Sockets
      BY <2>1, <1>1, <1>4 DEF HubData, Subscription
    <3> QED BY <3>1, <1>6 DEF OnceInv, LeftOnce
  <2>2. CASE i = r
    <3>1. x[1] \in Sockets /\ home[x[1]] = r /\ x[2] = m /\ Foreign(m, r)
      BY <2>2, <1>5
    <3>2. m \notin Reached(x[1])
      BY <3>1, <1>7 DEF OnceInv, InboxOnce
    <3> QED BY <2>2, <3>1, <3>2, <1>2, <1>6
  <2> QED BY <2>1, <2>2
<1>13. BufOnce' /\ NoEventTwice'
  BY <1>3, <1>6 DEF OnceInv, BufOnce, NoEventTwice
<1> QED BY <1>8, <1>9, <1>10, <1>11, <1>12, <1>13 DEF OnceInv

LEMMA BusBroadcastOnce ==
  ASSUME OnceInv, HubData', Unborn', NEW r \in Nodes, BusBroadcast(r) PROVE OnceInv'
<1>1. HubData /\ bus[r] \in Subscription
  BY DEF OnceInv, HubData
<1>2. PICK next \in bus[r].left :
        Offer(next[1], next[2]) /\ bus' = [bus EXCEPT ![r].left = @ \ {next}]
  BY DEF BusBroadcast
<1> DEFINE s == next[1]
           m == next[2]
<1>3. /\ s \in Sockets /\ m \in Message /\ next = << s, m >> /\ home[s] = r
      /\ \/ m = Resync /\ m.event = 0
         \/ m \in Event /\ Foreign(m, r) /\ m \notin Reached(s)
  BY <1>1, OnlyEventsNumbered DEF Subscription, OnceInv, LeftOnce
<1>4. UNCHANGED << home, casts, publishing, events, shown, twice >>
  BY DEF BusBroadcast, BusStays, sockets, history
<1>5. /\ \A n \in Nodes : n # r => bus'[n] = bus[n]
      /\ bus'[r].inbox = bus[r].inbox /\ bus'[r].left = bus[r].left \ {next}
  BY <1>1, <1>2 DEF HubData, Subscription
<1> HIDE DEF s, m
<1>6. /\ BufOnce' /\ \A t \in Sockets : t # s => Reached(t)' = Reached(t)
      /\ Reached(s)' \subseteq Reached(s) \cup {m}
  BY <1>1, <1>2, <1>3, <1>4, OfferReach DEF OnceInv, s, m
<1>7. NoEventTwice'
  BY <1>4 DEF OnceInv, NoEventTwice
<1>8. CASE m = Resync
  <2>1. \A t \in Sockets : Reached(t)' \subseteq Reached(t) \cup {Ready, Resync}
    BY <1>6, <1>8
  <2>2. \A n \in Nodes :
          /\ Items(bus'[n].inbox) \subseteq Items(bus[n].inbox) /\ Distinct(bus'[n].inbox)
          /\ \A x \in bus'[n].left : x \in bus[n].left \/ (x[2] = Resync /\ home[x[1]] = n)
    <3>1. \A n \in Nodes : Distinct(bus[n].inbox)
      BY DEF OnceInv, InboxOnce
    <3> QED BY <3>1, <1>5
  <2>3. home' = home /\ events' = events /\ casts' = casts /\ publishing' \subseteq publishing
    BY <1>4
  <2> QED BY <2>1, <2>2, <2>3, <1>6, <1>7, NothingComesNearer
<1>9. CASE m \in Event /\ Foreign(m, r) /\ m \notin Reached(s)
  <2>1. Sent' = Sent
    BY <1>4 DEF Sent
  <2>2. next \in bus[r].left /\ next[2] = m /\ next[1] = s
    BY DEF s, m
  <2>3. \A n \in Sent : n # m
    BY <2>2 DEF OnceInv, SentOnce
  <2>4. m \notin Items(bus[r].inbox)
    BY <1>3, <1>9, <2>2 DEF OnceInv, InboxOnce
  <2>5. Numbered'
    <3>1. m.event <= events
      BY <2>2 DEF OnceInv, Numbered
    <3> QED BY <3>1, <2>1, <1>4, <1>5, <1>6 DEF OnceInv, Numbered
  <2>6. CastOnce'
    <3>1. \A c \in casts : c.message \in Sent /\ \A t \in c.left : t \in Sockets
      BY <1>1 DEF HubData, Cast, Sent
    <3> QED BY <3>1, <2>3, <1>4, <1>6 DEF OnceInv, CastOnce
  <2>7. SentOnce'
    <3> SUFFICES ASSUME NEW n \in Sent
                 PROVE  /\ \A t \in Sockets : home[t] # n.origin => n \notin Reached(t)'
                        /\ \A i \in Nodes : n \notin Items(bus'[i].inbox)
                                            /\ \A x \in bus'[i].left : x[2] # n
      BY <2>1, <1>4 DEF SentOnce
    <3> QED BY <2>3, <1>5, <1>6 DEF OnceInv, SentOnce
  <2>8. InboxOnce'
    <3> SUFFICES ASSUME NEW i \in Nodes, NEW n \in Items(bus[i].inbox), NEW t \in Sockets,
                        home[t] = i, Foreign(n, i)
                 PROVE  n \notin Reached(t)' /\ << t, n >> \notin bus'[i].left
      BY <1>4, <1>5 DEF OnceInv, InboxOnce, Foreign
    <3>1. n \notin Reached(t) /\ << t, n >> \notin bus[i].left
      BY DEF OnceInv, InboxOnce
    <3>2. t = s => i = r /\ n # m
      BY <1>3, <2>4
    <3> QED BY <3>1, <3>2, <1>5, <1>6
  <2>9. LeftOnce'
    <3> SUFFICES ASSUME NEW i \in Nodes, NEW x \in bus'[i].left
                 PROVE  /\ home[x[1]] = i
                        /\ \/ x[2] = Resync
                           \/ x[2] \in Event /\ Foreign(x[2], i) /\ x[2] \notin Reached(x[1])'
      BY <1>4 DEF LeftOnce, Foreign
    <3>1. x \in bus[i].left /\ x[1] \in Sockets /\ x = << x[1], x[2] >>
      <4>1. x \in bus[i].left
        BY <1>5
      <4>2. bus[i] \in Subscription
        BY <1>1 DEF HubData
      <4> QED BY <4>1, <4>2 DEF Subscription
    <3>2. x[1] = s => x[2] # m
      <4> SUFFICES ASSUME x[1] = s, x[2] = m PROVE FALSE
        OBVIOUS
      <4>1. i = r
        BY <3>1, <1>3 DEF OnceInv, LeftOnce
      <4>2. x = next
        BY <3>1, <1>3
      <4> QED BY <4>1, <4>2, <1>5
    <3> QED BY <3>1, <3>2, <1>6 DEF OnceInv, LeftOnce
  <2> QED BY <2>5, <2>6, <2>7, <2>8, <2>9, <1>6, <1>7 DEF OnceInv
<1> QED BY <1>3, <1>8, <1>9

LEMMA OnceInit == HubInit => OnceInv
<1> SUFFICES ASSUME HubInit PROVE OnceInv
  OBVIOUS
<1>1. Items(<< >>) = {} /\ Distinct(<< >>)
  BY DEF Items, Distinct
<1>2. /\ Sent = {} /\ casts = {}
      /\ \A s \in Sockets : buf[s] = << >> /\ shown[s] = {} /\ owed[s] = {} /\ member[s] = {}
                            /\ reader[s] = "none"
      /\ \A r \in Nodes : bus[r].inbox = << >> /\ bus[r].left = {}
      /\ hub = {} /\ twice = {}
  BY DEF HubInit, Sent
<1>3. \A s \in Sockets : Reached(s) = {}
  BY <1>1, <1>2 DEF Reached
<1>4. HubData /\ Unborn
  BY <1>2, HubDataInit DEF Unborn
<1>5. Numbered
  BY <1>1, <1>2, <1>3 DEF Numbered
<1>6. BufOnce
  BY <1>1, <1>2 DEF BufOnce
<1>7. CastOnce /\ SentOnce
  BY <1>2 DEF CastOnce, SentOnce
<1>8. InboxOnce /\ LeftOnce /\ NoEventTwice
  BY <1>1, <1>2 DEF InboxOnce, LeftOnce, NoEventTwice
<1> QED BY <1>4, <1>5, <1>6, <1>7, <1>8 DEF OnceInv

LEMMA OnceStep == OnceInv /\ [HubNext]_hubVars => OnceInv'
<1> SUFFICES ASSUME OnceInv, [HubNext]_hubVars PROVE OnceInv'
  OBVIOUS
<1>1. HubData'
  BY HubDataStep DEF OnceInv
<1>2. CASE UNCHANGED hubVars
  <2>1. Unborn'
    BY <1>2 DEF hubVars, OnceInv, Unborn
  <2> QED BY <1>1, <1>2, <2>1, QueuesStay DEF hubVars
<1>3. CASE HubNext
  <2>1. Unborn'
    BY <1>3, UnbornStep
  <2> USE <1>1, <2>1
  <2>2. ASSUME NEW s \in Sockets,
               \/ ReadPumpEnds(s) \/ HandlerReturns(s) \/ WritePumpEnds(s)
               \/ DropSlowClient(s) \/ PeerVanishes(s)
               \/ \E g \in Rooms : Join(s, g) \/ Leave(s, g)
        PROVE  OnceInv'
    <3>1. UNCHANGED << home, buf, shown, twice, casts, publishing, events, bus >>
      BY <2>2 DEF ReadPumpEnds, HandlerReturns, WritePumpEnds, DropSlowClient, PeerVanishes,
           Join, Leave, sockets, history
    <3> QED BY <3>1, QueuesStay
  <2>3. ASSUME NEW r \in Nodes, Subscribe(r) \/ ListLocalRooms(r) \/ SubscriptionBreaks(r)
        PROVE  OnceInv'
    <3>1. UNCHANGED << home, buf, shown, twice, casts, publishing, events >>
      BY <2>3 DEF Subscribe, ListLocalRooms, SubscriptionBreaks, BusStays, sockets, history
    <3>2. \A n \in Nodes : bus'[n].inbox = bus[n].inbox /\ bus'[n].left = bus[n].left
      <4>1. bus \in [Nodes -> Subscription]
        BY DEF OnceInv, HubData
      <4>2. CASE Subscribe(r)
        BY <4>1, <4>2 DEF Subscribe, Subscription
      <4>3. CASE ListLocalRooms(r)
        BY <4>1, <4>3 DEF ListLocalRooms, Subscription
      <4>4. CASE SubscriptionBreaks(r)
        BY <4>4 DEF SubscriptionBreaks
      <4> QED BY <2>3, <4>2, <4>3, <4>4
    <3> QED BY <3>1, <3>2, QueuesStay
  <2> QED BY <2>2, <2>3, <1>3, AcceptOnce, WriteOnce, EmitOnce, BroadcastOnce, BroadcastEndsOnce,
             PublishOnce, PublishFailsOnce, LossOnce, HandleOnce, BusBroadcastOnce
          DEF HubNext, HubSteps, HubFaults
<1> QED BY <1>2, <1>3
-----------------------------------------------------------------------------
(* Nobody is left behind.                                                   *)

\* Leaving a room, or the hub, pays off what is owed for it.
LEMMA OwedStep == OnceInv /\ OwedIsDue /\ HubNext => OwedIsDue'
<1> USE DEF sockets, history, BusStays
<1> SUFFICES ASSUME OnceInv, OwedIsDue, HubNext, NEW s \in hub', NEW m \in owed'[s]
             PROVE  m.room \in member'[s] /\ (Foreign(m, home'[s]) => ~ bus'[home'[s]].first)
  BY DEF OwedIsDue, Foreign
<1> DEFINE Due1 == m.room \in member'[s] /\ (Foreign(m, home'[s]) => ~ bus'[home'[s]].first)
<1>1. HubData /\ HubData' /\ s \in Sockets
  BY HubDataStep DEF OnceInv, HubData
<1>2. s \in hub /\ m \in owed[s] =>
        m.room \in member[s] /\ (Foreign(m, home[s]) => ~ bus[home[s]].first)
  BY DEF OwedIsDue
<1>3. s \in hub => home[s] \in Nodes
  BY <1>1 DEF HubData, OnceInv, Unborn
<1>4. ASSUME NEW t \in Sockets, Accept(t) PROVE Due1
  <2>1. t # s
    BY <1>1, <1>4 DEF Accept, OnceInv, Unborn
  <2> QED BY <1>1, <1>2, <1>4, <2>1 DEF Accept, HubData
<1>5. ASSUME NEW t \in Sockets, NEW g \in Rooms, Join(t, g) \/ Leave(t, g) PROVE Due1
  <2>1. CASE Join(t, g)
    <3>1. member[s] \subseteq member'[s]
      BY <2>1, <1>1 DEF Join, HubData
    <3> QED BY <1>2, <2>1, <3>1 DEF Join
  <2>2. CASE Leave(t, g)
    <3>1. m \in owed[s] /\ (t = s => m.room # g) /\ s \in hub
      BY <2>2, <1>1 DEF Leave, HubData
    <3>2. m.room \in member[s] => m.room \in member'[s]
      BY <2>2, <3>1, <1>1 DEF Leave, HubData
    <3> QED BY <1>2, <2>2, <3>1, <3>2 DEF Leave
  <2> QED BY <1>5, <2>1, <2>2
<1>6. ASSUME NEW t \in Sockets, ReadPumpEnds(t) \/ DropSlowClient(t) PROVE Due1
  <2>1. Unregister(t) /\ UNCHANGED << home, bus, owed >>
    BY <1>6 DEF ReadPumpEnds, DropSlowClient
  <2>2. t # s /\ s \in hub /\ member'[s] = member[s]
    BY <2>1, <1>1 DEF Unregister, HubData
  <2> QED BY <1>2, <2>1, <2>2
<1>7. ASSUME NEW t \in Sockets, HandlerReturns(t) \/ WritePumpEnds(t) \/ PeerVanishes(t)
      PROVE  Due1
  BY <1>2, <1>7 DEF HandlerReturns, WritePumpEnds, PeerVanishes
<1>8. ASSUME NEW t \in Sockets, WriteMessage(t) PROVE Due1
  <2>1. m \in owed[s]
    BY <1>1, <1>8, WriteEffect
  <2> QED BY <1>2, <1>8, <2>1 DEF WriteMessage
<1>9. ASSUME NEW r \in Nodes, NEW g \in Rooms, EmitToRoom(r, g) PROVE Due1
  <2> DEFINE e == [event |-> events + 1, room |-> g, origin |-> r]
  <2>1. \/ m \in owed[s]
        \/ /\ m = e /\ s \in hub /\ g \in member[s]
           /\ home[s] = r \/ ~ bus[home[s]].first
    <3>1. PICK except \in {Nowhere} \cup {t \in Sockets : home[t] = r} :
            owed' = [t \in Sockets |->
                      IF /\ t \in hub /\ g \in member[t] /\ t # except
                         /\ home[t] = r \/ ~ bus[home[t]].first
                      THEN owed[t] \cup {e} ELSE owed[t]]
      BY <1>9 DEF EmitToRoom
    <3>2. owed'[s] = IF /\ s \in hub /\ g \in member[s] /\ s # except
                        /\ home[s] = r \/ ~ bus[home[s]].first
                     THEN owed[s] \cup {e} ELSE owed[s]
      BY <1>1, <3>1, Zenon
    <3> HIDE DEF e
    <3> QED BY <3>2
  <2>0. UNCHANGED << home, hub, member, bus >>
    BY <1>9 DEF EmitToRoom
  <2>2. CASE m \in owed[s]
    BY <1>2, <2>0, <2>2
  <2>3. CASE m \notin owed[s]
    <3>1. g \in member[s] /\ (home[s] = r \/ ~ bus[home[s]].first) /\ m = e
      BY <1>1, <2>1, <2>3
    <3>2. m.room = g /\ m.origin = r
      BY <3>1
    <3> QED BY <2>0, <3>1, <3>2 DEF Foreign
  <2> QED BY <2>2, <2>3
<1>10. CASE Broadcast \/ BroadcastEnds
  BY <1>2, <1>10 DEF Broadcast, BroadcastEnds
<1>11. CASE PublishRealtimeEvent
  <2>1. s \in hub /\ m \in owed[s] /\ UNCHANGED << home, member >>
    BY <1>11 DEF PublishRealtimeEvent
  <2>2. bus'[home[s]].first = bus[home[s]].first
    BY <1>1, <1>3, <1>11, <2>1 DEF PublishRealtimeEvent, HubData, Subscription
  <2> QED BY <1>2, <2>1, <2>2
<1>12. CASE PublishFails
  <2>1. m \in owed[s]
    BY <1>1, <1>12 DEF PublishFails
  <2> QED BY <1>2, <1>12, <2>1 DEF PublishFails
<1>13. ASSUME NEW r \in Nodes,
              \/ Subscribe(r) \/ ListLocalRooms(r) \/ ResyncRoom(r) \/ HandleBusMessage(r)
              \/ BusBroadcast(r) \/ SubscriptionBreaks(r) \/ SubscriptionLost(r)
       PROVE  Due1
  <2>1. s \in hub /\ m \in owed[s] /\ UNCHANGED << home, member >>
    BY <1>13 DEF Subscribe, ListLocalRooms, ResyncRoom, HandleBusMessage, BusBroadcast,
         SubscriptionBreaks, SubscriptionLost
  <2>2. bus \in [Nodes -> Subscription]
    BY <1>1 DEF HubData
  <2>3. ASSUME NEW n \in Nodes PROVE bus'[n].first => bus[n].first
    <3>1. CASE Subscribe(r)
      BY <2>2, <3>1 DEF Subscribe, Subscription
    <3>2. CASE ListLocalRooms(r)
      BY <2>2, <3>2 DEF ListLocalRooms, Subscription
    <3>3. CASE ResyncRoom(r)
      <4>1. bus[r] \in Subscription /\ bus[n] \in Subscription
        BY <2>2
      <4>2. ASSUME NEW g \in Rooms,
                   bus' = [bus EXCEPT ![r].rooms = @ \ {g}, ![r].left = Members(r, g) \X {Resync}]
            PROVE  bus'[n].first = bus[n].first
        BY <2>2, <4>1, <4>2 DEF Subscription
      <4>3. ASSUME bus' = [bus EXCEPT ![r].step = "receiving"]
            PROVE  bus'[n].first = bus[n].first
        BY <2>2, <4>1, <4>3 DEF Subscription
      <4>4. bus[r].rooms \subseteq Rooms
        BY <4>1 DEF Subscription
      <4> QED BY <3>3, <4>2, <4>3, <4>4 DEF ResyncRoom
    <3>4. CASE HandleBusMessage(r)
      BY <2>2, <3>4 DEF HandleBusMessage, Subscription
    <3>5. CASE BusBroadcast(r)
      BY <2>2, <3>5 DEF BusBroadcast, Subscription
    <3>6. CASE SubscriptionBreaks(r)
      BY <3>6 DEF SubscriptionBreaks
    <3>7. CASE SubscriptionLost(r)
      BY <2>2, <3>7 DEF SubscriptionLost, Subscription
    <3> QED BY <1>13, <3>1, <3>2, <3>3, <3>4, <3>5, <3>6, <3>7
  <2> QED BY <1>2, <1>3, <2>1, <2>3
<1> QED BY <1>4, <1>5, <1>6, <1>7, <1>8, <1>9, <1>10, <1>11, <1>12, <1>13
        DEF HubNext, HubSteps, HubFaults

\* What is coming still comes if nothing is taken away on its ways.
LEMMA StillComing ==
  ASSUME NEW s \in Sockets, NEW m, Coming(s, m),
         home'[s] = home[s], casts' = casts, publishing' = publishing,
         bus'[home[s]] = bus[home[s]], home[s] \notin live => home[s] \notin live',
         s \in dropping => s \in dropping',
         m \in Items(buf[s]) => m \in Items(buf'[s]),
         Resync \in Items(buf[s]) => Resync \in Items(buf'[s])
  PROVE  Coming(s, m)'
<1>1. Sent' = Sent
  BY DEF Sent
<1> QED BY <1>1 DEF Coming, OnTheBus, ResyncComing, Foreign

\* An offer to anybody takes nothing out of a queue.
LEMMA OfferKeeps ==
  ASSUME HubData, NEW t \in Sockets, NEW m \in Message, Offer(t, m)
  PROVE  /\ dropping \subseteq dropping'
         /\ \A s \in Sockets : Items(buf[s]) \subseteq Items(buf'[s])
         /\ t \in hub => t \in dropping' \/ m \in Items(buf'[t])
<1>1. buf[t] \in Seq(Message)
  BY DEF HubData
<1>2. Items(Append(buf[t], m)) = Items(buf[t]) \cup {m}
  BY <1>1, AppendItems
<1>3. /\ dropping \subseteq dropping' /\ \A s \in Sockets : s # t => buf'[s] = buf[s]
      /\ buf'[t] = buf[t] \/ buf'[t] = Append(buf[t], m)
      /\ t \in hub => t \in dropping' \/ buf'[t] = Append(buf[t], m)
  BY OfferEffect
<1> QED BY <1>2, <1>3

\* The connection's own steps.
LEMMA ComingAtConnection ==
  ASSUME OnceInv, NobodyForgotten, NEW t \in Sockets,
         \/ Accept(t) \/ ReadPumpEnds(t) \/ HandlerReturns(t) \/ WritePumpEnds(t)
         \/ DropSlowClient(t) \/ PeerVanishes(t) \/ WriteMessage(t)
         \/ \E g \in Rooms : Join(t, g) \/ Leave(t, g)
  PROVE  NobodyForgotten'
<1> USE DEF sockets, history
<1> SUFFICES ASSUME NEW s \in hub' \cap opened' \cap peer', NEW m \in owed'[s]
             PROVE  Coming(s, m)'
  BY DEF NobodyForgotten
<1>1. HubData /\ HubData' /\ s \in Sockets
  BY ConnectionData, WriteEffect DEF OnceInv, HubData
<1>2. UNCHANGED << casts, publishing, bus, live >>
  BY DEF Accept, ReadPumpEnds, HandlerReturns, WritePumpEnds, DropSlowClient, PeerVanishes,
       WriteMessage, Join, Leave
<1>3. s \in hub \cap opened \cap peer /\ m \in owed[s] => Coming(s, m)
  BY DEF NobodyForgotten
<1>4. CASE Accept(t)
  <2>1. t # s
    BY <1>1, <1>4 DEF Accept, OnceInv, Unborn
  <2>2. /\ s \in hub \cap opened \cap peer /\ m \in owed[s] /\ home'[s] = home[s]
        /\ buf'[s] = buf[s] /\ dropping' = dropping
    BY <1>1, <1>4, <2>1 DEF Accept, HubData
  <2> QED BY <1>1, <1>2, <1>3, <2>2, StillComing
<1>5. CASE ReadPumpEnds(t) \/ DropSlowClient(t)
  <2>1. Unregister(t)
    BY <1>5 DEF ReadPumpEnds, DropSlowClient
  <2>2. t # s /\ s \in hub
    BY <2>1 DEF Unregister
  <2>3. /\ s \in hub \cap opened \cap peer /\ m \in owed[s] /\ home' = home
        /\ buf' = buf /\ (s \in dropping => s \in dropping')
    BY <1>5, <2>2 DEF ReadPumpEnds, DropSlowClient
  <2> QED BY <1>1, <1>2, <1>3, <2>3, StillComing
<1>6. CASE HandlerReturns(t) \/ WritePumpEnds(t) \/ PeerVanishes(t)
  <2>1. /\ s \in hub \cap opened \cap peer /\ m \in owed[s] /\ home' = home
        /\ buf' = buf /\ dropping' = dropping
    BY <1>6 DEF HandlerReturns, WritePumpEnds, PeerVanishes
  <2> QED BY <1>1, <1>2, <1>3, <2>1, StillComing
<1>7. ASSUME NEW g \in Rooms, Join(t, g) \/ Leave(t, g) PROVE Coming(s, m)'
  <2>1. /\ s \in hub \cap opened \cap peer /\ home' = home
        /\ buf' = buf /\ dropping' = dropping
    BY <1>7 DEF Join, Leave
  <2>2. m \in owed[s]
    <3>1. CASE Join(t, g)
      BY <3>1 DEF Join
    <3>2. CASE Leave(t, g)
      BY <1>1, <3>2 DEF Leave, HubData
    <3> QED BY <1>7, <3>1, <3>2
  <2> QED BY <1>1, <1>2, <1>3, <2>1, <2>2, StillComing
<1>8. CASE WriteMessage(t)
  <2>1. s \in hub \cap opened \cap peer /\ home' = home /\ dropping' = dropping
    BY <1>8 DEF WriteMessage
  <2>2. CASE t # s
    <3>1. buf'[s] = buf[s] /\ owed'[s] = owed[s]
      BY <1>1, <1>8, <2>2, WriteEffect
    <3> QED BY <1>1, <1>2, <1>3, <2>1, <3>1, StillComing
  <2>3. CASE t = s
    <3> DEFINE k == Head(buf[s])
    <3>1. /\ buf'[s] = Tail(buf[s]) /\ buf[s] # << >>
          /\ owed'[s] = IF k = Resync THEN {} ELSE owed[s] \ {k}
      BY <1>1, <1>8, <2>1, <2>3, WriteEffect
    <3>2. Items(buf[s]) = {k} \cup Items(buf'[s])
      BY <1>1, <3>1, TailItems DEF HubData
    <3>3. k # Resync /\ m # k /\ m \in owed[s]
      BY <3>1
    <3> HIDE DEF k
    <3> QED BY <1>1, <1>2, <1>3, <2>1, <3>2, <3>3, StillComing
  <2> QED BY <2>2, <2>3
<1> QED BY <1>4, <1>5, <1>6, <1>7, <1>8

\* Emitting, broadcasting and publishing.
LEMMA ComingOfEvents ==
  ASSUME OnceInv, NobodyForgotten,
         \/ \E r \in Nodes : \E g \in Rooms : EmitToRoom(r, g)
         \/ Broadcast \/ BroadcastEnds \/ PublishRealtimeEvent \/ PublishFails
  PROVE  NobodyForgotten'
<1> USE DEF sockets, history
<1> SUFFICES ASSUME NEW s \in hub' \cap opened' \cap peer', NEW m \in owed'[s]
             PROVE  Coming(s, m)'
  BY DEF NobodyForgotten
<1>1. s \in hub \cap opened \cap peer /\ UNCHANGED << home, live >>
  BY DEF EmitToRoom, Broadcast, BroadcastEnds, PublishRealtimeEvent, PublishFails
<1>2. HubData /\ s \in Sockets /\ home[s] \in Nodes
  BY <1>1 DEF OnceInv, HubData, Unborn
<1>3. m \in owed[s] => Coming(s, m)
  BY <1>1 DEF NobodyForgotten
<1>4. ASSUME NEW r \in Nodes, NEW g \in Rooms, EmitToRoom(r, g) PROVE Coming(s, m)'
  <2> DEFINE e == [event |-> events + 1, room |-> g, origin |-> r]
  <2>1. PICK c \in Cast :
          /\ c.message = e /\ casts' = casts \cup {c}
          /\ \A t \in Sockets : \A n \in owed'[t] :
               \/ n \in owed[t]
               \/ /\ n = e /\ t \in hub /\ g \in member[t]
                  /\ IF home[t] = r THEN t \in c.left ELSE ~ bus[home[t]].first
    BY <1>2, <1>4, EmitEffect
  <2>2. UNCHANGED << buf, dropping, publishing, bus, live, home >>
    BY <1>4 DEF EmitToRoom
  <2>3. e.origin = r /\ Sent' = Sent \cup {e}
    BY <2>1, <2>2 DEF Sent
  <2> HIDE DEF e
  <2>4. CASE m \in owed[s]
    <3>1. Sent \subseteq Sent' /\ casts \subseteq casts'
      BY <2>1, <2>3
    <3> QED BY <1>3, <2>2, <2>4, <3>1 DEF Coming, OnTheBus, ResyncComing, Foreign
  <2>5. CASE m \notin owed[s]
    <3>1. m = e /\ (home[s] = r => s \in c.left)
      BY <1>2, <2>1, <2>5
    <3>2. CASE home[s] = r
      BY <2>1, <2>2, <2>3, <3>1, <3>2 DEF Coming, Foreign
    <3>3. CASE home[s] # r
      BY <2>2, <2>3, <3>1, <3>3 DEF Coming, Foreign, OnTheBus
    <3> QED BY <3>2, <3>3
  <2> QED BY <2>4, <2>5
<1>5. CASE Broadcast
  <2>1. PICK cast \in casts : \E t \in cast.left :
          /\ Offer(t, cast.message)
          /\ casts' = (casts \ {cast}) \cup {[cast EXCEPT !.left = @ \ {t}]}
    BY <1>5 DEF Broadcast
  <2>2. PICK t \in cast.left :
          /\ Offer(t, cast.message)
          /\ casts' = (casts \ {cast}) \cup {[cast EXCEPT !.left = @ \ {t}]}
    BY <2>1
  <2> DEFINE rest == [cast EXCEPT !.left = @ \ {t}]
  <2>3. /\ t \in Sockets /\ cast.message \in Message
        /\ rest.message = cast.message /\ rest.left = cast.left \ {t}
    BY <1>2, OnlyEventsNumbered DEF HubData, Cast
  <2>4. casts' = (casts \ {cast}) \cup {rest} /\ UNCHANGED << publishing, bus, owed >>
    BY <1>5, <2>2 DEF Broadcast
  <2>5. /\ dropping \subseteq dropping' /\ Items(buf[s]) \subseteq Items(buf'[s])
        /\ t = s => s \in dropping' \/ cast.message \in Items(buf'[s])
    BY <1>1, <1>2, <2>2, <2>3, OfferKeeps
  <2> HIDE DEF rest
  <2>6. Sent' = Sent /\ m \in owed[s]
    BY <2>3, <2>4 DEF Sent
  <2>7. CASE ~ Foreign(m, home[s]) /\ \E c \in casts : c.message = m /\ s \in c.left
    <3>1. PICK c \in casts : c.message = m /\ s \in c.left
      BY <2>7
    <3>2. CASE c # cast
      BY <1>1, <2>4, <2>7, <3>1, <3>2 DEF Coming, Foreign
    <3>3. CASE c = cast /\ s # t
      BY <1>1, <2>3, <2>4, <2>7, <3>1, <3>3 DEF Coming, Foreign
    <3>4. CASE c = cast /\ s = t
      BY <2>5, <3>1, <3>4 DEF Coming
    <3> QED BY <3>2, <3>3, <3>4
  <2>8. CASE ~ (~ Foreign(m, home[s]) /\ \E c \in casts : c.message = m /\ s \in c.left)
    BY <1>1, <1>3, <2>4, <2>5, <2>6, <2>8 DEF Coming, OnTheBus, ResyncComing, Foreign
  <2> QED BY <2>7, <2>8
<1>6. CASE BroadcastEnds
  <2>1. PICK cast \in casts : /\ cast.left = {} /\ casts' = casts \ {cast}
                              /\ publishing' = publishing \cup {cast.message}
    BY <1>6 DEF BroadcastEnds
  <2>2. UNCHANGED << buf, dropping, bus, owed >>
    BY <1>6 DEF BroadcastEnds
  <2>3. Sent \subseteq Sent'
    BY <2>1 DEF Sent
  <2>4. \A c \in casts : s \in c.left => c \in casts'
    BY <2>1
  <2> QED BY <1>1, <1>3, <2>2, <2>3, <2>4 DEF Coming, OnTheBus, ResyncComing, Foreign
<1>7. CASE PublishRealtimeEvent
  <2>1. PICK e \in publishing :
          /\ publishing' = publishing \ {e}
          /\ bus' = [r \in Nodes |-> IF r \in live THEN [bus[r] EXCEPT !.inbox = Append(@, e)]
                                        ELSE bus[r]]
    BY <1>7 DEF PublishRealtimeEvent
  <2>2. UNCHANGED << buf, dropping, casts, owed >>
    BY <1>7 DEF PublishRealtimeEvent
  <2>3. bus[home[s]] \in Subscription /\ e \in Event
    BY <1>2 DEF HubData
  <2>4. /\ Items(Append(bus[home[s]].inbox, e)) = Items(bus[home[s]].inbox) \cup {e}
    BY <2>3, AppendItems DEF Subscription
  <2>5. /\ bus'[home[s]].left = bus[home[s]].left /\ bus'[home[s]].step = bus[home[s]].step
        /\ bus'[home[s]].rooms = bus[home[s]].rooms
        /\ Items(bus[home[s]].inbox) \subseteq Items(bus'[home[s]].inbox)
        /\ home[s] \notin live \/ e \in Items(bus'[home[s]].inbox)
    BY <1>2, <2>1, <2>3, <2>4 DEF Subscription
  <2>6. \A n \in Sent : n = e \/ n \in Sent'
    BY <2>1, <2>2 DEF Sent
  <2> QED BY <1>1, <1>3, <2>2, <2>5, <2>6 DEF Coming, OnTheBus, ResyncComing, Foreign
<1>8. CASE PublishFails
  <2>1. PICK e \in publishing :
          /\ publishing' = publishing \ {e}
          /\ owed' = [t \in Sockets |-> IF home[t] = e.origin THEN owed[t] ELSE owed[t] \ {e}]
    BY <1>8 DEF PublishFails
  <2>2. UNCHANGED << buf, dropping, casts, bus >>
    BY <1>8 DEF PublishFails
  <2>3. m \in owed[s] /\ (Foreign(m, home[s]) => m # e)
    BY <1>2, <2>1 DEF Foreign
  <2>4. \A n \in Sent : n = e \/ n \in Sent'
    BY <2>1, <2>2 DEF Sent
  <2> QED BY <1>1, <1>3, <2>2, <2>3, <2>4 DEF Coming, OnTheBus, ResyncComing, Foreign
<1> QED BY <1>4, <1>5, <1>6, <1>7, <1>8

\* What a replica's loop does to what is coming to its connections.
LEMMA ComingOnTheBus ==
  ASSUME OnceInv, OwedIsDue, NobodyForgotten, NEW r \in Nodes,
         \/ Subscribe(r) \/ ListLocalRooms(r) \/ ResyncRoom(r) \/ HandleBusMessage(r)
         \/ BusBroadcast(r) \/ SubscriptionBreaks(r) \/ SubscriptionLost(r)
  PROVE  NobodyForgotten'
<1> USE DEF sockets, history, BusStays
<1> SUFFICES ASSUME NEW s \in hub' \cap opened' \cap peer', NEW m \in owed'[s]
             PROVE  Coming(s, m)'
  BY DEF NobodyForgotten
<1>1. /\ UNCHANGED << home, hub, member, opened, peer, casts, publishing, owed >>
      /\ s \in hub \cap opened \cap peer /\ m \in owed[s]
  BY DEF Subscribe, ListLocalRooms, ResyncRoom, HandleBusMessage, BusBroadcast,
       SubscriptionBreaks, SubscriptionLost
<1>2. HubData /\ s \in Sockets /\ home[s] \in Nodes /\ bus \in [Nodes -> Subscription]
  BY <1>1 DEF OnceInv, HubData, Unborn
<1>3. Coming(s, m) /\ m \in Event /\ m.room \in member[s]
  BY <1>1, <1>2 DEF NobodyForgotten, OwedIsDue, HubData
<1>4. m.room \in Rooms /\ s \in Members(home[s], m.room)
  BY <1>2, <1>3, OnlyEventsNumbered DEF Members
<1>5. Sent' = Sent
  BY <1>1 DEF Sent
<1>6. CASE Subscribe(r)
  <2>1. UNCHANGED << buf, dropping >> /\ live' = live \cup {r}
    BY <1>6 DEF Subscribe
  <2>2. CASE home[s] # r
    <3>1. bus'[home[s]] = bus[home[s]]
      BY <1>2, <1>6, <2>2 DEF Subscribe
    <3> QED BY <1>1, <1>2, <1>3, <2>1, <2>2, <3>1, StillComing
  <2>3. CASE home[s] = r
    <3>1. /\ bus'[r].step = IF bus[r].first THEN "receiving" ELSE "looking"
          /\ bus'[r].inbox = bus[r].inbox /\ bus'[r].left = bus[r].left
      BY <1>2, <1>6 DEF Subscribe, Subscribed, Subscription
    <3>2. Foreign(m, r) => bus'[r].step = "looking"
      BY <1>1, <2>3, <3>1 DEF OwedIsDue
    <3> QED BY <1>1, <1>3, <2>1, <2>3, <3>1, <3>2 DEF Coming, OnTheBus, ResyncComing, Foreign
  <2> QED BY <2>2, <2>3
<1>7. CASE SubscriptionBreaks(r)
  <2>1. UNCHANGED << buf, dropping, bus >> /\ live' \subseteq live
    BY <1>7 DEF SubscriptionBreaks
  <2> QED BY <1>1, <1>2, <1>3, <2>1, StillComing
<1>8. CASE BusBroadcast(r)
  <2>1. PICK next \in bus[r].left :
          Offer(next[1], next[2]) /\ bus' = [bus EXCEPT ![r].left = @ \ {next}]
    BY <1>8 DEF BusBroadcast
  <2>2. /\ next[1] \in Sockets /\ next[2] \in Message /\ next = << next[1], next[2] >>
        /\ home[next[1]] = r
    <3>1. bus[r] \in Subscription
      BY <1>2
    <3> QED BY <3>1 DEF Subscription, OnceInv, LeftOnce
  <2>3. /\ dropping \subseteq dropping' /\ Items(buf[s]) \subseteq Items(buf'[s])
        /\ next[1] = s => s \in dropping' \/ next[2] \in Items(buf'[s])
    BY <1>1, <1>2, <2>1, <2>2, OfferKeeps
  <2>4. live' = live
    BY <1>8 DEF BusBroadcast
  <2>5. CASE home[s] # r
    <3>1. bus'[home[s]] = bus[home[s]]
      BY <1>2, <2>1, <2>5
    <3> QED BY <1>1, <1>2, <1>3, <2>3, <2>4, <3>1, StillComing
  <2>6. CASE home[s] = r
    <3>1. /\ bus'[r].step = bus[r].step /\ bus'[r].rooms = bus[r].rooms
          /\ bus'[r].inbox = bus[r].inbox /\ bus'[r].left = bus[r].left \ {next}
      BY <1>2, <2>1 DEF Subscription
    <3>2. CASE << s, m >> = next \/ << s, Resync >> = next
      <4>1. next[1] = s /\ next[2] \in {m, Resync}
        BY <3>2
      <4>2. s \in dropping' \/ m \in Items(buf'[s]) \/ Resync \in Items(buf'[s])
        BY <2>3, <4>1
      <4> QED BY <4>2 DEF Coming
    <3>3. CASE ~ (<< s, m >> = next \/ << s, Resync >> = next)
      BY <1>1, <1>3, <1>5, <2>3, <2>4, <2>6, <3>1, <3>3
         DEF Coming, OnTheBus, ResyncComing, Foreign
    <3> QED BY <3>2, <3>3
  <2> QED BY <2>5, <2>6
<1>9. CASE ListLocalRooms(r) \/ ResyncRoom(r) \/ HandleBusMessage(r) \/ SubscriptionLost(r)
  <2>1. UNCHANGED << buf, dropping, live >>
    BY <1>9 DEF ListLocalRooms, ResyncRoom, HandleBusMessage, SubscriptionLost
  <2>2. CASE home[s] # r
    <3>1. bus'[home[s]] = bus[home[s]]
      <4>1. CASE ListLocalRooms(r)
        BY <1>2, <2>2, <4>1 DEF ListLocalRooms
      <4>2. CASE ResyncRoom(r)
        BY <1>2, <2>2, <4>2 DEF ResyncRoom
      <4>3. CASE HandleBusMessage(r)
        BY <1>2, <2>2, <4>3 DEF HandleBusMessage
      <4>4. CASE SubscriptionLost(r)
        BY <1>2, <2>2, <4>4 DEF SubscriptionLost
      <4> QED BY <1>9, <4>1, <4>2, <4>3, <4>4
    <3> QED BY <1>1, <1>2, <1>3, <2>1, <3>1, StillComing
  <2>3. CASE home[s] = r /\ ListLocalRooms(r)
    <3>1. /\ bus'[r].step = "resyncing" /\ bus'[r].inbox = bus[r].inbox
          /\ bus'[r].left = bus[r].left /\ m.room \in bus'[r].rooms
      BY <1>2, <1>4, <2>3 DEF ListLocalRooms, Subscription
    <3> QED BY <1>1, <1>3, <1>5, <2>1, <2>3, <3>1 DEF Coming, OnTheBus, ResyncComing, Foreign
  <2>4. CASE home[s] = r /\ ResyncRoom(r)
    <3>1. bus[r].step = "resyncing" /\ bus[r].left = {}
      BY <2>4 DEF ResyncRoom
    <3>2. ASSUME NEW g \in bus[r].rooms,
                 bus' = [bus EXCEPT ![r].rooms = @ \ {g}, ![r].left = Members(r, g) \X {Resync}]
          PROVE  Coming(s, m)'
      <4>1. /\ bus'[r].rooms = bus[r].rooms \ {g} /\ bus'[r].inbox = bus[r].inbox
            /\ bus'[r].step = "resyncing" /\ bus'[r].left = Members(r, g) \X {Resync}
        BY <1>2, <3>1, <3>2 DEF Subscription
      <4>2. CASE g = m.room
        <5>1. << s, Resync >> \in bus'[r].left
          BY <1>4, <2>4, <4>1, <4>2
        <5> QED BY <1>1, <2>4, <5>1 DEF Coming
      <4>3. CASE g # m.room
        BY <1>1, <1>3, <1>5, <2>1, <2>4, <3>1, <4>1, <4>3
           DEF Coming, OnTheBus, ResyncComing, Foreign
      <4> QED BY <4>2, <4>3
    <3>3. ASSUME bus[r].rooms = {}, bus' = [bus EXCEPT ![r].step = "receiving"]
          PROVE  Coming(s, m)'
      <4>1. bus'[r].inbox = bus[r].inbox /\ bus'[r].left = bus[r].left
        BY <1>2, <3>3 DEF Subscription
      <4> QED BY <1>1, <1>3, <1>5, <2>1, <2>4, <3>1, <3>3, <4>1
              DEF Coming, OnTheBus, ResyncComing, Foreign
    <3> QED BY <2>4, <3>2, <3>3 DEF ResyncRoom
  <2>5. CASE home[s] = r /\ HandleBusMessage(r)
    <3> DEFINE e == Head(bus[r].inbox)
    <3>1. /\ bus[r].step = "receiving" /\ bus[r].left = {} /\ bus[r].inbox # << >>
          /\ bus'[r].step = "receiving" /\ bus'[r].inbox = Tail(bus[r].inbox)
          /\ bus'[r].left = IF Foreign(e, r) THEN Members(r, e.room) \X {e} ELSE {}
      BY <1>2, <2>5 DEF HandleBusMessage, Subscription
    <3>2. Items(bus[r].inbox) = {e} \cup Items(Tail(bus[r].inbox))
      BY <1>2, <3>1, TailItems DEF Subscription
    <3> HIDE DEF e
    <3>3. CASE m = e /\ Foreign(m, r)
      <4>1. << s, m >> \in bus'[r].left
        BY <1>4, <2>5, <3>1, <3>3
      <4> QED BY <1>1, <2>5, <3>3, <4>1 DEF Coming, OnTheBus, Foreign
    <3>4. CASE ~ (m = e /\ Foreign(m, r))
      BY <1>1, <1>3, <1>5, <2>1, <2>5, <3>1, <3>2, <3>4
         DEF Coming, OnTheBus, ResyncComing, Foreign
    <3> QED BY <3>3, <3>4
  <2>6. CASE home[s] = r /\ SubscriptionLost(r)
    <3>1. /\ bus[r].left = {} /\ bus'[r].step = "down" /\ bus'[r].left = {}
      BY <1>2, <2>6 DEF SubscriptionLost, Subscription
    <3> QED BY <1>1, <1>3, <1>5, <2>1, <2>6, <3>1 DEF Coming, OnTheBus, ResyncComing, Foreign
  <2> QED BY <1>9, <2>2, <2>3, <2>4, <2>5, <2>6
<1> QED BY <1>6, <1>7, <1>8, <1>9

LEMMA HubInvInit == HubInit => HubInv
<1> SUFFICES ASSUME HubInit PROVE HubInv
  OBVIOUS
<1>1. hub = {}
  BY DEF HubInit
<1> QED BY <1>1, OnceInit DEF HubInv, OwedIsDue, NobodyForgotten

LEMMA HubInvStep == HubInv /\ [HubNext]_hubVars => HubInv'
<1> SUFFICES ASSUME HubInv, [HubNext]_hubVars PROVE HubInv'
  OBVIOUS
<1>1. OnceInv'
  BY OnceStep DEF HubInv
<1>2. CASE UNCHANGED hubVars
  BY <1>1, <1>2 DEF HubInv, hubVars, OwedIsDue, NobodyForgotten, Coming, OnTheBus, ResyncComing,
       Foreign, Sent
<1>3. CASE HubNext
  <2>1. OwedIsDue'
    BY <1>3, OwedStep DEF HubInv
  <2>2. NobodyForgotten'
    BY <1>3, ComingAtConnection, ComingOfEvents, ComingOnTheBus
       DEF HubInv, HubNext, HubSteps, HubFaults
  <2> QED BY <1>1, <2>1, <2>2 DEF HubInv
<1> QED BY <1>2, <1>3

\* When the hub is quiet nothing is on its way any more.
LEMMA QuietMeansShown == HubInv => ShownOnceOrResynced
<1> SUFFICES ASSUME HubInv, HubQuiet, NEW s \in hub \cap opened \cap peer, buf[s] = << >>,
                    NEW m \in owed[s]
             PROVE  FALSE
  BY DEF HubInv, OnceInv, ShownOnceOrResynced, NobodyLeftBehind
<1>1. Coming(s, m) /\ home[s] \in Nodes
  BY DEF HubInv, NobodyForgotten, OnceInv, HubData, Unborn
<1>2. Items(<< >>) = {} /\ Sent = {}
  BY DEF Items, Sent, HubQuiet
<1> QED BY <1>1, <1>2 DEF HubQuiet, Coming, OnTheBus, ResyncComing
-----------------------------------------------------------------------------
(* The theorems about the hub.                                              *)

\* Connections, rooms, buffers, broadcasts and subscriptions keep to their types.
THEOREM HubTypes == HubSpec => []HubTypeOK
<1>1. HubData => HubTypeOK
  BY HubAssumption DEF HubData, HubTypeOK
<1> QED BY <1>1, HubDataInit, HubDataStep, PTL DEF HubSpec

\* For any number of replicas, connections, rooms and events, and however often
\* subscriptions break and publications fail: a connection that stays in the hub
\* until all is quiet was shown every event of its rooms once, or was told after it
\* to fetch everything again.
THEOREM ShownOnceOrFetched == HubSpec => []ShownOnceOrResynced
BY HubInvInit, HubInvStep, QuietMeansShown, PTL DEF HubSpec
-----------------------------------------------------------------------------
(* Deferred mails, with their faults counted.                               *)

MailTurn ==
  \/ MailStep /\ faults' = faults
  \/ MailFault /\ faults' = faults + 1
  \/ UNCHANGED mailVars /\ faults' \in {faults, faults + 1}

MailSpec == MailInit /\ faults = 0 /\ [][MailTurn]_<< mailVars, faults >>

Rows == Mails \X (0 .. MaxAttempts - 1)

MailRow == [status : {"unraised", "waiting", "sent", "failed", "direct"},
            attempts : 0 .. MaxAttempts]

Flush ==
  {Over} \cup [step : {"send"}, left : SUBSET Rows]
         \cup [step : {"sent", "unsent"}, row : Rows, left : SUBSET Rows]

MailData ==
  /\ mail \in [Mails -> MailRow] /\ copies \in [Mails -> Nat] /\ faults \in Nat
  /\ window \in BOOLEAN /\ due \subseteq Mails /\ leading \subseteq Senders
  /\ flush \in [Senders -> Flush]
  /\ \A m \in Mails : mail[m].status = "waiting" => mail[m].attempts < MaxAttempts

Answered(s) == flush[s].step \in {"sent", "unsent"}

HasListed(s, m) == \E x \in flush[s].left : x[1] = m

\* A flush holds one row of a mail, and of none that was never written.
RowsOnce ==
  \A s \in Senders :
    /\ \A x \in flush[s].left : \A y \in flush[s].left : x[1] = y[1] => x = y
    /\ Answered(s) => ~ HasListed(s, flush[s].row[1])
    /\ \A m \in Mails : mail[m].status = "unraised" =>
         ~ HasListed(s, m) /\ (Answered(s) => flush[s].row[1] # m)

\* Waiting, or to be written yet: whoever flushes may still list it.
MayBeListed(m) == mail[m].status \in {"unraised", "waiting"}

AtWork(s) == s \in leading \/ flush[s] # Over

HasJustSent(s, m) == flush[s].step = "sent" /\ flush[s].row[1] = m

\* The processes that may send the mail without a further fault.
MaySend(m) ==
  IF MayBeListed(m) THEN {s \in Senders : AtWork(s) /\ ~ HasJustSent(s, m)}
                    ELSE {s \in Senders : HasListed(s, m)}

\* One more can come, when nobody leads.
MayCome(m) == IF MayBeListed(m) /\ leading = {} THEN 1 ELSE 0

\* Every copy has its process or its fault: those sent, and those to come.
Bounded(m) == copies[m] + Cardinality(MaySend(m)) + MayCome(m) <= 1 + faults

CopiesBounded == \A m \in Mails : Bounded(m)

MailInv == MailData /\ RowsOnce /\ CopiesBounded
-----------------------------------------------------------------------------
(* What the mails' variables hold.                                          *)

LEMMA RowFacts ==
  ASSUME NEW x \in Rows
  PROVE  x[1] \in Mails /\ x[2] \in 0 .. MaxAttempts - 1 /\ x = << x[1], x[2] >>
BY DEF Rows

LEMMA FlushFacts ==
  ASSUME NEW f \in Flush
  PROVE  /\ f.left \subseteq Rows
         /\ f.step \in {"over", "send", "sent", "unsent"}
         /\ f.step \in {"sent", "unsent"} => f.row \in Rows
         /\ f.step = "over" <=> f = Over
         /\ f.left # {} => f # Over
BY DEF Flush, Over

LEMMA MailDataInit == MailInit /\ faults = 0 => MailData
<1> SUFFICES ASSUME MailInit, faults = 0 PROVE MailData
  OBVIOUS
<1>1. mail \in [Mails -> MailRow] /\ \A m \in Mails : mail[m].status = "unraised"
  BY MailAssumption DEF MailInit, MailRow, Unraised, Row
<1>2. flush \in [Senders -> Flush] /\ copies \in [Mails -> Nat] /\ faults \in Nat
  BY DEF MailInit, Flush
<1>3. window \in BOOLEAN /\ due \subseteq Mails /\ leading \subseteq Senders
  BY DEF MailInit
<1> QED BY <1>1, <1>2, <1>3 DEF MailData

\* After a failure the row still has an attempt left, or waits no more.
LEMMA FailureFacts ==
  ASSUME NEW status \in {"unraised", "waiting", "sent", "failed", "direct"},
         NEW n \in 1 .. MaxAttempts
  PROVE  /\ AfterFailure(status, n) \in MailRow
         /\ AfterFailure(status, n).status \in {"failed", status}
         /\ AfterFailure(status, n).status = "waiting" =>
              AfterFailure(status, n).attempts < MaxAttempts
BY MailAssumption DEF AfterFailure, Row, MailRow

LEMMA ContinueFacts ==
  ASSUME MailData, NEW s \in Senders, Continue(s)
  PROVE  /\ flush' \in [Senders -> Flush]
         /\ flush'[s].left = flush[s].left
         /\ flush'[s].step \in {"over", "send"}
         /\ \A t \in Senders : t # s => flush'[t] = flush[t]
<1>1. flush \in [Senders -> Flush] /\ flush[s] \in Flush
  BY DEF MailData
<1>2. CASE flush[s].left = {}
  <2>1. flush' = [flush EXCEPT ![s] = Over]
    BY <1>2 DEF Continue
  <2> QED BY <1>1, <1>2, <2>1 DEF Flush, Over
<1>3. CASE flush[s].left # {}
  <2> DEFINE f == [step |-> "send", left |-> flush[s].left]
  <2>1. flush' = [flush EXCEPT ![s] = f]
    BY <1>3 DEF Continue
  <2>2. f \in Flush /\ f.left = flush[s].left /\ f.step = "send"
    BY <1>1, FlushFacts DEF Flush
  <2> QED BY <1>1, <2>1, <2>2
<1> QED BY <1>2, <1>3

LEMMA SendFacts ==
  ASSUME MailData, NEW s \in Senders, NEW out \in BOOLEAN, NEW reply \in {"sent", "unsent"},
         SendEmail(s, out, reply)
  PROVE  \E row \in flush[s].left :
           /\ row \in Rows
           /\ copies' = IF out THEN [copies EXCEPT ![row[1]] = @ + 1] ELSE copies
           /\ flush'[s].step = reply /\ flush'[s].row = row
           /\ flush'[s].left = flush[s].left \ {row}
           /\ flush' \in [Senders -> Flush]
           /\ \A t \in Senders : t # s => flush'[t] = flush[t]
<1>1. flush \in [Senders -> Flush] /\ flush[s] \in Flush
  BY DEF MailData
<1>2. PICK row \in flush[s].left :
        /\ copies' = IF out THEN [copies EXCEPT ![row[1]] = @ + 1] ELSE copies
        /\ flush' = [flush EXCEPT ![s] =
                       [step |-> reply, row |-> row, left |-> @.left \ {row}]]
  BY DEF SendEmail
<1> DEFINE f == [step |-> reply, row |-> row, left |-> flush[s].left \ {row}]
<1>3. row \in Rows /\ flush[s].left \ {row} \in SUBSET Rows
  BY <1>1, <1>2, FlushFacts
<1>4. f \in Flush
  BY <1>3 DEF Flush
<1>5. flush' = [flush EXCEPT ![s] = f]
  BY <1>2
<1>6. f.step = reply /\ f.row = row /\ f.left = flush[s].left \ {row}
  OBVIOUS
<1> HIDE DEF f
<1>7. flush'[s] = f /\ flush' \in [Senders -> Flush]
  BY <1>1, <1>4, <1>5
<1>8. \A t \in Senders : t # s => flush'[t] = flush[t]
  BY <1>1, <1>5
<1>9. WITNESS row \in flush[s].left
<1> QED BY <1>2, <1>3, <1>6, <1>7, <1>8

LEMMA MailDataStep == MailData /\ [MailTurn]_<< mailVars, faults >> => MailData'
<1> SUFFICES ASSUME MailData, [MailTurn]_<< mailVars, faults >> PROVE MailData'
  OBVIOUS
<1> USE DEF MailData
<1>1. CASE UNCHANGED << mailVars, faults >>
  BY <1>1 DEF mailVars
<1>2. CASE UNCHANGED mailVars /\ faults' \in {faults, faults + 1}
  BY <1>2 DEF mailVars
<1>3. ASSUME faults' \in {faults, faults + 1},
             NEW m \in Mails, ComesDue(m) \/ \E found \in BOOLEAN : SendNotificationEmail(m, found)
      PROVE  MailData'
  <2>1. CASE ComesDue(m)
    BY <1>3, <2>1 DEF ComesDue
  <2>2. ASSUME NEW found \in BOOLEAN, SendNotificationEmail(m, found) PROVE MailData'
    <3>1. /\ mail' \in [Mails -> MailRow]
          /\ \A k \in Mails : mail'[k].status = "waiting" => mail'[k].attempts < MaxAttempts
      <4>1. PICK status \in {"waiting", "direct"} : mail' = [mail EXCEPT ![m] = Row(status, 0)]
        BY <2>2 DEF SendNotificationEmail
      <4>2. Row(status, 0) \in MailRow /\ Row(status, 0).attempts < MaxAttempts
        BY MailAssumption DEF Row, MailRow
      <4> QED BY <4>1, <4>2
    <3>2. copies' \in [Mails -> Nat]
      BY <2>2 DEF SendNotificationEmail
    <3> QED BY <1>3, <2>2, <3>1, <3>2 DEF SendNotificationEmail
  <2> QED BY <1>3, <2>1, <2>2
<1>4. ASSUME faults' \in {faults, faults + 1}, NEW s \in Senders, FlushDeferredEmails(s)
      PROVE  MailData'
  <2>1. PICK rows \in SUBSET Listed :
          flush' = [flush EXCEPT ![s] =
            [step |-> "send", left |-> {<< m, mail[m].attempts >> : m \in rows}]]
    BY <1>4 DEF FlushDeferredEmails
  <2> DEFINE listed == {<< m, mail[m].attempts >> : m \in rows}
  <2>2. \A m \in rows : m \in Mails /\ mail[m].attempts \in 0 .. MaxAttempts - 1
    BY <2>1, MailAssumption DEF Listed, MailRow
  <2>3. listed \in SUBSET Rows
    BY <2>2 DEF Rows
  <2>4. [step |-> "send", left |-> listed] \in Flush
    BY <2>3 DEF Flush
  <2>5. flush' = [flush EXCEPT ![s] = [step |-> "send", left |-> listed]]
    BY <2>1
  <2> HIDE DEF listed
  <2>6. flush' \in [Senders -> Flush]
    BY <2>4, <2>5
  <2>7. UNCHANGED << mail, window, due, leading, copies >> /\ faults' \in Nat
    BY <1>4 DEF FlushDeferredEmails
  <2> QED BY <2>6, <2>7
<1>5. ASSUME faults' \in {faults, faults + 1}, NEW s \in Senders,
             NEW out \in BOOLEAN, NEW reply \in {"sent", "unsent"}, SendEmail(s, out, reply)
      PROVE  MailData'
  <2>1. flush' \in [Senders -> Flush] /\ copies' \in [Mails -> Nat]
    BY <1>5, SendFacts, RowFacts
  <2> QED BY <1>5, <2>1 DEF SendEmail
<1>6. ASSUME faults' \in {faults, faults + 1}, NEW s \in Senders, NoteOutcome(s)
      PROVE  MailData'
  <2> DEFINE m == flush[s].row[1]
             n == flush[s].row[2] + 1
             new == IF flush[s].step = "sent" THEN Row("sent", n)
                    ELSE IF mail[m].status = "sent" THEN Row("sent", n)
                         ELSE AfterFailure(mail[m].status, n)
  <2>1. m \in Mails /\ n \in 1 .. MaxAttempts
    <3>1. flush[s].row \in Rows
      BY <1>6, FlushFacts DEF NoteOutcome
    <3> QED BY <3>1, RowFacts, MailAssumption
  <2>2. mail' = [mail EXCEPT ![m] = new]
    BY <1>6 DEF NoteOutcome
  <2> HIDE DEF m, n
  <2>3. new \in MailRow /\ (new.status = "waiting" => new.attempts < MaxAttempts)
    <3>1. Row("sent", n) \in MailRow /\ Row("sent", n).status = "sent"
      BY <2>1, MailAssumption DEF Row, MailRow
    <3>2. mail[m].status \in {"unraised", "waiting", "sent", "failed", "direct"}
      BY <2>1 DEF MailRow
    <3> QED BY <2>1, <3>1, <3>2, FailureFacts
  <2> HIDE DEF new
  <2>4. flush' \in [Senders -> Flush] /\ due' \subseteq Mails
    BY <1>6, ContinueFacts DEF NoteOutcome
  <2>5. mail' \in [Mails -> MailRow]
    BY <2>1, <2>2, <2>3
  <2>6. \A k \in Mails : mail'[k].status = "waiting" => mail'[k].attempts < MaxAttempts
    BY <2>1, <2>2, <2>3
  <2>7. UNCHANGED << window, leading, copies >> /\ faults' \in Nat
    BY <1>6 DEF NoteOutcome
  <2> QED BY <2>4, <2>5, <2>6, <2>7
<1>7. ASSUME faults' \in {faults, faults + 1}, NEW s \in Senders, NoteIsLost(s)
      PROVE  MailData'
  <2>1. flush' \in [Senders -> Flush]
    BY <1>7, ContinueFacts DEF NoteIsLost
  <2> QED BY <1>7, <2>1 DEF NoteIsLost
<1>8. ASSUME faults' \in {faults, faults + 1}, NEW s \in Senders, CrashSender(s)
      PROVE  MailData'
  BY <1>8 DEF CrashSender, Flush
<1>9. ASSUME faults' \in {faults, faults + 1}, NEW s \in Senders, TakesLead(s) \/ LosesLead(s)
      PROVE  MailData'
  BY <1>9 DEF TakesLead, LosesLead, Leads
<1>10. CASE faults' \in {faults, faults + 1} /\ (WindowOpens \/ WindowCloses)
  <2>1. window' \in BOOLEAN /\ due' \subseteq Mails
    BY <1>10, Zenon DEF WindowOpens, WindowCloses
  <2>2. UNCHANGED << mail, leading, flush, copies >> /\ faults' \in Nat
    BY <1>10 DEF WindowOpens, WindowCloses
  <2> QED BY <2>1, <2>2
<1>11. CASE MailStep /\ faults' = faults
  BY <1>3, <1>4, <1>5, <1>6, <1>9, <1>10, <1>11 DEF MailStep
<1>12. CASE MailFault /\ faults' = faults + 1
  BY <1>5, <1>7, <1>8, <1>9, <1>12 DEF MailFault, SendUnanswered
<1> QED BY <1>1, <1>2, <1>11, <1>12 DEF MailTurn
-----------------------------------------------------------------------------
(* The processes that may still send a mail, counted.                       *)

LEMMA Counted ==
  ASSUME NEW S \in SUBSET Senders, NEW T \in SUBSET Senders
  PROVE  /\ Cardinality(S) \in Nat /\ Cardinality(T) \in Nat
         /\ S \subseteq T => Cardinality(S) <= Cardinality(T)
         /\ \A x \in Senders : S \subseteq T \cup {x} => Cardinality(S) <= Cardinality(T) + 1
         /\ \A x \in T : S \subseteq T \ {x} => Cardinality(S) + 1 <= Cardinality(T)
<1>1. IsFiniteSet(S) /\ IsFiniteSet(T)
  BY MailAssumption, FS_Subset
<1>2. Cardinality(S) \in Nat /\ Cardinality(T) \in Nat
  BY <1>1, FS_CardinalityType
<1>3. S \subseteq T => Cardinality(S) <= Cardinality(T)
  BY <1>1, FS_Subset
<1>4. ASSUME NEW x \in Senders, S \subseteq T \cup {x}
      PROVE  Cardinality(S) <= Cardinality(T) + 1
  <2>1. /\ IsFiniteSet(T \cup {x})
        /\ Cardinality(T \cup {x}) = Cardinality(T) \/ Cardinality(T \cup {x}) = Cardinality(T) + 1
    BY <1>1, FS_AddElement
  <2>2. Cardinality(S) <= Cardinality(T \cup {x})
    BY <1>4, <2>1, FS_Subset
  <2> QED BY <1>2, <2>1, <2>2
<1>5. ASSUME NEW x \in T, S \subseteq T \ {x}
      PROVE  Cardinality(S) + 1 <= Cardinality(T)
  <2>1. IsFiniteSet(T \ {x}) /\ Cardinality(T \ {x}) = Cardinality(T) - 1
    BY <1>1, FS_RemoveElement
  <2>2. Cardinality(S) <= Cardinality(T \ {x})
    BY <1>5, <2>1, FS_Subset
  <2> QED BY <1>2, <2>1, <2>2
<1> QED BY <1>2, <1>3, <1>4, <1>5

\* What is left of the bound when the processes that may send are not counted.
Spent(m) == copies[m] + MayCome(m) - faults

\* The bound holds on if what is spent is made up for by the processes.
LEMMA Balance ==
  ASSUME MailData, MailData', NEW m \in Mails, Bounded(m),
         \/ MaySend(m)' \subseteq MaySend(m) /\ Spent(m)' <= Spent(m)
         \/ \E x \in Senders :
              MaySend(m)' \subseteq MaySend(m) \cup {x} /\ Spent(m)' + 1 <= Spent(m)
         \/ \E x \in MaySend(m) :
              MaySend(m)' \subseteq MaySend(m) \ {x} /\ Spent(m)' <= Spent(m) + 1
  PROVE  Bounded(m)'
<1> DEFINE S == MaySend(m)'
           T == MaySend(m)
<1>1. S \in SUBSET Senders /\ T \in SUBSET Senders
  BY DEF MaySend
<1>2. /\ copies[m] \in Nat /\ copies'[m] \in Nat /\ faults \in Nat /\ faults' \in Nat
      /\ MayCome(m) \in {0, 1} /\ MayCome(m)' \in {0, 1}
  BY DEF MailData, MayCome
<1>3. Cardinality(S) \in Nat /\ Cardinality(T) \in Nat
  BY <1>1, Counted
<1>4. Cardinality(S) + Spent(m)' <= Cardinality(T) + Spent(m)
  <2>1. Spent(m) \in Int /\ Spent(m)' \in Int
    BY <1>2 DEF Spent
  <2>2. CASE S \subseteq T /\ Spent(m)' <= Spent(m)
    <3>1. Cardinality(S) <= Cardinality(T)
      BY <1>1, <2>2, Counted
    <3> HIDE DEF S, T
    <3> QED BY <1>3, <2>1, <2>2, <3>1
  <2>3. ASSUME NEW x \in Senders, S \subseteq T \cup {x}, Spent(m)' + 1 <= Spent(m)
        PROVE  Cardinality(S) + Spent(m)' <= Cardinality(T) + Spent(m)
    <3>1. Cardinality(S) <= Cardinality(T) + 1
      BY <1>1, <2>3, Counted
    <3> HIDE DEF S, T
    <3> QED BY <1>3, <2>1, <2>3, <3>1
  <2>4. ASSUME NEW x \in T, S \subseteq T \ {x}, Spent(m)' <= Spent(m) + 1
        PROVE  Cardinality(S) + Spent(m)' <= Cardinality(T) + Spent(m)
    <3>1. Cardinality(S) + 1 <= Cardinality(T)
      BY <1>1, <2>4, Counted
    <3> HIDE DEF S, T
    <3> QED BY <1>3, <2>1, <2>4, <3>1
  <2> QED BY <2>2, <2>3, <2>4
<1> HIDE DEF S, T
<1>5. copies[m] + Cardinality(T) + MayCome(m) <= 1 + faults
  BY DEF Bounded, T
<1>6. copies'[m] + Cardinality(S) + MayCome(m)' <= 1 + faults'
  BY <1>2, <1>3, <1>4, <1>5 DEF Spent
<1> QED BY <1>6 DEF Bounded, S
-----------------------------------------------------------------------------
(* Every step keeps both.                                                   *)

MailKept == RowsOnce' /\ CopiesBounded'

\* The clock changes neither the rows that count nor who may send them.
LEMMA ClockKeeps ==
  ASSUME MailInv, MailData', UNCHANGED << mail, leading, flush, copies >>,
         faults' \in {faults, faults + 1}
  PROVE  MailKept
<1>1. RowsOnce'
  BY DEF MailInv, RowsOnce, Answered, HasListed
<1>2. ASSUME NEW m \in Mails PROVE Bounded(m)'
  <2>1. MaySend(m)' = MaySend(m) /\ MayCome(m)' = MayCome(m)
    BY DEF MaySend, MayCome, MayBeListed, AtWork, HasJustSent, HasListed
  <2>2. Spent(m)' <= Spent(m)
    BY <2>1 DEF Spent, MailInv, MailData, MayCome
  <2> QED BY <2>1, <2>2, Balance DEF MailInv, CopiesBounded
<1> QED BY <1>1, <1>2 DEF MailKept, CopiesBounded

LEMMA RaisingKeeps ==
  ASSUME MailInv, MailData', NEW k \in Mails, NEW found \in BOOLEAN,
         SendNotificationEmail(k, found), faults' = faults
  PROVE  MailKept
<1>1. mail[k].status = "unraised"
  BY DEF SendNotificationEmail, Unraised, Row
<1>2. /\ UNCHANGED << leading, flush >>
      /\ \A m \in Mails : m # k => mail'[m] = mail[m] /\ copies'[m] = copies[m]
  BY DEF SendNotificationEmail, MailInv, MailData
<1>3. \/ mail'[k].status = "direct" /\ copies'[k] \in {copies[k], 1}
      \/ mail'[k].status = "waiting" /\ copies'[k] = copies[k]
  BY <1>1 DEF SendNotificationEmail, MailInv, MailData, Row
<1>4. \A s \in Senders : ~ HasListed(s, k) /\ (Answered(s) => flush[s].row[1] # k)
  BY <1>1 DEF MailInv, RowsOnce
<1>5. RowsOnce'
  BY <1>1, <1>2, <1>3, <1>4 DEF MailInv, RowsOnce, Answered, HasListed
<1>6. ASSUME NEW m \in Mails PROVE Bounded(m)'
  <2>1. CASE m = k /\ mail'[k].status = "direct"
    <3>1. MaySend(m)' = {} /\ MayCome(m)' = 0
      BY <1>2, <1>4, <2>1 DEF MaySend, MayCome, MayBeListed, HasListed
    <3>2. CASE copies'[k] = 1
      <4>1. Cardinality({}) = 0
        BY FS_EmptySet
      <4> QED BY <2>1, <3>1, <3>2, <4>1 DEF Bounded, MailInv, MailData
    <3>3. CASE copies'[k] = copies[k]
      <4>1. MaySend(m)' \subseteq MaySend(m)
        BY <3>1
      <4>2. Spent(m)' <= Spent(m)
        BY <2>1, <3>1, <3>3 DEF Spent, MailInv, MailData, MayCome
      <4> QED BY <4>1, <4>2, Balance DEF MailInv, CopiesBounded
    <3> QED BY <1>3, <2>1, <3>2, <3>3
  <2>2. CASE ~ (m = k /\ mail'[k].status = "direct")
    <3>1. MayBeListed(m)' = MayBeListed(m) /\ copies'[m] = copies[m]
      BY <1>1, <1>2, <1>3, <2>2 DEF MayBeListed
    <3>2. MaySend(m)' = MaySend(m) /\ MayCome(m)' = MayCome(m)
      BY <1>2, <3>1 DEF MaySend, MayCome, AtWork, HasJustSent, HasListed
    <3>3. Spent(m)' <= Spent(m)
      BY <3>1, <3>2 DEF Spent, MailInv, MailData, MayCome
    <3> QED BY <3>2, <3>3, Balance DEF MailInv, CopiesBounded
  <2> QED BY <2>1, <2>2
<1> QED BY <1>5, <1>6 DEF MailKept, CopiesBounded

\* Who lists the rows that wait was at work already.
LEMMA FlushKeeps ==
  ASSUME MailInv, MailData', NEW s \in Senders, FlushDeferredEmails(s), faults' = faults
  PROVE  MailKept
<1>1. PICK rows \in SUBSET Listed :
        flush' = [flush EXCEPT ![s] =
          [step |-> "send", left |-> {<< m, mail[m].attempts >> : m \in rows}]]
  BY DEF FlushDeferredEmails
<1> DEFINE listed == {<< m, mail[m].attempts >> : m \in rows}
<1>2. \A x \in listed : x[1] \in Mails /\ mail[x[1]].status = "waiting"
                        /\ x = << x[1], mail[x[1]].attempts >>
  BY <1>1 DEF Listed, MailInv, MailData
<1>3. flush' = [flush EXCEPT ![s] = [step |-> "send", left |-> listed]]
  BY <1>1
<1> HIDE DEF listed
<1>4. /\ flush[s].step = "over" /\ flush[s].left = {} /\ s \in leading
      /\ UNCHANGED << mail, leading, copies >>
  BY DEF FlushDeferredEmails, Over
<1>5. /\ flush'[s].step = "send" /\ flush'[s].left = listed
      /\ \A t \in Senders : t # s => flush'[t] = flush[t]
  BY <1>3 DEF MailInv, MailData
<1>6. \A m \in Mails : HasListed(s, m)' => mail[m].status = "waiting"
  BY <1>2, <1>5 DEF HasListed
<1>7. RowsOnce'
  <2> SUFFICES ASSUME NEW t \in Senders
               PROVE  /\ \A x \in flush'[t].left : \A y \in flush'[t].left : x[1] = y[1] => x = y
                      /\ Answered(t)' => ~ HasListed(t, flush[t].row[1])'
                      /\ \A m \in Mails : mail'[m].status = "unraised" =>
                           ~ HasListed(t, m)' /\ (Answered(t)' => flush'[t].row[1] # m)
    BY DEF RowsOnce
  <2>1. CASE t = s
    BY <1>2, <1>4, <1>5, <1>6, <2>1 DEF MailInv, RowsOnce, Answered
  <2>2. CASE t # s
    BY <1>4, <1>5, <2>2 DEF MailInv, RowsOnce, Answered, HasListed
  <2> QED BY <2>1, <2>2
<1>8. ASSUME NEW m \in Mails PROVE Bounded(m)'
  <2>1. MaySend(m)' \subseteq MaySend(m)
    <3>1. CASE MayBeListed(m)
      BY <1>4, <1>5, <3>1 DEF MaySend, MayBeListed, AtWork, HasJustSent
    <3>2. CASE ~ MayBeListed(m)
      BY <1>4, <1>5, <1>6, <3>2 DEF MaySend, MayBeListed, HasListed
    <3> QED BY <3>1, <3>2
  <2>2. Spent(m)' <= Spent(m)
    BY <1>4 DEF Spent, MailInv, MailData, MayCome, MayBeListed
  <2> QED BY <2>1, <2>2, Balance DEF MailInv, CopiesBounded
<1> QED BY <1>7, <1>8 DEF MailKept, CopiesBounded
-----------------------------------------------------------------------------
\* A copy takes its process from those that may send it, or is a fault's.
LEMMA SendKeeps ==
  ASSUME MailInv, MailData', NEW s \in Senders, NEW out \in BOOLEAN,
         NEW reply \in {"sent", "unsent"}, SendEmail(s, out, reply),
         faults' \in {faults, faults + 1},
         out /\ reply = "unsent" => faults' = faults + 1
  PROVE  MailKept
<1>1. PICK row \in flush[s].left :
        /\ row \in Rows
        /\ copies' = IF out THEN [copies EXCEPT ![row[1]] = @ + 1] ELSE copies
        /\ flush'[s].step = reply /\ flush'[s].row = row
        /\ flush'[s].left = flush[s].left \ {row}
        /\ \A t \in Senders : t # s => flush'[t] = flush[t]
  BY SendFacts DEF MailInv
<1> DEFINE k == row[1]
<1>2. /\ flush[s].step = "send" /\ k \in Mails /\ HasListed(s, k)
      /\ UNCHANGED << mail, leading >>
  BY <1>1, RowFacts DEF SendEmail, HasListed
<1>3. \A m \in Mails : HasListed(s, m)' => HasListed(s, m) /\ m # k
  BY <1>1 DEF HasListed, MailInv, RowsOnce
<1>4. /\ copies'[k] = IF out THEN copies[k] + 1 ELSE copies[k]
      /\ \A m \in Mails : m # k => copies'[m] = copies[m]
  BY <1>1, <1>2 DEF MailInv, MailData
<1>5. mail[k].status # "unraised"
  BY <1>2 DEF MailInv, RowsOnce
<1>6. RowsOnce'
  <2> SUFFICES ASSUME NEW t \in Senders
               PROVE  /\ \A x \in flush'[t].left : \A y \in flush'[t].left : x[1] = y[1] => x = y
                      /\ Answered(t)' => ~ HasListed(t, flush[t].row[1])'
                      /\ \A m \in Mails : mail'[m].status = "unraised" =>
                           ~ HasListed(t, m)' /\ (Answered(t)' => flush'[t].row[1] # m)
    BY DEF RowsOnce
  <2>1. CASE t = s
    BY <1>1, <1>2, <1>3, <1>4, <1>5, <2>1 DEF MailInv, RowsOnce
  <2>2. CASE t # s
    BY <1>1, <1>2, <1>4, <1>5, <2>2 DEF MailInv, RowsOnce, Answered, HasListed
  <2> QED BY <2>1, <2>2
<1>7. ASSUME NEW m \in Mails PROVE Bounded(m)'
  <2>1. MayBeListed(m)' = MayBeListed(m) /\ MayCome(m)' = MayCome(m)
    BY <1>2 DEF MayBeListed, MayCome
  <2>2. MaySend(m)' \subseteq MaySend(m)
    <3>1. CASE MayBeListed(m)
      <4>1. \A t \in Senders : AtWork(t)' => AtWork(t)
        BY <1>1, <1>2 DEF AtWork, Over
      <4>2. \A t \in Senders : HasJustSent(t, m) => HasJustSent(t, m)'
        BY <1>1, <1>2 DEF HasJustSent
      <4> QED BY <2>1, <3>1, <4>1, <4>2 DEF MaySend
    <3>2. CASE ~ MayBeListed(m)
      <4>1. \A t \in Senders : HasListed(t, m)' => HasListed(t, m)
        BY <1>1, <1>3 DEF HasListed
      <4> QED BY <2>1, <3>2, <4>1 DEF MaySend
    <3> QED BY <3>1, <3>2
  <2>3. CASE m # k \/ ~ out \/ reply = "unsent"
    <3>1. Spent(m)' <= Spent(m)
      BY <1>4, <2>1, <2>3 DEF Spent, MailInv, MailData, MayCome
    <3> QED BY <2>2, <3>1, Balance DEF MailInv, CopiesBounded
  <2>4. CASE m = k /\ out /\ reply = "sent"
    <3>1. s \in MaySend(m) /\ s \notin MaySend(m)'
      <4>1. CASE MayBeListed(m)
        BY <1>1, <1>2, <2>1, <2>4, <4>1 DEF MaySend, AtWork, HasJustSent, Over
      <4>2. CASE ~ MayBeListed(m)
        BY <1>2, <1>3, <2>1, <2>4, <4>2 DEF MaySend
      <4> QED BY <4>1, <4>2
    <3>2. Spent(m)' <= Spent(m) + 1
      BY <1>4, <2>1, <2>4 DEF Spent, MailInv, MailData, MayCome
    <3> QED BY <2>2, <3>1, <3>2, Balance DEF MailInv, CopiesBounded
  <2> QED BY <2>3, <2>4
<1> QED BY <1>6, <1>7 DEF MailKept, CopiesBounded

\* Whoever goes on has the rows it had, and no answer any more.
LEMMA OnwardKeepsRows ==
  ASSUME MailInv, MailData', NEW s \in Senders, Continue(s),
         \A m \in Mails : /\ copies'[m] = copies[m]
                          /\ mail'[m].status = "unraised" => mail[m].status = "unraised"
  PROVE  /\ RowsOnce'
         /\ \A t \in Senders, m \in Mails : HasListed(t, m)' = HasListed(t, m)
<1>1. /\ flush'[s].left = flush[s].left /\ ~ Answered(s)'
      /\ \A t \in Senders : t # s => flush'[t] = flush[t]
  BY ContinueFacts DEF MailInv, Answered
<1>2. \A t \in Senders, m \in Mails : HasListed(t, m)' = HasListed(t, m)
  BY <1>1 DEF HasListed
<1> SUFFICES ASSUME NEW t \in Senders
             PROVE  /\ \A x \in flush'[t].left : \A y \in flush'[t].left : x[1] = y[1] => x = y
                    /\ Answered(t)' => ~ HasListed(t, flush[t].row[1])'
                    /\ \A m \in Mails : mail'[m].status = "unraised" =>
                         ~ HasListed(t, m)' /\ (Answered(t)' => flush'[t].row[1] # m)
  BY <1>2 DEF RowsOnce
<1>3. CASE t = s
  BY <1>1, <1>2, <1>3 DEF MailInv, RowsOnce
<1>4. CASE t # s
  BY <1>1, <1>2, <1>4 DEF MailInv, RowsOnce, Answered, HasListed
<1> QED BY <1>3, <1>4

\* Once the row says what came of it, only those that hold it already may send it.
LEMMA NoteKeeps ==
  ASSUME MailInv, MailData', NEW s \in Senders, NoteOutcome(s), faults' = faults
  PROVE  MailKept
<1> DEFINE k == flush[s].row[1]
           n == flush[s].row[2] + 1
<1>1. k \in Mails /\ n \in 1 .. MaxAttempts /\ Answered(s) /\ flush[s].left \subseteq Rows
  <2>1. flush[s].row \in Rows /\ Answered(s) /\ flush[s].left \subseteq Rows
    BY FlushFacts DEF NoteOutcome, Answered, MailInv, MailData
  <2> QED BY <2>1, RowFacts, MailAssumption
<1>2. mail[k].status # "unraised" /\ mail[k].status \in {"waiting", "sent", "failed", "direct"}
  BY <1>1 DEF MailInv, RowsOnce, MailData, MailRow
<1>3. /\ Continue(s) /\ UNCHANGED << leading, copies >>
      /\ \A m \in Mails : m # k => mail'[m] = mail[m]
      /\ mail'[k] = IF flush[s].step = "sent" THEN Row("sent", n)
                    ELSE IF mail[k].status = "sent" THEN Row("sent", n)
                         ELSE AfterFailure(mail[k].status, n)
  BY <1>1 DEF NoteOutcome, MailInv, MailData
<1> HIDE DEF k, n
<1>4. /\ mail'[k].status \in {"sent", "failed", mail[k].status}
      /\ flush[s].step = "sent" => mail'[k].status = "sent"
  <2>1. Row("sent", n).status = "sent"
    BY DEF Row
  <2>2. AfterFailure(mail[k].status, n).status \in {"failed", mail[k].status}
    BY <1>1, <1>2, FailureFacts
  <2> QED BY <1>3, <2>1, <2>2
<1>5. RowsOnce' /\ \A t \in Senders, m \in Mails : HasListed(t, m)' = HasListed(t, m)
  BY <1>1, <1>2, <1>3, <1>4, OnwardKeepsRows
<1>6. /\ flush'[s].step \in {"over", "send"} /\ flush[s] # Over
      /\ \A t \in Senders : t # s => flush'[t] = flush[t]
  BY <1>1, <1>3, ContinueFacts DEF MailInv, Answered, Over
<1>7. ASSUME NEW m \in Mails PROVE Bounded(m)'
  <2>1. MayBeListed(m)' => MayBeListed(m) /\ (m = k => flush[s].step # "sent")
    BY <1>2, <1>3, <1>4 DEF MayBeListed
  <2>2. MaySend(m)' \subseteq MaySend(m)
    <3>1. CASE MayBeListed(m)'
      <4>1. \A t \in Senders : AtWork(t)' => AtWork(t)
        BY <1>3, <1>6 DEF AtWork
      <4>2. \A t \in Senders : HasJustSent(t, m) => HasJustSent(t, m)'
        BY <1>6, <2>1, <3>1 DEF HasJustSent, k
      <4> QED BY <2>1, <3>1, <4>1, <4>2 DEF MaySend
    <3>2. CASE ~ MayBeListed(m)' /\ MayBeListed(m)
      <4> SUFFICES ASSUME NEW t \in Senders, HasListed(t, m)
                   PROVE  AtWork(t) /\ ~ HasJustSent(t, m)
        BY <1>5, <3>2 DEF MaySend
      <4>1. AtWork(t)
        BY DEF AtWork, HasListed, Over
      <4>2. ~ HasJustSent(t, m)
        BY DEF MailInv, RowsOnce, Answered, HasJustSent
      <4> QED BY <4>1, <4>2
    <3>3. CASE ~ MayBeListed(m)' /\ ~ MayBeListed(m)
      BY <1>5, <3>3 DEF MaySend
    <3> QED BY <3>1, <3>2, <3>3
  <2>3. Spent(m)' <= Spent(m)
    BY <1>3, <2>1 DEF Spent, MailInv, MailData, MayCome
  <2> QED BY <2>2, <2>3, Balance DEF MailInv, CopiesBounded
<1> QED BY <1>5, <1>7 DEF MailKept, CopiesBounded
-----------------------------------------------------------------------------
\* A lost note leaves one process more that may send the mail again: the fault's.
LEMMA LossKeeps ==
  ASSUME MailInv, MailData', NEW s \in Senders, NoteIsLost(s), faults' = faults + 1
  PROVE  MailKept
<1>1. UNCHANGED << mail, leading, copies >> /\ Continue(s) /\ Answered(s)
  BY DEF NoteIsLost, Answered
<1>2. RowsOnce' /\ \A t \in Senders, m \in Mails : HasListed(t, m)' = HasListed(t, m)
  BY <1>1, OnwardKeepsRows
<1>3. flush[s] # Over /\ \A t \in Senders : t # s => flush'[t] = flush[t]
  BY <1>1, ContinueFacts DEF MailInv, Answered, Over
<1>4. ASSUME NEW m \in Mails PROVE Bounded(m)'
  <2>1. MayBeListed(m)' = MayBeListed(m) /\ MayCome(m)' = MayCome(m)
    BY <1>1 DEF MayBeListed, MayCome
  <2>2. MaySend(m)' \subseteq MaySend(m) \cup {s}
    <3>1. CASE MayBeListed(m)
      BY <1>1, <1>3, <2>1, <3>1 DEF MaySend, AtWork, HasJustSent
    <3>2. CASE ~ MayBeListed(m)
      BY <1>2, <2>1, <3>2 DEF MaySend
    <3> QED BY <3>1, <3>2
  <2>3. Spent(m)' + 1 <= Spent(m)
    BY <1>1, <2>1 DEF Spent, MailInv, MailData, MayCome
  <2> QED BY <2>2, <2>3, Balance DEF MailInv, CopiesBounded
<1> QED BY <1>2, <1>4 DEF MailKept, CopiesBounded

\* A crash may leave the mail to the next that leads, who is the fault's.
LEMMA CrashKeeps ==
  ASSUME MailInv, MailData', NEW s \in Senders, CrashSender(s), faults' = faults + 1
  PROVE  MailKept
<1>1. /\ UNCHANGED << mail, copies >> /\ leading' = leading \ {s}
      /\ flush'[s] = Over /\ \A t \in Senders : t # s => flush'[t] = flush[t]
  BY DEF CrashSender, MailInv, MailData
<1>2. /\ Over.step = "over" /\ Over.left = {}
      /\ \A m \in Mails : ~ HasListed(s, m)' /\ ~ Answered(s)' /\ ~ AtWork(s)'
  BY <1>1 DEF Over, HasListed, Answered, AtWork
<1>3. RowsOnce'
  <2> SUFFICES ASSUME NEW t \in Senders
               PROVE  /\ \A x \in flush'[t].left : \A y \in flush'[t].left : x[1] = y[1] => x = y
                      /\ Answered(t)' => ~ HasListed(t, flush[t].row[1])'
                      /\ \A m \in Mails : mail'[m].status = "unraised" =>
                           ~ HasListed(t, m)' /\ (Answered(t)' => flush'[t].row[1] # m)
    BY DEF RowsOnce
  <2>1. CASE t = s
    BY <1>1, <1>2, <2>1 DEF MailInv, RowsOnce, Answered
  <2>2. CASE t # s
    BY <1>1, <2>2 DEF MailInv, RowsOnce, Answered, HasListed
  <2> QED BY <2>1, <2>2
<1>4. ASSUME NEW m \in Mails PROVE Bounded(m)'
  <2>1. MaySend(m)' \subseteq MaySend(m)
    BY <1>1, <1>2 DEF MaySend, MayBeListed, AtWork, HasJustSent, HasListed
  <2>2. Spent(m)' <= Spent(m)
    BY <1>1 DEF Spent, MailInv, MailData, MayCome
  <2> QED BY <2>1, <2>2, Balance DEF MailInv, CopiesBounded
<1> QED BY <1>3, <1>4 DEF MailKept, CopiesBounded

\* To lead while nobody does costs no fault, and neither does to stop before a flush.
LEMMA LeadKeeps ==
  ASSUME MailInv, MailData', NEW s \in Senders,
         \/ leading = {} /\ TakesLead(s) /\ faults' = faults
         \/ leading # {} /\ TakesLead(s) /\ faults' = faults + 1
         \/ flush[s] = Over /\ LosesLead(s) /\ faults' = faults
         \/ flush[s] # Over /\ LosesLead(s) /\ faults' = faults + 1
  PROVE  MailKept
<1>1. UNCHANGED << mail, flush, copies >>
  BY DEF TakesLead, LosesLead, Leads
<1>2. RowsOnce'
  BY <1>1 DEF MailInv, RowsOnce, Answered, HasListed
<1>3. ASSUME NEW m \in Mails PROVE Bounded(m)'
  <2>1. MayBeListed(m)' = MayBeListed(m)
    BY <1>1 DEF MayBeListed
  <2>2. CASE ~ MayBeListed(m)
    <3>1. MaySend(m)' = MaySend(m) /\ MayCome(m)' = MayCome(m)
      BY <1>1, <2>1, <2>2 DEF MaySend, MayCome, HasListed
    <3>2. Spent(m)' <= Spent(m)
      BY <1>1, <3>1 DEF Spent, MailInv, MailData, MayCome
    <3> QED BY <3>1, <3>2, Balance DEF MailInv, CopiesBounded
  <2>3. CASE MayBeListed(m) /\ TakesLead(s)
    <3>1. leading' = leading \cup {s} /\ MayCome(m)' = 0
      BY <2>3 DEF TakesLead, Leads, MayCome
    <3>2. MaySend(m)' \subseteq MaySend(m) \cup {s}
      BY <1>1, <2>1, <2>3, <3>1 DEF MaySend, AtWork, HasJustSent
    <3>3. Spent(m)' + 1 <= Spent(m)
      BY <1>1, <2>3, <3>1 DEF Spent, MailInv, MailData, MayCome, TakesLead, LosesLead
    <3> QED BY <3>2, <3>3, Balance DEF MailInv, CopiesBounded
  <2>4. CASE MayBeListed(m) /\ LosesLead(s)
    <3>1. s \in leading /\ leading' = leading \ {s} /\ MayCome(m) = 0 /\ MayCome(m)' \in {0, 1}
      BY <2>4 DEF LosesLead, Leads, MayCome
    <3>2. MaySend(m)' \subseteq MaySend(m)
      BY <1>1, <2>1, <2>4, <3>1 DEF MaySend, AtWork, HasJustSent
    <3>3. CASE flush[s] = Over /\ faults' = faults
      <4>1. s \in MaySend(m) /\ s \notin MaySend(m)'
        BY <1>1, <2>1, <2>4, <3>1, <3>3 DEF MaySend, AtWork, HasJustSent, Over
      <4>2. Spent(m)' <= Spent(m) + 1
        BY <1>1, <3>1, <3>3 DEF Spent, MailInv, MailData
      <4> QED BY <3>2, <4>1, <4>2, Balance DEF MailInv, CopiesBounded
    <3>4. CASE faults' = faults + 1
      <4>1. Spent(m)' <= Spent(m)
        BY <1>1, <3>1, <3>4 DEF Spent, MailInv, MailData
      <4> QED BY <3>2, <4>1, Balance DEF MailInv, CopiesBounded
    <3> QED BY <2>4, <3>1, <3>3, <3>4 DEF TakesLead
  <2> QED BY <2>2, <2>3, <2>4
<1> QED BY <1>2, <1>3 DEF MailKept, CopiesBounded

LEMMA MailInvInit == MailInit /\ faults = 0 => MailInv
<1> SUFFICES ASSUME MailInit, faults = 0 PROVE MailInv
  OBVIOUS
<1>1. MailData
  BY MailDataInit
<1>2. /\ \A s \in Senders : flush[s] = Over
      /\ \A m \in Mails : mail[m] = Unraised /\ copies[m] = 0
  BY DEF MailInit
<1>3. Over.left = {} /\ Over.step = "over" /\ Unraised.status = "unraised"
  BY DEF Over, Unraised, Row
<1>4. RowsOnce
  BY <1>2, <1>3 DEF RowsOnce, Answered, HasListed
<1>5. ASSUME NEW m \in Mails PROVE Bounded(m)
  <2>1. MaySend(m) = leading
    BY <1>1, <1>2, <1>3 DEF MaySend, MayBeListed, AtWork, HasJustSent, MailData
  <2>2. Cardinality(leading) = IF leading = {} THEN 0 ELSE 1
    BY FS_EmptySet, FS_Singleton DEF MailInit
  <2> QED BY <1>2, <2>1, <2>2 DEF Bounded, MayCome
<1> QED BY <1>1, <1>4, <1>5 DEF MailInv, CopiesBounded

LEMMA MailInvStep == MailInv /\ [MailTurn]_<< mailVars, faults >> => MailInv'
<1> SUFFICES ASSUME MailInv, [MailTurn]_<< mailVars, faults >> PROVE MailInv'
  OBVIOUS
<1>1. MailData'
  BY MailDataStep DEF MailInv
<1>2. MailKept
  <2>1. CASE UNCHANGED << mailVars, faults >> \/ (UNCHANGED mailVars /\ faults' \in {faults, faults + 1})
    BY <1>1, <2>1, ClockKeeps DEF mailVars
  <2>2. CASE MailStep /\ faults' = faults
    <3>1. CASE \/ \E m \in Mails : ComesDue(m)
               \/ WindowOpens \/ WindowCloses
      BY <1>1, <2>2, <3>1, ClockKeeps DEF ComesDue, WindowOpens, WindowCloses
    <3>2. CASE \E m \in Mails, found \in BOOLEAN : SendNotificationEmail(m, found)
      BY <1>1, <2>2, <3>2, RaisingKeeps
    <3>3. ASSUME NEW s \in Senders,
                 \/ FlushDeferredEmails(s) \/ NoteOutcome(s)
                 \/ SendEmail(s, TRUE, "sent") \/ SendEmail(s, FALSE, "unsent")
          PROVE  MailKept
      BY <1>1, <2>2, <3>3, FlushKeeps, NoteKeeps, SendKeeps
    <3>4. ASSUME NEW s \in Senders, \/ leading = {} /\ TakesLead(s)
                                    \/ flush[s] = Over /\ LosesLead(s)
          PROVE  MailKept
      BY <1>1, <2>2, <3>4, LeadKeeps
    <3> QED BY <2>2, <3>1, <3>2, <3>3, <3>4 DEF MailStep
  <2>3. CASE MailFault /\ faults' = faults + 1
    <3>1. PICK s \in Senders :
            \/ SendUnanswered(s) \/ NoteIsLost(s) \/ CrashSender(s)
            \/ leading # {} /\ TakesLead(s)
            \/ flush[s] # Over /\ LosesLead(s)
      BY <2>3 DEF MailFault
    <3>2. CASE SendUnanswered(s)
      BY <1>1, <2>3, <3>2, SendKeeps DEF SendUnanswered, MailInv, MailData
    <3>3. CASE NoteIsLost(s) \/ CrashSender(s)
      BY <1>1, <2>3, <3>3, LossKeeps, CrashKeeps
    <3>4. CASE (leading # {} /\ TakesLead(s)) \/ (flush[s] # Over /\ LosesLead(s))
      BY <1>1, <2>3, <3>4, LeadKeeps
    <3> QED BY <3>1, <3>2, <3>3, <3>4
  <2> QED BY <2>1, <2>2, <2>3 DEF MailTurn
<1> QED BY <1>1, <1>2 DEF MailKept, MailInv

LEMMA BoundedMeansFew == MailInv => OneCopyPerFault
<1> SUFFICES ASSUME MailInv, NEW m \in Mails PROVE copies[m] <= 1 + faults
  BY DEF OneCopyPerFault
<1>1. Cardinality(MaySend(m)) \in Nat /\ MayCome(m) \in Nat
  BY Counted DEF MaySend, MayCome
<1>2. copies[m] \in Nat /\ faults \in Nat /\ Bounded(m)
  BY DEF MailInv, MailData, CopiesBounded
<1> QED BY <1>1, <1>2 DEF Bounded
-----------------------------------------------------------------------------
(* The theorems about the mails.                                            *)

\* Rows keep to their states and attempts, and a flush holds rows that had one left.
THEOREM MailTypes == MailSpec => []MailTypeOK
<1>1. MailData => MailTypeOK
  BY FlushFacts DEF MailData, MailTypeOK, MailRow, Rows
<1> QED BY <1>1, MailDataInit, MailDataStep, PTL DEF MailSpec

\* For any number of mails, processes, attempts and faults: a deferred mail goes out
\* once, and once more at most for every crash, lost answer or note, and handover.
THEOREM CopiesAreCounted == MailSpec => []OneCopyPerFault
BY MailInvInit, MailInvStep, BoundedMeansFew, PTL DEF MailSpec

\* The specification of the run behaves, in what these theorems speak of, as they say.
THEOREM TheRunIsOne == MCSpec => HubSpec /\ MailSpec /\ NoticeSpec
<1>1. MCInit => HubInit /\ MailInit /\ NoticeInit /\ faults = 0
  BY DEF MCInit
<1>2. [MCNext]_mcVars => [HubNext]_hubVars
  BY DEF MCNext, mcVars, Connections, HubNext
<1>3. [MCNext]_mcVars => [MailTurn]_<< mailVars, faults >>
  <2> SUFFICES ASSUME MCNext PROVE [MailTurn]_<< mailVars, faults >>
    BY DEF mcVars, mailVars
  <2>1. CASE Mailing
    BY <2>1 DEF Mailing, Fails, MailTurn
  <2>2. CASE UNCHANGED mailVars /\ (MidnightJob \/ Backups \/ Connections \/ Announcing)
    <3>1. faults' = faults \/ Fails
      BY <2>2 DEF MidnightJob, Backups, Connections, Announcing
    <3> QED BY <2>2, <3>1 DEF Fails, MailTurn
  <2> QED BY <2>1, <2>2 DEF MCNext
<1>4. [MCNext]_mcVars => [NoticeNext]_noticeVars
  <2>1. Announcing => NoticeNext
    BY DEF Announcing, NoticeNext, NoticeStep
  <2> QED BY <2>1 DEF MCNext, mcVars
<1> QED BY <1>1, <1>2, <1>3, <1>4, PTL DEF MCSpec, HubSpec, MailSpec, NoticeSpec
-----------------------------------------------------------------------------
(* Leader election: two punctual replicas never lead together, since the      *)
(* lease outlasts the call that renews it.                                    *)

\* Only a leader renews, only one who is not the leader tries SETNX, and a
\* replica that is down or starting does not lead.
Fits(r) ==
  /\ phase[r] \in {"starting", "asking"} =>
       call[r] = IF leader[r] THEN "renew" ELSE "setnx"
  /\ phase[r] \in {"off", "starting"} => ~leader[r]

\* Only a replica that is stopping can have a release under way.
NoStrayRelease ==
  \A r \in Replicas : <<r, "release">> \in late => phase[r] = "releasing"

\* The key is r's, and lasts until `debt` units after r's tick.
Holds(r, debt) == key.owner = r /\ key.left + since[r] >= TTL - debt

Lease(r) ==
  /\ phase[r] \in {"starting", "asking"} => since[r] <= Timeout
  /\ phase[r] = "idle" /\ leader[r] => Holds(r, Timeout)
  /\ phase[r] = "asking" /\ leader[r] => Holds(r, Timeout + Interval)
  /\ phase[r] \in {"starting", "asking"} /\ answer[r] = "yes" => Holds(r, 0)

LeaseInv ==
  /\ TypeOK
  /\ NoStrayRelease
  /\ \A r \in Replicas : Fits(r)
  /\ \A r \in Punctual : Lease(r)

\* A command keeps the key well formed.
LEMMA EffectType ==
  ASSUME TypeOK, NEW token \in Tokens, NEW cmd \in {"setnx", "renew", "release"}
  PROVE  Effect(token, cmd) \in [owner: Tokens \cup {Nobody}, left: 0 .. TTL]
<1>1. TTL \in 0 .. TTL /\ 0 \in 0 .. TTL
  BY LeaderAssumption
<1> QED
  BY <1>1, LeaderAssumption DEF Effect, TypeOK, Unlocked

\* The end of a process keeps the lock and the pending commands well formed.
LEMMA GoneType ==
  ASSUME TypeOK, NEW r \in Replicas,
         NEW pending \in SUBSET (Tokens \X {"setnx", "renew", "release"}),
         Gone(r, pending)
  PROVE  TypeOK'
<1>1. \A t \in Tokens : Renamed(r, t) \in Tokens
  BY DEF Renamed, Tokens
<1>2. key' \in [owner: Tokens \cup {Nobody}, left: 0 .. TTL]
  BY <1>1 DEF Gone, TypeOK, Renamed, Tokens
<1>3. late' \subseteq Tokens \X {"setnx", "renew", "release"}
  <2>1. \A x \in late \cup pending : x[1] \in Tokens /\ x[2] \in {"setnx", "renew", "release"}
    BY DEF TypeOK
  <2> QED
    BY <1>1, <2>1 DEF Gone
<1> QED
  BY <1>2, <1>3 DEF Gone, TypeOK

\* Every step of a replica, of Redis and of the clock keeps the types.
LEMMA Typing ==
  ASSUME TypeOK, [Next]_vars
  PROVE  TypeOK'
<1>0. 0 \in 0 .. Interval
  BY LeaderAssumption
<1>1. ASSUME NEW r \in Replicas, Begin(r) \/ Tick(r)
      PROVE  TypeOK'
  BY <1>0, <1>1 DEF Begin, Tick, TypeOK
<1>2. ASSUME NEW r \in Replicas, Serve(r)
      PROVE  TypeOK'
  <2>1. key' \in [owner: Tokens \cup {Nobody}, left: 0 .. TTL]
    BY <1>2, EffectType DEF Serve, TypeOK, Tokens
  <2> QED
    BY <1>2, <2>1 DEF Serve, TypeOK
<1>3. ASSUME NEW r \in Replicas, Reply(r) \/ GiveUp(r)
      PROVE  TypeOK'
  <2>1. since' \in [Replicas -> 0 .. Interval]
    BY <1>0, <1>3 DEF Reply, GiveUp, Idle, TypeOK
  <2>2. phase' \in [Replicas -> {"off", "starting", "idle", "asking", "releasing"}]
    BY <1>3 DEF Reply, GiveUp, Idle, TypeOK
  <2>3. leader' \in [Replicas -> BOOLEAN]
    BY <1>3 DEF Reply, GiveUp, TypeOK
  <2> QED
    BY <1>3, <2>1, <2>2, <2>3 DEF Reply, GiveUp, TypeOK, Tokens
<1>4. ASSUME NEW r \in Replicas, Retry(r) \/ Stop(r)
      PROVE  TypeOK'
  BY <1>4 DEF Retry, Stop, TypeOK, Tokens
<1>5. ASSUME NEW r \in Replicas, Exit(r) \/ Crash(r)
      PROVE  TypeOK'
  <2>1. {<<r, call[r]>>} \in SUBSET (Tokens \X {"setnx", "renew", "release"})
    BY DEF TypeOK, Tokens
  <2> QED
    BY <1>5, <2>1, GoneType DEF Exit, Crash
<1>6. ASSUME NEW x \in late, ServeLate(x[1], x[2])
      PROVE  TypeOK'
  <2>1. x[1] \in Tokens /\ x[2] \in {"setnx", "renew", "release"}
    BY DEF TypeOK
  <2>2. key' \in [owner: Tokens \cup {Nobody}, left: 0 .. TTL]
    BY <1>6, <2>1, EffectType DEF ServeLate
  <2> QED
    BY <1>6, <2>2 DEF ServeLate, TypeOK
<1>7. ASSUME Advance
      PROVE  TypeOK'
  <2>1. key' \in [owner: Tokens \cup {Nobody}, left: 0 .. TTL]
    <3>1. key.left \in 0 .. TTL
      BY DEF TypeOK
    <3>2. CASE key.left <= 1
      BY <1>7, <3>2, LeaderAssumption DEF Advance, Unlocked
    <3>3. CASE ~(key.left <= 1)
      <4>1. key.left - 1 \in 0 .. TTL
        BY <3>1, <3>3, LeaderAssumption
      <4> QED
        BY <1>7, <3>3, <4>1 DEF Advance, TypeOK
    <3> QED
      BY <3>2, <3>3
  <2>2. since' \in [Replicas -> 0 .. Interval]
    BY <1>7, LeaderAssumption DEF Advance, TypeOK
  <2> QED
    BY <1>7, <2>1, <2>2 DEF Advance, TypeOK
<1>8. CASE UNCHANGED vars
  BY <1>8 DEF vars, TypeOK
<1> QED
  BY <1>1, <1>2, <1>3, <1>4, <1>5, <1>6, <1>7, <1>8 DEF Next, Fault

(***************************************************************************)
(* The state of the election is always well formed.                        *)
(***************************************************************************)
THEOREM ElectionTypes == Spec => []TypeOK
<1>1. Init => TypeOK
  BY LeaderAssumption DEF Init, TypeOK, Unlocked
<1> QED
  BY <1>1, Typing, PTL DEF Spec
-----------------------------------------------------------------------------
(* The lease.                                                               *)

\* Commands fit the role of the replica that sends them.
LEMMA FitsStep ==
  ASSUME LeaseInv, [Next]_vars
  PROVE  \A r \in Replicas : Fits(r)'
<1> SUFFICES ASSUME NEW r \in Replicas
             PROVE  Fits(r)'
  OBVIOUS
<1>0. TypeOK /\ Fits(r)
  BY DEF LeaseInv
<1>1. ASSUME NEW q \in Replicas, Begin(q) \/ Tick(q) \/ Reply(q) \/ GiveUp(q)
      PROVE  Fits(r)'
  BY <1>0, <1>1 DEF Fits, TypeOK, Begin, Tick, Reply, GiveUp, Idle, LeaseInv
<1>2. ASSUME NEW q \in Replicas, Serve(q) \/ Retry(q) \/ Stop(q)
      PROVE  Fits(r)'
  BY <1>0, <1>2 DEF Fits, TypeOK, Serve, Retry, Stop
<1>3. ASSUME NEW q \in Replicas, Exit(q) \/ Crash(q)
      PROVE  Fits(r)'
  BY <1>0, <1>3 DEF Fits, TypeOK, Exit, Crash, Gone
<1>4. ASSUME NEW x \in late, ServeLate(x[1], x[2])
      PROVE  Fits(r)'
  BY <1>0, <1>4 DEF Fits, ServeLate
<1>5. CASE Advance \/ UNCHANGED vars
  BY <1>0, <1>5 DEF Fits, Advance, vars
<1> QED
  BY <1>1, <1>2, <1>3, <1>4, <1>5 DEF Next, Fault

\* A release that Redis may still run belongs to a replica that is stopping.
LEMMA StrayStep ==
  ASSUME LeaseInv, [Next]_vars
  PROVE  NoStrayRelease'
<1> SUFFICES ASSUME NEW r \in Replicas, <<r, "release">> \in late'
             PROVE  phase'[r] = "releasing"
  BY DEF NoStrayRelease
<1>0. /\ TypeOK
      /\ Fits(r)
      /\ <<r, "release">> \in late => phase[r] = "releasing"
      /\ Former \notin Replicas
  BY LeaderAssumption DEF LeaseInv, NoStrayRelease
<1>1. ASSUME NEW q \in Replicas, Begin(q) \/ Tick(q) \/ Serve(q) \/ Reply(q)
      PROVE  phase'[r] = "releasing"
  BY <1>0, <1>1 DEF TypeOK, Begin, Tick, Serve, Reply, Idle
<1>2. ASSUME NEW q \in Replicas, Retry(q) \/ GiveUp(q)
      PROVE  phase'[r] = "releasing"
  <2>1. Fits(q)
    BY DEF LeaseInv
  <2> QED
    BY <1>0, <1>2, <2>1 DEF TypeOK, Retry, GiveUp, Idle, Calling, Fits
<1>3. ASSUME NEW q \in Replicas, Stop(q)
      PROVE  phase'[r] = "releasing"
  BY <1>0, <1>3 DEF TypeOK, Stop
<1>4. ASSUME NEW q \in Replicas, Exit(q) \/ Crash(q)
      PROVE  phase'[r] = "releasing"
  <2>1. PICK pending \in SUBSET {<<q, call[q]>>} : Gone(q, pending)
    BY <1>4 DEF Exit, Crash
  <2>2. PICK x \in late \cup pending : <<r, "release">> = <<Renamed(q, x[1]), x[2]>>
    BY <2>1 DEF Gone
  <2>3. x[1] = r /\ r # q
    BY <1>0, <2>2 DEF Renamed
  <2>4. x \in late /\ x = <<r, "release">>
    <3>0. x \in pending => x[1] = q
      <4>1. <<q, call[q]>>[1] = q
        OBVIOUS
      <4>2. x \in pending => x = <<q, call[q]>>
        BY <2>1
      <4> QED
        BY <4>1, <4>2
    <3>1. x \in late
      BY <2>2, <2>3, <3>0
    <3>2. x[2] = "release"
      BY <2>2
    <3>3. x = <<x[1], x[2]>>
      BY <1>0, <3>1 DEF TypeOK
    <3> QED
      BY <2>3, <3>1, <3>2, <3>3
  <2> QED
    BY <1>0, <2>1, <2>3, <2>4 DEF Gone, TypeOK
<1>5. ASSUME NEW x \in late, ServeLate(x[1], x[2])
      PROVE  phase'[r] = "releasing"
  BY <1>0, <1>5 DEF ServeLate
<1>6. CASE Advance \/ UNCHANGED vars
  BY <1>0, <1>6 DEF Advance, vars
<1> QED
  BY <1>1, <1>2, <1>3, <1>4, <1>5, <1>6 DEF Next, Fault

\* While r holds the key, commands of others and r's own late ones leave it to
\* r with no less time.
LEMMA EffectKeeps ==
  ASSUME TypeOK, NEW r \in Replicas, key.owner = r,
         NEW token \in Tokens, NEW cmd \in {"setnx", "renew", "release"},
         token = r => cmd # "release"
  PROVE  Effect(token, cmd).owner = r /\ Effect(token, cmd).left >= key.left
<1>1. r # Nobody
  BY LeaderAssumption
<1> QED
  BY <1>1, LeaderAssumption DEF Effect, Accepts, TypeOK

\* A punctual replica's lease is long enough, whatever happens meanwhile.
LEMMA LeaseStep ==
  ASSUME LeaseInv, [Next]_vars, NEW r \in Punctual
  PROVE  Lease(r)'
<1>0. /\ r \in Replicas
      /\ TypeOK
      /\ Fits(r)
      /\ Lease(r)
      /\ key.left \in Nat /\ since[r] \in Nat
      /\ TTL \in Nat /\ Interval \in Nat /\ Timeout \in Nat
      /\ 0 < Timeout /\ Timeout <= Interval /\ Interval + 2 * Timeout < TTL
  BY LeaderAssumption DEF LeaseInv, TypeOK
<1>1. ASSUME UNCHANGED <<phase[r], leader[r], answer[r], since[r]>>,
             key.owner = r => \/ key'.owner = r /\ key'.left >= key.left
                              \/ phase[r] \in {"off", "releasing"},
             key'.left \in Nat
      PROVE  Lease(r)'
  BY <1>0, <1>1 DEF Lease, Holds
<1>2. CASE UNCHANGED vars
  BY <1>0, <1>1, <1>2 DEF vars
<1>3. ASSUME Begin(r)
      PROVE  Lease(r)'
  BY <1>0, <1>3 DEF Begin, Lease, Holds, TypeOK, Fits
<1>4. ASSUME Tick(r)
      PROVE  Lease(r)'
  <2>1. since[r] <= Interval
    BY <1>0 DEF TypeOK
  <2> QED
    BY <1>0, <1>4, <2>1 DEF Tick, Lease, Holds, TypeOK
<1>5. ASSUME Serve(r)
      PROVE  Lease(r)'
  <2>1. CASE phase[r] = "releasing"
    BY <1>0, <1>5, <2>1 DEF Serve, Lease, TypeOK
  <2>2. CASE phase[r] \in {"starting", "asking"}
    <3>1. call[r] \in {"setnx", "renew"}
      BY <1>0, <2>2 DEF Fits
    <3>2. CASE Accepts(r, call[r])
      <4>1. key'.owner = r /\ key'.left = TTL
        BY <1>0, <1>5, <3>1, <3>2 DEF Serve, Effect, Accepts, TypeOK
      <4> QED
        BY <1>0, <1>5, <2>2, <4>1 DEF Serve, Lease, Holds, TypeOK
    <3>3. CASE ~Accepts(r, call[r])
      <4>1. key' = key /\ answer'[r] = "no"
        BY <1>0, <1>5, <3>3 DEF Serve, Effect, TypeOK
      <4> QED
        BY <1>0, <1>5, <4>1 DEF Serve, Lease, Holds, TypeOK
    <3> QED
      BY <3>2, <3>3
  <2> QED
    BY <1>5, <2>1, <2>2 DEF Serve, Calling
<1>6. ASSUME Reply(r)
      PROVE  Lease(r)'
  <2>1. /\ phase[r] \in {"starting", "asking"} /\ since[r] <= Timeout
        /\ phase'[r] = "idle"
        /\ UNCHANGED key
        /\ since'[r] = IF phase[r] = "starting" THEN 0 ELSE since[r]
    BY <1>0, <1>6 DEF Reply, Idle, Lease, TypeOK
  <2>2. answer[r] = "yes" => Holds(r, 0)
    BY <1>0, <2>1 DEF Lease
  <2>3. leader'[r] => answer[r] = "yes"
    BY <1>0, <1>6 DEF Reply, TypeOK
  <2>4. leader'[r] => Holds(r, Timeout)'
    BY <1>0, <2>1, <2>2, <2>3 DEF Holds
  <2> QED
    BY <2>1, <2>4 DEF Lease
<1>7. ASSUME GiveUp(r) \/ Retry(r) \/ Stop(r) \/ Exit(r) \/ Crash(r)
      PROVE  Lease(r)'
  <2>1. CASE GiveUp(r)
    BY <1>0, <2>1 DEF GiveUp, Idle, Lease, Holds, TypeOK
  <2>2. CASE Retry(r)
    BY <1>0, <2>2 DEF Retry, Lease, Holds, TypeOK
  <2>3. CASE Stop(r)
    BY <1>0, <2>3 DEF Stop, Lease, TypeOK
  <2>4. CASE Exit(r) \/ Crash(r)
    <3>1. phase'[r] = "off"
      BY <1>0, <2>4 DEF Exit, Crash, Gone, TypeOK
    <3> QED
      BY <3>1 DEF Lease
  <2> QED
    BY <1>7, <2>1, <2>2, <2>3, <2>4
<1>8. ASSUME NEW q \in Replicas \ {r},
             Begin(q) \/ Tick(q) \/ Reply(q) \/ GiveUp(q) \/ Retry(q) \/ Stop(q)
      PROVE  Lease(r)'
  <2>1. UNCHANGED <<key, phase[r], leader[r], answer[r], since[r]>>
    BY <1>0, <1>8 DEF Begin, Tick, Reply, GiveUp, Retry, Stop, Idle, TypeOK
  <2> QED
    BY <1>0, <1>1, <2>1
<1>9. ASSUME NEW q \in Replicas \ {r}, Exit(q) \/ Crash(q)
      PROVE  Lease(r)'
  <2>1. /\ UNCHANGED <<phase[r], leader[r], answer[r], since[r]>>
        /\ key' = [key EXCEPT !.owner = Renamed(q, key.owner)]
    BY <1>0, <1>9 DEF Exit, Crash, Gone, TypeOK
  <2>2. key'.left = key.left /\ (key.owner = r => key'.owner = r)
    BY <1>0, <2>1 DEF Renamed, TypeOK
  <2> QED
    BY <1>0, <1>1, <2>1, <2>2
<1>10. ASSUME NEW q \in Replicas \ {r}, Serve(q)
       PROVE  Lease(r)'
  <2>1. UNCHANGED <<phase[r], leader[r], answer[r], since[r]>>
        /\ key' = Effect(q, call[q])
    BY <1>0, <1>10 DEF Serve, TypeOK
  <2>2. q \in Tokens /\ call[q] \in {"setnx", "renew", "release"}
    BY <1>0, <1>10 DEF TypeOK, Tokens
  <2>3. key'.left \in Nat
    BY <1>0, <2>1, <2>2, EffectType
  <2>4. key.owner = r => key'.owner = r /\ key'.left >= key.left
    BY <1>0, <1>10, <2>1, <2>2, EffectKeeps
  <2> QED
    BY <1>1, <2>1, <2>3, <2>4
<1>11. ASSUME NEW x \in late, ServeLate(x[1], x[2])
       PROVE  Lease(r)'
  <2>1. UNCHANGED <<phase[r], leader[r], answer[r], since[r]>>
        /\ key' = Effect(x[1], x[2])
    BY <1>0, <1>11 DEF ServeLate, TypeOK
  <2>2. x[1] \in Tokens /\ x[2] \in {"setnx", "renew", "release"} /\ x = <<x[1], x[2]>>
    BY <1>0 DEF TypeOK
  <2>3. key'.left \in Nat
    BY <1>0, <2>1, <2>2, EffectType
  <2>4. x[1] = r /\ x[2] = "release" => phase[r] = "releasing"
    BY <1>0, <2>2 DEF LeaseInv, NoStrayRelease
  <2>5. phase[r] # "releasing" /\ key.owner = r =>
          key'.owner = r /\ key'.left >= key.left
    BY <1>0, <2>1, <2>2, <2>4, EffectKeeps
  <2> QED
    BY <1>1, <2>1, <2>3, <2>5
<1>12. ASSUME Advance
       PROVE  Lease(r)'
  <2>1. /\ UNCHANGED <<phase[r], leader[r], answer[r]>>
        /\ since'[r] = IF since[r] < Interval THEN since[r] + 1 ELSE since[r]
        /\ ~Overdue(r)
    BY <1>0, <1>12 DEF Advance, TypeOK
  <2>2. since[r] <= Interval
    BY <1>0 DEF TypeOK
  <2>3. key.left > 1 => key'.owner = key.owner /\ key'.left = key.left - 1
    BY <1>0, <1>12 DEF Advance, TypeOK
  <2>4. CASE phase[r] \in {"off", "releasing"}
    BY <2>1, <2>4 DEF Lease
  <2>5. CASE phase[r] = "idle"
    BY <1>0, <2>1, <2>2, <2>3, <2>5 DEF Lease, Holds, Overdue
  <2>6. CASE phase[r] \in {"starting", "asking"}
    <3>1. since[r] < Timeout /\ since'[r] = since[r] + 1
      BY <1>0, <2>1, <2>6 DEF Lease, Overdue
    <3> QED
      BY <1>0, <2>1, <2>3, <2>6, <3>1 DEF Lease, Holds
  <2> QED
    BY <1>0, <2>4, <2>5, <2>6 DEF TypeOK
<1> QED
  BY <1>2, <1>3, <1>4, <1>5, <1>6, <1>7, <1>8, <1>9, <1>10, <1>11, <1>12 DEF Next, Fault

(***************************************************************************)
(* A renewal every third of the TTL, a bounded call and stepping down on   *)
(* the first error are enough: the punctual replicas never run the gated   *)
(* work two at a time, although Redis may run commands late or twice.      *)
(***************************************************************************)
THEOREM AtMostOneLeader == Spec => []OneLeader
<1>1. Init => LeaseInv
  BY LeaderAssumption DEF Init, LeaseInv, TypeOK, NoStrayRelease, Fits, Lease, Unlocked
<1>2. LeaseInv /\ [Next]_vars => LeaseInv'
  BY Typing, StrayStep, FitsStep, LeaseStep DEF LeaseInv
<1>3. LeaseInv => OneLeader
  <2> SUFFICES ASSUME LeaseInv, NEW r \in Punctual, Acts(r)
               PROVE  key.owner = r
    BY DEF OneLeader
  <2> QED
    BY DEF LeaseInv, Lease, Holds, Acts
<1> QED
  BY <1>1, <1>2, <1>3, PTL DEF Spec

(***************************************************************************)
(* The refinement.                                                         *)
(***************************************************************************)

\* The owner of the abstract lock, and the replicas at work under it.
OwnerOf == IF key.owner \in Punctual THEN key.owner ELSE Nobody
Leaders == {r \in Punctual : Acts(r)}

\* What a step of the abstract lock is, in terms of the election's variables.
Abstractly ==
  \/ \E r \in Punctual : \/ OwnerOf = Nobody /\ OwnerOf' = r /\ Leaders' = Leaders
                         \/ OwnerOf = r /\ Leaders' = Leaders \cup {r} /\ OwnerOf' = OwnerOf
                         \/ Leaders' = Leaders \ {r} /\ OwnerOf' = OwnerOf
  \/ OwnerOf' = Nobody /\ Leaders' = Leaders \ {OwnerOf}
  \/ OwnerOf' = OwnerOf /\ Leaders' = Leaders

\* A command run by Redis leaves the work alone; when it takes the lock from a
\* punctual replica, that replica was not at work.
LEMMA CommandRefines ==
  ASSUME LeaseInv, LeaseInv', UNCHANGED <<phase, leader>>,
         \/ key'.owner = key.owner
         \/ key.owner = Nobody
         \/ key'.owner = Nobody
  PROVE  Abstractly
<1>1. Leaders' = Leaders
  BY DEF Leaders, Acts
<1>2. \A r \in Leaders : r = key.owner /\ r = key'.owner
  BY <1>1 DEF Leaders, Acts, LeaseInv, Lease, Holds
<1>3. CASE key'.owner = key.owner
  BY <1>1, <1>3 DEF Abstractly, OwnerOf
<1>4. CASE key.owner = Nobody
  BY <1>1, <1>4, LeaderAssumption DEF Abstractly, OwnerOf
<1>5. CASE key'.owner = Nobody
  <2>1. Leaders = {}
    BY <1>2, <1>5, LeaderAssumption DEF Leaders
  <2> QED
    BY <1>1, <1>5, <2>1, LeaderAssumption DEF Abstractly, OwnerOf
<1> QED
  BY <1>3, <1>4, <1>5

\* A replica that begins or ends its work, or goes on, leaves the lock alone.
LEMMA ReplicaRefines ==
  ASSUME LeaseInv, LeaseInv', UNCHANGED key, NEW r \in Replicas,
         \A q \in Replicas \ {r} : UNCHANGED <<phase[q], leader[q]>>
  PROVE  Abstractly
<1>1. \A q \in Punctual : Acts(q) => key.owner = q
  BY DEF Acts, LeaseInv, Lease, Holds
<1>2. Acts(r)' /\ r \in Punctual => key.owner = r
  BY DEF Acts, LeaseInv, Lease, Holds
<1>3. \A q \in Punctual \ {r} : Acts(q)' = Acts(q)
  BY LeaderAssumption DEF Acts
<1>4. CASE r \notin Punctual
  BY <1>3, <1>4 DEF Abstractly, OwnerOf, Leaders
<1>5. CASE r \in Punctual /\ Acts(r)'
  <2>1. Leaders' = Leaders \cup {r}
    BY <1>3, <1>5 DEF Leaders
  <2> QED
    BY <1>2, <1>5, <2>1 DEF Abstractly, OwnerOf
<1>6. CASE r \in Punctual /\ ~Acts(r)'
  <2>1. Leaders' = Leaders \ {r}
    BY <1>3, <1>6 DEF Leaders
  <2> QED
    BY <1>6, <2>1 DEF Abstractly, OwnerOf
<1> QED
  BY <1>4, <1>5, <1>6

\* A process that ends stops its work, and nobody owns the lock it held.
LEMMA EndRefines ==
  ASSUME LeaseInv, LeaseInv', NEW r \in Replicas, Exit(r) \/ Crash(r)
  PROVE  Abstractly
<1>1. /\ key'.owner = Renamed(r, key.owner)
      /\ phase'[r] = "off"
      /\ \A q \in Replicas \ {r} : UNCHANGED <<phase[q], leader[q]>>
  BY DEF Exit, Crash, Gone, LeaseInv, TypeOK
<1>2. \A q \in Punctual \ {r} : Acts(q)' = Acts(q)
  BY <1>1, LeaderAssumption DEF Acts
<1>3. ~Acts(r)'
  BY <1>1 DEF Acts
<1>4. Leaders' = Leaders \ {r}
  BY <1>2, <1>3 DEF Leaders
<1>5. CASE key.owner = r
  <2>1. OwnerOf' = Nobody
    BY <1>1, <1>5, LeaderAssumption DEF OwnerOf, Renamed
  <2>2. r \in Punctual => OwnerOf = r
    BY <1>5 DEF OwnerOf
  <2>3. r \notin Punctual => Leaders \ {r} = Leaders \ {OwnerOf}
    BY <1>5, LeaderAssumption DEF Leaders, OwnerOf
  <2> QED
    BY <1>4, <2>1, <2>2, <2>3 DEF Abstractly
<1>6. CASE key.owner # r
  <2>1. OwnerOf' = OwnerOf
    BY <1>1, <1>6 DEF OwnerOf, Renamed
  <2>2. r \notin Punctual => Leaders \ {r} = Leaders
    BY DEF Leaders
  <2> QED
    BY <1>4, <2>1, <2>2 DEF Abstractly
<1> QED
  BY <1>5, <1>6

\* Every step of the election is a step of the abstract lock, or none.
LEMMA StepRefines ==
  ASSUME LeaseInv, LeaseInv', [Next]_vars
  PROVE  Abstractly
<1>1. CASE UNCHANGED vars
  BY <1>1 DEF vars, Abstractly, OwnerOf, Leaders, Acts
<1>2. ASSUME NEW r \in Replicas,
             Begin(r) \/ Tick(r) \/ Reply(r) \/ GiveUp(r) \/ Retry(r) \/ Stop(r)
      PROVE  Abstractly
  <2>1. UNCHANGED key /\ \A q \in Replicas \ {r} : UNCHANGED <<phase[q], leader[q]>>
    BY <1>2 DEF Begin, Tick, Reply, GiveUp, Retry, Stop, Idle, LeaseInv, TypeOK
  <2> QED
    BY <2>1, ReplicaRefines
<1>3. ASSUME NEW r \in Replicas, Exit(r) \/ Crash(r)
      PROVE  Abstractly
  BY <1>3, EndRefines
<1>4. ASSUME NEW r \in Replicas, Serve(r)
      PROVE  Abstractly
  BY <1>4, CommandRefines DEF Serve, Effect, Accepts, Unlocked, LeaseInv, TypeOK
<1>5. ASSUME NEW x \in late, ServeLate(x[1], x[2])
      PROVE  Abstractly
  BY <1>5, CommandRefines DEF ServeLate, Effect, Accepts, Unlocked, LeaseInv, TypeOK
<1>6. CASE Advance
  BY <1>6, CommandRefines DEF Advance, Unlocked, LeaseInv, TypeOK
<1> QED
  BY <1>1, <1>2, <1>3, <1>4, <1>5, <1>6 DEF Next, Fault

(***************************************************************************)
(* The election implements the lock of LeaseLock for every number of       *)
(* replicas and every TTL, Interval and Timeout within the assumption: the *)
(* lock never passes from a punctual replica that is at work.              *)
(***************************************************************************)
THEOREM ImplementsLeaseLock == Spec => LeadsUnderLock
<1>1. Init => LeaseInv
  BY LeaderAssumption DEF Init, LeaseInv, TypeOK, NoStrayRelease, Fits, Lease, Unlocked
<1>2. LeaseInv /\ [Next]_vars => LeaseInv'
  BY Typing, StrayStep, FitsStep, LeaseStep DEF LeaseInv
<1>3. Init => Lock!Init
  BY LeaderAssumption DEF Init, Lock!Init, Acts, Unlocked
<1>4. LeaseInv /\ LeaseInv' /\ [Next]_vars => [Lock!Next]_(Lock!lock)
  BY StepRefines DEF Abstractly, OwnerOf, Leaders, Lock!Next, Lock!Acquire,
     Lock!StartWork, Lock!StopWork, Lock!Lose, Lock!lock
<1> QED
  BY <1>1, <1>2, <1>3, <1>4, PTL DEF Spec, LeadsUnderLock, Lock!Spec
=============================================================================
