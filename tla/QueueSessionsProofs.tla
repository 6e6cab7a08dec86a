------------------------ MODULE QueueSessionsProofs ------------------------
(***************************************************************************)
(* Theorems about QueueSessions, for every number of sessions, rooms,      *)
(* groups and overlapping requests:                                        *)
(*   SessionTypes     the rows and the requests stay well formed           *)
(*   GroupsStayPairs  a concurrent group has at most two sessions, and     *)
(*                    they agree about its mode until a settings form      *)
(*                    puts back a group or a mode that is out of date      *)
(*   StaysInLifeCycle what leaves the life cycle of a session              *)
(***************************************************************************)
EXTENDS QueueSessions, FiniteSetTheorems, TLAPS

\* The table and the requests, without the histories.
TablesOK == row \in [Sessions -> Row] /\ req \in [Requests -> Request]

\* A new row is a row.
LEMMA NewRowType == NewRow \in Row
BY SessionsAssumption DEF NewRow, Row, Modes

\* Ending a request, or sending it to its next statement, keeps the type.
LEMMA GoesType ==
  ASSUME TablesOK, NEW q \in Requests,
         NEW next \in {"none", "start", "group"}, Goes(q, next)
  PROVE  req' \in [Requests -> Request]
<1>1. [req[q] EXCEPT !.next = next] \in Request
  BY DEF TablesOK, Request
<1>2. req' = [req EXCEPT ![q] = [req[q] EXCEPT !.next = next]]
  BY DEF Goes, TablesOK
<1> QED
  BY <1>1, <1>2 DEF TablesOK

\* Reading a row starts a well-formed request.
LEMMA ReadsType ==
  ASSUME TablesOK, NEW q \in Requests, NEW s \in Sessions,
         NEW next \in {"save", "check", "start", "group", "close", "partner",
                       "unlink", "mode", "stale", "abandoned"},
         NEW target \in {"active", "paused"}, NEW direct \in BOOLEAN,
         Begins(q, s, next, target, direct)
  PROVE  TablesOK'
<1>1. [next |-> next, on |-> s, with |-> s, seen |-> row[s], direct |-> direct,
       target |-> target, ids |-> {}] \in Request
  BY DEF TablesOK, Request
<1> QED
  BY <1>1 DEF Begins, TablesOK

\* An UPDATE writes well-formed rows if what it computes is well formed.
LEMMA PutType ==
  ASSUME TablesOK, NEW S, NEW after, Put(S, after),
         \A s \in Sessions : after[s] \in Row
  PROVE  row' \in [Sessions -> Row]
BY DEF Put, TablesOK

\* The changes of a row that the requests make keep it a row.
LEMMA RowChanges ==
  ASSUME NEW r \in Row
  PROVE  /\ \A x \in {"draft", "active", "paused", "closed", "deleted"} :
              [r EXCEPT !.status = x] \in Row
         /\ [r EXCEPT !.status = "active", !.started = TRUE] \in Row
         /\ [r EXCEPT !.group = NoGroup] \in Row
         /\ [r EXCEPT !.group = NoGroup, !.mode = "joint"] \in Row
         /\ \A mode \in Modes : [r EXCEPT !.mode = mode] \in Row
         /\ \A mode \in Modes, g \in Groups :
              [r EXCEPT !.group = g, !.mode = mode] \in Row
         /\ \A room \in Rooms : [r EXCEPT !.room = room] \in Row
BY DEF Row, Modes

\* So an UPDATE of the status keeps the type.
LEMMA PutStatusType ==
  ASSUME TablesOK, NEW S, NEW x \in {"active", "paused", "closed"}, Put(S, WithStatus(x))
  PROVE  row' \in [Sessions -> Row]
<1>1. \A s \in Sessions : WithStatus(x)[s] \in Row
  <2> SUFFICES ASSUME NEW s \in Sessions
               PROVE  [row[s] EXCEPT !.status = x] \in Row
    BY DEF WithStatus
  <2> QED
    BY RowChanges DEF TablesOK
<1> QED
  BY <1>1, PutType

\* Creating, deleting and editing.
LEMMA TypesOfRows ==
  ASSUME TablesOK, Creating \/ Deleting \/ Editing
  PROVE  TablesOK'
<1>0. \A s \in Sessions : row[s] \in Row
  BY DEF TablesOK
<1>1. ASSUME NEW s \in Sessions, NEW room \in Rooms, Create(s, room)
      PROVE  TablesOK'
  <2>1. [row[s] EXCEPT !.status = "draft", !.room = room] \in Row
    BY <1>0 DEF Row
  <2>2. row' = [row EXCEPT ![s] = [row[s] EXCEPT !.status = "draft", !.room = room]]
    BY <1>0, <1>1 DEF Create, TablesOK, Row
  <2> QED
    BY <1>1, <2>1, <2>2 DEF Create, TablesOK
<1>2. ASSUME NEW s \in Sessions, Delete(s)
      PROVE  TablesOK'
  <2>1. [row[s] EXCEPT !.status = "deleted"] \in Row
    BY <1>0, RowChanges
  <2>2. row' = [row EXCEPT ![s] = [row[s] EXCEPT !.status = "deleted"]]
    BY <1>2 DEF Delete, TablesOK
  <2> QED
    BY <1>2, <2>1, <2>2 DEF Delete, TablesOK
<1>3. ASSUME NEW q \in Requests, NEW room \in Rooms, Save(q, room)
      PROVE  TablesOK'
  <2>1. req[q].seen \in Row /\ [req[q].seen EXCEPT !.room = room] \in Row
    BY RowChanges DEF TablesOK, Request
  <2>2. req' \in [Requests -> Request]
    BY <1>3, GoesType DEF Save, Ends
  <2>3. row' \in [Sessions -> Row]
    BY <1>3, <2>1 DEF Save, TablesOK
  <2> QED
    BY <2>2, <2>3 DEF TablesOK
<1>4. ASSUME NEW q \in Requests, NEW s \in Sessions, ReadToEdit(q, s)
      PROVE  TablesOK'
  BY <1>4, ReadsType DEF ReadToEdit, Reads, ReadsFor
<1> QED
  BY <1>1, <1>2, <1>3, <1>4 DEF Creating, Deleting, Editing

\* Requests that have only read.
LEMMA TypesOfAsking ==
  ASSUME TablesOK, Asking \/ AskingDirectly
  PROVE  TablesOK'
BY ReadsType DEF Asking, AskingDirectly, AskToOpen, AskToPause, AskToClose,
                 DirectRoute, Reads, ReadsFor

\* The statements of the status requests.
LEMMA TypesOfChanging ==
  ASSUME TablesOK, Changing
  PROVE  TablesOK'
<1>0. /\ \A s \in Sessions : row[s] \in Row
      /\ \A q \in Requests : req[q] \in Request /\ req[q].on \in Sessions
      /\ row \in [Sessions -> Row] /\ req \in [Requests -> Request]
  BY DEF TablesOK, Request
<1>1. PICK q \in Requests :
        \/ CheckRoom(q) \/ Start(q) \/ ReadGroup(q) \/ ReadMembers(q)
        \/ Pause(q) \/ Resume(q) \/ Close(q)
  BY DEF Changing
<1>2. CASE CheckRoom(q)
  <2>1. req' \in [Requests -> Request]
    BY <1>2, GoesType DEF CheckRoom, Ends
  <2> QED
    BY <1>0, <1>2, <2>1 DEF CheckRoom, TablesOK
<1>3. CASE Start(q)
  <2>1. req' \in [Requests -> Request]
    BY <1>3, GoesType DEF Start, Ends
  <2> DEFINE after == [s \in Sessions |-> [row[s] EXCEPT !.status = "active",
                                                         !.started = TRUE]]
  <2>2. \A s \in Sessions : after[s] \in Row
    BY <1>0, RowChanges
  <2>3. Put({req[q].on}, after)
    BY <1>3 DEF Start
  <2> HIDE DEF after
  <2>4. row' \in [Sessions -> Row]
    BY <2>2, <2>3, PutType
  <2> QED
    BY <2>1, <2>4 DEF TablesOK
<1>4. CASE ReadGroup(q)
  <2>1. /\ [req[q] EXCEPT !.next = "members", !.seen = row[req[q].on]] \in Request
        /\ [req[q] EXCEPT !.next = req[q].target, !.ids = {req[q].on}] \in Request
    BY <1>0 DEF Request
  <2> QED
    BY <1>0, <1>4, <2>1 DEF ReadGroup, TablesOK
<1>5. CASE ReadMembers(q)
  <2>1. [req[q] EXCEPT !.next = req[q].target,
                       !.ids = {s \in InGroup(req[q].seen.group) : Exists(s)}]
          \in Request
    BY <1>0 DEF Request, InGroup
  <2> QED
    BY <1>0, <1>5, <2>1 DEF ReadMembers, TablesOK
<1>6. CASE Pause(q)
  <2>1. req' \in [Requests -> Request]
    BY <1>6, GoesType DEF Pause, Ends
  <2> QED
    BY <1>6, <2>1, PutStatusType DEF Pause, TablesOK
<1>7. CASE Resume(q)
  <2>1. CASE UNCHANGED row /\ Ends(q)
    BY <1>0, <2>1, GoesType DEF Ends, TablesOK
  <2>2. ASSUME NEW s \in req[q].ids, Put({s}, WithStatus("active")),
               req' = [req EXCEPT ![q].ids = @ \ {s}]
        PROVE  TablesOK'
    <3>1. [req[q] EXCEPT !.ids = @ \ {s}] \in Request
      BY <1>0 DEF Request
    <3>2. req' = [req EXCEPT ![q] = [req[q] EXCEPT !.ids = @ \ {s}]]
      BY <1>0, <2>2
    <3>3. row' \in [Sessions -> Row]
      BY <2>2, PutStatusType
    <3> QED
      BY <1>0, <3>1, <3>2, <3>3 DEF TablesOK
  <2> QED
    BY <1>7, <2>1, <2>2 DEF Resume
<1>8. CASE Close(q)
  <2> DEFINE s == req[q].on
             after == [t \in Sessions |->
                         [row[t] EXCEPT !.group = NoGroup,
                                        !.status = IF t = s THEN "closed" ELSE @]]
  <2>1. req' \in [Requests -> Request]
    BY <1>8, GoesType DEF Close, Ends
  <2>2. \A t \in Sessions : after[t] \in Row
    BY <1>0 DEF Row
  <2>3. \E S : Put(S, after)
    BY <1>8 DEF Close
  <2> HIDE DEF after
  <2>4. row' \in [Sessions -> Row]
    BY <2>2, <2>3, PutType
  <2> QED
    BY <2>1, <2>4 DEF TablesOK
<1> QED
  BY <1>1, <1>2, <1>3, <1>4, <1>5, <1>6, <1>7, <1>8

\* The closing jobs.
LEMMA TypesOfCleaning ==
  ASSUME TablesOK, Cleaning
  PROVE  TablesOK'
<1>0. \A s \in Sessions : row[s] \in Row
  BY DEF TablesOK
<1>1. ASSUME NEW q \in Requests, NEW s \in Sessions, ListStale(q, s) \/ ListAbandoned(q, s)
      PROVE  TablesOK'
  BY <1>1, ReadsType DEF ListStale, ListAbandoned, Reads, ReadsFor
<1>2. ASSUME NEW q \in Requests, CloseStale(q) \/ CloseAbandoned(q)
      PROVE  TablesOK'
  <2>1. req' \in [Requests -> Request]
    BY <1>2, GoesType DEF CloseStale, CloseAbandoned, Ends
  <2>2. UNCHANGED row \/ \E S : Put(S, WithStatus("closed"))
    BY <1>2 DEF CloseStale, CloseAbandoned
  <2>3. row' \in [Sessions -> Row]
    BY <2>2, PutStatusType DEF TablesOK
  <2> QED
    BY <2>1, <2>3 DEF TablesOK
<1> QED
  BY <1>1, <1>2 DEF Cleaning

\* Linking, unlinking and setting the mode.
LEMMA TypesOfLinking ==
  ASSUME TablesOK, Linking
  PROVE  TablesOK'
<1>0. /\ \A s \in Sessions : row[s] \in Row
      /\ \A q \in Requests : req[q] \in Request
      /\ row \in [Sessions -> Row] /\ req \in [Requests -> Request]
  BY DEF TablesOK
<1>1. ASSUME NEW q \in Requests, NEW s \in Sessions,
             ReadToLink(q, s) \/ ReadToUnlink(q, s) \/ ReadToSetMode(q, s)
      PROVE  TablesOK'
  BY <1>1, ReadsType DEF ReadToLink, ReadToUnlink, ReadToSetMode, Reads, ReadsFor
<1>2. ASSUME NEW q \in Requests, NEW t \in Sessions, ReadPartner(q, t)
      PROVE  TablesOK'
  <2> DEFINE next == Decision(req[q].seen, row[t])
  <2>1. next \in {"relink", "link", "none"}
    BY DEF Decision
  <2>2. [req[q] EXCEPT !.with = t, !.next = next] \in Request
    BY <1>0, <2>1 DEF Request
  <2>3. req' = [req EXCEPT ![q] = [req[q] EXCEPT !.with = t, !.next = next]]
    BY <1>0, <1>2 DEF ReadPartner
  <2> HIDE DEF next
  <2> QED
    BY <1>0, <1>2, <2>2, <2>3 DEF ReadPartner, TablesOK
<1>3. ASSUME NEW q \in Requests, GiveUpLinking(q)
      PROVE  TablesOK'
  BY <1>0, <1>3, GoesType DEF GiveUpLinking, Ends, TablesOK
<1>4. ASSUME NEW q \in Requests, NEW mode \in Modes, NEW g \in Groups,
             Link(q, g, mode)
      PROVE  TablesOK'
  <2> DEFINE after == [s \in Sessions |-> [row[s] EXCEPT !.group = g, !.mode = mode]]
  <2>1. req' \in [Requests -> Request]
    BY <1>4, GoesType DEF Link, Ends
  <2>2. \A s \in Sessions : after[s] \in Row
    BY <1>0, RowChanges
  <2>3. Put({req[q].on, req[q].with}, after)
    BY <1>4 DEF Link
  <2> HIDE DEF after
  <2>4. row' \in [Sessions -> Row]
    BY <2>2, <2>3, PutType
  <2> QED
    BY <2>1, <2>4 DEF TablesOK
<1>5. ASSUME NEW q \in Requests, NEW mode \in Modes,
             Relink(q, mode) \/ SetMode(q, mode)
      PROVE  TablesOK'
  <2> DEFINE after == [s \in Sessions |-> [row[s] EXCEPT !.mode = mode]]
  <2>1. req' \in [Requests -> Request]
    BY <1>5, GoesType DEF Relink, SetMode, Ends
  <2>2. \A s \in Sessions : after[s] \in Row
    BY <1>0, RowChanges
  <2>3. Put(InGroup(req[q].seen.group), after)
    BY <1>5 DEF Relink, SetMode
  <2> HIDE DEF after
  <2>4. row' \in [Sessions -> Row]
    BY <2>2, <2>3, PutType
  <2> QED
    BY <2>1, <2>4 DEF TablesOK
<1>6. ASSUME NEW q \in Requests, Unlink(q)
      PROVE  TablesOK'
  <2> DEFINE after == [s \in Sessions |-> [row[s] EXCEPT !.group = NoGroup, !.mode = "joint"]]
  <2>1. req' \in [Requests -> Request]
    BY <1>6, GoesType DEF Unlink, Ends
  <2>2. \A s \in Sessions : after[s] \in Row
    BY <1>0, RowChanges
  <2>3. Put(InGroup(req[q].seen.group), after)
    BY <1>6 DEF Unlink
  <2> HIDE DEF after
  <2>4. row' \in [Sessions -> Row]
    BY <2>2, <2>3, PutType
  <2> QED
    BY <2>1, <2>4 DEF TablesOK
<1> QED
  BY <1>1, <1>2, <1>3, <1>4, <1>5, <1>6 DEF Linking

(***************************************************************************)
(* Every column of queue_sessions keeps to its type, whatever a request    *)
(* saves back as it had read it.                                           *)
(***************************************************************************)
THEOREM SessionTypes == Spec => []TypeOK
<1>1. Init => TypeOK
  <2> SUFFICES ASSUME Init PROVE TypeOK
    OBVIOUS
  <2>1. (CHOOSE s \in Sessions : TRUE) \in Sessions
    BY SessionsAssumption
  <2> QED
    BY <2>1, NewRowType DEF Init, TypeOK, Request
<1>2. TypeOK /\ [Next]_vars => TypeOK'
  <2> SUFFICES ASSUME TypeOK, [Next]_vars PROVE TypeOK'
    OBVIOUS
  <2>0. TablesOK
    BY DEF TypeOK, TablesOK
  <2>1. CASE UNCHANGED vars
    BY <2>1 DEF vars, TypeOK
  <2>2. CASE Next
    <3>1. TablesOK'
      BY <2>0, <2>2, TypesOfRows, TypesOfAsking, TypesOfChanging, TypesOfCleaning,
         TypesOfLinking DEF Next, Step
    <3>2. late' \subseteq Requests /\ mixed' \subseteq Groups
      <4>1. \A S \in SUBSET Requests : GroupsRead(S) \subseteq Groups
        BY DEF GroupsRead, TypeOK, Request, Row
      <4> QED
        BY <2>2, <4>1 DEF Next, Remembers, TypeOK
    <3> QED
      BY <3>1, <3>2 DEF TypeOK, TablesOK
  <2> QED
    BY <2>1, <2>2
<1> QED
  BY <1>1, <1>2, PTL DEF Spec
-----------------------------------------------------------------------------
(* What a step does to a request.                                           *)

\* Everybody but q stays where it is.
OthersStay(q) == \A p \in Requests \ {q} : req'[p] = req[p]

\* Going on to another statement changes nothing else about the request.
LEMMA GoesOn ==
  ASSUME TablesOK, NEW q \in Requests, NEW next, Goes(q, next)
  PROVE  /\ OthersStay(q)
         /\ req'[q].next = next
         /\ req'[q].on = req[q].on
         /\ req'[q].seen = req[q].seen
         /\ req'[q].direct = req[q].direct
         /\ req'[q].target = req[q].target
<1>1. req[q] \in Request
  BY DEF TablesOK
<1>2. OthersStay(q) /\ req'[q] = [req[q] EXCEPT !.next = next]
  BY DEF Goes, TablesOK, OthersStay
<1> QED
  BY <1>1, <1>2 DEF Request

\* A request that begins has read the row as it is.
LEMMA BeginsOn ==
  ASSUME TablesOK, NEW q \in Requests, NEW s \in Sessions, NEW next, NEW target,
         NEW direct, Begins(q, s, next, target, direct)
  PROVE  /\ OthersStay(q) /\ UNCHANGED row
         /\ req[q].next = "none"
         /\ row[s].status \notin {"new", "deleted"}
         /\ req'[q].next = next
         /\ req'[q].on = s
         /\ req'[q].seen = row[s]
         /\ req'[q].direct = direct
         /\ req'[q].target = target
<1>1. /\ OthersStay(q) /\ UNCHANGED row
      /\ req[q].next = "none"
      /\ row[s].status \notin {"new", "deleted"}
      /\ req'[q] = [next |-> next, on |-> s, with |-> s, seen |-> row[s],
                    direct |-> direct, target |-> target, ids |-> {}]
  BY DEF Begins, TablesOK, OthersStay, Exists
<1> QED
  BY <1>1
-----------------------------------------------------------------------------
(* Groups.                                                                  *)

\* The group of s is g, or a request for s remembers that it was.
Carries(s, g) ==
  \/ row[s].group = g
  \/ \E q \in Requests : req[q].on = s /\ req[q].seen.group = g

\* Two sessions account for all that carry a group or may get it back.
PairsOnly ==
  \A g \in Groups : \E a, b \in Sessions :
    \A s \in Sessions : Carries(s, g) => s \in {a, b}

\* An id that has not been given out has no group yet, so creating the session
\* cannot bring another mode into one.
NewRowsAreFree == \A s \in Sessions : row[s].status = "new" => row[s].group = NoGroup

\* What a form saves back was read from a session that existed.
FormsReadRows ==
  \A q \in Requests : req[q].next = "save" =>
                        req[q].seen.status \notin {"new", "deleted"}

\* The inductive invariant.
PairsInv == PairsOnly /\ ModesAgree /\ NewRowsAreFree /\ FormsReadRows

\* A step that puts s into no group it did not carry, and changes neither group
\* nor mode of s but for a group that counts as mixed from then on.
KeepsGroup(s) ==
  /\ \A g \in Groups : row'[s].group = g => Carries(s, g)
  /\ Exists(s)' /\ row'[s].group \notin mixed' \cup {NoGroup} =>
       /\ Exists(s)
       /\ row'[s].group = row[s].group
       /\ row'[s].mode = row[s].mode
  /\ row'[s].status = "new" => row'[s] = row[s]

\* A step after which a request remembers what it remembered, or what is there,
\* and that sets no mode of a whole group.
OnlyReads(q) ==
  /\ \/ req'[q].on = req[q].on /\ req'[q].seen = req[q].seen
     \/ req'[q].on \in Sessions /\ req'[q].seen = row[req'[q].on]
  /\ req'[q].next = "save" => \/ req'[q] = req[q]
                              \/ req'[q].seen.status \notin {"new", "deleted"}
  /\ ~Aligns(q)

\* Such steps keep the invariant.
LEMMA PairsLeft ==
  ASSUME PairsInv, Remembers,
         \A s \in Sessions : KeepsGroup(s), \A q \in Requests : OnlyReads(q)
  PROVE  PairsInv'
<1>1. PairsOnly'
  <2> SUFFICES ASSUME NEW g \in Groups
               PROVE  \E a, b \in Sessions : \A s \in Sessions :
                        Carries(s, g)' => s \in {a, b}
    BY DEF PairsOnly
  <2>1. PICK a \in Sessions, b \in Sessions :
          \A s \in Sessions : Carries(s, g) => s \in {a, b}
    BY DEF PairsInv, PairsOnly
  <2>2. ASSUME NEW s \in Sessions, Carries(s, g)'
        PROVE  Carries(s, g)
    <3>1. CASE row'[s].group = g
      BY <3>1 DEF KeepsGroup
    <3>2. ASSUME NEW q \in Requests, req'[q].on = s, req'[q].seen.group = g
          PROVE  Carries(s, g)
      BY <3>2 DEF OnlyReads, Carries
    <3> QED
      BY <2>2, <3>1, <3>2 DEF Carries
  <2> QED
    BY <2>1, <2>2
<1>2. mixed \subseteq mixed'
  <2>1. {q \in Requests : Aligns(q)} = {}
    BY DEF OnlyReads
  <2> QED
    BY <2>1 DEF Remembers, GroupsRead
<1>3. ModesAgree'
  BY <1>2 DEF PairsInv, ModesAgree, KeepsGroup
<1>4. NewRowsAreFree' /\ FormsReadRows'
  BY DEF PairsInv, NewRowsAreFree, FormsReadRows, KeepsGroup, OnlyReads
<1> QED
  BY <1>1, <1>3, <1>4 DEF PairsInv

\* An UPDATE that keeps or clears groups, and keeps modes and statuses apart
\* from those of a session that exists, is such a step.
LEMMA PutKeepsGroups ==
  ASSUME TablesOK, NEW S, NEW after, Put(S, after),
         \A s \in Sessions : Exists(s) => after[s].status # "new",
         \A s \in Sessions : \/ after[s].group = NoGroup
                             \/ /\ after[s].group = row[s].group
                                /\ after[s].mode = row[s].mode
  PROVE  \A s \in Sessions : KeepsGroup(s)
<1>1. \A s \in Sessions : row'[s] = IF s \in S /\ Exists(s) THEN after[s] ELSE row[s]
  BY DEF Put
<1> QED
  BY <1>1, SessionsAssumption DEF KeepsGroup, Exists, Carries

\* An UPDATE of the status moves nobody between groups.
LEMMA StatusKeepsGroups ==
  ASSUME TablesOK, NEW S, NEW x \in {"active", "paused", "closed"}, Put(S, WithStatus(x))
  PROVE  \A s \in Sessions : KeepsGroup(s)
<1>1. \A s \in Sessions : /\ WithStatus(x)[s].status = x
                          /\ WithStatus(x)[s].group = row[s].group
                          /\ WithStatus(x)[s].mode = row[s].mode
  BY DEF WithStatus, TablesOK, Row
<1> QED
  BY <1>1, PutKeepsGroups

\* Nor does reading.
LEMMA SameKeepsGroups ==
  ASSUME UNCHANGED row
  PROVE  \A s \in Sessions : KeepsGroup(s)
BY DEF KeepsGroup, Carries, Exists

\* A request that begins only reads.
LEMMA BeginsReads ==
  ASSUME TablesOK, NEW q \in Requests, NEW s \in Sessions, NEW next, NEW target,
         NEW direct, Begins(q, s, next, target, direct)
  PROVE  /\ \A p \in Requests : OnlyReads(p)
         /\ \A t \in Sessions : KeepsGroup(t)
<1>0. /\ \A p \in Requests \ {q} : req'[p] = req[p]
      /\ req[q].next = "none"
      /\ row[s].status \notin {"new", "deleted"}
      /\ req'[q].on = s /\ req'[q].seen = row[s]
  BY BeginsOn DEF OthersStay
<1>1. \A p \in Requests : ~Aligns(p)
  BY <1>0 DEF Aligns, InFlight
<1>2. \A p \in Requests : OnlyReads(p)
  BY <1>0, <1>1 DEF OnlyReads
<1>3. UNCHANGED row
  BY BeginsOn
<1> QED
  BY <1>2, <1>3, SameKeepsGroups

\* Going on to another statement reads no row.
LEMMA GoesReads ==
  ASSUME TablesOK, NEW q \in Requests, NEW next, next # "save", Goes(q, next),
         req[q].next \notin {"mode", "relink"}
  PROVE  \A p \in Requests : OnlyReads(p)
<1>1. /\ req'[q].next = next
      /\ req'[q].on = req[q].on
      /\ req'[q].seen = req[q].seen
  BY GoesOn
<1>2. \A p \in Requests \ {q} : req'[p] = req[p]
  BY GoesOn DEF OthersStay
<1>3. \A p \in Requests : ~Aligns(p)
  BY <1>2 DEF Aligns, InFlight
<1> QED
  BY <1>1, <1>2, <1>3 DEF OnlyReads

\* Sessions are created outside any group, and deleted; a form puts back what it
\* had read, and the group counts as mixed if that is out of date.
LEMMA PairsOfRows ==
  ASSUME TablesOK, PairsInv, Creating \/ Deleting \/ Editing, Remembers
  PROVE  PairsInv'
<1>0. \A s \in Sessions : row[s] \in Row
  BY DEF TablesOK
<1>1. ASSUME UNCHANGED req
      PROVE  \A q \in Requests : OnlyReads(q)
  BY <1>1 DEF OnlyReads, Aligns, InFlight
<1>2. ASSUME NEW s \in Sessions, NEW room \in Rooms, Create(s, room)
      PROVE  PairsInv'
  <2>1. /\ row[s].group = NoGroup /\ row'[s].group = NoGroup
        /\ row'[s].status = "draft"
        /\ \A t \in Sessions \ {s} : row'[t] = row[t]
    BY <1>0, <1>2 DEF Create, PairsInv, NewRowsAreFree, TablesOK, Row
  <2>2. \A t \in Sessions : KeepsGroup(t)
    BY <2>1, SessionsAssumption DEF KeepsGroup, Carries, Exists
  <2> QED
    BY <1>1, <1>2, <2>2, PairsLeft DEF Create
<1>3. ASSUME NEW s \in Sessions, Delete(s)
      PROVE  PairsInv'
  <2>1. /\ row'[s].status = "deleted" /\ row'[s].group = row[s].group
        /\ \A t \in Sessions \ {s} : row'[t] = row[t]
    BY <1>0, <1>3 DEF Delete, TablesOK, Row
  <2>2. \A t \in Sessions : KeepsGroup(t)
    BY <2>1 DEF KeepsGroup, Carries, Exists
  <2> QED
    BY <1>1, <1>3, <2>2, PairsLeft DEF Delete
<1>4. ASSUME NEW q \in Requests, NEW room \in Rooms, Save(q, room)
      PROVE  PairsInv'
  <2> DEFINE s == req[q].on
             seen == req[q].seen
  <2>0. s \in Sessions /\ seen \in Row
    BY DEF TablesOK, Request
  <2>1. \A p \in Requests : OnlyReads(p)
    BY <1>4, GoesReads DEF Save, Ends
  <2>2. /\ row'[s].group = seen.group
        /\ row'[s].mode = seen.mode
        /\ row'[s].status = seen.status
        /\ \A t \in Sessions \ {s} : row'[t] = row[t]
    <3>1. PICK r \in {seen, [seen EXCEPT !.room = room]} : row' = [row EXCEPT ![s] = r]
      BY <1>4 DEF Save
    <3>2. r.group = seen.group /\ r.mode = seen.mode /\ r.status = seen.status
      BY <2>0, <3>1 DEF Row
    <3> QED
      BY <2>0, <3>1, <3>2 DEF TablesOK
  <2>3. seen.status # "new"
    BY <1>4 DEF Save, PairsInv, FormsReadRows
  <2>4. \/ Exists(s) /\ row[s].group = seen.group /\ row[s].mode = seen.mode
        \/ seen.group \in mixed' \cup {NoGroup}
    <3>1. req'[q].next = "none"
      BY <1>4, GoesOn DEF Save, Ends
    <3>2. CASE Overwrites(q)
      BY <3>2 DEF Remembers, GroupsRead
    <3>3. CASE ~Overwrites(q)
      BY <1>4, <3>1, <3>3 DEF Overwrites, InFlight, Save
    <3> QED
      BY <3>2, <3>3
  <2>5. \A g \in Groups : seen.group = g => Carries(s, g)
    BY DEF Carries
  <2> HIDE DEF s, seen
  <2>6. KeepsGroup(s)
    BY <2>2, <2>3, <2>4, <2>5 DEF KeepsGroup
  <2>7. \A t \in Sessions \ {s} : KeepsGroup(t)
    BY <2>2 DEF KeepsGroup, Carries, Exists
  <2> QED
    BY <2>1, <2>6, <2>7, PairsLeft
<1>5. ASSUME NEW q \in Requests, NEW s \in Sessions, ReadToEdit(q, s)
      PROVE  PairsInv'
  BY <1>5, BeginsReads, PairsLeft DEF ReadToEdit, Reads, ReadsFor
<1> QED
  BY <1>2, <1>3, <1>4, <1>5 DEF Creating, Deleting, Editing

\* The statements of the status requests; closing dissolves a group.
LEMMA PairsOfChanging ==
  ASSUME TablesOK, PairsInv, Changing, Remembers
  PROVE  PairsInv'
<1>0. /\ \A s \in Sessions : row[s] \in Row
      /\ \A q \in Requests : req[q] \in Request /\ req[q].on \in Sessions
      /\ req \in [Requests -> Request]
  BY DEF TablesOK, Request
<1>1. PICK q \in Requests :
        \/ CheckRoom(q) \/ Start(q) \/ ReadGroup(q) \/ ReadMembers(q)
        \/ Pause(q) \/ Resume(q) \/ Close(q)
  BY DEF Changing
<1>3. CASE CheckRoom(q)
  <2>1. \A p \in Requests : OnlyReads(p)
    BY <1>3, GoesReads DEF CheckRoom, Ends
  <2> QED
    BY <1>3, <2>1, SameKeepsGroups, PairsLeft DEF CheckRoom
<1>4. CASE Start(q)
  <2> DEFINE after == [s \in Sessions |-> [row[s] EXCEPT !.status = "active",
                                                         !.started = TRUE]]
  <2>1. \A p \in Requests : OnlyReads(p)
    BY <1>4, GoesReads DEF Start, Ends
  <2>2. \A s \in Sessions : /\ after[s].status = "active"
                            /\ after[s].group = row[s].group
                            /\ after[s].mode = row[s].mode
    BY <1>0 DEF Row
  <2>3. Put({req[q].on}, after)
    BY <1>4 DEF Start
  <2> HIDE DEF after
  <2>4. \A s \in Sessions : KeepsGroup(s)
    BY <2>2, <2>3, PutKeepsGroups
  <2> QED
    BY <2>1, <2>4, PairsLeft
<1>5. CASE ReadGroup(q) \/ ReadMembers(q)
  <2>1. /\ req'[q].next # "save" /\ req'[q].on = req[q].on
        /\ \/ req'[q].seen = req[q].seen
           \/ req'[q].seen = row[req[q].on]
        /\ req[q].next \notin {"mode", "relink"}
    <3>1. req[q] \in Request /\ req[q].target \in {"active", "paused"}
      BY <1>0 DEF Request
    <3>2. \/ req'[q] = [req[q] EXCEPT !.next = "members", !.seen = row[req[q].on]]
          \/ \E S : req'[q] = [req[q] EXCEPT !.next = req[q].target, !.ids = S]
      BY <1>0, <1>5 DEF ReadGroup, ReadMembers
    <3>3. req[q].next \in {"group", "members"}
      BY <1>5 DEF ReadGroup, ReadMembers
    <3> QED
      BY <3>1, <3>2, <3>3 DEF Request
  <2>2. \A p \in Requests \ {q} : req'[p] = req[p]
    BY <1>0, <1>5 DEF ReadGroup, ReadMembers
  <2>3. UNCHANGED row
    BY <1>5 DEF ReadGroup, ReadMembers
  <2>4. \A p \in Requests : OnlyReads(p)
    BY <1>0, <2>1, <2>2 DEF OnlyReads, Aligns, InFlight
  <2> QED
    BY <2>3, <2>4, SameKeepsGroups, PairsLeft
<1>6. CASE Pause(q)
  <2>1. \A p \in Requests : OnlyReads(p)
    BY <1>6, GoesReads DEF Pause, Ends
  <2> QED
    BY <1>6, <2>1, StatusKeepsGroups, PairsLeft DEF Pause
<1>7. CASE Resume(q)
  <2>1. CASE UNCHANGED row /\ Ends(q)
    <3>1. \A p \in Requests : OnlyReads(p)
      BY <1>7, <2>1, GoesReads DEF Ends, Resume
    <3> QED
      BY <2>1, <3>1, SameKeepsGroups, PairsLeft
  <2>2. ASSUME NEW s \in req[q].ids, Put({s}, WithStatus("active")),
               req' = [req EXCEPT ![q].ids = @ \ {s}]
        PROVE  PairsInv'
    <3>1. \A p \in Requests : /\ req'[p].next = req[p].next
                              /\ req'[p].on = req[p].on
                              /\ req'[p].seen = req[p].seen
      BY <1>0, <2>2 DEF Request
    <3>2. \A p \in Requests : OnlyReads(p)
      BY <3>1 DEF PairsInv, FormsReadRows, OnlyReads, Aligns, InFlight
    <3> QED
      BY <2>2, <3>2, StatusKeepsGroups, PairsLeft
  <2> QED
    BY <1>7, <2>1, <2>2 DEF Resume
<1>8. CASE Close(q)
  <2> DEFINE on == req[q].on
             after == [t \in Sessions |->
                         [row[t] EXCEPT !.group = NoGroup,
                                        !.status = IF t = on THEN "closed" ELSE @]]
  <2>1. \A p \in Requests : OnlyReads(p)
    BY <1>8, GoesReads DEF Close, Ends
  <2>2. \A s \in Sessions : /\ after[s].group = NoGroup
                            /\ after[s].status \in {"closed", row[s].status}
    BY <1>0 DEF Row
  <2>3. \E S : Put(S, after)
    BY <1>8 DEF Close
  <2> HIDE DEF after
  <2>4. \A s \in Sessions : Exists(s) => after[s].status # "new"
    BY <2>2 DEF Exists
  <2>5. \A s \in Sessions : KeepsGroup(s)
    BY <2>2, <2>3, <2>4, PutKeepsGroups
  <2> QED
    BY <2>1, <2>5, PairsLeft
<1> QED
  BY <1>1, <1>3, <1>4, <1>5, <1>6, <1>7, <1>8

\* The closing jobs leave groups as they are.
LEMMA PairsOfCleaning ==
  ASSUME TablesOK, PairsInv, Cleaning, Remembers
  PROVE  PairsInv'
<1>1. ASSUME NEW q \in Requests, NEW s \in Sessions, ListStale(q, s) \/ ListAbandoned(q, s)
      PROVE  PairsInv'
  BY <1>1, BeginsReads, PairsLeft DEF ListStale, ListAbandoned, Reads, ReadsFor
<1>2. ASSUME NEW q \in Requests, CloseStale(q) \/ CloseAbandoned(q)
      PROVE  PairsInv'
  <2>1. \A p \in Requests : OnlyReads(p)
    BY <1>2, GoesReads DEF CloseStale, CloseAbandoned, Ends
  <2>2. UNCHANGED row \/ \E S : Put(S, WithStatus("closed"))
    BY <1>2 DEF CloseStale, CloseAbandoned
  <2>3. \A s \in Sessions : KeepsGroup(s)
    BY <2>2, SameKeepsGroups, StatusKeepsGroups
  <2> QED
    BY <2>1, <2>3, PairsLeft
<1> QED
  BY <1>1, <1>2 DEF Cleaning

\* Requests that have only read.
LEMMA PairsOfAsking ==
  ASSUME TablesOK, PairsInv, Asking \/ AskingDirectly, Remembers
  PROVE  PairsInv'
<1>1. \E q \in Requests, s \in Sessions : \E next, target, direct :
        Begins(q, s, next, target, direct)
  BY DEF Asking, AskingDirectly, AskToOpen, AskToPause, AskToClose, DirectRoute,
         Reads, ReadsFor
<1> QED
  BY <1>1, BeginsReads, PairsLeft

\* A new group has the two sessions that are linked, which leave theirs.
LEMMA PairsOfLink ==
  ASSUME TablesOK, PairsInv, NEW q \in Requests, NEW g \in Groups, NEW mode \in Modes,
         Link(q, g, mode), Remembers
  PROVE  PairsInv'
<1> DEFINE a == req[q].on
           b == req[q].with
           Linked(s) == s \in {a, b} /\ Exists(s)
<1>0. /\ a \in Sessions /\ b \in Sessions
      /\ \A s \in Sessions : row[s] \in Row
  BY DEF TablesOK, Request
<1>1. \A s \in Sessions : ~Carries(s, g)
  BY DEF Link, Unused, InGroup, Carries
<1>2. \A s \in Sessions :
        /\ Linked(s) => /\ row'[s].group = g
                        /\ row'[s].mode = mode
                        /\ row'[s].status = row[s].status
        /\ ~Linked(s) => row'[s] = row[s]
  <2> DEFINE after == [s \in Sessions |-> [row[s] EXCEPT !.group = g, !.mode = mode]]
  <2>1. Put({a, b}, after)
    BY DEF Link
  <2>2. \A s \in Sessions : /\ after[s].group = g
                            /\ after[s].mode = mode
                            /\ after[s].status = row[s].status
    BY <1>0 DEF Row
  <2> HIDE DEF after
  <2> QED
    BY <2>1, <2>2 DEF Put
<1>3. \A s \in Sessions : ~Linked(s) => Exists(s)' = Exists(s)
  BY <1>2 DEF Exists
<1>4. \A p \in Requests : /\ req'[p].on = req[p].on /\ req'[p].seen = req[p].seen
                          /\ req'[p] = req[p] \/ req'[p].next = "none"
  BY GoesOn DEF Link, Ends, OthersStay
<1>5. PairsOnly'
  <2> SUFFICES ASSUME NEW h \in Groups
               PROVE  \E x, y \in Sessions : \A s \in Sessions :
                        Carries(s, h)' => s \in {x, y}
    BY DEF PairsOnly
  <2>1. CASE h = g
    <3>1. \A s \in Sessions : Carries(s, g)' => s \in {a, b}
      BY <1>1, <1>2, <1>4 DEF Carries
    <3> QED
      BY <1>0, <2>1, <3>1
  <2>2. CASE h # g
    <3>1. PICK x \in Sessions, y \in Sessions :
            \A s \in Sessions : Carries(s, h) => s \in {x, y}
      BY DEF PairsInv, PairsOnly
    <3>2. \A s \in Sessions : Carries(s, h)' => Carries(s, h)
      BY <1>2, <1>4, <2>2 DEF Carries
    <3> QED
      BY <3>1, <3>2
  <2> QED
    BY <2>1, <2>2
<1>6. mixed \subseteq mixed'
  <2>1. \A p \in Requests : ~Aligns(p)
    BY GoesOn DEF Link, Ends, OthersStay, Aligns, InFlight
  <2>2. {p \in Requests : Aligns(p)} = {}
    BY <2>1
  <2> QED
    BY <2>2 DEF Remembers, GroupsRead
<1>7. ModesAgree'
  <2> SUFFICES ASSUME NEW s \in Sessions, NEW t \in Sessions,
                      Exists(s)', Exists(t)', row'[s].group \notin mixed' \cup {NoGroup},
                      row'[s].group = row'[t].group
               PROVE  row'[s].mode = row'[t].mode
    BY DEF ModesAgree
  <2>1. CASE Linked(s)
    <3>1. Linked(t)
      BY <1>1, <1>2, <2>1 DEF Carries
    <3> QED
      BY <1>2, <2>1, <3>1
  <2>2. CASE ~Linked(s)
    <3>1. ~Linked(t)
      BY <1>1, <1>2, <2>2 DEF Carries
    <3> QED
      BY <1>2, <1>3, <1>6, <2>2, <3>1 DEF PairsInv, ModesAgree
  <2> QED
    BY <2>1, <2>2
<1>8. NewRowsAreFree'
  BY <1>2 DEF PairsInv, NewRowsAreFree, Exists
<1>9. FormsReadRows'
  BY <1>4 DEF PairsInv, FormsReadRows
<1> QED
  BY <1>5, <1>7, <1>8, <1>9 DEF PairsInv

\* Setting the mode of a group sets it for whoever carries the group now.
LEMMA PairsOfMode ==
  ASSUME TablesOK, PairsInv, NEW q \in Requests, NEW mode \in Modes,
         Relink(q, mode) \/ SetMode(q, mode), Remembers
  PROVE  PairsInv'
<1> DEFINE h == req[q].seen.group
<1>1. \A s \in Sessions :
        /\ row'[s].group = row[s].group
        /\ row'[s].status = row[s].status
        /\ Exists(s) /\ row[s].group = h => row'[s].mode = mode
        /\ row[s].group # h => row'[s].mode = row[s].mode
        /\ row[s].status = "new" => row'[s] = row[s]
  <2> DEFINE after == [s \in Sessions |-> [row[s] EXCEPT !.mode = mode]]
  <2>1. Put(InGroup(h), after)
    BY DEF Relink, SetMode
  <2>2. \A s \in Sessions : /\ after[s].group = row[s].group
                            /\ after[s].mode = mode
                            /\ after[s].status = row[s].status
    BY DEF TablesOK, Row
  <2> HIDE DEF after
  <2> QED
    BY <2>1, <2>2 DEF Put, InGroup, Exists
<1>2. \A p \in Requests : /\ req'[p].on = req[p].on /\ req'[p].seen = req[p].seen
                          /\ req'[p] = req[p] \/ (p = q /\ req'[p].next = "none")
  BY GoesOn DEF Relink, SetMode, Ends, OthersStay
<1>3. PairsOnly'
  <2>1. \A s \in Sessions, g \in Groups : Carries(s, g)' => Carries(s, g)
    BY <1>1, <1>2 DEF Carries
  <2> QED
    BY <2>1 DEF PairsInv, PairsOnly
<1>4. mixed \ {h} \subseteq mixed'
  <2>1. \A p \in Requests : Aligns(p) => p = q
    BY <1>2 DEF Aligns, InFlight
  <2> QED
    BY <2>1 DEF Remembers, GroupsRead
<1>5. ModesAgree'
  <2> SUFFICES ASSUME NEW s \in Sessions, NEW t \in Sessions,
                      Exists(s)', Exists(t)', row'[s].group \notin mixed' \cup {NoGroup},
                      row'[s].group = row'[t].group
               PROVE  row'[s].mode = row'[t].mode
    BY DEF ModesAgree
  <2>1. Exists(s) /\ Exists(t) /\ row[s].group = row[t].group
    BY <1>1 DEF Exists
  <2>2. CASE row[s].group = h
    BY <1>1, <2>1, <2>2
  <2>3. CASE row[s].group # h
    <3>1. row[s].group \notin mixed \cup {NoGroup}
      BY <1>1, <1>4, <2>3
    <3> QED
      BY <1>1, <2>1, <2>3, <3>1 DEF PairsInv, ModesAgree
  <2> QED
    BY <2>2, <2>3
<1>6. NewRowsAreFree'
  BY <1>1 DEF PairsInv, NewRowsAreFree
<1>7. FormsReadRows'
  BY <1>2 DEF PairsInv, FormsReadRows
<1> QED
  BY <1>3, <1>5, <1>6, <1>7 DEF PairsInv

\* Linking, unlinking and setting the mode.
LEMMA PairsOfLinking ==
  ASSUME TablesOK, PairsInv, Linking, Remembers
  PROVE  PairsInv'
<1>1. ASSUME NEW q \in Requests, NEW s \in Sessions,
             ReadToLink(q, s) \/ ReadToUnlink(q, s) \/ ReadToSetMode(q, s)
      PROVE  PairsInv'
  BY <1>1, BeginsReads, PairsLeft DEF ReadToLink, ReadToUnlink, ReadToSetMode,
                                      Reads, ReadsFor
<1>2. ASSUME NEW q \in Requests, NEW t \in Sessions, ReadPartner(q, t)
      PROVE  PairsInv'
  <2>1. /\ req[q].next = "partner" /\ req'[q].next # "save"
        /\ req'[q].on = req[q].on /\ req'[q].seen = req[q].seen
        /\ \A p \in Requests \ {q} : req'[p] = req[p]
    BY <1>2 DEF ReadPartner, Decision, TablesOK, Request
  <2>2. \A p \in Requests : OnlyReads(p)
    BY <2>1 DEF OnlyReads, Aligns, InFlight
  <2> QED
    BY <1>2, <2>2, SameKeepsGroups, PairsLeft DEF ReadPartner
<1>3. ASSUME NEW q \in Requests, GiveUpLinking(q)
      PROVE  PairsInv'
  <2>1. \A p \in Requests : OnlyReads(p)
    BY <1>3, GoesReads DEF GiveUpLinking, Ends
  <2> QED
    BY <1>3, <2>1, SameKeepsGroups, PairsLeft DEF GiveUpLinking
<1>4. ASSUME NEW q \in Requests, Unlink(q)
      PROVE  PairsInv'
  <2> DEFINE after == [s \in Sessions |->
                         [row[s] EXCEPT !.group = NoGroup, !.mode = "joint"]]
  <2>1. \A p \in Requests : OnlyReads(p)
    BY <1>4, GoesReads DEF Unlink, Ends
  <2>2. \A s \in Sessions : after[s].group = NoGroup /\ after[s].status = row[s].status
    BY DEF TablesOK, Row
  <2>3. Put(InGroup(req[q].seen.group), after)
    BY <1>4 DEF Unlink
  <2> HIDE DEF after
  <2>4. \A s \in Sessions : KeepsGroup(s)
    BY <2>2, <2>3, PutKeepsGroups DEF Exists
  <2> QED
    BY <2>1, <2>4, PairsLeft
<1> QED
  BY <1>1, <1>2, <1>3, <1>4, PairsOfLink, PairsOfMode DEF Linking

\* The invariant holds at first.
LEMMA PairsInit ==
  ASSUME Init
  PROVE  PairsInv
<1>1. /\ \A s \in Sessions : row[s].group = NoGroup
      /\ \A q \in Requests : req[q].seen.group = NoGroup /\ req[q].next = "none"
  BY DEF Init, NewRow
<1>2. PairsOnly
  <2>1. \A g \in Groups, s \in Sessions : ~Carries(s, g)
    BY <1>1, SessionsAssumption DEF Carries
  <2>2. PICK a \in Sessions : TRUE
    BY SessionsAssumption
  <2> QED
    BY <2>1, <2>2 DEF PairsOnly
<1> QED
  BY <1>1, <1>2 DEF PairsInv, ModesAgree, NewRowsAreFree, FormsReadRows

\* A set that two elements account for has at most two.
LEMMA AtMostTwo ==
  ASSUME NEW S, NEW a, NEW b, S \subseteq {a, b}
  PROVE  Cardinality(S) <= 2
<1>1. IsFiniteSet({a}) /\ Cardinality({a}) = 1
  BY FS_Singleton
<1>2. {a, b} = {a} \cup {b}
  OBVIOUS
<1>3. IsFiniteSet({a, b}) /\ Cardinality({a, b}) \in {1, 2}
  BY <1>1, <1>2, FS_AddElement
<1>4. Cardinality(S) <= Cardinality({a, b}) /\ IsFiniteSet(S)
  BY <1>3, FS_Subset
<1>5. Cardinality(S) \in Nat
  BY <1>4, FS_CardinalityType
<1> QED
  BY <1>3, <1>4, <1>5

(***************************************************************************)
(* However status, link, unlink, mode, edit and delete requests overlap,   *)
(* reading and writing in separate statements, a group has at most two     *)
(* sessions, and both carry the same mode until a settings form saves a    *)
(* group or a mode that is out of date.                                    *)
(***************************************************************************)
THEOREM GroupsStayPairs == Spec => []GroupsArePairs
<1>1. Init => PairsInv
  BY PairsInit
<1>2. TypeOK /\ PairsInv /\ [Next]_vars => PairsInv'
  <2> SUFFICES ASSUME TypeOK, PairsInv, [Next]_vars
               PROVE  PairsInv'
    OBVIOUS
  <2>0. TablesOK
    BY DEF TypeOK, TablesOK
  <2>1. CASE UNCHANGED vars
    BY <2>1 DEF vars, PairsInv, PairsOnly, ModesAgree, NewRowsAreFree, FormsReadRows,
                Carries, Exists
  <2>2. CASE Next
    BY <2>0, <2>2, PairsOfRows, PairsOfAsking, PairsOfChanging, PairsOfCleaning,
       PairsOfLinking DEF Next, Step
  <2> QED
    BY <2>1, <2>2
<1>3. PairsInv => GroupsArePairs
  <2> SUFFICES ASSUME PairsInv PROVE GroupsArePairs
    OBVIOUS
  <2>1. ASSUME NEW g \in Groups
        PROVE  Cardinality({s \in InGroup(g) : Exists(s)}) <= 2
    <3>1. PICK a \in Sessions, b \in Sessions :
            \A s \in Sessions : Carries(s, g) => s \in {a, b}
      BY DEF PairsInv, PairsOnly
    <3>2. {s \in InGroup(g) : Exists(s)} \subseteq {a, b}
      BY <3>1 DEF InGroup, Carries
    <3> QED
      BY <3>2, AtMostTwo
  <2> QED
    BY <2>1 DEF GroupsArePairs, AtMostTwoPerGroup, PairsInv
<1> QED
  BY <1>1, <1>2, <1>3, SessionTypes, PTL DEF Spec
-----------------------------------------------------------------------------
(* The life cycle.                                                          *)

\* The status a request has read is one its next statement is meant for.
Fits(q) ==
  LET status == req[q].seen.status
  IN  /\ req[q].next = "check" => status \in {"draft", "paused"} /\ req[q].target = "active"
      /\ req[q].next = "start" => status = "draft"
      /\ req[q].next \in {"group", "members"} =>
           status = IF req[q].target = "active" THEN "paused" ELSE "active"
      /\ req[q].next = "active" => status = "paused"
      /\ req[q].next = "paused" => status = "active"
      /\ req[q].next \in {"close", "stale", "abandoned"} => status \in {"active", "paused"}

\* A request in flight that is not late knows the status of its session, and by a
\* /status route it has looked at it.
Knows(q) ==
  InFlight(q) /\ q \notin late =>
    /\ row[req[q].on].status = req[q].seen.status
    /\ ~req[q].direct => Fits(q)

\* The inductive invariant.
StatusInv == \A q \in Requests : Knows(q)

\* Who is not in the step goes on knowing, or is late.
LEMMA OthersKnow ==
  ASSUME NEW q \in Requests, Knows(q), Remembers, req'[q] = req[q]
  PROVE  Knows(q)'
BY DEF Knows, Remembers, InFlight, Fits

\* So it is enough to look at the request that makes the step.
LEMMA AllKnow ==
  ASSUME StatusInv, Remembers, NEW q \in Requests, OthersStay(q), Knows(q)'
  PROVE  StatusInv'
BY OthersKnow DEF StatusInv, OthersStay

\* Whose request is over knows nothing.
LEMMA EndedKnow ==
  ASSUME TablesOK, StatusInv, Remembers, NEW q \in Requests, Ends(q)
  PROVE  StatusInv'
<1>1. OthersStay(q) /\ req'[q].next = "none"
  BY GoesOn DEF Ends
<1>2. Knows(q)'
  BY <1>1 DEF Knows, InFlight
<1> QED
  BY <1>1, <1>2, AllKnow

\* Who begins has just read the row.
LEMMA BegunKnow ==
  ASSUME TablesOK, StatusInv, Remembers, NEW q \in Requests, NEW s \in Sessions,
         NEW next \in {"save", "check", "start", "group", "close", "partner",
                       "unlink", "mode", "stale", "abandoned"},
         NEW target, NEW direct, Begins(q, s, next, target, direct),
         ~direct =>
           /\ next = "check" => row[s].status \in {"draft", "paused"} /\ target = "active"
           /\ next = "start" => row[s].status = "draft"
           /\ next = "group" =>
                row[s].status = IF target = "active" THEN "paused" ELSE "active"
           /\ next \in {"close", "stale", "abandoned"} =>
                row[s].status \in {"active", "paused"}
  PROVE  StatusInv'
<1>1. /\ OthersStay(q) /\ UNCHANGED row
      /\ req'[q].next = next /\ req'[q].on = s /\ req'[q].seen = row[s]
      /\ req'[q].direct = direct /\ req'[q].target = target
  BY BeginsOn
<1>2. ~direct => Fits(q)'
  BY <1>1 DEF Fits
<1>3. Knows(q)'
  BY <1>1, <1>2 DEF Knows
<1> QED
  BY <1>1, <1>3, AllKnow

\* A step that changes no status is in the life cycle.
LEMMA SameStatus ==
  ASSUME \A s \in Sessions : Exists(s) => \/ ~Exists(s)'
                                          \/ row'[s].status = row[s].status
  PROVE  LifeCycleStep
BY DEF LifeCycleStep

\* So is one of q that changes its own session as it may.
LEMMA OwnStatus ==
  ASSUME NEW q \in Requests, req'[q] # req[q],
         ~req[q].direct /\ q \notin late /\ row'[req[q].on].status # row[req[q].on].status =>
           InLifeCycle(row[req[q].on].status, row'[req[q].on].status)
  PROVE  LifeCycleStep
BY DEF LifeCycleStep, Excuses

\* A request that is over was in flight.
LEMMA EndsSteps ==
  ASSUME TablesOK, NEW q \in Requests, req[q].next # "none", Ends(q)
  PROVE  req'[q] # req[q]
BY GoesOn DEF Ends

\* Creating, deleting and editing: a form writes the status that it has read.
LEMMA StatusOfRows ==
  ASSUME TablesOK, StatusInv, Creating \/ Deleting \/ Editing, Remembers
  PROVE  StatusInv' /\ LifeCycleStep
<1>1. ASSUME UNCHANGED req
      PROVE  StatusInv'
  BY <1>1, OthersKnow DEF StatusInv
<1>2. ASSUME NEW s \in Sessions, NEW room \in Rooms, Create(s, room)
      PROVE  StatusInv' /\ LifeCycleStep
  <2>1. ~Exists(s) /\ \A t \in Sessions \ {s} : row'[t] = row[t]
    BY <1>2 DEF Create, Exists, TablesOK
  <2> QED
    BY <1>1, <1>2, <2>1, SameStatus DEF Create
<1>3. ASSUME NEW s \in Sessions, Delete(s)
      PROVE  StatusInv' /\ LifeCycleStep
  <2>1. /\ row'[s].status = "deleted"
        /\ \A t \in Sessions \ {s} : row'[t] = row[t]
    BY <1>3 DEF Delete, TablesOK, Row
  <2>2. ~Exists(s)'
    BY <2>1 DEF Exists
  <2> QED
    BY <1>1, <1>3, <2>1, <2>2, SameStatus DEF Delete
<1>4. ASSUME NEW q \in Requests, NEW room \in Rooms, Save(q, room)
      PROVE  StatusInv' /\ LifeCycleStep
  <2>1. req[q].on \in Sessions /\ req[q].seen \in Row
    BY DEF TablesOK, Request
  <2>2. row'[req[q].on].status = req[q].seen.status
    BY <1>4, <2>1 DEF Save, TablesOK, Row
  <2>3. req'[q] # req[q]
    BY <1>4, EndsSteps DEF Save
  <2>4. q \notin late => row[req[q].on].status = req[q].seen.status
    BY <1>4 DEF Save, StatusInv, Knows, InFlight
  <2> QED
    BY <1>4, <2>2, <2>3, <2>4, OwnStatus, EndedKnow DEF Save
<1>5. ASSUME NEW q \in Requests, NEW s \in Sessions, ReadToEdit(q, s)
      PROVE  StatusInv' /\ LifeCycleStep
  <2>1. UNCHANGED row
    BY <1>5, BeginsOn DEF ReadToEdit, Reads, ReadsFor
  <2> QED
    BY <1>5, <2>1, SameStatus, BegunKnow DEF ReadToEdit, Reads, ReadsFor
<1> QED
  BY <1>2, <1>3, <1>4, <1>5 DEF Creating, Deleting, Editing

\* The /status routes look at the transition; the others are known to be direct.
LEMMA StatusOfAsking ==
  ASSUME TablesOK, StatusInv, Asking \/ AskingDirectly, Remembers
  PROVE  StatusInv' /\ LifeCycleStep
<1>1. ASSUME NEW q \in Requests, NEW s \in Sessions, NEW allowDraft \in BOOLEAN,
             AskToOpen(q, s, allowDraft)
      PROVE  StatusInv' /\ UNCHANGED row
  <2>1. row[s].status \in {"draft", "paused"}
    BY <1>1 DEF AskToOpen, Transitions
  <2> QED
    BY <1>1, <2>1, BegunKnow, BeginsOn DEF AskToOpen, Reads, ReadsFor
<1>2. ASSUME NEW q \in Requests, NEW s \in Sessions, AskToPause(q, s)
      PROVE  StatusInv' /\ UNCHANGED row
  <2>1. row[s].status = "active"
    BY <1>2 DEF AskToPause, Transitions
  <2> QED
    BY <1>2, <2>1, BegunKnow, BeginsOn DEF AskToPause, ReadsFor
<1>3. ASSUME NEW q \in Requests, NEW s \in Sessions, AskToClose(q, s)
      PROVE  StatusInv' /\ UNCHANGED row
  <2>1. row[s].status \in {"active", "paused"}
    BY <1>3 DEF AskToClose, Transitions
  <2> QED
    BY <1>3, <2>1, BegunKnow, BeginsOn DEF AskToClose, Reads, ReadsFor
<1>4. ASSUME NEW q \in Requests, NEW s \in Sessions, DirectRoute(q, s)
      PROVE  StatusInv' /\ UNCHANGED row
  <2>1. PICK next \in {"start", "group", "close"}, target \in {"active", "paused"} :
          Begins(q, s, next, target, TRUE)
    BY <1>4 DEF DirectRoute
  <2>2. UNCHANGED row
    BY <2>1, BeginsOn
  <2>3. StatusInv'
    BY <2>1, BegunKnow, Zenon
  <2> QED
    BY <2>2, <2>3
<1>5. StatusInv' /\ UNCHANGED row
  BY <1>1, <1>2, <1>3, <1>4 DEF Asking, AskingDirectly
<1> QED
  BY <1>5, SameStatus

\* The statements of the status requests.
LEMMA StatusOfChanging ==
  ASSUME TablesOK, StatusInv, Changing, Remembers
  PROVE  StatusInv' /\ LifeCycleStep
<1>0. /\ \A s \in Sessions : row[s] \in Row
      /\ \A q \in Requests : req[q] \in Request /\ req[q].on \in Sessions
      /\ req \in [Requests -> Request]
  BY DEF TablesOK, Request
<1>1. PICK q \in Requests :
        \/ CheckRoom(q) \/ Start(q) \/ ReadGroup(q) \/ ReadMembers(q)
        \/ Pause(q) \/ Resume(q) \/ Close(q)
  BY DEF Changing
<1> DEFINE on == req[q].on
<1>2. InFlight(q)
  BY <1>1 DEF CheckRoom, Start, ReadGroup, ReadMembers, Pause, Resume, Close, InFlight
<1>3. q \notin late => /\ row[on].status = req[q].seen.status
                       /\ ~req[q].direct => Fits(q)
  BY <1>2 DEF StatusInv, Knows
<1>4. CASE CheckRoom(q)
  <2>1. CASE Ends(q)
    BY <1>4, <2>1, EndedKnow, SameStatus DEF CheckRoom
  <2>2. CASE Goes(q, IF req[q].seen.status = "draft" THEN "start" ELSE "group")
    <3>1. /\ OthersStay(q) /\ UNCHANGED row
          /\ req'[q].next = IF req[q].seen.status = "draft" THEN "start" ELSE "group"
          /\ req'[q].on = on /\ req'[q].seen = req[q].seen
          /\ req'[q].direct = req[q].direct
          /\ req'[q].target = req[q].target
      BY <1>4, <2>2, GoesOn DEF CheckRoom
    <3>2. q \notin late' => q \notin late
      BY <1>2, <3>1 DEF Remembers, InFlight
    <3>3. Knows(q)'
      BY <1>3, <1>4, <3>1, <3>2 DEF Knows, Fits, CheckRoom
    <3> QED
      BY <3>1, <3>3, AllKnow, SameStatus
  <2> QED
    BY <1>4, <2>1, <2>2 DEF CheckRoom
<1>5. CASE Start(q)
  <2>1. \A s \in Sessions : row'[s] = row[s] \/ row'[s].status = "active"
    BY <1>0, <1>5 DEF Start, Put, Row
  <2>2. ~req[q].direct /\ q \notin late => row[on].status = "draft"
    BY <1>3, <1>5 DEF Fits, Start
  <2>3. req'[q] # req[q]
    BY <1>5, EndsSteps DEF Start
  <2>4. LifeCycleStep
    BY <1>0, <2>1, <2>2, <2>3, OwnStatus DEF InLifeCycle
  <2> QED
    BY <1>5, <2>4, EndedKnow DEF Start
<1>6. CASE ReadGroup(q) \/ ReadMembers(q)
  <2>0. /\ req[q] \in Request /\ req[q].target \in {"active", "paused"}
        /\ req[q].next \in {"group", "members"}
    BY <1>0, <1>6 DEF Request, ReadGroup, ReadMembers
  <2>1. \/ req'[q] = [req[q] EXCEPT !.next = "members", !.seen = row[on]]
        \/ \E S : req'[q] = [req[q] EXCEPT !.next = req[q].target, !.ids = S]
    BY <1>0, <1>6 DEF ReadGroup, ReadMembers
  <2>2. /\ req'[q].on = on /\ req'[q].direct = req[q].direct
        /\ req'[q].seen \in {req[q].seen, row[on]}
        /\ req'[q].target = req[q].target
        /\ req'[q].next \in {"members", req[q].target}
    BY <2>0, <2>1 DEF Request
  <2>3. OthersStay(q) /\ UNCHANGED row
    BY <1>0, <1>6 DEF ReadGroup, ReadMembers, OthersStay
  <2>4. q \notin late' => q \notin late
    BY <1>2, <2>0, <2>2 DEF Remembers, InFlight
  <2>5. Knows(q)'
    BY <1>3, <2>0, <2>2, <2>3, <2>4 DEF Knows, Fits
  <2> QED
    BY <2>3, <2>5, AllKnow, SameStatus
<1>7. CASE Pause(q)
  <2>1. \A s \in Sessions : row'[s] = row[s] \/ row'[s].status = "paused"
    BY <1>0, <1>7 DEF Pause, Put, WithStatus, Row
  <2>2. ~req[q].direct /\ q \notin late => row[on].status = "active"
    BY <1>3, <1>7 DEF Fits, Pause
  <2>3. req'[q] # req[q]
    BY <1>7, EndsSteps DEF Pause
  <2>4. LifeCycleStep
    BY <1>0, <2>1, <2>2, <2>3, OwnStatus DEF InLifeCycle
  <2> QED
    BY <1>7, <2>4, EndedKnow DEF Pause
<1>8. CASE Resume(q)
  <2>1. CASE UNCHANGED row /\ Ends(q)
    BY <2>1, EndedKnow, SameStatus
  <2>2. ASSUME NEW s \in req[q].ids, Put({s}, WithStatus("active")),
               req' = [req EXCEPT ![q].ids = @ \ {s}]
        PROVE  StatusInv' /\ LifeCycleStep
    <3>1. /\ OthersStay(q)
          /\ req'[q].on = on /\ req'[q].seen = req[q].seen
          /\ req'[q].direct = req[q].direct
          /\ req'[q].next = req[q].next
          /\ req'[q].target = req[q].target
          /\ req'[q].ids = req[q].ids \ {s}
      BY <1>0, <2>2 DEF Request, OthersStay
    <3>2. \A t \in Sessions : row'[t] = row[t] \/ row'[t].status = "active"
      BY <1>0, <2>2 DEF Put, WithStatus, Row
    <3>3. ~req[q].direct /\ q \notin late => row[on].status = "paused"
      BY <1>3, <1>8 DEF Fits, Resume
    <3>4. LifeCycleStep
      BY <1>0, <2>2, <3>1, <3>2, <3>3, OwnStatus DEF InLifeCycle
    <3>5. q \notin late' => q \notin late /\ row'[on].status = row[on].status
      BY <1>2, <3>1 DEF Remembers, InFlight
    <3>6. Knows(q)'
      BY <1>3, <3>1, <3>5 DEF Knows, Fits
    <3> QED
      BY <3>1, <3>4, <3>6, AllKnow
  <2> QED
    BY <1>8, <2>1, <2>2 DEF Resume
<1>9. CASE Close(q)
  <2>1. row'[on].status \in {row[on].status, "closed"}
    BY <1>0, <1>9 DEF Close, Put, Row
  <2>2. ~req[q].direct /\ q \notin late => row[on].status \in {"active", "paused"}
    BY <1>3, <1>9 DEF Fits, Close
  <2>3. req'[q] # req[q]
    BY <1>9, EndsSteps DEF Close
  <2>4. LifeCycleStep
    BY <2>1, <2>2, <2>3, OwnStatus DEF InLifeCycle
  <2> QED
    BY <1>9, <2>4, EndedKnow DEF Close
<1> QED
  BY <1>1, <1>4, <1>5, <1>6, <1>7, <1>8, <1>9

\* The closing jobs.
LEMMA StatusOfCleaning ==
  ASSUME TablesOK, StatusInv, Cleaning, Remembers
  PROVE  StatusInv' /\ LifeCycleStep
<1>0. /\ \A s \in Sessions : row[s] \in Row
      /\ \A q \in Requests : req[q].on \in Sessions
  BY DEF TablesOK, Request
<1>1. ASSUME NEW q \in Requests, NEW s \in Sessions, ListStale(q, s) \/ ListAbandoned(q, s)
      PROVE  StatusInv' /\ LifeCycleStep
  <2>1. row[s].status \in {"active", "paused"}
    BY <1>1 DEF ListStale, ListAbandoned
  <2>2. StatusInv' /\ UNCHANGED row
    BY <1>1, <2>1, BegunKnow, BeginsOn DEF ListStale, ListAbandoned, Reads, ReadsFor
  <2> QED
    BY <2>2, SameStatus
<1>2. ASSUME NEW q \in Requests, CloseStale(q) \/ CloseAbandoned(q)
      PROVE  StatusInv' /\ LifeCycleStep
  <2>1. row'[req[q].on].status \in {row[req[q].on].status, "closed"}
    BY <1>0, <1>2 DEF CloseStale, CloseAbandoned, Put, WithStatus, Row
  <2>2. req[q].next \in {"stale", "abandoned"} /\ Ends(q)
    BY <1>2 DEF CloseStale, CloseAbandoned
  <2>3. ~req[q].direct /\ q \notin late => row[req[q].on].status \in {"active", "paused"}
    BY <2>2 DEF StatusInv, Knows, Fits, InFlight
  <2>4. req'[q] # req[q]
    BY <2>2, EndsSteps
  <2>5. LifeCycleStep
    BY <2>1, <2>3, <2>4, OwnStatus DEF InLifeCycle
  <2> QED
    BY <2>2, <2>5, EndedKnow
<1> QED
  BY <1>1, <1>2 DEF Cleaning

\* Groups come and go without a change of status.
LEMMA StatusOfLinking ==
  ASSUME TablesOK, StatusInv, Linking, Remembers
  PROVE  StatusInv' /\ LifeCycleStep
<1>0. \A s \in Sessions : row[s] \in Row
  BY DEF TablesOK
<1>1. ASSUME NEW q \in Requests, NEW s \in Sessions,
             ReadToLink(q, s) \/ ReadToUnlink(q, s) \/ ReadToSetMode(q, s)
      PROVE  StatusInv' /\ LifeCycleStep
  <2>1. StatusInv' /\ UNCHANGED row
    BY <1>1, BegunKnow, BeginsOn DEF ReadToLink, ReadToUnlink, ReadToSetMode, Reads, ReadsFor
  <2> QED
    BY <2>1, SameStatus
<1>2. ASSUME NEW q \in Requests, NEW t \in Sessions, ReadPartner(q, t)
      PROVE  StatusInv' /\ LifeCycleStep
  <2>1. /\ req'[q].next \in {"relink", "link", "none"}
        /\ req'[q].on = req[q].on /\ req'[q].seen = req[q].seen
        /\ OthersStay(q) /\ UNCHANGED row
    BY <1>2 DEF ReadPartner, Decision, TablesOK, Request, OthersStay
  <2>2. q \notin late' /\ InFlight(q)' => q \notin late
    BY <1>2, <2>1 DEF Remembers, InFlight, ReadPartner
  <2>3. q \notin late => row[req[q].on].status = req[q].seen.status
    BY <1>2 DEF StatusInv, Knows, InFlight, ReadPartner
  <2>4. Knows(q)'
    BY <2>1, <2>2, <2>3 DEF Knows, Fits
  <2> QED
    BY <2>1, <2>4, AllKnow, SameStatus
<1>3. ASSUME NEW q \in Requests, GiveUpLinking(q)
      PROVE  StatusInv' /\ LifeCycleStep
  BY <1>3, EndedKnow, SameStatus DEF GiveUpLinking
<1>4. ASSUME NEW q \in Requests, NEW mode \in Modes,
             \/ \E g \in Groups : Link(q, g, mode)
             \/ Relink(q, mode) \/ SetMode(q, mode) \/ Unlink(q)
      PROVE  StatusInv' /\ LifeCycleStep
  <2>1. \A s \in Sessions : row'[s].status = row[s].status
    BY <1>0, <1>4 DEF Link, Relink, SetMode, Unlink, Put, Row
  <2>2. Ends(q)
    BY <1>4 DEF Link, Relink, SetMode, Unlink
  <2> QED
    BY <2>1, <2>2, EndedKnow, SameStatus
<1>5. \E mode : mode \in Modes
  BY DEF Modes
<1> QED
  BY <1>1, <1>2, <1>3, <1>4, <1>5 DEF Linking

(***************************************************************************)
(* What leaves the life cycle of a session - reopens it after it was       *)
(* closed, starts it without a start - is a request by a route that looks  *)
(* at no status, one that is overtaken by another change of the status, or *)
(* one about the other session of a group.                                 *)
(***************************************************************************)
THEOREM StaysInLifeCycle == Spec => LifeCycleIsKept
<1>1. Init => StatusInv
  BY DEF Init, StatusInv, Knows, InFlight
<1>2. TypeOK /\ StatusInv /\ [Next]_vars => StatusInv' /\ [LifeCycleStep]_vars
  <2> SUFFICES ASSUME TypeOK, StatusInv, [Next]_vars
               PROVE  StatusInv' /\ [LifeCycleStep]_vars
    OBVIOUS
  <2>0. TablesOK
    BY DEF TypeOK, TablesOK
  <2>1. CASE UNCHANGED vars
    BY <2>1 DEF vars, StatusInv, Knows, InFlight, Fits
  <2>2. CASE Next
    BY <2>0, <2>2, StatusOfRows, StatusOfAsking, StatusOfChanging, StatusOfCleaning,
       StatusOfLinking DEF Next, Step
  <2> QED
    BY <2>1, <2>2
<1> QED
  BY <1>1, <1>2, SessionTypes, PTL DEF Spec, LifeCycleIsKept
=============================================================================
