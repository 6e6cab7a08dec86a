---------------------------- MODULE QueueSessions ----------------------------
(***************************************************************************)
(* The rows of queue_sessions under concurrent management requests: the    *)
(* status routes, the settings form, linking two courses' sessions into a  *)
(* concurrent group, and the automatic closing jobs.                       *)
(*                                                                         *)
(* Sources: handlers/queue_handler.go and repositories/queue_repo.go.      *)
(*                                                                         *)
(* Almost every request reads the session in one statement and writes it   *)
(* in a later one, with no transaction around the two: a request here is a *)
(* slot that remembers what it read and which statement comes next.        *)
(* QueueDispatch models what the same operations do to workers, bookings   *)
(* and desks, and takes each as one step.                                  *)
(***************************************************************************)
EXTENDS Naturals, FiniteSets

CONSTANTS
  Sessions,   \* session ids; a deleted one is not given out again
  CourseOf,   \* the course each session belongs to
  Rooms,
  Groups,     \* ids of concurrent groups
  NoGroup,
  Requests    \* requests in flight

ASSUME SessionsAssumption == NoGroup \notin Groups /\ Rooms # {} /\ Sessions # {}

VARIABLES
  row,   \* queue_sessions
  req,   \* per request: the next statement and what was read so far
  late,  \* history: requests whose session changed status since they read it
  mixed  \* history: groups that a form wrote an old group or mode of a session into,
         \* until their mode is set again

vars == <<row, req, late, mixed>>
histories == <<late, mixed>>

Modes == {"joint", "separated"}

Row == [status: {"new", "draft", "active", "paused", "closed", "deleted"},
        room: Rooms,
        group: Groups \cup {NoGroup},
        mode: Modes,
        started: BOOLEAN]   \* start_time is set

Request == [next: {"none", "save", "check", "start", "group", "members",
                   "paused", "active", "close", "partner", "link", "relink",
                   "unlink", "mode", "stale", "abandoned"},
            on: Sessions,
            with: Sessions,            \* the partner of a link request
            seen: Row,                 \* the row as it was read
            direct: BOOLEAN,           \* by a route that looks at no status
            target: {"active", "paused"},
            ids: SUBSET Sessions]      \* the group as it was read

\* Rows and requests keep to their columns.
TypeOK ==
  /\ row \in [Sessions -> Row] /\ req \in [Requests -> Request]
  /\ late \subseteq Requests /\ mixed \subseteq Groups

Exists(s) == row[s].status \notin {"new", "deleted"}

InGroup(g) == {s \in Sessions : row[s].group = g}

\* UPDATE queue_sessions: the existing rows of S become those of `after`.
Put(S, after) ==
  row' = [s \in Sessions |-> IF s \in S /\ Exists(s) THEN after[s] ELSE row[s]]

WithStatus(status) == [s \in Sessions |-> [row[s] EXCEPT !.status = status]]

Goes(q, next) == req' = [req EXCEPT ![q].next = next]

Ends(q) == Goes(q, "none")

\* A request about session s has read its row and goes on to `next`.
Begins(q, s, next, target, direct) ==
  /\ req[q].next = "none"
  /\ Exists(s)
  /\ req' = [req EXCEPT ![q] = [next |-> next, on |-> s, with |-> s,
                                seen |-> row[s], direct |-> direct,
                                target |-> target, ids |-> {}]]
  /\ UNCHANGED row

ReadsFor(q, s, next, target) == Begins(q, s, next, target, FALSE)

Reads(q, s, next) == ReadsFor(q, s, next, "active")
-----------------------------------------------------------------------------
(* Creating, deleting and editing.                                          *)

\* CreateQueueSession
Create(s, room) ==
  /\ row[s].status = "new"
  /\ row' = [row EXCEPT ![s].status = "draft", ![s].room = room]
  /\ UNCHANGED req

\* DeleteQueueSession: the partner of a group is left as it is.
Delete(s) ==
  /\ Exists(s)
  /\ row' = [row EXCEPT ![s].status = "deleted"]
  /\ UNCHANGED req

ReadToEdit(q, s) == Reads(q, s, "save")

\* Save writes every column back as it was read, the edited ones apart (of a
\* closed session only the title can be edited), and inserts the row if it is
\* gone.
Save(q, room) ==
  LET seen == req[q].seen IN
  /\ req[q].next = "save"
  /\ row' = [row EXCEPT ![req[q].on] =
       IF seen.status = "closed" THEN seen ELSE [seen EXCEPT !.room = room]]
  /\ Ends(q)
-----------------------------------------------------------------------------
(* Status requests.                                                         *)

\* Mutant of Transitions: a closed session may be opened again.
TransitionsReopening ==
  {<<"draft", "active">>, <<"active", "paused">>, <<"active", "closed">>,
   <<"paused", "active">>, <<"paused", "closed">>, <<"closed", "active">>}

\* validTransitions of updateQueueSessionStatusCompat
Transitions ==
  {<<"draft", "active">>, <<"active", "paused">>, <<"active", "closed">>,
   <<"paused", "active">>, <<"paused", "closed">>}

(***************************************************************************)
(* The /status routes look at the transition in the row they read.  The    *)
(* projector's may not start a draft, and asks only for active or paused.  *)
(***************************************************************************)
AskToOpen(q, s, allowDraft) ==
  /\ <<row[s].status, "active">> \in Transitions
  /\ row[s].status = "draft" => allowDraft
  /\ Reads(q, s, "check")

AskToPause(q, s) ==
  /\ <<row[s].status, "paused">> \in Transitions
  /\ ReadsFor(q, s, "group", "paused")

AskToClose(q, s) ==
  /\ <<row[s].status, "closed">> \in Transitions
  /\ Reads(q, s, "close")

\* CheckActiveQueueSessionForClassroom
Conflicts(s, room) ==
  {t \in Sessions \ {s} : /\ row[t].status = "active"
                          /\ row[t].room = room
                          /\ CourseOf[t] = CourseOf[s]}

CheckRoom(q) ==
  LET seen == req[q].seen IN
  /\ req[q].next = "check"
  /\ UNCHANGED row
  /\ IF Conflicts(req[q].on, seen.room) # {} THEN Ends(q)
     ELSE Goes(q, IF seen.status = "draft" THEN "start" ELSE "group")

\* The /start, /pause, /resume and /close routes only look the session up.
DirectRoute(q, s) ==
  \/ Begins(q, s, "start", "active", TRUE)
  \/ \E target \in {"active", "paused"} : Begins(q, s, "group", target, TRUE)
  \/ Begins(q, s, "close", "active", TRUE)

\* StartQueueSession
Start(q) ==
  /\ req[q].next = "start"
  /\ Put({req[q].on}, [s \in Sessions |-> [row[s] EXCEPT !.status = "active",
                                                         !.started = TRUE]])
  /\ Ends(q)

\* GetConcurrentSessionIDs, first statement: the group of the session.
ReadGroup(q) ==
  LET s == req[q].on IN
  /\ req[q].next = "group"
  /\ req' = [req EXCEPT ![q] =
       IF Exists(s) /\ row[s].group # NoGroup
       THEN [@ EXCEPT !.next = "members", !.seen = row[s]]
       ELSE [@ EXCEPT !.next = req[q].target, !.ids = {s}]]
  /\ UNCHANGED row

\* ... second statement: the sessions that carry it now, if any.
ReadMembers(q) ==
  /\ req[q].next = "members"
  /\ req' = [req EXCEPT ![q] =
       [@ EXCEPT !.next = req[q].target,
                 !.ids = {s \in InGroup(req[q].seen.group) : Exists(s)}]]
  /\ UNCHANGED row

\* PauseQueueSession: one statement for all of them.
Pause(q) ==
  /\ req[q].next = "paused"
  /\ Put(req[q].ids, WithStatus("paused"))
  /\ Ends(q)

\* ResumeQueueSession: one statement each, up to the first that fails.
Resume(q) ==
  /\ req[q].next = "active"
  /\ \/ \E s \in req[q].ids :
          /\ Put({s}, WithStatus("active"))
          /\ req' = [req EXCEPT ![q].ids = @ \ {s}]
     \/ UNCHANGED row /\ Ends(q)

\* CloseQueueSession, one transaction: its group is dissolved.
Close(q) ==
  LET s == req[q].on
      partners == IF row[s].group = NoGroup THEN {} ELSE InGroup(row[s].group)
  IN  /\ req[q].next = "close"
      /\ Put(partners \cup {s}, [t \in Sessions |->
           [row[t] EXCEPT !.group = NoGroup,
                          !.status = IF t = s THEN "closed" ELSE @]])
      /\ Ends(q)
-----------------------------------------------------------------------------
(* The automatic closing jobs list their sessions and then close each in a  *)
(* transaction of its own.  They leave the group as it is.                  *)

\* AutoCloseStaleQueueSessions: only a session that has a start time is found.
ListStale(q, s) ==
  /\ row[s].status \in {"active", "paused"}
  /\ row[s].started
  /\ Reads(q, s, "stale")

CloseStale(q) ==
  /\ req[q].next = "stale"
  /\ Put({req[q].on}, WithStatus("closed"))
  /\ Ends(q)

\* AutoCloseAbandonedPausedQueueSessions: the status is looked at again.
ListAbandoned(q, s) ==
  /\ row[s].status = "paused"
  /\ Reads(q, s, "abandoned")

CloseAbandoned(q) ==
  LET s == req[q].on IN
  /\ req[q].next = "abandoned"
  /\ IF row[s].status = "paused" THEN Put({s}, WithStatus("closed"))
     ELSE UNCHANGED row
  /\ Ends(q)
-----------------------------------------------------------------------------
(* Concurrent groups.                                                       *)

ReadToLink(q, s) == Reads(q, s, "partner")

\* What the two rows, as they were read, allow.
Decision(seen, other) ==
  IF seen.group # NoGroup /\ seen.group = other.group THEN "relink"
  ELSE IF seen.group = NoGroup /\ other.group = NoGroup THEN "link" ELSE "none"

\* LinkConcurrentSessions reads the partner: same room, another course.
ReadPartner(q, t) ==
  LET s == req[q].on IN
  /\ req[q].next = "partner"
  /\ t # s /\ Exists(t)
  /\ req[q].seen.room = row[t].room
  /\ CourseOf[s] # CourseOf[t]
  /\ req' = [req EXCEPT ![q] =
       [@ EXCEPT !.with = t, !.next = Decision(req[q].seen, row[t])]]
  /\ UNCHANGED row

\* The request is refused.
GiveUpLinking(q) ==
  /\ req[q].next = "partner"
  /\ Ends(q)
  /\ UNCHANGED row

\* A group id nobody has seen yet: GenerateNanoID.
Unused(g) ==
  /\ InGroup(g) = {}
  /\ \A q \in Requests : req[q].seen.group # g

\* Mutant of Link: a session linked meanwhile keeps its group id.
LinkKeepingGroup(q, g, mode) ==
  LET known == row[req[q].on].group IN
  /\ req[q].next = "link"
  /\ Unused(g)
  /\ Put({req[q].on, req[q].with}, [s \in Sessions |->
       [row[s] EXCEPT !.group = IF known = NoGroup THEN g ELSE known,
                      !.mode = mode]])
  /\ Ends(q)

Link(q, g, mode) ==
  /\ req[q].next = "link"
  /\ Unused(g)
  /\ Put({req[q].on, req[q].with}, [s \in Sessions |->
       [row[s] EXCEPT !.group = g, !.mode = mode]])
  /\ Ends(q)

\* Both were in one group already: only the mode is set.
Relink(q, mode) ==
  /\ req[q].next = "relink"
  /\ Put(InGroup(req[q].seen.group), [s \in Sessions |->
       [row[s] EXCEPT !.mode = mode]])
  /\ Ends(q)

\* UnlinkConcurrentSession and SetConcurrentGroupMode read the group id first
\* and then write to whatever carries it.
ReadToUnlink(q, s) == row[s].group # NoGroup /\ Reads(q, s, "unlink")

Unlink(q) ==
  /\ req[q].next = "unlink"
  /\ Put(InGroup(req[q].seen.group), [s \in Sessions |->
       [row[s] EXCEPT !.group = NoGroup, !.mode = "joint"]])
  /\ Ends(q)

ReadToSetMode(q, s) == row[s].group # NoGroup /\ Reads(q, s, "mode")

SetMode(q, mode) ==
  /\ req[q].next = "mode"
  /\ Put(InGroup(req[q].seen.group), [s \in Sessions |->
       [row[s] EXCEPT !.mode = mode]])
  /\ Ends(q)
-----------------------------------------------------------------------------
NewRow == [status |-> "new", room |-> CHOOSE r \in Rooms : TRUE,
           group |-> NoGroup, mode |-> "joint", started |-> FALSE]

Init ==
  /\ row = [s \in Sessions |-> NewRow]
  /\ req = [q \in Requests |->
       [next |-> "none", on |-> CHOOSE s \in Sessions : TRUE,
        with |-> CHOOSE s \in Sessions : TRUE, seen |-> NewRow,
        direct |-> FALSE, target |-> "active", ids |-> {}]]
  /\ late = {} /\ mixed = {}

Creating == \E s \in Sessions, room \in Rooms : Create(s, room)

Deleting == \E s \in Sessions : Delete(s)

Editing ==
  \E q \in Requests :
    \/ \E s \in Sessions : ReadToEdit(q, s)
    \/ \E room \in Rooms : Save(q, room)

Asking ==
  \E q \in Requests, s \in Sessions :
    \/ \E allowDraft \in BOOLEAN : AskToOpen(q, s, allowDraft)
    \/ AskToPause(q, s)
    \/ AskToClose(q, s)

AskingDirectly == \E q \in Requests, s \in Sessions : DirectRoute(q, s)

Changing ==
  \E q \in Requests :
    \/ CheckRoom(q)
    \/ Start(q)
    \/ ReadGroup(q)
    \/ ReadMembers(q)
    \/ Pause(q)
    \/ Resume(q)
    \/ Close(q)

Cleaning ==
  \E q \in Requests :
    \/ \E s \in Sessions : ListStale(q, s) \/ ListAbandoned(q, s)
    \/ CloseStale(q)
    \/ CloseAbandoned(q)

Linking ==
  \E q \in Requests :
    \/ \E s \in Sessions : ReadToLink(q, s) \/ ReadPartner(q, s)
    \/ GiveUpLinking(q)
    \/ \E mode \in Modes : \/ \E g \in Groups : Link(q, g, mode)
                           \/ Relink(q, mode)
                           \/ SetMode(q, mode)
    \/ \E s \in Sessions : ReadToUnlink(q, s) \/ ReadToSetMode(q, s)
    \/ Unlink(q)

Step ==
  \/ Creating
  \/ Deleting
  \/ Editing
  \/ Asking
  \/ AskingDirectly
  \/ Changing
  \/ Cleaning
  \/ Linking

InFlight(q) == req[q].next # "none"

\* A form is saved over a row whose group or mode it did not read, or that is gone.
Overwrites(q) ==
  LET s == req[q].on IN
  /\ req[q].next = "save" /\ ~InFlight(q)'
  /\ \/ ~Exists(s)
     \/ <<row[s].group, row[s].mode>> # <<req[q].seen.group, req[q].seen.mode>>

\* The mode of a whole group is set.
Aligns(q) == req[q].next \in {"mode", "relink"} /\ ~InFlight(q)'

GroupsRead(requests) == {req[q].seen.group : q \in requests} \ {NoGroup}

Remembers ==
  /\ late' = {q \in Requests : /\ InFlight(q) /\ InFlight(q)'
                               /\ q \in late \/ row'[req[q].on].status # row[req[q].on].status}
  /\ mixed' = (mixed \ GroupsRead({q \in Requests : Aligns(q)}))
                \cup GroupsRead({q \in Requests : Overwrites(q)})

Next == Step /\ Remembers

Spec == Init /\ [][Next]_vars
-----------------------------------------------------------------------------
AtMostTwoPerGroup ==
  \A g \in Groups : Cardinality({s \in InGroup(g) : Exists(s)}) <= 2

ModesAgree ==
  \A s, t \in Sessions :
    (/\ Exists(s) /\ Exists(t)
     /\ row[s].group \notin mixed \cup {NoGroup}
     /\ row[s].group = row[t].group) => row[s].mode = row[t].mode

\* However link, unlink, mode, close, delete and edit requests overlap, there are "at
\* most 2 sessions per group", which the pair logic of the dispatcher relies on, and
\* both carry the same mode, "so neither side can observe a different mode than the
\* other"; the latter unless a settings form has put back the group or the mode it
\* read before they were changed, and until the mode is set again.
GroupsArePairs == AtMostTwoPerGroup /\ ModesAgree

\* The life cycle of a session: a draft is started first, nothing goes back to draft,
\* what is closed stays closed.
InLifeCycle(from, to) ==
  /\ from # "closed" /\ to # "draft"
  /\ from = "draft" => to = "active"

\* q has made the step, and session s was none of its business, or it did not know.
Excuses(q, s) ==
  /\ req'[q] # req[q]
  /\ req[q].direct \/ q \in late \/ req[q].on # s

LifeCycleStep ==
  \A s \in Sessions :
    (/\ Exists(s) /\ Exists(s)' /\ row'[s].status # row[s].status
     /\ ~InLifeCycle(row[s].status, row'[s].status))
    => \E q \in Requests : Excuses(q, s)

\* The status routes, the form, the closing jobs and the links of groups keep the life
\* cycle of every session, overlapping as they may.  What breaks it is a request by one
\* of the /start, /pause, /resume and /close routes, which look at no status; a request
\* whose session changed its status after it was read; or one for the other session of
\* a group, which takes a draft or what a job has closed along.
LifeCycleIsKept == [][LifeCycleStep]_vars
=============================================================================
