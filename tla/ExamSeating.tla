----------------------------- MODULE ExamSeating -----------------------------
(***************************************************************************)
(* Classrooms, the desks of their layouts, and the seats of exam sessions  *)
(* at those desks.                                                         *)
(*                                                                         *)
(* Sources: handlers/classroom_handler.go, handlers/exam_seat_handler.go,  *)
(* repositories/classroom_repo.go and repositories/exam_seat_repo.go.      *)
(*                                                                         *)
(* The handlers lay out rooms and plans in several statements without a    *)
(* transaction around them; only the replacement of a plan's rooms and of  *)
(* its seats are transactions.  A request in flight remembers what it has  *)
(* read.  Foreign keys keep a desk, a plan or a room while a seat or a     *)
(* row of exam_session_rooms names it.  Zones, coordinates and the numbers *)
(* of desks and seats are left out.                                        *)
(***************************************************************************)
EXTENDS FiniteSets

CONSTANTS
  Rooms,
  DeskIds,
  Candidates,    \* the students who take exams
  Plans,         \* exam sessions
  Editors,       \* requests in flight
  Absent         \* no row

VARIABLES
  room,      \* classrooms
  desk,      \* desks
  plan,      \* exam_sessions, exam_session_rooms and exam_seats
  onRoster,  \* the students of the course
  editor,
  unsettled  \* history: plans seated from a page out of date, while their rooms
             \* were being replaced, or by a request that failed half-way

seatVars == << room, desk, plan, onRoster, editor, unsettled >>

Presence == {"new", "there", "gone"}
RoomRow == [status: Presence, active: BOOLEAN, deleted: BOOLEAN]
DeskRow == [room: Rooms, on: BOOLEAN]
PlanRow == [status: Presence, rooms: SUBSET Rooms, seats: [Candidates -> DeskIds \cup {Absent}]]
Seats == [Candidates -> DeskIds \cup {Absent}]
Free == [step |-> "none"]
NoSeats == [c \in Candidates |-> Absent]

ASSUME SeatingAssumption == Absent \notin DeskIds \cup DeskRow

\* Rooms, desks and seats name what there can be.
SeatingTypeOK ==
  /\ room \in [Rooms -> RoomRow]
  /\ desk \in [DeskIds -> DeskRow \cup {Absent}]
  /\ plan \in [Plans -> PlanRow]
  /\ onRoster \subseteq Candidates
  /\ unsettled \subseteq Plans

Submits(e, request) ==
  editor[e] = Free /\ editor' = [editor EXCEPT ![e] = request]
Proceeds(e, step) == editor' = [editor EXCEPT ![e].step = step]
Answers(e) == editor' = [editor EXCEPT ![e] = Free]
At(e, step) == editor[e].step = step

\* What no seat names can be deleted.
Seated(d) == \E x \in Plans, c \in Candidates : plan[x].seats[c] = d
-----------------------------------------------------------------------------
(* Classrooms.                                                              *)

OnlyRooms == UNCHANGED << desk, plan, onRoster, unsettled >>

CreateClassroom(r) ==
  /\ room[r].status = "new"
  /\ room' = [room EXCEPT ![r].status = "there"]
  /\ OnlyRooms /\ UNCHANGED editor

\* Editing and toggling read the whole row ...
ReadClassroom(e, r, step) ==
  /\ room[r].status = "there"
  /\ Submits(e, [step |-> step, room |-> r, seen |-> room[r]])
  /\ OnlyRooms /\ UNCHANGED room

\* ... and save the whole row, inserting it if it is gone: active then, because an
\* insert takes the default of the column for FALSE.
SaveClassroom(e) ==
  LET q == editor[e]
      isActive == IF q.step = "edit" THEN q.seen.active ELSE ~ q.seen.active
      isThere == room[q.room].status = "there"
  IN /\ q.step \in {"edit", "toggle"}
     /\ room' = [room EXCEPT ![q.room] = [q.seen EXCEPT !.active = isActive \/ ~ isThere]]
     /\ OnlyRooms /\ Answers(e)

\* SoftDeleteClassroom and RestoreClassroom
MarkDeleted(r, deleted) ==
  /\ room[r].status = "there"
  /\ room' = [room EXCEPT ![r].deleted = deleted]
  /\ OnlyRooms /\ UNCHANGED editor

DesksOf(r) == {d \in DeskIds : desk[d] # Absent /\ desk[d].room = r}

\* HardDeleteClassroom: the desks, all or (if one has a seat, which is not noticed)
\* none, then the row, unless it is a room of a plan.
HardDeleteDesks(e, r) ==
  /\ Submits(e, [step |-> "harddelete", room |-> r])
  /\ desk' = IF \E d \in DesksOf(r) : Seated(d) THEN desk
             ELSE [d \in DeskIds |-> IF d \in DesksOf(r) THEN Absent ELSE desk[d]]
  /\ UNCHANGED << room, plan, onRoster, unsettled >>

HardDeleteRoom(e) ==
  LET r == editor[e].room IN
  /\ At(e, "harddelete")
  /\ room' = IF room[r].status = "new" \/ \E x \in Plans : r \in plan[x].rooms THEN room
             ELSE [room EXCEPT ![r].status = "gone"]
  /\ OnlyRooms /\ Answers(e)
-----------------------------------------------------------------------------
(* UpdateLayout: a list of the desks to keep, switched on or off, and new   *)
(* ones, here one at most.                                                  *)

OnlyDesks == UNCHANGED << room, plan, onRoster, unsettled >>

ReadLayout(e, r, keep, off, new) ==
  /\ keep \subseteq DesksOf(r) /\ off \subseteq keep
  /\ Submits(e, [step |-> "remove", room |-> r, keep |-> keep, off |-> off, new |-> new,
                 existing |-> DesksOf(r)])
  /\ OnlyDesks /\ UNCHANGED desk

\* One by one; that a seat keeps a desk is not noticed.
Removed(q) == {d \in q.existing \ q.keep : ~ Seated(d)}

RemoveDesks(e) ==
  /\ At(e, "remove")
  /\ desk' = [d \in DeskIds |-> IF d \in Removed(editor[e]) THEN Absent ELSE desk[d]]
  /\ OnlyDesks /\ Proceeds(e, "write")

\* An id no desk has and no request remembers.
NewDeskId(d) ==
  /\ desk[d] = Absent
  /\ \A e \in Editors :
       /\ At(e, "remove") \/ At(e, "write") => d \notin editor[e].existing
       /\ At(e, "clear") \/ At(e, "insert") => \A c \in Candidates : editor[e].seats[c] # d

\* A kept desk that was removed meanwhile is not written again.
WriteDesks(e) ==
  LET q == editor[e]
      switched == [d \in DeskIds |-> IF d \in q.keep /\ desk[d] # Absent
                     THEN [desk[d] EXCEPT !.on = d \notin q.off] ELSE desk[d]]
  IN /\ At(e, "write")
     /\ \/ ~ q.new /\ desk' = switched
        \/ \E d \in DeskIds :
             /\ q.new /\ NewDeskId(d)
             /\ desk' = [switched EXCEPT ![d] = [room |-> q.room, on |-> TRUE]]
     /\ OnlyDesks /\ Answers(e)
-----------------------------------------------------------------------------
(* Exam sessions, their rooms and their seats.                              *)

OnlyPlans == UNCHANGED << room, desk, onRoster >>

\* Mutant of Outside: seats in other rooms are kept.
NoneOutside(x, rooms) == {}

\* The students with a seat at a desk that stands in none of the rooms.
Outside(x, rooms) ==
  {c \in Candidates : plan[x].seats[c] # Absent /\ desk[plan[x].seats[c]].room \notin rooms}

\* ReplaceExamSessionRooms deletes those seats in a transaction: until it commits,
\* others see them and wait to change them.
Locked(x, c) ==
  \E e \in Editors : At(e, "commit") /\ editor[e].plan = x /\ c \in editor[e].doomed

Unlocked(x) == \A c \in Candidates : ~ Locked(x, c)

\* A request to replace the rooms of a plan, perhaps after it has seated students.
Replacement(x, rooms, seats) ==
  [step |-> "rooms", plan |-> x, rooms |-> rooms, seats |-> seats]

\* CreateExamSessionHandler, and then the rooms.
CreateExamSession(e, x, rooms) ==
  /\ plan[x].status = "new"
  /\ plan' = [plan EXCEPT ![x].status = "there"]
  /\ Submits(e, Replacement(x, rooms, NoSeats))
  /\ OnlyPlans /\ UNCHANGED unsettled

UpdateExamSessionClassrooms(e, x, rooms) ==
  /\ plan[x].status # "new"
  /\ Submits(e, Replacement(x, rooms, NoSeats))
  /\ OnlyPlans /\ UNCHANGED << plan, unsettled >>

ReplaceRooms(e) ==
  LET q == editor[e]
      doomed == Outside(q.plan, q.rooms)
  IN /\ At(e, "rooms")
     /\ \A c \in doomed : ~ Locked(q.plan, c)
     /\ editor' = [editor EXCEPT ![e] = [step |-> "commit", plan |-> q.plan,
                     rooms |-> q.rooms, before |-> plan[q.plan].rooms, seats |-> q.seats,
                     doomed |-> doomed]]
     /\ OnlyPlans /\ UNCHANGED << plan, unsettled >>

\* Of the rows it saw, those of other rooms are deleted and those of its rooms kept,
\* if they are still there; the other rooms it inserts.
Added(q) == q.rooms \ q.before
RoomsAfter(q) == (plan[q.plan].rooms \ (q.before \ q.rooms)) \cup Added(q)

\* The rows name a plan and a classroom, and no other row names both: if that fails
\* nothing is replaced, and students just seated may be where they should not.
CommitRooms(e) ==
  LET q == editor[e]
      x == q.plan
      kept == [c \in Candidates |-> IF c \in q.doomed THEN Absent ELSE plan[x].seats[c]]
  IN /\ At(e, "commit")
     /\ IF \/ Added(q) = {}
           \/ /\ plan[x].status = "there" /\ \A r \in Added(q) : room[r].status = "there"
              /\ Added(q) \cap plan[x].rooms = {}
        THEN /\ plan' = [plan EXCEPT ![x].rooms = RoomsAfter(q), ![x].seats = kept]
             /\ UNCHANGED unsettled
        ELSE /\ unsettled' = IF q.seats = NoSeats THEN unsettled ELSE unsettled \cup {x}
             /\ UNCHANGED plan
     /\ OnlyPlans /\ Answers(e)

\* DeleteExamSessionHandler: the seats, the rooms, the row; the row stays if it has
\* been given seats or rooms again.
DeleteExamSession(e, x) ==
  /\ plan[x].status # "new" /\ Unlocked(x)
  /\ plan' = [plan EXCEPT ![x].seats = NoSeats]
  /\ Submits(e, [step |-> "clearrooms", plan |-> x])
  /\ OnlyPlans /\ UNCHANGED unsettled

ClearExamSessionRooms(e) ==
  /\ At(e, "clearrooms")
  /\ plan' = [plan EXCEPT ![editor[e].plan].rooms = {}]
  /\ OnlyPlans /\ UNCHANGED unsettled /\ Proceeds(e, "deleterow")

DeleteExamSessionRow(e) ==
  LET x == editor[e].plan IN
  /\ At(e, "deleterow")
  /\ IF plan[x].rooms = {} /\ plan[x].seats = NoSeats
     THEN plan' = [plan EXCEPT ![x].status = "gone"] /\ UNCHANGED unsettled
     ELSE unsettled' = unsettled \cup {x} /\ UNCHANGED plan
  /\ OnlyPlans /\ Answers(e)

\* The desks a page offers for a plan: those in its rooms.
Offered(x) == {d \in DeskIds : desk[d] # Absent /\ desk[d].room \in plan[x].rooms}

Taken(seats) == {seats[c] : c \in Candidates} \ {Absent}

\* A plan in which nobody shares a desk, as the unique indexes have it.
Distinct(seats) ==
  \A c, k \in Candidates : c # k /\ seats[c] # Absent => seats[c] # seats[k]

\* Seats name a plan and desks that exist.
MaySeat(x, desks) ==
  desks # {} => plan[x].status = "there" /\ \A d \in desks : desk[d] # Absent

BeingReplaced(x) == \E e \in Editors : At(e, "commit") /\ editor[e].plan = x

\* Nothing checks that the desks stand in a room of the plan: the page may be old.
SetSeats(x, seats, desks) ==
  /\ plan[x].status # "new"
  /\ Distinct(seats) /\ MaySeat(x, desks)
  /\ plan' = [plan EXCEPT ![x].seats = seats]
  /\ unsettled' = IF desks = {} \/ (desks \subseteq Offered(x) /\ ~ BeingReplaced(x))
                  THEN unsettled ELSE unsettled \cup {x}
  /\ UNCHANGED << room, desk, onRoster, editor >>

\* UpsertExamSeat moves a student, UnassignExamSeatHandler takes the seat away.
AssignExamSeat(x, c, d) ==
  ~ Locked(x, c) /\ SetSeats(x, [plan[x].seats EXCEPT ![c] = d], {d} \ {Absent})

\* ReplaceExamSeats, one transaction, and ClearExamSeats with no seats at all.
ReplaceExamSeats(x, seats) == Unlocked(x) /\ SetSeats(x, seats, Taken(seats))

\* FindEnabledDesksByClassroomSorted
Usable(rooms) ==
  {d \in DeskIds : desk[d] # Absent /\ desk[d].on /\ desk[d].room \in rooms}

\* AutoAssignExamSeatsHandler seats everybody who is enrolled, if there are desks
\* enough: it clears the plan, ...
AutoAssign(e, x, rooms, seats) ==
  /\ plan[x].status # "new" /\ rooms # {}
  /\ \A c \in Candidates : seats[c] # Absent <=> c \in onRoster
  /\ Taken(seats) \subseteq Usable(rooms) /\ Distinct(seats)
  /\ Submits(e, [step |-> "clear", plan |-> x, rooms |-> rooms, seats |-> seats])
  /\ OnlyPlans /\ UNCHANGED << plan, unsettled >>

ClearExamSeats(e) ==
  /\ At(e, "clear") /\ Unlocked(editor[e].plan)
  /\ plan' = [plan EXCEPT ![editor[e].plan].seats = NoSeats]
  /\ OnlyPlans /\ UNCHANGED unsettled /\ Proceeds(e, "insert")

\* ... inserts the seats, all or none, none if a student or a desk is taken (or
\* listed twice: a student of two sections, a room named twice), ...
BulkCreateExamSeats(e) ==
  LET q == editor[e]
      x == q.plan
      now == plan[x].seats
      both == [c \in Candidates |-> IF now[c] = Absent THEN q.seats[c] ELSE now[c]]
      fits == /\ \A c \in Candidates : now[c] = Absent \/ q.seats[c] = Absent
              /\ Distinct(both) /\ MaySeat(x, Taken(q.seats))
  IN /\ At(e, "insert")
     /\ \/ /\ fits
           /\ plan' = [plan EXCEPT ![x].seats = both]
           /\ unsettled' = IF BeingReplaced(x) THEN unsettled \cup {x} ELSE unsettled
           /\ Proceeds(e, IF q.rooms = Absent THEN "sync" ELSE "rooms")
        \/ UNCHANGED << plan, unsettled >> /\ Answers(e)
     /\ OnlyPlans
\* ... and replaces the rooms: ReplaceRooms.

\* ImportExamSeatsCommitHandler makes a new exam session with the seats of the file
\* (as previewed, so desks may be gone) and takes its rooms from the seats:
\* SyncExamSessionRoomsFromSeats.
ImportExamSeats(e, x, seats) ==
  /\ plan[x].status = "new"
  /\ plan' = [plan EXCEPT ![x].status = "there"]
  /\ Taken(seats) # {}
  /\ Submits(e, [step |-> "insert", plan |-> x, rooms |-> Absent, seats |-> seats])
  /\ OnlyPlans /\ UNCHANGED unsettled

RoomsOfSeats(e) ==
  LET q == editor[e]
      named == {desk[d].room : d \in Taken(plan[q.plan].seats)}
  IN /\ At(e, "sync")
     /\ editor' = [editor EXCEPT ![e] =
          Replacement(q.plan, {r \in named : room[r].status = "there"}, q.seats)]
     /\ OnlyPlans /\ UNCHANGED << plan, unsettled >>

\* The roster of the course.
Enrol(c) ==
  /\ onRoster' = IF c \in onRoster THEN onRoster \ {c} ELSE onRoster \cup {c}
  /\ UNCHANGED << room, desk, plan, editor, unsettled >>
-----------------------------------------------------------------------------
\* Some rooms have been laid out already.
SeatingInit ==
  /\ room \in [Rooms -> {[status |-> s, active |-> TRUE, deleted |-> FALSE] : s \in {"new", "there"}}]
  /\ desk \in [DeskIds -> {Absent} \cup [room: Rooms, on: {TRUE}]]
  /\ \A d \in DeskIds : desk[d] # Absent => room[desk[d].room].status = "there"
  /\ plan = [x \in Plans |-> [status |-> "new", rooms |-> {}, seats |-> NoSeats]]
  /\ onRoster = Candidates
  /\ editor = [e \in Editors |-> Free]
  /\ unsettled = {}

RoomRequest ==
  \/ \E e \in Editors, r \in Rooms :
       \/ ReadClassroom(e, r, "edit") \/ ReadClassroom(e, r, "toggle")
       \/ HardDeleteDesks(e, r)
       \/ \E keep \in SUBSET DesksOf(r), new \in BOOLEAN :
            \E off \in SUBSET keep : ReadLayout(e, r, keep, off, new)
  \/ \E r \in Rooms : CreateClassroom(r) \/ MarkDeleted(r, TRUE)

RoomRestored == \E r \in Rooms : MarkDeleted(r, FALSE)

PlanRequest ==
  \E x \in Plans :
    \/ \E e \in Editors, rooms \in SUBSET Rooms :
         CreateExamSession(e, x, rooms) \/ UpdateExamSessionClassrooms(e, x, rooms)
    \/ \E e \in Editors : DeleteExamSession(e, x)
    \/ \E c \in Candidates, d \in DeskIds \cup {Absent} : AssignExamSeat(x, c, d)
    \/ \E seats \in Seats :
         \/ ReplaceExamSeats(x, seats)
         \/ \E e \in Editors : \/ ImportExamSeats(e, x, seats)
                               \/ \E rooms \in SUBSET Rooms : AutoAssign(e, x, rooms, seats)

SeatingStep ==
  \E e \in Editors :
    \/ SaveClassroom(e) \/ HardDeleteRoom(e)
    \/ RemoveDesks(e) \/ WriteDesks(e)
    \/ ReplaceRooms(e) \/ CommitRooms(e)
    \/ ClearExamSessionRooms(e) \/ DeleteExamSessionRow(e)
    \/ ClearExamSeats(e) \/ BulkCreateExamSeats(e) \/ RoomsOfSeats(e)

Surrounding == \E c \in Candidates : Enrol(c)

SeatingNext == RoomRequest \/ RoomRestored \/ PlanRequest \/ SeatingStep \/ Surrounding

SeatingSpec == SeatingInit /\ [][SeatingNext]_seatVars
-----------------------------------------------------------------------------
Resting == \A e \in Editors : editor[e] = Free

\* Whatever requests overlap, once none is in flight every seat is at a desk of
\* a room of its exam session, unless a seat was taken from a page that still
\* showed other rooms, while the rooms were being replaced, or by a request that
\* failed before it had replaced them: the page and the export list a plan room
\* by room, and a seat elsewhere is one nobody prepares.
SeatsInRooms ==
  Resting => \A x \in Plans \ unsettled, c \in Candidates :
    LET d == plan[x].seats[c] IN d # Absent => desk[d].room \in plan[x].rooms
=============================================================================
