------------------------- MODULE AdministrationProofs -------------------------
(***************************************************************************)
(* Theorems about what administrators lay out and publish.                 *)
(*                                                                         *)
(* ExamSeating, for every number of rooms, desks, students, exam sessions  *)
(* and requests in flight:                                                 *)
(*   SeatingTypes   rooms, desks, plans and seats stay well formed         *)
(*   SeatsAreKept   no seat is at a desk that is gone                      *)
(*   SeatsEndInRooms  once no request is in flight, every seat is at a     *)
(*                  desk of a room of its exam session, except in the      *)
(*                  plans `unsettled` names                                *)
(* The last one says nothing of the states in between.  The invariant does:*)
(* a seat outside the rooms of its plan has a request under way that will  *)
(* replace the rooms or fail, and a transaction that replaces rooms leaves *)
(* no seat outside the rooms it is about to write.                         *)
(*                                                                         *)
(* Announcements, for every number of administrators, users, payloads,     *)
(* announcements, fan-outs and failures:                                   *)
(*   NoticeTypes    rows, requests and fan-outs stay well formed           *)
(*   ToldOnce       who was addressed is told, and nobody twice of one     *)
(*                  that stayed up                                         *)
(*   LiveAreSeen    what is listed as live is on the pages of its audience *)
(* The invariant of ToldOnce counts: an announcement that is down, or was  *)
(* when an edit of it began, is owed no fan-out so far (SpreadInv), and    *)
(* each fan-out still has to write to a user what it has not yet written   *)
(* (CountInv).                                                             *)
(***************************************************************************)
EXTENDS ExamSeating, Announcements, FiniteSetTheorems, TLAPS

\* What a request in flight remembers.
Request ==
  {Free}
  \cup [step: {"edit", "toggle"}, room: Rooms, seen: RoomRow]
  \cup [step: {"harddelete"}, room: Rooms]
  \cup [step: {"remove", "write"}, room: Rooms, keep: SUBSET DeskIds, off: SUBSET DeskIds,
        new: BOOLEAN, existing: SUBSET DeskIds]
  \cup [step: {"rooms"}, plan: Plans, rooms: SUBSET Rooms, seats: Seats]
  \cup [step: {"commit"}, plan: Plans, rooms: SUBSET Rooms, before: SUBSET Rooms, seats: Seats,
        doomed: SUBSET Candidates]
  \cup [step: {"clearrooms", "deleterow"}, plan: Plans]
  \cup [step: {"clear", "insert", "sync"}, plan: Plans, rooms: (SUBSET Rooms) \cup {Absent}, seats: Seats]

RequestsOK == editor \in [Editors -> Request]

\* A seat is at a desk that is there.
SeatsHaveDesks ==
  \A x \in Plans, c \in Candidates :
    plan[x].seats[c] # Absent => desk[plan[x].seats[c]] # Absent

\* The seat d, if it is one, is at a desk of one of the rooms.
Within(d, desks, rooms) == d # Absent => desks[d].room \in rooms

\* The steps of requests that leave seats and rooms apart for a while.
Apart == {"sync", "rooms", "commit", "deleterow"}

\* The request has seated students, or is deleting the plan, and its rooms will
\* follow or the plan will be unsettled.
Follows(q, x) ==
  /\ q.step \in Apart /\ q.plan = x
  /\ q.step # "deleterow" => q.seats # NoSeats

SeatsFollowed ==
  \A x \in Plans \ unsettled :
    \/ \E e \in Editors : Follows(editor[e], x)
    \/ \A c \in Candidates : Within(plan[x].seats[c], desk, plan[x].rooms)

\* What a transaction leaves of the seats stands in rooms it writes, or keeps and that
\* are still there.
Clears(q, seats, desks, rooms) ==
  \A c \in Candidates \ q.doomed : Within(seats[c], desks, q.rooms \cap (rooms \cup Added(q)))

BeingDeleted(x) == \E e \in Editors : At(e, "deleterow") /\ editor[e].plan = x

ReplacementsClear ==
  \A e \in Editors :
    At(e, "commit") /\ editor[e].plan \notin unsettled /\ ~ BeingDeleted(editor[e].plan) =>
      Clears(editor[e], plan[editor[e].plan].seats, desk, plan[editor[e].plan].rooms)

SeatingInv ==
  SeatingTypeOK /\ RequestsOK /\ SeatsHaveDesks /\ ReplacementsClear /\ SeatsFollowed
-----------------------------------------------------------------------------
(* Requests, and what the steps of the plan have in common.                 *)

\* Nobody needs a row to tell that nothing is there.
LEMMA RequestsKnown ==
  ASSUME SeatingInv, NEW e \in Editors
  PROVE  /\ editor[e] \in Request
         /\ At(e, "edit") \/ At(e, "toggle") =>
              editor[e].room \in Rooms /\ editor[e].seen \in RoomRow
         /\ At(e, "harddelete") => editor[e].room \in Rooms
         /\ At(e, "remove") \/ At(e, "write") =>
              /\ editor[e].room \in Rooms /\ editor[e].new \in BOOLEAN
              /\ editor[e].keep \in SUBSET DeskIds /\ editor[e].off \in SUBSET DeskIds
              /\ editor[e].existing \in SUBSET DeskIds
         /\ At(e, "rooms") \/ At(e, "commit") =>
              /\ editor[e].plan \in Plans /\ editor[e].rooms \in SUBSET Rooms
              /\ editor[e].seats \in Seats
         /\ At(e, "commit") => editor[e].doomed \in SUBSET Candidates /\ editor[e].before \in SUBSET Rooms
         /\ At(e, "clearrooms") \/ At(e, "deleterow") => editor[e].plan \in Plans
         /\ At(e, "clear") \/ At(e, "insert") \/ At(e, "sync") =>
              /\ editor[e].plan \in Plans /\ editor[e].rooms \in (SUBSET Rooms) \cup {Absent}
              /\ editor[e].seats \in Seats
<1>1. editor[e] \in Request
  BY DEF SeatingInv, RequestsOK
<1> QED
  BY <1>1 DEF Request, At, Free

\* A seat names a desk that is there.
LEMMA SeatsKnown ==
  ASSUME SeatingInv, NEW x \in Plans, NEW c \in Candidates
  PROVE  /\ plan[x] \in PlanRow /\ plan[x].seats \in Seats
         /\ plan[x].seats[c] \in DeskIds \cup {Absent}
         /\ plan[x].seats[c] # Absent => desk[plan[x].seats[c]] # Absent
BY DEF SeatingInv, SeatingTypeOK, SeatsHaveDesks, PlanRow, Seats

LEMMA SeatedDesks ==
  ASSUME SeatingInv, NEW d \in DeskIds, Seated(d)
  PROVE  desk[d] # Absent
BY SeatsKnown, SeatingAssumption DEF Seated

\* Desks with a seat stay where they are.
DesksStay ==
  \A d \in DeskIds : Seated(d) => desk'[d] # Absent /\ desk'[d].room = desk[d].room

\* Seats are taken away, never given.
SeatsLost ==
  \A x \in Plans :
    /\ plan'[x].rooms = plan[x].rooms
    /\ \A c \in Candidates : plan'[x].seats[c] \in {Absent, plan[x].seats[c]}

\* No request leaves, or gets to the commit of, a replacement of rooms.
Aside ==
  \A e \in Editors :
    editor'[e] = editor[e] \/ (editor[e].step \notin Apart /\ editor'[e].step # "commit")

\* A deletion under way goes on.
LEMMA DeletionsGoOn ==
  ASSUME Aside, NEW x \in Plans, BeingDeleted(x)
  PROVE  BeingDeleted(x)'
BY DEF Aside, Apart, BeingDeleted, At

\* A seat that is kept stays within the rooms it was in.
LEMMA WithinStays ==
  ASSUME SeatingInv, DesksStay, SeatsLost,
         NEW x \in Plans, NEW c \in Candidates, NEW rooms, Within(plan[x].seats[c], desk, rooms)
  PROVE  Within(plan'[x].seats[c], desk', rooms)
<1>1. plan[x].seats[c] \in DeskIds \cup {Absent}
  BY SeatsKnown
<1>2. plan'[x].seats[c] \in {Absent, plan[x].seats[c]}
  BY DEF SeatsLost
<1>3. ASSUME plan'[x].seats[c] # Absent
      PROVE  desk'[plan'[x].seats[c]].room \in rooms
  <2>1. plan'[x].seats[c] = plan[x].seats[c] /\ Seated(plan[x].seats[c])
    BY <1>2, <1>3 DEF Seated
  <2> QED
    BY <1>1, <1>3, <2>1 DEF DesksStay, Within
<1> QED
  BY <1>3 DEF Within

\* Steps that only take seats away, and leave their desks and rooms alone.
LEMMA LosingKeeps ==
  ASSUME SeatingInv, DesksStay, SeatsLost, Aside, unsettled \subseteq unsettled',
         unsettled' \subseteq Plans
  PROVE  SeatsHaveDesks' /\ ReplacementsClear' /\ SeatsFollowed'
<1>1. SeatsHaveDesks'
  <2>1. ASSUME NEW x \in Plans, NEW c \in Candidates, plan'[x].seats[c] # Absent
        PROVE  desk'[plan'[x].seats[c]] # Absent
    <3>1. plan'[x].seats[c] = plan[x].seats[c] /\ plan[x].seats[c] \in DeskIds
      BY <2>1, SeatsKnown DEF SeatsLost
    <3>2. Seated(plan[x].seats[c])
      BY DEF Seated
    <3> QED
      BY <3>1, <3>2 DEF DesksStay
  <2> QED
    BY <2>1 DEF SeatsHaveDesks
<1>2. ReplacementsClear'
  <2>1. ASSUME NEW e \in Editors, editor'[e].step = "commit", editor'[e].plan \notin unsettled',
               ~ BeingDeleted(editor[e].plan)'
        PROVE  Clears(editor'[e], plan'[editor'[e].plan].seats, desk', plan'[editor'[e].plan].rooms)
    <3>1. editor'[e] = editor[e] /\ At(e, "commit") /\ editor[e].plan \in Plans
      BY <2>1, RequestsKnown DEF Aside, At
    <3>2. ~ BeingDeleted(editor[e].plan)
      BY <2>1, <3>1, DeletionsGoOn
    <3>3. Clears(editor[e], plan[editor[e].plan].seats, desk, plan[editor[e].plan].rooms)
      BY <2>1, <3>1, <3>2 DEF SeatingInv, ReplacementsClear
    <3>4. plan'[editor[e].plan].rooms = plan[editor[e].plan].rooms
      BY <3>1 DEF SeatsLost
    <3> QED
      BY <3>1, <3>3, <3>4, WithinStays DEF Clears
  <2> QED
    BY <2>1 DEF ReplacementsClear, At
<1>3. SeatsFollowed'
  <2>1. ASSUME NEW x \in Plans \ unsettled', \A e \in Editors : ~ Follows(editor'[e], x)
        PROVE  \A c \in Candidates : Within(plan'[x].seats[c], desk', plan'[x].rooms)
    <3>1. \A e \in Editors : ~ Follows(editor[e], x)
      BY <2>1 DEF Aside, Follows, Apart
    <3>2. \A c \in Candidates : Within(plan[x].seats[c], desk, plan[x].rooms)
      BY <2>1, <3>1 DEF SeatingInv, SeatsFollowed
    <3>3. plan'[x].rooms = plan[x].rooms
      BY DEF SeatsLost
    <3> QED
      BY <3>2, <3>3, WithinStays
  <2> QED
    BY <2>1 DEF SeatsFollowed
<1> QED
  BY <1>1, <1>2, <1>3

\* A request that is made, goes on, or is answered.
LEMMA EditorWritten ==
  ASSUME SeatingInv, NEW e \in Editors, NEW q \in Request, editor' = [editor EXCEPT ![e] = q]
  PROVE  /\ RequestsOK' /\ editor'[e] = q
         /\ \A k \in Editors \ {e} : editor'[k] = editor[k]
BY DEF SeatingInv, RequestsOK

LEMMA EditorAnswered ==
  ASSUME SeatingInv, NEW e \in Editors, Answers(e)
  PROVE  /\ RequestsOK' /\ editor'[e] = Free /\ Free \in Request
         /\ \A k \in Editors \ {e} : editor'[k] = editor[k]
<1>1. Free \in Request
  BY DEF Request
<1> QED
  BY <1>1, EditorWritten DEF Answers

LEMMA EditorSubmits ==
  ASSUME SeatingInv, NEW e \in Editors, NEW q \in Request, Submits(e, q), q.step # "commit"
  PROVE  RequestsOK' /\ Aside
<1>1. editor[e].step = "none"
  BY DEF Submits, Free
<1>2. /\ RequestsOK' /\ editor'[e] = q
      /\ \A k \in Editors \ {e} : editor'[k] = editor[k]
  BY EditorWritten DEF Submits
<1> QED
  BY <1>1, <1>2 DEF Aside, Apart

\* A request at a step that is not apart is answered.
LEMMA EditorLeaves ==
  ASSUME SeatingInv, NEW e \in Editors, Answers(e), editor[e].step \notin Apart
  PROVE  RequestsOK' /\ Aside
BY EditorAnswered DEF Aside, Free

\* The same request at a later step.
LEMMA EditorProceeds ==
  ASSUME SeatingInv, NEW e \in Editors, NEW step, Proceeds(e, step)
  PROVE  /\ editor' = [editor EXCEPT ![e] = [editor[e] EXCEPT !.step = step]]
         /\ editor'[e] = [editor[e] EXCEPT !.step = step]
         /\ \A k \in Editors \ {e} : editor'[k] = editor[k]
BY DEF Proceeds, SeatingInv, RequestsOK

\* When nothing changes that a plan is seated by.
LEMMA NothingLost ==
  ASSUME SeatingInv, UNCHANGED << desk, plan >>
  PROVE  DesksStay /\ SeatsLost
<1>1. SeatsLost
  BY DEF SeatsLost
<1>2. ASSUME NEW d \in DeskIds, Seated(d)
      PROVE  desk[d] # Absent
  BY <1>2, SeatedDesks
<1> QED
  BY <1>1, <1>2 DEF DesksStay

\* A step keeps the invariant when it keeps the tables well formed and takes
\* nothing but seats away.
LEMMA Lost ==
  ASSUME SeatingInv, SeatingTypeOK', RequestsOK', Aside, DesksStay, SeatsLost,
         unsettled \subseteq unsettled'
  PROVE  SeatingInv'
<1>1. unsettled' \subseteq Plans
  BY DEF SeatingTypeOK
<1> QED
  BY <1>1, LosingKeeps DEF SeatingInv
-----------------------------------------------------------------------------
(* Classrooms and layouts.                                                  *)

LEMMA RoomsKeep ==
  ASSUME SeatingInv, room' \in [Rooms -> RoomRow], RequestsOK', Aside,
         UNCHANGED << desk, plan, onRoster, unsettled >>
  PROVE  SeatingInv'
<1>1. SeatingTypeOK'
  BY DEF SeatingInv, SeatingTypeOK
<1> QED
  BY <1>1, NothingLost, Lost

\* A classroom is made, marked deleted, or restored.
LEMMA ClassroomsKeep ==
  ASSUME SeatingInv, NEW r \in Rooms,
         CreateClassroom(r) \/ MarkDeleted(r, TRUE) \/ MarkDeleted(r, FALSE)
  PROVE  SeatingInv'
<1>1. UNCHANGED << desk, plan, onRoster, unsettled, editor >>
  BY DEF CreateClassroom, MarkDeleted, OnlyRooms
<1>2. room' \in [Rooms -> RoomRow]
  <2>1. room \in [Rooms -> RoomRow] /\ room[r] \in RoomRow
    BY DEF SeatingInv, SeatingTypeOK
  <2>2. PICK row \in {[room[r] EXCEPT !.status = "there"], [room[r] EXCEPT !.deleted = TRUE],
                      [room[r] EXCEPT !.deleted = FALSE]} : room' = [room EXCEPT ![r] = row]
    BY <2>1 DEF CreateClassroom, MarkDeleted
  <2>3. row \in RoomRow
    BY <2>1, <2>2 DEF RoomRow, Presence
  <2> QED
    BY <2>1, <2>2, <2>3
<1>3. RequestsOK' /\ Aside
  BY <1>1 DEF RequestsOK, Aside, SeatingInv
<1> QED
  BY <1>1, <1>2, <1>3, RoomsKeep

\* It is edited, or deleted for good.
LEMMA RoomActionsKeep ==
  ASSUME SeatingInv, NEW r \in Rooms, NEW e \in Editors,
         \/ ReadClassroom(e, r, "edit") \/ ReadClassroom(e, r, "toggle")
         \/ SaveClassroom(e) \/ HardDeleteRoom(e)
  PROVE  SeatingInv'
<1>1. UNCHANGED << desk, plan, onRoster, unsettled >>
  BY DEF ReadClassroom, SaveClassroom, HardDeleteRoom, OnlyRooms
<1>2. room \in [Rooms -> RoomRow] /\ RequestsOK
  BY DEF SeatingInv, SeatingTypeOK
<1>4. ASSUME NEW step \in {"edit", "toggle"}, ReadClassroom(e, r, step)
      PROVE  SeatingInv'
  <2> DEFINE q == [step |-> step, room |-> r, seen |-> room[r]]
  <2>1. q \in Request /\ q.step # "commit" /\ Submits(e, q) /\ room' = room
    BY <1>2, <1>4 DEF ReadClassroom, Request
  <2> HIDE DEF q
  <2>2. RequestsOK' /\ Aside
    BY <2>1, EditorSubmits
  <2> QED
    BY <1>1, <1>2, <2>1, <2>2, RoomsKeep
<1>5. CASE SaveClassroom(e)
  <2>1. editor[e].step \in {"edit", "toggle"} /\ Answers(e)
    BY <1>5 DEF SaveClassroom
  <2>2. editor[e].room \in Rooms /\ editor[e].seen \in RoomRow
    BY <2>1, RequestsKnown DEF At
  <2>3. room' \in [Rooms -> RoomRow]
    <3>1. PICK active \in BOOLEAN :
            room' = [room EXCEPT ![editor[e].room] = [editor[e].seen EXCEPT !.active = active]]
      BY <1>2, <1>5, <2>2 DEF SaveClassroom, RoomRow
    <3> QED
      BY <1>2, <2>2, <3>1 DEF RoomRow
  <2>4. RequestsOK' /\ Aside
    BY <2>1, EditorLeaves DEF Apart
  <2> QED
    BY <1>1, <2>3, <2>4, RoomsKeep
<1>6. CASE HardDeleteRoom(e)
  <2>1. At(e, "harddelete") /\ Answers(e) /\ editor[e].room \in Rooms
    BY <1>6, RequestsKnown DEF HardDeleteRoom
  <2>2. room' \in [Rooms -> RoomRow]
    BY <1>2, <1>6, <2>1 DEF HardDeleteRoom, RoomRow, Presence
  <2>3. RequestsOK' /\ Aside
    BY <2>1, EditorLeaves DEF Apart, At
  <2> QED
    BY <1>1, <2>2, <2>3, RoomsKeep
<1> QED
  BY <1>4, <1>5, <1>6

LEMMA DesksKeep ==
  ASSUME SeatingInv, desk' \in [DeskIds -> DeskRow \cup {Absent}], DesksStay, RequestsOK', Aside,
         UNCHANGED << room, plan, onRoster, unsettled >>
  PROVE  SeatingInv'
<1>1. SeatingTypeOK'
  BY DEF SeatingInv, SeatingTypeOK
<1>2. SeatsLost
  BY DEF SeatsLost
<1> QED
  BY <1>1, <1>2, Lost

\* Desks without a seat are deleted.
LEMMA DesksDeleted ==
  ASSUME SeatingInv, NEW gone \in SUBSET DeskIds, \A d \in gone : ~ Seated(d),
         desk' = [d \in DeskIds |-> IF d \in gone THEN Absent ELSE desk[d]]
  PROVE  desk' \in [DeskIds -> DeskRow \cup {Absent}] /\ DesksStay
<1>1. desk \in [DeskIds -> DeskRow \cup {Absent}]
  BY DEF SeatingInv, SeatingTypeOK
<1>2. ASSUME NEW d \in DeskIds, Seated(d)
      PROVE  desk[d] # Absent
  BY <1>2, SeatedDesks
<1> QED
  BY <1>1, <1>2 DEF DesksStay

LEMMA HardDeletingKeeps ==
  ASSUME SeatingInv, NEW r \in Rooms, NEW e \in Editors, HardDeleteDesks(e, r)
  PROVE  SeatingInv'
<1> DEFINE q == [step |-> "harddelete", room |-> r]
<1>1. q \in Request /\ q.step # "commit" /\ Submits(e, q)
  BY DEF HardDeleteDesks, Request
<1> HIDE DEF q
<1>2. RequestsOK' /\ Aside
  BY <1>1, EditorSubmits
<1>3. UNCHANGED << room, plan, onRoster, unsettled >>
  BY DEF HardDeleteDesks
<1> DEFINE gone == IF \E d \in DesksOf(r) : Seated(d) THEN {} ELSE DesksOf(r)
<1>4. gone \in SUBSET DeskIds /\ \A d \in gone : ~ Seated(d)
  BY DEF DesksOf
<1>5. desk \in [DeskIds -> DeskRow \cup {Absent}]
  BY DEF SeatingInv, SeatingTypeOK
<1>6. desk' = [d \in DeskIds |-> IF d \in gone THEN Absent ELSE desk[d]]
  BY <1>5 DEF HardDeleteDesks
<1> HIDE DEF gone
<1>7. desk' \in [DeskIds -> DeskRow \cup {Absent}] /\ DesksStay
  BY <1>4, <1>6, DesksDeleted
<1> QED
  BY <1>2, <1>3, <1>7, DesksKeep

LEMMA LayingOutKeeps ==
  ASSUME SeatingInv, NEW e \in Editors, NEW r \in Rooms, NEW keep \in SUBSET DesksOf(r),
         NEW new \in BOOLEAN, NEW off \in SUBSET keep, ReadLayout(e, r, keep, off, new)
  PROVE  SeatingInv'
<1> DEFINE q == [step |-> "remove", room |-> r, keep |-> keep, off |-> off, new |-> new,
                 existing |-> DesksOf(r)]
<1>1. q \in Request /\ q.step # "commit" /\ Submits(e, q)
  BY DEF ReadLayout, Request, DesksOf
<1> HIDE DEF q
<1>2. RequestsOK' /\ Aside
  BY <1>1, EditorSubmits
<1>3. UNCHANGED << room, desk, plan, onRoster, unsettled >>
  BY DEF ReadLayout, OnlyDesks
<1>4. desk' \in [DeskIds -> DeskRow \cup {Absent}] /\ DesksStay
  BY <1>3, NothingLost DEF SeatingInv, SeatingTypeOK
<1> QED
  BY <1>2, <1>3, <1>4, DesksKeep

LEMMA RemovingKeeps ==
  ASSUME SeatingInv, NEW e \in Editors, RemoveDesks(e)
  PROVE  SeatingInv'
<1>1. At(e, "remove") /\ Proceeds(e, "write") /\ UNCHANGED << room, plan, onRoster, unsettled >>
  BY DEF RemoveDesks, OnlyDesks
<1> DEFINE gone == Removed(editor[e])
<1>2. gone \in SUBSET DeskIds /\ \A d \in gone : ~ Seated(d)
  BY <1>1, RequestsKnown DEF Removed
<1>3. desk' = [d \in DeskIds |-> IF d \in gone THEN Absent ELSE desk[d]]
  BY DEF RemoveDesks
<1>4. editor[e] \in Request /\ editor[e].step = "remove"
  BY <1>1, RequestsKnown DEF At
<1>5. /\ [editor[e] EXCEPT !.step = "write"] \in Request
      /\ [editor[e] EXCEPT !.step = "write"].step = "write"
  BY <1>4 DEF Request, Free
<1>6. RequestsOK' /\ Aside
  BY <1>1, <1>4, <1>5, EditorProceeds, EditorWritten DEF Aside, Apart
<1> HIDE DEF gone
<1>7. desk' \in [DeskIds -> DeskRow \cup {Absent}] /\ DesksStay
  BY <1>2, <1>3, DesksDeleted
<1> QED
  BY <1>1, <1>6, <1>7, DesksKeep

\* A desk that is switched is in the room it was in, and a new one has no seat yet.
LEMMA WritingKeeps ==
  ASSUME SeatingInv, NEW e \in Editors, WriteDesks(e)
  PROVE  SeatingInv'
<1> DEFINE q == editor[e]
           Switched(d) == [desk[d] EXCEPT !.on = d \notin q.off]
           switched == [d \in DeskIds |-> IF d \in q.keep /\ desk[d] # Absent
                          THEN Switched(d) ELSE desk[d]]
<1>1. At(e, "write") /\ Answers(e) /\ UNCHANGED << room, plan, onRoster, unsettled >>
  BY DEF WriteDesks, OnlyDesks
<1>2. q.room \in Rooms /\ editor[e].step \notin Apart
  BY <1>1, RequestsKnown DEF At, Apart
<1>3. RequestsOK' /\ Aside
  BY <1>1, <1>2, EditorLeaves
<1>4. desk \in [DeskIds -> DeskRow \cup {Absent}]
  BY DEF SeatingInv, SeatingTypeOK
<1>5. ASSUME NEW d \in DeskIds, desk[d] # Absent
      PROVE  Switched(d) \in DeskRow /\ Switched(d).room = desk[d].room
  BY <1>4, <1>5 DEF DeskRow
<1> HIDE DEF Switched
<1>6. /\ switched \in [DeskIds -> DeskRow \cup {Absent}]
      /\ \A d \in DeskIds : desk[d] # Absent =>
           switched[d] # Absent /\ switched[d].room = desk[d].room
  BY <1>4, <1>5, SeatingAssumption
<1>7. ASSUME NEW d \in DeskIds, Seated(d)
      PROVE  desk[d] # Absent
  BY <1>7, SeatedDesks
<1>8. CASE desk' = switched
  BY <1>1, <1>3, <1>6, <1>7, <1>8, DesksKeep DEF DesksStay
<1>9. ASSUME NEW d \in DeskIds, desk[d] = Absent,
             desk' = [switched EXCEPT ![d] = [room |-> q.room, on |-> TRUE]]
      PROVE  SeatingInv'
  <2>1. [room |-> q.room, on |-> TRUE] \in DeskRow
    BY <1>2 DEF DeskRow
  <2> HIDE DEF switched
  <2>2. desk' \in [DeskIds -> DeskRow \cup {Absent}]
    BY <1>6, <1>9, <2>1
  <2>3. DesksStay
    BY <1>6, <1>7, <1>9 DEF DesksStay
  <2> QED
    BY <1>1, <1>3, <2>2, <2>3, DesksKeep
<1>10. \/ desk' = switched
       \/ \E d \in DeskIds : desk[d] = Absent
                             /\ desk' = [switched EXCEPT ![d] = [room |-> q.room, on |-> TRUE]]
  BY DEF WriteDesks, NewDeskId, Switched
<1> QED
  BY <1>8, <1>9, <1>10
-----------------------------------------------------------------------------
(* Plans: seats given and taken.                                            *)

\* A plan with other seats, rooms or status is a plan.
LEMMA PlanWritten ==
  ASSUME SeatingInv, NEW x \in Plans, NEW p \in PlanRow, plan' = [plan EXCEPT ![x] = p]
  PROVE  /\ plan' \in [Plans -> PlanRow] /\ plan'[x] = p
         /\ \A y \in Plans \ {x} : plan'[y] = plan[y]
BY DEF SeatingInv, SeatingTypeOK

\* Students are seated at desks that are there: in the rooms of the plan, or by a
\* request that will replace them, or the plan is unsettled.
LEMMA SeatingKeeps ==
  ASSUME SeatingInv, NEW x \in Plans, NEW seats \in Seats, NEW desks \in SUBSET DeskIds,
         plan' = [plan EXCEPT ![x].seats = seats],
         \A c \in Candidates : seats[c] \in {Absent, plan[x].seats[c]} \cup desks,
         \A d \in desks : desk[d] # Absent,
         RequestsOK', Aside, UNCHANGED << room, desk, onRoster >>,
         unsettled' \in {unsettled, unsettled \cup {x}},
         x \notin unsettled' /\ desks # {} =>
           /\ ~ BeingReplaced(x)
           /\ desks \subseteq Offered(x) \/ \E e \in Editors : Follows(editor'[e], x)
  PROVE  SeatingInv'
<1> DEFINE p == [plan[x] EXCEPT !.seats = seats]
<1>1. plan[x] \in PlanRow /\ plan \in [Plans -> PlanRow]
  BY DEF SeatingInv, SeatingTypeOK
<1>2. p \in PlanRow /\ p.seats = seats /\ p.rooms = plan[x].rooms
  BY <1>1 DEF PlanRow, Seats
<1>3. plan' = [plan EXCEPT ![x] = p]
  BY <1>1
<1> HIDE DEF p
<1>4. /\ plan' \in [Plans -> PlanRow] /\ plan'[x] = p
      /\ \A y \in Plans \ {x} : plan'[y] = plan[y]
  BY <1>2, <1>3, PlanWritten
<1>5. SeatingTypeOK'
  BY <1>4 DEF SeatingInv, SeatingTypeOK
<1>6. SeatsHaveDesks'
  <2>1. ASSUME NEW c \in Candidates, seats[c] # Absent PROVE desk[seats[c]] # Absent
    BY <2>1, SeatsKnown
  <2> QED
    BY <1>2, <1>4, <2>1 DEF SeatingInv, SeatsHaveDesks
<1>7. ReplacementsClear'
  <2>1. ASSUME NEW e \in Editors, editor'[e].step = "commit", editor'[e].plan \notin unsettled',
               ~ BeingDeleted(editor[e].plan)'
        PROVE  Clears(editor'[e], plan'[editor'[e].plan].seats, desk', plan'[editor'[e].plan].rooms)
    <3>1. editor'[e] = editor[e] /\ At(e, "commit") /\ editor[e].plan \in Plans
      BY <2>1, RequestsKnown DEF Aside, At
    <3>2. editor[e].plan \notin unsettled
      BY <2>1, <3>1
    <3>a. ~ BeingDeleted(editor[e].plan)
      BY <2>1, <3>1, DeletionsGoOn
    <3>3. Clears(editor[e], plan[editor[e].plan].seats, desk, plan[editor[e].plan].rooms)
      BY <3>1, <3>2, <3>a DEF SeatingInv, ReplacementsClear
    <3>4. CASE editor[e].plan # x
      BY <1>4, <3>1, <3>3, <3>4
    <3>5. CASE editor[e].plan = x
      <4>1. desks = {}
        BY <2>1, <3>1, <3>5 DEF BeingReplaced
      <4>2. plan'[x].seats = seats /\ plan'[x].rooms = plan[x].rooms
        BY <1>2, <1>4
      <4> QED
        BY <3>1, <3>3, <3>5, <4>1, <4>2 DEF Clears, Within
    <3> QED
      BY <3>4, <3>5
  <2> QED
    BY <2>1 DEF ReplacementsClear, At
<1>8. SeatsFollowed'
  <2>1. ASSUME NEW y \in Plans \ unsettled', \A e \in Editors : ~ Follows(editor'[e], y)
        PROVE  \A c \in Candidates : Within(plan'[y].seats[c], desk', plan'[y].rooms)
    <3>1. \A e \in Editors : ~ Follows(editor[e], y)
      BY <2>1 DEF Aside, Follows
    <3>2. \A c \in Candidates : Within(plan[y].seats[c], desk, plan[y].rooms)
      BY <2>1, <3>1 DEF SeatingInv, SeatsFollowed
    <3>3. CASE y # x
      BY <1>4, <3>2, <3>3
    <3>4. CASE y = x
      <4>1. desks \subseteq Offered(x)
        BY <2>1, <3>4
      <4>2. plan'[x].seats = seats /\ plan'[x].rooms = plan[x].rooms
        BY <1>2, <1>4
      <4> QED
        BY <3>2, <3>4, <4>1, <4>2 DEF Within, Offered
    <3> QED
      BY <3>3, <3>4
  <2> QED
    BY <2>1 DEF SeatsFollowed
<1> QED
  BY <1>5, <1>6, <1>7, <1>8 DEF SeatingInv

\* AssignExamSeatHandler and its kind.
LEMMA SettingKeeps ==
  ASSUME SeatingInv, NEW x \in Plans, NEW seats \in Seats, NEW desks \in SUBSET DeskIds,
         \A c \in Candidates : seats[c] \in {Absent, plan[x].seats[c]} \cup desks,
         SetSeats(x, seats, desks)
  PROVE  SeatingInv'
<1>1. RequestsOK' /\ Aside
  BY DEF SetSeats, SeatingInv, RequestsOK, Aside
<1>2. \A d \in desks : desk[d] # Absent
  BY DEF SetSeats, MaySeat
<1>3. /\ plan' = [plan EXCEPT ![x].seats = seats]
      /\ UNCHANGED << room, desk, onRoster >>
      /\ unsettled' \in {unsettled, unsettled \cup {x}}
      /\ x \notin unsettled' /\ desks # {} => ~ BeingReplaced(x) /\ desks \subseteq Offered(x)
  BY DEF SetSeats
<1> QED
  BY <1>1, <1>2, <1>3, SeatingKeeps

LEMMA AssigningKeeps ==
  ASSUME SeatingInv, NEW x \in Plans, NEW c \in Candidates, NEW d \in DeskIds \cup {Absent},
         AssignExamSeat(x, c, d)
  PROVE  SeatingInv'
<1> DEFINE seats == [plan[x].seats EXCEPT ![c] = d]
           desks == {d} \ {Absent}
<1>1. plan[x].seats \in Seats
  BY SeatsKnown
<1>2. /\ seats \in Seats /\ desks \in SUBSET DeskIds
      /\ \A k \in Candidates : seats[k] \in {Absent, plan[x].seats[k]} \cup desks
  BY <1>1 DEF Seats
<1>3. SetSeats(x, seats, desks)
  BY DEF AssignExamSeat
<1> HIDE DEF seats, desks
<1> QED
  BY <1>2, <1>3, SettingKeeps

LEMMA ReseatingKeeps ==
  ASSUME SeatingInv, NEW x \in Plans, NEW seats \in Seats, ReplaceExamSeats(x, seats)
  PROVE  SeatingInv'
<1>1. Taken(seats) \in SUBSET DeskIds /\ \A c \in Candidates : seats[c] \in {Absent} \cup Taken(seats)
  BY DEF Taken, Seats
<1> QED
  BY <1>1, SettingKeeps DEF ReplaceExamSeats

\* The seats of an automatic assignment or an import go in as a whole.
LEMMA InsertingKeeps ==
  ASSUME SeatingInv, NEW e \in Editors, BulkCreateExamSeats(e)
  PROVE  SeatingInv'
<1> DEFINE q == editor[e]
           x == q.plan
           seated == plan[x].seats
           both == [c \in Candidates |-> IF seated[c] = Absent THEN q.seats[c] ELSE seated[c]]
           desks == Taken(q.seats)
           step == IF q.rooms = Absent THEN "sync" ELSE "rooms"
           after == [q EXCEPT !.step = step]
<1>1. At(e, "insert") /\ UNCHANGED << room, desk, onRoster >>
  BY DEF BulkCreateExamSeats, OnlyPlans
<1>2. /\ q \in Request /\ q.step = "insert" /\ x \in Plans /\ q.seats \in Seats
      /\ q.rooms \in (SUBSET Rooms) \cup {Absent}
  BY <1>1, RequestsKnown DEF At
<1>3. CASE UNCHANGED << plan, unsettled >> /\ Answers(e)
  <2>1. RequestsOK' /\ Aside
    BY <1>2, <1>3, EditorLeaves DEF Apart
  <2>2. SeatingTypeOK'
    BY <1>1, <1>3 DEF SeatingInv, SeatingTypeOK
  <2> QED
    BY <1>1, <1>3, <2>1, <2>2, NothingLost, Lost
<1>4. CASE ~ (UNCHANGED << plan, unsettled >> /\ Answers(e))
  <2>1. /\ plan' = [plan EXCEPT ![x].seats = both]
        /\ MaySeat(x, desks)
        /\ unsettled' = IF BeingReplaced(x) THEN unsettled \cup {x} ELSE unsettled
        /\ Proceeds(e, step)
    BY <1>4 DEF BulkCreateExamSeats
  <2>2. seated \in Seats
    BY <1>2 DEF SeatingInv, SeatingTypeOK, PlanRow, Seats
  <2>3. /\ both \in Seats /\ desks \in SUBSET DeskIds
        /\ \A c \in Candidates : both[c] \in {Absent, seated[c]} \cup desks
        /\ desks # {} => q.seats # NoSeats
    BY <1>2, <2>2 DEF Seats, Taken, NoSeats
  <2>4. \A d \in desks : desk[d] # Absent
    BY <2>1 DEF MaySeat
  <2>a. /\ step \in {"sync", "rooms"}
        /\ step = "rooms" => q.rooms \in SUBSET Rooms
    <3>1. q.rooms = Absent \/ q.rooms \in SUBSET Rooms
      BY <1>2, Zenon
    <3>2. step \in {"sync", "rooms"} /\ (step = "rooms" => q.rooms # Absent)
      OBVIOUS
    <3> QED
      BY <3>1, <3>2
  <2>b. q \in [step: {"clear", "insert", "sync"}, plan: Plans,
               rooms: (SUBSET Rooms) \cup {Absent}, seats: Seats]
    BY <1>2 DEF Request, Free
  <2> HIDE DEF step
  <2>5. after \in Request /\ after.step = step /\ after.plan = x /\ after.seats = q.seats
    BY <2>a, <2>b DEF Request
  <2>6. /\ editor' = [editor EXCEPT ![e] = after] /\ editor'[e] = after
        /\ \A k \in Editors \ {e} : editor'[k] = editor[k]
    BY <2>1, EditorProceeds
  <2> HIDE DEF after, both, desks
  <2>7. RequestsOK'
    BY <2>5, <2>6, EditorWritten
  <2>8. Aside
    BY <1>2, <2>a, <2>5, <2>6 DEF Aside, Apart
  <2>9. desks # {} => Follows(editor'[e], x)
    BY <2>3, <2>a, <2>5, <2>6 DEF Follows, Apart
  <2>10. /\ unsettled' \in {unsettled, unsettled \cup {x}}
         /\ x \notin unsettled' /\ desks # {} =>
              /\ ~ BeingReplaced(x)
              /\ desks \subseteq Offered(x) \/ \E k \in Editors : Follows(editor'[k], x)
    BY <2>1, <2>9
  <2>11. plan' = [plan EXCEPT ![x].seats = both] /\ UNCHANGED << room, desk, onRoster >>
    BY <1>1, <2>1
  <2>12. x \in Plans /\ both \in Seats /\ desks \in SUBSET DeskIds
         /\ \A c \in Candidates : both[c] \in {Absent, plan[x].seats[c]} \cup desks
    BY <1>2, <2>3
  <2> HIDE DEF x, q
  <2> QED
    BY <2>4, <2>7, <2>8, <2>10, <2>11, <2>12, SeatingKeeps
<1> QED
  BY <1>3, <1>4

\* Requests that take seats or nothing: they read, or they clear.
LEMMA PlansLost ==
  ASSUME SeatingInv, NEW x \in Plans, NEW p \in PlanRow, plan' = [plan EXCEPT ![x] = p],
         p.rooms = plan[x].rooms,
         \A c \in Candidates : p.seats[c] \in {Absent, plan[x].seats[c]},
         RequestsOK', Aside, UNCHANGED << room, desk, onRoster, unsettled >>
  PROVE  SeatingInv'
<1>1. /\ plan' \in [Plans -> PlanRow] /\ plan'[x] = p
      /\ \A y \in Plans \ {x} : plan'[y] = plan[y]
  BY PlanWritten
<1>2. SeatingTypeOK'
  BY <1>1 DEF SeatingInv, SeatingTypeOK
<1>3. SeatsLost
  BY <1>1 DEF SeatsLost
<1>4. DesksStay
  BY SeatedDesks DEF DesksStay
<1> QED
  BY <1>2, <1>3, <1>4, Lost

\* A request that has only read something.
LEMMA AskingKeeps ==
  ASSUME SeatingInv, RequestsOK', Aside, UNCHANGED << room, desk, plan, unsettled >>,
         onRoster' \subseteq Candidates
  PROVE  SeatingInv'
<1>1. SeatingTypeOK'
  BY DEF SeatingInv, SeatingTypeOK
<1> QED
  BY <1>1, NothingLost, Lost

LEMMA PlanRequestsKeep ==
  ASSUME SeatingInv, NEW e \in Editors, NEW x \in Plans, NEW rooms \in SUBSET Rooms, NEW seats \in Seats,
         \/ CreateExamSession(e, x, rooms) \/ UpdateExamSessionClassrooms(e, x, rooms)
         \/ DeleteExamSession(e, x) \/ AutoAssign(e, x, rooms, seats) \/ ImportExamSeats(e, x, seats)
  PROVE  SeatingInv'
<1>1. UNCHANGED << room, desk, onRoster, unsettled >>
  BY DEF CreateExamSession, UpdateExamSessionClassrooms, DeleteExamSession, AutoAssign,
         ImportExamSeats, OnlyPlans
<1>2. /\ plan \in [Plans -> PlanRow] /\ plan[x] \in PlanRow /\ onRoster \subseteq Candidates
      /\ NoSeats \in Seats /\ "there" \in Presence
  BY DEF SeatingInv, SeatingTypeOK, NoSeats, Seats, Presence
<1> DEFINE there == [plan[x] EXCEPT !.status = "there"]
           cleared == [plan[x] EXCEPT !.seats = NoSeats]
<1>3. /\ there \in PlanRow /\ there.rooms = plan[x].rooms /\ there.seats = plan[x].seats
      /\ cleared \in PlanRow /\ cleared.rooms = plan[x].rooms
      /\ \A c \in Candidates : cleared.seats[c] = Absent
  BY <1>2 DEF PlanRow, Presence, Seats, NoSeats
<1>4. PICK q \in {Replacement(x, rooms, NoSeats), [step |-> "clearrooms", plan |-> x],
                  [step |-> "clear", plan |-> x, rooms |-> rooms, seats |-> seats],
                  [step |-> "insert", plan |-> x, rooms |-> Absent, seats |-> seats]} :
        Submits(e, q)
  BY DEF CreateExamSession, UpdateExamSessionClassrooms, DeleteExamSession, AutoAssign, ImportExamSeats
<1>5. q \in Request /\ q.step # "commit"
  BY <1>2 DEF Request, Replacement
<1>6. RequestsOK' /\ Aside
  BY <1>4, <1>5, EditorSubmits
<1>7. CASE plan' = [plan EXCEPT ![x].status = "there"]
  <2>1. plan' = [plan EXCEPT ![x] = there]
    BY <1>2, <1>7
  <2> HIDE DEF there
  <2> QED
    BY <1>1, <1>3, <1>6, <2>1, PlansLost
<1>8. CASE plan' = [plan EXCEPT ![x].seats = NoSeats]
  <2>1. plan' = [plan EXCEPT ![x] = cleared]
    BY <1>2, <1>8
  <2> HIDE DEF cleared
  <2> QED
    BY <1>1, <1>3, <1>6, <2>1, PlansLost
<1>9. CASE plan' = plan
  BY <1>1, <1>2, <1>6, <1>9, AskingKeeps
<1> QED
  BY <1>7, <1>8, <1>9 DEF CreateExamSession, UpdateExamSessionClassrooms, DeleteExamSession, AutoAssign,
       ImportExamSeats

LEMMA ClearingSeatsKeeps ==
  ASSUME SeatingInv, NEW e \in Editors, ClearExamSeats(e)
  PROVE  SeatingInv'
<1> DEFINE x == editor[e].plan
           p == [plan[x] EXCEPT !.seats = NoSeats]
           after == [editor[e] EXCEPT !.step = "insert"]
<1>1. /\ At(e, "clear") /\ Proceeds(e, "insert") /\ UNCHANGED << room, desk, onRoster, unsettled >>
      /\ plan' = [plan EXCEPT ![x].seats = NoSeats]
  BY DEF ClearExamSeats, OnlyPlans
<1>2. editor[e] \in Request /\ editor[e].step = "clear" /\ x \in Plans
  BY <1>1, RequestsKnown DEF At
<1>3. after \in Request /\ after.step = "insert"
  BY <1>2 DEF Request, Free
<1>4. RequestsOK' /\ Aside
  BY <1>1, <1>2, <1>3, EditorProceeds, EditorWritten DEF Aside, Apart
<1>5. plan \in [Plans -> PlanRow] /\ plan[x] \in PlanRow
  BY <1>2 DEF SeatingInv, SeatingTypeOK
<1>6. /\ p \in PlanRow /\ p.rooms = plan[x].rooms
      /\ \A c \in Candidates : p.seats[c] \in {Absent, plan[x].seats[c]}
      /\ plan' = [plan EXCEPT ![x] = p]
  BY <1>1, <1>5 DEF PlanRow, NoSeats, Seats
<1>7. UNCHANGED << room, desk, onRoster, unsettled >>
  BY <1>1
<1> HIDE DEF p, x
<1> QED
  BY <1>2, <1>4, <1>6, <1>7, PlansLost
-----------------------------------------------------------------------------
(* Plans: the rooms replaced, the row deleted.                              *)

\* The plans, desks and seats stay; one request goes on, between steps that are apart.
LEMMA FollowingKeeps ==
  ASSUME SeatingInv, NEW e \in Editors, NEW q \in Request,
         editor' = [editor EXCEPT ![e] = q], UNCHANGED << room, desk, plan, onRoster, unsettled >>,
         q.plan = editor[e].plan, q.seats = editor[e].seats,
         editor[e].step \in {"sync", "rooms"}, q.step \in {"rooms", "commit"},
         q.step = "commit" => Clears(q, plan[q.plan].seats, desk, plan[q.plan].rooms)
  PROVE  SeatingInv'
<1>1. /\ RequestsOK' /\ editor'[e] = q
      /\ \A k \in Editors \ {e} : editor'[k] = editor[k]
  BY EditorWritten
<1>2. SeatingTypeOK' /\ SeatsHaveDesks'
  BY DEF SeatingInv, SeatingTypeOK, SeatsHaveDesks
<1>3. ReplacementsClear'
  <2>1. ASSUME NEW k \in Editors, editor'[k].step = "commit", editor'[k].plan \notin unsettled',
               ~ BeingDeleted(editor[k].plan)'
        PROVE  Clears(editor'[k], plan'[editor'[k].plan].seats, desk', plan'[editor'[k].plan].rooms)
    <3>1. ~ BeingDeleted(editor'[k].plan)
      BY <1>1, <2>1 DEF BeingDeleted, At
    <3> QED
      BY <1>1, <2>1, <3>1 DEF SeatingInv, ReplacementsClear, At
  <2> QED
    BY <2>1 DEF ReplacementsClear, At
<1>4. SeatsFollowed'
  <2>1. ASSUME NEW y \in Plans \ unsettled', \A k \in Editors : ~ Follows(editor'[k], y)
        PROVE  \A c \in Candidates : Within(plan'[y].seats[c], desk', plan'[y].rooms)
    <3>1. \A k \in Editors : ~ Follows(editor[k], y)
      BY <1>1, <2>1 DEF Follows, Apart
    <3> QED
      BY <2>1, <3>1 DEF SeatingInv, SeatsFollowed
  <2> QED
    BY <2>1 DEF SeatsFollowed
<1> QED
  BY <1>1, <1>2, <1>3, <1>4 DEF SeatingInv

LEMMA SyncingKeeps ==
  ASSUME SeatingInv, NEW e \in Editors, RoomsOfSeats(e)
  PROVE  SeatingInv'
<1> DEFINE named == {desk[d].room : d \in Taken(plan[editor[e].plan].seats)}
           rooms == {r \in named : room[r].status = "there"}
           q == Replacement(editor[e].plan, rooms, editor[e].seats)
<1>1. /\ At(e, "sync") /\ editor' = [editor EXCEPT ![e] = q]
      /\ UNCHANGED << room, desk, plan, onRoster, unsettled >>
  BY DEF RoomsOfSeats, OnlyPlans
<1>2. editor[e].step = "sync" /\ editor[e].plan \in Plans /\ editor[e].seats \in Seats
  BY <1>1, RequestsKnown DEF At
<1>3. \A d \in Taken(plan[editor[e].plan].seats) : desk[d].room \in Rooms
  <2>1. ASSUME NEW c \in Candidates, plan[editor[e].plan].seats[c] # Absent
        PROVE  desk[plan[editor[e].plan].seats[c]].room \in Rooms
    BY <1>2, <2>1, SeatsKnown DEF SeatingInv, SeatingTypeOK, DeskRow
  <2> QED
    BY <2>1 DEF Taken
<1>4. rooms \in SUBSET Rooms
  BY <1>3
<1> HIDE DEF rooms
<1>5. /\ q \in Request /\ q.step = "rooms" /\ q.plan = editor[e].plan /\ q.seats = editor[e].seats
  BY <1>2, <1>4 DEF Request, Replacement
<1> HIDE DEF q
<1> QED
  BY <1>1, <1>2, <1>5, FollowingKeeps

\* Whoever is not doomed sits in the rooms to be written.
LEMMA ReplacingKeeps ==
  ASSUME SeatingInv, NEW e \in Editors, ReplaceRooms(e)
  PROVE  SeatingInv'
<1> DEFINE x == editor[e].plan
           rooms == editor[e].rooms
           doomed == Outside(x, rooms)
           before == plan[x].rooms
           q == [step |-> "commit", plan |-> x, rooms |-> rooms, before |-> before,
                 seats |-> editor[e].seats, doomed |-> doomed]
<1>1. /\ At(e, "rooms") /\ editor' = [editor EXCEPT ![e] = q]
      /\ UNCHANGED << room, desk, plan, onRoster, unsettled >>
  BY DEF ReplaceRooms, OnlyPlans
<1>2. /\ editor[e].step = "rooms" /\ x \in Plans /\ rooms \in SUBSET Rooms
      /\ editor[e].seats \in Seats
  BY <1>1, RequestsKnown DEF At
<1>b. before \in SUBSET Rooms
  BY <1>2, SeatsKnown DEF SeatingInv, SeatingTypeOK, PlanRow
<1>3. /\ doomed \in SUBSET Candidates
      /\ \A c \in Candidates \ doomed : Within(plan[x].seats[c], desk, rooms)
  BY DEF Outside, Within
<1>c. before = plan[x].rooms
  OBVIOUS
<1> HIDE DEF x, rooms, doomed, before
<1>4. /\ q \in Request /\ q.step = "commit" /\ q.plan = x /\ q.seats = editor[e].seats
      /\ q.rooms = rooms /\ q.before = before /\ q.doomed = doomed
  BY <1>2, <1>3, <1>b DEF Request
<1> HIDE DEF q
<1>5. Clears(q, plan[q.plan].seats, desk, plan[q.plan].rooms)
  <2>1. q.rooms \cap (plan[q.plan].rooms \cup Added(q)) = rooms
    BY <1>4, <1>c DEF Added
  <2> QED
    BY <1>3, <1>4, <2>1 DEF Clears
<1> QED
  BY <1>1, <1>2, <1>4, <1>5, FollowingKeeps DEF x

\* A request at a step that is apart is answered: it followed one plan at most.
LEMMA AnsweredFollows ==
  ASSUME SeatingInv, NEW e \in Editors, Answers(e), NEW y \in Plans,
         \A k \in Editors : ~ Follows(editor'[k], y), ~ Follows(editor[e], y)
  PROVE  \A k \in Editors : ~ Follows(editor[k], y)
BY EditorAnswered

\* A request is answered that fails, or whose rooms were not to follow.
LEMMA FailingKeeps ==
  ASSUME SeatingInv, NEW e \in Editors, Answers(e), NEW x \in Plans,
         UNCHANGED << room, desk, plan, onRoster >>,
         \A y \in Plans : Follows(editor[e], y) => y = x,
         unsettled' = unsettled \cup {x} \/ (unsettled' = unsettled /\ ~ Follows(editor[e], x))
  PROVE  SeatingInv'
<1>1. /\ RequestsOK' /\ editor'[e] = Free
      /\ \A k \in Editors \ {e} : editor'[k] = editor[k]
  BY EditorAnswered
<1>2. SeatingTypeOK' /\ SeatsHaveDesks'
  BY DEF SeatingInv, SeatingTypeOK, SeatsHaveDesks
<1>3. ReplacementsClear'
  <2>1. ASSUME NEW k \in Editors, editor'[k].step = "commit", editor'[k].plan \notin unsettled',
               ~ BeingDeleted(editor[k].plan)'
        PROVE  Clears(editor'[k], plan'[editor'[k].plan].seats, desk', plan'[editor'[k].plan].rooms)
    <3>1. editor'[k] = editor[k] /\ At(k, "commit") /\ editor[k].plan \in Plans
      BY <1>1, <2>1, RequestsKnown DEF At, Free
    <3>2. ~ Follows(editor[e], editor[k].plan)
      BY <2>1, <3>1
    <3>3. ~ BeingDeleted(editor[k].plan)
      BY <1>1, <2>1, <3>1, <3>2 DEF BeingDeleted, At, Follows, Apart
    <3> QED
      BY <2>1, <3>1, <3>3 DEF SeatingInv, ReplacementsClear
  <2> QED
    BY <2>1 DEF ReplacementsClear, At
<1>4. SeatsFollowed'
  <2>1. ASSUME NEW y \in Plans \ unsettled', \A k \in Editors : ~ Follows(editor'[k], y)
        PROVE  \A c \in Candidates : Within(plan'[y].seats[c], desk', plan'[y].rooms)
    <3>1. ~ Follows(editor[e], y)
      BY <2>1
    <3>2. \A k \in Editors : ~ Follows(editor[k], y)
      BY <2>1, <3>1, AnsweredFollows
    <3> QED
      BY <2>1, <3>2 DEF SeatingInv, SeatsFollowed
  <2> QED
    BY <2>1 DEF SeatsFollowed
<1> QED
  BY <1>1, <1>2, <1>3, <1>4 DEF SeatingInv

\* The rooms are written and every seat that is left stands in one of them, unless
\* the plan is being deleted.
LEMMA CommittingKeeps ==
  ASSUME SeatingInv, NEW e \in Editors, CommitRooms(e)
  PROVE  SeatingInv'
<1> DEFINE q == editor[e]
           x == q.plan
           kept == [c \in Candidates |-> IF c \in q.doomed THEN Absent ELSE plan[x].seats[c]]
           after == RoomsAfter(q)
           p == [plan[x] EXCEPT !.rooms = after, !.seats = kept]
<1>1. At(e, "commit") /\ Answers(e) /\ UNCHANGED << room, desk, onRoster >>
  BY DEF CommitRooms, OnlyPlans
<1>2. q.step = "commit" /\ x \in Plans /\ q.rooms \in SUBSET Rooms /\ q.seats \in Seats
  BY <1>1, RequestsKnown DEF At
<1>3. CASE plan' = plan
           /\ unsettled' = IF q.seats = NoSeats THEN unsettled ELSE unsettled \cup {x}
  <2>1. /\ \A y \in Plans : Follows(q, y) => y = x
        /\ q.seats = NoSeats => ~ Follows(q, x)
    BY <1>2 DEF Follows
  <2> QED
    BY <1>1, <1>2, <1>3, <2>1, FailingKeeps
<1>4. CASE plan' = [plan EXCEPT ![x].rooms = after, ![x].seats = kept] /\ unsettled' = unsettled
  <2>1. plan \in [Plans -> PlanRow] /\ plan[x] \in PlanRow /\ plan[x].seats \in Seats
    BY <1>2 DEF SeatingInv, SeatingTypeOK, PlanRow, Seats
  <2>2. kept \in Seats
    BY <2>1 DEF Seats
  <2>5. \A c \in Candidates : kept[c] \in {Absent, plan[x].seats[c]}
    OBVIOUS
  <2>a. /\ after \in SUBSET Rooms
        /\ q.rooms \cap (plan[x].rooms \cup Added(q)) \subseteq after
    BY <1>2, <2>1 DEF RoomsAfter, Added, PlanRow
  <2>6. x \notin unsettled /\ ~ BeingDeleted(x) => \A c \in Candidates : Within(kept[c], desk, after)
    <3>1. ASSUME x \notin unsettled, ~ BeingDeleted(x)
          PROVE  Clears(q, plan[x].seats, desk, plan[x].rooms)
      BY <1>1, <1>2, <3>1 DEF SeatingInv, ReplacementsClear
    <3> HIDE DEF after
    <3> QED
      BY <2>a, <3>1 DEF Clears, Within
  <2> HIDE DEF kept, after
  <2>4. p \in PlanRow /\ p.seats = kept /\ p.rooms = after
    BY <2>1, <2>2, <2>a DEF PlanRow, Seats
  <2>3. plan' = [plan EXCEPT ![x] = p]
    BY <1>2, <1>4, <2>1
  <2> HIDE DEF p, x, q
  <2>7. /\ plan' \in [Plans -> PlanRow] /\ plan'[x] = p
        /\ \A y \in Plans \ {x} : plan'[y] = plan[y]
    BY <1>2, <2>3, <2>4, PlanWritten
  <2>c. editor[e].step = "commit"
    BY <1>1 DEF At
  <2>8. /\ RequestsOK' /\ editor'[e] = Free
        /\ \A k \in Editors \ {e} : editor'[k] = editor[k]
    BY <1>1, EditorAnswered
  <2>9. SeatingTypeOK'
    BY <1>1, <1>4, <2>7 DEF SeatingInv, SeatingTypeOK
  <2>10. SeatsHaveDesks'
    <3>1. ASSUME NEW y \in Plans, NEW c \in Candidates, plan'[y].seats[c] # Absent
          PROVE  desk'[plan'[y].seats[c]] # Absent
      BY <1>1, <2>4, <2>5, <2>7, <3>1, SeatsKnown
    <3> QED
      BY <3>1 DEF SeatsHaveDesks
  <2>11. ReplacementsClear'
    <3>1. ASSUME NEW k \in Editors, editor'[k].step = "commit", editor'[k].plan \notin unsettled',
                 ~ BeingDeleted(editor[k].plan)'
          PROVE  Clears(editor'[k], plan'[editor'[k].plan].seats, desk', plan'[editor'[k].plan].rooms)
      <4>1. k # e /\ editor'[k] = editor[k] /\ At(k, "commit") /\ editor[k].plan \in Plans
        BY <2>8, <3>1, RequestsKnown DEF At, Free
      <4>a. ~ BeingDeleted(editor[k].plan)
        BY <2>8, <2>c, <3>1, <4>1 DEF BeingDeleted, At
      <4>2. Clears(editor[k], plan[editor[k].plan].seats, desk, plan[editor[k].plan].rooms)
        BY <1>4, <3>1, <4>1, <4>a DEF SeatingInv, ReplacementsClear
      <4>3. CASE editor[k].plan # x
        BY <1>1, <2>7, <4>1, <4>2, <4>3
      <4>4. CASE editor[k].plan = x
        <5>1. \A c \in Candidates : Within(kept[c], desk, after)
          BY <1>4, <2>6, <3>1, <4>1, <4>4, <4>a
        <5>2. ASSUME NEW c \in Candidates \ editor[k].doomed, kept[c] # Absent
              PROVE  desk[kept[c]].room \in editor[k].rooms \cap (after \cup Added(editor[k]))
          <6>1. desk[kept[c]].room \in after
            BY <5>1, <5>2 DEF Within
          <6>2. kept[c] = plan[x].seats[c]
            BY <2>5, <5>2
          <6>3. desk[kept[c]].room \in editor[k].rooms
            BY <4>2, <4>4, <5>2, <6>2 DEF Clears, Within
          <6> QED
            BY <6>1, <6>3
        <5> QED
          BY <1>1, <2>4, <2>7, <4>1, <4>4, <5>2 DEF Clears, Within
      <4> QED
        BY <4>3, <4>4
    <3> QED
      BY <3>1 DEF ReplacementsClear, At
  <2>12. SeatsFollowed'
    <3>1. ASSUME NEW y \in Plans \ unsettled', \A k \in Editors : ~ Follows(editor'[k], y)
          PROVE  \A c \in Candidates : Within(plan'[y].seats[c], desk', plan'[y].rooms)
      <4>1. CASE y = x
        <5>1. ~ BeingDeleted(x)
          BY <2>8, <2>c, <3>1, <4>1 DEF BeingDeleted, At, Follows, Apart
        <5> QED
          BY <1>1, <1>4, <2>4, <2>6, <2>7, <3>1, <4>1, <5>1
      <4>2. CASE y # x
        <5>1. \A k \in Editors : ~ Follows(editor[k], y)
          BY <1>1, <3>1, <4>2, AnsweredFollows DEF Follows, x, q
        <5> QED
          BY <1>1, <1>4, <2>7, <3>1, <4>2, <5>1 DEF SeatingInv, SeatsFollowed
      <4> QED
        BY <4>1, <4>2
    <3> QED
      BY <3>1 DEF SeatsFollowed
  <2> QED
    BY <2>8, <2>9, <2>10, <2>11, <2>12 DEF SeatingInv
<1> QED
  BY <1>3, <1>4 DEF CommitRooms

\* The rooms go, and the row will follow or the plan is unsettled.
LEMMA ClearingRoomsKeeps ==
  ASSUME SeatingInv, NEW e \in Editors, ClearExamSessionRooms(e)
  PROVE  SeatingInv'
<1> DEFINE x == editor[e].plan
           p == [plan[x] EXCEPT !.rooms = {}]
           after == [editor[e] EXCEPT !.step = "deleterow"]
<1>1. At(e, "clearrooms") /\ Proceeds(e, "deleterow") /\ UNCHANGED << room, desk, onRoster, unsettled >>
  BY DEF ClearExamSessionRooms, OnlyPlans
<1>2. editor[e] \in Request /\ editor[e].step = "clearrooms" /\ x \in Plans
  BY <1>1, RequestsKnown DEF At
<1>3. after \in Request /\ after.step = "deleterow" /\ after.plan = x
  BY <1>2 DEF Request, Free
<1>4. /\ RequestsOK' /\ editor'[e] = after
      /\ \A k \in Editors \ {e} : editor'[k] = editor[k]
  BY <1>1, <1>3, EditorProceeds, EditorWritten
<1>5. plan \in [Plans -> PlanRow] /\ plan[x] \in PlanRow
  BY <1>2 DEF SeatingInv, SeatingTypeOK
<1>6. p \in PlanRow /\ p.seats = plan[x].seats /\ plan' = [plan EXCEPT ![x] = p]
  BY <1>5 DEF PlanRow, ClearExamSessionRooms
<1> HIDE DEF p, x, after
<1>7. /\ plan' \in [Plans -> PlanRow] /\ plan'[x] = p
      /\ \A y \in Plans \ {x} : plan'[y] = plan[y]
  BY <1>2, <1>6, PlanWritten
<1>8. SeatingTypeOK'
  BY <1>1, <1>7 DEF SeatingInv, SeatingTypeOK
<1>9. \A y \in Plans : plan'[y].seats = plan[y].seats
  BY <1>6, <1>7
<1>10. SeatsHaveDesks'
  BY <1>1, <1>9 DEF SeatingInv, SeatsHaveDesks
<1>11. ReplacementsClear'
  <2>1. ASSUME NEW k \in Editors, editor'[k].step = "commit", editor'[k].plan \notin unsettled',
               ~ BeingDeleted(editor[k].plan)'
        PROVE  Clears(editor'[k], plan'[editor'[k].plan].seats, desk', plan'[editor'[k].plan].rooms)
    <3>1. editor'[k] = editor[k] /\ At(k, "commit") /\ editor[k].plan \in Plans
      BY <1>3, <1>4, <2>1, RequestsKnown DEF At
    <3>2. editor[k].plan # x
      BY <1>3, <1>4, <2>1, <3>1 DEF BeingDeleted, At
    <3>3. ~ BeingDeleted(editor[k].plan)
      BY <1>2, <1>4, <2>1, <3>1 DEF BeingDeleted, At
    <3> QED
      BY <1>1, <1>7, <2>1, <3>1, <3>2, <3>3 DEF SeatingInv, ReplacementsClear
  <2> QED
    BY <2>1 DEF ReplacementsClear, At
<1>12. SeatsFollowed'
  <2>1. ASSUME NEW y \in Plans \ unsettled', \A k \in Editors : ~ Follows(editor'[k], y)
        PROVE  \A c \in Candidates : Within(plan'[y].seats[c], desk', plan'[y].rooms)
    <3>1. y # x
      BY <1>3, <1>4, <2>1 DEF Follows, Apart
    <3>2. \A k \in Editors : ~ Follows(editor[k], y)
      BY <1>2, <1>4, <2>1 DEF Follows, Apart
    <3> QED
      BY <1>1, <1>7, <2>1, <3>1, <3>2 DEF SeatingInv, SeatsFollowed
  <2> QED
    BY <2>1 DEF SeatsFollowed
<1> QED
  BY <1>4, <1>8, <1>10, <1>11, <1>12 DEF SeatingInv

\* A plan without rooms and seats has nothing outside its rooms.
LEMMA DeletingKeeps ==
  ASSUME SeatingInv, NEW e \in Editors, DeleteExamSessionRow(e)
  PROVE  SeatingInv'
<1> DEFINE x == editor[e].plan
           p == [plan[x] EXCEPT !.status = "gone"]
<1>1. At(e, "deleterow") /\ Answers(e) /\ UNCHANGED << room, desk, onRoster >>
  BY DEF DeleteExamSessionRow, OnlyPlans
<1>2. editor[e].step = "deleterow" /\ x \in Plans
  BY <1>1, RequestsKnown DEF At
<1>3. \A y \in Plans : Follows(editor[e], y) => y = x
  BY DEF Follows
<1>4. CASE unsettled' = unsettled \cup {x} /\ plan' = plan
  BY <1>1, <1>2, <1>3, <1>4, FailingKeeps
<1>5. CASE /\ plan[x].rooms = {} /\ plan[x].seats = NoSeats
           /\ plan' = [plan EXCEPT ![x].status = "gone"] /\ unsettled' = unsettled
  <2>1. plan \in [Plans -> PlanRow] /\ plan[x] \in PlanRow
    BY <1>2 DEF SeatingInv, SeatingTypeOK
  <2>2. /\ p \in PlanRow /\ p.seats = NoSeats /\ p.rooms = plan[x].rooms
        /\ plan' = [plan EXCEPT ![x] = p]
    BY <1>5, <2>1 DEF PlanRow, Presence
  <2> HIDE DEF p, x
  <2>3. /\ plan' \in [Plans -> PlanRow] /\ plan'[x] = p
        /\ \A y \in Plans \ {x} : plan'[y] = plan[y]
    BY <1>2, <2>2, PlanWritten
  <2>4. /\ RequestsOK' /\ editor'[e] = Free
        /\ \A k \in Editors \ {e} : editor'[k] = editor[k]
    BY <1>1, EditorAnswered
  <2>5. SeatingTypeOK'
    BY <1>1, <1>5, <2>3 DEF SeatingInv, SeatingTypeOK
  <2>6. \A y \in Plans : plan'[y].seats = plan[y].seats
    BY <1>5, <2>2, <2>3
  <2>7. SeatsHaveDesks'
    BY <1>1, <2>6 DEF SeatingInv, SeatsHaveDesks
  <2>8. ReplacementsClear'
    <3>1. ASSUME NEW k \in Editors, editor'[k].step = "commit", editor'[k].plan \notin unsettled',
                 ~ BeingDeleted(editor[k].plan)'
          PROVE  Clears(editor'[k], plan'[editor'[k].plan].seats, desk', plan'[editor'[k].plan].rooms)
      <4>1. editor'[k] = editor[k] /\ At(k, "commit") /\ editor[k].plan \in Plans
        BY <2>4, <3>1, RequestsKnown DEF At, Free
      <4>2. CASE editor[k].plan = x
        <5>1. \A c \in Candidates : plan'[x].seats[c] = Absent
          BY <2>2, <2>3 DEF NoSeats
        <5> QED
          BY <4>1, <4>2, <5>1 DEF Clears, Within
      <4>3. CASE editor[k].plan # x
        <5>1. ~ BeingDeleted(editor[k].plan)
          BY <2>4, <3>1, <4>1, <4>3 DEF BeingDeleted, At, x
        <5> QED
          BY <1>1, <1>5, <2>3, <3>1, <4>1, <4>3, <5>1 DEF SeatingInv, ReplacementsClear
      <4> QED
        BY <4>2, <4>3
    <3> QED
      BY <3>1 DEF ReplacementsClear, At
  <2>9. SeatsFollowed'
    <3>1. ASSUME NEW y \in Plans \ unsettled', \A k \in Editors : ~ Follows(editor'[k], y)
          PROVE  \A c \in Candidates : Within(plan'[y].seats[c], desk', plan'[y].rooms)
      <4>1. CASE y = x
        BY <2>2, <2>3, <4>1 DEF NoSeats, Within
      <4>2. CASE y # x
        <5>1. \A k \in Editors : ~ Follows(editor[k], y)
          BY <1>1, <1>3, <3>1, <4>2, AnsweredFollows
        <5> QED
          BY <1>1, <1>5, <2>3, <3>1, <4>2, <5>1 DEF SeatingInv, SeatsFollowed
      <4> QED
        BY <4>1, <4>2
    <3> QED
      BY <3>1 DEF SeatsFollowed
  <2> QED
    BY <2>4, <2>5, <2>7, <2>8, <2>9 DEF SeatingInv
<1> QED
  BY <1>4, <1>5 DEF DeleteExamSessionRow
-----------------------------------------------------------------------------
(* The invariant.                                                           *)

LEMMA InitSeating == SeatingInit => SeatingInv
<1> SUFFICES ASSUME SeatingInit PROVE SeatingInv
  OBVIOUS
<1>1. Free \in Request /\ NoSeats \in Seats
  BY DEF Request, NoSeats, Seats
<1>a. room \in [Rooms -> RoomRow] /\ desk \in [DeskIds -> DeskRow \cup {Absent}]
  <2>1. \A s \in {"new", "there"} : [status |-> s, active |-> TRUE, deleted |-> FALSE] \in RoomRow
    BY DEF RoomRow, Presence
  <2>a. \A r \in Rooms : room[r] \in RoomRow
    BY <2>1 DEF SeatingInit
  <2>2. [room: Rooms, on: {TRUE}] \subseteq DeskRow
    BY DEF DeskRow
  <2> QED
    BY <2>2, <2>a DEF SeatingInit
<1>b. plan \in [Plans -> PlanRow]
  BY <1>1 DEF SeatingInit, PlanRow, Presence, Seats
<1>2. SeatingTypeOK
  BY <1>a, <1>b DEF SeatingInit, SeatingTypeOK
<1>3. RequestsOK /\ ReplacementsClear
  BY <1>1 DEF SeatingInit, RequestsOK, ReplacementsClear, At, Free
<1>4. \A x \in Plans, c \in Candidates : plan[x].seats[c] = Absent
  BY DEF SeatingInit, NoSeats
<1>5. SeatsHaveDesks /\ SeatsFollowed
  BY <1>4 DEF SeatsHaveDesks, SeatsFollowed, Within
<1> QED
  BY <1>2, <1>3, <1>5 DEF SeatingInv

LEMMA SeatingStepKeeps ==
  ASSUME SeatingInv, NEW e \in Editors,
         \/ SaveClassroom(e) \/ HardDeleteRoom(e)
         \/ RemoveDesks(e) \/ WriteDesks(e)
         \/ ReplaceRooms(e) \/ CommitRooms(e)
         \/ ClearExamSessionRooms(e) \/ DeleteExamSessionRow(e)
         \/ ClearExamSeats(e) \/ BulkCreateExamSeats(e) \/ RoomsOfSeats(e)
  PROVE  SeatingInv'
<1>1. CASE SaveClassroom(e) \/ HardDeleteRoom(e)
  <2>1. editor[e].room \in Rooms
    BY <1>1, RequestsKnown DEF SaveClassroom, HardDeleteRoom, At
  <2> QED
    BY <1>1, <2>1, RoomActionsKeep
<1>2. CASE RemoveDesks(e)
  BY <1>2, RemovingKeeps
<1>3. CASE WriteDesks(e)
  BY <1>3, WritingKeeps
<1>4. CASE ReplaceRooms(e)
  BY <1>4, ReplacingKeeps
<1>5. CASE CommitRooms(e)
  BY <1>5, CommittingKeeps
<1>6. CASE ClearExamSessionRooms(e)
  BY <1>6, ClearingRoomsKeeps
<1>7. CASE DeleteExamSessionRow(e)
  BY <1>7, DeletingKeeps
<1>8. CASE ClearExamSeats(e)
  BY <1>8, ClearingSeatsKeeps
<1>9. CASE BulkCreateExamSeats(e)
  BY <1>9, InsertingKeeps
<1>10. CASE RoomsOfSeats(e)
  BY <1>10, SyncingKeeps
<1> QED
  BY <1>1, <1>2, <1>3, <1>4, <1>5, <1>6, <1>7, <1>8, <1>9, <1>10

LEMMA NextKeepsSeating ==
  ASSUME SeatingInv, [SeatingNext]_seatVars
  PROVE  SeatingInv'
<1>1. CASE RoomRequest
  <2>1. PICK r \in Rooms :
          \/ CreateClassroom(r) \/ MarkDeleted(r, TRUE)
          \/ \E e \in Editors :
               \/ ReadClassroom(e, r, "edit") \/ ReadClassroom(e, r, "toggle")
               \/ HardDeleteDesks(e, r)
               \/ \E keep \in SUBSET DesksOf(r), new \in BOOLEAN :
                    \E off \in SUBSET keep : ReadLayout(e, r, keep, off, new)
    BY <1>1 DEF RoomRequest
  <2>2. CASE CreateClassroom(r) \/ MarkDeleted(r, TRUE)
    BY <2>2, ClassroomsKeep
  <2>3. ASSUME NEW e \in Editors,
               \/ ReadClassroom(e, r, "edit") \/ ReadClassroom(e, r, "toggle")
               \/ HardDeleteDesks(e, r)
               \/ \E keep \in SUBSET DesksOf(r), new \in BOOLEAN :
                    \E off \in SUBSET keep : ReadLayout(e, r, keep, off, new)
        PROVE  SeatingInv'
    <3>1. CASE ReadClassroom(e, r, "edit") \/ ReadClassroom(e, r, "toggle")
      BY <3>1, RoomActionsKeep
    <3>2. CASE HardDeleteDesks(e, r)
      BY <3>2, HardDeletingKeeps
    <3>3. CASE \E keep \in SUBSET DesksOf(r), new \in BOOLEAN :
                 \E off \in SUBSET keep : ReadLayout(e, r, keep, off, new)
      BY <3>3, LayingOutKeeps
    <3> QED
      BY <2>3, <3>1, <3>2, <3>3
  <2> QED
    BY <2>1, <2>2, <2>3
<1>2. CASE RoomRestored
  BY <1>2, ClassroomsKeep DEF RoomRestored
<1>3. CASE PlanRequest
  <2>1. PICK x \in Plans :
          \/ \E e \in Editors, rooms \in SUBSET Rooms :
               CreateExamSession(e, x, rooms) \/ UpdateExamSessionClassrooms(e, x, rooms)
          \/ \E e \in Editors : DeleteExamSession(e, x)
          \/ \E c \in Candidates, d \in DeskIds \cup {Absent} : AssignExamSeat(x, c, d)
          \/ \E seats \in Seats :
               \/ ReplaceExamSeats(x, seats)
               \/ \E e \in Editors : \/ ImportExamSeats(e, x, seats)
                                     \/ \E rooms \in SUBSET Rooms : AutoAssign(e, x, rooms, seats)
    BY <1>3 DEF PlanRequest
  <2>2. {} \in SUBSET Rooms /\ NoSeats \in Seats
    BY DEF NoSeats, Seats
  <2>3. CASE \E e \in Editors, rooms \in SUBSET Rooms :
               CreateExamSession(e, x, rooms) \/ UpdateExamSessionClassrooms(e, x, rooms)
    BY <2>2, <2>3, PlanRequestsKeep
  <2>4. CASE \E e \in Editors : DeleteExamSession(e, x)
    BY <2>2, <2>4, PlanRequestsKeep
  <2>5. CASE \E c \in Candidates, d \in DeskIds \cup {Absent} : AssignExamSeat(x, c, d)
    BY <2>5, AssigningKeeps
  <2>6. ASSUME NEW seats \in Seats, ReplaceExamSeats(x, seats) PROVE SeatingInv'
    BY <2>6, ReseatingKeeps
  <2>7. ASSUME NEW seats \in Seats, NEW e \in Editors, ImportExamSeats(e, x, seats) PROVE SeatingInv'
    BY <2>2, <2>7, PlanRequestsKeep
  <2>8. ASSUME NEW seats \in Seats, NEW e \in Editors, NEW rooms \in SUBSET Rooms,
               AutoAssign(e, x, rooms, seats)
        PROVE  SeatingInv'
    BY <2>8, PlanRequestsKeep
  <2> QED
    BY <2>1, <2>3, <2>4, <2>5, <2>6, <2>7, <2>8
<1>4. CASE SeatingStep
  BY <1>4, SeatingStepKeeps DEF SeatingStep
<1>5. CASE Surrounding
  <2>1. onRoster' \subseteq Candidates /\ UNCHANGED << room, desk, plan, editor, unsettled >>
    BY <1>5 DEF Surrounding, Enrol, SeatingInv, SeatingTypeOK
  <2>2. RequestsOK' /\ Aside
    BY <2>1 DEF SeatingInv, RequestsOK, Aside
  <2> QED
    BY <2>1, <2>2, AskingKeeps
<1>6. CASE UNCHANGED seatVars
  <2>1. UNCHANGED << room, desk, plan, onRoster, editor, unsettled >>
    BY <1>6 DEF seatVars
  <2>2. RequestsOK' /\ Aside /\ onRoster' \subseteq Candidates
    BY <2>1 DEF SeatingInv, SeatingTypeOK, RequestsOK, Aside
  <2> QED
    BY <2>1, <2>2, AskingKeeps
<1> QED
  BY <1>1, <1>2, <1>3, <1>4, <1>5, <1>6 DEF SeatingNext

LEMMA AlwaysFollowed == SeatingSpec => []SeatingInv
BY InitSeating, NextKeepsSeating, PTL DEF SeatingSpec

\* Rooms, desks, plans and seats stay well formed, whatever requests overlap.
THEOREM SeatingTypes == SeatingSpec => []SeatingTypeOK
<1>1. SeatingInv => SeatingTypeOK
  BY DEF SeatingInv
<1> QED
  BY <1>1, AlwaysFollowed, PTL

\* No seat is at a desk that is gone: layouts, deletions of rooms for good and
\* imports of an old file leave it, because its foreign key keeps the desk.
THEOREM SeatsAreKept == SeatingSpec => []SeatsHaveDesks
<1>1. SeatingInv => SeatsHaveDesks
  BY DEF SeatingInv
<1> QED
  BY <1>1, AlwaysFollowed, PTL

\* Once no request is in flight, every seat is at a desk of a room of its exam
\* session: whatever AutoAssignExamSeatsHandler, an import, replacements of rooms
\* and a deletion of the plan did to each other in between, unless a seat was
\* taken from an old page, while the rooms were being replaced, or by a request
\* that failed half-way.
THEOREM SeatsEndInRooms == SeatingSpec => []SeatsInRooms
<1>1. ASSUME SeatingInv, Resting PROVE SeatsInRooms
  <2>1. \A e \in Editors, x \in Plans : ~ Follows(editor[e], x)
    BY <1>1 DEF Resting, Follows, Apart, Free
  <2> QED
    BY <1>1, <2>1 DEF SeatingInv, SeatsFollowed, Within, SeatsInRooms
<1>2. SeatingInv => SeatsInRooms
  BY <1>1 DEF SeatsInRooms
<1> QED
  BY <1>2, AlwaysFollowed, PTL
-----------------------------------------------------------------------------
(* Announcements.                                                           *)

\* Of two edits of one announcement, and of an edit and a change of status, the
\* histories know.
Meetings ==
  \A a, b \in Admins :
    edit[a].step \in Edits /\ edit[b].step \in Edits \cup {"set"} /\ a # b
      /\ edit[a].id = edit[b].id
    => edit[a].id \in IF edit[b].step = "set" THEN overtaken ELSE editedTwice

\* What a row is built of: its flag and its status agree, and what it calls published
\* has begun.
Listed(row) ==
  /\ row.active <=> AnnouncementStatusIsLive(row.status)
  /\ row.status = "published" => row.starts <= now

\* What is stored or about to be stored is live as its status says, and has begun if
\* it is listed as published.
Promised(a) ==
  LET e == edit[a] IN
  /\ e.step = "update" => Listed(e.row)
  /\ e.step = "set" /\ e.status = "published" /\ e.id \in DOMAIN posted \ overtaken
     => posted[e.id].starts <= now

ListsFit ==
  \A n \in DOMAIN posted :
    /\ posted[n].active <=> AnnouncementStatusIsLive(posted[n].status)
    /\ n \notin overtaken /\ posted[n].status = "published" => posted[n].starts <= now

StatusInv == ListsFit /\ \A a \in Admins : Promised(a)

\* A fan-out is begun once, and once more for each time the announcement was taken
\* down: one that is down, or was when an edit began, is owed no fan-out so far.
SpreadInv ==
  \A n \in Notices \ editedTwice :
    /\ spread[n] <= withdrawn[n] + 1
    /\ n \in DOMAIN posted /\ ~posted[n].active => spread[n] <= withdrawn[n]
    /\ \A a \in Admins :
         edit[a].step \in Edits /\ edit[a].id = n /\ ~edit[a].was => spread[n] <= withdrawn[n]

\* The fan-outs that may still notify, or mail, a user.
Due(n, u, steps) ==
  {k \in 1 .. MaxFanouts :
     /\ fanout[<<n, k>>].step \in steps
     /\ fanout[<<n, k>>].step # "resolve" => u \in fanout[<<n, k>>].left}

ToNotify == {"resolve", "mail", "insert"}
ToMail == {"resolve", "mail"}

\* Each fan-out notifies and mails a user once.
CountInv ==
  \A n \in Notices, u \in People :
    /\ inbox[n][u] + Cardinality(Due(n, u, ToNotify)) <= spread[n]
    /\ mailed[n][u] + Cardinality(Due(n, u, ToMail)) <= spread[n]

\* Who was addressed has been told, or a fan-out owes it to them.
Remembered(n, u) == u \in addressed[n] => inbox[n][u] > 0 \/ Owed(n, u) \/ n \in cut

RememberedInv == \A n \in Notices, u \in People : Remembered(n, u)

NoticeInv ==
  NoticeTypeOK /\ Meetings /\ StatusInv /\ SpreadInv /\ CountInv /\ RememberedInv
-----------------------------------------------------------------------------
LEMMA AudienceOfAll == {"all"} \in Audiences /\ {} \in Audiences
BY DEF Audiences, Roles

LEMMA FilledIsWellFormed ==
  ASSUME NEW p, NEW d, WellFormed(p), WellFormed(d)
  PROVE  WellFormed(Filled(p, d))
BY DEF WellFormed, Filled, Defaults

LEMMA InputIsTyped ==
  ASSUME NEW p, WellFormed(p)
  PROVE  AnnouncementInput(p) \in Input
<1> DEFINE i == AnnouncementInput(p)
<1>1. DOMAIN p = {"status", "active", "starts", "ends", "audience", "dismissible", "requires",
                  "inbox", "mail"}
  BY DEF WellFormed, Defaults
<1>2. i = [status |-> i.status, active |-> i.active, starts |-> i.starts, ends |-> i.ends,
           audience |-> i.audience, dismissible |-> i.dismissible, requires |-> i.requires,
           inbox |-> i.inbox, mail |-> i.mail]
  BY <1>1 DEF AnnouncementInput, Filled
<1>3. /\ i.status \in Statuses \cup {"unstated"} /\ i.starts \in 0 .. LastHour
      /\ i.ends \in 0 .. Never /\ i.audience \in Audiences
  <2>1. /\ i.status = IF p.status = Unset THEN "unstated" ELSE p.status
        /\ i.starts = IF p.starts = Unset THEN 0 ELSE p.starts
        /\ i.ends = IF p.ends = Unset THEN Never ELSE p.ends
        /\ i.audience = IF p.audience = Unset THEN {} ELSE p.audience
    BY <1>1 DEF AnnouncementInput, Filled, Defaults
  <2> HIDE DEF i
  <2>2. 0 \in 0 .. LastHour /\ Never \in 0 .. Never
    BY NoticeAssumption DEF Never
  <2>3. i.status \in Statuses \cup {"unstated"}
    BY <2>1 DEF WellFormed
  <2>4. i.starts \in 0 .. LastHour /\ i.ends \in 0 .. Never /\ i.audience \in Audiences
    BY <2>1, <2>2, AudienceOfAll DEF WellFormed
  <2> QED
    BY <2>3, <2>4
<1>4. /\ i.active \in BOOLEAN /\ i.dismissible \in BOOLEAN /\ i.requires \in BOOLEAN
      /\ i.inbox \in BOOLEAN /\ i.mail \in BOOLEAN
  BY <1>1 DEF AnnouncementInput, Filled, Defaults, WellFormed
<1> HIDE DEF i
<1>5. i \in Input
  BY <1>2, <1>3, <1>4 DEF Input
<1> QED
  BY <1>5 DEF i

LEMMA ResolvedIsStatus ==
  ASSUME NEW status \in Statuses \cup {"unstated"}, NEW active \in BOOLEAN, NEW starts \in 0 .. LastHour,
         now \in 0 .. LastHour
  PROVE  /\ ResolveAnnouncementStatus(status, active, starts) \in Statuses
         /\ ResolveAnnouncementStatus(status, active, starts) = "published" => starts <= now
<1> DEFINE r == ResolveAnnouncementStatus(status, active, starts)
<1>1. now \in Int /\ starts \in Int
  BY NoticeAssumption DEF Statuses
<1>2. \/ status \in {"draft", "archived"} /\ r = status
      \/ r = "archived"
      \/ starts > now /\ r = "scheduled"
      \/ ~(starts > now) /\ r = "published"
  BY DEF ResolveAnnouncementStatus
<1> HIDE DEF r
<1>3. r \in Statuses /\ (r = "published" => starts <= now)
  BY <1>1, <1>2 DEF Statuses
<1> QED
  BY <1>3 DEF r

LEMMA BuiltIsRow ==
  ASSUME NEW input \in Input, now \in 0 .. LastHour
  PROVE  BuildAnnouncement(input) \in NoticeRow /\ Listed(BuildAnnouncement(input))
<1> DEFINE status == ResolveAnnouncementStatus(input.status, input.active, input.starts)
<1>1. status \in Statuses /\ (status = "published" => input.starts <= now)
  BY ResolvedIsStatus DEF Input
<1> DEFINE roles == IF input.audience = {} THEN {"all"} ELSE input.audience
<1>5. roles \in Audiences
  BY AudienceOfAll DEF Input
<1> HIDE DEF status
<1>2. AnnouncementStatusIsLive(status) \in BOOLEAN
  BY DEF AnnouncementStatusIsLive
<1>3. BuildAnnouncement(input) =
        [status |-> status, active |-> AnnouncementStatusIsLive(status),
         starts |-> input.starts, ends |-> input.ends, audience |-> roles,
         dismissible |-> input.dismissible, requires |-> input.requires, inbox |-> input.inbox]
  BY Zenon DEF BuildAnnouncement, status
<1> HIDE DEF roles
<1>4. BuildAnnouncement(input) \in NoticeRow
  BY <1>1, <1>2, <1>3, <1>5 DEF NoticeRow, Input, Statuses
<1> QED
  BY <1>1, <1>3, <1>4 DEF Listed
-----------------------------------------------------------------------------
LEMMA Bounds == MaxNotices \in Nat /\ MaxFanouts \in Nat /\ LastHour \in Nat
BY NoticeAssumption

\* What is known of every announcement there is.
LEMMA PostedType ==
  ASSUME NoticeTypeOK, NEW n \in DOMAIN posted
  PROVE  /\ n \in Notices /\ n <= lastId /\ posted[n] \in NoticeRow
         /\ posted[n].status \in Statuses /\ posted[n].active \in BOOLEAN
         /\ posted[n].starts \in 0 .. LastHour
<1>1. n \in Notices /\ n <= lastId /\ posted[n] \in NoticeRow
  BY Bounds DEF NoticeTypeOK, Notices
<1> QED
  BY <1>1 DEF NoticeRow

\* Rows replaced or added.
LEMMA Stored ==
  ASSUME NEW rows, Store(rows)
  PROVE  /\ DOMAIN posted' = DOMAIN posted \cup DOMAIN rows
         /\ \A n \in DOMAIN rows : posted'[n] = rows[n]
         /\ \A n \in DOMAIN posted \ DOMAIN rows : posted'[n] = posted[n]
BY DEF Store

\* What publishing does, whether or not there is anything to tell.
LEMMA Published ==
  ASSUME NoticeTypeOK, NEW a \in Admins, NEW published, NEW mails,
         \A n \in DOMAIN published : n \in Notices /\ published[n] \in NoticeRow,
         \A n \in DOMAIN published : mails[n] \in BOOLEAN,
         PublishAnnouncements(a, published, mails)
  PROVE  /\ spread' \in [Notices -> 0 .. MaxFanouts]
         /\ fanout' \in [Fanouts -> FanoutState]
         /\ \A n \in Notices :
              \/ spread'[n] = spread[n]
                 /\ \A k \in 1 .. MaxFanouts : fanout'[<<n, k>>] = fanout[<<n, k>>]
              \/ /\ n \in DOMAIN published /\ published[n].active
                 /\ spread'[n] = spread[n] + 1
                 /\ \A k \in 1 .. MaxFanouts :
                      fanout'[<<n, k>>].step =
                        IF k = spread[n] + 1 THEN "resolve" ELSE fanout[<<n, k>>].step
                 /\ \A k \in (1 .. MaxFanouts) \ {spread[n] + 1} :
                      fanout'[<<n, k>>] = fanout[<<n, k>>]
<1> DEFINE begun == {n \in DOMAIN published : ToTell(published[n])}
           G(n) == [step |-> "resolve", actor |-> Writer[a],
                    audience |-> published[n].audience, mail |-> mails[n]]
<1>1. /\ \A n \in begun : spread[n] < MaxFanouts
      /\ spread' = [n \in Notices |-> IF n \in begun THEN spread[n] + 1 ELSE spread[n]]
      /\ fanout' = [f \in Fanouts |-> IF f[1] \in begun /\ f[2] = spread[f[1]] + 1
                                     THEN G(f[1]) ELSE fanout[f]]
  BY DEF PublishAnnouncements
<1>2. \A n \in begun : n \in DOMAIN published /\ published[n].active
  BY DEF ToTell
<1>3. \A n \in begun : G(n) \in FanoutState /\ G(n).step = "resolve"
  <2> SUFFICES ASSUME NEW n \in begun PROVE G(n) \in FanoutState
    OBVIOUS
  <2>1. published[n].audience \in Audiences /\ mails[n] \in BOOLEAN /\ Writer[a] \in People
    BY NoticeAssumption DEF NoticeRow
  <2> QED
    BY <2>1 DEF FanoutState
<1> HIDE DEF begun, G
<1>4. spread \in [Notices -> 0 .. MaxFanouts] /\ fanout \in [Fanouts -> FanoutState]
  BY DEF NoticeTypeOK
<1>5. spread' \in [Notices -> 0 .. MaxFanouts]
  BY <1>1, <1>4, Bounds
<1>6. fanout' \in [Fanouts -> FanoutState]
  BY <1>1, <1>3, <1>4
<1>7. ASSUME NEW n \in Notices, n \notin begun
      PROVE  spread'[n] = spread[n]
             /\ \A k \in 1 .. MaxFanouts : fanout'[<<n, k>>] = fanout[<<n, k>>]
  BY <1>1, <1>7 DEF Fanouts
<1>8. ASSUME NEW n \in Notices, n \in begun
      PROVE  /\ n \in DOMAIN published /\ published[n].active
             /\ spread'[n] = spread[n] + 1
             /\ \A k \in 1 .. MaxFanouts :
                  fanout'[<<n, k>>] = IF k = spread[n] + 1 THEN G(n) ELSE fanout[<<n, k>>]
  BY <1>1, <1>2, <1>8 DEF Fanouts
<1> QED
  BY <1>3, <1>5, <1>6, <1>7, <1>8
-----------------------------------------------------------------------------
(* Types.                                                                   *)

\* The parts of the types that a step leaves alone.
LEMMA SameTypes ==
  ASSUME NoticeTypeOK
  PROVE  /\ UNCHANGED now => now' \in 0 .. LastHour
         /\ UNCHANGED lastId => lastId' \in 0 .. MaxNotices
         /\ UNCHANGED <<posted, lastId>> =>
              /\ DOMAIN posted' \subseteq 1 .. lastId'
              /\ \A n \in DOMAIN posted' : posted'[n] \in NoticeRow
         /\ UNCHANGED marks =>
              acked' \subseteq Notices \X Readers /\ dismissed' \subseteq Notices \X Readers
         /\ UNCHANGED inbox => inbox' \in [Notices -> [People -> Nat]]
         /\ UNCHANGED mailed => mailed' \in [Notices -> [People -> Nat]]
         /\ UNCHANGED <<edit, lastId>> =>
              /\ edit' \in [Admins -> EditState]
              /\ \A a \in Admins : edit'[a] # Still => edit'[a].id <= lastId'
         /\ UNCHANGED click => click' \in [Readers -> {Still} \cup [step : {"ack", "dismiss"}, id : Notices]]
         /\ UNCHANGED <<fanout, spread, lastId>> =>
              /\ fanout' \in [Fanouts -> FanoutState]
              /\ spread' \in [Notices -> 0 .. MaxFanouts]
              /\ \A n \in Notices : n > lastId' => spread'[n] = 0
              /\ \A f \in Fanouts : fanout'[f] # Still => f[2] <= spread'[f[1]]
         /\ UNCHANGED withdrawn => withdrawn' \in [Notices -> Nat]
         /\ UNCHANGED addressed => addressed' \in [Notices -> SUBSET People]
         /\ UNCHANGED cut => cut' \subseteq Notices
BY DEF NoticeTypeOK, marks

LEMMA TypesAfter ==
  ASSUME now' \in 0 .. LastHour /\ lastId' \in 0 .. MaxNotices,
         DOMAIN posted' \subseteq 1 .. lastId' /\ \A n \in DOMAIN posted' : posted'[n] \in NoticeRow,
         acked' \subseteq Notices \X Readers /\ dismissed' \subseteq Notices \X Readers,
         inbox' \in [Notices -> [People -> Nat]] /\ mailed' \in [Notices -> [People -> Nat]],
         edit' \in [Admins -> EditState]
           /\ \A a \in Admins : edit'[a] # Still => edit'[a].id <= lastId',
         click' \in [Readers -> {Still} \cup [step : {"ack", "dismiss"}, id : Notices]],
         fanout' \in [Fanouts -> FanoutState],
         spread' \in [Notices -> 0 .. MaxFanouts],
         withdrawn' \in [Notices -> Nat] /\ cut' \subseteq Notices,
         addressed' \in [Notices -> SUBSET People],
         \A n \in Notices : n > lastId' => spread'[n] = 0,
         \A f \in Fanouts : fanout'[f] # Still => f[2] <= spread'[f[1]]
  PROVE  NoticeTypeOK'
BY DEF NoticeTypeOK

\* A request of an administrator reads, or ends.
LEMMA EditTypes ==
  ASSUME NoticeTypeOK, NEW a \in Admins, NEW e \in EditState, e # Still => e.id <= lastId,
         edit' = [edit EXCEPT ![a] = e],
         UNCHANGED lastId
  PROVE  edit' \in [Admins -> EditState]
           /\ \A b \in Admins : edit'[b] # Still => edit'[b].id <= lastId'
BY DEF NoticeTypeOK

LEMMA WithdrawnType ==
  ASSUME NoticeTypeOK, CountWithdrawn
  PROVE  /\ withdrawn' \in [Notices -> Nat]
         /\ \A n \in Notices : withdrawn[n] <= withdrawn'[n]
         /\ \A n \in Notices :
              n \in DOMAIN posted \cap DOMAIN posted' /\ posted[n].active /\ ~posted'[n].active
              => withdrawn'[n] = withdrawn[n] + 1
BY DEF NoticeTypeOK, CountWithdrawn

\* Publishing what is no newer than lastId'.
LEMMA PublishedTypes ==
  ASSUME NoticeTypeOK, NEW a \in Admins, NEW published, NEW mails,
         \A n \in DOMAIN published : n \in Notices /\ published[n] \in NoticeRow,
         \A n \in DOMAIN published : mails[n] \in BOOLEAN,
         PublishAnnouncements(a, published, mails),
         lastId' \in Nat, lastId <= lastId', \A n \in DOMAIN published : n <= lastId'
  PROVE  /\ spread' \in [Notices -> 0 .. MaxFanouts]
         /\ fanout' \in [Fanouts -> FanoutState]
         /\ \A n \in Notices : n > lastId' => spread'[n] = 0
         /\ \A f \in Fanouts : fanout'[f] # Still => f[2] <= spread'[f[1]]
         /\ addressed' \in [Notices -> SUBSET People]
<1>1. /\ spread' \in [Notices -> 0 .. MaxFanouts] /\ fanout' \in [Fanouts -> FanoutState]
  BY Published
<1>4. addressed' \in [Notices -> SUBSET People]
  BY DEF PublishAnnouncements, NoticeTypeOK, AudienceUserIDs, UsersOf
<1>2. ASSUME NEW n \in Notices, n > lastId' PROVE spread'[n] = 0
  <2>1. lastId \in Nat /\ n \in Nat /\ spread[n] \in Nat
    BY Bounds DEF NoticeTypeOK, Notices
  <2>2. spread[n] = 0
    BY <1>2, <2>1 DEF NoticeTypeOK
  <2>3. n \notin DOMAIN published
    BY <1>2, <2>1
  <2> QED
    BY <2>2, <2>3, Published
<1>3. ASSUME NEW n \in Notices, NEW k \in 1 .. MaxFanouts, fanout'[<<n, k>>] # Still
      PROVE  k <= spread'[n]
  <2>1. spread[n] \in Nat /\ spread'[n] \in Nat /\ k \in Nat /\ <<n, k>> \in Fanouts
    BY <1>1, Bounds DEF NoticeTypeOK, Fanouts
  <2>2. fanout[<<n, k>>] # Still => k <= spread[n]
    BY <2>1 DEF NoticeTypeOK
  <2> QED
    BY <1>3, <2>1, <2>2, Published
<1> QED
  BY <1>1, <1>2, <1>3, <1>4 DEF Fanouts

\* Both ways to create write well-formed rows under the next ids.
Creates(a, k, inputs) ==
  /\ \A n \in lastId + 1 .. lastId + k : inputs[n] \in Input
  /\ Create(a, inputs, lastId + 1 .. lastId + k)

LEMMA CreateHandled ==
  ASSUME NoticeTypeOK, NEW a \in Admins,
         CreateAnnouncementHandler(a) \/ CreateAnnouncementsBatchHandler(a)
  PROVE  \E k \in Nat : \E inputs : Creates(a, k, inputs)
<1>1. lastId \in Nat
  BY Bounds DEF NoticeTypeOK
<1>2. CASE CreateAnnouncementHandler(a)
  <2>1. PICK p \in Payloads :
          Create(a, [n \in {lastId + 1} |-> AnnouncementInput(p)], {lastId + 1})
    BY <1>2 DEF CreateAnnouncementHandler
  <2> DEFINE inputs == [n \in {lastId + 1} |-> AnnouncementInput(p)]
  <2>2. {lastId + 1} = lastId + 1 .. lastId + 1
    BY <1>1
  <2>3. \A n \in lastId + 1 .. lastId + 1 : inputs[n] \in Input
    BY <2>2, PayloadAssumption, InputIsTyped
  <2> HIDE DEF inputs
  <2>4. Create(a, inputs, lastId + 1 .. lastId + 1)
    BY <2>1, <2>2 DEF inputs
  <2> QED
    BY <2>3, <2>4 DEF Creates
<1>3. CASE CreateAnnouncementsBatchHandler(a)
  <2> PICK k \in 2 .. BatchLimit, d \in Payloads :
        \E items \in [lastId + 1 .. lastId + k -> Payloads] :
          Create(a, [n \in lastId + 1 .. lastId + k |-> AnnouncementInput(Filled(items[n], d))],
                 lastId + 1 .. lastId + k)
    BY <1>3 DEF CreateAnnouncementsBatchHandler
  <2>1. PICK items \in [lastId + 1 .. lastId + k -> Payloads] :
          Create(a, [n \in lastId + 1 .. lastId + k |-> AnnouncementInput(Filled(items[n], d))],
                 lastId + 1 .. lastId + k)
    OBVIOUS
  <2> DEFINE inputs == [n \in lastId + 1 .. lastId + k |-> AnnouncementInput(Filled(items[n], d))]
  <2>2. \A n \in lastId + 1 .. lastId + k : inputs[n] \in Input
    BY PayloadAssumption, FilledIsWellFormed, InputIsTyped
  <2>3. k \in Nat
    BY NoticeAssumption
  <2> HIDE DEF inputs
  <2>4. Create(a, inputs, lastId + 1 .. lastId + k)
    BY <2>1 DEF inputs
  <2> QED
    BY <2>2, <2>3, <2>4 DEF Creates
<1> QED
  BY <1>2, <1>3

\* What a creation does: new rows, each as its input says, each told of once at most.
LEMMA Created ==
  ASSUME NoticeTypeOK, NEW a \in Admins, NEW k \in Nat, NEW inputs, Creates(a, k, inputs)
  PROVE  /\ lastId' = lastId + k /\ lastId' \in 0 .. MaxNotices
         /\ DOMAIN posted' = DOMAIN posted \cup lastId + 1 .. lastId + k
         /\ \A n \in DOMAIN posted : posted'[n] = posted[n]
         /\ \A n \in lastId + 1 .. lastId + k :
              posted'[n] = BuildAnnouncement(inputs[n]) /\ inputs[n].mail \in BOOLEAN
              /\ posted'[n] \in NoticeRow /\ Listed(posted'[n])
         /\ \E published, mails :
              /\ DOMAIN published = lastId + 1 .. lastId + k
              /\ \A n \in DOMAIN published : published[n] = posted'[n] /\ mails[n] \in BOOLEAN
              /\ PublishAnnouncements(a, published, mails)
         /\ UNCHANGED <<now, marks, inbox, mailed, edit, click, withdrawn, cut>>
<1> DEFINE ids == lastId + 1 .. lastId + k
           rows == [n \in ids |-> BuildAnnouncement(inputs[n])]
           mails == [n \in ids |-> inputs[n].mail]
<1>1. lastId \in Nat /\ DOMAIN posted \subseteq 1 .. lastId /\ now \in 0 .. LastHour
  BY Bounds DEF NoticeTypeOK
<1>2. Cardinality(ids) = k
  <2>1. Cardinality(ids) = IF lastId + 1 > lastId + k THEN 0 ELSE (lastId + k) - (lastId + 1) + 1
    BY <1>1, FS_Interval
  <2> QED
    BY <1>1, <2>1
<1>3. \A n \in ids : /\ inputs[n].mail \in BOOLEAN
                     /\ rows[n] \in NoticeRow /\ Listed(rows[n])
  BY <1>1, BuiltIsRow DEF Creates, Input
<1>4. /\ lastId' = lastId + Cardinality(ids) /\ lastId' <= MaxNotices
      /\ Store(rows) /\ PublishAnnouncements(a, rows, mails)
      /\ UNCHANGED <<now, marks, inbox, mailed, edit, click, withdrawn, cut>>
  BY DEF Creates, Create
<1>5. DOMAIN rows = ids /\ DOMAIN mails = ids /\ \A n \in ids : mails[n] = inputs[n].mail
  OBVIOUS
<1>6. \A n \in ids : rows[n] = BuildAnnouncement(inputs[n])
  OBVIOUS
<1>7. DOMAIN posted \cap ids = {}
  BY <1>1
<1> HIDE DEF rows, mails
<1>8. /\ DOMAIN posted' = DOMAIN posted \cup ids
      /\ \A n \in ids : posted'[n] = rows[n]
      /\ \A n \in DOMAIN posted : posted'[n] = posted[n]
  BY <1>4, <1>5, <1>7, Stored
<1>9. lastId' = lastId + k /\ lastId' \in 0 .. MaxNotices
  BY <1>1, <1>2, <1>4, Bounds
<1> HIDE DEF ids
<1>10. \E published, ms :
         /\ DOMAIN published = ids
         /\ \A n \in DOMAIN published : published[n] = posted'[n] /\ ms[n] \in BOOLEAN
         /\ PublishAnnouncements(a, published, ms)
  BY <1>3, <1>4, <1>5, <1>8
<1>11. \A n \in ids : /\ posted'[n] = BuildAnnouncement(inputs[n]) /\ inputs[n].mail \in BOOLEAN
                      /\ posted'[n] \in NoticeRow /\ Listed(posted'[n])
  BY <1>3, <1>6, <1>8
<1> QED
  BY <1>4, <1>8, <1>9, <1>10, <1>11 DEF ids

LEMMA CreateTypes ==
  ASSUME NoticeTypeOK, NEW a \in Admins, NEW k \in Nat, NEW inputs, Creates(a, k, inputs)
  PROVE  NoticeTypeOK'
<1>1. lastId \in Nat
  BY Bounds DEF NoticeTypeOK
<1>2. PICK published, mails :
        /\ DOMAIN published = lastId + 1 .. lastId + k
        /\ \A n \in DOMAIN published : published[n] = posted'[n] /\ mails[n] \in BOOLEAN
        /\ PublishAnnouncements(a, published, mails)
  BY Created
<1>3. lastId' = lastId + k /\ lastId' \in 0 .. MaxNotices
  BY Created
<1> DEFINE ids == lastId + 1 .. lastId + k
<1>4. /\ DOMAIN posted' = DOMAIN posted \cup ids
      /\ \A n \in DOMAIN posted : posted'[n] = posted[n]
      /\ \A n \in ids : posted'[n] \in NoticeRow
  BY Created
<1>5. \A n \in ids : n \in Notices /\ n <= lastId'
  BY <1>1, <1>3, Bounds DEF Notices
<1>6. DOMAIN posted \cup ids \subseteq 1 .. lastId'
  BY <1>1, <1>3 DEF NoticeTypeOK
<1>7. \A n \in DOMAIN published : n \in Notices /\ published[n] \in NoticeRow /\ n <= lastId'
  BY <1>2, <1>4, <1>5
<1>8. /\ spread' \in [Notices -> 0 .. MaxFanouts]
      /\ fanout' \in [Fanouts -> FanoutState]
      /\ \A n \in Notices : n > lastId' => spread'[n] = 0
      /\ \A f \in Fanouts : fanout'[f] # Still => f[2] <= spread'[f[1]]
      /\ addressed' \in [Notices -> SUBSET People]
  BY <1>1, <1>2, <1>3, <1>7, PublishedTypes
<1>9. DOMAIN posted' \subseteq 1 .. lastId' /\ \A n \in DOMAIN posted' : posted'[n] \in NoticeRow
  BY <1>4, <1>6 DEF NoticeTypeOK
<1>10. \A b \in Admins : edit'[b] # Still => edit'[b].id <= lastId'
  <2> SUFFICES ASSUME NEW b \in Admins, edit'[b] # Still PROVE edit'[b].id <= lastId'
    OBVIOUS
  <2>1. edit[b] # Still /\ edit[b].id = edit'[b].id
    BY Created
  <2>2. edit[b] \in EditState /\ edit[b].id <= lastId
    BY <2>1 DEF NoticeTypeOK
  <2>3. edit[b].id \in Notices
    BY <2>1, <2>2 DEF EditState
  <2> QED
    BY <1>1, <1>3, <2>1, <2>2, <2>3, Bounds DEF Notices
<1> QED
  BY <1>3, <1>8, <1>9, <1>10, Created, SameTypes, TypesAfter DEF NoticeTypeOK

\* Steps of a request that write no row.
LEMMA ReadTypes ==
  ASSUME NoticeTypeOK, NEW a \in Admins,
         UpdateAnnouncementHandler(a) \/ FindToUpdate(a) \/ SetAnnouncementStatusHandler(a)
  PROVE  /\ NoticeTypeOK'
         /\ \E e \in EditState : edit' = [edit EXCEPT ![a] = e]
         /\ UNCHANGED <<now, posted, lastId, marks, outbox, click, histories>>
<1>1. UNCHANGED <<now, posted, lastId, marks, outbox, click, histories>>
  BY DEF UpdateAnnouncementHandler, FindToUpdate, SetAnnouncementStatusHandler
<1>2. lastId \in Nat /\ now \in 0 .. LastHour
  BY Bounds DEF NoticeTypeOK
<1>3. \E e \in EditState : (e # Still => e.id <= lastId) /\ edit' = [edit EXCEPT ![a] = e]
  <2>1. CASE UpdateAnnouncementHandler(a)
    <3>1. PICK n \in DOMAIN posted, p \in Payloads :
            edit' = [edit EXCEPT ![a] =
              [step |-> "find", id |-> n, input |-> AnnouncementInput(p), was |-> posted[n].active]]
      BY <2>1 DEF UpdateAnnouncementHandler
    <3>2. n \in Notices /\ n <= lastId /\ posted[n].active \in BOOLEAN
      BY PostedType
    <3>3. AnnouncementInput(p) \in Input
      BY PayloadAssumption, InputIsTyped
    <3>4. [step |-> "find", id |-> n, input |-> AnnouncementInput(p), was |-> posted[n].active]
            \in EditState
      BY <3>2, <3>3 DEF EditState
    <3> QED
      BY <3>1, <3>2, <3>4
  <2>2. CASE FindToUpdate(a)
    <3> DEFINE row == BuildAnnouncement(edit[a].input)
               e == [step |-> "update", id |-> edit[a].id, row |-> row,
                     was |-> edit[a].was, mail |-> edit[a].input.mail]
    <3>1. edit[a].step = "find" /\ (edit' = [edit EXCEPT ![a] = Still]
                                  \/ edit' = [edit EXCEPT ![a] = e])
      BY <2>2 DEF FindToUpdate, NoticeTypeOK
    <3>2. edit[a] \in EditState /\ edit[a] # Still /\ edit[a].id <= lastId
      BY <3>1 DEF NoticeTypeOK, Still
    <3>3. edit[a].id \in Notices /\ edit[a].input \in Input /\ edit[a].was \in BOOLEAN
      BY <3>1, <3>2 DEF EditState, Still
    <3>4. row \in NoticeRow /\ edit[a].input.mail \in BOOLEAN
      BY <1>2, <3>3, BuiltIsRow DEF Input
    <3> HIDE DEF row
    <3>5. e \in EditState /\ e.id = edit[a].id /\ Still \in EditState
      BY <3>3, <3>4 DEF EditState
    <3> HIDE DEF e
    <3> QED
      BY <3>1, <3>2, <3>5
  <2>3. CASE SetAnnouncementStatusHandler(a)
    <3>1. PICK n \in DOMAIN posted, status \in Statuses :
            edit' = [edit EXCEPT ![a] =
              [step |-> "set", id |-> n,
               status |-> ResolveAnnouncementStatus(status, AnnouncementStatusIsLive(status),
                                                    posted[n].starts)]]
      BY <2>3 DEF SetAnnouncementStatusHandler
    <3> DEFINE r == ResolveAnnouncementStatus(status, AnnouncementStatusIsLive(status),
                                              posted[n].starts)
    <3>2. n \in Notices /\ n <= lastId /\ posted[n].starts \in 0 .. LastHour
      BY PostedType
    <3>3. AnnouncementStatusIsLive(status) \in BOOLEAN
      BY DEF AnnouncementStatusIsLive
    <3>4. r \in Statuses
      BY <1>2, <3>2, <3>3, ResolvedIsStatus
    <3> HIDE DEF r
    <3>5. [step |-> "set", id |-> n, status |-> r] \in EditState
      BY <3>2, <3>4 DEF EditState
    <3> QED
      BY <3>1, <3>2, <3>5 DEF r
  <2> QED
    BY <2>1, <2>2, <2>3
<1>4. PICK e \in EditState : (e # Still => e.id <= lastId) /\ edit' = [edit EXCEPT ![a] = e]
  BY <1>3
<1>5. /\ edit' \in [Admins -> EditState]
      /\ \A b \in Admins : edit'[b] # Still => edit'[b].id <= lastId'
  BY <1>1, <1>4, EditTypes
<1>6. NoticeTypeOK'
  BY <1>1, <1>5, SameTypes, TypesAfter DEF outbox, histories
<1> QED
  BY <1>1, <1>4, <1>6

\* A request of an administrator that writes what it has made up.
LEMMA HeldEdit ==
  ASSUME NoticeTypeOK, NEW a \in Admins
  PROVE  /\ edit[a].step \in {"find", "update", "set"} =>
              edit[a].id \in Notices /\ edit[a].id <= lastId
         /\ edit[a].step \in Edits => edit[a].was \in BOOLEAN
         /\ edit[a].step = "update" => edit[a].row \in NoticeRow /\ edit[a].mail \in BOOLEAN
         /\ edit[a].step = "set" => edit[a].status \in Statuses
<1>1. edit[a] \in EditState /\ (edit[a] # Still => edit[a].id <= lastId)
  BY DEF NoticeTypeOK
<1> QED
  BY <1>1 DEF EditState, Still, Edits

LEMMA UpdateTypes ==
  ASSUME NoticeTypeOK, NEW a \in Admins, UpdateAnnouncement(a)
  PROVE  NoticeTypeOK'
<1> DEFINE e == edit[a]
           told == [n \in {m \in {e.id} : BecomesLive(e.was, e.row)} |-> e.row]
           mails == [n \in {e.id} |-> e.mail]
           rows == [n \in {e.id} \cap DOMAIN posted |-> e.row]
<1>1. /\ e.step = "update" /\ edit' = [edit EXCEPT ![a] = Still]
      /\ Store(rows) /\ CountWithdrawn /\ PublishAnnouncements(a, told, mails)
      /\ UNCHANGED <<now, lastId, marks, inbox, mailed, click, cut>>
  BY DEF UpdateAnnouncement
<1>2. e.id \in Notices /\ e.id <= lastId /\ e.row \in NoticeRow /\ e.mail \in BOOLEAN
  BY <1>1, HeldEdit
<1>3. lastId \in Nat
  BY Bounds DEF NoticeTypeOK
<1>4. \A n \in DOMAIN told : n \in Notices /\ told[n] \in NoticeRow /\ n <= lastId' /\ mails[n] \in BOOLEAN
  BY <1>1, <1>2
<1>5. DOMAIN rows \subseteq DOMAIN posted /\ \A n \in DOMAIN rows : rows[n] \in NoticeRow
  BY <1>2
<1> HIDE DEF told, mails, rows
<1>6. /\ spread' \in [Notices -> 0 .. MaxFanouts]
      /\ fanout' \in [Fanouts -> FanoutState]
      /\ \A n \in Notices : n > lastId' => spread'[n] = 0
      /\ \A f \in Fanouts : fanout'[f] # Still => f[2] <= spread'[f[1]]
      /\ addressed' \in [Notices -> SUBSET People]
  BY <1>1, <1>3, <1>4, PublishedTypes
<1>7. DOMAIN posted' \subseteq 1 .. lastId' /\ \A n \in DOMAIN posted' : posted'[n] \in NoticeRow
  BY <1>1, <1>5, Stored DEF NoticeTypeOK
<1>8. /\ edit' \in [Admins -> EditState]
      /\ \A b \in Admins : edit'[b] # Still => edit'[b].id <= lastId'
  BY <1>1, EditTypes DEF EditState
<1> QED
  BY <1>1, <1>6, <1>7, <1>8, WithdrawnType, SameTypes, TypesAfter

LEMMA SetTypes ==
  ASSUME NoticeTypeOK, NEW a \in Admins, SetAnnouncementStatus(a)
  PROVE  NoticeTypeOK'
<1> DEFINE e == edit[a]
           rows == [n \in {e.id} \cap DOMAIN posted |->
                      [posted[n] EXCEPT !.status = e.status,
                                        !.active = AnnouncementStatusIsLive(e.status)]]
<1>1. /\ e.step = "set" /\ edit' = [edit EXCEPT ![a] = Still]
      /\ Store(rows) /\ CountWithdrawn
      /\ UNCHANGED <<now, lastId, marks, outbox, click, spread, addressed, cut>>
  BY DEF SetAnnouncementStatus
<1>2. e.status \in Statuses /\ AnnouncementStatusIsLive(e.status) \in BOOLEAN
  <2>1. e.status \in Statuses
    BY <1>1, HeldEdit
  <2>2. AnnouncementStatusIsLive(e.status) \in BOOLEAN
    BY DEF AnnouncementStatusIsLive
  <2> QED
    BY <2>1, <2>2
<1>3. DOMAIN rows \subseteq DOMAIN posted /\ \A n \in DOMAIN rows : rows[n] \in NoticeRow
  <2> SUFFICES ASSUME NEW n \in {e.id} \cap DOMAIN posted PROVE rows[n] \in NoticeRow
    OBVIOUS
  <2>1. posted[n] \in NoticeRow
    BY PostedType
  <2> QED
    BY <1>2, <2>1 DEF NoticeRow
<1> HIDE DEF rows
<1>4. DOMAIN posted' \subseteq 1 .. lastId' /\ \A n \in DOMAIN posted' : posted'[n] \in NoticeRow
  BY <1>1, <1>3, Stored DEF NoticeTypeOK
<1>5. /\ edit' \in [Admins -> EditState]
      /\ \A b \in Admins : edit'[b] # Still => edit'[b].id <= lastId'
  BY <1>1, EditTypes DEF EditState
<1> QED
  BY <1>1, <1>4, <1>5, WithdrawnType, SameTypes, TypesAfter DEF outbox

LEMMA DeleteTypes ==
  ASSUME NoticeTypeOK, NEW a \in Admins, DeleteAnnouncementHandler(a)
  PROVE  NoticeTypeOK'
<1>1. PICK n \in DOMAIN posted :
        /\ posted' = [m \in DOMAIN posted \ {n} |-> posted[m]]
        /\ acked' = acked \ ({n} \X Readers) /\ dismissed' = dismissed \ ({n} \X Readers)
        /\ UNCHANGED <<now, lastId, outbox, edit, click, histories>>
  BY DEF DeleteAnnouncementHandler, DeleteAnnouncement
<1>2. DOMAIN posted' \subseteq 1 .. lastId' /\ \A m \in DOMAIN posted' : posted'[m] \in NoticeRow
  BY <1>1 DEF NoticeTypeOK
<1>3. acked' \subseteq Notices \X Readers /\ dismissed' \subseteq Notices \X Readers
  BY <1>1 DEF NoticeTypeOK
<1> QED
  BY <1>1, <1>2, <1>3, SameTypes, TypesAfter DEF outbox, histories

LEMMA ReaderTypes ==
  ASSUME NoticeTypeOK, NEW v \in Readers, ReaderAsks(v) \/ InsertMark(v)
  PROVE  NoticeTypeOK' /\ UNCHANGED <<now, posted, lastId, outbox, edit, histories>>
<1>1. UNCHANGED <<now, posted, lastId, outbox, edit, histories>>
  BY DEF ReaderAsks, AcknowledgeAnnouncementHandler, DismissAnnouncementHandler, InsertMark
<1>2. CASE ReaderAsks(v)
  <2>1. PICK n \in DOMAIN posted, step \in {"ack", "dismiss"} :
          click' = [click EXCEPT ![v] = [step |-> step, id |-> n]]
    BY <1>2 DEF ReaderAsks, AcknowledgeAnnouncementHandler, DismissAnnouncementHandler
  <2>2. n \in Notices
    BY PostedType
  <2>3. click' \in [Readers -> {Still} \cup [step : {"ack", "dismiss"}, id : Notices]]
    BY <2>1, <2>2 DEF NoticeTypeOK
  <2>4. UNCHANGED marks
    BY <1>2 DEF ReaderAsks, AcknowledgeAnnouncementHandler, DismissAnnouncementHandler
  <2> QED
    BY <1>1, <2>3, <2>4, SameTypes, TypesAfter DEF outbox, histories
<1>3. CASE InsertMark(v)
  <2>1. click[v].id \in Notices
    BY <1>3 DEF InsertMark, NoticeTypeOK
  <2>2. acked' \subseteq Notices \X Readers /\ dismissed' \subseteq Notices \X Readers
    BY <1>3, <2>1 DEF InsertMark, NoticeTypeOK
  <2>3. click' \in [Readers -> {Still} \cup [step : {"ack", "dismiss"}, id : Notices]]
    BY <1>3 DEF InsertMark, NoticeTypeOK
  <2> QED
    BY <1>1, <2>2, <2>3, SameTypes, TypesAfter DEF outbox, histories
<1> QED
  BY <1>1, <1>2, <1>3

\* A step of a fan-out that ends it, or leaves it with users to tell.
LEMMA FanoutTypes ==
  ASSUME NoticeTypeOK, NEW f \in Fanouts, fanout[f] # Still,
         NEW g \in FanoutState, fanout' = [fanout EXCEPT ![f] = g],
         UNCHANGED <<spread, lastId>>
  PROVE  /\ fanout' \in [Fanouts -> FanoutState]
         /\ spread' \in [Notices -> 0 .. MaxFanouts]
         /\ \A n \in Notices : n > lastId' => spread'[n] = 0
         /\ \A h \in Fanouts : fanout'[h] # Still => h[2] <= spread'[h[1]]
BY DEF NoticeTypeOK

\* What each step of a fan-out does to it and to whom.
LEMMA Resolved ==
  ASSUME NoticeTypeOK, NEW f \in Fanouts, ResolveAudience(f)
  PROVE  /\ fanout[f].step = "resolve"
         /\ \E g \in FanoutState : g.step # "resolve" /\ fanout' = [fanout EXCEPT ![f] = g]
         /\ UNCHANGED <<now, posted, lastId, marks, inbox, mailed, edit, click, histories>>
<1> DEFINE to == AudienceUserIDs(fanout[f].audience) \ {fanout[f].actor}
           g == IF to = {} THEN Still
                ELSE [step |-> IF fanout[f].mail THEN "mail" ELSE "insert", left |-> to]
<1>1. to \subseteq People
  BY DEF AudienceUserIDs, UsersOf
<1>2. fanout[f].step = "resolve" /\ fanout' = [fanout EXCEPT ![f] = g]
  BY DEF ResolveAudience
<1> HIDE DEF to
<1>3. g \in FanoutState /\ g.step # "resolve"
  BY <1>1 DEF FanoutState, Still
<1> HIDE DEF g
<1> QED
  BY <1>2, <1>3 DEF ResolveAudience

LEMMA Mailed ==
  ASSUME NoticeTypeOK, NEW f \in Fanouts, SendAnnouncementEmails(f)
  PROVE  /\ fanout[f].step = "mail" /\ fanout[f].left \subseteq People
         /\ fanout' = [fanout EXCEPT ![f] = [step |-> "insert", left |-> fanout[f].left]]
         /\ \E sent \in SUBSET fanout[f].left :
              mailed' = [mailed EXCEPT ![f[1]] =
                [u \in People |-> IF u \in sent THEN mailed[f[1]][u] + 1 ELSE mailed[f[1]][u]]]
         /\ UNCHANGED <<now, posted, lastId, marks, inbox, edit, click, histories>>
<1>1. fanout[f] \in FanoutState /\ fanout[f].step = "mail" /\ f[1] \in Notices
  BY DEF SendAnnouncementEmails, NoticeTypeOK, Fanouts
<1>2. fanout[f] \in [step : {"mail", "insert"}, left : SUBSET People]
  BY <1>1 DEF FanoutState, Still
<1>3. [fanout[f] EXCEPT !.step = "insert"] = [step |-> "insert", left |-> fanout[f].left]
  BY <1>2
<1>4. fanout' = [fanout EXCEPT ![f] = [fanout[f] EXCEPT !.step = "insert"]]
  BY DEF SendAnnouncementEmails, NoticeTypeOK
<1>5. fanout' = [fanout EXCEPT ![f] = [step |-> "insert", left |-> fanout[f].left]]
  BY <1>3, <1>4
<1>6. PICK sent \in SUBSET fanout[f].left :
        mailed' = [mailed EXCEPT ![f[1]] =
          [u \in People |-> IF u \in sent THEN mailed[f[1]][u] + 1 ELSE mailed[f[1]][u]]]
  BY <1>1 DEF SendAnnouncementEmails, NoticeTypeOK
<1> QED
  BY <1>1, <1>2, <1>5, <1>6 DEF SendAnnouncementEmails

LEMMA Inserted ==
  ASSUME NoticeTypeOK, NEW f \in Fanouts, InsertChunk(f)
  PROVE  /\ fanout[f].step = "insert" /\ fanout[f].left \subseteq People
         /\ \E told \in SUBSET fanout[f].left :
              /\ inbox' = [inbox EXCEPT ![f[1]] =
                   [u \in People |-> IF u \in told THEN inbox[f[1]][u] + 1 ELSE inbox[f[1]][u]]]
              /\ \E g \in FanoutState :
                   /\ fanout' = [fanout EXCEPT ![f] = g]
                   /\ g = Still \/ (g.step = "insert" /\ g.left = fanout[f].left \ told)
         /\ UNCHANGED <<now, posted, lastId, marks, mailed, edit, click, histories>>
<1>1. fanout[f] \in FanoutState /\ fanout[f].step = "insert" /\ f[1] \in Notices
  BY DEF InsertChunk, NoticeTypeOK, Fanouts
<1>2. fanout[f].left \subseteq People
  BY <1>1 DEF FanoutState, Still
<1>3. PICK told \in SUBSET fanout[f].left :
        /\ inbox' = [inbox EXCEPT ![f[1]] =
             [u \in People |-> IF u \in told THEN inbox[f[1]][u] + 1 ELSE inbox[f[1]][u]]]
        /\ fanout' = [fanout EXCEPT ![f] =
             IF told = fanout[f].left THEN Still
             ELSE [step |-> "insert", left |-> fanout[f].left \ told]]
  BY <1>1 DEF InsertChunk, NoticeTypeOK
<1>4. [step |-> "insert", left |-> fanout[f].left \ told] \in FanoutState /\ Still \in FanoutState
  BY <1>2 DEF FanoutState
<1> QED
  BY <1>1, <1>2, <1>3, <1>4 DEF InsertChunk

LEMMA FanoutStepTypes ==
  ASSUME NoticeTypeOK, NEW f \in Fanouts, FanoutSteps(f) \/ FanoutFails(f)
  PROVE  /\ NoticeTypeOK'
         /\ UNCHANGED <<now, posted, lastId, marks, edit, click, spread, withdrawn, addressed>>
<1>1. UNCHANGED <<now, posted, lastId, marks, edit, click, spread, withdrawn, addressed>>
  BY DEF FanoutSteps, ResolveAudience, SendAnnouncementEmails, InsertChunk, FanoutFails, histories
<1>2. f[1] \in Notices /\ inbox[f[1]] \in [People -> Nat] /\ mailed[f[1]] \in [People -> Nat]
  BY DEF NoticeTypeOK, Fanouts
<1>3. inbox' \in [Notices -> [People -> Nat]] /\ mailed' \in [Notices -> [People -> Nat]]
  <2>1. CASE ResolveAudience(f) \/ FanoutFails(f)
    BY <2>1 DEF ResolveAudience, FanoutFails, NoticeTypeOK
  <2>2. CASE SendAnnouncementEmails(f)
    <3>1. PICK sent \in SUBSET fanout[f].left :
            mailed' = [mailed EXCEPT ![f[1]] =
              [u \in People |-> IF u \in sent THEN mailed[f[1]][u] + 1 ELSE mailed[f[1]][u]]]
      BY <2>2, Mailed
    <3>2. [u \in People |-> IF u \in sent THEN mailed[f[1]][u] + 1 ELSE mailed[f[1]][u]] \in [People -> Nat]
      BY <1>2
    <3> QED
      BY <2>2, <3>1, <3>2, Mailed DEF NoticeTypeOK
  <2>3. CASE InsertChunk(f)
    <3>1. PICK told \in SUBSET fanout[f].left :
            inbox' = [inbox EXCEPT ![f[1]] =
              [u \in People |-> IF u \in told THEN inbox[f[1]][u] + 1 ELSE inbox[f[1]][u]]]
      BY <2>3, Inserted
    <3>2. [u \in People |-> IF u \in told THEN inbox[f[1]][u] + 1 ELSE inbox[f[1]][u]] \in [People -> Nat]
      BY <1>2
    <3> QED
      BY <2>3, <3>1, <3>2, Inserted DEF NoticeTypeOK
  <2> QED
    BY <2>1, <2>2, <2>3 DEF FanoutSteps
<1>4. /\ fanout[f] # Still
      /\ \E g \in FanoutState : fanout' = [fanout EXCEPT ![f] = g]
  <2> fanout[f].step # "still" => fanout[f] # Still
    BY DEF Still
  <2>1. CASE ResolveAudience(f)
    BY <2>1, Resolved
  <2>2. CASE SendAnnouncementEmails(f)
    <3>1. [step |-> "insert", left |-> fanout[f].left] \in FanoutState
      BY <2>2, Mailed DEF FanoutState
    <3> QED
      BY <2>2, <3>1, Mailed
  <2>3. CASE InsertChunk(f)
    <3>1. fanout[f].step = "insert" /\ \E g \in FanoutState : fanout' = [fanout EXCEPT ![f] = g]
      BY <2>3, Inserted
    <3> QED
      BY <3>1
  <2>4. CASE FanoutFails(f)
    BY <2>4 DEF FanoutFails, FanoutState, Still
  <2> QED
    BY <2>1, <2>2, <2>3, <2>4 DEF FanoutSteps
<1>5. /\ fanout' \in [Fanouts -> FanoutState]
      /\ spread' \in [Notices -> 0 .. MaxFanouts]
      /\ \A n \in Notices : n > lastId' => spread'[n] = 0
      /\ \A h \in Fanouts : fanout'[h] # Still => h[2] <= spread'[h[1]]
  BY <1>1, <1>4, FanoutTypes
<1>6. cut' \subseteq Notices
  BY <1>2 DEF FanoutSteps, ResolveAudience, SendAnnouncementEmails, InsertChunk, FanoutFails,
              histories, NoticeTypeOK
<1> QED
  BY <1>1, <1>3, <1>5, <1>6, SameTypes, TypesAfter

LEMMA StopTypes ==
  ASSUME NoticeTypeOK, ServerStops
  PROVE  NoticeTypeOK'
<1>1. /\ edit' \in [Admins -> EditState]
      /\ \A b \in Admins : edit'[b] # Still => edit'[b].id <= lastId'
  BY DEF ServerStops, EditState
<1>2. click' \in [Readers -> {Still} \cup [step : {"ack", "dismiss"}, id : Notices]]
  BY DEF ServerStops
<1>3. fanout' \in [Fanouts -> FanoutState] /\ \A f \in Fanouts : fanout'[f] = Still
  BY DEF ServerStops, FanoutState
<1>4. cut' \subseteq Notices
  BY DEF ServerStops, NoticeTypeOK, Fanouts
<1>5. /\ spread' \in [Notices -> 0 .. MaxFanouts]
      /\ \A n \in Notices : n > lastId' => spread'[n] = 0
  BY DEF ServerStops, NoticeTypeOK
<1>6. UNCHANGED <<now, posted, lastId, marks, inbox, mailed, withdrawn, addressed>>
  BY DEF ServerStops
<1> QED
  BY <1>1, <1>2, <1>3, <1>4, <1>5, <1>6, SameTypes, TypesAfter

LEMMA HourTypes ==
  ASSUME NoticeTypeOK, HourPasses
  PROVE  NoticeTypeOK' /\ now' = now + 1
<1>1. now' \in 0 .. LastHour /\ now' = now + 1
  BY Bounds DEF HourPasses, NoticeTypeOK
<1>2. UNCHANGED <<posted, lastId, marks, outbox, edit, click, histories>>
  BY DEF HourPasses
<1> QED
  BY <1>1, <1>2, SameTypes, TypesAfter DEF outbox, histories
-----------------------------------------------------------------------------
(* Steps, and what the histories remember of them.                          *)

LEMMA TypesKept ==
  ASSUME NoticeTypeOK, NoticeStep
  PROVE  NoticeTypeOK'
<1>1. ASSUME NEW a \in Admins, AdminAsks(a) \/ AdminSteps(a) PROVE NoticeTypeOK'
  <2>1. CASE CreateAnnouncementHandler(a) \/ CreateAnnouncementsBatchHandler(a)
    BY <2>1, CreateHandled, CreateTypes
  <2>2. CASE UpdateAnnouncementHandler(a) \/ FindToUpdate(a) \/ SetAnnouncementStatusHandler(a)
    BY <2>2, ReadTypes
  <2>3. CASE UpdateAnnouncement(a)
    BY <2>3, UpdateTypes
  <2>4. CASE SetAnnouncementStatus(a)
    BY <2>4, SetTypes
  <2>5. CASE DeleteAnnouncementHandler(a)
    BY <2>5, DeleteTypes
  <2> QED
    BY <1>1, <2>1, <2>2, <2>3, <2>4, <2>5 DEF AdminAsks, AdminSteps
<1> QED
  BY <1>1, FanoutStepTypes, ReaderTypes, HourTypes, StopTypes DEF NoticeStep

LEMMA MeetingsAreKnown ==
  ASSUME Remembers
  PROVE  Meetings'
<1> SUFFICES ASSUME NEW a \in Admins, NEW b \in Admins, edit'[a].step \in Edits,
                    edit'[b].step \in Edits \cup {"set"}, a # b, edit'[a].id = edit'[b].id
             PROVE  edit'[a].id \in IF edit'[b].step = "set" THEN overtaken' ELSE editedTwice'
  BY DEF Meetings
<1> DEFINE Held(c, steps) == IF edit'[c].step \in steps THEN {edit'[c].id} ELSE {}
           Both(p, one, other) == Held(p[1], one) \cap Held(p[2], other)
           Pairs == {q \in Admins \X Admins : q[1] # q[2]}
<1>1. /\ editedTwice' = editedTwice \cup UNION {Both(p, Edits, Edits) : p \in Pairs}
      /\ overtaken' = overtaken \cup UNION {Both(p, Edits, {"set"}) : p \in Pairs}
  BY DEF Remembers, Meet, HeldBy
<1>2. <<a, b>> \in Pairs
  OBVIOUS
<1>3. CASE edit'[b].step = "set"
  <2>1. edit'[a].id \in Both(<<a, b>>, Edits, {"set"})
    BY <1>3
  <2> HIDE DEF Both, Pairs
  <2> QED
    BY <1>1, <1>2, <1>3, <2>1
<1>4. CASE edit'[b].step # "set"
  <2>1. edit'[a].id \in Both(<<a, b>>, Edits, Edits)
    BY <1>4
  <2> HIDE DEF Both, Pairs
  <2> QED
    BY <1>1, <1>2, <1>4, <2>1
<1> QED
  BY <1>3, <1>4

\* The histories only grow.
LEMMA HistoriesGrow ==
  ASSUME Remembers
  PROVE  editedTwice \subseteq editedTwice' /\ overtaken \subseteq overtaken'
BY DEF Remembers
-----------------------------------------------------------------------------
(* Fan-outs begun.                                                          *)

\* SpreadInv of one announcement.
SpreadOf(n) ==
  /\ spread[n] <= withdrawn[n] + 1
  /\ n \in DOMAIN posted /\ ~posted[n].active => spread[n] <= withdrawn[n]
  /\ \A a \in Admins :
       edit[a].step \in Edits /\ edit[a].id = n /\ ~edit[a].was => spread[n] <= withdrawn[n]

LEMMA Counters ==
  ASSUME NoticeTypeOK, NEW n \in Notices
  PROVE  /\ spread[n] \in Nat /\ withdrawn[n] \in Nat /\ n \in Nat /\ lastId \in Nat
         /\ n > lastId => spread[n] = 0
BY Bounds DEF NoticeTypeOK, Notices

\* An announcement of which no fan-out is begun.
LEMMA SpreadStays ==
  ASSUME NoticeTypeOK, NEW n \in Notices, SpreadOf(n),
         spread'[n] = spread[n], withdrawn'[n] \in Nat, withdrawn[n] <= withdrawn'[n],
         n \in DOMAIN posted' /\ ~posted'[n].active
           => (n \in DOMAIN posted /\ ~posted[n].active) \/ withdrawn'[n] = withdrawn[n] + 1,
         \A a \in Admins :
           edit'[a].step \in Edits /\ edit'[a].id = n /\ ~edit'[a].was
             => \/ edit[a].step \in Edits /\ edit[a].id = n /\ ~edit[a].was
                \/ n \in DOMAIN posted /\ ~posted[n].active
  PROVE  SpreadOf(n)'
<1>1. spread[n] \in Nat /\ withdrawn[n] \in Nat
  BY Counters
<1>2. spread'[n] <= withdrawn'[n] + 1
  BY <1>1 DEF SpreadOf
<1>3. n \in DOMAIN posted' /\ ~posted'[n].active => spread'[n] <= withdrawn'[n]
  BY <1>1 DEF SpreadOf
<1>4. ASSUME NEW a \in Admins, edit'[a].step \in Edits, edit'[a].id = n, ~edit'[a].was
      PROVE  spread'[n] <= withdrawn'[n]
  <2>1. spread[n] <= withdrawn[n]
    BY <1>4 DEF SpreadOf
  <2> QED
    BY <1>1, <2>1
<1> QED
  BY <1>2, <1>3, <1>4 DEF SpreadOf

LEMMA CreateSpread ==
  ASSUME NoticeTypeOK, NEW a \in Admins, NEW k \in Nat, NEW inputs, Creates(a, k, inputs),
         NEW n \in Notices, SpreadOf(n)
  PROVE  SpreadOf(n)'
<1>1. /\ spread[n] \in Nat /\ withdrawn[n] \in Nat /\ n \in Nat /\ lastId \in Nat
      /\ n > lastId => spread[n] = 0
  BY Counters
<1> DEFINE ids == lastId + 1 .. lastId + k
<1>2. PICK published, mails :
        /\ DOMAIN published = ids
        /\ \A m \in DOMAIN published : published[m] = posted'[m] /\ mails[m] \in BOOLEAN
        /\ PublishAnnouncements(a, published, mails)
  BY Created
<1>3. /\ DOMAIN posted' = DOMAIN posted \cup ids
      /\ \A m \in DOMAIN posted : posted'[m] = posted[m]
      /\ \A m \in ids : posted'[m] \in NoticeRow
      /\ UNCHANGED <<edit, withdrawn>> /\ lastId' = lastId + k /\ lastId' \in 0 .. MaxNotices
  BY Created
<1>4. \A m \in ids : m \in Notices
  BY <1>1, <1>3, Bounds DEF Notices
<1>5. \/ spread'[n] = spread[n]
      \/ n \in ids /\ posted'[n].active /\ spread'[n] = spread[n] + 1
  BY <1>2, <1>3, <1>4, Published
<1>6. CASE n \notin ids
  BY <1>1, <1>3, <1>5, <1>6, SpreadStays
<1>7. CASE n \in ids
  <2>1. n > lastId /\ spread[n] = 0
    BY <1>1, <1>7
  <2>2. ASSUME NEW b \in Admins, edit[b].step \in Edits, edit[b].id = n PROVE FALSE
    BY <2>1, <2>2, HeldEdit, <1>1 DEF Edits
  <2> QED
    BY <1>1, <1>3, <1>5, <2>1, <2>2 DEF SpreadOf
<1> QED
  BY <1>6, <1>7

LEMMA ReadSpread ==
  ASSUME NoticeTypeOK, NEW a \in Admins,
         UpdateAnnouncementHandler(a) \/ FindToUpdate(a) \/ SetAnnouncementStatusHandler(a),
         NEW n \in Notices, SpreadOf(n)
  PROVE  SpreadOf(n)'
<1>1. UNCHANGED <<posted, spread, withdrawn>>
  BY ReadTypes DEF histories
<1>2. \A b \in Admins \ {a} : edit'[b] = edit[b]
  BY ReadTypes DEF NoticeTypeOK
<1>3. edit'[a].step \in Edits /\ edit'[a].id = n /\ ~edit'[a].was
        => \/ edit[a].step \in Edits /\ edit[a].id = n /\ ~edit[a].was
           \/ n \in DOMAIN posted /\ ~posted[n].active
  <2>1. CASE UpdateAnnouncementHandler(a)
    BY <2>1 DEF UpdateAnnouncementHandler, NoticeTypeOK
  <2>2. CASE FindToUpdate(a)
    BY <2>2 DEF FindToUpdate, NoticeTypeOK, Still, Edits
  <2>3. CASE SetAnnouncementStatusHandler(a)
    BY <2>3 DEF SetAnnouncementStatusHandler, NoticeTypeOK, Edits
  <2> QED
    BY <2>1, <2>2, <2>3
<1>4. withdrawn'[n] \in Nat /\ withdrawn[n] <= withdrawn'[n]
  BY <1>1, Counters
<1> QED
  BY <1>1, <1>2, <1>3, <1>4, SpreadStays

\* The edit that publishes: it began when the announcement was down, and no other
\* edit of it is about.
LEMMA UpdateSpread ==
  ASSUME NoticeTypeOK, NEW a \in Admins, UpdateAnnouncement(a), Meetings,
         NEW n \in Notices, n \notin editedTwice, SpreadOf(n)
  PROVE  SpreadOf(n)'
<1> DEFINE e == edit[a]
           told == [m \in {x \in {e.id} : BecomesLive(e.was, e.row)} |-> e.row]
           mails == [m \in {e.id} |-> e.mail]
           rows == [m \in {e.id} \cap DOMAIN posted |-> e.row]
<1>1. /\ e.step = "update" /\ edit' = [edit EXCEPT ![a] = Still]
      /\ Store(rows) /\ CountWithdrawn /\ PublishAnnouncements(a, told, mails)
  BY DEF UpdateAnnouncement
<1>2. e.id \in Notices /\ e.row \in NoticeRow /\ e.mail \in BOOLEAN /\ e.was \in BOOLEAN
  BY <1>1, HeldEdit DEF Edits
<1>3. \A m \in DOMAIN told : /\ m \in Notices /\ told[m] \in NoticeRow /\ mails[m] \in BOOLEAN
                            /\ m = e.id /\ ~e.was /\ told[m] = e.row
  BY <1>2 DEF BecomesLive
<1>4. DOMAIN rows = {e.id} \cap DOMAIN posted /\ \A m \in DOMAIN rows : rows[m] = e.row
  OBVIOUS
<1> HIDE DEF told, mails, rows
<1>5. \/ spread'[n] = spread[n]
      \/ n = e.id /\ ~e.was /\ e.row.active /\ spread'[n] = spread[n] + 1
  BY <1>1, <1>3, Published
<1>6. /\ DOMAIN posted' = DOMAIN posted
      /\ \A m \in DOMAIN posted \ {e.id} : posted'[m] = posted[m]
      /\ e.id \in DOMAIN posted => posted'[e.id] = e.row
  BY <1>1, <1>4, Stored
<1>7. /\ withdrawn'[n] \in Nat /\ withdrawn[n] <= withdrawn'[n]
      /\ n \in DOMAIN posted \cap DOMAIN posted' /\ posted[n].active /\ ~posted'[n].active
         => withdrawn'[n] = withdrawn[n] + 1
  BY <1>1, WithdrawnType
<1>8. \A b \in Admins : edit'[b] = IF b = a THEN Still ELSE edit[b]
  BY <1>1 DEF NoticeTypeOK
<1>9. spread[n] \in Nat /\ withdrawn[n] \in Nat
  BY Counters
<1>10. CASE spread'[n] = spread[n]
  BY <1>6, <1>7, <1>8, <1>10, SpreadStays DEF Still, Edits
<1>11. CASE n = e.id /\ ~e.was /\ e.row.active /\ spread'[n] = spread[n] + 1
  <2>1. spread[n] <= withdrawn[n]
    BY <1>1, <1>11 DEF SpreadOf, Edits
  <2>2. ASSUME NEW b \in Admins, edit'[b].step \in Edits, edit'[b].id = n PROVE FALSE
    <3>1. b # a /\ edit[b].step \in Edits /\ edit[b].id = n
      BY <1>8, <2>2 DEF Still, Edits
    <3>2. e.step \in Edits /\ edit[b].step # "set"
      BY <1>1, <3>1 DEF Edits
    <3> QED
      BY <1>11, <3>1, <3>2 DEF Meetings
  <2>3. n \in DOMAIN posted' => posted'[n].active
    BY <1>6, <1>11
  <2>4. spread'[n] <= withdrawn'[n] + 1
    BY <1>7, <1>9, <1>11, <2>1
  <2> QED
    BY <2>2, <2>3, <2>4 DEF SpreadOf
<1> QED
  BY <1>5, <1>10, <1>11

LEMMA SetSpread ==
  ASSUME NoticeTypeOK, NEW a \in Admins, SetAnnouncementStatus(a),
         NEW n \in Notices, SpreadOf(n)
  PROVE  SpreadOf(n)'
<1>1. /\ edit' = [edit EXCEPT ![a] = Still] /\ CountWithdrawn /\ UNCHANGED spread
      /\ Store([m \in {edit[a].id} \cap DOMAIN posted |->
                  [posted[m] EXCEPT !.status = edit[a].status,
                                    !.active = AnnouncementStatusIsLive(edit[a].status)]])
  BY DEF SetAnnouncementStatus
<1>2. DOMAIN posted' = DOMAIN posted
  BY <1>1, Stored
<1>3. \A b \in Admins : edit'[b] = IF b = a THEN Still ELSE edit[b]
  BY <1>1 DEF NoticeTypeOK
<1>4. /\ withdrawn'[n] \in Nat /\ withdrawn[n] <= withdrawn'[n]
      /\ n \in DOMAIN posted \cap DOMAIN posted' /\ posted[n].active /\ ~posted'[n].active
         => withdrawn'[n] = withdrawn[n] + 1
  BY <1>1, WithdrawnType
<1>5. spread'[n] = spread[n]
  BY <1>1
<1>6. n \in DOMAIN posted' /\ ~posted'[n].active
        => (n \in DOMAIN posted /\ ~posted[n].active) \/ withdrawn'[n] = withdrawn[n] + 1
  BY <1>2, <1>4
<1>7. \A b \in Admins : edit'[b].step \in Edits => edit'[b] = edit[b]
  BY <1>3 DEF Still, Edits
<1>8. \A b \in Admins :
        edit'[b].step \in Edits /\ edit'[b].id = n /\ ~edit'[b].was
          => edit[b].step \in Edits /\ edit[b].id = n /\ ~edit[b].was
  BY <1>7
<1> QED
  BY <1>4, <1>5, <1>6, <1>8, SpreadStays

LEMMA SpreadKept ==
  ASSUME NoticeTypeOK, Meetings, NoticeStep, NEW n \in Notices, n \notin editedTwice, SpreadOf(n)
  PROVE  SpreadOf(n)'
<1>1. ASSUME NEW a \in Admins, AdminAsks(a) \/ AdminSteps(a) PROVE SpreadOf(n)'
  <2>1. CASE CreateAnnouncementHandler(a) \/ CreateAnnouncementsBatchHandler(a)
    BY <2>1, CreateHandled, CreateSpread
  <2>2. CASE UpdateAnnouncementHandler(a) \/ FindToUpdate(a) \/ SetAnnouncementStatusHandler(a)
    BY <2>2, ReadSpread
  <2>3. CASE UpdateAnnouncement(a)
    BY <2>3, UpdateSpread
  <2>4. CASE SetAnnouncementStatus(a)
    BY <2>4, SetSpread
  <2>5. CASE DeleteAnnouncementHandler(a)
    <3>1. UNCHANGED <<edit, spread, withdrawn>>
      BY <2>5 DEF DeleteAnnouncementHandler, histories
    <3>2. n \in DOMAIN posted' => n \in DOMAIN posted /\ posted'[n] = posted[n]
      BY <2>5 DEF DeleteAnnouncementHandler, DeleteAnnouncement
    <3> QED
      BY <3>1, <3>2, Counters, SpreadStays
  <2> QED
    BY <1>1, <2>1, <2>2, <2>3, <2>4, <2>5 DEF AdminAsks, AdminSteps
<1>2. CASE ServerStops
  <2>1. UNCHANGED <<posted, spread, withdrawn>> /\ \A a \in Admins : edit'[a].step \notin Edits
    BY <1>2 DEF ServerStops, Still, Edits
  <2> QED
    BY <2>1, Counters, SpreadStays
<1>3. ASSUME UNCHANGED <<posted, edit, spread, withdrawn>> PROVE SpreadOf(n)'
  BY <1>3 DEF SpreadOf
<1>4. CASE HourPasses
  BY <1>3, <1>4 DEF HourPasses, histories
<1>5. ASSUME NEW f \in Fanouts, FanoutSteps(f) \/ FanoutFails(f) PROVE SpreadOf(n)'
  BY <1>3, <1>5, FanoutStepTypes
<1>6. ASSUME NEW v \in Readers, ReaderAsks(v) \/ InsertMark(v) PROVE SpreadOf(n)'
  <2>1. UNCHANGED <<posted, edit, histories>>
    BY <1>6, ReaderTypes
  <2> QED
    BY <1>3, <2>1 DEF histories
<1> QED
  BY <1>1, <1>2, <1>4, <1>5, <1>6 DEF NoticeStep
-----------------------------------------------------------------------------
(* What is listed.                                                          *)

\* Steps that change neither rows nor what requests are about to write.
LEMMA StatusStays ==
  ASSUME NoticeTypeOK, StatusInv, Remembers, now' \in 0 .. LastHour, now <= now',
         UNCHANGED posted,
         \A a \in Admins : edit'[a] = edit[a] \/ edit'[a].step \notin {"update", "set"}
  PROVE  StatusInv'
<1>1. overtaken \subseteq overtaken'
  BY HistoriesGrow
<1>2. now \in Nat /\ now' \in Nat
  BY Bounds DEF NoticeTypeOK
<1>3. \A n \in DOMAIN posted : posted[n].starts \in Nat
  BY PostedType, Bounds
<1>4. ListsFit'
  BY <1>1, <1>2, <1>3 DEF StatusInv, ListsFit
<1>5. ASSUME NEW a \in Admins PROVE Promised(a)'
  <2>1. Promised(a)
    BY DEF StatusInv
  <2>2. CASE edit'[a].step = "update"
    <3>1. edit'[a] = edit[a] /\ edit[a].row \in NoticeRow
      BY <2>2, HeldEdit
    <3>2. edit[a].row.starts \in Nat
      BY <3>1, Bounds DEF NoticeRow
    <3> QED
      BY <1>2, <2>1, <2>2, <3>1, <3>2 DEF Promised, Listed
  <2>3. CASE edit'[a].step = "set"
    <3>1. edit'[a] = edit[a]
      BY <2>3
    <3> QED
      BY <1>1, <1>2, <1>3, <2>1, <2>3, <3>1 DEF Promised
  <2> QED
    BY <2>2, <2>3 DEF Promised
<1> QED
  BY <1>4, <1>5 DEF StatusInv

\* Of a row that is stored, and of a request that is about to write.
StatusOf(n) ==
  /\ posted[n].active <=> AnnouncementStatusIsLive(posted[n].status)
  /\ n \notin overtaken /\ posted[n].status = "published" => posted[n].starts <= now

LEMMA CreateStatus ==
  ASSUME NoticeTypeOK, StatusInv, Remembers,
         NEW a \in Admins, NEW k \in Nat, NEW inputs, Creates(a, k, inputs)
  PROVE  StatusInv'
<1> DEFINE ids == lastId + 1 .. lastId + k
<1>1. /\ DOMAIN posted' = DOMAIN posted \cup ids
      /\ \A n \in DOMAIN posted : posted'[n] = posted[n]
      /\ \A n \in ids : Listed(posted'[n])
      /\ UNCHANGED <<now, edit>>
  BY Created
<1>2. overtaken \subseteq overtaken'
  BY HistoriesGrow
<1>3. \A n \in DOMAIN posted : StatusOf(n)
  BY DEF StatusInv, ListsFit, StatusOf
<1>4. \A n \in ids : n > lastId
  BY Bounds DEF NoticeTypeOK
<1> HIDE DEF ids
<1>5. \A n \in DOMAIN posted' : StatusOf(n)'
  BY <1>1, <1>2, <1>3 DEF StatusOf, Listed
<1>6. ASSUME NEW b \in Admins PROVE Promised(b)'
  <2>1. Promised(b)
    BY DEF StatusInv
  <2>2. edit[b].step = "set" => edit[b].id \notin ids
    <3>1. edit[b].step = "set" => edit[b].id \in Nat /\ edit[b].id <= lastId
      BY HeldEdit, Bounds DEF Notices
    <3>2. lastId \in Nat
      BY Bounds DEF NoticeTypeOK
    <3> QED
      BY <1>4, <3>1, <3>2
  <2> QED
    BY <1>1, <1>2, <2>1, <2>2 DEF Promised, Listed
<1> QED
  BY <1>5, <1>6 DEF StatusInv, ListsFit, StatusOf

LEMMA ReadStatus ==
  ASSUME NoticeTypeOK, StatusInv, Remembers, NEW a \in Admins,
         UpdateAnnouncementHandler(a) \/ FindToUpdate(a) \/ SetAnnouncementStatusHandler(a)
  PROVE  StatusInv'
<1>1. UNCHANGED <<posted, now>> /\ overtaken \subseteq overtaken'
  BY ReadTypes, HistoriesGrow
<1>2. now \in 0 .. LastHour /\ now <= now
  BY Bounds DEF NoticeTypeOK
<1>3. \A b \in Admins \ {a} : edit'[b] = edit[b]
  BY ReadTypes DEF NoticeTypeOK
<1>4. Promised(a)'
  <2>1. CASE UpdateAnnouncementHandler(a)
    BY <2>1 DEF UpdateAnnouncementHandler, NoticeTypeOK, Promised
  <2>2. CASE FindToUpdate(a)
    <3>1. \/ edit'[a] = Still
          \/ /\ edit[a].step = "find" /\ edit'[a].step = "update"
             /\ edit'[a].row = BuildAnnouncement(edit[a].input)
      BY <2>2 DEF FindToUpdate, NoticeTypeOK
    <3>2. CASE edit[a].step = "find" /\ edit'[a].step = "update"
               /\ edit'[a].row = BuildAnnouncement(edit[a].input)
      <4>1. edit[a] \in EditState
        BY DEF NoticeTypeOK
      <4>2. edit[a].input \in Input
        BY <3>2, <4>1 DEF EditState, Still
      <4>3. Listed(edit'[a].row)
        BY <1>2, <3>2, <4>2, BuiltIsRow
      <4> QED
        BY <1>1, <3>2, <4>3 DEF Promised, Listed
    <3> QED
      BY <3>1, <3>2 DEF Promised, Still
  <2>3. CASE SetAnnouncementStatusHandler(a)
    <3>1. PICK n \in DOMAIN posted, status \in Statuses :
            edit' = [edit EXCEPT ![a] =
              [step |-> "set", id |-> n,
               status |-> ResolveAnnouncementStatus(status, AnnouncementStatusIsLive(status),
                                                    posted[n].starts)]]
      BY <2>3 DEF SetAnnouncementStatusHandler
    <3> DEFINE r == ResolveAnnouncementStatus(status, AnnouncementStatusIsLive(status),
                                              posted[n].starts)
    <3>2. posted[n].starts \in 0 .. LastHour
      BY PostedType
    <3>3. AnnouncementStatusIsLive(status) \in BOOLEAN
      BY DEF AnnouncementStatusIsLive
    <3>4. r = "published" => posted[n].starts <= now
      BY <1>2, <3>2, <3>3, ResolvedIsStatus
    <3> HIDE DEF r
    <3>5. edit'[a] = [step |-> "set", id |-> n, status |-> r]
      BY <3>1 DEF r, NoticeTypeOK
    <3> QED
      BY <1>1, <3>4, <3>5 DEF Promised
  <2> QED
    BY <2>1, <2>2, <2>3
<1>5. \A b \in Admins \ {a} : Promised(b)'
  BY <1>1, <1>3 DEF StatusInv, Promised, Listed
<1>6. ListsFit'
  BY <1>1 DEF StatusInv, ListsFit
<1> QED
  BY <1>4, <1>5, <1>6 DEF StatusInv

\* A start is changed by an edit only, and who is about to change the status then is
\* remembered.
LEMMA UpdateStatus ==
  ASSUME NoticeTypeOK, StatusInv, Meetings, Remembers, NEW a \in Admins, UpdateAnnouncement(a)
  PROVE  StatusInv'
<1> DEFINE e == edit[a]
           rows == [m \in {e.id} \cap DOMAIN posted |-> e.row]
<1>1. /\ e.step = "update" /\ edit' = [edit EXCEPT ![a] = Still]
      /\ Store(rows) /\ UNCHANGED now
  BY DEF UpdateAnnouncement
<1>2. DOMAIN rows = {e.id} \cap DOMAIN posted /\ \A m \in DOMAIN rows : rows[m] = e.row
  OBVIOUS
<1> HIDE DEF rows
<1>3. /\ DOMAIN posted' = DOMAIN posted
      /\ \A m \in DOMAIN posted \ {e.id} : posted'[m] = posted[m]
      /\ e.id \in DOMAIN posted => posted'[e.id] = e.row
  <2>1. /\ DOMAIN posted' = DOMAIN posted \cup DOMAIN rows
        /\ \A m \in DOMAIN rows : posted'[m] = rows[m]
        /\ \A m \in DOMAIN posted \ DOMAIN rows : posted'[m] = posted[m]
    BY <1>1, Stored
  <2> QED
    BY <1>2, <2>1
<1>4. \A b \in Admins : edit'[b] = IF b = a THEN Still ELSE edit[b]
  BY <1>1 DEF NoticeTypeOK
<1>5. overtaken \subseteq overtaken' /\ Listed(e.row)
  BY <1>1, HistoriesGrow DEF StatusInv, Promised
<1>6. \A n \in DOMAIN posted : StatusOf(n)
  BY DEF StatusInv, ListsFit, StatusOf
<1>7. \A n \in DOMAIN posted' : StatusOf(n)'
  BY <1>1, <1>3, <1>5, <1>6 DEF StatusOf, Listed
<1>8. ASSUME NEW b \in Admins PROVE Promised(b)'
  <2>1. CASE b = a
    BY <1>4, <2>1 DEF Promised, Still
  <2>2. CASE b # a
    <3>1. Promised(b) /\ edit'[b] = edit[b]
      BY <1>4, <2>2 DEF StatusInv
    <3>2. edit[b].step = "set" /\ edit[b].id = e.id => e.id \in overtaken
      BY <1>1, <2>2 DEF Meetings, Edits
    <3> QED
      BY <1>1, <1>3, <1>5, <3>1, <3>2 DEF Promised, Listed
  <2> QED
    BY <2>1, <2>2
<1> QED
  BY <1>7, <1>8 DEF StatusInv, ListsFit, StatusOf

LEMMA SetStatus ==
  ASSUME NoticeTypeOK, StatusInv, Remembers, NEW a \in Admins, SetAnnouncementStatus(a)
  PROVE  StatusInv'
<1> DEFINE e == edit[a]
           row(m) == [posted[m] EXCEPT !.status = e.status,
                                       !.active = AnnouncementStatusIsLive(e.status)]
           rows == [m \in {e.id} \cap DOMAIN posted |-> row(m)]
<1>1. /\ e.step = "set" /\ edit' = [edit EXCEPT ![a] = Still]
      /\ Store(rows) /\ UNCHANGED now
  BY DEF SetAnnouncementStatus
<1>2. \A m \in DOMAIN posted :
        /\ row(m).status = e.status /\ row(m).starts = posted[m].starts
        /\ row(m).active <=> AnnouncementStatusIsLive(e.status)
  <2> TAKE m \in DOMAIN posted
  <2>1. posted[m] \in NoticeRow
    BY PostedType
  <2> QED
    BY <2>1 DEF NoticeRow
<1>3. DOMAIN rows = {e.id} \cap DOMAIN posted /\ \A m \in DOMAIN rows : rows[m] = row(m)
  OBVIOUS
<1> HIDE DEF rows, row
<1>4. /\ DOMAIN posted' = DOMAIN posted
      /\ \A m \in DOMAIN posted \ {e.id} : posted'[m] = posted[m]
      /\ e.id \in DOMAIN posted => posted'[e.id] = row(e.id)
  <2>1. /\ DOMAIN posted' = DOMAIN posted \cup DOMAIN rows
        /\ \A m \in DOMAIN rows : posted'[m] = rows[m]
        /\ \A m \in DOMAIN posted \ DOMAIN rows : posted'[m] = posted[m]
    BY <1>1, Stored
  <2> QED
    BY <1>3, <2>1
<1>5. \A b \in Admins : edit'[b] = IF b = a THEN Still ELSE edit[b]
  BY <1>1 DEF NoticeTypeOK
<1>6. overtaken \subseteq overtaken' /\ Promised(a)
  BY HistoriesGrow DEF StatusInv
<1>7. \A n \in DOMAIN posted : StatusOf(n)
  BY DEF StatusInv, ListsFit, StatusOf
<1>8. \A n \in DOMAIN posted' : StatusOf(n)'
  BY <1>1, <1>2, <1>4, <1>6, <1>7 DEF StatusOf, Promised
<1>9. \A n \in DOMAIN posted : posted'[n].starts = posted[n].starts
  BY <1>2, <1>4
<1>10. ASSUME NEW b \in Admins PROVE Promised(b)'
  <2>1. CASE b = a
    BY <1>5, <2>1 DEF Promised, Still
  <2>2. CASE b # a
    <3>1. Promised(b) /\ edit'[b] = edit[b]
      BY <1>5, <2>2 DEF StatusInv
    <3> QED
      BY <1>1, <1>4, <1>6, <1>9, <3>1 DEF Promised, Listed
  <2> QED
    BY <2>1, <2>2
<1> QED
  BY <1>8, <1>10 DEF StatusInv, ListsFit, StatusOf

LEMMA StatusKept ==
  ASSUME NoticeTypeOK, StatusInv, Meetings, NoticeStep, Remembers
  PROVE  StatusInv'
<1>1. ASSUME NEW a \in Admins, AdminAsks(a) \/ AdminSteps(a) PROVE StatusInv'
  <2>1. CASE CreateAnnouncementHandler(a) \/ CreateAnnouncementsBatchHandler(a)
    BY <2>1, CreateHandled, CreateStatus
  <2>2. CASE UpdateAnnouncementHandler(a) \/ FindToUpdate(a) \/ SetAnnouncementStatusHandler(a)
    BY <2>2, ReadStatus
  <2>3. CASE UpdateAnnouncement(a)
    BY <2>3, UpdateStatus
  <2>4. CASE SetAnnouncementStatus(a)
    BY <2>4, SetStatus
  <2>5. CASE DeleteAnnouncementHandler(a)
    <3>1. UNCHANGED <<edit, now>> /\ overtaken \subseteq overtaken'
      BY <2>5, HistoriesGrow DEF DeleteAnnouncementHandler
    <3>2. \A n \in DOMAIN posted' : n \in DOMAIN posted /\ posted'[n] = posted[n]
      BY <2>5 DEF DeleteAnnouncementHandler, DeleteAnnouncement
    <3>3. ListsFit'
      BY <3>1, <3>2 DEF StatusInv, ListsFit
    <3>4. \A b \in Admins : Promised(b)'
      BY <3>1, <3>2 DEF StatusInv, Promised, Listed
    <3> QED
      BY <3>3, <3>4 DEF StatusInv
  <2> QED
    BY <1>1, <2>1, <2>2, <2>3, <2>4, <2>5 DEF AdminAsks, AdminSteps
<1>2. now \in 0 .. LastHour /\ now <= now
  BY Bounds DEF NoticeTypeOK
<1>3. CASE ServerStops
  BY <1>2, <1>3, StatusStays DEF ServerStops, Still
<1>4. CASE HourPasses
  <2>1. now' \in 0 .. LastHour /\ now <= now'
    BY <1>2, <1>4, HourTypes, Bounds DEF NoticeTypeOK
  <2> QED
    BY <1>4, <2>1, StatusStays DEF HourPasses
<1>5. ASSUME NEW f \in Fanouts, FanoutSteps(f) \/ FanoutFails(f) PROVE StatusInv'
  BY <1>2, <1>5, FanoutStepTypes, StatusStays
<1>6. ASSUME NEW v \in Readers, ReaderAsks(v) \/ InsertMark(v) PROVE StatusInv'
  BY <1>2, <1>6, ReaderTypes, StatusStays
<1> QED
  BY <1>1, <1>3, <1>4, <1>5, <1>6 DEF NoticeStep
-----------------------------------------------------------------------------
(* Notifications and mails.                                                 *)

LEMMA CardSub ==
  ASSUME NEW D, NEW E, D \subseteq 1 .. MaxFanouts, E \subseteq D
  PROVE  /\ IsFiniteSet(D) /\ IsFiniteSet(E)
         /\ Cardinality(D) \in Nat /\ Cardinality(E) \in Nat
         /\ Cardinality(E) <= Cardinality(D)
<1>1. IsFiniteSet(1 .. MaxFanouts)
  BY Bounds, FS_Interval
<1>2. IsFiniteSet(D)
  BY <1>1, FS_Subset
<1>3. IsFiniteSet(E) /\ Cardinality(E) <= Cardinality(D)
  BY <1>2, FS_Subset
<1> QED
  BY <1>2, <1>3, FS_CardinalityType

LEMMA CardLess ==
  ASSUME NEW D, NEW E, D \subseteq 1 .. MaxFanouts, NEW k \in D, E \subseteq D \ {k}
  PROVE  Cardinality(E) + 1 <= Cardinality(D)
<1>1. IsFiniteSet(D) /\ Cardinality(D) \in Nat /\ Cardinality(E) \in Nat
  BY CardSub
<1>2. Cardinality(D \ {k}) = Cardinality(D) - 1
  BY <1>1, FS_RemoveElement
<1>3. Cardinality(E) <= Cardinality(D \ {k})
  BY CardSub
<1> QED
  BY <1>1, <1>2, <1>3

LEMMA CardMore ==
  ASSUME NEW D, NEW E, D \subseteq 1 .. MaxFanouts, NEW k \in 1 .. MaxFanouts,
         E \subseteq D \cup {k}
  PROVE  Cardinality(E) <= Cardinality(D) + 1
<1>1. IsFiniteSet(D) /\ Cardinality(D) \in Nat /\ D \cup {k} \subseteq 1 .. MaxFanouts
  BY CardSub
<1>2. Cardinality(D \cup {k}) <= Cardinality(D) + 1
  <2>1. Cardinality(D \cup {k}) = IF k \in D THEN Cardinality(D) ELSE Cardinality(D) + 1
    BY <1>1, FS_AddElement
  <2> QED
    BY <1>1, <2>1
<1>3. /\ Cardinality(E) <= Cardinality(D \cup {k})
      /\ Cardinality(E) \in Nat /\ Cardinality(D \cup {k}) \in Nat
  BY <1>1, CardSub
<1> QED
  BY <1>1, <1>2, <1>3

\* CountInv of one announcement and user.
CountOf(n, u) ==
  /\ inbox[n][u] + Cardinality(Due(n, u, ToNotify)) <= spread[n]
  /\ mailed[n][u] + Cardinality(Due(n, u, ToMail)) <= spread[n]

LEMMA CountTypes ==
  ASSUME NoticeTypeOK, NEW n \in Notices, NEW u \in People
  PROVE  /\ inbox[n][u] \in Nat /\ mailed[n][u] \in Nat /\ spread[n] \in Nat
         /\ \A steps : /\ Due(n, u, steps) \subseteq 1 .. MaxFanouts
                       /\ Cardinality(Due(n, u, steps)) \in Nat
<1>1. \A steps : Due(n, u, steps) \subseteq 1 .. MaxFanouts
  BY DEF Due
<1>2. \A steps : Cardinality(Due(n, u, steps)) \in Nat
  BY <1>1, CardSub
<1>3. inbox[n][u] \in Nat /\ mailed[n][u] \in Nat /\ spread[n] \in Nat
  BY Bounds DEF NoticeTypeOK
<1> QED
  BY <1>1, <1>2, <1>3

\* No fan-out more is due, and nothing written.
LEMMA CountStays ==
  ASSUME NoticeTypeOK, NEW n \in Notices, NEW u \in People, CountOf(n, u),
         inbox'[n][u] = inbox[n][u], mailed'[n][u] = mailed[n][u], spread'[n] = spread[n],
         Due(n, u, ToNotify)' \subseteq Due(n, u, ToNotify),
         Due(n, u, ToMail)' \subseteq Due(n, u, ToMail)
  PROVE  CountOf(n, u)'
<1> DEFINE N == Due(n, u, ToNotify) M == Due(n, u, ToMail)
<1>1. /\ inbox[n][u] \in Nat /\ mailed[n][u] \in Nat /\ spread[n] \in Nat
      /\ N \subseteq 1 .. MaxFanouts /\ M \subseteq 1 .. MaxFanouts
  BY CountTypes
<1>2. /\ Cardinality(N') \in Nat /\ Cardinality(N) \in Nat /\ Cardinality(N') <= Cardinality(N)
      /\ Cardinality(M') \in Nat /\ Cardinality(M) \in Nat /\ Cardinality(M') <= Cardinality(M)
  BY <1>1, CardSub
<1>3. inbox[n][u] + Cardinality(N) <= spread[n] /\ mailed[n][u] + Cardinality(M) <= spread[n]
  BY DEF CountOf
<1>4. inbox'[n][u] + Cardinality(N') <= spread'[n] /\ mailed'[n][u] + Cardinality(M') <= spread'[n]
  <2> HIDE DEF N, M
  <2> QED
    BY <1>1, <1>2, <1>3
<1> QED
  BY <1>4 DEF CountOf

\* The fan-outs of an announcement stay what they are.
LEMMA CountUntouched ==
  ASSUME NoticeTypeOK, NEW n \in Notices, NEW u \in People, CountOf(n, u),
         UNCHANGED <<inbox, mailed>>, spread'[n] = spread[n],
         \A k \in 1 .. MaxFanouts : fanout'[<<n, k>>] = fanout[<<n, k>>]
  PROVE  CountOf(n, u)'
<1>1. Due(n, u, ToNotify)' \subseteq Due(n, u, ToNotify) /\ Due(n, u, ToMail)' \subseteq Due(n, u, ToMail)
  BY DEF Due
<1> QED
  BY <1>1, CountStays

\* Another fan-out is begun.
LEMMA PublishedCount ==
  ASSUME NoticeTypeOK, NEW a \in Admins, NEW published, NEW mails,
         \A m \in DOMAIN published : m \in Notices /\ published[m] \in NoticeRow,
         \A m \in DOMAIN published : mails[m] \in BOOLEAN,
         PublishAnnouncements(a, published, mails), UNCHANGED <<inbox, mailed>>,
         NEW n \in Notices, NEW u \in People, CountOf(n, u)
  PROVE  CountOf(n, u)'
<1> DEFINE N == Due(n, u, ToNotify) M == Due(n, u, ToMail) s == spread[n] + 1
<1>1. /\ inbox[n][u] \in Nat /\ mailed[n][u] \in Nat /\ spread[n] \in Nat
      /\ N \subseteq 1 .. MaxFanouts /\ M \subseteq 1 .. MaxFanouts
  BY CountTypes
<1>2. \/ spread'[n] = spread[n]
         /\ \A k \in 1 .. MaxFanouts : fanout'[<<n, k>>] = fanout[<<n, k>>]
      \/ /\ spread'[n] = spread[n] + 1 /\ s \in 1 .. MaxFanouts
         /\ \A k \in (1 .. MaxFanouts) \ {s} : fanout'[<<n, k>>] = fanout[<<n, k>>]
  <2>1. spread' \in [Notices -> 0 .. MaxFanouts]
    BY Published
  <2>2. \/ spread'[n] = spread[n]
           /\ \A k \in 1 .. MaxFanouts : fanout'[<<n, k>>] = fanout[<<n, k>>]
        \/ /\ spread'[n] = spread[n] + 1
           /\ \A k \in (1 .. MaxFanouts) \ {s} : fanout'[<<n, k>>] = fanout[<<n, k>>]
    BY Published
  <2>3. spread'[n] = spread[n] + 1 => s \in 1 .. MaxFanouts
    BY <1>1, <2>1, Bounds
  <2> QED
    BY <2>2, <2>3
<1>3. CASE spread'[n] = spread[n] /\ \A k \in 1 .. MaxFanouts : fanout'[<<n, k>>] = fanout[<<n, k>>]
  BY <1>3, CountUntouched
<1>4. CASE /\ spread'[n] = spread[n] + 1 /\ s \in 1 .. MaxFanouts
           /\ \A k \in (1 .. MaxFanouts) \ {s} : fanout'[<<n, k>>] = fanout[<<n, k>>]
  <2>1. N' \subseteq N \cup {s} /\ M' \subseteq M \cup {s}
    BY <1>4 DEF Due
  <2>2. N' \subseteq 1 .. MaxFanouts /\ M' \subseteq 1 .. MaxFanouts
    BY DEF Due
  <2>3. inbox[n][u] + Cardinality(N) <= spread[n] /\ mailed[n][u] + Cardinality(M) <= spread[n]
    BY DEF CountOf
  <2> HIDE DEF N, M, s
  <2>4. Cardinality(N') <= Cardinality(N) + 1 /\ Cardinality(M') <= Cardinality(M) + 1
    BY <1>1, <1>4, <2>1, CardMore
  <2>5. /\ Cardinality(N') \in Nat /\ Cardinality(N) \in Nat
        /\ Cardinality(M') \in Nat /\ Cardinality(M) \in Nat
    BY <1>1, <2>2, CardSub
  <2>6. /\ inbox'[n][u] + Cardinality(N') <= spread'[n]
        /\ mailed'[n][u] + Cardinality(M') <= spread'[n]
    BY <1>1, <1>4, <2>3, <2>4, <2>5
  <2> QED
    BY <2>6 DEF CountOf, N, M
<1> QED
  BY <1>2, <1>3, <1>4

LEMMA UpdateCount ==
  ASSUME NoticeTypeOK, NEW a \in Admins, UpdateAnnouncement(a),
         NEW n \in Notices, NEW u \in People, CountOf(n, u)
  PROVE  CountOf(n, u)'
<1> DEFINE e == edit[a]
           told == [m \in {x \in {e.id} : BecomesLive(e.was, e.row)} |-> e.row]
           mails == [m \in {e.id} |-> e.mail]
<1>1. /\ e.step = "update" /\ PublishAnnouncements(a, told, mails) /\ UNCHANGED <<inbox, mailed>>
  BY DEF UpdateAnnouncement
<1>2. e.id \in Notices /\ e.row \in NoticeRow /\ e.mail \in BOOLEAN
  BY <1>1, HeldEdit
<1>3. \A m \in DOMAIN told : m \in Notices /\ told[m] \in NoticeRow /\ mails[m] \in BOOLEAN
  BY <1>2
<1> HIDE DEF told, mails
<1> QED
  BY <1>1, <1>3, PublishedCount

LEMMA CreateCount ==
  ASSUME NoticeTypeOK, NEW a \in Admins, NEW k \in Nat, NEW inputs, Creates(a, k, inputs),
         NEW n \in Notices, NEW u \in People, CountOf(n, u)
  PROVE  CountOf(n, u)'
<1>1. PICK published, mails :
        /\ DOMAIN published = lastId + 1 .. lastId + k
        /\ \A m \in DOMAIN published : published[m] = posted'[m] /\ mails[m] \in BOOLEAN
        /\ PublishAnnouncements(a, published, mails)
  BY Created
<1>2. /\ \A m \in lastId + 1 .. lastId + k : posted'[m] \in NoticeRow
      /\ UNCHANGED <<inbox, mailed>> /\ lastId' = lastId + k /\ lastId' \in 0 .. MaxNotices
  BY Created
<1>3. lastId \in Nat
  BY Bounds DEF NoticeTypeOK
<1>4. \A m \in lastId + 1 .. lastId + k : m \in Notices
  BY <1>2, <1>3, Bounds DEF Notices
<1>5. \A m \in DOMAIN published : m \in Notices /\ published[m] \in NoticeRow /\ mails[m] \in BOOLEAN
  BY <1>1, <1>2, <1>4
<1> QED
  BY <1>1, <1>2, <1>5, PublishedCount

\* A step of a fan-out: what it writes to a user it is then no longer to write.
LEMMA FanoutCount ==
  ASSUME NoticeTypeOK, NEW f \in Fanouts, FanoutSteps(f) \/ FanoutFails(f),
         NEW n \in Notices, NEW u \in People, CountOf(n, u)
  PROVE  CountOf(n, u)'
<1> DEFINE N == Due(n, u, ToNotify) M == Due(n, u, ToMail)
<1>1. /\ inbox[n][u] \in Nat /\ mailed[n][u] \in Nat /\ spread[n] \in Nat
      /\ N \subseteq 1 .. MaxFanouts /\ M \subseteq 1 .. MaxFanouts
      /\ Cardinality(N) \in Nat /\ Cardinality(M) \in Nat
  BY CountTypes
<1>2. /\ UNCHANGED spread /\ f = <<f[1], f[2]>> /\ f[1] \in Notices /\ f[2] \in 1 .. MaxFanouts
  BY FanoutStepTypes DEF Fanouts
<1>3. \A k \in 1 .. MaxFanouts : <<n, k>> \in Fanouts /\ (<<n, k>> = f => n = f[1] /\ k = f[2])
  BY DEF Fanouts
<1>4. N' \subseteq 1 .. MaxFanouts /\ M' \subseteq 1 .. MaxFanouts
  BY DEF Due
<1>5. Cardinality(N') \in Nat /\ Cardinality(M') \in Nat
  BY <1>4, CardSub
<1>6. inbox[n][u] + Cardinality(N) <= spread[n] /\ mailed[n][u] + Cardinality(M) <= spread[n]
  BY DEF CountOf
<1>7. CASE ResolveAudience(f)
  <2>1. PICK g \in FanoutState : g.step # "resolve" /\ fanout' = [fanout EXCEPT ![f] = g]
    BY <1>7, Resolved
  <2>2. fanout[f].step = "resolve" /\ UNCHANGED <<inbox, mailed>>
    BY <1>7, Resolved
  <2>3. \A k \in 1 .. MaxFanouts :
          fanout'[<<n, k>>] = fanout[<<n, k>>] \/ fanout[<<n, k>>].step = "resolve"
    BY <1>3, <2>1, <2>2 DEF NoticeTypeOK
  <2>4. N' \subseteq N /\ M' \subseteq M
    BY <2>3 DEF Due, ToNotify, ToMail
  <2> QED
    BY <1>2, <2>2, <2>4, CountStays
<1>8. CASE SendAnnouncementEmails(f)
  <2>1. /\ fanout[f].step = "mail" /\ UNCHANGED inbox
        /\ fanout' = [fanout EXCEPT ![f] = [step |-> "insert", left |-> fanout[f].left]]
    BY <1>8, Mailed
  <2>2. PICK sent \in SUBSET fanout[f].left :
          mailed' = [mailed EXCEPT ![f[1]] =
            [v \in People |-> IF v \in sent THEN mailed[f[1]][v] + 1 ELSE mailed[f[1]][v]]]
    BY <1>8, Mailed
  <2> DEFINE g(k) == fanout[<<n, k>>]
  <2>3. \A k \in 1 .. MaxFanouts :
          \/ <<n, k>> # f /\ g(k)' = g(k)
          \/ <<n, k>> = f /\ g(k).step = "mail" /\ g(k)'.step = "insert" /\ g(k)'.left = g(k).left
    <3> TAKE k \in 1 .. MaxFanouts
    <3>1. CASE <<n, k>> # f
      BY <1>3, <2>1, <3>1 DEF NoticeTypeOK
    <3>2. CASE <<n, k>> = f
      <4> DEFINE r == [step |-> "insert", left |-> fanout[f].left]
      <4>1. fanout'[f] = r
        BY <2>1 DEF NoticeTypeOK
      <4>2. r.step = "insert" /\ r.left = fanout[f].left
        OBVIOUS
      <4> HIDE DEF r
      <4>3. /\ fanout[f].step = "mail" /\ fanout'[f].step = "insert"
            /\ fanout'[f].left = fanout[f].left
        BY <2>1, <4>1, <4>2
      <4>4. g(k) = fanout[f] /\ g(k)' = fanout'[f]
        BY <3>2
      <4> HIDE DEF g
      <4> QED
        BY <3>2, <4>3, <4>4
    <3> QED
      BY <3>1, <3>2
  <2>4. /\ N = {k \in 1 .. MaxFanouts : g(k).step \in ToNotify /\ (g(k).step # "resolve" => u \in g(k).left)}
         /\ M = {k \in 1 .. MaxFanouts : g(k).step \in ToMail /\ (g(k).step # "resolve" => u \in g(k).left)}
    BY DEF Due
  <2>5. /\ N' = {k \in 1 .. MaxFanouts : g(k)'.step \in ToNotify /\ (g(k)'.step # "resolve" => u \in g(k)'.left)}
         /\ M' = {k \in 1 .. MaxFanouts : g(k)'.step \in ToMail /\ (g(k)'.step # "resolve" => u \in g(k)'.left)}
    BY DEF Due
  <2> HIDE DEF g, N, M
  <2>6. N' \subseteq N /\ M' \subseteq M /\ \A k \in 1 .. MaxFanouts : <<n, k>> = f => k \notin M'
    BY <2>3, <2>4, <2>5 DEF ToNotify, ToMail
  <2> USE DEF N, M
  <2>7. CASE n = f[1] /\ u \in sent
    <3>1. <<n, f[2]>> = f
      BY <1>2, <2>7
    <3>2. f[2] \in M
      BY <1>2, <2>1, <2>7, <3>1 DEF Due, ToMail
    <3>3. f[2] \notin M'
      BY <2>6, <1>2, <3>1
    <3>4. mailed'[n][u] = mailed[n][u] + 1
      BY <2>2, <2>7 DEF NoticeTypeOK
    <3> HIDE DEF N, M
    <3>5. Cardinality(M') + 1 <= Cardinality(M)
      BY <1>1, <2>6, <3>2, <3>3, CardLess
    <3>6. Cardinality(N') <= Cardinality(N)
      BY <1>1, <2>6, CardSub
    <3>7. /\ inbox'[n][u] + Cardinality(N') <= spread'[n]
          /\ mailed'[n][u] + Cardinality(M') <= spread'[n]
      BY <1>1, <1>2, <1>5, <1>6, <2>1, <3>4, <3>5, <3>6
    <3> QED
      BY <3>7 DEF CountOf, N, M
  <2>8. CASE ~(n = f[1] /\ u \in sent)
    <3>1. mailed'[n][u] = mailed[n][u]
      BY <2>2, <2>8 DEF NoticeTypeOK
    <3> QED
      BY <1>2, <2>1, <2>6, <3>1, CountStays
  <2> QED
    BY <2>7, <2>8
<1>9. CASE InsertChunk(f)
  <2>1. fanout[f].step = "insert" /\ UNCHANGED mailed
    BY <1>9, Inserted
  <2>2. PICK told \in SUBSET fanout[f].left :
          /\ inbox' = [inbox EXCEPT ![f[1]] =
               [v \in People |-> IF v \in told THEN inbox[f[1]][v] + 1 ELSE inbox[f[1]][v]]]
          /\ \E g \in FanoutState :
               /\ fanout' = [fanout EXCEPT ![f] = g]
               /\ g = Still \/ (g.step = "insert" /\ g.left = fanout[f].left \ told)
    BY <1>9, Inserted
  <2>3. PICK g \in FanoutState :
          /\ fanout' = [fanout EXCEPT ![f] = g]
          /\ g = Still \/ (g.step = "insert" /\ g.left = fanout[f].left \ told)
    BY <2>2
  <2>4. \A k \in 1 .. MaxFanouts :
          \/ <<n, k>> # f /\ fanout'[<<n, k>>] = fanout[<<n, k>>]
          \/ <<n, k>> = f /\ fanout[<<n, k>>].step = "insert" /\ fanout'[<<n, k>>] = g
    BY <1>3, <2>1, <2>3 DEF NoticeTypeOK
  <2>5. ASSUME NEW k \in 1 .. MaxFanouts, <<n, k>> = f
        PROVE  (k \in N' => k \in N /\ u \notin told) /\ k \notin M'
    BY <2>1, <2>3, <2>4, <2>5 DEF Due, ToNotify, ToMail, Still
  <2>6. \A k \in 1 .. MaxFanouts : <<n, k>> # f => (k \in N' <=> k \in N) /\ (k \in M' <=> k \in M)
    BY <2>4 DEF Due
  <2>7. N' \subseteq N /\ M' \subseteq M
    <3> HIDE DEF N, M
    <3> QED
      BY <1>4, <2>5, <2>6
  <2>8. CASE n = f[1] /\ u \in told
    <3>1. <<n, f[2]>> = f
      BY <1>2, <2>8
    <3>2. f[2] \in N
      BY <1>2, <2>1, <2>8, <3>1 DEF Due, ToNotify
    <3>4. inbox'[n][u] = inbox[n][u] + 1
      BY <2>2, <2>8 DEF NoticeTypeOK
    <3> HIDE DEF N, M
    <3>3. f[2] \notin N'
      BY <1>2, <2>5, <2>8, <3>1
    <3>5. Cardinality(N') + 1 <= Cardinality(N)
      BY <1>1, <2>7, <3>2, <3>3, CardLess
    <3>6. Cardinality(M') <= Cardinality(M)
      BY <1>1, <2>7, CardSub
    <3>7. /\ inbox'[n][u] + Cardinality(N') <= spread'[n]
          /\ mailed'[n][u] + Cardinality(M') <= spread'[n]
      BY <1>1, <1>2, <1>5, <1>6, <2>1, <3>4, <3>5, <3>6
    <3> QED
      BY <3>7 DEF CountOf, N, M
  <2>9. CASE ~(n = f[1] /\ u \in told)
    <3>1. inbox'[n][u] = inbox[n][u]
      BY <2>2, <2>9 DEF NoticeTypeOK
    <3> QED
      BY <1>2, <2>1, <2>7, <3>1, CountStays
  <2> QED
    BY <2>8, <2>9
<1>10. CASE FanoutFails(f)
  <2>1. /\ fanout[f].step \in {"resolve", "insert"} /\ UNCHANGED <<inbox, mailed>>
        /\ fanout' = [fanout EXCEPT ![f] = Still]
    BY <1>10 DEF FanoutFails
  <2>2. \A k \in 1 .. MaxFanouts :
          fanout'[<<n, k>>] = fanout[<<n, k>>] \/ fanout'[<<n, k>>] = Still
    BY <1>3, <2>1 DEF NoticeTypeOK
  <2>3. N' \subseteq N /\ M' \subseteq M
    BY <2>2 DEF Due, ToNotify, ToMail, Still
  <2> QED
    BY <1>2, <2>1, <2>3, CountStays
<1> QED
  BY <1>7, <1>8, <1>9, <1>10 DEF FanoutSteps

LEMMA CountKept ==
  ASSUME NoticeTypeOK, NoticeStep, NEW n \in Notices, NEW u \in People, CountOf(n, u)
  PROVE  CountOf(n, u)'
<1>1. ASSUME UNCHANGED <<inbox, mailed, fanout, spread>> PROVE CountOf(n, u)'
  BY <1>1, CountUntouched
<1>2. ASSUME NEW a \in Admins, AdminAsks(a) \/ AdminSteps(a) PROVE CountOf(n, u)'
  <2>1. CASE CreateAnnouncementHandler(a) \/ CreateAnnouncementsBatchHandler(a)
    BY <2>1, CreateHandled, CreateCount
  <2>2. CASE UpdateAnnouncementHandler(a) \/ FindToUpdate(a) \/ SetAnnouncementStatusHandler(a)
    <3>1. UNCHANGED <<outbox, histories>>
      BY <2>2, ReadTypes
    <3> QED
      BY <1>1, <3>1 DEF outbox, histories
  <2>3. CASE UpdateAnnouncement(a)
    BY <2>3, UpdateCount
  <2>4. CASE SetAnnouncementStatus(a) \/ DeleteAnnouncementHandler(a)
    BY <1>1, <2>4 DEF SetAnnouncementStatus, DeleteAnnouncementHandler, outbox, histories
  <2> QED
    BY <1>2, <2>1, <2>2, <2>3, <2>4 DEF AdminAsks, AdminSteps
<1>3. CASE ServerStops
  <2>1. /\ UNCHANGED <<inbox, mailed, spread>>
        /\ \A k \in 1 .. MaxFanouts : fanout'[<<n, k>>] = Still
    BY <1>3 DEF ServerStops, Fanouts
  <2>2. /\ Due(n, u, ToNotify)' \subseteq Due(n, u, ToNotify)
        /\ Due(n, u, ToMail)' \subseteq Due(n, u, ToMail)
    BY <2>1 DEF Due, ToNotify, ToMail, Still
  <2> QED
    BY <2>1, <2>2, CountStays
<1>4. CASE HourPasses
  BY <1>1, <1>4 DEF HourPasses, outbox, histories
<1>5. ASSUME NEW v \in Readers, ReaderAsks(v) \/ InsertMark(v) PROVE CountOf(n, u)'
  <2>1. UNCHANGED <<outbox, histories>>
    BY <1>5, ReaderTypes
  <2> QED
    BY <1>1, <2>1 DEF outbox, histories
<1> QED
  BY <1>2, <1>3, <1>4, <1>5, FanoutCount DEF NoticeStep
-----------------------------------------------------------------------------
(* Who was addressed.                                                       *)

\* A fan-out owes at a step what it is to write.
Owes(g, u) ==
  \/ g.step = "resolve" /\ u \in AudienceUserIDs(g.audience) \ {g.actor}
  \/ g.step \in {"mail", "insert"} /\ u \in g.left

LEMMA OwedBy ==
  ASSUME NEW n, NEW u
  PROVE  Owed(n, u) <=> \E k \in 1 .. MaxFanouts : Owes(fanout[<<n, k>>], u)
BY DEF Owed, Owes

\* A step that takes no fan-out of the announcement from its users.
LEMMA StaysRemembered ==
  ASSUME NEW n, NEW u, Remembered(n, u),
         addressed'[n] = addressed[n], inbox[n][u] > 0 => inbox'[n][u] > 0, cut \subseteq cut',
         \A k \in 1 .. MaxFanouts : Owes(fanout[<<n, k>>], u) =>
           Owes(fanout'[<<n, k>>], u) \/ inbox'[n][u] > 0 \/ n \in cut'
  PROVE  Remembered(n, u)'
BY DEF Remembered, Owed, Owes

\* Publishing addresses the users that the new fan-out is to tell.
LEMMA PublishedRemembers ==
  ASSUME NoticeTypeOK, NEW a \in Admins, NEW published, NEW mails,
         PublishAnnouncements(a, published, mails), UNCHANGED <<inbox, cut>>,
         NEW n \in Notices, NEW u \in People, Remembered(n, u)
  PROVE  Remembered(n, u)'
<1> DEFINE begun == {m \in DOMAIN published : ToTell(published[m])}
           to == AudienceUserIDs(published[n].audience) \ {Writer[a]}
           g == [step |-> "resolve", actor |-> Writer[a],
                 audience |-> published[n].audience, mail |-> mails[n]]
<1>1. spread[n] \in Nat /\ MaxFanouts \in Nat
  BY Counters, Bounds
<1>2. CASE n \notin begun
  <2>1. addressed'[n] = addressed[n] /\ \A k \in 1 .. MaxFanouts : fanout'[<<n, k>>] = fanout[<<n, k>>]
    BY <1>2 DEF PublishAnnouncements, Fanouts
  <2> QED
    BY <2>1, StaysRemembered
<1>3. CASE n \in begun
  <2>1. /\ spread[n] < MaxFanouts /\ addressed'[n] = addressed[n] \cup to
        /\ \A k \in 1 .. MaxFanouts :
             fanout'[<<n, k>>] = IF k = spread[n] + 1 THEN g ELSE fanout[<<n, k>>]
    BY <1>3 DEF PublishAnnouncements, Fanouts
  <2>2. spread[n] + 1 \in 1 .. MaxFanouts
    BY <1>1, <2>1
  <2>3. \A v \in to : Owes(g, v)
    BY DEF Owes
  <2>4. \A k \in 1 .. MaxFanouts : Owes(fanout[<<n, k>>], u) => k # spread[n] + 1
    <3> SUFFICES ASSUME Owes(fanout[<<n, spread[n] + 1>>], u) PROVE FALSE
      BY <2>2
    <3>1. fanout[<<n, spread[n] + 1>>] # Still /\ <<n, spread[n] + 1>> \in Fanouts
      BY <2>2 DEF Owes, Still, Fanouts
    <3>2. spread[n] + 1 <= spread[n]
      BY <3>1 DEF NoticeTypeOK
    <3> QED
      BY <1>1, <3>2
  <2> HIDE DEF to, g, begun
  <2>5. CASE u \in to
    <3>1. Owes(fanout'[<<n, spread[n] + 1>>], u)
      BY <2>1, <2>2, <2>3, <2>5
    <3> QED
      BY <2>2, <3>1 DEF Remembered, Owed, Owes
  <2>6. CASE u \notin to
    <3>1. u \in addressed'[n] => u \in addressed[n]
      BY <2>1, <2>6
    <3>2. \A k \in 1 .. MaxFanouts : Owes(fanout[<<n, k>>], u) => Owes(fanout'[<<n, k>>], u)
      BY <2>1, <2>4
    <3> QED
      BY <3>1, <3>2 DEF Remembered, Owed, Owes
  <2> QED
    BY <2>5, <2>6
<1> QED
  BY <1>2, <1>3

\* A step of a fan-out writes to a user before it strikes the user off.
LEMMA FanoutRemembers ==
  ASSUME NoticeTypeOK, NEW f \in Fanouts, FanoutSteps(f) \/ FanoutFails(f),
         NEW n \in Notices, NEW u \in People, Remembered(n, u)
  PROVE  Remembered(n, u)'
<1>1. addressed' = addressed
  BY FanoutStepTypes
<1>2. /\ f[1] \in Notices /\ f = <<f[1], f[2]>> /\ fanout \in [Fanouts -> FanoutState]
      /\ inbox \in [Notices -> [People -> Nat]]
  BY DEF NoticeTypeOK, Fanouts
<1>3. ASSUME NEW g, fanout' = [fanout EXCEPT ![f] = g],
             Owes(fanout[f], u) => Owes(g, u) \/ inbox'[f[1]][u] > 0 \/ f[1] \in cut',
             inbox[n][u] > 0 => inbox'[n][u] > 0, cut \subseteq cut'
      PROVE  Remembered(n, u)'
  <2>1. ASSUME NEW k \in 1 .. MaxFanouts, Owes(fanout[<<n, k>>], u)
        PROVE  Owes(fanout'[<<n, k>>], u) \/ inbox'[n][u] > 0 \/ n \in cut'
    <3>1. CASE <<n, k>> = f
      <4>1. n = f[1] /\ fanout'[f] = g
        BY <1>2, <1>3, <3>1
      <4> QED
        BY <1>3, <2>1, <3>1, <4>1
    <3>2. CASE <<n, k>> # f
      <4>1. fanout'[<<n, k>>] = fanout[<<n, k>>]
        BY <1>2, <1>3, <3>2 DEF Fanouts
      <4> QED
        BY <2>1, <4>1
    <3> QED
      BY <3>1, <3>2
  <2> QED
    BY <1>1, <1>3, <2>1, StaysRemembered
<1>4. CASE ResolveAudience(f)
  <2> DEFINE to == AudienceUserIDs(fanout[f].audience) \ {fanout[f].actor}
             g == IF to = {} THEN Still
                  ELSE [step |-> IF fanout[f].mail THEN "mail" ELSE "insert", left |-> to]
  <2>1. fanout[f].step = "resolve" /\ fanout' = [fanout EXCEPT ![f] = g] /\ UNCHANGED <<inbox, cut>>
    BY <1>4 DEF ResolveAudience, histories
  <2>2. Owes(fanout[f], u) => u \in to
    BY <2>1 DEF Owes
  <2> HIDE DEF to
  <2>3. u \in to => Owes(g, u)
    BY DEF Owes
  <2> QED
    BY <1>3, <2>1, <2>2, <2>3
<1>5. CASE SendAnnouncementEmails(f)
  <2>1. /\ fanout[f].step = "mail" /\ UNCHANGED <<inbox, cut>>
        /\ fanout' = [fanout EXCEPT ![f] = [step |-> "insert", left |-> fanout[f].left]]
    BY <1>5, Mailed DEF histories
  <2>2. Owes(fanout[f], u) => Owes([step |-> "insert", left |-> fanout[f].left], u)
    BY <2>1 DEF Owes
  <2> QED
    BY <1>3, <2>1, <2>2
<1>6. CASE InsertChunk(f)
  <2>1. PICK told \in SUBSET fanout[f].left :
          /\ inbox' = [inbox EXCEPT ![f[1]] =
               [v \in People |-> IF v \in told THEN inbox[f[1]][v] + 1 ELSE inbox[f[1]][v]]]
          /\ fanout' = [fanout EXCEPT ![f] =
               IF told = fanout[f].left THEN Still
               ELSE [step |-> "insert", left |-> fanout[f].left \ told]]
    BY <1>2, <1>6 DEF InsertChunk
  <2>2. fanout[f].step = "insert" /\ UNCHANGED cut
    BY <1>6 DEF InsertChunk, histories
  <2>3. inbox'[f[1]][u] = IF u \in told THEN inbox[f[1]][u] + 1 ELSE inbox[f[1]][u]
    BY <1>2, <2>1
  <2>4. \A m \in Notices : m # f[1] => inbox'[m] = inbox[m]
    BY <1>2, <2>1
  <2>5. inbox[n][u] \in Nat /\ inbox[f[1]][u] \in Nat
    BY <1>2
  <2>6. inbox[n][u] > 0 => inbox'[n][u] > 0
    BY <2>3, <2>4, <2>5
  <2> DEFINE g == IF told = fanout[f].left THEN Still
                  ELSE [step |-> "insert", left |-> fanout[f].left \ told]
  <2>7. Owes(fanout[f], u) => u \in fanout[f].left
    BY <2>2 DEF Owes
  <2>8. u \in fanout[f].left \ told => Owes(g, u)
    BY DEF Owes
  <2>9. u \in told => inbox'[f[1]][u] > 0
    BY <2>3, <2>5
  <2>10. fanout' = [fanout EXCEPT ![f] = g]
    BY <2>1
  <2> HIDE DEF g
  <2> QED
    BY <1>3, <2>2, <2>6, <2>7, <2>8, <2>9, <2>10
<1>7. CASE FanoutFails(f)
  <2>1. fanout' = [fanout EXCEPT ![f] = Still] /\ cut' = cut \cup {f[1]} /\ UNCHANGED inbox
    BY <1>7 DEF FanoutFails
  <2> QED
    BY <1>3, <2>1
<1> QED
  BY <1>4, <1>5, <1>6, <1>7 DEF FanoutSteps

LEMMA RememberedKept ==
  ASSUME NoticeTypeOK, NoticeStep, NEW n \in Notices, NEW u \in People, Remembered(n, u)
  PROVE  Remembered(n, u)'
<1>1. ASSUME UNCHANGED <<inbox, fanout, addressed, cut>> PROVE Remembered(n, u)'
  BY <1>1, StaysRemembered
<1>2. ASSUME NEW a \in Admins, AdminAsks(a) \/ AdminSteps(a) PROVE Remembered(n, u)'
  <2>1. CASE CreateAnnouncementHandler(a) \/ CreateAnnouncementsBatchHandler(a)
    <3>1. PICK k \in Nat : \E inputs : Creates(a, k, inputs)
      BY <2>1, CreateHandled
    <3>2. UNCHANGED <<inbox, cut>> /\ \E p, m : PublishAnnouncements(a, p, m)
      BY <3>1, Created
    <3> QED
      BY <3>2, PublishedRemembers
  <2>2. CASE UpdateAnnouncementHandler(a) \/ FindToUpdate(a) \/ SetAnnouncementStatusHandler(a)
    <3>1. UNCHANGED <<outbox, histories>>
      BY <2>2, ReadTypes
    <3> QED
      BY <1>1, <3>1 DEF outbox, histories
  <2>3. CASE UpdateAnnouncement(a)
    <3>1. UNCHANGED <<inbox, cut>> /\ \E p, m : PublishAnnouncements(a, p, m)
      BY <2>3 DEF UpdateAnnouncement
    <3> QED
      BY <3>1, PublishedRemembers
  <2>4. CASE SetAnnouncementStatus(a) \/ DeleteAnnouncementHandler(a)
    BY <1>1, <2>4 DEF SetAnnouncementStatus, DeleteAnnouncementHandler, outbox, histories
  <2> QED
    BY <1>2, <2>1, <2>2, <2>3, <2>4 DEF AdminAsks, AdminSteps
<1>3. CASE ServerStops
  <2>1. UNCHANGED <<inbox, addressed>> /\ cut \subseteq cut'
    BY <1>3 DEF ServerStops
  <2>2. ASSUME NEW k \in 1 .. MaxFanouts, Owes(fanout[<<n, k>>], u) PROVE n \in cut'
    <3>1. <<n, k>> \in {g \in Fanouts : fanout[g] # Still}
      BY <2>2 DEF Owes, Still, Fanouts
    <3> QED
      BY <1>3, <3>1 DEF ServerStops
  <2> QED
    BY <2>1, <2>2, StaysRemembered
<1>4. CASE HourPasses
  BY <1>1, <1>4 DEF HourPasses, outbox, histories
<1>5. ASSUME NEW v \in Readers, ReaderAsks(v) \/ InsertMark(v) PROVE Remembered(n, u)'
  <2>1. UNCHANGED <<outbox, histories>>
    BY <1>5, ReaderTypes
  <2> QED
    BY <1>1, <2>1 DEF outbox, histories
<1> QED
  BY <1>2, <1>3, <1>4, <1>5, FanoutRemembers DEF NoticeStep
-----------------------------------------------------------------------------
(* The theorems.                                                            *)

LEMMA NoticesBegin ==
  ASSUME NoticeInit
  PROVE  NoticeInv
<1>1. /\ now = 0 /\ posted = << >> /\ lastId = 0 /\ acked = {} /\ dismissed = {} /\ cut = {}
      /\ inbox = [n \in Notices |-> [u \in People |-> 0]] /\ mailed = inbox
      /\ edit = [a \in Admins |-> Still] /\ click = [v \in Readers |-> Still]
      /\ fanout = [f \in Fanouts |-> Still]
      /\ spread = [n \in Notices |-> 0] /\ withdrawn = spread
      /\ addressed = [n \in Notices |-> {}]
  BY DEF NoticeInit
<1>2. DOMAIN posted = {} /\ \A a \in Admins : edit[a] = Still
  BY <1>1
<1>3. NoticeTypeOK
  <2>1. 0 \in 0 .. LastHour /\ 0 \in 0 .. MaxNotices /\ 0 \in 0 .. MaxFanouts
    BY Bounds
  <2>2. Still \in EditState /\ Still \in FanoutState
    BY DEF EditState, FanoutState
  <2> QED
    BY <1>1, <1>2, <2>1, <2>2 DEF NoticeTypeOK
<1>4. Meetings
  BY <1>2 DEF Meetings, Still, Edits
<1>5. StatusInv
  BY <1>2 DEF StatusInv, ListsFit, Promised, Still
<1>6. SpreadInv
  BY <1>1, <1>2 DEF SpreadInv, Still, Edits
<1>7. CountInv
  <2> SUFFICES ASSUME NEW n \in Notices, NEW u \in People PROVE CountOf(n, u)
    BY DEF CountInv, CountOf
  <2>1. Due(n, u, ToNotify) = {} /\ Due(n, u, ToMail) = {}
    BY <1>1 DEF Due, ToNotify, ToMail, Still, Fanouts
  <2> QED
    BY <1>1, <2>1, FS_EmptySet DEF CountOf
<1>8. RememberedInv
  BY <1>1 DEF RememberedInv, Remembered
<1> QED
  BY <1>3, <1>4, <1>5, <1>6, <1>7, <1>8 DEF NoticeInv

LEMMA NoticesGoOn ==
  ASSUME NoticeInv, [NoticeNext]_noticeVars
  PROVE  NoticeInv'
<1>1. CASE NoticeNext
  <2>1. NoticeStep /\ Remembers
    BY <1>1 DEF NoticeNext
  <2>2. NoticeTypeOK' /\ Meetings' /\ StatusInv'
    BY <2>1, TypesKept, MeetingsAreKnown, StatusKept DEF NoticeInv
  <2>3. \A n \in Notices \ editedTwice : SpreadOf(n)
    BY DEF NoticeInv, SpreadInv, SpreadOf
  <2>4. \A n \in Notices \ editedTwice' : SpreadOf(n)'
    BY <2>1, <2>3, SpreadKept, HistoriesGrow DEF NoticeInv
  <2>5. SpreadInv'
    BY <2>4 DEF SpreadInv, SpreadOf
  <2>6. \A n \in Notices, u \in People : CountOf(n, u)
    BY DEF NoticeInv, CountInv, CountOf
  <2>7. \A n \in Notices, u \in People : CountOf(n, u)'
    BY <2>1, <2>6, CountKept DEF NoticeInv
  <2>8. CountInv'
    BY <2>7 DEF CountInv, CountOf
  <2>9. RememberedInv'
    BY <2>1, RememberedKept DEF NoticeInv, RememberedInv
  <2> QED
    BY <2>2, <2>5, <2>8, <2>9 DEF NoticeInv
<1>2. CASE UNCHANGED noticeVars
  <2>1. UNCHANGED noticeVars
    BY <1>2
  <2>2. NoticeTypeOK'
    BY <2>1 DEF NoticeInv, NoticeTypeOK, noticeVars
  <2>3. Meetings' /\ SpreadInv'
    BY <2>1 DEF NoticeInv, noticeVars, Meetings, SpreadInv
  <2>4. StatusInv'
    BY <2>1 DEF NoticeInv, noticeVars, StatusInv, ListsFit, Promised, Listed
  <2>5. CountInv'
    BY <2>1 DEF NoticeInv, noticeVars, CountInv, Due
  <2>6. RememberedInv'
    BY <2>1 DEF NoticeInv, noticeVars, RememberedInv, Remembered, Owed
  <2> QED
    BY <2>2, <2>3, <2>4, <2>5, <2>6 DEF NoticeInv
<1> QED
  BY <1>1, <1>2

LEMMA NoticesKeep == NoticeSpec => []NoticeInv
BY NoticesBegin, NoticesGoOn, PTL DEF NoticeSpec

\* Everything an announcement's tables, requests and fan-outs hold stays of its shape:
\* ids come from the sequence, users written to are users there are.
THEOREM NoticeTypes == NoticeSpec => []NoticeTypeOK
<1>1. NoticeInv => NoticeTypeOK
  BY DEF NoticeInv
<1> QED
  BY <1>1, NoticesKeep, PTL

\* However many administrators, edits, chunks, failures and stops there are, whoever an
\* announcement was published to is told of it or still to be told, unless a failure or
\* a stop ended a fan-out (RememberedInv); and nobody is told twice unless it was taken
\* down in between or two edits of it met: a fan-out is begun only by an edit that found
\* it down (SpreadInv), and each writes to a user once (CountInv).
THEOREM ToldOnce == NoticeSpec => []ToldOnceEach
<1>1. NoticeInv => ToldOnceEach
  <2> SUFFICES ASSUME NoticeInv, NEW n \in Notices, NEW u \in People
               PROVE  /\ Remembered(n, u)
                      /\ n \notin editedTwice =>
                           inbox[n][u] <= 1 + withdrawn[n] /\ mailed[n][u] <= 1 + withdrawn[n]
    BY DEF ToldOnceEach, Remembered
  <2>1. Remembered(n, u) /\ CountOf(n, u) /\ (n \notin editedTwice => SpreadOf(n))
    BY DEF NoticeInv, SpreadInv, SpreadOf, CountInv, CountOf, RememberedInv
  <2>2. /\ inbox[n][u] \in Nat /\ mailed[n][u] \in Nat /\ spread[n] \in Nat /\ withdrawn[n] \in Nat
        /\ Cardinality(Due(n, u, ToNotify)) \in Nat /\ Cardinality(Due(n, u, ToMail)) \in Nat
    BY CountTypes, Counters DEF NoticeInv
  <2> QED
    BY <2>1, <2>2 DEF SpreadOf, CountOf
<1> QED
  BY <1>1, NoticesKeep, PTL

\* What is listed as published, or as scheduled and begun, is on the pages of everybody
\* it addresses and, its roles being stored as the pages look for them, of everybody the
\* administrators wait for, until it ends, whatever was dismissed before it demanded to
\* be acknowledged; whoever is shown it is counted; and is_active says the same as the
\* status, unless for the start a change of status met an edit of.
THEOREM LiveAreSeen == NoticeSpec => []LiveIsShown
<1>1. NoticeInv => LiveIsShown
  <2> SUFFICES ASSUME NoticeInv, NEW n \in DOMAIN posted, NEW v \in Readers
               PROVE  /\ posted[n].active <=> AnnouncementStatusIsLive(posted[n].status)
                      /\ /\ \/ posted[n].status = "published" /\ n \notin overtaken
                            \/ /\ posted[n].status \in {"published", "scheduled"}
                               /\ posted[n].starts <= now
                         /\ now < posted[n].ends
                         /\ \/ posted[n].audience \cap {"all", Role(v)} # {}
                            \/ v \in GetAnnouncementStats(n).pending /\ AsMatched(posted[n].audience)
                         => \/ n \in ActiveAnnouncementsFor(v)
                            \/ <<n, v>> \in dismissed /\ posted[n].dismissible /\ ~posted[n].requires
                      /\ n \in ActiveAnnouncementsFor(v) /\ v \in People
                         => v \in GetAnnouncementStats(n).pending
                                  \cup GetAnnouncementStats(n).acknowledged
    BY DEF LiveIsShown
  <2>1. posted[n].active <=> AnnouncementStatusIsLive(posted[n].status)
    BY DEF NoticeInv, StatusInv, ListsFit
  <2>2. ASSUME \/ posted[n].status = "published" /\ n \notin overtaken
               \/ /\ posted[n].status \in {"published", "scheduled"}
                  /\ posted[n].starts <= now,
               now < posted[n].ends,
               \/ posted[n].audience \cap {"all", Role(v)} # {}
               \/ v \in GetAnnouncementStats(n).pending /\ AsMatched(posted[n].audience)
        PROVE  \/ n \in ActiveAnnouncementsFor(v)
               \/ <<n, v>> \in dismissed /\ posted[n].dismissible /\ ~posted[n].requires
    <3>1. AnnouncementStatusIsLive(posted[n].status) /\ posted[n].starts <= now
      BY <2>2 DEF NoticeInv, StatusInv, ListsFit, AnnouncementStatusIsLive
    <3>2. v \in GetAnnouncementStats(n).pending /\ AsMatched(posted[n].audience)
          => posted[n].audience \cap {"all", Role(v)} # {}
      BY DEF GetAnnouncementStats, UsersOf, AsMatched, Role
    <3>3. posted[n].active
      BY <2>1, <3>1, PostedType DEF NoticeInv
    <3>4. posted[n].ends > now
      <4>1. posted[n] \in NoticeRow
        BY PostedType DEF NoticeInv
      <4>2. now \in Int /\ posted[n].ends \in Int
        BY <4>1, Bounds DEF NoticeInv, NoticeTypeOK, NoticeRow, Never
      <4> QED
        BY <2>2, <4>2
    <3> QED
      BY <2>2, <3>1, <3>2, <3>3, <3>4 DEF ActiveAnnouncementsFor, MayBeDismissed
  <2>3. ASSUME n \in ActiveAnnouncementsFor(v), v \in People
        PROVE  v \in GetAnnouncementStats(n).pending \cup GetAnnouncementStats(n).acknowledged
    <3> DEFINE audience == posted[n].audience
               to == UsersOf(decodeAnnouncementAudience(audience))
    <3>1. audience \cap {"all", RoleOf[v]} # {}
      BY <2>3 DEF ActiveAnnouncementsFor, Role
    <3>2. \A role \in {"all", RoleOf[v]} : role \in audience => role \in Normal(audience)
      BY <2>3, SpellingAssumption DEF Normal
    <3>3. Normal(audience) \cap {"all", RoleOf[v]} # {}
      BY <3>1, <3>2
    <3>4. v \in to
      BY <2>3, <3>3 DEF decodeAnnouncementAudience, UsersOf
    <3>5. /\ GetAnnouncementStats(n).pending = to \ MarkedBy(acked, n)
          /\ GetAnnouncementStats(n).acknowledged = to \cap MarkedBy(acked, n)
      BY DEF GetAnnouncementStats
    <3> HIDE DEF to
    <3> QED
      BY <3>4, <3>5
  <2> QED
    BY <2>1, <2>2, <2>3
<1> QED
  BY <1>1, NoticesKeep, PTL
=============================================================================
