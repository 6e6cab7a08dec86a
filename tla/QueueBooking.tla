---------------------------- MODULE QueueBooking ----------------------------
(***************************************************************************)
(* How a student gets from the PIN on the projector to a booking, and what *)
(* it is decided on: the PINs of the sessions, the desks of the room, the  *)
(* attendance and the grades of the student, and the desk board.           *)
(*                                                                         *)
(* Sources: handlers/queue_handler.go and repositories/queue_repo.go.      *)
(*                                                                         *)
(* A booking request reads the session, the student's rows and the desk's  *)
(* rows in statements of their own before the transaction that inserts the *)
(* booking; starting, resuming and renewing a PIN draw it in one statement *)
(* and store it in another.  Only bookings that are waiting or in progress *)
(* are kept here; workers and offers are in QueueDispatch, the rows of     *)
(* sessions and their groups in QueueSessions.                             *)
(***************************************************************************)
EXTENDS Naturals, FiniteSets

CONSTANTS
  Queues,        \* the queue sessions
  Linked,        \* the sessions with a linked assignment
  Attending,     \* the sessions that ask for attendance and link some
  Students,
  Desks,         \* of the one room the sessions share
  TeacherDesks,
  Pins,
  NoPin,
  Nobody,
  Visits,        \* booking requests in flight
  Staff          \* staff requests in flight that draw a PIN

VARIABLES
  door,      \* queue_sessions: status and PIN
  enabled,   \* the desks in use
  enrolled,  \* << session, student >>: the student is in the course
  attended,  \* ... is present or late in a linked attendance session
  graded,    \* ... has a grade for every part of the linked assignment
  board,     \* queue_desk_statuses: grading_status
  booked,    \* queue_bookings that are waiting or in progress
  latest,    \* the student whose grading was completed last at a desk
  visit,
  staff

bookingVars == << door, enabled, enrolled, attended, graded, board, booked,
                  latest, visit, staff >>

Types == {"grading", "help"}

Booking == [session: Queues, student: Students, desk: Desks, type: Types,
            status: {"waiting", "in_progress"}]

Visit == [step: {"none", "page", "student", "desk", "book"}, pin: Pins \cup {NoPin},
          session: Queues, student: Students \cup {Nobody}, desk: Desks, type: Types]

StaffRequest == [step: {"none", "draw", "store", "desks"}, session: Queues,
          for: {"start", "resume", "renew"}, pin: Pins \cup {NoPin}]

NoVisit == [step |-> "none", pin |-> NoPin, session |-> CHOOSE s \in Queues : TRUE,
            student |-> Nobody, desk |-> CHOOSE d \in Desks : TRUE, type |-> "help"]

NoRequest == [step |-> "none", session |-> CHOOSE s \in Queues : TRUE,
              for |-> "start", pin |-> NoPin]

\* Doors, boards and bookings name what there can be.
BookingTypeOK ==
  /\ door \in [Queues -> [status: {"draft", "active", "paused", "closed"},
                            pin: Pins \cup {NoPin}]]
  /\ enabled \subseteq Desks
  /\ \A r \in {enrolled, attended, graded} : r \subseteq Queues \X Students
  /\ board \in [Queues -> [Desks -> {"absent", "not_started", "waiting",
                                       "in_progress", "completed"}]]
  /\ booked \subseteq Booking
  /\ latest \in [Queues -> [Desks -> Students \cup {Nobody}]]
  /\ visit \in [Visits -> Visit]
  /\ staff \in [Staff -> StaffRequest]

People == << enabled, enrolled, attended, graded >>
-----------------------------------------------------------------------------
(* Sessions and their PINs.                                               *)

\* loadQueueSessionByPIN, and the sessions a new PIN is compared with.
OpenWith(p) == {s \in Queues : /\ door[s].pin = p
                                 /\ door[s].status \in {"active", "paused"}}

AsksForPin(c, s, purpose) ==
  /\ staff[c].step = "none"
  /\ staff' = [staff EXCEPT ![c] = [step |-> "draw", session |-> s,
                                    for |-> purpose, pin |-> NoPin]]
  /\ UNCHANGED << door, People, board, booked, latest, visit >>

\* The /status routes open a draft and resume a paused session; a PIN can be
\* renewed at any time.
AskToOpenDoor(c, s) ==
  \/ door[s].status = "draft" /\ AsksForPin(c, s, "start")
  \/ door[s].status = "paused" /\ AsksForPin(c, s, "resume")
  \/ AsksForPin(c, s, "renew")

\* The /start and /resume routes do not look at the status.
OpenDoorDirectly(c, s) == AsksForPin(c, s, "start") \/ AsksForPin(c, s, "resume")

\* generateUniqueQueuePIN; its last resort after twenty collisions is left out.
DrawPin(c) ==
  /\ staff[c].step = "draw"
  /\ \E p \in Pins : /\ OpenWith(p) = {}
                     /\ staff' = [staff EXCEPT ![c].step = "store", ![c].pin = p]
  /\ UNCHANGED << door, People, board, booked, latest, visit >>

\* StartQueueSession, ResumeQueueSession and RegenerateQueueSessionPIN.
StorePin(c) ==
  LET k == staff[c] IN
  /\ k.step = "store"
  /\ door' = [door EXCEPT ![k.session] =
       [status |-> IF k.for = "renew" THEN @.status ELSE "active", pin |-> k.pin]]
  /\ staff' = [staff EXCEPT ![c] =
       IF k.for = "start" THEN [k EXCEPT !.step = "desks", !.pin = NoPin] ELSE NoRequest]
  /\ UNCHANGED << People, board, booked, latest, visit >>

\* ... and, after the start, a row for every desk in use that has none.
PostDesks(c) ==
  LET s == staff[c].session IN
  /\ staff[c].step = "desks"
  /\ board' = [board EXCEPT ![s] = [d \in Desks |->
       IF d \in enabled /\ @[d] = "absent" THEN "not_started" ELSE @[d]]]
  /\ staff' = [staff EXCEPT ![c] = NoRequest]
  /\ UNCHANGED << door, People, booked, latest, visit >>

DoorGoes(s, status) ==
  /\ door' = [door EXCEPT ![s].status = status]
  /\ UNCHANGED << People, board, booked, latest, visit, staff >>

PauseOrCloseDoor(s) ==
  \/ door[s].status = "active" /\ DoorGoes(s, "paused")
  \/ door[s].status \in {"active", "paused"} /\ DoorGoes(s, "closed")

\* The /pause and /close routes, which keep whatever PIN the session has.
ShutDoorDirectly(s) == DoorGoes(s, "paused") \/ DoorGoes(s, "closed")
-----------------------------------------------------------------------------
(* A booking request.                                                       *)

\* VerifyQueuePINPublicHandler: the student sees the session of the PIN.
EnterPin(v, p) ==
  /\ visit[v].step = "none"
  /\ \E s \in OpenWith(p) :
       /\ door[s].status = "active"
       /\ visit' = [visit EXCEPT ![v].step = "page", ![v].pin = p, ![v].session = s]
  /\ UNCHANGED << door, People, board, booked, latest, staff >>

\* CreateQueueBookingPublicHandler looks the session up by the PIN again.
AskToBook(v, st, d, type) ==
  /\ visit[v].step = "page"
  /\ \E s \in OpenWith(visit[v].pin) :
       /\ door[s].status = "active"
       /\ visit' = [visit EXCEPT ![v] = [step |-> "student", pin |-> @.pin,
                      session |-> s, student |-> st, desk |-> d, type |-> type]]
  /\ UNCHANGED << door, People, board, booked, latest, staff >>

\* loadActiveQueueBookingForStudent and the unique index on active bookings.
HasBooking(s, st) == \E b \in booked : b.session = s /\ b.student = st

\* isStudentFullyGradedForQueueAssignment
FullyGraded(s, st) == s \in Linked /\ << s, st >> \in graded

\* LoadQueueAttendanceIDs finds a linked attendance session.
AsksForAttendance(s) == s \in Attending

\* hasQueueAttendanceEligibility
Eligible(s, st) == AsksForAttendance(s) => << s, st >> \in attended

\* isStudentEnrolledInCourse
Enrolled(s, st) == << s, st >> \in enrolled

StudentMayBook(s, st, type) ==
  /\ Enrolled(s, st)
  /\ Eligible(s, st)
  /\ ~ HasBooking(s, st)
  /\ type = "grading" => ~ FullyGraded(s, st)

VisitGoes(v, ok, next) ==
  /\ visit' = [visit EXCEPT ![v] = IF ok THEN [@ EXCEPT !.step = next] ELSE NoVisit]
  /\ UNCHANGED << door, People, board, booked, latest, staff >>

\* validateQueueBookingCompatibility, first the student ...
CheckStudent(v) ==
  LET q == visit[v] IN
  /\ q.step = "student"
  /\ VisitGoes(v, StudentMayBook(q.session, q.student, q.type), "desk")

\* A desk whose grading was completed is kept for its student until nothing is
\* left to grade, and from then on for nobody.
KeptFor(s, d) ==
  IF latest[s][d] = Nobody \/ s \notin Linked \/ FullyGraded(s, latest[s][d])
  THEN {} ELSE {latest[s][d]}

\* Mutant of DeskMayBeBooked: what is posted for the desk is not looked at.
AnyDeskMayBeBooked(s, st, d, type) == d \in enabled \ TeacherDesks

\* Mutant of DeskMayBeBooked: a completed desk is as good as a free one.
CompletedDeskMayBeBooked(s, st, d, type) ==
  /\ d \in enabled \ TeacherDesks
  /\ type = "grading" => board[s][d] \notin {"waiting", "in_progress"}

DeskMayBeBooked(s, st, d, type) ==
  /\ d \in enabled \ TeacherDesks
  /\ type = "grading" =>
       /\ board[s][d] \notin {"waiting", "in_progress"}
       /\ board[s][d] = "completed" => st \in KeptFor(s, d)

\* ... then the desk.
CheckDesk(v) ==
  LET q == visit[v] IN
  /\ q.step = "desk"
  /\ VisitGoes(v, DeskMayBeBooked(q.session, q.student, q.desk, q.type), "book")

\* updateDeskStatus: only a desk with a row can be posted.
Posted(s, d, type, status) ==
  IF type = "grading" /\ board[s][d] # "absent"
  THEN [board EXCEPT ![s][d] = status] ELSE board

\* CreateBooking, one transaction.
Insert(s, st, d, type) ==
  /\ booked' = booked \cup {[session |-> s, student |-> st, desk |-> d,
                             type |-> type, status |-> "waiting"]}
  /\ board' = Posted(s, d, type, "waiting")

MayInsert(s, st) == door[s].status = "active" /\ ~ HasBooking(s, st)

Book(v) ==
  LET q == visit[v] IN
  /\ q.step = "book"
  /\ IF MayInsert(q.session, q.student) THEN Insert(q.session, q.student, q.desk, q.type)
     ELSE UNCHANGED << booked, board >>
  /\ visit' = [visit EXCEPT ![v] = NoVisit]
  /\ UNCHANGED << door, People, latest, staff >>

\* QueueHandler.CreateBooking, the route of the staff: nothing is checked.
StaffBooks(s, st, d, type) ==
  /\ MayInsert(s, st)
  /\ Insert(s, st, d, type)
  /\ UNCHANGED << door, People, latest, visit, staff >>
-----------------------------------------------------------------------------
(* What becomes of a booking.                                               *)

\* A worker starts with it.
Serve(b) ==
  /\ b.status = "waiting"
  /\ booked' = (booked \ {b}) \cup {[b EXCEPT !.status = "in_progress"]}
  /\ board' = Posted(b.session, b.desk, b.type, "in_progress")
  /\ UNCHANGED << door, People, latest, visit, staff >>

\* CancelBooking by the student, and no_show by the worker.
Drop(b) ==
  /\ booked' = booked \ {b}
  /\ board' = Posted(b.session, b.desk, b.type, "not_started")
  /\ UNCHANGED << door, People, latest, visit, staff >>

\* CompleteBookingWithScores, and the plain completion that gives no score: the
\* desk is locked when the last part has been graded.
Complete(b, gradesAll) ==
  LET pair == << b.session, b.student >> IN
  /\ b.status = "in_progress"
  /\ gradesAll => b.type = "grading" /\ b.session \in Linked /\ pair \notin graded
  /\ graded' = IF gradesAll THEN graded \cup {pair} ELSE graded
  /\ booked' = booked \ {b}
  /\ board' = Posted(b.session, b.desk, b.type,
                     IF gradesAll THEN "completed" ELSE "not_started")
  /\ latest' = IF b.type = "grading"
               THEN [latest EXCEPT ![b.session][b.desk] = b.student] ELSE latest
  /\ UNCHANGED << door, enabled, enrolled, attended, visit, staff >>
-----------------------------------------------------------------------------
(* What other parts of the system change.                                   *)

Toggled(set, x) == IF x \in set THEN set \ {x} ELSE set \cup {x}

Unmoved == UNCHANGED << door, board, booked, latest, visit, staff >>

\* UpdateLayout of the room switches is_enabled.
SwitchDesk(d) ==
  enabled' = Toggled(enabled, d) /\ Unmoved /\ UNCHANGED << enrolled, attended, graded >>

\* Enrolment, check-in, and grades given or taken back on the score pages.
ChangeStudent(s, st) ==
  /\ Unmoved /\ UNCHANGED enabled
  /\ \/ enrolled' = Toggled(enrolled, << s, st >>) /\ UNCHANGED << attended, graded >>
     \/ attended' = Toggled(attended, << s, st >>) /\ UNCHANGED << enrolled, graded >>
     \/ graded' = Toggled(graded, << s, st >>) /\ UNCHANGED << enrolled, attended >>
-----------------------------------------------------------------------------
BookingInit ==
  /\ door = [s \in Queues |-> [status |-> "draft", pin |-> NoPin]]
  /\ enabled = Desks
  /\ enrolled = Queues \X Students /\ attended = enrolled /\ graded = {}
  /\ board = [s \in Queues |-> [d \in Desks |-> "absent"]]
  /\ booked = {}
  /\ latest = [s \in Queues |-> [d \in Desks |-> Nobody]]
  /\ visit = [v \in Visits |-> NoVisit]
  /\ staff = [c \in Staff |-> NoRequest]

Visiting ==
  \E v \in Visits : \/ \E p \in Pins : EnterPin(v, p)
                    \/ CheckStudent(v) \/ CheckDesk(v) \/ Book(v)

Filling ==
  \E v \in Visits, st \in Students, d \in Desks, type \in Types : AskToBook(v, st, d, type)

DoorAsking == \E c \in Staff, s \in Queues : AskToOpenDoor(c, s)

DoorOpening == \E c \in Staff : DrawPin(c) \/ StorePin(c) \/ PostDesks(c)

DoorShutting == \E s \in Queues : PauseOrCloseDoor(s)

Unchecked ==
  \/ \E c \in Staff, s \in Queues : OpenDoorDirectly(c, s)
  \/ \E s \in Queues : ShutDoorDirectly(s)
  \/ \E s \in Queues, st \in Students, d \in Desks, type \in Types :
       StaffBooks(s, st, d, type)

Serving == \E b \in booked : Serve(b) \/ Drop(b) \/ \E all \in BOOLEAN : Complete(b, all)

Surroundings ==
  \/ \E d \in Desks : SwitchDesk(d)
  \/ \E s \in Queues, st \in Students : ChangeStudent(s, st)
-----------------------------------------------------------------------------
GradingAt(s, d) == {b \in booked : b.session = s /\ b.desk = d /\ b.type = "grading"}

\* Two students never wait for grading at one desk.
OneGradingPerDesk ==
  \A s \in Queues, d \in Desks : Cardinality(GradingAt(s, d)) <= 1

\* The desk of a student with nothing left to grade stays locked.
FullyGradedDeskStaysLocked ==
  \A s \in Queues, d \in Desks :
    board[s][d] = "completed" /\ FullyGraded(s, latest[s][d]) => board'[s][d] = "completed"
=============================================================================
