----------------------------- MODULE MCClassroom -----------------------------
(***************************************************************************)
(* ExamPublish, ExamSeating and QueueBooking for TLC: what goes on in a    *)
(* classroom on the day of an exam and in a lab.  They share no state that *)
(* any of their steps would write for another, so a behaviour follows one  *)
(* of them, named by its scenario, and the others stand still.  At most    *)
(* MaxStarts[scenario] requests are made, and MaxChanges changes of the    *)
(* room, the roster, attendance and grades in a scenario of QueueBooking.  *)
(* In "booking_alone" requests do not overlap.                             *)
(***************************************************************************)
EXTENDS ExamPublish, ExamSeating, QueueBooking

CONSTANTS Scenarios, MaxChanges

VARIABLES
  scenario,
  starts,    \* requests made
  changes,
  raced      \* history: something began while something else was under way

mcVars == << examVars, seatVars, bookingVars, scenario, starts, changes, raced >>

MaxStarts == [publishing |-> 3, seating |-> 3, booking |-> 2, booking_alone |-> 4]

\* Only where seats are planned are there rooms with desks to begin with.
MCInit ==
  /\ ExamInit /\ SeatingInit /\ BookingInit
  /\ scenario \in Scenarios
  /\ scenario # "publishing" => exam = [e \in Exams |-> Nil]
  /\ scenario # "seating" => \A r \in Rooms : room[r].status = "new"
  /\ starts = 0 /\ changes = 0 /\ raced = FALSE

Start == starts < MaxStarts[scenario] /\ starts' = starts + 1
-----------------------------------------------------------------------------
UnderWay == sweep.step \in {"check", "write", "mail"} \/ \E c \in Clerks : clerk[c] # Rest

Publishing ==
  \/ \E c \in Clerks : Start /\ raced' = (raced \/ UnderWay) /\ ExamRequest(c)
  \/ ListDueExams /\ raced' = (raced \/ UnderWay) /\ UNCHANGED starts
  \/ /\ (\E c \in Clerks : ExamStep(c)) \/ ExamBackground
     /\ UNCHANGED << starts, raced >>
-----------------------------------------------------------------------------
Planning ==
  \/ Start /\ (RoomRequest \/ RoomRestored \/ PlanRequest \/ Surrounding)
  \/ SeatingStep /\ UNCHANGED starts
-----------------------------------------------------------------------------
Alone == scenario = "booking_alone"

Quiet ==
  /\ \A v \in Visits : visit[v].step \in {"none", "page"}
  /\ \A c \in Staff : staff[c].step = "none"

AllShut == \A s \in Queues : door[s].status \in {"draft", "closed"}

\* Alone, staff use the checked routes and rearrange the room between sessions.
Lab ==
  \/ (DoorOpening \/ Visiting) /\ UNCHANGED << starts, changes >>
  \/ /\ Alone => Quiet
     /\ \/ /\ DoorAsking \/ Filling \/ (~ Alone /\ Unchecked)
           /\ Start /\ UNCHANGED changes
        \/ /\ Surroundings
           /\ Alone /\ enabled' # enabled => AllShut
           /\ changes < MaxChanges /\ changes' = changes + 1
           /\ UNCHANGED starts
        \/ (DoorShutting \/ Serving) /\ UNCHANGED << starts, changes >>
-----------------------------------------------------------------------------
MCNext ==
  /\ \/ /\ scenario = "publishing" /\ Publishing
        /\ UNCHANGED << seatVars, bookingVars, changes >>
     \/ /\ scenario = "seating" /\ Planning
        /\ UNCHANGED << examVars, bookingVars, changes, raced >>
     \/ /\ scenario \in {"booking", "booking_alone"} /\ Lab
        /\ UNCHANGED << examVars, seatVars, raced >>
  /\ UNCHANGED scenario

MCSpec == MCInit /\ [][MCNext]_mcVars

\* The students and the requests of the three modules are the same in classroom.cfg.
Alike == UNION {Permutations(set) : set \in {Students, Clerks, Rooms}}
-----------------------------------------------------------------------------
\* A student with a result of a published exam has been told of it since it
\* was announced, once all is quiet, if no two requests, nor a request and the
\* job, overlapped: students with a result when it is announced by the fan-out
\* of handlers/exam_publish_handler.go, the others by its notifyLateExamResult.
\* (That a mail fails or a crash ends a fan-out is left out.)
EverybodyToldSerially == ~ raced => EverybodyTold

\* While requests do not overlap, staff use the checked routes and desks are switched on
\* and off between sessions only, two students never wait for grading at one desk,
\* which only the desk board keeps apart, posted by other requests than the one that
\* reads it.
OneGradingPerDeskSerially == Alone => OneGradingPerDesk

\* ... and the desk of a student with nothing left to grade stays locked, whatever
\* is booked, cancelled, skipped or completed, in this session or in another.
GradedDeskStaysLockedSerially == [][Alone => FullyGradedDeskStaysLocked]_mcVars
=============================================================================
