----------------------------- MODULE CourseStaff -----------------------------
(***************************************************************************)
(* The courses of the school, whether each is active, and who teaches it.  *)
(*                                                                         *)
(* Sources: handlers/course_handler.go, repositories/course_repo.go and    *)
(* repositories/course_permission_repo.go.                                 *)
(*                                                                         *)
(* Courses, instructors and statuses are changed by several statements in  *)
(* no transaction: a call in flight reads in one step and writes in later  *)
(* ones from what it has read.  An administrator may make every call here, *)
(* so the rights of other callers add no behaviour; what the right to      *)
(* manage a course depends on is MayManage.                                *)
(***************************************************************************)
EXTENDS Naturals, Sequences, FiniteSets, SequencesExt, FiniteSetsExt, Functions

CONSTANTS
    Courses,   \* ids a course can be given
    Terms,     \* (code, year, semester) triples
    Users,     \* users who can teach
    Nobody,    \* instructor_id IS NULL
    NoCourse,  \* no such course
    Calls,     \* requests the server handles at the same time
    Lists,     \* instructor lists a form can send
    MaxRows    \* bound: instructor rows ever created

ASSUME CourseStaffAssumption ==
    /\ MaxRows \in Nat
    /\ Lists \subseteq Seq(Users)
    /\ Nobody \notin Users

VARIABLES
    course,    \* the courses rows, by id
    born,      \* course ids ever given out
    teaching,  \* the course_instructors rows of each course, oldest first
    nextRow,   \* next value of the instructor rows' id sequence
    call       \* what each request in flight has read and will write

staffVars == << course, born, teaching, nextRow >>

Idle == [kind |-> "idle"]

Course == [term : Terms, active : BOOLEAN, lead : Users \cup {Nobody}]
Instructor == [id : 1 .. MaxRows, user : Users, primary : BOOLEAN, manage : BOOLEAN]

\* Courses and instructor rows name people who can be in them.
StaffTypeOK ==
    /\ course \in [Courses -> Course \cup {NoCourse}]
    /\ born \subseteq Courses
    /\ \A k \in Courses : k \notin born => course[k] = NoCourse
    /\ \A k \in Courses : teaching[k] \in Seq(Instructor)
    /\ nextRow \in 1 .. MaxRows + 1

---------------------------------------------------------------------------
\* What the pages and the guards read

Free(c) == call[c] = Idle
Set(c, r) == call' = [call EXCEPT ![c] = r]
Done(c) == Set(c, Idle)

There(k) == course[k] # NoCourse
Teaches(k, u) == \E n \in DOMAIN teaching[k] : teaching[k][n].user = u
Primaries(k) == SelectSeq(teaching[k], LAMBDA r : r.primary)

\* IsActiveCourseExists: an active course of this term other than `except`.
IsActiveCourseExists(t, except) ==
    \E j \in Courses \ except : There(j) /\ course[j].active /\ course[j].term = t

\* The lead of the course's own page: primary, else the first, else instructor_id.
DetailLead(k) ==
    CASE Primaries(k) # << >> -> Head(Primaries(k)).user
      [] Primaries(k) = << >> /\ teaching[k] # << >> -> Head(teaching[k]).user
      [] OTHER -> course[k].lead

\* The lead in the lists, on a page that shows the courses `shown`: primary, else
\* instructor_id when that user teaches one of those courses, else the first.
ListLead(k, shown) ==
    CASE Primaries(k) # << >> -> Head(Primaries(k)).user
      [] Primaries(k) = << >> /\ \E j \in shown : Teaches(j, course[k].lead) -> course[k].lead
      [] Primaries(k) = << >> /\ teaching[k] # << >>
            /\ ~ \E j \in shown : Teaches(j, course[k].lead) -> Head(teaching[k]).user
      [] OTHER -> Nobody

\* The right to manage people: the row's permissions, all of them for a primary, and
\* the owner named by a course without a row for them.
MayManage(k, u) ==
    IF Teaches(k, u)
    THEN LET r == SelectSeq(teaching[k], LAMBDA x : x.user = u)[1] IN r.primary \/ r.manage
    ELSE course[k].lead = u

---------------------------------------------------------------------------
\* Creating, editing and deleting a course

\* Rows ReplaceAllCourseInstructors inserts: the first user of the list is primary.
NewRows(users) ==
    [n \in DOMAIN users |-> [id |-> nextRow + n - 1, user |-> users[n],
                             primary |-> n = 1, manage |-> TRUE]]
LeadOf(users, old) == IF users = << >> THEN old ELSE Head(users)

\* The code is looked up as it was sent and stored without its blanks: one sent with
\* blanks around it matches no stored code.
Duplicate(t, blanks, except) == ~ blanks /\ IsActiveCourseExists(t, except)

CreateCourseHandler(c) ==
    /\ Free(c)
    /\ \E t \in Terms, blanks \in BOOLEAN, users \in Lists \cup {<< >>}, k \in Courses \ born :
          /\ ~ Duplicate(t, blanks, {})
          /\ born' = born \cup {k}
          /\ Set(c, [kind |-> "create", k |-> k, users |-> users, blanks |-> blanks,
                     row |-> [term |-> t, active |-> TRUE, lead |-> LeadOf(users, Nobody)]])
    /\ UNCHANGED << course, teaching, nextRow >>

InsertCourse(c) ==
    /\ call[c].kind = "create"
    /\ course' = [course EXCEPT ![call[c].k] = call[c].row]
    /\ IF call[c].users = << >> THEN Done(c)
       ELSE Set(c, [kind |-> "replace", step |-> "clear", k |-> call[c].k,
                    users |-> call[c].users, after |-> "none"])
    /\ UNCHANGED << born, teaching, nextRow >>

\* The row as this call reads it, with what the form sent.
Patched(k, t, active, users) ==
    [term |-> t, active |-> active, lead |-> LeadOf(users, course[k].lead)]

UpdateCourseHandler(c) ==
    /\ Free(c)
    /\ \E k \in Courses, blanks \in BOOLEAN, users \in Lists \cup {<< >>} :
          /\ There(k) /\ course[k].active
          /\ \E t \in Terms, active \in BOOLEAN :
                /\ ~ Duplicate(t, blanks, {k})
                /\ Set(c, [kind |-> "replace", step |-> IF users = << >> THEN "save" ELSE "clear",
                           k |-> k, users |-> users, after |-> "save", blanks |-> blanks,
                           row |-> Patched(k, t, active, users)])
    /\ UNCHANGED staffVars

\* ReplaceAllCourseInstructors: a delete and an insert, in no transaction.
ClearInstructors(c) ==
    /\ call[c].kind = "replace" /\ call[c].step = "clear"
    /\ teaching' = [teaching EXCEPT ![call[c].k] = << >>]
    /\ Set(c, [call[c] EXCEPT !.step = "fill"])
    /\ UNCHANGED << course, born, nextRow >>

\* The handlers ignore an insert that fails.
FillInstructors(c) ==
    /\ call[c].kind = "replace" /\ call[c].step = "fill"
    /\ \/ /\ nextRow + Len(call[c].users) <= MaxRows + 1
          /\ teaching' = [teaching EXCEPT ![call[c].k] = @ \o NewRows(call[c].users)]
          /\ nextRow' = nextRow + Len(call[c].users)
       \/ UNCHANGED << teaching, nextRow >>
    /\ IF call[c].after = "none" THEN Done(c) ELSE Set(c, [call[c] EXCEPT !.step = "save"])
    /\ UNCHANGED << course, born >>

\* Save writes every column of the row, and inserts it when it is gone.
SaveCourse(c) ==
    /\ \/ call[c].kind = "replace" /\ call[c].step = "save"
       \/ call[c].kind = "toggle" /\ call[c].step = "save"
    /\ course' = [course EXCEPT ![call[c].k] = call[c].row]
    /\ Done(c)
    /\ UNCHANGED << born, teaching, nextRow >>

\* One course, or a batch of them one after the other.
DeleteCourseHandler(c) ==
    /\ Free(c)
    /\ \E ks \in SUBSET Courses \ {{}} :
          /\ \A k \in ks : There(k)
          /\ Set(c, [kind |-> "delete", step |-> "clear", ks |-> SetToSeq(ks)])
    /\ UNCHANGED staffVars

\* The rows that hang on the course are deleted before it.
DeleteMembers(c) ==
    /\ call[c].kind = "delete" /\ call[c].step = "clear"
    /\ teaching' = [teaching EXCEPT ![Head(call[c].ks)] = << >>]
    /\ Set(c, [call[c] EXCEPT !.step = "drop"])
    /\ UNCHANGED << course, born, nextRow >>

DeleteCourse(c) ==
    /\ call[c].kind = "delete" /\ call[c].step = "drop"
    /\ course' = [course EXCEPT ![Head(call[c].ks)] = NoCourse]
    /\ IF Len(call[c].ks) = 1 THEN Done(c)
       ELSE Set(c, [kind |-> "delete", step |-> "clear", ks |-> Tail(call[c].ks)])
    /\ UNCHANGED << born, teaching, nextRow >>

---------------------------------------------------------------------------
\* Activating and deactivating

MayToggle(k) ==
    There(k) /\ (course[k].active \/ ~ IsActiveCourseExists(course[k].term, {k}))

ToggleCourseStatusHandler(c) ==
    /\ Free(c)
    /\ \E k \in Courses : MayToggle(k) /\ Set(c, [kind |-> "toggle", step |-> "read", k |-> k])
    /\ UNCHANGED staffVars

\* ToggleCourseStatus reads the row again and flips what it finds.
ReadAndFlip(c) ==
    /\ call[c].kind = "toggle" /\ call[c].step = "read"
    /\ LET k == call[c].k
       IN  IF There(k)
           THEN Set(c, [kind |-> "toggle", step |-> "save", k |-> k,
                        row |-> [course[k] EXCEPT !.active = ~ @]])
           ELSE Done(c)
    /\ UNCHANGED staffVars

\* Enabling a batch: each course is compared with those active now, not with the
\* others of the batch.
Enabled(ks) ==
    {k \in ks : There(k) /\ ~ course[k].active /\ ~ IsActiveCourseExists(course[k].term, {k})}

BulkToggleCourseStatusHandler(c) ==
    /\ Free(c)
    /\ \E ks \in SUBSET Courses \ {{}}, enable \in BOOLEAN :
          Set(c, [kind |-> "bulk", enable |-> enable,
                  ks |-> IF enable THEN Enabled(ks) ELSE ks])
    /\ UNCHANGED staffVars

BulkToggleCourseStatus(c) ==
    /\ call[c].kind = "bulk"
    /\ course' = [k \in Courses |-> IF k \in call[c].ks /\ There(k)
                                    THEN [course[k] EXCEPT !.active = call[c].enable] ELSE course[k]]
    /\ Done(c)
    /\ UNCHANGED << born, teaching, nextRow >>

---------------------------------------------------------------------------
\* Instructors of an active course

Writable(k) == There(k) /\ course[k].active

\* One user, or those of a batch who do not teach the course yet (a user sent twice
\* is added twice).
AddInstructorHandler(c) ==
    /\ Free(c)
    /\ \E k \in Courses, users \in Lists :
          LET fresh == SelectSeq(users, LAMBDA u : ~ Teaches(k, u))
          IN  /\ Writable(k) /\ fresh # << >>
              /\ Set(c, [kind |-> "add", k |-> k, users |-> fresh])
    /\ UNCHANGED staffVars

AddCourseInstructors(c) ==
    /\ call[c].kind = "add"
    /\ nextRow + Len(call[c].users) <= MaxRows + 1
    /\ LET rows == NewRows(call[c].users)
       IN  teaching' = [teaching EXCEPT ![call[c].k] =
                          @ \o [n \in DOMAIN rows |-> [rows[n] EXCEPT !.primary = FALSE]]]
    /\ nextRow' = nextRow + Len(call[c].users)
    /\ Done(c)
    /\ UNCHANGED << course, born >>

\* The handler keeps the last row.
MoreThanOne(k) == Len(teaching[k]) > 1

RemoveInstructorHandler(c) ==
    /\ Free(c)
    /\ \E k \in Courses, u \in Users :
          /\ Writable(k) /\ MoreThanOne(k)
          /\ Set(c, [kind |-> "remove", step |-> "look", k |-> k, user |-> u])
    /\ UNCHANGED staffVars

\* The user's row; for a primary, the oldest row of another user takes over.
RowOf(k, u) == SelectSeq(teaching[k], LAMBDA r : r.user = u)
Others(k, u) == SelectSeq(teaching[k], LAMBDA r : r.user # u)

LookForSuccessor(c) ==
    /\ call[c].kind = "remove" /\ call[c].step = "look"
    /\ LET k == call[c].k
           u == call[c].user
       IN  IF RowOf(k, u) = << >> \/ (RowOf(k, u)[1].primary /\ Others(k, u) = << >>)
           THEN Done(c)
           ELSE IF RowOf(k, u)[1].primary
                THEN Set(c, [kind |-> "remove", step |-> "promote", k |-> k,
                             gone |-> RowOf(k, u)[1].id, next |-> Others(k, u)[1]])
                ELSE Set(c, [kind |-> "remove", step |-> "delete", k |-> k,
                             gone |-> RowOf(k, u)[1].id])
    /\ UNCHANGED staffVars

\* Mutant: the successor is not made primary.
NotPromoted(k, id) == teaching[k]

Promoted(k, id) ==
    [n \in DOMAIN teaching[k] |->
        [teaching[k][n] EXCEPT !.primary = @ \/ teaching[k][n].id = id]]

PromoteSuccessor(c) ==
    /\ call[c].kind = "remove" /\ call[c].step = "promote"
    /\ teaching' = [teaching EXCEPT ![call[c].k] = Promoted(call[c].k, call[c].next.id)]
    /\ Set(c, [call[c] EXCEPT !.step = "lead"])
    /\ UNCHANGED << course, born, nextRow >>

StoreLead(c) ==
    /\ call[c].kind = "remove" /\ call[c].step = "lead"
    /\ IF There(call[c].k)
       THEN course' = [course EXCEPT ![call[c].k].lead = call[c].next.user]
       ELSE UNCHANGED course
    /\ Set(c, [call[c] EXCEPT !.step = "delete"])
    /\ UNCHANGED << born, teaching, nextRow >>

DeleteInstructor(c) ==
    /\ call[c].kind = "remove" /\ call[c].step = "delete"
    /\ teaching' = [teaching EXCEPT ![call[c].k] = SelectSeq(@, LAMBDA r : r.id # call[c].gone)]
    /\ Done(c)
    /\ UNCHANGED << course, born, nextRow >>

\* A primary instructor's permissions cannot be edited; the row is read, then written.
UpdateInstructorPermissionsHandler(c) ==
    /\ Free(c)
    /\ \E k \in Courses, manage \in BOOLEAN, u \in Users :
          /\ Writable(k) /\ Teaches(k, u) /\ ~ RowOf(k, u)[1].primary
          /\ Set(c, [kind |-> "permit", k |-> k, id |-> RowOf(k, u)[1].id, manage |-> manage])
    /\ UNCHANGED staffVars

UpdateInstructorPermissions(c) ==
    /\ call[c].kind = "permit"
    /\ teaching' = [teaching EXCEPT ![call[c].k] =
                      [n \in DOMAIN @ |-> IF @[n].id = call[c].id
                                          THEN [@[n] EXCEPT !.manage = call[c].manage] ELSE @[n]]]
    /\ Done(c)
    /\ UNCHANGED << course, born, nextRow >>

---------------------------------------------------------------------------
StaffRequest(c) ==
    \/ CreateCourseHandler(c) \/ UpdateCourseHandler(c) \/ DeleteCourseHandler(c)
    \/ ToggleCourseStatusHandler(c) \/ BulkToggleCourseStatusHandler(c)
    \/ AddInstructorHandler(c) \/ RemoveInstructorHandler(c)
    \/ UpdateInstructorPermissionsHandler(c)

StaffFinishing(c) ==
    \/ InsertCourse(c) \/ ClearInstructors(c) \/ FillInstructors(c) \/ SaveCourse(c)
    \/ DeleteCourse(c) \/ ReadAndFlip(c) \/ BulkToggleCourseStatus(c)
    \/ AddCourseInstructors(c) \/ LookForSuccessor(c) \/ PromoteSuccessor(c) \/ StoreLead(c)
    \/ DeleteInstructor(c) \/ UpdateInstructorPermissions(c)
=============================================================================
