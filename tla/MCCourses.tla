------------------------------ MODULE MCCourses ------------------------------
(***************************************************************************)
(* CourseStaff and CourseRoster for TLC: what may be called in which       *)
(* scenario, a bound on how many requests are made, and the properties.    *)
(*   "status"   courses are created, edited, deleted, switched on and off. *)
(*   "staff"    the instructors of one course change.                      *)
(*   "roster"   students and assistants come, move, leave and return.      *)
(*   "teams"    teams are made, dealt out, edited and deleted.             *)
(*   "overview" the roster changes while the overview is read.             *)
(***************************************************************************)
EXTENDS CourseRoster

CONSTANTS Scenarios, Other, User1

MCLists == {<< User1 >>} \cup {<< u, User1 >> : u \in Users \ {User1}}
              \cup {<< u, u >> : u \in Users \ {User1}}

\* Bound: requests made in a behaviour of each scenario.
MaxStarts == [status |-> 3, staff |-> 3, roster |-> 3, teams |-> 3, overview |-> 3]

VARIABLES
    scenario, starts,
    raced,  \* history: courses and people two calls held at once
    loose   \* history: what a call changed without the usual check, or left half done

coursesVars == << vars, scenario, starts, raced, loose >>

Taught(lead) ==
    IF lead = Nobody THEN << >> ELSE << [id |-> 1, user |-> lead, primary |-> TRUE, manage |-> TRUE] >>

MCInit ==
    /\ scenario \in Scenarios /\ starts = 0 /\ raced = {} /\ loose = {}
    /\ call = [c \in Calls |-> Idle] /\ nextRow = 2
    /\ \E t \in Terms, lead \in {User1, Nobody}, other \in Course \cup {NoCourse} :
          /\ course = [k \in Courses |-> IF k = Home THEN [term |-> t, active |-> TRUE, lead |-> lead]
                                         ELSE IF k = Other THEN other ELSE NoCourse]
          /\ other # NoCourse => other.lead = Nobody /\ (other.term = t => ~ other.active)
          /\ teaching = [k \in Courses |-> IF k = Home THEN Taught(lead) ELSE << >>]
          /\ scenario # "status" => other = NoCourse
          /\ scenario \notin {"status", "staff"} => lead = User1 /\ t = CHOOSE x \in Terms : TRUE
    /\ born = {k \in Courses : course[k] # NoCourse}
    /\ sections = 1 .. 2 /\ nextSection = 3
    /\ removals = << >> /\ tas = << >> /\ nextTeam = 1 /\ teams = [t \in TeamIds |-> NoTeam]
    /\ overview = Nothing
    /\ accounts \in SUBSET People
    /\ IF scenario = "teams" THEN roster = SetToSeq({Row(p, 1) : p \in People})
       ELSE roster = << >> \/ \E p \in People, s \in sections : roster = << Row(p, s) >>
    /\ scenario \in {"status", "staff"} => roster = << >>
    /\ scenario \notin {"roster"} => accounts = People

Begins(c) ==
    /\ starts < MaxStarts[scenario] /\ starts' = starts + 1
    /\ \/ /\ scenario = "status"
          /\ \/ CreateCourseHandler(c) /\ call'[c].users = << >>
             \/ UpdateCourseHandler(c) /\ call'[c].users = << >>
             \/ DeleteCourseHandler(c) \/ ToggleCourseStatusHandler(c) \/ BulkToggleCourseStatusHandler(c)
          /\ UNCHANGED rosterVars
       \/ /\ scenario = "staff"
          /\ \/ CreateCourseHandler(c) /\ call'[c].users # << >>
             \/ UpdateCourseHandler(c) /\ call'[c].row.term = course[call'[c].k].term /\ call'[c].row.active
             \/ DeleteCourseHandler(c) \/ AddInstructorHandler(c) \/ RemoveInstructorHandler(c)
             \/ UpdateInstructorPermissionsHandler(c)
          /\ UNCHANGED rosterVars
       \/ scenario = "roster" /\ RosterRequest(c)
       \/ scenario = "overview" /\ (CreateSection(c) \/ RemoveSectionHandler(c)
             \/ AddStudentToSectionHandler(c) \/ MoveStudentToSection(c) \/ AddTA(c) \/ RemoveTA(c))
       \/ scenario = "overview" /\ DeleteCourseHandler(c) /\ UNCHANGED rosterVars
       \/ scenario = "teams" /\ TeamRequest(c)

Reads(c) == scenario = "overview" /\ GetCourseOverview(c)

AtOnce ==
    \/ scenario \in {"roster", "overview"}
       /\ (ArchiveAndRemoveStudentFromSection \/ RestoreStudentToSection)
    \/ scenario = "teams" /\ (AddTeamMember \/ RemoveTeamMember \/ DeleteTeams)

Jobs ==
    \/ scenario = "roster" /\ (WindowCloses \/ CleanupExpiredRemovals)
    \/ OverviewExpires

Held(x) ==
    CASE x.kind \in {"create", "replace", "toggle", "add", "remove", "permit"} ->
                                            {<< "course", x.k >>}
      [] x.kind \in {"bulk", "delete"} -> {<< "course", k >> : k \in
                                              IF x.kind = "bulk" THEN x.ks ELSE ToSet(x.ks)}
      [] x.kind = "enrol" -> {<< "person", p >> : p \in x.who \cup {m.student : m \in ToSet(x.moves)}}
      [] x.kind = "assist" -> {<< "person", p >> : p \in x.who}
      [] OTHER -> {}

\* Courses whose instructors could not be stored, students restored.
Loosened ==
    {<< "course", call[c].k >> : c \in {d \in Calls : call[d].kind = "replace" /\ call[d].step = "fill"
                                              /\ call'[d] # call[d] /\ teaching' = teaching}}
    \cup {<< "person", removals[n].student >> : n \in {m \in DOMAIN removals : m \in DOMAIN removals'
                                              /\ removals[m].open /\ ~ removals'[m].open}}

MCNext ==
    /\ \/ \E c \in Calls : \/ Begins(c)
                           \/ (StaffStep(c) \/ RosterFinishing(c) \/ Reads(c)) /\ UNCHANGED starts
       \/ starts < MaxStarts[scenario] /\ starts' = starts + 1 /\ AtOnce
       \/ UNCHANGED starts /\ Jobs
    /\ raced' = raced \cup UNION {Held(call'[c]) \cap Held(call'[d]) :
                                     << c, d >> \in {p \in Calls \X Calls : p[1] # p[2]}}
    /\ loose' = loose \cup Loosened
    /\ UNCHANGED scenario

MCSpec == MCInit /\ [][MCNext]_coursesVars /\ WF_coursesVars(OverviewExpires /\ MCNext)
-------------------------------------------------------------------------------
Excused == raced \cup loose

\* The course page and the lists name the same lead, the one the course row names, and
\* that lead may manage the course, whoever came and went, unless two calls changed
\* the course at once or the instructors of a form could not be stored.
LeadLeadsSerially ==
    \A k \in Courses :
        There(k) /\ << "course", k >> \notin Excused /\ (\A c \in Calls : << "course", k >> \notin Held(call[c]))
        => /\ \A shown \in SUBSET Courses : k \in shown => ListLead(k, shown) = DetailLead(k)
           /\ course[k].lead # Nobody => DetailLead(k) = course[k].lead /\ MayManage(k, course[k].lead)

\* A person has one place in a course: a section of it, or the list of assistants.
\* Two calls that add the same person at once, and a restored removal, escape this.
OnePlaceSerially ==
    \A p \in People :
        Cardinality(SectionsOf(p)) + Cardinality({n \in DOMAIN tas : tas[n] = p}) <= 1
        \/ << "person", p >> \in Excused

\* Once nothing is written any more, the overview a reader gets is the current one for
\* good, also after an invalidation nobody wired up or one a slow reader undid.
OverviewHeals == <>[](overview \in {Nothing, Counted})

===============================================================================
