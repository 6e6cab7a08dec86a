---------------------------- MODULE CourseRoster ----------------------------
(***************************************************************************)
(* The people of one course, Home: its sections and who is enrolled in     *)
(* them, removals that can be undone, teaching assistants, teams, and the  *)
(* cached overview page that counts them.                                  *)
(*                                                                         *)
(* Sources: handlers/course_handler.go, handlers/team_handler.go,          *)
(* repositories/course_repo.go, repositories/team_repo.go and              *)
(* repositories/cache_keys.go.                                             *)
(*                                                                         *)
(* A person has one e-mail address, under which they may be enrolled as a  *)
(* student and have an account as a teaching assistant.  Section numbers,  *)
(* names of teams and the weeks of a term are left out; a kind of team is  *)
(* "permanent" or one week of the weekly teams.                            *)
(***************************************************************************)
EXTENDS CourseStaff

CONSTANTS
    Home,        \* the course
    People,
    Kinds,       \* kinds of team
    Nothing,     \* no cached overview
    MaxSections, \* bound: sections ever created
    MaxTeams,    \* bound: teams ever created
    MaxEnrolled, \* bound: enrolment rows
    MaxRemovals  \* bound: removals kept

ASSUME CourseRosterAssumption ==
    /\ Home \in Courses
    /\ {MaxSections, MaxTeams, MaxEnrolled, MaxRemovals} \subseteq Nat

VARIABLES
    sections,    \* ids of the sections of the course
    nextSection, \* next value of the sections' id sequence
    roster,      \* the enrolment rows (course_section_students), oldest first
    removals,    \* the removals kept for restoring, oldest first
    accounts,    \* people with a teaching assistant's account
    tas,         \* the course_tas rows
    teams,       \* the teams by id: kind and member rows
    nextTeam,    \* next value of the teams' id sequence
    overview     \* the cached overview

rosterVars == << sections, nextSection, roster, removals, accounts, tas, teams, nextTeam, overview >>
vars == << staffVars, call, rosterVars >>

SectionIds == 1 .. MaxSections
TeamIds == 1 .. MaxTeams
NoTeam == [kind |-> "none", members |-> << >>]

Enrolment == [student : People, section : SectionIds]
Removal == [student : People, section : SectionIds, open : BOOLEAN, fresh : BOOLEAN]
Team == [kind : Kinds, members : Seq(People)]

\* Sections, enrolments, removals and teams name people and sections there can be.
RosterTypeOK ==
    /\ sections \subseteq 1 .. nextSection - 1 /\ nextSection \in 1 .. MaxSections + 1
    /\ roster \in Seq(Enrolment) /\ removals \in Seq(Removal)
    /\ accounts \subseteq People /\ tas \in Seq(accounts)
    /\ teams \in [TeamIds -> Team \cup {NoTeam}]

---------------------------------------------------------------------------
\* What the handlers read

Rows(p, s) == {n \in DOMAIN roster : roster[n].student = p /\ roster[n].section = s}
SectionsOf(p) == {s \in sections : Rows(p, s) # {}}
Enrolled == {p \in People : SectionsOf(p) # {}}
IsTA(p) == p \in ToSet(tas)

Without(rows, p, s) == SelectSeq(rows, LAMBDA r : ~ (r.student = p /\ r.section = s))
Row(p, s) == [student |-> p, section |-> s]

\* Adding a student to a section closes the removal that could restore them there.
Reopened(r, who, s) == r.student \in who /\ r.section = s /\ r.open /\ r.fresh
Closed(list, who, s) ==
    [n \in DOMAIN list |-> IF Reopened(list[n], who, s) THEN [list[n] EXCEPT !.open = FALSE] ELSE list[n]]

\* What the overview counts: a student enrolled twice counts twice.
Counted ==
    [students |-> Cardinality({n \in DOMAIN roster : roster[n].section \in sections}),
     sections |-> Cardinality(sections), tas |-> Len(tas)]

Invalidating(c) == Set(c, [kind |-> "invalidate"])
Open == Writable(Home)

---------------------------------------------------------------------------
\* Sections

CreateSection(c) ==
    /\ Free(c) /\ Open /\ nextSection \in SectionIds
    /\ sections' = sections \cup {nextSection} /\ nextSection' = nextSection + 1
    /\ Invalidating(c)
    /\ UNCHANGED << staffVars, roster, removals, accounts, tas, teams, nextTeam, overview >>

RemoveSectionHandler(c) ==
    /\ Free(c) /\ Open
    /\ \E s \in sections :
          /\ roster' = SelectSeq(roster, LAMBDA r : r.section # s)
          /\ Set(c, [kind |-> "dropSection", section |-> s])
    /\ UNCHANGED << staffVars, sections, nextSection, removals, accounts, tas, teams, nextTeam, overview >>

DeleteSection(c) ==
    /\ call[c].kind = "dropSection"
    /\ sections' = sections \ {call[c].section}
    /\ Invalidating(c)
    /\ UNCHANGED << staffVars, nextSection, roster, removals, accounts, tas, teams, nextTeam, overview >>

---------------------------------------------------------------------------
\* Enrolling

\* Mutant: a student of another section of the course is added as well.
NotInSection(p, s) == Rows(p, s) = {} /\ ~ IsTA(p)

MayEnrol(p, s) == p \notin Enrolled /\ ~ IsTA(p)

AddStudentToSectionHandler(c) ==
    /\ Free(c) /\ Open
    /\ \E p \in People, s \in sections :
          MayEnrol(p, s) /\ Set(c, [kind |-> "enrol", who |-> {p}, section |-> s, moves |-> << >>])
    /\ UNCHANGED << staffVars, rosterVars >>

\* BulkAddStudentsToSection: assistants are skipped; students of another section are
\* moved from it, or skipped as well; the others are added in the end.  Of a student
\* enrolled twice it keeps the row it read last.
BulkAddStudentsToSectionHandler(c) ==
    /\ Free(c) /\ Open
    /\ \E who \in SUBSET People \ {{}}, s \in sections, move \in BOOLEAN :
          LET asked == {p \in who : ~ IsTA(p)}
              there == asked \cap Enrolled
          IN  \E from \in [there -> sections] :
                /\ \A p \in there : from[p] \in SectionsOf(p)
                /\ Set(c, [kind |-> "enrol", who |-> asked \ there, section |-> s,
                           moves |-> SetToSeq({[student |-> p, section |-> from[p]] :
                                                 p \in {q \in there : move /\ from[q] # s}})])
    /\ UNCHANGED << staffVars, rosterVars >>

\* MoveStudentBetweenSections, one transaction: nothing happens when the student is
\* no longer where they were, and it fails when a section is gone.
Moved(rows, p, from, to) ==
    IF ~ \E n \in DOMAIN rows : rows[n] = Row(p, from) THEN rows
    ELSE Without(rows, p, from)
         \o IF \E n \in DOMAIN rows : rows[n] = Row(p, to) THEN << >> ELSE << Row(p, to) >>

MoveFirst(c) ==
    /\ call[c].kind = "enrol" /\ call[c].moves # << >>
    /\ LET m == Head(call[c].moves)
           s == call[c].section
       IN  IF {m.section, s} \subseteq sections
           THEN /\ roster' = Moved(roster, m.student, m.section, s)
                /\ Set(c, [call[c] EXCEPT !.moves = Tail(@)])
           ELSE UNCHANGED roster /\ Invalidating(c)
    /\ UNCHANGED << staffVars, sections, nextSection, removals, accounts, tas, teams, nextTeam, overview >>

\* The insert of AddStudentToSection and of the batch.
Enrol(c) ==
    /\ call[c].kind = "enrol" /\ call[c].moves = << >>
    /\ LET new == SetToSeq(call[c].who)
       IN  /\ Len(roster) + Len(new) <= MaxEnrolled
           /\ roster' = roster \o [n \in DOMAIN new |-> Row(new[n], call[c].section)]
    /\ removals' = Closed(removals, call[c].who, call[c].section)
    /\ Invalidating(c)
    /\ UNCHANGED << staffVars, sections, nextSection, accounts, tas, teams, nextTeam, overview >>

MoveStudentToSection(c) ==
    /\ Free(c) /\ Open
    /\ \E p \in People, from, to \in sections :
          /\ from # to /\ Rows(p, from) # {}
          /\ roster' = Moved(roster, p, from, to)
    /\ Invalidating(c)
    /\ UNCHANGED << staffVars, sections, nextSection, removals, accounts, tas, teams, nextTeam, overview >>

---------------------------------------------------------------------------
\* Removing a student, and undoing it while the window is open.  Neither drops the
\* cached overview.

ArchiveAndRemoveStudentFromSection ==
    /\ Open /\ Len(removals) < MaxRemovals
    /\ \E p \in People, s \in sections :
          /\ Rows(p, s) # {}
          /\ roster' = Without(roster, p, s)
          /\ removals' = Append(removals, [student |-> p, section |-> s, open |-> TRUE, fresh |-> TRUE])
    /\ UNCHANGED << staffVars, call, sections, nextSection, accounts, tas, teams, nextTeam, overview >>

\* Removals that can be undone; the last of a student and section is.
Restorable == {n \in DOMAIN removals : removals[n].open /\ removals[n].fresh}
IsLatest(n) ==
    \A m \in Restorable : removals[m].student = removals[n].student
                          /\ removals[m].section = removals[n].section => m <= n

RestoreStudentToSection ==
    /\ Open
    /\ \E n \in Restorable :
          LET p == removals[n].student
              s == removals[n].section
          IN  /\ IsLatest(n)
              /\ roster' = IF Rows(p, s) # {} THEN roster ELSE Append(roster, Row(p, s))
              /\ removals' = [removals EXCEPT ![n].open = FALSE]
    /\ Len(roster') <= MaxEnrolled
    /\ UNCHANGED << staffVars, call, sections, nextSection, accounts, tas, teams, nextTeam, overview >>

\* restore_until passes.
WindowCloses ==
    /\ \E n \in Restorable : removals' = [removals EXCEPT ![n].fresh = FALSE]
    /\ UNCHANGED << staffVars, call, sections, nextSection, roster, accounts, tas, teams, nextTeam, overview >>

\* The daily clean-up.
CleanupExpiredRemovals ==
    /\ \E n \in DOMAIN removals : removals[n].open /\ ~ removals[n].fresh
    /\ removals' = SelectSeq(removals, LAMBDA r : ~ r.open \/ r.fresh)
    /\ UNCHANGED << staffVars, call, sections, nextSection, roster, accounts, tas, teams, nextTeam, overview >>

---------------------------------------------------------------------------
\* Teaching assistants

MayAssist(who) == {p \in who : p \in accounts /\ ~ IsTA(p) /\ p \notin Enrolled}

\* AddTA and BulkAddTAs: one user, or those of a batch who pass.
AddTA(c) ==
    /\ Free(c) /\ Open
    /\ \E who \in SUBSET People :
          /\ MayAssist(who) # {}
          /\ Set(c, [kind |-> "assist", who |-> MayAssist(who), new |-> FALSE])
    /\ UNCHANGED << staffVars, rosterVars >>

\* A new account is checked, and stored with its row in one transaction.
CreateTAAccount(c) ==
    /\ Free(c) /\ Open
    /\ \E p \in People \ accounts :
          p \notin Enrolled /\ Set(c, [kind |-> "assist", who |-> {p}, new |-> TRUE])
    /\ UNCHANGED << staffVars, rosterVars >>

AddCourseTA(c) ==
    /\ call[c].kind = "assist"
    /\ tas' = tas \o SetToSeq(call[c].who)
    /\ accounts' = accounts \cup call[c].who
    /\ IF call[c].new THEN Done(c) ELSE Invalidating(c)
    /\ UNCHANGED << staffVars, sections, nextSection, roster, removals, teams, nextTeam, overview >>

RemoveTA(c) ==
    /\ Free(c) /\ Open
    /\ \E p \in ToSet(tas) : tas' = SelectSeq(tas, LAMBDA q : q # p)
    /\ Invalidating(c)
    /\ UNCHANGED << staffVars, sections, nextSection, roster, removals, accounts, teams, nextTeam, overview >>

---------------------------------------------------------------------------
\* Teams

Grouped(kind) == {p \in People : \E t \in TeamIds : teams[t].kind = kind /\ p \in ToSet(teams[t].members)}

\* ValidateTeamInputs: enrolled students of no other team of this kind, each in one
\* of the new teams at most.
Valid(kind, lists) ==
    /\ \A n \in DOMAIN lists : lists[n] \subseteq Enrolled \ Grouped(kind) /\ lists[n] # {}
    /\ \A n, m \in DOMAIN lists : n # m => lists[n] \cap lists[m] = {}

\* One team (its members are inserted after it, in no transaction), or several.
CreateTeamHandler(c) ==
    /\ Free(c) /\ Open
    /\ \E kind \in Kinds, who \in SUBSET People :
          /\ Valid(kind, << who >>)
          /\ Set(c, [kind |-> "team", step |-> "group", of |-> kind, lists |-> << who >>])
    /\ UNCHANGED << staffVars, rosterVars >>

BulkCreateTeamsHandler(c) ==
    /\ Free(c) /\ Open
    /\ \E kind \in Kinds, a, b \in SUBSET People :
          /\ Valid(kind, << a, b >>)
          /\ Set(c, [kind |-> "team", step |-> "all", of |-> kind, lists |-> << a, b >>])
    /\ UNCHANGED << staffVars, rosterVars >>

\* The students without a team are dealt out at random into teams of `size`.
RandomizeTeams(c) ==
    /\ Free(c) /\ Open
    /\ \E kind \in Kinds, size \in 1 .. 2 :
          LET pool == Enrolled \ Grouped(kind)
              count == (Cardinality(pool) + size - 1) \div size
          IN  /\ pool # {}
              /\ \E deal \in [pool -> 1 .. count] :
                    /\ \A n \in 1 .. count - 1 : Cardinality({p \in pool : deal[p] = n}) = size
                    /\ Set(c, [kind |-> "team", step |-> "all", of |-> kind,
                               lists |-> [n \in 1 .. count |-> {p \in pool : deal[p] = n}]])
    /\ UNCHANGED << staffVars, rosterVars >>

BulkCreateTeams(c) ==
    /\ call[c].kind = "team" /\ call[c].step = "all"
    /\ LET n == Len(call[c].lists)
       IN  /\ nextTeam + n <= MaxTeams + 1
           /\ teams' = [t \in TeamIds |-> IF t \in nextTeam .. nextTeam + n - 1
                 THEN [kind |-> call[c].of, members |-> SetToSeq(call[c].lists[t - nextTeam + 1])]
                 ELSE teams[t]]
           /\ nextTeam' = nextTeam + n
    /\ Done(c)
    /\ UNCHANGED << staffVars, sections, nextSection, roster, removals, accounts, tas, overview >>

CreateTeam(c) ==
    /\ call[c].kind = "team" /\ call[c].step = "group" /\ nextTeam \in TeamIds
    /\ teams' = [teams EXCEPT ![nextTeam] = [kind |-> call[c].of, members |-> << >>]]
    /\ nextTeam' = nextTeam + 1
    /\ Set(c, [kind |-> "members", team |-> nextTeam, who |-> call[c].lists[1]])
    /\ UNCHANGED << staffVars, sections, nextSection, roster, removals, accounts, tas, overview >>

\* UpdateTeam replaces the members with any list, unchecked.
UpdateTeamHandler(c) ==
    /\ Free(c) /\ Open
    /\ \E t \in TeamIds, who \in SUBSET People :
          /\ teams[t] # NoTeam
          /\ teams' = [teams EXCEPT ![t].members = << >>]
          /\ Set(c, [kind |-> "members", team |-> t, who |-> who])
    /\ UNCHANGED << staffVars, sections, nextSection, roster, removals, accounts, tas, nextTeam, overview >>

\* An insert that fails is ignored; rows inserted for a deleted team belong to none.
InsertMembers(c) ==
    /\ call[c].kind = "members"
    /\ \/ /\ teams[call[c].team] # NoTeam
          /\ teams' = [teams EXCEPT ![call[c].team].members = @ \o SetToSeq(call[c].who)]
       \/ UNCHANGED teams
    /\ Done(c)
    /\ UNCHANGED << staffVars, sections, nextSection, roster, removals, accounts, tas, nextTeam, overview >>

AddTeamMember ==
    /\ Open
    /\ \E t \in TeamIds, p \in People :
          /\ teams[t] # NoTeam /\ p \notin ToSet(teams[t].members)
          /\ teams' = [teams EXCEPT ![t].members = Append(@, p)]
    /\ UNCHANGED << staffVars, call, sections, nextSection, roster, removals, accounts, tas, nextTeam, overview >>

RemoveTeamMember ==
    /\ Open
    /\ \E t \in TeamIds : \E p \in ToSet(teams[t].members) :
          teams' = [teams EXCEPT ![t].members = SelectSeq(@, LAMBDA q : q # p)]
    /\ UNCHANGED << staffVars, call, sections, nextSection, roster, removals, accounts, tas, nextTeam, overview >>

\* One team, or several.
DeleteTeams ==
    /\ Open
    /\ \E ts \in SUBSET {t \in TeamIds : teams[t] # NoTeam} \ {{}} :
          teams' = [t \in TeamIds |-> IF t \in ts THEN NoTeam ELSE teams[t]]
    /\ UNCHANGED << staffVars, call, sections, nextSection, roster, removals, accounts, tas, nextTeam, overview >>

---------------------------------------------------------------------------
\* The cached overview

\* A miss is answered from the database, and stored in a later step.
GetCourseOverview(c) ==
    /\ Free(c) /\ There(Home) /\ overview = Nothing
    /\ Set(c, [kind |-> "overview", seen |-> Counted])
    /\ UNCHANGED << staffVars, rosterVars >>

StoreOverview(c) ==
    /\ call[c].kind = "overview"
    /\ overview' = call[c].seen
    /\ Done(c)
    /\ UNCHANGED << staffVars, sections, nextSection, roster, removals, accounts, tas, teams, nextTeam >>

Dropped == Nothing

InvalidateCourseOverviewCache(c) ==
    /\ call[c].kind = "invalidate"
    /\ overview' = Dropped
    /\ Done(c)
    /\ UNCHANGED << staffVars, sections, nextSection, roster, removals, accounts, tas, teams, nextTeam >>

\* Mutant: entries are stored without a lifetime.
NeverExpires == FALSE

HasLifetime == overview # Nothing

OverviewExpires ==
    /\ HasLifetime
    /\ overview' = Nothing
    /\ UNCHANGED << staffVars, call, sections, nextSection, roster, removals, accounts, tas, teams, nextTeam >>

---------------------------------------------------------------------------
\* Deleting the course takes its sections, enrolments and assistants with it; removals,
\* teams and the cached overview stay.
DeleteCourseMembers(c) ==
    /\ DeleteMembers(c)
    /\ IF Head(call[c].ks) = Home
       THEN /\ sections' = {} /\ tas' = << >>
            /\ roster' = SelectSeq(roster, LAMBDA r : r.section \notin sections)
       ELSE UNCHANGED << sections, tas, roster >>
    /\ UNCHANGED << nextSection, removals, accounts, teams, nextTeam, overview >>

StaffStep(c) ==
    \/ StaffFinishing(c) /\ UNCHANGED rosterVars
    \/ DeleteCourseMembers(c)

RosterRequest(c) ==
    \/ CreateSection(c) \/ RemoveSectionHandler(c)
    \/ AddStudentToSectionHandler(c) \/ BulkAddStudentsToSectionHandler(c) \/ MoveStudentToSection(c)
    \/ AddTA(c) \/ CreateTAAccount(c) \/ RemoveTA(c)

TeamRequest(c) ==
    CreateTeamHandler(c) \/ BulkCreateTeamsHandler(c) \/ RandomizeTeams(c) \/ UpdateTeamHandler(c)

RosterFinishing(c) ==
    \/ DeleteSection(c) \/ MoveFirst(c) \/ Enrol(c) \/ AddCourseTA(c)
    \/ BulkCreateTeams(c) \/ CreateTeam(c) \/ InsertMembers(c)
    \/ StoreOverview(c) \/ InvalidateCourseOverviewCache(c)
=============================================================================
