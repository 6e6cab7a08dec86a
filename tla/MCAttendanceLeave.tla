-------------------------- MODULE MCAttendanceLeave --------------------------
(***************************************************************************)
(* AttendanceLeave for TLC: what may start in which scenario, a bound on   *)
(* how many operations start, and the properties.                          *)
(*   "decisions"  two actors overlap; requests, reviews, expiry, check-ins *)
(*                and corrections.                                         *)
(*   "steady"     one operation at a time, sessions and the roster change. *)
(*   "moved"      the same, and sessions move to other days, check-ins are *)
(*                reclassified and removals undone.                        *)
(***************************************************************************)
EXTENDS AttendanceLeave

CONSTANTS Scenarios, FirstDay, FirstActor

\* Bound: operations started in a behaviour of each scenario.
MaxStarts == [decisions |-> 4, steady |-> 5, moved |-> 4]

VARIABLES
  scenario, starts,
  left         \* history: students who have been removed

leaveVars == <<vars, scenario, starts, left>>

Serial == scenario \in {"steady", "moved"}
Steady == scenario = "steady"
Calm == \A a \in Actors : flight[a] = Idle

\* One session or all on the first day; in serial scenarios one actor does all.
Starting ==
  \/ session = [s \in Sessions |-> FirstDay]
  \/ \E s \in Sessions : session = [[x \in Sessions |-> NoSession] EXCEPT ![s] = FirstDay]

MCInit == Init /\ Starting /\ scenario \in Scenarios /\ starts = 0
          /\ left = {}

Begins(a) ==
  /\ starts < MaxStarts[scenario] /\ starts' = starts + 1
  /\ Serial => Calm /\ a = FirstActor
  /\ \/ StudentStarts(a) \/ StaffDecide(a)
     \/ Serial /\ (SessionsChange(a) \/ RosterChanges(a))
     \/ scenario = "moved" /\ (SessionsMove(a) \/ RosterUndone(a))

MCNext ==
  \E a \in Actors :
    /\ Begins(a) \/ ((Step(a) \/ (~Serial /\ Fail(a))) /\ UNCHANGED starts)
    /\ left' = left \cup (enrolled \ enrolled')
    /\ UNCHANGED scenario

MCSpec == MCInit /\ [][MCNext]_leaveVars
------------------------------------------------------------------------------
\* However submissions, edits, reviews and revocations overlap, no student has
\* two open items for one session (buildLeaveRequestItems under the lock).
NoDoubleBooking == scenario = "decisions" => OneOpenItem

\* The record an applied item names is on leave by its request, unless the student
\* was removed from the course meanwhile or has no record.
LeaveShows ==
  Steady /\ Calm => \A r \in Requests, k \in Slots :
    LET i == item[r][k]
        x == record[i.session][request[r].student]
    IN i.status = "applied" /\ request[r].student \notin left /\ There(x) =>
         x.status = "leave" /\ x.leave = r /\ x.id = i.rec

\* A record that leave requests put on leave is so by a request that stands.
LeaveStands ==
  \A s \in Sessions, u \in Students :
    LET x == record[s][u] IN
    x.source = "leave_request" => x.status = "leave" /\ request[x.leave].status \in Granted

LeaveIsGranted == Serial /\ Calm => LeaveStands

\* Requests and register agree, one operation after the other: what was granted
\* shows in the records, and no revoked, expired, rejected or cancelled request
\* excuses anybody, after deletions, section changes, corrections and revocations.
LeaveMatchesRecordSerially == LeaveShows /\ LeaveIsGranted

\* One operation at a time, no leave overrules attendance by check-in or by
\* hand: neither a review, nor a binding, nor a reapplication.
AttendanceIsKeptSerially ==
  [][Serial => \A s \in Sessions, u \in Students :
       KeepsAttendance(record[s][u]) => record'[s][u].source # "leave_request"]_leaveVars
==============================================================================
