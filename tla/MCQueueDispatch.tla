-------------------------- MODULE MCQueueDispatch --------------------------
(***************************************************************************)
(* QueueDispatch on small instances, one behaviour per scenario.           *)
(*   "offers"  students book, workers join, answer, time out and leave.    *)
(*   "managed" the same in session One, with manager operations and the    *)
(*             closing jobs.                                               *)
(*   "cancels" student Alone books, with all that and public cancels.      *)
(*   "linked"  student Alone books once, while sessions are linked,        *)
(*             unlinked and switched between joint and separated.          *)
(* The bounds of a run:                                                    *)
(*   MaxOps       manager operations, cleanup steps and public cancels     *)
(*                after opening                                            *)
(*   MaxRequests  worker rows with a join or leave request in flight       *)
(*   MaxJoins     joins over the whole run                                 *)
(*   Booked       the types students book                                  *)
(* `ops` counts what MaxOps bounds; `joined` remembers, for the property   *)
(* about separated groups, which sessions each worker joined themselves.   *)
(***************************************************************************)
EXTENDS QueueDispatch, TLC

CONSTANTS MaxOps, MaxRequests, MaxJoins, Booked, Scenarios, One, Alone

VARIABLES scenario, ops, joins, joined

mcvars == <<vars, scenario, ops, joins, joined>>

Symmetry == Permutations(Users)

MCInit == Init /\ scenario \in Scenarios /\ ops = 0 /\ joins = 0 /\ joined = {}

InFlight ==
  Cardinality({x \in Sessions \X Users : req[x[1]][x[2]].phase # "idle"})

\* The sessions that open and the students who book in a scenario.
Open == IF scenario = "linked" THEN Sessions ELSE {One}
Bookers == IF scenario \in {"linked", "cancels"} THEN {Alone} ELSE Students
MayBook(b) == scenario = "linked" => b = 1

Counters == <<ops, joins, joined>>

\* Every session is opened before anything else happens.
Opening == \E s \in Open : session[s].status = "draft"

MCOpen ==
  /\ \E s \in Open : session[s].status = "draft" /\ StartSession(s)
  /\ UNCHANGED Counters

MCStudents ==
  /\ ~Opening
  /\ \/ \E s \in Sessions, st \in Bookers, d \in Desks, type \in Booked,
           b \in Bookings : MayBook(b) /\ CreateBooking(s, st, d, type, b)
     \/ \E b \in Bookings : CancelBooking(b)
     \/ \E b \in Bookings : PublicCancelWrite(b) \/ PublicCancelDesk(b)
  /\ UNCHANGED Counters

MCPublicCancel ==
  /\ scenario = "cancels"
  /\ ops < MaxOps
  /\ \E b \in Bookings : PublicCancelRead(b)
  /\ ops' = ops + 1
  /\ UNCHANGED <<joins, joined>>

MCJoinRead ==
  /\ ~Opening
  /\ joins < MaxJoins
  /\ InFlight < MaxRequests
  /\ \E s \in Sessions, u \in Users : JoinRead(s, u)
  /\ joins' = joins + 1
  /\ UNCHANGED <<ops, joined>>

MCJoinSave ==
  \E s \in Sessions, u \in Users, accept \in AcceptChoices :
    /\ JoinSave(s, u, accept)
    /\ joined' = joined \cup {<<s, u>>}
    /\ UNCHANGED <<ops, joins>>

MCWorkers ==
  /\ \E s \in Sessions, u \in Users :
       \/ \E t \in Sessions : MirrorRead(s, t, u) \/ MirrorSave(s, t, u)
       \/ MirrorGivenUp(s, u)
       \/ InFlight < MaxRequests /\ WorkerLeave(s, u)
       \/ LeaveMirror(s, u)
  /\ UNCHANGED Counters

MCTasks == TaskNext /\ UNCHANGED Counters

MCDispatch == DispatchNext /\ UNCHANGED Counters

MCTick == Tick /\ UNCHANGED Counters

MCManagers ==
  /\ ~Opening
  /\ ops < MaxOps
  /\ \/ scenario \in {"managed", "cancels"} /\ (SessionNext \/ CleanupNext)
     \/ scenario = "linked" /\ GroupNext
  /\ ops' = ops + 1
  /\ UNCHANGED <<joins, joined>>

MCNext ==
  /\ \/ MCOpen
     \/ MCStudents
     \/ MCPublicCancel
     \/ MCJoinRead
     \/ MCJoinSave
     \/ MCWorkers
     \/ MCTasks
     \/ MCDispatch
     \/ MCTick
     \/ MCManagers
  /\ \A s \in Sessions \ Open : /\ session'[s] = session[s] /\ worker'[s] = worker[s]
                               /\ req'[s] = req[s] /\ selected'[s] = selected[s]
  /\ UNCHANGED scenario

MCSpec == MCInit /\ [][MCNext]_mcvars

MCFairSpec == MCSpec /\ Fairness

\* In a separated group, a TA gets fresh work, or accepts an offer, only in a
\* session they themselves joined, whatever rows were mirrored or saved back.
FreshWorkStaysInCourse ==
  [][\A b \in Bookings, u \in Users :
       /\ IsSeparated(booking[b].session)
       /\ \/ NewlyHeld(b, u)
          \/ /\ booking'[b].assigned = u
             /\ booking[b].status = "waiting"
             /\ booking'[b].status = "in_progress"
       => <<booking[b].session, u>> \in joined]_mcvars
=============================================================================
