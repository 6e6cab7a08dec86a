--------------------------- MODULE MCAttendancePins ---------------------------
(***************************************************************************)
(* AttendancePins with a few sessions and PINs, all created first, and at  *)
(* most MaxAsks requests.  In the scenario "calm" a request is made only   *)
(* when nothing else is under way, sessions keep their times, are started  *)
(* after their start, and Redis keeps what it has; in "serial" sessions    *)
(* are edited, deleted and started early as well; in "race" one request,   *)
(* and after it check-ins, overlap with the worker, transactions may be    *)
(* rolled back and Redis may come back empty.  All PINs being alike,       *)
(* sessions are created with one and the same, and an edit leaves the      *)
(* announced one alone.  In "race" the session has begun.                  *)
(***************************************************************************)
EXTENDS AttendancePins, TLC

CONSTANTS
  Scenarios,
  MaxAsks

VARIABLES scenario, asks

mcvars == <<vars, scenario, asks>>

MCInit == Init /\ asks = 0 /\ scenario \in Scenarios

AllCreated == \A s \in Sessions : row[s].status # "new"

Serial == scenario # "race"

Calm == scenario = "calm"

Editable == scenario = "serial"

Idle == tick.phase = "idle" /\ \A q \in Actors : req[q].next = "none"

Asking ==
  /\ asks < MaxAsks
  /\ asks' = asks + 1
  /\ Serial => Idle
  /\ ~Serial /\ asks # 0 => CheckingIn
  /\ \/ Starting(~Calm)
     \/ Managing /\ (Serial => \A q \in Requests :
                       req'[q].next = "rotate" => state[req'[q].on] # NoState)
     \/ ~Serial /\ CheckingIn
     \/ Showing
     \/ Viewing
     \/ Editable /\ Editing
     \/ ~Serial /\ (Failing \/ RedisFlush)

Going ==
  \/ \E q \in Actors : Step(q)
  \/ Editable /\ Saving({})
  \/ (Serial => \A q \in Requests : req[q].next = "none") /\ Ticking

MCNext ==
  /\ \/ Creating({TRUE, ~Serial}, {CHOOSE pin \in Pins : TRUE}) /\ UNCHANGED asks
     \/ AllCreated /\ Asking
     \/ AllCreated /\ (Going \/ Passing) /\ UNCHANGED asks
  /\ Remembers
  /\ UNCHANGED scenario

MCSpec == MCInit /\ [][MCNext]_mcvars

FairSpec ==
  MCSpec /\ WF_mcvars(AllCreated /\ Going /\ Remembers /\ UNCHANGED <<scenario, asks>>)

Symmetry == Permutations(Requests) \cup Permutations(Pins)
-----------------------------------------------------------------------------
\* ShownIsAccepted, as long as nothing overlaps.
ShownIsAcceptedSerially == Serial => ShownIsAccepted

\* In calm: a draft whose time has come is opened by the worker, though pages and screens
\* rewrite its row by the clock and its state is looked for in Redis alone.
OpensOnTime == \A s \in Sessions : Calm /\ Due(s) ~> ~Due(s)

=============================================================================
