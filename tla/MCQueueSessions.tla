--------------------------- MODULE MCQueueSessions ---------------------------
(***************************************************************************)
(* QueueSessions with three sessions, one of the first course and two of   *)
(* the second, all created before the first request.  At most MaxStarts    *)
(* requests are made, of every kind and overlapping as they may.           *)
(***************************************************************************)
EXTENDS QueueSessions, TLC

CONSTANTS s1, s2, s3, c1, c2, MaxStarts

VARIABLES starts  \* requests made, deletions apart

mcvars == <<vars, starts>>

Course == [s \in {s1, s2, s3} |-> IF s = s1 THEN c1 ELSE c2]

MCInit == Init /\ starts = 0

AllCreated == \A s \in Sessions : row[s].status # "new"

Begun == \E q \in Requests : ~InFlight(q) /\ InFlight(q)'

Counted == starts' = IF Begun THEN starts + 1 ELSE starts

MCNext ==
  /\ \/ Creating
     \/ /\ AllCreated
        /\ \/ Deleting \/ Editing \/ Asking \/ AskingDirectly
           \/ Changing \/ Cleaning \/ Linking
  /\ Remembers
  /\ Counted /\ starts' <= MaxStarts

MCSpec == MCInit /\ [][MCNext]_mcvars

Symmetry == Permutations(Requests) \cup Permutations(Groups)
=============================================================================
