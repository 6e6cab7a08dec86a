------------------------------ MODULE MCGrading ------------------------------
(***************************************************************************)
(* Grading for TLC: what may be called in which scenario, a bound on how   *)
(* many requests are made, and the properties.                             *)
(*   "grading"    scores, sub-items and links change at the same time.     *)
(*   "asking"     requests to edit two scores, their reviews, regrades.    *)
(*   "publishing" edits race the publisher, a restart and the course.      *)
(*   "repairing"  an assignment an older release has damaged.              *)
(***************************************************************************)
EXTENDS Grading

CONSTANTS Scenarios, FirstCall

MCPayloads == {<< >>, << 1 >>, << 2 >>, << 0 >>, << 2, 1 >>, << 1, 1 >>}

\* Bound: requests made in a behaviour of each scenario.
MaxStarts == [grading |-> 3, asking |-> 3, publishing |-> 2, repairing |-> 3]

VARIABLES
    scenario, starts,
    raced       \* history: scores and edit requests two calls held at once

gradingVars == << vars, scenario, starts, raced >>

Fresh(draft) == [draft |-> draft, publishAt |-> NoTime, active |-> TRUE, condition |-> "and"]

MCInit ==
    /\ Init /\ scenario \in Scenarios /\ starts = 0 /\ raced = {}
    /\ call[FirstCall] = Idle \/ \A c \in Calls \ {FirstCall} : call[c] = Idle
    /\ scenario = "grading" => row.draft = FALSE /\ row.publishAt = NoTime /\ Len(items) = 1
                               /\ nextItem = 2 /\ call[FirstCall] # Idle
                               /\ Cardinality({s \in Students : attended[s] = Sessions}) = 1
    /\ scenario = "asking" => row = Fresh(FALSE) /\ items = << 2 >> /\ scores[2] # NoRow
                              /\ \A s \in Students : attended[s] = {}
    /\ scenario = "publishing" => items = << >> /\ row.condition = "or" /\ call[FirstCall] # Idle
                                  /\ call[FirstCall].links = {}
                                  /\ \A s \in Students : attended[s] = {}
    /\ scenario = "repairing" => row = Fresh(FALSE) /\ nextItem > Len(items) + 1
                                 /\ scores[1] # NoRow /\ \A s \in Students : attended[s] = {}

Begins(c) ==
    /\ starts < MaxStarts[scenario] /\ starts' = starts + 1
    /\ \/ scenario \in {"grading", "asking", "repairing"} /\ SubmitScoreHandler(c)
       \/ scenario = "grading" /\ (SubmitGroupScoreHandler(c) \/ BulkSubmitScoresHandler(c)
                                   \/ LinkAttendanceSessionsHandler(c))
       \/ scenario = "publishing" /\ UpdateAssignmentHandler(c) /\ call'[c].payload = Unset
                                  /\ call'[c].links = Unset /\ ~ call'[c].confirm
       \/ scenario \in {"grading", "repairing"} /\ UpdateAssignmentHandler(c)
             /\ call'[c].row = row /\ call'[c].payload # Unset /\ call'[c].links = Unset
       \/ scenario = "asking" /\ (CreateScoreEditRequest(c) \/ CancelScoreEditRequest(c)
                                  \/ ReviewScoreEditRequests(c) \/ ReviewEditRequestHandler(c))
       \/ scenario = "repairing" /\ PlanRepair(c)
    /\ scenario = "grading" /\ call'[c].kind \in {"submit", "group", "bulk"} => call'[c].mark = 1

Others ==
    \/ starts < MaxStarts[scenario] /\ starts' = starts + 1
       /\ \/ scenario = "asking" /\ CreateScoreEditRequestHandler
          \/ scenario = "publishing" /\ JobCrash
    \/ UNCHANGED starts /\ scenario = "publishing" /\ (PublishDueScheduledAssignments
          \/ TimePasses \/ SetCourseActive \/ DeleteAssignmentHandler)

Held(x) ==
    CASE x.kind = "ask" -> {<< "score", k >> : k \in DOMAIN x.edits}
      [] x.kind = "cancel" -> {<< "request", r >> : r \in x.ids}
      [] x.kind = "review" -> {<< "request", r >> : r \in DOMAIN x.read}
      [] x.kind = "rereview" -> {<< "request", x.id >>}
      [] OTHER -> {}

MCNext ==
    /\ \/ \E c \in Calls : Begins(c) \/ (Finishing(c) /\ UNCHANGED starts)
       \/ Others
    /\ raced' = raced \cup UNION {Held(call'[p[1]]) \cap Held(call'[p[2]]) :
                                     p \in {q \in Calls \X Calls : q[1] # q[2]}}
    /\ UNCHANGED scenario

MCSpec == MCInit /\ [][MCNext]_gradingVars /\ WF_gradingVars(PublishDueScheduledAssignments /\ MCNext)
------------------------------------------------------------------------------
\* The summary counts a student as graded exactly when neither the grid nor the
\* grading sheet has a gap for them, whatever detached or double rows the table
\* holds (the promise above the query of GetUngradedSummaryHandler).
PagesAgree ==
    \A s \in Students :
        /\ CountedGraded(s) <=> GridShows(s) = GridCells
        /\ CountedGraded(s) <=> GridCells \subseteq SheetShows(s)

\* An edit of an assignment detaches no score from its sub-item, and only an edit
\* whose client agreed, or the repair of a cell graded twice, loses one (what
\* syncAssignmentSubItemsTx exists for).  Excepted are the scores given while the
\* edit runs, after it has counted what is in the way: one given before its DELETE
\* is lost although nobody agreed, one given after it stays behind.
ScoresSurviveEdits ==
    [][/\ items' # items => \E c \in Calls :
             /\ call[c] # call'[c] /\ InTransaction(c)
             /\ Orphans(scores', ToSet(items')) \subseteq Orphans(scores, Live) \cup Late(c)
       /\ \A k \in Rows(scores) \ Rows(scores') : \E c \in Calls :
             /\ call[c] # call'[c]
             /\ \/ InTransaction(c) /\ (call[c].confirm \/ k \in Late(c))
                \/ call[c].kind = "repair" /\ scores[k].item \notin Live]_gradingVars

\* A decided request is not decided again and not cancelled, unless two calls had
\* read it while it was pending or the old route reviewed it again.
DecidedOnceSerially ==
    [][\A r \in RequestIds :
          requests[r].status \in {"approved", "rejected"} /\ requests'[r] # requests[r]
          => \/ << "request", r >> \in raced
             \/ \E c \in Calls : call[c] # call'[c] /\ call[c].kind = "rereview"]_gradingVars

\* A draft whose time has come in an active course does not stay one.
DueIsPublished == Due ~> ~ Due
=============================================================================
