------------------------------ MODULE Grading ------------------------------
(***************************************************************************)
(* One assignment with its sub-items, the scores given on it, the requests *)
(* to edit those scores, its attendance links, and the minute job that     *)
(* publishes it when its scheduled time comes.                             *)
(*                                                                         *)
(* Sources: handlers/assignment_handler.go, handlers/score_handler.go,     *)
(* handlers/score_edit_request_compat_handler.go, and the repositories     *)
(* assignment_repo.go, score_repo.go and orphan_score_repair.go.           *)
(*                                                                         *)
(* A handler is a call in flight: it reads, and writes in a later step     *)
(* from what it has read.  One database transaction is one step, but for   *)
(* the edit of an assignment, which counts scores and then deletes them.   *)
(***************************************************************************)
EXTENDS Naturals, Sequences, FiniteSets, SequencesExt, FiniteSetsExt, Functions

CONSTANTS
    Students,     \* the members of the course (and of the group being graded)
    Sessions,     \* attendance sessions an assignment may be linked to
    Calls,        \* requests the server handles at the same time
    Marks,        \* the marks a grader can give, all within the maximum
    Unset,        \* a field the client left out
    Payloads,     \* the lists of sub-item ids a client sends (0: a new one)
    MaxItems,     \* bound: sub-items ever created
    MaxScores,    \* bound: score rows ever created
    MaxRequests,  \* bound: edit requests ever created
    MaxWrites,    \* bound: marks ever written
    MaxAnnounced, \* bound: announcements counted
    MaxNow        \* bound: the clock that scheduled times are compared with

ASSUME GradingAssumption ==
    /\ {MaxItems, MaxScores, MaxRequests, MaxWrites, MaxNow} \subseteq Nat
    /\ Payloads \subseteq Seq(0 .. MaxItems)
    /\ Marks \subseteq Nat
    /\ IsFiniteSet(Students)

VARIABLES
    row,       \* the assignments row
    items,     \* the live sub-items' ids, in order_index order
    nextItem,  \* next value of the sub-items' id sequence
    scores,    \* the score rows, by id
    nextScore, \* next value of the scores' id sequence
    clock,     \* the order of the marks written (graded_at)
    requests,  \* the score edit requests, by id
    links,     \* sessions the assignment is linked to
    attended,  \* the sessions each student attended
    call,      \* what each request in flight has read and will write
    job,       \* the publisher: "idle", "due" once it has listed the row, "flipped"
    open,      \* is the course active?
    now,
    announced  \* "new assignment" notifications sent

vars == << row, items, nextItem, scores, nextScore, clock, requests, links,
           attended, call, job, open, now, announced >>

Main == 0                       \* sub_item_id IS NULL
NoTime == 0                     \* publish_at IS NULL
NoRow == [student |-> "none"]
NoRequest == [status |-> "none"]
Idle == [kind |-> "idle"]

ItemIds == 1 .. MaxItems
ScoreIds == 1 .. MaxScores
RequestIds == 1 .. MaxRequests

Score == [student : Students, item : {Main} \cup ItemIds, mark : Marks, at : 0 .. MaxWrites]
EditRequest == [score : ScoreIds, new : Marks, status : {"pending", "approved", "rejected"},
                checked : BOOLEAN]
Assignment == [draft : BOOLEAN, publishAt : 0 .. MaxNow, active : BOOLEAN, condition : {"and", "or"}]

\* Rows and running calls are in range.
TypeOK ==
    /\ row \in Assignment
    /\ items \in Seq(ItemIds) /\ IsInjective(items)
    /\ \A k \in ToSet(items) : k < nextItem
    /\ scores \in [ScoreIds -> Score \cup {NoRow}]
    /\ \A k \in ScoreIds : scores[k] # NoRow => k < nextScore
    /\ clock \in 0 .. MaxWrites
    /\ requests \in [RequestIds -> EditRequest \cup {NoRequest}]
    /\ links \subseteq Sessions
    /\ attended \in [Students -> SUBSET Sessions]
    /\ job \in {"idle", "due", "flipped"}
    /\ now \in 0 .. MaxNow
    /\ announced \in 0 .. MaxAnnounced

---------------------------------------------------------------------------
\* Rows and what the handlers read of them

Rows(S) == {k \in ScoreIds : S[k] # NoRow}
Live == ToSet(items)

\* The rows of one cell: a student's scores on a sub-item, or on the assignment.
RowsAt(S, cell) == {k \in Rows(S) : S[k].student = cell.student /\ S[k].item = cell.item}

\* uq_scores_assignment_student_subitem: a partial index, over sub-item scores only.
Fits(S, k, cell) == cell.item = Main \/ RowsAt(S, cell) \subseteq {k}

\* Scores that point at a sub-item that is gone.
Orphans(S, live) == {k \in Rows(S) : S[k].item # Main /\ S[k].item \notin live}

Pending(k) == {r \in RequestIds : requests[r] # NoRequest /\ requests[r].score = k
                                  /\ requests[r].status = "pending"}

\* A grade of this cell: the row as this call read it, with the new mark.
Graded(cell, mark) == [student |-> cell.student, item |-> cell.item, mark |-> mark, at |-> clock + 1]

Free(c) == call[c] = Idle
Set(c, r) == call' = [call EXCEPT ![c] = r]
Done(c) == Set(c, Idle)

GradesUnchanged == UNCHANGED << scores, nextScore, clock >>
RowUnchanged == UNCHANGED << row, items, nextItem, links >>
JobUnchanged == UNCHANGED << job, open, now >>

---------------------------------------------------------------------------
\* CreateAssignmentHandler: the row and its sub-items are stored and can be seen,
\* the links and the announcement are still to come.
NewItems(n) == [k \in 1 .. n |-> k]

CreateAssignment(c, r, n, link) ==
    /\ row = r /\ items = NewItems(n) /\ nextItem = n + 1 /\ links = {}
    /\ call = [d \in Calls |-> IF d # c THEN Idle
                 ELSE [kind |-> "link", step |-> IF link = {} THEN "tell" ELSE "relink",
                       links |-> link, tell |-> ~ r.draft]]
    /\ scores = [k \in ScoreIds |-> NoRow] /\ nextScore = 1

\* The assignment an older release left behind: edits gave every sub-item a new id,
\* and the scores stayed with the old ones.
DetachedByOldRelease(r, n, who, mark) ==
    /\ row = r /\ items = [k \in 1 .. n |-> n + k] /\ nextItem = 2 * n + 1 /\ links = {}
    /\ call = [d \in Calls |-> Idle]
    /\ LET cells == SetToSeq([student : who, item : 1 .. n])
       IN  /\ scores = [k \in ScoreIds |-> IF k \notin DOMAIN cells THEN NoRow
                 ELSE [student |-> cells[k].student, item |-> cells[k].item, mark |-> mark, at |-> 0]]
           /\ nextScore = Len(cells) + 1

Init ==
    /\ \/ \E c \in Calls, r \in {a \in Assignment : a.active}, n \in 0 .. MaxItems, link \in SUBSET Sessions :
             CreateAssignment(c, r, n, link)
       \/ \E r \in {a \in Assignment : a.active}, n \in {m \in ItemIds : 2 * m <= MaxItems},
             who \in SUBSET Students, mark \in Marks : DetachedByOldRelease(r, n, who, mark)
    /\ clock = 0 /\ requests = [r \in RequestIds |-> NoRequest]
    /\ attended \in [Students -> SUBSET Sessions]
    /\ job = "idle" /\ open = TRUE /\ now = 0 /\ announced = 0

---------------------------------------------------------------------------
\* Grading: POST /scores, /scores/bulk, /scores/group

\* Cells a request may name: the sub-item must be live when it is checked.
CellsToGrade == [student : Students, item : {Main} \cup Live]

SubmitScoreHandler(c) ==
    /\ Free(c)
    /\ \E cell \in CellsToGrade, mark \in Marks :
          Set(c, [kind |-> "submit", step |-> "look", cells |-> << cell >>, mark |-> mark])
    /\ UNCHANGED << row, items, nextItem, scores, nextScore, clock, requests, links,
                    attended, job, open, now, announced >>

\* The attendance rule of a group score: all linked sessions, or any of them.
CanScore(s) ==
    \/ links = {}
    \/ row.condition = "and" /\ links \subseteq attended[s]
    \/ row.condition = "or" /\ links \cap attended[s] # {}

\* One sub-item, or the assignment, for a list of students.
CellsOf(who, item) ==
    LET list == SetToSeq(who) IN [n \in DOMAIN list |-> [student |-> list[n], item |-> item]]

\* Each eligible member is then graded by a SubmitScore of its own.
SubmitGroupScoreHandler(c) ==
    /\ Free(c)
    /\ \E targets \in SUBSET Students, item \in {Main} \cup Live, mark \in Marks :
          LET eligible == {s \in targets : CanScore(s)}
          IN  /\ eligible # {}
              /\ Set(c, [kind |-> "group", step |-> "look", mark |-> mark,
                         cells |-> CellsOf(eligible, item)])
    /\ UNCHANGED << row, items, nextItem, scores, nextScore, clock, requests, links,
                    attended, job, open, now, announced >>

\* SubmitScoreReturningPrevious, its lookup: any row of the cell (LIMIT 1), or none.
LookUpScore(c) ==
    /\ call[c].kind \in {"submit", "group"} /\ call[c].step = "look"
    /\ LET found == RowsAt(scores, Head(call[c].cells))
       IN  \E k \in IF found = {} THEN {nextScore} ELSE found :
              /\ k \in ScoreIds
              /\ Set(c, [kind |-> call[c].kind, step |-> "write", mark |-> call[c].mark,
                         cells |-> call[c].cells, found |-> k, isNew |-> found = {}])
    /\ UNCHANGED << row, items, nextItem, scores, nextScore, clock, requests, links,
                    attended, job, open, now, announced >>

\* ... and its write.  Save updates the row by id and inserts it again when it is
\* gone; Create takes the next id.  The unique index refuses a second row.
WriteScore(c) ==
    /\ call[c].kind \in {"submit", "group"} /\ call[c].step = "write"
    /\ clock < MaxWrites
    /\ LET cell == Head(call[c].cells)
           k == IF call[c].isNew THEN nextScore ELSE call[c].found
           rest == Tail(call[c].cells)
       IN  /\ k \in ScoreIds
           /\ IF Fits(scores, k, cell)
              THEN /\ scores' = [scores EXCEPT ![k] = Graded(cell, call[c].mark)]
                   /\ nextScore' = IF call[c].isNew THEN nextScore + 1 ELSE nextScore
                   /\ clock' = clock + 1
                   /\ IF rest = << >> THEN Done(c)
                      ELSE Set(c, [kind |-> "group", step |-> "look", cells |-> rest, mark |-> call[c].mark])
              ELSE Done(c) /\ GradesUnchanged
    /\ UNCHANGED << row, items, nextItem, requests, links, attended, job, open, now, announced >>

BulkSubmitScoresHandler(c) ==
    /\ Free(c)
    /\ \E who \in (SUBSET Students) \ {{}}, item \in {Main} \cup Live, mark \in Marks :
          Set(c, [kind |-> "bulk", mark |-> mark, cells |-> CellsOf(who, item)])
    /\ UNCHANGED << row, items, nextItem, scores, nextScore, clock, requests, links,
                    attended, job, open, now, announced >>

\* Where the batch writes a cell, inside its transaction: a row that is there is
\* updated, and each of the others takes the next id.
Added(cells) == {n \in DOMAIN cells : RowsAt(scores, cells[n]) = {}}
RowOfCell(cells, n) ==
    IF n \in Added(cells) THEN nextScore + Cardinality({m \in Added(cells) : m < n})
    ELSE Min(RowsAt(scores, cells[n]))

BulkUpsertScores(c) ==
    /\ call[c].kind = "bulk" /\ clock < MaxWrites
    /\ LET cells == call[c].cells
           into(k) == {n \in DOMAIN cells : RowOfCell(cells, n) = k}
       IN  /\ nextScore + Len(cells) <= MaxScores + 1
           /\ scores' = [k \in ScoreIds |-> IF into(k) = {} THEN scores[k]
                           ELSE Graded(cells[CHOOSE n \in into(k) : TRUE], call[c].mark)]
           /\ nextScore' = nextScore + Cardinality(Added(cells))
    /\ clock' = clock + 1 /\ Done(c)
    /\ UNCHANGED << row, items, nextItem, requests, links, attended, job, open, now, announced >>

---------------------------------------------------------------------------
\* Editing the assignment: the row as read is saved whole, with what the client sent

\* The fields of the row an edit can touch, each sent or left out.
Patches == [draft : BOOLEAN \cup {Unset}, publishAt : 0 .. MaxNow \cup {Unset}]
Patched(r, patch) ==
    [r EXCEPT !.draft = IF patch.draft = Unset THEN @ ELSE patch.draft,
              !.publishAt = IF patch.publishAt = Unset THEN @ ELSE patch.publishAt]

UpdateAssignmentHandler(c) ==
    /\ Free(c)
    /\ \E patch \in Patches, payload \in Payloads \cup {Unset}, confirm \in BOOLEAN,
          link \in (SUBSET Sessions) \cup {Unset} :
          Set(c, [kind |-> "update", step |-> "save", row |-> Patched(row, patch),
                  wasDraft |-> row.draft, payload |-> payload, confirm |-> confirm, links |-> link])
    /\ UNCHANGED << row, items, nextItem, scores, nextScore, clock, requests, links,
                    attended, job, open, now, announced >>

\* syncAssignmentSubItemsTx: an id of the payload is honoured once, when it is live.
Kept(payload) == ToSet(payload) \cap Live

IsKept(payload, n) ==
    payload[n] \in Kept(payload) /\ \A m \in 1 .. n - 1 : payload[m] # payload[n]
FreshBefore(payload, n) == Cardinality({m \in 1 .. n - 1 : ~ IsKept(payload, m)})
SyncedItems(payload) ==
    [n \in DOMAIN payload |-> IF IsKept(payload, n) THEN payload[n]
                              ELSE nextItem + FreshBefore(payload, n)]
Removed(payload) == Live \ Kept(payload)
ScoresOf(gone) == {k \in Rows(scores) : scores[k].item \in gone}

\* Mutant: the scores of a removed sub-item stay.
KeepScoresOf(S, gone) == S

WithoutScoresOf(S, gone) == [k \in ScoreIds |-> IF S[k] # NoRow /\ S[k].item \in gone THEN NoRow ELSE S[k]]

\* Removing a graded sub-item needs the client's word (409 and a rollback without it).
Refused(payload, confirm) == ScoresOf(Removed(payload)) # {} /\ ~ confirm

\* Bound: sub-items ever created.
RoomFor(payload) == nextItem + FreshBefore(payload, Len(payload) + 1) <= MaxItems + 1

\* What the transaction's statements leave behind: the scores of what is removed go,
\* but for those given after its DELETE had looked.
SyncAssignmentSubItems(payload, left) ==
    /\ RoomFor(payload)
    /\ scores' = [k \in ScoreIds |-> IF k \in left THEN scores[k]
                                      ELSE WithoutScoresOf(scores, Removed(payload))[k]]
    /\ items' = SyncedItems(payload)
    /\ nextItem' = nextItem + FreshBefore(payload, Len(payload) + 1)

\* A transaction that has saved the row holds it until it commits; whoever else
\* writes the row waits.  Nothing holds the scores.
InTransaction(c) == call[c].kind = "update" /\ call[c].step = "sync"
RowIsFree == \A c \in Calls : ~ InTransaction(c)

\* Scores of a removed sub-item that were given after the transaction counted them.
Late(c) == ScoresOf(Removed(call[c].payload)) \ call[c].counted

Saved(c) == [kind |-> "link", step |-> IF call[c].links = Unset THEN "tell" ELSE "unlink",
             links |-> call[c].links, tell |-> call[c].wasDraft /\ ~ call[c].row.draft]

\* UpdateAssignment: the row, then the scores in the way.  They refuse the whole
\* transaction, or it goes on; without a list of sub-items it is over.
SaveAssignment(c) ==
    /\ call[c].kind = "update" /\ call[c].step = "save" /\ RowIsFree
    /\ \/ call[c].payload = Unset /\ row' = call[c].row /\ Set(c, Saved(c))
       \/ /\ call[c].payload # Unset /\ Refused(call[c].payload, call[c].confirm)
          /\ Done(c) /\ UNCHANGED row
       \/ /\ call[c].payload # Unset /\ ~ Refused(call[c].payload, call[c].confirm)
          /\ RoomFor(call[c].payload)
          /\ Set(c, [kind |-> "update", step |-> "sync", row |-> call[c].row,
                     wasDraft |-> call[c].wasDraft, payload |-> call[c].payload,
                     confirm |-> call[c].confirm, links |-> call[c].links,
                     counted |-> ScoresOf(Removed(call[c].payload))])
          /\ UNCHANGED row
    /\ UNCHANGED << items, nextItem, scores, nextScore, clock, requests, links, attended,
                    job, open, now, announced >>

\* ... then its DELETEs and inserts, and the commit that shows all of it.  A score
\* given since the count goes with the DELETE, or comes too late for it and stays.
CommitSubItems(c) ==
    /\ InTransaction(c)
    /\ \E left \in SUBSET Late(c) : SyncAssignmentSubItems(call[c].payload, left)
    /\ row' = call[c].row
    /\ Set(c, Saved(c))
    /\ UNCHANGED << nextScore, clock, requests, links, attended, job, open, now, announced >>

\* The handler that only replaces the links, and LinkAttendanceSessions' two statements.
LinkAttendanceSessionsHandler(c) ==
    /\ Free(c)
    /\ \E link \in SUBSET Sessions :
          Set(c, [kind |-> "link", step |-> "unlink", links |-> link, tell |-> FALSE])
    /\ UNCHANGED << row, items, nextItem, scores, nextScore, clock, requests, links,
                    attended, job, open, now, announced >>

Unlink(c) ==
    /\ call[c].kind = "link" /\ call[c].step = "unlink"
    /\ links' = {}
    /\ Set(c, [call[c] EXCEPT !.step = IF call[c].links = {} THEN "tell" ELSE "relink"])
    /\ UNCHANGED << row, items, nextItem, scores, nextScore, clock, requests, attended,
                    job, open, now, announced >>

\* When the insert fails the handler answers 500: the links stay deleted and a
\* publication it has saved is not announced.
Relink(c) ==
    /\ call[c].kind = "link" /\ call[c].step = "relink"
    /\ \/ links' = call[c].links /\ Set(c, [call[c] EXCEPT !.step = "tell"])
       \/ UNCHANGED links /\ Done(c)
    /\ UNCHANGED << row, items, nextItem, scores, nextScore, clock, requests, attended,
                    job, open, now, announced >>

\* The notification at the end of the update: "new assignment" when this call
\* turned a draft it had read into a published assignment.
Announce == announced < MaxAnnounced /\ announced' = announced + 1

TellCourse(c) ==
    /\ call[c].kind = "link" /\ call[c].step = "tell"
    /\ Done(c)
    /\ IF call[c].tell THEN Announce ELSE UNCHANGED announced
    /\ UNCHANGED << row, items, nextItem, scores, nextScore, clock, requests, links,
                    attended, job, open, now >>

DeleteAssignmentHandler ==
    /\ row.active /\ RowIsFree
    /\ row' = [row EXCEPT !.active = FALSE]
    /\ UNCHANGED << items, nextItem, scores, nextScore, clock, requests, links, attended,
                    call, job, open, now, announced >>

---------------------------------------------------------------------------
\* The minute job that publishes scheduled drafts

Due == row.draft /\ row.active /\ open /\ row.publishAt # NoTime /\ row.publishAt <= now

\* Mutant: the scheduled minute itself does not count.
ListOverdue ==
    /\ job = "idle" /\ Due /\ row.publishAt < now
    /\ job' = "due"
    /\ GradesUnchanged /\ RowUnchanged
    /\ UNCHANGED << requests, attended, call, open, now, announced >>

ListDue ==
    /\ job = "idle" /\ Due
    /\ job' = "due"
    /\ GradesUnchanged /\ RowUnchanged
    /\ UNCHANGED << requests, attended, call, open, now, announced >>

\* The guarded update of one listed row: only is_draft is looked at again.
FlipDue ==
    /\ job = "due" /\ RowIsFree
    /\ IF row.draft
       THEN row' = [row EXCEPT !.draft = FALSE, !.publishAt = NoTime] /\ job' = "flipped"
       ELSE job' = "idle" /\ UNCHANGED row
    /\ GradesUnchanged
    /\ UNCHANGED << items, nextItem, links, requests, attended, call, open, now, announced >>

AnnouncePublished ==
    /\ job = "flipped" /\ Announce /\ job' = "idle"
    /\ GradesUnchanged /\ RowUnchanged
    /\ UNCHANGED << requests, attended, call, open, now >>

\* A restart forgets what the job had listed or flipped.
JobCrash ==
    /\ job # "idle" /\ job' = "idle"
    /\ GradesUnchanged /\ RowUnchanged
    /\ UNCHANGED << requests, attended, call, open, now, announced >>

TimePasses ==
    /\ now < MaxNow /\ now' = now + 1
    /\ GradesUnchanged /\ RowUnchanged
    /\ UNCHANGED << requests, attended, call, job, open, announced >>

\* Closing a course, and opening it again.
SetCourseActive ==
    /\ open' = ~ open
    /\ GradesUnchanged /\ RowUnchanged
    /\ UNCHANGED << requests, attended, call, job, now, announced >>

---------------------------------------------------------------------------
\* Requests to edit a score

Unused == {r \in RequestIds : requests[r] = NoRequest}
PendingRequest(k, new, checked) == [score |-> k, new |-> new, status |-> "pending", checked |-> checked]

\* POST /scores/edit-request looks at no other request.
CreateScoreEditRequestHandler ==
    /\ Unused # {}
    /\ \E k \in Rows(scores), new \in Marks :
          requests' = [requests EXCEPT ![Min(Unused)] = PendingRequest(k, new, FALSE)]
    /\ GradesUnchanged /\ RowUnchanged /\ JobUnchanged
    /\ UNCHANGED << attended, call, announced >>


\* The single, the batch and the detailed batch forms: scores that have a pending
\* request are left out, and the call fails when none is left.
AskForEdit(c, edits) ==
    LET free == {k \in DOMAIN edits : Pending(k) = {}}
    IN  free # {} /\ Set(c, [kind |-> "ask", edits |-> [k \in free |-> edits[k]]])

CreateSingle(c) == \E k \in Rows(scores), new \in Marks : AskForEdit(c, [j \in {k} |-> new])
CreateBatch(c) ==
    \E ids \in SUBSET Rows(scores), new \in Marks : AskForEdit(c, [j \in ids |-> new])
CreateBatchDetailed(c) ==
    \E ids \in SUBSET Rows(scores) : \E edits \in [ids -> Marks] : AskForEdit(c, edits)

CreateScoreEditRequest(c) ==
    /\ Free(c)
    /\ CreateSingle(c) \/ CreateBatch(c) \/ CreateBatchDetailed(c)
    /\ GradesUnchanged /\ RowUnchanged /\ JobUnchanged
    /\ UNCHANGED << requests, attended, announced >>

\* The rows are inserted one after the other, each with the next id.
Place(r) == Cardinality({q \in Unused : q <= r})

InsertRequests(c) ==
    /\ call[c].kind = "ask"
    /\ LET ids == SetToSeq(DOMAIN call[c].edits)
       IN  /\ Len(ids) <= Cardinality(Unused)
           /\ requests' = [r \in RequestIds |->
                 IF r \in Unused /\ Place(r) <= Len(ids)
                 THEN PendingRequest(ids[Place(r)], call[c].edits[ids[Place(r)]], TRUE)
                 ELSE requests[r]]
    /\ Done(c)
    /\ GradesUnchanged /\ RowUnchanged /\ JobUnchanged
    /\ UNCHANGED << attended, announced >>

\* Cancelling reads a pending request, then deletes it by id.
CancelScoreEditRequest(c) ==
    /\ Free(c)
    /\ \E r \in RequestIds : requests[r].status = "pending" /\ Set(c, [kind |-> "cancel", ids |-> {r}])
    /\ GradesUnchanged /\ RowUnchanged /\ JobUnchanged
    /\ UNCHANGED << requests, attended, announced >>

DeleteRequest(c) ==
    /\ call[c].kind = "cancel"
    /\ requests' = [r \in RequestIds |-> IF r \in call[c].ids THEN NoRequest ELSE requests[r]]
    /\ Done(c)
    /\ GradesUnchanged /\ RowUnchanged /\ JobUnchanged
    /\ UNCHANGED << attended, announced >>


\* Mutant: requests of any status are decided.
AnyContexts(ids) == {r \in ids : requests[r] # NoRequest /\ scores[requests[r].score] # NoRow}

\* Approving and rejecting, one request or a batch.  The pending ones whose score
\* still exists are read first, and decided in a later transaction by their ids.
ReviewContexts(ids) == {r \in ids : /\ requests[r].status = "pending"
                                    /\ scores[requests[r].score] # NoRow}

StartReview(c, ids, verdict) ==
    /\ ReviewContexts(ids) # {}
    /\ Set(c, [kind |-> "review", verdict |-> verdict,
               read |-> [r \in ReviewContexts(ids) |-> requests[r]]])

ApproveRequest(c) == \E r \in RequestIds : StartReview(c, {r}, "approved")
RejectRequest(c) == \E r \in RequestIds : StartReview(c, {r}, "rejected")
BatchApprove(c) == \E ids \in SUBSET RequestIds : StartReview(c, ids, "approved")
BatchReject(c) == \E ids \in SUBSET RequestIds : StartReview(c, ids, "rejected")

ReviewScoreEditRequests(c) ==
    /\ Free(c)
    /\ ApproveRequest(c) \/ RejectRequest(c) \/ BatchApprove(c) \/ BatchReject(c)
    /\ GradesUnchanged /\ RowUnchanged /\ JobUnchanged
    /\ UNCHANGED << requests, attended, announced >>

\* Updates by id: of a row that is gone they change nothing.
Apply(S, read) ==
    LET chosen(k) == {r \in DOMAIN read : read[r].score = k}
    IN  [k \in ScoreIds |-> IF S[k] = NoRow \/ chosen(k) = {} THEN S[k]
                            ELSE [S[k] EXCEPT !.mark = read[Max(chosen(k))].new, !.at = clock + 1]]
Decide(read, verdict) ==
    [r \in RequestIds |-> IF r \in DOMAIN read /\ requests[r] # NoRequest
                          THEN [requests[r] EXCEPT !.status = verdict] ELSE requests[r]]

DecideRequests(c) ==
    /\ call[c].kind = "review" /\ clock < MaxWrites
    /\ requests' = Decide(call[c].read, call[c].verdict)
    /\ IF call[c].verdict = "approved"
       THEN scores' = Apply(scores, call[c].read) /\ clock' = clock + 1
       ELSE UNCHANGED << scores, clock >>
    /\ Done(c)
    /\ RowUnchanged /\ JobUnchanged
    /\ UNCHANGED << nextScore, attended, announced >>

\* PUT /scores/edit-requests/:id takes a request of any status, writes the score in
\* one statement and saves the request it has read in another.
ReviewEditRequestHandler(c) ==
    /\ Free(c)
    /\ \E r \in RequestIds, verdict \in {"approved", "rejected"} :
          /\ requests[r] # NoRequest
          /\ Set(c, [kind |-> "rereview", id |-> r, verdict |-> verdict, read |-> requests[r],
                     step |-> IF verdict = "approved" THEN "apply" ELSE "save"])
    /\ GradesUnchanged /\ RowUnchanged /\ JobUnchanged
    /\ UNCHANGED << requests, attended, announced >>

ApplyReviewed(c) ==
    /\ call[c].kind = "rereview" /\ call[c].step = "apply" /\ clock < MaxWrites
    /\ scores' = Apply(scores, [r \in {call[c].id} |-> call[c].read])
    /\ clock' = clock + 1
    /\ Set(c, [call[c] EXCEPT !.step = "save"])
    /\ RowUnchanged /\ JobUnchanged
    /\ UNCHANGED << nextScore, requests, attended, announced >>

SaveReviewed(c) ==
    /\ call[c].kind = "rereview" /\ call[c].step = "save"
    /\ requests' = [requests EXCEPT ![call[c].id] = [call[c].read EXCEPT !.status = call[c].verdict]]
    /\ Done(c)
    /\ GradesUnchanged /\ RowUnchanged /\ JobUnchanged
    /\ UNCHANGED << attended, announced >>

---------------------------------------------------------------------------
\* cmd/repair-orphan-scores: plan from what is there, then apply in one transaction

OrphanIds == {scores[k].item : k \in Orphans(scores, Live)}

\* Runs of consecutive orphaned ids, cut where the next id is missing.
Generations == {run \in SUBSET OrphanIds :
                   /\ run # {} /\ run = Min(run) .. Max(run)
                   /\ Min(run) - 1 \notin OrphanIds /\ Max(run) + 1 \notin OrphanIds}

\* A run as long as the live list is mapped onto it position by position.
Remaps == [k \in UNION {run \in Generations : Cardinality(run) = Len(items)} |->
             LET run == CHOOSE g \in Generations : k \in g
             IN  items[k - Min(run) + 1]]

PlanRepair(c) ==
    /\ Free(c) /\ Remaps # << >>
    /\ Set(c, [kind |-> "repair", remaps |-> Remaps, live |-> Live])
    /\ GradesUnchanged /\ RowUnchanged /\ JobUnchanged
    /\ UNCHANGED << requests, attended, announced >>

\* The newest candidate of a cell wins it; a cell graded again is left alone.
Newer(k, j) == \/ scores[k].at > scores[j].at
               \/ scores[k].at = scores[j].at /\ k > j
Candidates(plan, cell) ==
    {k \in Rows(scores) : /\ scores[k].item \in DOMAIN plan.remaps
                          /\ scores[k].student = cell.student
                          /\ plan.remaps[scores[k].item] = cell.item}

Occupied(plan, cell) == cell.item \in plan.live /\ RowsAt(scores, cell) # {}
Winner(plan, k) == \A j \in Candidates(plan, [student |-> scores[k].student,
                                               item |-> plan.remaps[scores[k].item]]) :
                      j = k \/ Newer(k, j)

Repaired(plan) ==
    [k \in ScoreIds |->
        LET here == scores[k]
            cell == [student |-> here.student, item |-> plan.remaps[here.item]]
        IN  IF here = NoRow \/ here.item \notin DOMAIN plan.remaps \/ Occupied(plan, cell) THEN here
            ELSE IF Winner(plan, k) THEN [here EXCEPT !.item = cell.item]
            ELSE NoRow]

\* A grade committed on the same cell meanwhile makes the index refuse the batch;
\* inside one step that cannot happen.
ApplyRepair(c) ==
    /\ call[c].kind = "repair"
    /\ scores' = Repaired(call[c])
    /\ Done(c)
    /\ RowUnchanged /\ JobUnchanged
    /\ UNCHANGED << nextScore, clock, requests, attended, announced >>

---------------------------------------------------------------------------
\* What the pages show
\* buildScoreMatrixHandlerData: the cells of the grid, and those that hold a score.
GridCells == IF items = << >> THEN {Main} ELSE Live
GridShows(s) == {i \in GridCells : RowsAt(scores, [student |-> s, item |-> i]) # {}}

\* GetScoresHandler: the live sub-items and the assignment's own score.
SheetShows(s) == {i \in Live \cup {Main} : RowsAt(scores, [student |-> s, item |-> i]) # {}}


\* Mutant: without the join, a score of a removed sub-item counts too.
AnyGraded(s) == Cardinality({scores[k].item : k \in {j \in Rows(scores) : scores[j].student = s
                                                                        /\ scores[j].item # Main}})

\* GetUngradedSummaryHandler: the join counts live sub-items only.
LiveGraded(s) == Cardinality({i \in Live : \E k \in Rows(scores) :
                                              scores[k].student = s /\ scores[k].item = i})
HasMainScore(s) == \E k \in Rows(scores) : scores[k].student = s /\ scores[k].item = Main
CountedGraded(s) ==
    IF Len(items) > 0 THEN LiveGraded(s) >= Len(items) ELSE HasMainScore(s)

---------------------------------------------------------------------------
Finishing(c) ==
    \/ LookUpScore(c) \/ WriteScore(c) \/ BulkUpsertScores(c)
    \/ SaveAssignment(c) \/ CommitSubItems(c) \/ Unlink(c) \/ Relink(c) \/ TellCourse(c)
    \/ InsertRequests(c) \/ DeleteRequest(c) \/ DecideRequests(c)
    \/ ApplyReviewed(c) \/ SaveReviewed(c) \/ ApplyRepair(c)

Starting(c) ==
    \/ SubmitScoreHandler(c) \/ SubmitGroupScoreHandler(c) \/ BulkSubmitScoresHandler(c)
    \/ UpdateAssignmentHandler(c) \/ LinkAttendanceSessionsHandler(c)
    \/ CreateScoreEditRequest(c) \/ CancelScoreEditRequest(c)
    \/ ReviewScoreEditRequests(c) \/ ReviewEditRequestHandler(c) \/ PlanRepair(c)

PublishDueScheduledAssignments == ListDue \/ FlipDue \/ AnnouncePublished

Next ==
    \/ \E c \in Calls : Starting(c) \/ Finishing(c)
    \/ DeleteAssignmentHandler \/ CreateScoreEditRequestHandler
    \/ PublishDueScheduledAssignments \/ JobCrash \/ TimePasses \/ SetCourseActive


\* The leader's ticker runs the job every minute; nothing makes clients call.
Spec == Init /\ [][Next]_vars /\ WF_vars(PublishDueScheduledAssignments)

=============================================================================
