---------------------------- MODULE QueueDispatch ----------------------------
(***************************************************************************)
(* The live part of the grading/help queue: students book, teaching        *)
(* assistants (workers) join and leave, the dispatcher hands waiting       *)
(* bookings to free workers as offers that expire, workers accept, decline *)
(* and finish them, and managers and background jobs pause, resume, close, *)
(* link and unlink the queue sessions.                                     *)
(*                                                                         *)
(* Sources: repositories/queue_repo.go, handlers/queue_handler.go and the  *)
(* queue workers of cmd/api/main.go.                                       *)
(*                                                                         *)
(* A step is one database transaction (or one statement, where the code    *)
(* uses none): the rows a transaction touches are locked until it commits. *)
(* Requests that read in one statement and write in a later one are split  *)
(* at that point, and what they remember is in `req`, `cancelling` and     *)
(* `selected`.                                                             *)
(*                                                                         *)
(* Deadlines are compared only with `now`, so a deadline is one of "none", *)
(* running and passed, and the environment lets any running one pass.      *)
(***************************************************************************)
EXTENDS Naturals, FiniteSets

CONSTANTS
  Sessions,       \* queue sessions
  Users,          \* teaching assistants and instructors who take work
  Students,       \* students who book
  Desks,          \* enabled desks of the room
  Bookings,       \* booking ids, in insertion order
  Groups,         \* ids of concurrent groups
  NoUser, NoBooking, NoGroup,   \* SQL NULL in the three kinds of reference
  PauseThreshold, \* queueOfferPauseThreshold (3)
  FairnessMargin, \* queueFairnessLoadMargin (2)
  AcceptChoices   \* the accept_grading/accept_help choices workers make

BookingTypes == {"grading", "help"}

ASSUME QueueAssumption ==
  /\ Sessions # {} /\ Students # {} /\ Desks # {}
  /\ Bookings \subseteq Nat
  /\ NoUser \notin Users
  /\ NoBooking \notin Bookings
  /\ NoGroup \notin Groups
  /\ PauseThreshold \in Nat \ {0}
  /\ FairnessMargin \in Nat
  /\ AcceptChoices \subseteq SUBSET BookingTypes

VARIABLES
  session,    \* queue_sessions: status, concurrent group, link mode, next number
  worker,     \* queue_workers: one row per session and user
  booking,    \* queue_bookings
  board,      \* queue_desk_statuses: per session, desk and booking type
  req,        \* per worker row, the join or leave request in flight
  cancelling, \* per booking, how far a public cancel request has got
  selected    \* per session, the cleanup jobs that have picked it up

vars == <<session, worker, booking, board, req, cancelling, selected>>
-----------------------------------------------------------------------------
(* Rows.  An "absent" row does not exist in its table.                      *)

SessionRow == [status: {"draft", "active", "paused", "closed"},
               group: Groups \cup {NoGroup},
               mode: {"joint", "separated"},
               next: Nat]

WorkerRow == [status: {"absent", "online", "busy", "paused", "offline"},
              cur: Bookings \cup {NoBooking},            \* current_booking_id
              mirror: BOOLEAN,                           \* is_mirror
              accept: SUBSET BookingTypes,
              pause: {"none", "running", "passed"},      \* offer_paused_until
              consec: 0 .. PauseThreshold,               \* consecutive timeouts
              load: Nat]                                 \* completed tasks

BookingRow == [status: {"absent", "waiting", "in_progress", "completed",
                        "cancelled", "no_show"},
               session: Sessions, student: Students, desk: Desks,
               type: BookingTypes,
               number: Nat,                              \* queue_number
               assigned: Users \cup {NoUser},            \* assigned_worker_id
               offer: {"none", "running", "passed"},     \* offer_expires_at
               lastOffer: Users \cup {NoUser},           \* last_offer_worker_id
               recent: BOOLEAN, \* last_offer_timed_out_at within the grace window
               young: BOOLEAN]  \* created within the fairness window

\* "idle" is not_started for grading and none for help.
BoardCell == [status: {"absent", "idle", "waiting", "in_progress", "completed"},
              ref: Bookings \cup {NoBooking}]

NoRow == [status |-> "absent", cur |-> NoBooking, mirror |-> FALSE,
          accept |-> {}, pause |-> "none", consec |-> 0, load |-> 0]

Request == [phase: {"idle", "join", "mirror", "mirrorSave", "leave"},
            snap: WorkerRow,                   \* the row as it was read
            target: SUBSET Sessions,           \* the partner being mirrored to
            status: {"offline", "paused"}]     \* the status being mirrored

NoRequest == [phase |-> "idle", snap |-> NoRow, target |-> {},
              status |-> "offline"]

TypeOK ==
  /\ session \in [Sessions -> SessionRow]
  /\ worker \in [Sessions -> [Users -> WorkerRow]]
  /\ booking \in [Bookings -> BookingRow]
  /\ board \in [Sessions -> [Desks -> [BookingTypes -> BoardCell]]]
  /\ req \in [Sessions -> [Users -> Request]]
  /\ cancelling \in [Bookings -> {"idle", "read", "written"}]
  /\ selected \in [Sessions -> SUBSET {"stale", "abandoned"}]
-----------------------------------------------------------------------------
(* Reading the tables.                                                      *)

\* GetConcurrentSessionIDs: the sessions of s's concurrent group, or just s.
GroupOf(s) ==
  IF session[s].group = NoGroup
  THEN {s}
  ELSE {t \in Sessions : session[t].group = session[s].group}

\* sessionIsSeparatedTx
IsSeparated(s) == session[s].group # NoGroup /\ session[s].mode = "separated"

\* The gate of AssignNextWaitingBookingToWorker counts the group's members.
DispatchSeparated(s) == GroupOf(s) # {s} /\ session[s].mode = "separated"

IsActive(b) == booking[b].status \in {"waiting", "in_progress"}

HasRow(s, u) == worker[s][u].status # "absent"

Row(s, u) == worker[s][u]

\* A row that the dispatcher regards as free.
IsFree(r) == r.status = "online" /\ r.cur = NoBooking /\ r.pause # "running"

\* Mutant of Eligible: mirrors count in a separated group too.
EligibleWithMirrors(w, s, type, noMirrors) ==
  {u \in Users : IsFree(w[s][u]) /\ type \in w[s][u].accept}

\* countEligibleOnlineWorkers, over the worker table w.
Eligible(w, s, type, noMirrors) ==
  {u \in Users : /\ IsFree(w[s][u])
                 /\ type \in w[s][u].accept
                 /\ noMirrors => ~w[s][u].mirror}

LeastLoaded(w, s, S) == {u \in S : \A v \in S : w[s][u].load <= w[s][v].load}

\* Mutant of HasUnfinished: the index covers waiting bookings only.
HasWaiting(s, st) ==
  \E b \in Bookings : /\ booking[b].status = "waiting"
                      /\ booking[b].session = s
                      /\ booking[b].student = st

\* The unique index on the unfinished bookings of a session and student.
HasUnfinished(s, st) ==
  \E b \in Bookings : /\ IsActive(b)
                      /\ booking[b].session = s
                      /\ booking[b].student = st

\* A worker with an unfinished booking in any session of the group of s.
HoldsInGroup(s, u) ==
  \E b \in Bookings : /\ IsActive(b)
                      /\ booking[b].assigned = u
                      /\ booking[b].session \in GroupOf(s)

\* ORDER BY queue_number, created_at, id
FirstInQueue(S) ==
  {b \in S : \A c \in S : \/ booking[b].number < booking[c].number
                          \/ booking[b].number = booking[c].number /\ b <= c}
-----------------------------------------------------------------------------
(* Writing rows.                                                            *)

\* Mutant of Offered: the offer gets no deadline.
OfferedForGood(bk, u) ==
  [bk EXCEPT !.status = "waiting", !.assigned = u, !.offer = "none",
             !.lastOffer = u, !.recent = FALSE]

\* assignBookingOfferToWorker
Offered(bk, u) ==
  [bk EXCEPT !.status = "waiting", !.assigned = u, !.offer = "running",
             !.lastOffer = u, !.recent = FALSE]

\* assignBookingDirectToWorker
StartedBy(bk, u) ==
  [bk EXCEPT !.status = "in_progress", !.assigned = u, !.offer = "none",
             !.lastOffer = u, !.recent = FALSE]

\* What a timeout, a decline and a leaving worker do to the offer they hold.
Returned(bk, u) ==
  [bk EXCEPT !.assigned = NoUser, !.offer = "none", !.lastOffer = u,
             !.recent = TRUE]

\* UPDATE queue_workers ... WHERE session and user: nothing if there is no row.
PutRow(w, s, u, r) ==
  IF w[s][u].status = "absent" THEN w ELSE [w EXCEPT ![s][u] = r]

Busy(r, b) == [r EXCEPT !.status = "busy", !.cur = b]

Working(r, b) == [r EXCEPT !.status = "busy", !.cur = b, !.consec = 0]

\* updateDeskStatus: nothing if the session has no row for the desk.
Post(bd, b, status, ref) ==
  LET s == booking[b].session
      d == booking[b].desk
      t == booking[b].type
  IN  IF bd[s][d][t].status = "absent"
      THEN bd
      ELSE [bd EXCEPT ![s][d][t] = [status |-> status, ref |-> ref]]

\* syncHelpDeskStatus, over the booking table bk: the latest help task in
\* progress at b's desk (which one is left open), else the oldest waiting one.
HelpAt(bk, b, status) ==
  {c \in Bookings : /\ bk[c].status = status
                    /\ bk[c].type = "help"
                    /\ bk[c].session = booking[b].session
                    /\ bk[c].desk = booking[b].desk}

HelpSynced(bk, b) ==
  LET doing == HelpAt(bk, b, "in_progress")
      lined == HelpAt(bk, b, "waiting")
  IN  IF doing # {}
      THEN {Post(board, b, "in_progress", c) : c \in doing}
      ELSE IF lined # {}
           THEN {Post(board, b, "waiting", c) :
                   c \in {x \in lined : \A y \in lined : x <= y}}
           ELSE {Post(board, b, "idle", NoBooking)}

\* Mutant of BoardAfter: the desk keeps showing the booking.
BoardUntouched(bk, b, gradingStatus, gradingRef) == {board}

\* The board after booking b ends, bk being the bookings after that.
BoardAfter(bk, b, gradingStatus, gradingRef) ==
  IF booking[b].type = "grading"
  THEN {Post(board, b, gradingStatus, gradingRef)}
  ELSE HelpSynced(bk, b)

\* forceWorkersOfflineBySession
ForcedOffline(s) ==
  [worker EXCEPT ![s] =
     [u \in Users |->
        IF HasRow(s, u)
        THEN [Row(s, u) EXCEPT !.status = "offline", !.cur = NoBooking,
                               !.pause = "none", !.consec = 0]
        ELSE Row(s, u)]]

\* Mutant of WaitingCancelled: tasks in progress are cancelled as well.
UnfinishedCancelled(s) ==
  [b \in Bookings |->
     IF booking[b].session = s /\ IsActive(b)
     THEN [booking[b] EXCEPT !.status = "cancelled"]
     ELSE booking[b]]

\* Both automatic close jobs cancel the waiting bookings of the session.
WaitingCancelled(s) ==
  [b \in Bookings |->
     IF booking[b].session = s /\ booking[b].status = "waiting"
     THEN [booking[b] EXCEPT !.status = "cancelled"]
     ELSE booking[b]]
-----------------------------------------------------------------------------
(* Students.                                                                *)

(***************************************************************************)
(* CreateBooking: reserveNextQueueNumber only updates an active session,   *)
(* and the unique index on unfinished bookings refuses a second one of the *)
(* student in the session.  A help booking leaves the desk row alone.      *)
(***************************************************************************)
CreateBooking(s, st, d, type, b) ==
  /\ session[s].status = "active"
  /\ ~HasUnfinished(s, st)
  /\ booking[b].status = "absent"
  /\ \A c \in Bookings : c < b => booking[c].status # "absent"
  /\ booking' = [booking EXCEPT ![b] =
       [status |-> "waiting", session |-> s, student |-> st, desk |-> d,
        type |-> type, number |-> session[s].next, assigned |-> NoUser,
        offer |-> "none", lastOffer |-> NoUser, recent |-> FALSE,
        young |-> TRUE]]
  /\ session' = [session EXCEPT ![s].next = @ + 1]
  /\ board' = IF type = "grading" /\ board[s][d][type].status # "absent"
              THEN [board EXCEPT ![s][d][type] =
                      [status |-> "waiting", ref |-> b]]
              ELSE board
  /\ UNCHANGED <<worker, req, cancelling, selected>>

\* CancelBooking, the student's own cancel: one transaction.  The worker who
\* holds the booking as an offer is not told.
CancelBooking(b) ==
  /\ booking[b].status = "waiting"
  /\ booking' = [booking EXCEPT ![b].status = "cancelled"]
  /\ board' \in BoardAfter(booking', b, "idle", NoBooking)
  /\ UNCHANGED <<session, worker, req, cancelling, selected>>

(***************************************************************************)
(* CancelQueueBookingPublicHandler: reads the booking, refuses unless it   *)
(* is waiting, then writes the booking and then the desk, without a        *)
(* transaction and without looking at the status again.                    *)
(***************************************************************************)
PublicCancelRead(b) ==
  /\ cancelling[b] = "idle"
  /\ booking[b].status = "waiting"
  /\ cancelling' = [cancelling EXCEPT ![b] = "read"]
  /\ UNCHANGED <<session, worker, booking, board, req, selected>>

PublicCancelWrite(b) ==
  /\ cancelling[b] = "read"
  /\ booking' = [booking EXCEPT ![b].status = "cancelled"]
  /\ cancelling' = [cancelling EXCEPT ![b] = "written"]
  /\ UNCHANGED <<session, worker, board, req, selected>>

PublicCancelDesk(b) ==
  /\ cancelling[b] = "written"
  /\ board' \in BoardAfter(booking, b, "idle", NoBooking)
  /\ cancelling' = [cancelling EXCEPT ![b] = "idle"]
  /\ UNCHANGED <<session, worker, booking, req, selected>>
-----------------------------------------------------------------------------
(* Workers joining and leaving.                                             *)

\* The columns WorkerJoin and WorkerJoinMirrorGroup save back as they read
\* them; they overwrite the others.
Snapshot(r) ==
  IF r.status = "absent"
  THEN NoRow
  ELSE [r EXCEPT !.status = "online", !.accept = {}, !.pause = "none",
                 !.consec = 0]

NewRow(accept, mirror) ==
  [NoRow EXCEPT !.status = "online", !.accept = accept, !.mirror = mirror]

\* WorkerJoin, first statement: load the worker's row.
JoinRead(s, u) ==
  /\ req[s][u].phase = "idle"
  /\ req' = [req EXCEPT ![s][u] = [NoRequest EXCEPT !.phase = "join",
                                                    !.snap = Snapshot(Row(s, u))]]
  /\ UNCHANGED <<session, worker, booking, board, cancelling, selected>>

(***************************************************************************)
(* WorkerJoin, second statement.  No row was read: insert one, or, if a    *)
(* mirror row arrived in between, only promote it.  A row was read: save   *)
(* all its columns, current_booking_id and the counters as they were read. *)
(***************************************************************************)
JoinSave(s, u, accept) ==
  LET snap == req[s][u].snap IN
  /\ req[s][u].phase = "join"
  /\ worker' = [worker EXCEPT ![s][u] =
       IF snap.status # "absent"
       THEN [snap EXCEPT !.accept = accept, !.mirror = FALSE]
       ELSE IF HasRow(s, u)
            THEN [@ EXCEPT !.mirror = FALSE]
            ELSE NewRow(accept, FALSE)]
  /\ req' = [req EXCEPT ![s][u] =
       IF GroupOf(s) = {s} THEN NoRequest
       ELSE [NoRequest EXCEPT !.phase = "mirror", !.snap.accept = accept]]
  /\ UNCHANGED <<session, booking, board, cancelling, selected>>

\* WorkerJoinMirrorGroup for the partner session t (a group has at most two
\* sessions): load the row; the request's own choice stays in snap.accept.
MirrorRead(s, t, u) ==
  /\ req[s][u].phase = "mirror"
  /\ t \in GroupOf(s) \ {s}
  /\ req' = [req EXCEPT ![s][u] =
       [@ EXCEPT !.phase = "mirrorSave", !.target = {t},
                 !.snap = [Snapshot(Row(t, u)) EXCEPT
                             !.accept = req[s][u].snap.accept]]]
  /\ UNCHANGED <<session, worker, booking, board, cancelling, selected>>

\* ... then insert the mirror row unless there is one, or save back the row
\* that was read, is_mirror, current_booking_id and counters included.
MirrorSave(s, t, u) ==
  LET snap == req[s][u].snap IN
  /\ req[s][u].phase = "mirrorSave"
  /\ t \in req[s][u].target
  /\ worker' = [worker EXCEPT ![t][u] =
       IF snap.status # "absent" THEN snap
       ELSE IF HasRow(t, u) THEN @ ELSE NewRow(snap.accept, TRUE)]
  /\ req' = [req EXCEPT ![s][u] = NoRequest]
  /\ UNCHANGED <<session, booking, board, cancelling, selected>>

\* The group was dissolved meanwhile, or a statement failed: WorkerJoinHandler
\* only logs that and carries on.
MirrorGivenUp(s, u) ==
  /\ req[s][u].phase \in {"mirror", "mirrorSave"}
  /\ req' = [req EXCEPT ![s][u] = NoRequest]
  /\ UNCHANGED <<session, worker, booking, board, cancelling, selected>>

(***************************************************************************)
(* WorkerLeave: a task in progress anywhere in the group only pauses the   *)
(* worker; otherwise every offer they hold in the group is returned and    *)
(* their row in this session goes offline.  WorkerLeaveHandler then copies *)
(* the new status to the partner's row in a goroutine.                     *)
(***************************************************************************)
OffersHeld(s, u) ==
  {b \in Bookings : /\ booking[b].status = "waiting"
                    /\ booking[b].assigned = u
                    /\ booking[b].session \in GroupOf(s)}

LeaveStatus(s, u) ==
  IF \E b \in Bookings : /\ booking[b].status = "in_progress"
                         /\ booking[b].assigned = u
                         /\ booking[b].session \in GroupOf(s)
  THEN "paused" ELSE "offline"

SameCell(b, c) ==
  /\ booking[b].session = booking[c].session
  /\ booking[b].desk = booking[c].desk
  /\ booking[b].type = booking[c].type

\* updateDeskStatus for each booking of S, in no particular order: where two
\* share a cell of the board, either may be posted last.
LastPosted(S) ==
  {L \in SUBSET S : /\ \A b \in S : \E c \in L : SameCell(b, c)
                    /\ \A b, c \in L : SameCell(b, c) => b = c}

ReturnedToBoard(L) ==
  [s \in Sessions |-> [d \in Desks |-> [t \in BookingTypes |->
     LET here == {b \in L : /\ booking[b].session = s
                            /\ booking[b].desk = d
                            /\ booking[b].type = t}
     IN  IF here = {} \/ board[s][d][t].status = "absent"
         THEN board[s][d][t]
         ELSE [status |-> "waiting", ref |-> CHOOSE b \in here : TRUE]]]]

WorkerLeave(s, u) ==
  /\ HasRow(s, u)
  /\ req[s][u].phase = "idle"
  /\ \/ /\ LeaveStatus(s, u) = "paused"
        /\ worker' = [worker EXCEPT ![s][u].status = "paused"]
        /\ UNCHANGED <<booking, board>>
     \/ /\ LeaveStatus(s, u) = "offline"
        /\ booking' = [b \in Bookings |->
                         IF b \in OffersHeld(s, u)
                         THEN Returned(booking[b], u)
                         ELSE booking[b]]
        /\ \E L \in LastPosted(OffersHeld(s, u)) : board' = ReturnedToBoard(L)
        /\ worker' = [worker EXCEPT ![s][u] =
                        [@ EXCEPT !.status = "offline", !.cur = NoBooking,
                                  !.pause = "none", !.consec = 0]]
  /\ req' = [req EXCEPT ![s][u] =
       IF GroupOf(s) = {s} THEN NoRequest
       ELSE [NoRequest EXCEPT !.phase = "leave", !.status = LeaveStatus(s, u)]]
  /\ UNCHANGED <<session, cancelling, selected>>

\* WorkerOfflineMirrorGroup
LeaveMirror(s, u) ==
  /\ req[s][u].phase = "leave"
  /\ worker' = [t \in Sessions |->
       IF t \in GroupOf(s) \ {s} /\ HasRow(t, u)
       THEN [worker[t] EXCEPT ![u].status = req[s][u].status]
       ELSE worker[t]]
  /\ req' = [req EXCEPT ![s][u] = NoRequest]
  /\ UNCHANGED <<session, booking, board, cancelling, selected>>
-----------------------------------------------------------------------------
(* Dispatching.                                                             *)

\* The pause of a row taken offline by its timeouts is over: back online.
Revived(s, u) ==
  IF Row(s, u).pause = "passed" /\ Row(s, u).status = "offline"
  THEN [worker EXCEPT ![s][u] =
          [@ EXCEPT !.status = "online", !.pause = "none", !.consec = 0]]
  ELSE worker

\* The unassigned bookings of the types r accepts, as asked for from session s.
OpenTo(s, r) ==
  IF DispatchSeparated(s) /\ r.mirror
  THEN {}
  ELSE {b \in Bookings :
          /\ booking[b].status = "waiting"
          /\ booking[b].assigned = NoUser
          /\ booking[b].session \in
               IF DispatchSeparated(s) THEN {s} ELSE GroupOf(s)
          /\ booking[b].type \in r.accept}

\* Mutant of Offerable: when it was let go is not looked at.
OfferableOnce(s, u, r) == {b \in OpenTo(s, r) : booking[b].lastOffer # u}

\* The waiting bookings u may take: never one u let go within the grace window.
Offerable(s, u, r) ==
  {b \in OpenTo(s, r) : ~(booking[b].lastOffer = u /\ booking[b].recent)}

\* The fairness gate: while b is young, a worker with clearly more completed
\* tasks than some free one is declined.
Declined(w, s, b, r) ==
  LET pool == Eligible(w, booking[b].session, booking[b].type,
                       DispatchSeparated(s))
  IN  /\ booking[b].young
      /\ Cardinality(pool) > 1
      /\ \E v \in pool :
           r.load >= w[booking[b].session][v].load + FairnessMargin

\* Who gets b once u has been chosen: the row of b's own session.
Hand(w, s, u, b) ==
  LET t    == booking[b].session
      pool == Eligible(w, t, booking[b].type, DispatchSeparated(s))
  IN  IF Cardinality(pool) = 1
      THEN /\ booking' = [booking EXCEPT ![b] = StartedBy(@, u)]
           /\ worker' = PutRow(w, t, u, Working(w[t][u], b))
           /\ board' = Post(board, b, "in_progress", b)
      ELSE /\ booking' = [booking EXCEPT ![b] = Offered(@, u)]
           /\ worker' = PutRow(w, t, u, Busy(w[t][u], b))
           /\ board' = Post(board, b, "waiting", b)

(***************************************************************************)
(* AssignNextWaitingBookingToWorker, on behalf of u in session s: asked    *)
(* for by the worker's own requests and by the dispatch loop.              *)
(***************************************************************************)
AssignNext(s, u) ==
  LET w == Revived(s, u)
      r == w[s][u]
  IN  /\ HasRow(s, u)
      /\ Row(s, u).pause # "running"
      /\ \/ /\ ~HoldsInGroup(s, u)
            /\ r.status = "online"
            /\ \E b \in FirstInQueue(Offerable(s, u, r)) :
                 /\ ~Declined(w, s, b, r)
                 /\ Hand(w, s, u, b)
         \/ /\ \/ HoldsInGroup(s, u)
               \/ r.status # "online"
               \/ \A b \in FirstInQueue(Offerable(s, u, r)) :
                     Declined(w, s, b, r)
            /\ w # worker
            /\ worker' = w
            /\ UNCHANGED <<booking, board>>
      /\ UNCHANGED <<session, req, cancelling, selected>>

(***************************************************************************)
(* One round of the loop of ProcessQueueOfferTimeouts.  The expired offers *)
(* are read FOR UPDATE SKIP LOCKED, so a transaction may see any of them;  *)
(* a worker row missing for one of them makes the whole sweep of the       *)
(* session fail.                                                           *)
(***************************************************************************)
Expired(s) ==
  {b \in Bookings : /\ booking[b].session = s
                    /\ booking[b].status = "waiting"
                    /\ booking[b].assigned # NoUser
                    /\ booking[b].offer = "passed"}

\* Losing the offer frees the worker but never makes them more available, and
\* too many in a row take an available one offline for a while.
AfterTimeout(r) ==
  LET ready  == r.status \notin {"paused", "offline"}
      struck == ready /\ r.consec + 1 >= PauseThreshold
  IN  [r EXCEPT
         !.status = IF struck THEN "offline" ELSE IF ready THEN "online" ELSE @,
         !.cur    = NoBooking,
         !.pause  = IF struck THEN "running" ELSE @,
         !.consec = IF struck THEN 0
                    ELSE IF @ < PauseThreshold THEN @ + 1 ELSE @]

ProcessOfferTimeout(s, b) ==
  LET u    == booking[b].assigned
      w    == [worker EXCEPT ![s][u] = AfterTimeout(@)]
      back == Returned(booking[b], u)
      pool == Eligible(w, s, booking[b].type, IsSeparated(s)) \ {u}
  IN  /\ b \in Expired(s)
      /\ \A c \in Expired(s) : HasRow(s, booking[c].assigned)
      /\ \/ /\ pool = {}
            /\ booking' = [booking EXCEPT ![b] = back]
            /\ worker' = w
            /\ UNCHANGED board
         \/ \E v \in LeastLoaded(w, s, pool) :
              /\ booking' = [booking EXCEPT ![b] = Offered(back, v)]
              /\ worker' = [w EXCEPT ![s][v] = Busy(@, b)]
              /\ board' = Post(board, b, "waiting", b)
      /\ UNCHANGED <<session, req, cancelling, selected>>
-----------------------------------------------------------------------------
(* Workers answering an offer and finishing a task (WorkerUpdateBooking).   *)

(***************************************************************************)
(* lockWorkerRowForBookingSession: the worker tables with u's row in s,    *)
(* inserted as a mirror of one of the group's rows if it is missing; none  *)
(* if u is not a worker of the group.                                      *)
(***************************************************************************)
RowLocked(s, u) ==
  IF HasRow(s, u)
  THEN {worker}
  ELSE {[worker EXCEPT ![s][u] =
           [NoRow EXCEPT !.status = Row(o, u).status,
                         !.accept = Row(o, u).accept, !.mirror = TRUE]] :
          o \in {t \in GroupOf(s) : HasRow(t, u)}}

\* An offer can be accepted by its holder until its deadline.
MayStart(b, u) ==
  /\ booking[b].status = "waiting"
  /\ booking[b].assigned = u
  /\ booking[b].offer # "passed"

\* Accepting an offer; a mirror worker of a separated group is refused.
Start(b, u) ==
  LET s == booking[b].session IN
  \E w \in RowLocked(s, u) :
    /\ MayStart(b, u)
    /\ ~(w[s][u].mirror /\ IsSeparated(s))
    /\ booking' = [booking EXCEPT ![b].status = "in_progress",
                                  ![b].offer = "none"]
    /\ worker' = [w EXCEPT ![s][u] = Working(@, b)]
    /\ board' = Post(board, b, "in_progress", b)
    /\ UNCHANGED <<session, req, cancelling, selected>>

\* A worker who declines stays paused if they were, and is online otherwise,
\* offline before or not.
Unburdened(r) ==
  [r EXCEPT !.cur = NoBooking,
            !.status = IF @ = "paused" THEN "paused" ELSE "online"]

Reject(b, u) ==
  LET s == booking[b].session IN
  \E w \in RowLocked(s, u) :
    /\ booking[b].status = "waiting"
    /\ booking[b].assigned = u
    /\ booking' = [booking EXCEPT ![b] = Returned(@, u)]
    /\ worker' = [w EXCEPT ![s][u] = Unburdened(@)]
    /\ board' = Post(board, b, "waiting", b)
    /\ UNCHANGED <<session, req, cancelling, selected>>

\* Once a task is over, a worker who had stopped taking work goes offline, any
\* other is free again.
Freed(r, credit) ==
  [r EXCEPT !.cur = NoBooking,
            !.status = IF @ = "paused" THEN "offline" ELSE "online",
            !.load = @ + credit]

\* The common part of completing a task and of reporting a no-show.
Finish(b, u, status, credit, gradingStatus, gradingRef) ==
  LET s == booking[b].session IN
  \E w \in RowLocked(s, u) :
    /\ booking[b].status = "in_progress"
    /\ booking[b].assigned = u
    /\ booking' = [booking EXCEPT ![b].status = status]
    /\ worker' = [w EXCEPT ![s][u] = Freed(@, credit)]
    /\ board' \in BoardAfter(booking', b, gradingStatus, gradingRef)
    /\ UNCHANGED <<session, req, cancelling, selected>>

Complete(b, u) == Finish(b, u, "completed", 1, "idle", NoBooking)

\* Mutant of NoShow: it counts as a finished task.
NoShowCredited(b, u) == Finish(b, u, "no_show", 1, "idle", NoBooking)

NoShow(b, u) == Finish(b, u, "no_show", 0, "idle", NoBooking)

\* CompleteBookingWithScores: the desk is locked as completed when the scores
\* given leave nothing of the linked assignment ungraded.
CompleteWithScores(b, u) ==
  /\ booking[b].type = "grading"
  /\ Finish(b, u, "completed", 1, "completed", b)
-----------------------------------------------------------------------------
(* Sessions.  The /start, /pause, /resume and /close routes look at no      *)
(* status; nor do the writes behind the /status route.                      *)

\* StartQueueSession: desks that already have a row keep it.
StartSession(s) ==
  /\ session' = [session EXCEPT ![s].status = "active"]
  /\ board' = [board EXCEPT ![s] = [d \in Desks |-> [t \in BookingTypes |->
       IF board[s][d][t].status = "absent"
       THEN [status |-> "idle", ref |-> NoBooking]
       ELSE board[s][d][t]]]]
  /\ UNCHANGED <<worker, booking, req, cancelling, selected>>

\* PauseQueueSession: one statement for the whole group.
PauseSession(s) ==
  /\ session' = [t \in Sessions |->
       IF t \in GroupOf(s) THEN [session[t] EXCEPT !.status = "paused"]
       ELSE session[t]]
  /\ UNCHANGED <<worker, booking, board, req, cancelling, selected>>

\* ResumeQueueSession: one statement per session of the group, and it stops
\* at the first that fails.
ResumeSession(s) ==
  /\ \E done \in SUBSET GroupOf(s) \ {{}} :
       session' = [t \in Sessions |->
         IF t \in done THEN [session[t] EXCEPT !.status = "active"]
         ELSE session[t]]
  /\ UNCHANGED <<worker, booking, board, req, cancelling, selected>>

\* CloseQueueSession: dissolves the group, leaves link_mode and the bookings
\* alone, takes the session's workers offline.
CloseSession(s) ==
  /\ session' = [t \in Sessions |->
       [session[t] EXCEPT
          !.group  = IF t \in GroupOf(s) THEN NoGroup ELSE @,
          !.status = IF t = s THEN "closed" ELSE @]]
  /\ worker' = ForcedOffline(s)
  /\ UNCHANGED <<booking, board, req, cancelling, selected>>

\* AutoCloseStaleQueueSessions and AutoCloseAbandonedPausedQueueSessions list
\* their sessions first.  How old a session is does not matter here: any open
\* one may have been left open overnight, any paused one may have lost its
\* projector.
SelectForCleanup(s, job) ==
  /\ \/ job = "stale" /\ session[s].status \in {"active", "paused"}
     \/ job = "abandoned" /\ session[s].status = "paused"
  /\ job \notin selected[s]
  /\ selected' = [selected EXCEPT ![s] = @ \cup {job}]
  /\ UNCHANGED <<session, worker, booking, board, req, cancelling>>

\* ... and then close each in a transaction of its own; only the abandoned
\* job looks at the status again, and only for the session row.
CleanUp(s, job) ==
  /\ job \in selected[s]
  /\ booking' = WaitingCancelled(s)
  /\ session' = IF job = "stale" \/ session[s].status = "paused"
                THEN [session EXCEPT ![s].status = "closed"]
                ELSE session
  /\ worker' = ForcedOffline(s)
  /\ selected' = [selected EXCEPT ![s] = @ \ {job}]
  /\ UNCHANGED <<board, req, cancelling>>
-----------------------------------------------------------------------------
(* Concurrent groups: two sessions of one room and one instructor, given by *)
(* two courses.                                                             *)

\* mirrorWorkersBetweenSessionsTx: each worker of one gets a row in the other.
Mirrored(s, t) ==
  [worker EXCEPT ![t] = [u \in Users |->
     IF HasRow(s, u) /\ ~HasRow(t, u)
     THEN [NoRow EXCEPT !.status = Row(s, u).status,
                        !.accept = Row(s, u).accept, !.mirror = TRUE]
     ELSE Row(t, u)]]

LinkSessions(s, t, mode, g) ==
  /\ s # t
  /\ \/ /\ session[s].group = NoGroup
        /\ session[t].group = NoGroup
        /\ \A x \in Sessions : session[x].group # g
        /\ session' = [x \in Sessions |->
             IF x \in {s, t} THEN [session[x] EXCEPT !.group = g, !.mode = mode]
             ELSE session[x]]
        /\ worker' = [worker EXCEPT ![s] = Mirrored(t, s)[s],
                                    ![t] = Mirrored(s, t)[t]]
     \/ /\ session[s].group = g
        /\ session[t].group = g
        /\ session' = [x \in Sessions |->
             IF session[x].group = g THEN [session[x] EXCEPT !.mode = mode]
             ELSE session[x]]
        /\ UNCHANGED worker
  /\ UNCHANGED <<booking, board, req, cancelling, selected>>

\* UnlinkConcurrentSession clears the whole group.
UnlinkSession(s) ==
  /\ session[s].group # NoGroup
  /\ session' = [t \in Sessions |->
       IF t \in GroupOf(s)
       THEN [session[t] EXCEPT !.group = NoGroup, !.mode = "joint"]
       ELSE session[t]]
  /\ UNCHANGED <<worker, booking, board, req, cancelling, selected>>

\* SetConcurrentGroupMode
SetMode(s, mode) ==
  /\ session[s].group # NoGroup
  /\ session' = [t \in Sessions |->
       IF t \in GroupOf(s) THEN [session[t] EXCEPT !.mode = mode]
       ELSE session[t]]
  /\ UNCHANGED <<worker, booking, board, req, cancelling, selected>>
-----------------------------------------------------------------------------
(* The clock.                                                               *)

\* queueOfferTimeoutSeconds (90 s) after the offer was made.
OfferPasses(b) ==
  /\ booking[b].status = "waiting"
  /\ booking[b].offer = "running"
  /\ booking' = [booking EXCEPT ![b].offer = "passed"]
  /\ UNCHANGED <<session, worker, board, req, cancelling, selected>>

\* queueOfferReassignGraceWindow after the offer was let go.
GraceEnds(b) ==
  /\ booking[b].status = "waiting"
  /\ booking[b].recent
  /\ booking' = [booking EXCEPT ![b].recent = FALSE]
  /\ UNCHANGED <<session, worker, board, req, cancelling, selected>>

\* queueFairnessGraceWindow after the booking was created.
BookingAges(b) ==
  /\ booking[b].status = "waiting"
  /\ booking[b].young
  /\ booking' = [booking EXCEPT ![b].young = FALSE]
  /\ UNCHANGED <<session, worker, board, req, cancelling, selected>>

\* queueOfferPauseDuration after the worker was taken offline.
PausePasses(s, u) ==
  /\ Row(s, u).pause = "running"
  /\ worker' = [worker EXCEPT ![s][u].pause = "passed"]
  /\ UNCHANGED <<session, booking, board, req, cancelling, selected>>
-----------------------------------------------------------------------------
\* A booking id not yet given out; nothing reads its fields but the status.
NoBookingRow ==
  [status |-> "absent", session |-> CHOOSE s \in Sessions : TRUE,
   student |-> CHOOSE st \in Students : TRUE,
   desk |-> CHOOSE d \in Desks : TRUE, type |-> "grading",
   number |-> 0, assigned |-> NoUser, offer |-> "none",
   lastOffer |-> NoUser, recent |-> FALSE, young |-> FALSE]

Init ==
  /\ session = [s \in Sessions |-> [status |-> "draft", group |-> NoGroup,
                                    mode |-> "joint", next |-> 1]]
  /\ worker = [s \in Sessions |-> [u \in Users |-> NoRow]]
  /\ booking = [b \in Bookings |-> NoBookingRow]
  /\ board = [s \in Sessions |-> [d \in Desks |-> [t \in BookingTypes |->
                [status |-> "absent", ref |-> NoBooking]]]]
  /\ req = [s \in Sessions |-> [u \in Users |-> NoRequest]]
  /\ cancelling = [b \in Bookings |-> "idle"]
  /\ selected = [s \in Sessions |-> {}]

StudentNext ==
  \/ \E s \in Sessions, st \in Students, d \in Desks, type \in BookingTypes,
        b \in Bookings : CreateBooking(s, st, d, type, b)
  \/ \E b \in Bookings : CancelBooking(b)

PublicCancelNext ==
  \E b \in Bookings : \/ PublicCancelRead(b)
                      \/ PublicCancelWrite(b)
                      \/ PublicCancelDesk(b)

WorkerNext ==
  \E s \in Sessions, u \in Users :
    \/ JoinRead(s, u)
    \/ \E accept \in AcceptChoices : JoinSave(s, u, accept)
    \/ \E t \in Sessions : MirrorRead(s, t, u) \/ MirrorSave(s, t, u)
    \/ MirrorGivenUp(s, u)
    \/ WorkerLeave(s, u)
    \/ LeaveMirror(s, u)

TaskNext ==
  \E b \in Bookings, u \in Users :
    \/ Start(b, u)
    \/ Reject(b, u)
    \/ Complete(b, u)
    \/ NoShow(b, u)
    \/ CompleteWithScores(b, u)

DispatchNext ==
  \E s \in Sessions :
    \/ \E u \in Users : AssignNext(s, u)
    \/ \E b \in Bookings : ProcessOfferTimeout(s, b)

SessionNext ==
  \E s \in Sessions :
    \/ StartSession(s)
    \/ PauseSession(s)
    \/ ResumeSession(s)
    \/ CloseSession(s)

CleanupNext ==
  \E s \in Sessions, job \in {"stale", "abandoned"} :
    \/ SelectForCleanup(s, job)
    \/ CleanUp(s, job)

GroupNext ==
  \E s \in Sessions :
    \/ \E t \in Sessions, mode \in {"joint", "separated"}, g \in Groups :
         LinkSessions(s, t, mode, g)
    \/ UnlinkSession(s)
    \/ \E mode \in {"joint", "separated"} : SetMode(s, mode)

Tick ==
  \/ \E b \in Bookings : OfferPasses(b) \/ GraceEnds(b) \/ BookingAges(b)
  \/ \E s \in Sessions, u \in Users : PausePasses(s, u)

Next ==
  \/ StudentNext
  \/ PublicCancelNext
  \/ WorkerNext
  \/ TaskNext
  \/ DispatchNext
  \/ SessionNext
  \/ CleanupNext
  \/ GroupNext
  \/ Tick

Spec == Init /\ [][Next]_vars
-----------------------------------------------------------------------------
(* The background worker of main.go sweeps every active session: it expires *)
(* offers, then, if an unassigned booking waits there, asks on behalf of    *)
(* each worker who looks free.                                              *)

SweepTimeout(s, b) ==
  /\ session[s].status = "active"
  /\ ProcessOfferTimeout(s, b)

SweepDispatch(s, u) ==
  /\ session[s].status = "active"
  /\ \E b \in Bookings : /\ booking[b].session = s
                         /\ booking[b].status = "waiting"
                         /\ booking[b].assigned = NoUser
  /\ IsFree(Row(s, u))
  /\ AssignNext(s, u)

\* The ticker fires for ever on the leader, and time passes.  Nobody is obliged
\* to make a request.
Fairness ==
  /\ \A s \in Sessions : /\ \A b \in Bookings : WF_vars(SweepTimeout(s, b))
                         /\ \A u \in Users : /\ WF_vars(SweepDispatch(s, u))
                                             /\ WF_vars(PausePasses(s, u))
  /\ \A b \in Bookings : /\ WF_vars(OfferPasses(b))
                         /\ WF_vars(GraceEnds(b))
                         /\ WF_vars(BookingAges(b))

FairSpec == Spec /\ Fairness
-----------------------------------------------------------------------------
(* Safety.                                                                  *)

HasDeadline(r) ==
  /\ r.status = "waiting" => (r.assigned = NoUser <=> r.offer = "none")
  /\ r.status = "in_progress" => r.assigned # NoUser /\ r.offer = "none"

\* An offer can always be taken back: a booking that waits on a worker carries
\* the deadline ProcessQueueOfferTimeouts looks for, one that waits on nobody
\* carries none, and a task in progress is somebody's.
OfferHasDeadline == \A b \in Bookings : HasDeadline(booking[b])

\* A student has one unfinished booking per session, whatever cancels,
\* timeouts and reassignments do to it.
OneActivePerStudent ==
  \A b, c \in Bookings :
    (/\ IsActive(b)
     /\ IsActive(c)
     /\ booking[b].session = booking[c].session
     /\ booking[b].student = booking[c].student) => b = c

\* Every unfinished booking has somebody who moves it on: the worker on it, the sweep
\* that finds its deadline, or the dispatcher; and its student has no other, as the
\* unique index sees only the insertion of what timeouts and takeovers rewrite later.
BookingsAreSound == OfferHasDeadline /\ OneActivePerStudent

\* The projector never shows a ghost: a desk shown as waiting or in progress
\* points at an unfinished booking of that desk which is in that very state.
\* (The automatic closing jobs and the public cancel are the exceptions, and
\* the runs that check this leave them out.)
NoGhostOnBoard ==
  \A s \in Sessions, d \in Desks, t \in BookingTypes :
    LET cell == board[s][d][t] IN
    cell.status \in {"waiting", "in_progress"} =>
      /\ cell.ref \in Bookings
      /\ booking[cell.ref].status = cell.status
      /\ booking[cell.ref].session = s
      /\ booking[cell.ref].desk = d
      /\ booking[cell.ref].type = t

\* The counters that the fairness gate compares never credit a worker with more
\* than the tasks they finished, although joining saves them back as read.
CreditIsEarned ==
  \A s \in Sessions, u \in Users :
    Row(s, u).load <= Cardinality({b \in Bookings :
                                     /\ booking[b].status = "completed"
                                     /\ booking[b].session = s
                                     /\ booking[b].assigned = u})

-----------------------------------------------------------------------------
(* What a step may never do.                                                *)

NewlyHeld(b, u) ==
  /\ booking'[b].assigned = u
  /\ booking[b].assigned # u
  /\ booking'[b].status \in {"waiting", "in_progress"}

\* The only thing that takes a started task away is a public cancel that had
\* read the booking while it was waiting: neither timeouts, leaving, pausing,
\* closing nor the closing jobs do.
OnlyLateCancelsTakeWork ==
  [][\A b \in Bookings : booking[b].status = "in_progress" =>
       \/ /\ booking'[b].assigned = booking[b].assigned
          /\ booking'[b].status \in {"in_progress", "completed", "no_show"}
       \/ cancelling[b] = "read" /\ booking'[b].status = "cancelled"]_vars

\* A finished or cancelled booking is never waiting or in progress again.
EndedStaysEnded ==
  [][\A b \in Bookings :
       booking[b].status \in {"completed", "cancelled", "no_show"} =>
       booking'[b].status \in {"completed", "cancelled", "no_show"}]_vars

\* Work that was started or is over stays so: the sweeps, the closing jobs and the
\* dispatcher, which act on bookings they listed before, change neither.
WorkIsKept == OnlyLateCancelsTakeWork /\ EndedStaysEnded

-----------------------------------------------------------------------------
(* Liveness, under FairSpec.                                                *)

\* b is an offer to u that nobody has answered, in an active session.
HeldUp(b, u) ==
  /\ booking[b].status = "waiting"
  /\ booking[b].assigned = u
  /\ session[booking[b].session].status = "active"

\* No offer stays with one worker for ever while its session is active.
OffersResolve ==
  \A b \in Bookings, u \in Users : []<>~HeldUp(b, u)

\* b waits for somebody and u, who may take it, has nothing to do.
Starving(b, u) ==
  LET s == booking[b].session IN
  /\ booking[b].status = "waiting"
  /\ booking[b].assigned = NoUser
  /\ session[s].status = "active"
  /\ IsFree(Row(s, u))
  /\ booking[b].type \in Row(s, u).accept
  /\ ~HoldsInGroup(s, u)

\* A booking never waits for ever beside a worker who stays free: neither the
\* fairness gate nor the re-offer grace window can starve it.
NoStarvation ==
  \A b \in Bookings, u \in Users : []<>~Starving(b, u)
=============================================================================
