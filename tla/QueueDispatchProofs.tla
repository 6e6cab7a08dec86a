------------------------ MODULE QueueDispatchProofs ------------------------
(***************************************************************************)
(* Theorems about QueueDispatch, for every number of sessions, workers,    *)
(* students, desks and bookings:                                           *)
(*   TypeCorrect          the tables stay well formed                      *)
(*   OffersHaveDeadlines  every offer can be taken back                    *)
(*   EndedForGood         what is over is never revived                    *)
(*   OneActive            one unfinished booking per session and student   *)
(*   BookingsStaySound    both, of every unfinished booking                *)
(* and about work once it has been handed out:                             *)
(*   StartedWorkStays  only a late public cancel takes a started task away *)
(*   WorkStays         nor is what is started or over undone otherwise     *)
(*   BoardHasNoGhosts  without closing jobs, the projector shows the state *)
(*                     of unfinished bookings once public cancels are done *)
(*   CreditsAreEarned  unless such a cancel takes a completed task, no     *)
(*                     worker is credited with more than they finished     *)
(*   FreshWorkIsOwn    in a separated group, workers get and accept work   *)
(*                     only in sessions they joined themselves             *)
(* The steps are taken group by group, as Next is.  Small lemmas about the *)
(* operators that write one row keep the rows opaque in the larger proofs. *)
(* Three of the later theorems rest on what one step may do to a booking   *)
(* that is no longer waiting (HandedOut), the last on where a row that is  *)
(* no mirror can come from (OwnOfStep).                                    *)
(***************************************************************************)
EXTENDS MCQueueDispatch, FiniteSetTheorems, TLAPS

\* The types of the three tables, opaque in most proofs.
WorkerT == [Sessions -> [Users -> WorkerRow]]

BookingT == [Bookings -> BookingRow]

BoardT == [Sessions -> [Desks -> [BookingTypes -> BoardCell]]]
-----------------------------------------------------------------------------
(* The operators that write rows keep them well formed.                     *)

\* An offered booking is a booking row.
LEMMA OfferedType ==
  ASSUME NEW bk \in BookingRow, NEW u \in Users
  PROVE  Offered(bk, u) \in BookingRow
BY DEF Offered, BookingRow

\* A booking handed over directly is a booking row.
LEMMA StartedByType ==
  ASSUME NEW bk \in BookingRow, NEW u \in Users
  PROVE  StartedBy(bk, u) \in BookingRow
BY DEF StartedBy, BookingRow

\* A booking taken back is a booking row; the worker may be missing.
LEMMA ReturnedType ==
  ASSUME NEW bk \in BookingRow, NEW u \in Users \cup {NoUser}
  PROVE  Returned(bk, u) \in BookingRow
BY DEF Returned, BookingRow

\* The two ways a worker gets a booking keep the worker row well formed.
LEMMA BusyType ==
  ASSUME NEW r \in WorkerRow, NEW b \in Bookings
  PROVE  Busy(r, b) \in WorkerRow /\ Working(r, b) \in WorkerRow
<1>1. 0 \in 0 .. PauseThreshold
  BY QueueAssumption
<1>2. Busy(r, b) \in WorkerRow
  BY DEF Busy, WorkerRow
<1>3. Working(r, b) \in WorkerRow
  BY <1>1 DEF Working, WorkerRow
<1> QED
  BY <1>2, <1>3

\* An update of one worker row, which may not exist, keeps the table's type.
LEMMA PutRowType ==
  ASSUME NEW w \in [Sessions -> [Users -> WorkerRow]],
         NEW s \in Sessions, NEW u \in Users, NEW r \in WorkerRow
  PROVE  PutRow(w, s, u, r) \in [Sessions -> [Users -> WorkerRow]]
BY DEF PutRow

\* The absent row is a worker row.
LEMMA NoRowType == NoRow \in WorkerRow
BY QueueAssumption DEF NoRow, WorkerRow, BookingTypes

\* A timeout keeps the strikes of a worker within the threshold.
LEMMA AfterTimeoutType ==
  ASSUME NEW r \in WorkerRow
  PROVE  AfterTimeout(r) \in WorkerRow
<1> DEFINE ready  == r.status \notin {"paused", "offline"}
           struck == ready /\ r.consec + 1 >= PauseThreshold
           consec == IF struck THEN 0
                     ELSE IF r.consec < PauseThreshold THEN r.consec + 1
                          ELSE r.consec
           status == IF struck THEN "offline"
                     ELSE IF ready THEN "online" ELSE r.status
           pause  == IF struck THEN "running" ELSE r.pause
<1>1. r.consec \in 0 .. PauseThreshold
  BY DEF WorkerRow
<1>2. consec \in 0 .. PauseThreshold
  BY <1>1, QueueAssumption
<1>3. /\ status \in {"absent", "online", "busy", "paused", "offline"}
      /\ pause \in {"none", "running", "passed"}
  BY DEF WorkerRow
<1>4. AfterTimeout(r) = [r EXCEPT !.status = status, !.cur = NoBooking,
                                  !.pause = pause, !.consec = consec]
  BY DEF AfterTimeout
<1> HIDE DEF consec, status, pause
<1> QED
  BY <1>2, <1>3, <1>4 DEF WorkerRow

\* A posting keeps the board's type.
LEMMA PostType ==
  ASSUME booking \in BookingT, NEW bd \in BoardT, NEW b \in Bookings,
         NEW status \in {"idle", "waiting", "in_progress", "completed"},
         NEW ref \in Bookings \cup {NoBooking}
  PROVE  Post(bd, b, status, ref) \in BoardT
BY DEF Post, BoardT, BookingT, BoardCell, BookingRow, BookingTypes

\* So does whatever is posted when a booking ends.
LEMMA BoardAfterType ==
  ASSUME TypeOK, NEW bk, NEW b \in Bookings,
         NEW status \in {"idle", "waiting", "in_progress", "completed"},
         NEW ref \in Bookings \cup {NoBooking},
         NEW bd \in BoardAfter(bk, b, status, ref)
  PROVE  bd \in BoardT
<1>1. booking \in BookingT /\ board \in BoardT
  BY DEF TypeOK, BookingT, BoardT
<1>2. \A st \in {"idle", "waiting", "in_progress", "completed"},
         c \in Bookings \cup {NoBooking} : Post(board, b, st, c) \in BoardT
  BY <1>1, PostType
<1>3. HelpAt(bk, b, "in_progress") \subseteq Bookings
      /\ HelpAt(bk, b, "waiting") \subseteq Bookings
  BY DEF HelpAt
<1>4. HelpSynced(bk, b) \subseteq BoardT
  BY <1>2, <1>3 DEF HelpSynced
<1> QED
  BY <1>2, <1>4 DEF BoardAfter

\* So does the posting of the offers a leaving worker returns.
LEMMA ReturnedToBoardType ==
  ASSUME TypeOK, NEW L \in SUBSET Bookings
  PROVE  ReturnedToBoard(L) \in BoardT
<1> DEFINE Here(s, d, t) == {b \in L : /\ booking[b].session = s
                                       /\ booking[b].desk = d
                                       /\ booking[b].type = t}
           Cell(s, d, t) ==
             IF Here(s, d, t) = {} \/ board[s][d][t].status = "absent"
             THEN board[s][d][t]
             ELSE [status |-> "waiting", ref |-> CHOOSE b \in Here(s, d, t) : TRUE]
<1>1. ASSUME NEW s \in Sessions, NEW d \in Desks, NEW t \in BookingTypes
      PROVE  Cell(s, d, t) \in BoardCell
  <2>1. board[s][d][t] \in BoardCell
    BY <1>1 DEF TypeOK
  <2>2. Here(s, d, t) # {} => (CHOOSE b \in Here(s, d, t) : TRUE) \in Bookings
    OBVIOUS
  <2> HIDE DEF Here
  <2> QED
    BY <2>1, <2>2 DEF BoardCell
<1>2. ReturnedToBoard(L) =
        [s \in Sessions |-> [d \in Desks |-> [t \in BookingTypes |-> Cell(s, d, t)]]]
  BY DEF ReturnedToBoard
<1> HIDE DEF Cell
<1> QED
  BY <1>1, <1>2 DEF BoardT

\* What a join request remembers of a row is a worker row.
LEMMA SnapshotType ==
  ASSUME NEW r \in WorkerRow
  PROVE  Snapshot(r) \in WorkerRow
<1>1. 0 \in 0 .. PauseThreshold
  BY QueueAssumption
<1> QED
  BY <1>1, NoRowType DEF Snapshot, WorkerRow

\* An inserted worker row is well formed.
LEMMA NewRowType ==
  ASSUME NEW accept \in SUBSET BookingTypes, NEW mirror \in BOOLEAN
  PROVE  NewRow(accept, mirror) \in WorkerRow
BY NoRowType DEF NewRow, WorkerRow

\* The idle request is a request.
LEMMA NoRequestType == NoRequest \in Request
BY NoRowType DEF NoRequest, Request

\* Closing a session keeps the worker table's type.
LEMMA ForcedOfflineType ==
  ASSUME TypeOK, NEW s \in Sessions
  PROVE  ForcedOffline(s) \in WorkerT
<1>1. 0 \in 0 .. PauseThreshold
  BY QueueAssumption
<1>2. \A u \in Users : worker[s][u] \in WorkerRow
  BY DEF TypeOK
<1>3. \A u \in Users : [worker[s][u] EXCEPT !.status = "offline", !.cur = NoBooking,
                          !.pause = "none", !.consec = 0] \in WorkerRow
  BY <1>1, <1>2 DEF WorkerRow
<1> QED
  BY <1>2, <1>3 DEF ForcedOffline, WorkerT, TypeOK, Row

\* The healing of a missing mirror row keeps the worker table's type.
LEMMA RowLockedType ==
  ASSUME TypeOK, NEW s \in Sessions, NEW u \in Users, NEW w \in RowLocked(s, u)
  PROVE  w \in WorkerT
<1>1. worker \in WorkerT
  BY DEF TypeOK, WorkerT
<1>2. ASSUME NEW o \in Sessions
      PROVE  [NoRow EXCEPT !.status = Row(o, u).status, !.accept = Row(o, u).accept,
                           !.mirror = TRUE] \in WorkerRow
  <2>1. Row(o, u) \in WorkerRow
    BY <1>1 DEF Row, WorkerT
  <2> QED
    BY <2>1, NoRowType DEF WorkerRow
<1>3. CASE HasRow(s, u)
  BY <1>1, <1>3 DEF RowLocked
<1>4. CASE ~HasRow(s, u)
  <2>1. GroupOf(s) \subseteq Sessions
    BY DEF GroupOf
  <2>2. PICK o \in Sessions :
          w = [worker EXCEPT ![s][u] =
                 [NoRow EXCEPT !.status = Row(o, u).status,
                               !.accept = Row(o, u).accept, !.mirror = TRUE]]
    BY <1>4, <2>1 DEF RowLocked
  <2> QED
    BY <1>1, <1>2, <2>2 DEF WorkerT
<1> QED
  BY <1>3, <1>4

\* Linking two sessions mirrors well-formed rows.
LEMMA MirroredType ==
  ASSUME TypeOK, NEW s \in Sessions, NEW t \in Sessions
  PROVE  Mirrored(s, t)[t] \in [Users -> WorkerRow]
<1>1. worker \in WorkerT
  BY DEF TypeOK, WorkerT
<1>2. ASSUME NEW u \in Users
      PROVE  [NoRow EXCEPT !.status = Row(s, u).status, !.accept = Row(s, u).accept,
                           !.mirror = TRUE] \in WorkerRow
  <2>1. Row(s, u) \in WorkerRow
    BY <1>1 DEF Row, WorkerT
  <2> QED
    BY <2>1, NoRowType DEF WorkerRow
<1> QED
  BY <1>1, <1>2 DEF Mirrored, Row, WorkerT

-----------------------------------------------------------------------------
(* Typing is preserved by each step.                                        *)

\* Requests of students and public cancels keep every table's type.
LEMMA StudentTyping ==
  ASSUME TypeOK, StudentNext \/ PublicCancelNext
  PROVE  TypeOK'
<1>0. booking \in BookingT /\ board \in BoardT
  BY DEF TypeOK, BookingT, BoardT
<1>1. ASSUME NEW s \in Sessions, NEW st \in Students, NEW d \in Desks,
             NEW type \in BookingTypes, NEW b \in Bookings,
             CreateBooking(s, st, d, type, b)
      PROVE  TypeOK'
  <2>1. booking' \in BookingT
    <3>1. session[s].next \in Nat
      BY DEF TypeOK, SessionRow
    <3> QED
      BY <1>0, <1>1, <3>1 DEF CreateBooking, BookingT, BookingRow
  <2>2. session' \in [Sessions -> SessionRow]
    <3>1. session \in [Sessions -> SessionRow]
      BY DEF TypeOK
    <3>2. [session[s] EXCEPT !.next = session[s].next + 1] \in SessionRow
      BY <3>1 DEF SessionRow
    <3> QED
      BY <1>1, <3>1, <3>2 DEF CreateBooking
  <2>3. board' \in BoardT
    BY <1>0, <1>1 DEF CreateBooking, BoardT, BoardCell
  <2> QED
    BY <1>1, <2>1, <2>2, <2>3 DEF CreateBooking, TypeOK, BookingT, BoardT
<1>2. ASSUME NEW b \in Bookings, CancelBooking(b)
      PROVE  TypeOK'
  <2>1. booking' \in BookingT
    BY <1>0, <1>2 DEF CancelBooking, BookingT, BookingRow
  <2>2. board' \in BoardT
    BY <1>2, BoardAfterType DEF CancelBooking
  <2> QED
    BY <1>2, <2>1, <2>2 DEF CancelBooking, TypeOK, BookingT, BoardT
<1>3. ASSUME NEW b \in Bookings, PublicCancelRead(b)
      PROVE  TypeOK'
  BY <1>3 DEF PublicCancelRead, TypeOK
<1>4. ASSUME NEW b \in Bookings, PublicCancelWrite(b)
      PROVE  TypeOK'
  <2>1. booking' \in BookingT
    BY <1>0, <1>4 DEF PublicCancelWrite, BookingT, BookingRow
  <2> QED
    BY <1>4, <2>1 DEF PublicCancelWrite, TypeOK, BookingT
<1>5. ASSUME NEW b \in Bookings, PublicCancelDesk(b)
      PROVE  TypeOK'
  <2>1. board' \in BoardT
    BY <1>5, BoardAfterType DEF PublicCancelDesk
  <2> QED
    BY <1>5, <2>1 DEF PublicCancelDesk, TypeOK, BoardT
<1> QED
  BY <1>1, <1>2, <1>3, <1>4, <1>5 DEF StudentNext, PublicCancelNext

\* Joining, mirroring and leaving keep every table's type.
LEMMA WorkerTyping ==
  ASSUME TypeOK, WorkerNext
  PROVE  TypeOK'
<1>0. /\ booking \in BookingT
      /\ board \in BoardT
      /\ worker \in WorkerT
      /\ req \in [Sessions -> [Users -> Request]]
  BY DEF TypeOK, BookingT, BoardT, WorkerT
<1>a. \A s \in Sessions, u \in Users :
        /\ worker[s][u] \in WorkerRow
        /\ req[s][u] \in Request
        /\ req[s][u].snap \in WorkerRow
  BY <1>0 DEF WorkerT, Request
<1>b. AcceptChoices \subseteq SUBSET BookingTypes
  BY QueueAssumption
<1>1. ASSUME NEW s \in Sessions, NEW u \in Users, JoinRead(s, u)
      PROVE  TypeOK'
  <2>1. [NoRequest EXCEPT !.phase = "join", !.snap = Snapshot(Row(s, u))] \in Request
    BY <1>a, SnapshotType, NoRequestType DEF Row, Request
  <2>2. req' \in [Sessions -> [Users -> Request]]
    BY <1>0, <1>1, <2>1 DEF JoinRead
  <2> QED
    BY <1>1, <2>2 DEF JoinRead, TypeOK
<1>2. ASSUME NEW s \in Sessions, NEW u \in Users, NEW accept \in AcceptChoices,
             JoinSave(s, u, accept)
      PROVE  TypeOK'
  <2>1. /\ [req[s][u].snap EXCEPT !.accept = accept, !.mirror = FALSE] \in WorkerRow
        /\ [worker[s][u] EXCEPT !.mirror = FALSE] \in WorkerRow
        /\ NewRow(accept, FALSE) \in WorkerRow
    <3>1. accept \in SUBSET BookingTypes
      BY <1>b
    <3>2. \A r \in WorkerRow : /\ [r EXCEPT !.accept = accept, !.mirror = FALSE] \in WorkerRow
                               /\ [r EXCEPT !.mirror = FALSE] \in WorkerRow
      BY <3>1 DEF WorkerRow
    <3> QED
      BY <1>a, <3>1, <3>2, NewRowType
  <2>2. worker' \in WorkerT
    BY <1>0, <1>2, <2>1 DEF JoinSave, WorkerT
  <2>3. [NoRequest EXCEPT !.phase = "mirror", !.snap.accept = accept] \in Request
    BY <1>b, NoRequestType DEF Request, WorkerRow
  <2>4. req' \in [Sessions -> [Users -> Request]]
    BY <1>0, <1>2, <2>3, NoRequestType DEF JoinSave
  <2> QED
    BY <1>2, <2>2, <2>4 DEF JoinSave, TypeOK, WorkerT
<1>3. ASSUME NEW s \in Sessions, NEW t \in Sessions, NEW u \in Users,
             MirrorRead(s, t, u)
      PROVE  TypeOK'
  <2>1. [Snapshot(Row(t, u)) EXCEPT !.accept = req[s][u].snap.accept] \in WorkerRow
    BY <1>a, SnapshotType DEF Row, WorkerRow
  <2>2. [req[s][u] EXCEPT !.phase = "mirrorSave", !.target = {t},
           !.snap = [Snapshot(Row(t, u)) EXCEPT !.accept = req[s][u].snap.accept]]
          \in Request
    <3>1. \A r \in Request, snap \in WorkerRow :
            [r EXCEPT !.phase = "mirrorSave", !.target = {t}, !.snap = snap] \in Request
      BY DEF Request
    <3> QED
      BY <1>a, <2>1, <3>1
  <2>3. req' \in [Sessions -> [Users -> Request]]
    BY <1>0, <1>3, <2>2 DEF MirrorRead
  <2> QED
    BY <1>3, <2>3 DEF MirrorRead, TypeOK
<1>4. ASSUME NEW s \in Sessions, NEW t \in Sessions, NEW u \in Users,
             MirrorSave(s, t, u)
      PROVE  TypeOK'
  <2>1. NewRow(req[s][u].snap.accept, TRUE) \in WorkerRow
    BY <1>a, NewRowType DEF WorkerRow
  <2>2. worker' \in WorkerT
    BY <1>0, <1>4, <1>a, <2>1 DEF MirrorSave, WorkerT
  <2>3. req' \in [Sessions -> [Users -> Request]]
    BY <1>0, <1>4, NoRequestType DEF MirrorSave
  <2> QED
    BY <1>4, <2>2, <2>3 DEF MirrorSave, TypeOK, WorkerT
<1>5. ASSUME NEW s \in Sessions, NEW u \in Users, MirrorGivenUp(s, u)
      PROVE  TypeOK'
  <2>1. req' \in [Sessions -> [Users -> Request]]
    BY <1>0, <1>5, NoRequestType DEF MirrorGivenUp
  <2> QED
    BY <1>5, <2>1 DEF MirrorGivenUp, TypeOK
<1>6. ASSUME NEW s \in Sessions, NEW u \in Users, WorkerLeave(s, u)
      PROVE  TypeOK'
  <2>1. LeaveStatus(s, u) \in {"offline", "paused"}
    BY DEF LeaveStatus
  <2>2. req' \in [Sessions -> [Users -> Request]]
    <3>1. [NoRequest EXCEPT !.phase = "leave", !.status = LeaveStatus(s, u)] \in Request
      BY <2>1, NoRequestType DEF Request
    <3> QED
      BY <1>0, <1>6, <3>1, NoRequestType DEF WorkerLeave
  <2>3. \A b \in Bookings : Returned(booking[b], u) \in BookingRow
    BY <1>0, ReturnedType DEF BookingT
  <2>4. booking' \in BookingT
    BY <1>0, <1>6, <2>3 DEF WorkerLeave, BookingT
  <2>5. board' \in BoardT
    <3>1. \A L \in LastPosted(OffersHeld(s, u)) : L \in SUBSET Bookings
      BY DEF LastPosted, OffersHeld
    <3> QED
      BY <1>0, <1>6, <3>1, ReturnedToBoardType DEF WorkerLeave
  <2>6. worker' \in WorkerT
    <3>1. 0 \in 0 .. PauseThreshold
      BY QueueAssumption
    <3>2. /\ [worker[s][u] EXCEPT !.status = "offline", !.cur = NoBooking,
                                  !.pause = "none", !.consec = 0] \in WorkerRow
          /\ [worker[s][u] EXCEPT !.status = "paused"] \in WorkerRow
      BY <1>a, <3>1 DEF WorkerRow
    <3>3. CASE worker' = [worker EXCEPT ![s][u].status = "paused"]
      BY <1>0, <3>2, <3>3 DEF WorkerT
    <3>4. CASE worker' = [worker EXCEPT ![s][u] =
                 [@ EXCEPT !.status = "offline", !.cur = NoBooking,
                           !.pause = "none", !.consec = 0]]
      BY <1>0, <3>2, <3>4 DEF WorkerT
    <3> QED
      BY <1>6, <3>3, <3>4 DEF WorkerLeave
  <2> QED
    BY <1>6, <2>2, <2>4, <2>5, <2>6 DEF WorkerLeave, TypeOK, BookingT, BoardT, WorkerT
<1>7. ASSUME NEW s \in Sessions, NEW u \in Users, LeaveMirror(s, u)
      PROVE  TypeOK'
  <2>1. req[s][u].status \in {"offline", "paused"}
    BY <1>a DEF Request
  <2>2. \A t \in Sessions : [worker[t][u] EXCEPT !.status = req[s][u].status] \in WorkerRow
    BY <1>a, <2>1 DEF WorkerRow
  <2>3. worker' \in WorkerT
    BY <1>0, <1>7, <2>2 DEF LeaveMirror, WorkerT
  <2>4. req' \in [Sessions -> [Users -> Request]]
    BY <1>0, <1>7, NoRequestType DEF LeaveMirror
  <2> QED
    BY <1>7, <2>3, <2>4 DEF LeaveMirror, TypeOK, WorkerT
<1> QED
  BY <1>1, <1>2, <1>3, <1>4, <1>5, <1>6, <1>7 DEF WorkerNext

\* Replacing one worker row by a well-formed one keeps the table's type.
LEMMA WorkerPut ==
  ASSUME NEW w \in WorkerT, NEW s \in Sessions, NEW u \in Users, NEW r \in WorkerRow
  PROVE  /\ [w EXCEPT ![s][u] = r] \in WorkerT
         /\ PutRow(w, s, u, r) \in WorkerT
         /\ w[s][u] \in WorkerRow
BY DEF WorkerT, PutRow

\* Bringing a worker back online keeps the worker table's type.
LEMMA RevivedType ==
  ASSUME TypeOK, NEW s \in Sessions, NEW u \in Users
  PROVE  Revived(s, u) \in WorkerT
<1>1. worker \in WorkerT /\ worker[s][u] \in WorkerRow
  BY DEF TypeOK, WorkerT
<1>2. 0 \in 0 .. PauseThreshold
  BY QueueAssumption
<1>3. [worker[s][u] EXCEPT !.status = "online", !.pause = "none", !.consec = 0]
        \in WorkerRow
  BY <1>1, <1>2 DEF WorkerRow
<1>4. [worker EXCEPT ![s][u] =
         [@ EXCEPT !.status = "online", !.pause = "none", !.consec = 0]] \in WorkerT
  BY <1>1, <1>3 DEF WorkerT
<1> QED
  BY <1>1, <1>4 DEF Revived

\* Handing a booking over, as an offer or directly, keeps every table's type.
LEMMA HandTyping ==
  ASSUME TypeOK, NEW w \in WorkerT, NEW s \in Sessions, NEW u \in Users,
         NEW b \in Bookings, Hand(w, s, u, b)
  PROVE  booking' \in BookingT /\ worker' \in WorkerT /\ board' \in BoardT
<1>1. booking \in BookingT /\ board \in BoardT /\ booking[b] \in BookingRow
  BY DEF TypeOK, BookingT, BoardT
<1>2. booking[b].session \in Sessions
  BY <1>1 DEF BookingRow
<1>3. /\ StartedBy(booking[b], u) \in BookingRow
      /\ Offered(booking[b], u) \in BookingRow
  BY <1>1, OfferedType, StartedByType
<1>4. booking' \in BookingT
  BY <1>1, <1>3 DEF Hand, BookingT
<1>5. w[booking[b].session][u] \in WorkerRow
  BY <1>2, NoRowType, WorkerPut
<1>6. worker' \in WorkerT
  <2> DEFINE t == booking[b].session
  <2>1. /\ Busy(w[t][u], b) \in WorkerRow
        /\ Working(w[t][u], b) \in WorkerRow
    BY <1>5, BusyType
  <2>2. /\ PutRow(w, t, u, Busy(w[t][u], b)) \in WorkerT
        /\ PutRow(w, t, u, Working(w[t][u], b)) \in WorkerT
    BY <1>2, <2>1, WorkerPut
  <2> QED
    BY <2>2 DEF Hand
<1>7. board' \in BoardT
  BY <1>1, PostType DEF Hand
<1> QED
  BY <1>4, <1>6, <1>7

\* Assignments and the timeout sweep keep every table's type.
LEMMA DispatchTyping ==
  ASSUME TypeOK, DispatchNext
  PROVE  TypeOK'
<1>0. booking \in BookingT /\ board \in BoardT /\ worker \in WorkerT
  BY DEF TypeOK, BookingT, BoardT, WorkerT
<1>1. ASSUME NEW s \in Sessions, NEW u \in Users, AssignNext(s, u)
      PROVE  TypeOK'
  <2>1. Revived(s, u) \in WorkerT
    BY RevivedType
  <2>2. booking' \in BookingT /\ worker' \in WorkerT /\ board' \in BoardT
    <3>1. CASE \E b \in FirstInQueue(Offerable(s, u, Revived(s, u)[s][u])) :
                 Hand(Revived(s, u), s, u, b)
      <4>1. PICK b \in FirstInQueue(Offerable(s, u, Revived(s, u)[s][u])) :
                 Hand(Revived(s, u), s, u, b)
        BY <3>1
      <4>2. b \in Bookings
        BY DEF FirstInQueue, Offerable, OpenTo
      <4> QED
        BY <2>1, <4>1, <4>2, HandTyping
    <3>2. CASE worker' = Revived(s, u) /\ UNCHANGED <<booking, board>>
      BY <1>0, <2>1, <3>2
    <3> QED
      BY <1>1, <3>1, <3>2 DEF AssignNext
  <2> QED
    BY <1>1, <2>2 DEF AssignNext, TypeOK, BookingT, BoardT, WorkerT
<1>2. ASSUME NEW s \in Sessions, NEW b \in Bookings, ProcessOfferTimeout(s, b)
      PROVE  TypeOK'
  <2> DEFINE u == booking[b].assigned
             w == [worker EXCEPT ![s][u] = AfterTimeout(@)]
             back == Returned(booking[b], u)
             pool == Eligible(w, s, booking[b].type, IsSeparated(s)) \ {u}
  <2>1. booking[b] \in BookingRow /\ u \in Users
    BY <1>0, <1>2 DEF ProcessOfferTimeout, Expired, BookingT, BookingRow
  <2>2. back \in BookingRow
    BY <2>1, ReturnedType
  <2>3. w \in WorkerT
    BY <1>0, <2>1, AfterTimeoutType DEF WorkerT
  <2>4. \/ /\ booking' = [booking EXCEPT ![b] = back]
           /\ worker' = w
           /\ UNCHANGED board
        \/ \E v \in LeastLoaded(w, s, pool) :
              /\ booking' = [booking EXCEPT ![b] = Offered(back, v)]
              /\ worker' = [w EXCEPT ![s][v] = Busy(@, b)]
              /\ board' = Post(board, b, "waiting", b)
    BY <1>2 DEF ProcessOfferTimeout
  <2>5. LeastLoaded(w, s, pool) \subseteq Users
    BY DEF LeastLoaded, Eligible
  <2> HIDE DEF w, back, pool, u
  <2>6. ASSUME NEW v \in Users
        PROVE  /\ [booking EXCEPT ![b] = Offered(back, v)] \in BookingT
               /\ [w EXCEPT ![s][v] = Busy(@, b)] \in WorkerT
               /\ Post(board, b, "waiting", b) \in BoardT
    <3>1. Offered(back, v) \in BookingRow
      BY <2>2, OfferedType
    <3>2. Busy(w[s][v], b) \in WorkerRow
      BY <2>3, BusyType DEF WorkerT
    <3> QED
      BY <1>0, <2>3, <3>1, <3>2, PostType DEF BookingT, WorkerT
  <2>7. booking' \in BookingT /\ worker' \in WorkerT /\ board' \in BoardT
    BY <1>0, <2>2, <2>3, <2>4, <2>5, <2>6 DEF BookingT
  <2> QED
    BY <1>2, <2>7 DEF ProcessOfferTimeout, TypeOK, BookingT, BoardT, WorkerT
<1> QED
  BY <1>1, <1>2 DEF DispatchNext

\* Ending a task keeps every table's type.
LEMMA FinishTyping ==
  ASSUME TypeOK, NEW b \in Bookings, NEW u \in Users, NEW credit \in Nat,
         NEW status \in {"completed", "no_show"},
         NEW gradingStatus \in {"idle", "completed"},
         NEW ref \in Bookings \cup {NoBooking},
         Finish(b, u, status, credit, gradingStatus, ref)
  PROVE  TypeOK'
<1>0. booking \in BookingT /\ booking[b] \in BookingRow /\ booking[b].session \in Sessions
  BY DEF TypeOK, BookingT, BookingRow
<1>1. booking' \in BookingT
  <2>1. [booking[b] EXCEPT !.status = status] \in BookingRow
    BY <1>0 DEF BookingRow
  <2> QED
    BY <1>0, <2>1 DEF Finish, BookingT
<1>2. worker' \in WorkerT
  <2>1. ASSUME NEW r \in WorkerRow
        PROVE  Freed(r, credit) \in WorkerRow
    <3>1. r.load + credit \in Nat
      BY DEF WorkerRow
    <3>2. \A n \in Nat, x \in {"online", "offline"} :
            [r EXCEPT !.cur = NoBooking, !.status = x, !.load = n] \in WorkerRow
      BY DEF WorkerRow
    <3>3. CASE r.status = "paused"
      BY <3>1, <3>2, <3>3 DEF Freed
    <3>4. CASE r.status # "paused"
      BY <3>1, <3>2, <3>4 DEF Freed
    <3> QED
      BY <3>3, <3>4
  <2>2. PICK w \in RowLocked(booking[b].session, u) :
          worker' = [w EXCEPT ![booking[b].session][u] =
                       Freed(@, credit)]
    BY DEF Finish
  <2>3. w \in WorkerT
    BY <1>0, RowLockedType
  <2>4. w[booking[b].session][u] \in WorkerRow
    BY <1>0, <2>3, NoRowType, WorkerPut
  <2> QED
    BY <1>0, <2>1, <2>2, <2>3, <2>4, WorkerPut
<1>3. board' \in BoardT
  BY BoardAfterType DEF Finish
<1> QED
  BY <1>1, <1>2, <1>3 DEF Finish, TypeOK, BookingT, BoardT, WorkerT

\* Answers to offers and reports of finished tasks keep every table's type.
LEMMA TaskTyping ==
  ASSUME TypeOK, TaskNext
  PROVE  TypeOK'
<1>0. booking \in BookingT /\ board \in BoardT
  BY DEF TypeOK, BookingT, BoardT
<1>a. \A b \in Bookings : booking[b] \in BookingRow /\ booking[b].session \in Sessions
  BY <1>0 DEF BookingT, BookingRow
<1>1. ASSUME NEW b \in Bookings, NEW u \in Users, Start(b, u)
      PROVE  TypeOK'
  <2> DEFINE s == booking[b].session
  <2>1. booking' \in BookingT
    <3>1. [booking[b] EXCEPT !.status = "in_progress", !.offer = "none"] \in BookingRow
      BY <1>a DEF BookingRow
    <3>2. booking' = [booking EXCEPT ![b] =
                        [booking[b] EXCEPT !.status = "in_progress", !.offer = "none"]]
      BY <1>0, <1>1 DEF Start, BookingT, BookingRow
    <3> QED
      BY <1>0, <3>1, <3>2 DEF BookingT
  <2>2. PICK w \in RowLocked(s, u) : worker' = [w EXCEPT ![s][u] = Working(@, b)]
    BY <1>1 DEF Start
  <2>3. w \in WorkerT
    BY <1>a, RowLockedType
  <2>4. Working(w[s][u], b) \in WorkerRow
    BY <1>a, <2>3, BusyType DEF WorkerT
  <2>5. worker' \in WorkerT
    BY <1>a, <2>2, <2>3, <2>4 DEF WorkerT
  <2>6. board' \in BoardT
    BY <1>0, <1>1, PostType DEF Start
  <2> QED
    BY <1>1, <2>1, <2>5, <2>6 DEF Start, TypeOK, BookingT, BoardT, WorkerT
<1>2. ASSUME NEW b \in Bookings, NEW u \in Users, Reject(b, u)
      PROVE  TypeOK'
  <2> DEFINE s == booking[b].session
  <2>1. booking' \in BookingT
    BY <1>0, <1>a, <1>2, ReturnedType DEF Reject, BookingT
  <2>2. PICK w \in RowLocked(s, u) :
          worker' = [w EXCEPT ![s][u] = Unburdened(@)]
    BY <1>2 DEF Reject
  <2>3. w \in WorkerT
    BY <1>a, RowLockedType
  <2>4. \A r \in WorkerRow : Unburdened(r) \in WorkerRow
    BY DEF Unburdened, WorkerRow
  <2>5. worker' \in WorkerT
    <3>1. s \in Sessions /\ w[s][u] \in WorkerRow
      BY <1>a, <2>3, NoRowType, WorkerPut
    <3> QED
      BY <2>2, <2>3, <2>4, <3>1, WorkerPut
  <2>6. board' \in BoardT
    BY <1>0, <1>2, PostType DEF Reject
  <2> QED
    BY <1>2, <2>1, <2>5, <2>6 DEF Reject, TypeOK, BookingT, BoardT, WorkerT
<1> QED
  BY <1>1, <1>2, FinishTyping DEF TaskNext, Complete, NoShow, CompleteWithScores

\* Session operations and cleanup jobs keep every table's type.
LEMMA SessionTyping ==
  ASSUME TypeOK, SessionNext \/ CleanupNext
  PROVE  TypeOK'
<1>0. /\ booking \in BookingT
      /\ board \in BoardT
      /\ worker \in WorkerT
      /\ session \in [Sessions -> SessionRow]
  BY DEF TypeOK, BookingT, BoardT, WorkerT
<1>a. \A s \in Sessions : session[s] \in SessionRow
  BY <1>0
<1>b. \A r \in SessionRow, x \in {"draft", "active", "paused", "closed"} :
        [r EXCEPT !.status = x] \in SessionRow
  BY DEF SessionRow
<1>1. ASSUME NEW s \in Sessions, StartSession(s)
      PROVE  TypeOK'
  <2>1. session' \in [Sessions -> SessionRow]
    BY <1>0, <1>a, <1>b, <1>1 DEF StartSession
  <2>2. [status |-> "idle", ref |-> NoBooking] \in BoardCell
    BY DEF BoardCell
  <2>3. board' \in BoardT
    BY <1>0, <1>1, <2>2 DEF StartSession, BoardT
  <2> QED
    BY <1>1, <2>1, <2>3 DEF StartSession, TypeOK, BoardT
<1>2. ASSUME NEW s \in Sessions, PauseSession(s)
      PROVE  TypeOK'
  <2>1. session' \in [Sessions -> SessionRow]
    BY <1>0, <1>a, <1>b, <1>2 DEF PauseSession
  <2> QED
    BY <1>2, <2>1 DEF PauseSession, TypeOK
<1>3. ASSUME NEW s \in Sessions, ResumeSession(s)
      PROVE  TypeOK'
  <2>1. session' \in [Sessions -> SessionRow]
    BY <1>0, <1>a, <1>b, <1>3 DEF ResumeSession
  <2> QED
    BY <1>3, <2>1 DEF ResumeSession, TypeOK
<1>4. ASSUME NEW s \in Sessions, CloseSession(s)
      PROVE  TypeOK'
  <2>1. \A r \in SessionRow, g \in Groups \cup {NoGroup},
           x \in {"draft", "active", "paused", "closed"} :
          [r EXCEPT !.group = g, !.status = x] \in SessionRow
    BY DEF SessionRow
  <2>2. \A t \in Sessions :
          /\ session[t].group \in Groups \cup {NoGroup}
          /\ session[t].status \in {"draft", "active", "paused", "closed"}
    BY <1>a DEF SessionRow
  <2>3. session' \in [Sessions -> SessionRow]
    BY <1>a, <1>4, <2>1, <2>2 DEF CloseSession
  <2>4. worker' \in WorkerT
    BY <1>4, ForcedOfflineType DEF CloseSession
  <2> QED
    BY <1>4, <2>3, <2>4 DEF CloseSession, TypeOK, WorkerT
<1>5. ASSUME NEW s \in Sessions, NEW job \in {"stale", "abandoned"},
             SelectForCleanup(s, job)
      PROVE  TypeOK'
  BY <1>5 DEF SelectForCleanup, TypeOK
<1>6. ASSUME NEW s \in Sessions, NEW job \in {"stale", "abandoned"}, CleanUp(s, job)
      PROVE  TypeOK'
  <2>1. booking' \in BookingT
    <3>1. \A b \in Bookings : [booking[b] EXCEPT !.status = "cancelled"] \in BookingRow
      BY <1>0 DEF BookingT, BookingRow
    <3> QED
      BY <1>0, <1>6, <3>1 DEF CleanUp, WaitingCancelled, BookingT
  <2>2. session' \in [Sessions -> SessionRow]
    BY <1>0, <1>a, <1>b, <1>6 DEF CleanUp
  <2>3. worker' \in WorkerT
    BY <1>6, ForcedOfflineType DEF CleanUp
  <2> QED
    BY <1>6, <2>1, <2>2, <2>3 DEF CleanUp, TypeOK, BookingT, WorkerT
<1> QED
  BY <1>1, <1>2, <1>3, <1>4, <1>5, <1>6 DEF SessionNext, CleanupNext

\* Linking, unlinking and mode changes keep every table's type.
LEMMA GroupTyping ==
  ASSUME TypeOK, GroupNext
  PROVE  TypeOK'
<1>0. worker \in WorkerT /\ session \in [Sessions -> SessionRow]
  BY DEF TypeOK, WorkerT
<1>a. \A r \in SessionRow, g \in Groups \cup {NoGroup}, m \in {"joint", "separated"} :
        /\ [r EXCEPT !.group = g, !.mode = m] \in SessionRow
        /\ [r EXCEPT !.mode = m] \in SessionRow
  BY DEF SessionRow
<1>1. ASSUME NEW s \in Sessions, NEW t \in Sessions, NEW m \in {"joint", "separated"},
             NEW g \in Groups, LinkSessions(s, t, m, g)
      PROVE  TypeOK'
  <2>1. session' \in [Sessions -> SessionRow]
    <3>1. \A x \in Sessions : /\ [session[x] EXCEPT !.group = g, !.mode = m] \in SessionRow
                              /\ [session[x] EXCEPT !.mode = m] \in SessionRow
      BY <1>0, <1>a
    <3>2. CASE session' = [x \in Sessions |->
             IF x \in {s, t} THEN [session[x] EXCEPT !.group = g, !.mode = m]
             ELSE session[x]]
      BY <1>0, <3>1, <3>2
    <3>3. CASE session' = [x \in Sessions |->
             IF session[x].group = g THEN [session[x] EXCEPT !.mode = m]
             ELSE session[x]]
      BY <1>0, <3>1, <3>3
    <3> QED
      BY <1>1, <3>2, <3>3 DEF LinkSessions
  <2>2. worker' \in WorkerT
    <3>1. Mirrored(t, s)[s] \in [Users -> WorkerRow]
          /\ Mirrored(s, t)[t] \in [Users -> WorkerRow]
      BY MirroredType
    <3>2. [worker EXCEPT ![s] = Mirrored(t, s)[s], ![t] = Mirrored(s, t)[t]] \in WorkerT
      BY <1>0, <3>1 DEF WorkerT
    <3> QED
      BY <1>0, <1>1, <3>2 DEF LinkSessions
  <2> QED
    BY <1>1, <2>1, <2>2 DEF LinkSessions, TypeOK, WorkerT
<1>2. ASSUME NEW s \in Sessions, UnlinkSession(s)
      PROVE  TypeOK'
  <2>1. session' \in [Sessions -> SessionRow]
    BY <1>0, <1>a, <1>2 DEF UnlinkSession
  <2> QED
    BY <1>2, <2>1 DEF UnlinkSession, TypeOK
<1>3. ASSUME NEW s \in Sessions, NEW m \in {"joint", "separated"}, SetMode(s, m)
      PROVE  TypeOK'
  <2>1. session' \in [Sessions -> SessionRow]
    BY <1>0, <1>a, <1>3 DEF SetMode
  <2> QED
    BY <1>3, <2>1 DEF SetMode, TypeOK
<1> QED
  BY <1>1, <1>2, <1>3 DEF GroupNext

\* The passing of time keeps every table's type.
LEMMA TickTyping ==
  ASSUME TypeOK, Tick
  PROVE  TypeOK'
<1>0. booking \in BookingT /\ worker \in WorkerT
  BY DEF TypeOK, BookingT, WorkerT
<1>a. \A b \in Bookings : /\ [booking[b] EXCEPT !.offer = "passed"] \in BookingRow
                          /\ [booking[b] EXCEPT !.recent = FALSE] \in BookingRow
                          /\ [booking[b] EXCEPT !.young = FALSE] \in BookingRow
  BY <1>0 DEF BookingT, BookingRow
<1>1. ASSUME NEW b \in Bookings, OfferPasses(b) \/ GraceEnds(b) \/ BookingAges(b)
      PROVE  TypeOK'
  <2>1. booking' \in BookingT
    BY <1>0, <1>a, <1>1 DEF OfferPasses, GraceEnds, BookingAges, BookingT
  <2> QED
    BY <1>1, <2>1 DEF OfferPasses, GraceEnds, BookingAges, TypeOK, BookingT
<1>2. ASSUME NEW s \in Sessions, NEW u \in Users, PausePasses(s, u)
      PROVE  TypeOK'
  <2>1. [worker[s][u] EXCEPT !.pause = "passed"] \in WorkerRow
    <3>1. \A r \in WorkerRow : [r EXCEPT !.pause = "passed"] \in WorkerRow
      BY DEF WorkerRow
    <3> QED
      BY <1>0, <3>1 DEF WorkerT
  <2>2. worker' \in WorkerT
    BY <1>0, <1>2, <2>1 DEF PausePasses, WorkerT
  <2> QED
    BY <1>2, <2>2 DEF PausePasses, TypeOK, WorkerT
<1> QED
  BY <1>1, <1>2 DEF Tick

\* The empty tables are well formed.
LEMMA InitTyping ==
  ASSUME Init
  PROVE  TypeOK
<1>1. NoBookingRow \in BookingRow
  <2>1. /\ (CHOOSE s \in Sessions : TRUE) \in Sessions
        /\ (CHOOSE st \in Students : TRUE) \in Students
        /\ (CHOOSE d \in Desks : TRUE) \in Desks
    BY QueueAssumption
  <2> QED
    BY <2>1 DEF NoBookingRow, BookingRow, BookingTypes
<1>2. [status |-> "draft", group |-> NoGroup, mode |-> "joint", next |-> 1] \in SessionRow
  BY DEF SessionRow
<1>3. [status |-> "absent", ref |-> NoBooking] \in BoardCell
  BY DEF BoardCell
<1> QED
  BY <1>1, <1>2, <1>3, NoRowType, NoRequestType DEF Init, TypeOK

\* Every step of the system keeps every table's type.
LEMMA NextTyping ==
  ASSUME TypeOK, [Next]_vars
  PROVE  TypeOK'
<1>1. CASE UNCHANGED vars
  BY <1>1 DEF vars, TypeOK
<1> QED
  BY <1>1, StudentTyping, WorkerTyping, TaskTyping, DispatchTyping, SessionTyping,
     GroupTyping, TickTyping DEF Next

(***************************************************************************)
(* Every row of every table stays well formed, for any number of sessions, *)
(* workers, bookings and desks.                                            *)
(***************************************************************************)
THEOREM TypeCorrect == Spec => []TypeOK
<1>1. Init => TypeOK
  BY InitTyping
<1>2. TypeOK /\ [Next]_vars => TypeOK'
  BY NextTyping
<1> QED
  BY <1>1, <1>2, PTL DEF Spec
-----------------------------------------------------------------------------
(* Deadlines.  The steps that do not touch the bookings are immediate; the  *)
(* others change rows only through the operators of the next lemma.         *)

\* Making, starting and returning an offer set assignee and deadline together.
LEMMA DeadlineOfRows ==
  ASSUME NEW r \in BookingRow, NEW u \in Users
  PROVE  /\ HasDeadline(Offered(r, u))
         /\ HasDeadline(StartedBy(r, u))
         /\ r.status = "waiting" => HasDeadline(Returned(r, u))
BY QueueAssumption DEF HasDeadline, Offered, StartedBy, Returned, BookingRow

\* Cancelling and the passing of time leave assignee and deadline in step.
LEMMA DeadlineOfColumns ==
  ASSUME NEW r \in BookingRow
  PROVE  /\ HasDeadline([r EXCEPT !.status = "cancelled"])
         /\ r.status = "waiting" /\ r.offer = "running" /\ HasDeadline(r) =>
              HasDeadline([r EXCEPT !.offer = "passed"])
         /\ HasDeadline(r) => /\ HasDeadline([r EXCEPT !.recent = FALSE])
                              /\ HasDeadline([r EXCEPT !.young = FALSE])
BY DEF HasDeadline, BookingRow

\* Replacing one row by a good one keeps all rows good.
LEMMA DeadlinePut ==
  ASSUME TypeOK, OfferHasDeadline, NEW b \in Bookings, NEW r, HasDeadline(r),
         booking' = [booking EXCEPT ![b] = r]
  PROVE  OfferHasDeadline'
BY DEF TypeOK, OfferHasDeadline

\* Booking and cancelling keep every offer's deadline.
LEMMA DeadlineStudent ==
  ASSUME TypeOK, OfferHasDeadline, StudentNext \/ PublicCancelNext
  PROVE  OfferHasDeadline'
<1>1. ASSUME NEW s \in Sessions, NEW st \in Students, NEW d \in Desks,
             NEW type \in BookingTypes, NEW b \in Bookings,
             CreateBooking(s, st, d, type, b)
      PROVE  OfferHasDeadline'
  BY <1>1 DEF CreateBooking, TypeOK, OfferHasDeadline, HasDeadline
<1>2. ASSUME NEW b \in Bookings, CancelBooking(b) \/ PublicCancelWrite(b)
      PROVE  OfferHasDeadline'
  <2>1. booking' = [booking EXCEPT ![b] = [booking[b] EXCEPT !.status = "cancelled"]]
    BY <1>2 DEF CancelBooking, PublicCancelWrite, TypeOK
  <2>2. HasDeadline([booking[b] EXCEPT !.status = "cancelled"])
    BY DeadlineOfColumns DEF TypeOK
  <2> QED
    BY <2>1, <2>2, DeadlinePut
<1>3. ASSUME NEW b \in Bookings, PublicCancelRead(b) \/ PublicCancelDesk(b)
      PROVE  OfferHasDeadline'
  BY <1>3 DEF PublicCancelRead, PublicCancelDesk, OfferHasDeadline
<1> QED
  BY <1>1, <1>2, <1>3 DEF StudentNext, PublicCancelNext

\* Joining and leaving keep every offer's deadline.
LEMMA DeadlineWorker ==
  ASSUME TypeOK, OfferHasDeadline, WorkerNext
  PROVE  OfferHasDeadline'
<1>1. ASSUME NEW s \in Sessions, NEW u \in Users, WorkerLeave(s, u)
      PROVE  OfferHasDeadline'
  <2>1. \A b \in OffersHeld(s, u) : HasDeadline(Returned(booking[b], u))
    BY DeadlineOfRows DEF OffersHeld, TypeOK
  <2> QED
    BY <1>1, <2>1 DEF WorkerLeave, OfferHasDeadline
<1>2. ASSUME NEW s \in Sessions, NEW t \in Sessions, NEW u \in Users,
             \/ JoinRead(s, u) \/ MirrorRead(s, t, u) \/ MirrorSave(s, t, u)
             \/ MirrorGivenUp(s, u) \/ LeaveMirror(s, u)
      PROVE  OfferHasDeadline'
  BY <1>2 DEF OfferHasDeadline, JoinRead, MirrorRead, MirrorSave, MirrorGivenUp, LeaveMirror
<1>3. ASSUME NEW s \in Sessions, NEW u \in Users, NEW accept \in AcceptChoices,
             JoinSave(s, u, accept)
      PROVE  OfferHasDeadline'
  BY <1>3 DEF OfferHasDeadline, JoinSave
<1>4. PICK s \in Sessions, u \in Users :
        \/ JoinRead(s, u)
        \/ \E accept \in AcceptChoices : JoinSave(s, u, accept)
        \/ \E t \in Sessions : MirrorRead(s, t, u) \/ MirrorSave(s, t, u)
        \/ MirrorGivenUp(s, u)
        \/ WorkerLeave(s, u)
        \/ LeaveMirror(s, u)
  BY DEF WorkerNext
<1> QED
  BY <1>1, <1>2, <1>3, <1>4

\* Accepting, declining and finishing keep every offer's deadline.
LEMMA DeadlineTask ==
  ASSUME TypeOK, OfferHasDeadline, TaskNext
  PROVE  OfferHasDeadline'
<1>a. \A b \in Bookings : booking[b] \in BookingRow /\ HasDeadline(booking[b])
  BY DEF TypeOK, OfferHasDeadline
<1>1. ASSUME NEW b \in Bookings, NEW u \in Users, Start(b, u)
      PROVE  OfferHasDeadline'
  <2>1. booking' = [booking EXCEPT ![b] =
                      [booking[b] EXCEPT !.status = "in_progress", !.offer = "none"]]
    BY <1>1, <1>a DEF Start, TypeOK, BookingRow
  <2>2. HasDeadline([booking[b] EXCEPT !.status = "in_progress", !.offer = "none"])
    BY <1>1, <1>a, QueueAssumption DEF Start, MayStart, HasDeadline, BookingRow
  <2> QED
    BY <2>1, <2>2, DeadlinePut
<1>2. ASSUME NEW b \in Bookings, NEW u \in Users, Reject(b, u)
      PROVE  OfferHasDeadline'
  <2>1. HasDeadline(Returned(booking[b], u))
    BY <1>2, <1>a, DeadlineOfRows DEF Reject
  <2> QED
    BY <1>2, <2>1, DeadlinePut DEF Reject
<1>3. ASSUME NEW b \in Bookings, NEW u \in Users, NEW status \in {"completed", "no_show"},
             NEW credit, NEW gradingStatus, NEW ref,
             Finish(b, u, status, credit, gradingStatus, ref)
      PROVE  OfferHasDeadline'
  BY <1>3, <1>a DEF Finish, TypeOK, OfferHasDeadline, HasDeadline, BookingRow
<1> QED
  BY <1>1, <1>2, <1>3 DEF TaskNext, Complete, NoShow, CompleteWithScores

\* The dispatcher gives every offer a deadline.
LEMMA DeadlineDispatch ==
  ASSUME TypeOK, OfferHasDeadline, DispatchNext
  PROVE  OfferHasDeadline'
<1>a. \A b \in Bookings : booking[b] \in BookingRow
  BY DEF TypeOK
<1>1. ASSUME NEW s \in Sessions, NEW u \in Users, AssignNext(s, u)
      PROVE  OfferHasDeadline'
  <2>1. ASSUME NEW w, NEW b \in Bookings, Hand(w, s, u, b)
        PROVE  OfferHasDeadline'
    <3>1. HasDeadline(Offered(booking[b], u)) /\ HasDeadline(StartedBy(booking[b], u))
      BY <1>a, DeadlineOfRows
    <3> QED
      BY <2>1, <3>1, DeadlinePut DEF Hand
  <2>2. CASE UNCHANGED booking
    BY <2>2 DEF OfferHasDeadline
  <2>3. \A w, r : FirstInQueue(Offerable(s, u, r)) \subseteq Bookings
    BY DEF FirstInQueue, Offerable, OpenTo
  <2> QED
    BY <1>1, <2>1, <2>2, <2>3 DEF AssignNext
<1>2. ASSUME NEW s \in Sessions, NEW b \in Bookings, ProcessOfferTimeout(s, b)
      PROVE  OfferHasDeadline'
  <2> DEFINE u == booking[b].assigned
             back == Returned(booking[b], u)
  <2>1. u \in Users /\ booking[b].status = "waiting"
    BY <1>2, <1>a DEF ProcessOfferTimeout, Expired, BookingRow
  <2>2. back \in BookingRow /\ HasDeadline(back)
    BY <1>a, <2>1, ReturnedType, DeadlineOfRows
  <2>3. \/ booking' = [booking EXCEPT ![b] = back]
        \/ \E v \in Users : booking' = [booking EXCEPT ![b] = Offered(back, v)]
    BY <1>2 DEF ProcessOfferTimeout, LeastLoaded, Eligible
  <2> HIDE DEF back
  <2>4. \A v \in Users : HasDeadline(Offered(back, v))
    BY <2>2, DeadlineOfRows
  <2> QED
    BY <2>2, <2>3, <2>4, DeadlinePut
<1> QED
  BY <1>1, <1>2 DEF DispatchNext

\* Sessions, groups, cleanup and the clock keep every offer's deadline.
LEMMA DeadlineOther ==
  ASSUME TypeOK, OfferHasDeadline, SessionNext \/ CleanupNext \/ GroupNext \/ Tick
  PROVE  OfferHasDeadline'
<1>1. ASSUME NEW s \in Sessions, NEW job, CleanUp(s, job)
      PROVE  OfferHasDeadline'
  BY <1>1 DEF CleanUp, WaitingCancelled, TypeOK, OfferHasDeadline, HasDeadline, BookingRow
<1>2. ASSUME NEW b \in Bookings, OfferPasses(b) \/ GraceEnds(b) \/ BookingAges(b)
      PROVE  OfferHasDeadline'
  <2>1. PICK r \in {[booking[b] EXCEPT !.offer = "passed"],
                    [booking[b] EXCEPT !.recent = FALSE],
                    [booking[b] EXCEPT !.young = FALSE]} :
          /\ booking' = [booking EXCEPT ![b] = r]
          /\ HasDeadline(r)
    BY <1>2, DeadlineOfColumns DEF OfferPasses, GraceEnds, BookingAges, TypeOK,
                                   OfferHasDeadline
  <2> QED
    BY <2>1, DeadlinePut
<1>3. ASSUME SessionNext \/ GroupNext
      PROVE  OfferHasDeadline'
  <2>1. UNCHANGED booking
    BY <1>3 DEF SessionNext, GroupNext, StartSession, PauseSession, ResumeSession,
                CloseSession, LinkSessions, UnlinkSession, SetMode
  <2> QED
    BY <2>1 DEF OfferHasDeadline
<1>4. ASSUME NEW s \in Sessions, NEW job, NEW u,
             SelectForCleanup(s, job) \/ PausePasses(s, u)
      PROVE  OfferHasDeadline'
  BY <1>4 DEF SelectForCleanup, PausePasses, OfferHasDeadline
<1>5. CASE CleanupNext
  BY <1>1, <1>4, <1>5 DEF CleanupNext
<1>6. CASE Tick
  <2>1. CASE \E b \in Bookings : OfferPasses(b) \/ GraceEnds(b) \/ BookingAges(b)
    BY <1>2, <2>1
  <2>2. CASE \E s \in Sessions, u \in Users : PausePasses(s, u)
    BY <1>4, <2>2
  <2> QED
    BY <1>6, <2>1, <2>2 DEF Tick
<1> QED
  BY <1>3, <1>5, <1>6

(***************************************************************************)
(* The sweep of ProcessQueueOfferTimeouts can find every offer: none of    *)
(* the operations ever leaves a booking waiting on a worker without a      *)
(* deadline, or in progress with one.                                      *)
(***************************************************************************)
THEOREM OffersHaveDeadlines == Spec => []OfferHasDeadline
<1>1. Init => OfferHasDeadline
  BY DEF Init, OfferHasDeadline, HasDeadline, NoBookingRow
<1>2. TypeOK /\ OfferHasDeadline /\ [Next]_vars => OfferHasDeadline'
  <2> SUFFICES ASSUME TypeOK, OfferHasDeadline, [Next]_vars
               PROVE  OfferHasDeadline'
    OBVIOUS
  <2>1. CASE UNCHANGED vars
    BY <2>1 DEF vars, OfferHasDeadline
  <2> QED
    BY <2>1, DeadlineStudent, DeadlineWorker, DeadlineTask, DeadlineDispatch,
       DeadlineOther DEF Next
<1> QED
  BY <1>1, <1>2, TypeCorrect, PTL DEF Spec
-----------------------------------------------------------------------------
(* How one booking evolves: its row keeps the session and the student, and  *)
(* nothing but CreateBooking makes an unfinished booking of it.             *)

\* The states of a booking that has not ended.
Unfinished == {"waiting", "in_progress"}

\* q may come after r in the life of one booking.
Follows(q, r) ==
  /\ q.session = r.session
  /\ q.student = r.student
  /\ q.status \in Unfinished => r.status \in Unfinished
  /\ q.status = "absent" <=> r.status = "absent"

AllFollow == \A c \in Bookings : Follows(booking'[c], booking[c])

\* What the dispatcher does to a waiting booking is a legal evolution of it.
LEMMA FollowsOfRows ==
  ASSUME NEW r \in BookingRow, NEW u \in Users, r.status = "waiting"
  PROVE  /\ Follows(Offered(r, u), r)
         /\ Follows(StartedBy(r, u), r)
         /\ Follows(Returned(r, u), r)
         /\ Follows(Offered(Returned(r, r.assigned), u), r)
BY DEF Follows, Unfinished, Offered, StartedBy, Returned, BookingRow

\* So is accepting it, and the passing of time.
LEMMA FollowsOfColumns ==
  ASSUME NEW r \in BookingRow
  PROVE  /\ Follows(r, r)
         /\ r.status = "waiting" =>
              /\ Follows([r EXCEPT !.status = "in_progress", !.offer = "none"], r)
              /\ Follows([r EXCEPT !.offer = "passed"], r)
              /\ Follows([r EXCEPT !.recent = FALSE], r)
              /\ Follows([r EXCEPT !.young = FALSE], r)
BY DEF Follows, Unfinished, BookingRow

\* So is ending any existing booking.
LEMMA FollowsEnding ==
  ASSUME NEW r \in BookingRow, r.status # "absent",
         NEW status \in {"completed", "cancelled", "no_show"}
  PROVE  Follows([r EXCEPT !.status = status], r)
BY DEF Follows, Unfinished, BookingRow

\* A step that replaces one row legally is legal for every row.
LEMMA FollowsPut ==
  ASSUME TypeOK, NEW b \in Bookings, NEW r, Follows(r, booking[b]),
         booking' = [booking EXCEPT ![b] = r]
  PROVE  AllFollow
BY DEF TypeOK, AllFollow, Follows

\* A step that leaves the bookings alone is legal.
LEMMA FollowsUnchanged ==
  ASSUME TypeOK, UNCHANGED booking
  PROVE  AllFollow
BY DEF TypeOK, AllFollow, Follows

\* A booking that a public cancel has read exists.
CancelKnown ==
  \A b \in Bookings : cancelling[b] # "idle" => booking[b].status # "absent"

\* The one step that makes a booking.
Creates ==
  \E s \in Sessions, st \in Students, d \in Desks, type \in BookingTypes,
     b \in Bookings : CreateBooking(s, st, d, type, b)

\* Requests of students create a booking or evolve the others legally.
LEMMA FollowsStudent ==
  ASSUME TypeOK, CancelKnown, StudentNext \/ PublicCancelNext
  PROVE  AllFollow \/ Creates
<1>1. ASSUME NEW b \in Bookings, CancelBooking(b) \/ PublicCancelWrite(b)
      PROVE  AllFollow
  <2>1. booking[b] \in BookingRow /\ booking[b].status # "absent"
    BY <1>1 DEF CancelBooking, PublicCancelWrite, CancelKnown, TypeOK
  <2>2. booking' = [booking EXCEPT ![b] = [booking[b] EXCEPT !.status = "cancelled"]]
    BY <1>1 DEF CancelBooking, PublicCancelWrite, TypeOK
  <2> QED
    BY <2>1, <2>2, FollowsEnding, FollowsPut
<1>2. ASSUME NEW b \in Bookings, PublicCancelRead(b) \/ PublicCancelDesk(b)
      PROVE  AllFollow
  BY <1>2, FollowsUnchanged DEF PublicCancelRead, PublicCancelDesk
<1> QED
  BY <1>1, <1>2 DEF StudentNext, PublicCancelNext, Creates

\* Leaving returns offers and changes no booking otherwise.
LEMMA FollowsWorker ==
  ASSUME TypeOK, WorkerNext
  PROVE  AllFollow
<1>1. ASSUME NEW s \in Sessions, NEW u \in Users, WorkerLeave(s, u)
      PROVE  AllFollow
  <2>1. \A b \in Bookings : /\ Follows(booking[b], booking[b])
                            /\ b \in OffersHeld(s, u) =>
                                 Follows(Returned(booking[b], u), booking[b])
    BY FollowsOfRows, FollowsOfColumns DEF OffersHeld, TypeOK
  <2>2. CASE UNCHANGED booking
    BY <2>2, FollowsUnchanged
  <2>3. CASE booking' = [b \in Bookings |->
                           IF b \in OffersHeld(s, u) THEN Returned(booking[b], u)
                           ELSE booking[b]]
    BY <2>1, <2>3 DEF AllFollow
  <2> QED
    BY <1>1, <2>2, <2>3 DEF WorkerLeave
<1>2. PICK s \in Sessions, u \in Users :
        \/ JoinRead(s, u)
        \/ \E accept \in AcceptChoices : JoinSave(s, u, accept)
        \/ \E t \in Sessions : MirrorRead(s, t, u) \/ MirrorSave(s, t, u)
        \/ MirrorGivenUp(s, u)
        \/ WorkerLeave(s, u)
        \/ LeaveMirror(s, u)
  BY DEF WorkerNext
<1>3. UNCHANGED booking \/ WorkerLeave(s, u)
  BY <1>2 DEF JoinRead, JoinSave, MirrorRead, MirrorSave, MirrorGivenUp, LeaveMirror
<1> QED
  BY <1>1, <1>3, FollowsUnchanged

\* Workers move a booking only forward or back into the queue.
LEMMA FollowsTask ==
  ASSUME TypeOK, TaskNext
  PROVE  AllFollow
<1>a. \A b \in Bookings : booking[b] \in BookingRow
  BY DEF TypeOK
<1>1. ASSUME NEW b \in Bookings, NEW u \in Users, Start(b, u)
      PROVE  AllFollow
  <2>1. booking' = [booking EXCEPT ![b] =
                      [booking[b] EXCEPT !.status = "in_progress", !.offer = "none"]]
    BY <1>1, <1>a DEF Start, TypeOK, BookingRow
  <2>2. booking[b].status = "waiting"
    BY <1>1 DEF Start, MayStart
  <2>3. Follows([booking[b] EXCEPT !.status = "in_progress", !.offer = "none"],
                booking[b])
    BY <1>a, <2>2, FollowsOfColumns
  <2> QED
    BY <2>1, <2>3, FollowsPut
<1>2. ASSUME NEW b \in Bookings, NEW u \in Users, Reject(b, u)
      PROVE  AllFollow
  <2>1. booking[b].status = "waiting"
        /\ booking' = [booking EXCEPT ![b] = Returned(booking[b], u)]
    BY <1>2 DEF Reject, TypeOK
  <2>2. Follows(Returned(booking[b], u), booking[b])
    BY <1>a, <2>1, FollowsOfRows
  <2> QED
    BY <2>1, <2>2, FollowsPut
<1>3. ASSUME NEW b \in Bookings, NEW u \in Users, NEW status \in {"completed", "no_show"},
             NEW credit, NEW gradingStatus, NEW ref,
             Finish(b, u, status, credit, gradingStatus, ref)
      PROVE  AllFollow
  <2>1. booking[b].status = "in_progress"
        /\ booking' = [booking EXCEPT ![b] = [booking[b] EXCEPT !.status = status]]
    BY <1>3 DEF Finish, TypeOK
  <2>2. Follows([booking[b] EXCEPT !.status = status], booking[b])
    BY <1>a, <2>1, FollowsEnding
  <2> QED
    BY <2>1, <2>2, FollowsPut
<1> QED
  BY <1>1, <1>2, <1>3 DEF TaskNext, Complete, NoShow, CompleteWithScores

\* The dispatcher and the timeout sweep move waiting bookings only.
LEMMA FollowsDispatch ==
  ASSUME TypeOK, DispatchNext
  PROVE  AllFollow
<1>a. \A b \in Bookings : booking[b] \in BookingRow
  BY DEF TypeOK
<1>1. ASSUME NEW s \in Sessions, NEW u \in Users, AssignNext(s, u)
      PROVE  AllFollow
  <2>1. ASSUME NEW w, NEW r, NEW b \in FirstInQueue(Offerable(s, u, r)), Hand(w, s, u, b)
        PROVE  AllFollow
    <3>1. b \in Bookings /\ booking[b].status = "waiting"
      BY <2>1 DEF FirstInQueue, Offerable, OpenTo
    <3>2. PICK q \in {Offered(booking[b], u), StartedBy(booking[b], u)} :
            booking' = [booking EXCEPT ![b] = q]
      BY <2>1, <3>1 DEF Hand, TypeOK
    <3>3. Follows(q, booking[b])
      BY <1>a, <3>1, <3>2, FollowsOfRows
    <3> QED
      BY <3>1, <3>2, <3>3, FollowsPut
  <2>2. CASE UNCHANGED booking
    BY <2>2, FollowsUnchanged
  <2> QED
    BY <1>1, <2>1, <2>2 DEF AssignNext
<1>2. ASSUME NEW s \in Sessions, NEW b \in Bookings, ProcessOfferTimeout(s, b)
      PROVE  AllFollow
  <2> DEFINE back == Returned(booking[b], booking[b].assigned)
  <2>1. booking[b].status = "waiting" /\ booking[b].assigned \in Users
    BY <1>2, <1>a DEF ProcessOfferTimeout, Expired, BookingRow
  <2>2. \/ booking' = [booking EXCEPT ![b] = back]
        \/ \E v \in Users : booking' = [booking EXCEPT ![b] = Offered(back, v)]
    BY <1>2 DEF ProcessOfferTimeout, LeastLoaded, Eligible
  <2>3. /\ Follows(back, booking[b])
        /\ \A v \in Users : Follows(Offered(back, v), booking[b])
    BY <1>a, <2>1, FollowsOfRows
  <2> HIDE DEF back
  <2> QED
    BY <2>2, <2>3, FollowsPut
<1> QED
  BY <1>1, <1>2 DEF DispatchNext

\* Sessions, groups, cleanup and the clock evolve bookings legally.
LEMMA FollowsOther ==
  ASSUME TypeOK, SessionNext \/ CleanupNext \/ GroupNext \/ Tick
  PROVE  AllFollow
<1>a. \A b \in Bookings : booking[b] \in BookingRow
  BY DEF TypeOK
<1>1. ASSUME NEW s \in Sessions, NEW job, CleanUp(s, job)
      PROVE  AllFollow
  <2>1. \A b \in Bookings :
          /\ Follows(booking[b], booking[b])
          /\ booking[b].status = "waiting" =>
               Follows([booking[b] EXCEPT !.status = "cancelled"], booking[b])
    BY <1>a, FollowsOfColumns, FollowsEnding
  <2> QED
    BY <1>1, <2>1 DEF CleanUp, WaitingCancelled, AllFollow
<1>2. ASSUME NEW b \in Bookings, OfferPasses(b) \/ GraceEnds(b) \/ BookingAges(b)
      PROVE  AllFollow
  <2>1. PICK r \in {[booking[b] EXCEPT !.offer = "passed"],
                    [booking[b] EXCEPT !.recent = FALSE],
                    [booking[b] EXCEPT !.young = FALSE]} :
          booking[b].status = "waiting" /\ booking' = [booking EXCEPT ![b] = r]
    BY <1>2 DEF OfferPasses, GraceEnds, BookingAges, TypeOK
  <2>2. Follows(r, booking[b])
    BY <1>a, <2>1, FollowsOfColumns
  <2> QED
    BY <2>1, <2>2, FollowsPut
<1>3. ASSUME SessionNext \/ GroupNext
      PROVE  AllFollow
  BY <1>3, FollowsUnchanged
     DEF SessionNext, GroupNext, StartSession, PauseSession, ResumeSession,
         CloseSession, LinkSessions, UnlinkSession, SetMode
<1>4. ASSUME NEW s \in Sessions, NEW job, NEW u,
             SelectForCleanup(s, job) \/ PausePasses(s, u)
      PROVE  AllFollow
  BY <1>4, FollowsUnchanged DEF SelectForCleanup, PausePasses
<1>5. CASE CleanupNext
  BY <1>1, <1>4, <1>5 DEF CleanupNext
<1>6. CASE Tick
  <2>1. CASE \E b \in Bookings : OfferPasses(b) \/ GraceEnds(b) \/ BookingAges(b)
    BY <1>2, <2>1
  <2>2. CASE \E s \in Sessions, u \in Users : PausePasses(s, u)
    BY <1>4, <2>2
  <2> QED
    BY <1>6, <2>1, <2>2 DEF Tick
<1> QED
  BY <1>3, <1>5, <1>6

\* Every step creates a booking or evolves all of them legally.
LEMMA NextFollows ==
  ASSUME TypeOK, CancelKnown, [Next]_vars
  PROVE  AllFollow \/ Creates
<1>1. CASE UNCHANGED vars
  BY <1>1, FollowsUnchanged DEF vars
<1> QED
  BY <1>1, FollowsStudent, FollowsWorker, FollowsTask, FollowsDispatch,
     FollowsOther DEF Next

\* The invariant behind the unguarded write of the public cancel is inductive.
LEMMA CancelKnownStep ==
  ASSUME TypeOK, CancelKnown, [Next]_vars
  PROVE  CancelKnown'
<1>1. ASSUME NEW b \in Bookings, booking[b].status # "absent"
      PROVE  booking'[b].status # "absent"
  <2>1. CASE AllFollow
    BY <1>1, <2>1 DEF AllFollow, Follows
  <2>2. CASE Creates
    BY <1>1, <2>2 DEF Creates, CreateBooking, TypeOK
  <2> QED
    BY <2>1, <2>2, NextFollows
<1>2. CASE UNCHANGED cancelling
  BY <1>1, <1>2 DEF CancelKnown
<1>3. ASSUME NEW b \in Bookings,
             PublicCancelRead(b) \/ PublicCancelWrite(b) \/ PublicCancelDesk(b)
      PROVE  CancelKnown'
  <2>1. booking[b].status # "absent"
    BY <1>3 DEF PublicCancelRead, PublicCancelWrite, PublicCancelDesk, CancelKnown
  <2>2. \A c \in Bookings \ {b} : cancelling'[c] = cancelling[c]
    BY <1>3 DEF PublicCancelRead, PublicCancelWrite, PublicCancelDesk, TypeOK
  <2> QED
    BY <1>1, <2>1, <2>2 DEF CancelKnown
<1>4. PublicCancelNext \/ UNCHANGED cancelling
  <2>1. SessionNext \/ CleanupNext \/ GroupNext \/ Tick \/ UNCHANGED vars
          => UNCHANGED cancelling
    BY DEF SessionNext, CleanupNext, GroupNext, Tick, vars, StartSession,
           PauseSession, ResumeSession, CloseSession, SelectForCleanup, CleanUp,
           LinkSessions, UnlinkSession, SetMode, OfferPasses, GraceEnds,
           BookingAges, PausePasses
  <2>2. StudentNext => UNCHANGED cancelling
    BY DEF StudentNext, CreateBooking, CancelBooking
  <2>3. ASSUME WorkerNext
        PROVE  UNCHANGED cancelling
    <3>1. PICK s \in Sessions, u \in Users :
            \/ JoinRead(s, u)
            \/ \E accept \in AcceptChoices : JoinSave(s, u, accept)
            \/ \E t \in Sessions : MirrorRead(s, t, u) \/ MirrorSave(s, t, u)
            \/ MirrorGivenUp(s, u)
            \/ WorkerLeave(s, u)
            \/ LeaveMirror(s, u)
      BY <2>3 DEF WorkerNext
    <3> QED
      BY <3>1 DEF JoinRead, JoinSave, MirrorRead, MirrorSave, MirrorGivenUp,
                  WorkerLeave, LeaveMirror
  <2>4. ASSUME NEW b \in Bookings, NEW u \in Users,
               Start(b, u) \/ Reject(b, u) \/ Complete(b, u) \/ NoShow(b, u)
                 \/ CompleteWithScores(b, u)
        PROVE  UNCHANGED cancelling
    BY <2>4 DEF Start, Reject, Complete, NoShow, CompleteWithScores, Finish
  <2>5. ASSUME NEW s \in Sessions, NEW x, AssignNext(s, x) \/ ProcessOfferTimeout(s, x)
        PROVE  UNCHANGED cancelling
    BY <2>5 DEF AssignNext, ProcessOfferTimeout
  <2> QED
    BY <2>1, <2>2, <2>3, <2>4, <2>5 DEF Next, TaskNext, DispatchNext
<1> QED
  BY <1>2, <1>3, <1>4 DEF PublicCancelNext

\* What a public cancel has read exists for ever after, so its late write
\* only ever ends a booking.
THEOREM BookingsExist == Spec => [](TypeOK /\ CancelKnown)
<1>1. Init => CancelKnown
  BY DEF Init, CancelKnown
<1> QED
  BY <1>1, TypeCorrect, CancelKnownStep, PTL DEF Spec

(***************************************************************************)
(* No cancel, timeout, reassignment or cleanup ever revives a booking that *)
(* is over, whatever the public cancel read before it wrote.               *)
(***************************************************************************)
THEOREM EndedForGood == Spec => EndedStaysEnded
<1> DEFINE Ended == {"completed", "cancelled", "no_show"}
           Step == \A b \in Bookings :
                     booking[b].status \in Ended => booking'[b].status \in Ended
<1>1. ASSUME TypeOK, CancelKnown, [Next]_vars
      PROVE  Step
  <2> SUFFICES ASSUME NEW b \in Bookings, booking[b].status \in Ended
               PROVE  booking'[b].status \in Ended
    OBVIOUS
  <2>1. CASE AllFollow
    <3>1. booking'[b].status \notin Unfinished \cup {"absent"}
      BY <2>1 DEF AllFollow, Follows, Unfinished
    <3>2. booking'[b] \in BookingRow
      BY <1>1, NextTyping DEF TypeOK
    <3> QED
      BY <3>1, <3>2 DEF Unfinished, BookingRow
  <2>2. CASE Creates
    BY <1>1, <2>2 DEF Creates, CreateBooking, TypeOK
  <2> QED
    BY <1>1, <2>1, <2>2, NextFollows
<1>2. TypeOK /\ CancelKnown /\ [Next]_vars => [Step]_vars
  BY <1>1
<1> QED
  BY <1>2, BookingsExist, PTL DEF Spec, EndedStaysEnded

(***************************************************************************)
(* The unique index of the unfinished bookings of a student is only        *)
(* consulted when a booking is inserted; that is enough, because no other  *)
(* operation makes a booking unfinished or moves it to another student.    *)
(***************************************************************************)
THEOREM OneActive == Spec => []OneActivePerStudent
<1>1. Init => OneActivePerStudent
  BY DEF Init, OneActivePerStudent, IsActive, NoBookingRow
<1>2. ASSUME TypeOK, CancelKnown, OneActivePerStudent, [Next]_vars
      PROVE  OneActivePerStudent'
  <2>1. CASE AllFollow
    BY <1>2, <2>1 DEF AllFollow, Follows, Unfinished, OneActivePerStudent, IsActive
  <2>2. CASE Creates
    <3>1. PICK s \in Sessions, st \in Students, d \in Desks, type \in BookingTypes,
               b \in Bookings : CreateBooking(s, st, d, type, b)
      BY <2>2 DEF Creates
    <3>2. \A c \in Bookings \ {b} : booking'[c] = booking[c]
      BY <1>2, <3>1 DEF CreateBooking, TypeOK
    <3>3. booking'[b].session = s /\ booking'[b].student = st
      BY <1>2, <3>1 DEF CreateBooking, TypeOK
    <3>4. \A c \in Bookings \ {b} :
            ~(IsActive(c) /\ booking[c].session = s /\ booking[c].student = st)
      BY <3>1 DEF CreateBooking, HasUnfinished
    <3> QED
      BY <1>2, <3>2, <3>3, <3>4 DEF OneActivePerStudent, IsActive
  <2> QED
    BY <1>2, <2>1, <2>2, NextFollows
<1> QED
  BY <1>1, <1>2, BookingsExist, PTL DEF Spec

\* Every unfinished booking can be moved on, and its student has no other.
THEOREM BookingsStaySound == Spec => []BookingsAreSound
BY OffersHaveDeadlines, OneActive, PTL DEF BookingsAreSound

-----------------------------------------------------------------------------
(* Work that has been handed out.                                           *)

\* What a step does to a booking that is neither free for booking nor waiting:
\* nothing, unless it is the task being finished or cancelled too late.
Left(b) ==
  \/ booking'[b] = booking[b]
  \/ /\ cancelling[b] = "read"
     /\ cancelling'[b] = "written"
     /\ booking'[b] = [booking[b] EXCEPT !.status = "cancelled"]
  \/ /\ booking[b].status = "in_progress"
     /\ \E status \in {"completed", "no_show"} :
          booking'[b] = [booking[b] EXCEPT !.status = status]

\* A step that replaces the row of another booking leaves b alone.
LEMMA LeftByOthers ==
  ASSUME TypeOK, NEW b \in Bookings, NEW c \in Bookings, NEW r,
         booking' = [booking EXCEPT ![c] = r], b # c
  PROVE  Left(b)
BY DEF TypeOK, Left

\* Students cancel waiting bookings only, but for a late public cancel.
LEMMA LeftByStudents ==
  ASSUME TypeOK, StudentNext \/ PublicCancelNext,
         NEW b \in Bookings, booking[b].status \notin {"absent", "waiting"}
  PROVE  Left(b)
<1>1. ASSUME NEW s \in Sessions, NEW st \in Students, NEW d \in Desks,
             NEW type \in BookingTypes, NEW c \in Bookings,
             CreateBooking(s, st, d, type, c)
      PROVE  Left(b)
  <2>1. b # c
    BY <1>1 DEF CreateBooking
  <2> QED
    BY <1>1, <2>1, LeftByOthers DEF CreateBooking
<1>2. ASSUME NEW c \in Bookings, CancelBooking(c)
      PROVE  Left(b)
  <2>1. b # c
    BY <1>2 DEF CancelBooking
  <2>2. booking'[b] = booking[b]
    BY <1>2, <2>1 DEF CancelBooking, TypeOK
  <2> QED
    BY <2>2 DEF Left
<1>3. ASSUME NEW c \in Bookings, PublicCancelWrite(c)
      PROVE  Left(b)
  <2>1. CASE b = c
    BY <1>3, <2>1 DEF PublicCancelWrite, TypeOK, Left
  <2>2. CASE b # c
    BY <1>3, <2>2 DEF PublicCancelWrite, TypeOK, Left
  <2> QED
    BY <2>1, <2>2
<1>4. ASSUME NEW c \in Bookings, PublicCancelRead(c) \/ PublicCancelDesk(c)
      PROVE  Left(b)
  BY <1>4 DEF PublicCancelRead, PublicCancelDesk, Left
<1> QED
  BY <1>1, <1>2, <1>3, <1>4 DEF StudentNext, PublicCancelNext

\* Leaving returns offers, never a task.
LEMMA LeftByWorkers ==
  ASSUME TypeOK, WorkerNext,
         NEW b \in Bookings, booking[b].status \notin {"absent", "waiting"}
  PROVE  Left(b)
<1>1. ASSUME NEW s \in Sessions, NEW u \in Users, WorkerLeave(s, u)
      PROVE  Left(b)
  <2>1. b \notin OffersHeld(s, u)
    BY DEF OffersHeld
  <2>2. booking'[b] = booking[b]
    BY <1>1, <2>1 DEF WorkerLeave
  <2> QED
    BY <2>2 DEF Left
<1>2. PICK s \in Sessions, u \in Users :
        \/ JoinRead(s, u)
        \/ \E accept \in AcceptChoices : JoinSave(s, u, accept)
        \/ \E t \in Sessions : MirrorRead(s, t, u) \/ MirrorSave(s, t, u)
        \/ MirrorGivenUp(s, u)
        \/ WorkerLeave(s, u)
        \/ LeaveMirror(s, u)
  BY DEF WorkerNext
<1>3. UNCHANGED booking \/ WorkerLeave(s, u)
  BY <1>2 DEF JoinRead, JoinSave, MirrorRead, MirrorSave, MirrorGivenUp, LeaveMirror
<1> QED
  BY <1>1, <1>3 DEF Left

\* Workers answer offers, which are waiting, and finish their own task.
LEMMA LeftByTasks ==
  ASSUME TypeOK, TaskNext,
         NEW b \in Bookings, booking[b].status \notin {"absent", "waiting"}
  PROVE  Left(b)
<1>1. ASSUME NEW c \in Bookings, NEW u \in Users, Start(c, u) \/ Reject(c, u)
      PROVE  Left(b)
  <2>1. b # c
    BY <1>1 DEF Start, Reject, MayStart
  <2>2. booking'[b] = booking[b]
    BY <1>1, <2>1 DEF Start, Reject, TypeOK
  <2> QED
    BY <2>2 DEF Left
<1>2. ASSUME NEW c \in Bookings, NEW u \in Users, NEW status \in {"completed", "no_show"},
             NEW credit, NEW gradingStatus, NEW ref,
             Finish(c, u, status, credit, gradingStatus, ref)
      PROVE  Left(b)
  <2>1. /\ booking[c].status = "in_progress"
        /\ booking' = [booking EXCEPT ![c] = [booking[c] EXCEPT !.status = status]]
    BY <1>2 DEF Finish, TypeOK
  <2>2. CASE b = c
    BY <2>1, <2>2 DEF TypeOK, Left
  <2> QED
    BY <2>1, <2>2, LeftByOthers
<1> QED
  BY <1>1, <1>2 DEF TaskNext, Complete, NoShow, CompleteWithScores

\* The dispatcher hands out waiting bookings and takes back expired offers.
LEMMA LeftByDispatch ==
  ASSUME TypeOK, DispatchNext,
         NEW b \in Bookings, booking[b].status \notin {"absent", "waiting"}
  PROVE  Left(b)
<1>1. ASSUME NEW s \in Sessions, NEW u \in Users, AssignNext(s, u)
      PROVE  Left(b)
  <2>1. ASSUME NEW w, NEW r, NEW c \in FirstInQueue(Offerable(s, u, r)), Hand(w, s, u, c)
        PROVE  Left(b)
    <3>1. c \in Bookings /\ c # b
      BY <2>1 DEF FirstInQueue, Offerable, OpenTo
    <3>2. booking'[b] = booking[b]
      BY <2>1, <3>1 DEF Hand, TypeOK
    <3> QED
      BY <3>2 DEF Left
  <2>2. CASE UNCHANGED booking
    BY <2>2 DEF Left
  <2> QED
    BY <1>1, <2>1, <2>2 DEF AssignNext
<1>2. ASSUME NEW s \in Sessions, NEW c \in Bookings, ProcessOfferTimeout(s, c)
      PROVE  Left(b)
  <2>1. b # c
    BY <1>2 DEF ProcessOfferTimeout, Expired
  <2>2. booking'[b] = booking[b]
    BY <1>2, <2>1 DEF ProcessOfferTimeout, TypeOK
  <2> QED
    BY <2>2 DEF Left
<1> QED
  BY <1>1, <1>2 DEF DispatchNext

\* Sessions, groups, cleanup and the clock leave tasks alone.
LEMMA LeftByManagers ==
  ASSUME TypeOK, SessionNext \/ CleanupNext \/ GroupNext \/ Tick,
         NEW b \in Bookings, booking[b].status \notin {"absent", "waiting"}
  PROVE  Left(b)
<1>1. ASSUME NEW s \in Sessions, NEW job, CleanUp(s, job)
      PROVE  Left(b)
  BY <1>1 DEF CleanUp, WaitingCancelled, Left
<1>2. ASSUME NEW c \in Bookings, OfferPasses(c) \/ GraceEnds(c) \/ BookingAges(c)
      PROVE  Left(b)
  <2>1. b # c
    BY <1>2 DEF OfferPasses, GraceEnds, BookingAges
  <2>2. booking'[b] = booking[b]
    BY <1>2, <2>1 DEF OfferPasses, GraceEnds, BookingAges, TypeOK
  <2> QED
    BY <2>2 DEF Left
<1>3. ASSUME SessionNext \/ GroupNext
      PROVE  Left(b)
  BY <1>3 DEF Left, SessionNext, GroupNext, StartSession, PauseSession, ResumeSession,
              CloseSession, LinkSessions, UnlinkSession, SetMode
<1>4. ASSUME NEW s \in Sessions, NEW job, NEW u,
             SelectForCleanup(s, job) \/ PausePasses(s, u)
      PROVE  Left(b)
  BY <1>4 DEF SelectForCleanup, PausePasses, Left
<1> QED
  BY <1>1, <1>2, <1>3, <1>4 DEF CleanupNext, Tick

\* Whatever the step, a booking that was handed out is left alone, finished by
\* its worker, or cancelled by a public cancel that read it while it waited.
LEMMA HandedOut ==
  ASSUME TypeOK, [Next]_vars,
         NEW b \in Bookings, booking[b].status \notin {"absent", "waiting"}
  PROVE  Left(b)
<1>1. CASE UNCHANGED vars
  BY <1>1 DEF vars, Left
<1> QED
  BY <1>1, LeftByStudents, LeftByWorkers, LeftByTasks, LeftByDispatch,
     LeftByManagers DEF Next

(***************************************************************************)
(* A started task is taken from nobody by a timeout, by leaving, by a      *)
(* pause, a close or a closing job: only the second statement of a public  *)
(* cancel (CancelQueueBookingPublicHandler), which does not look at the    *)
(* status again, does so.                                                  *)
(***************************************************************************)
THEOREM StartedWorkStays == Spec => OnlyLateCancelsTakeWork
<1> DEFINE Step == \A b \in Bookings : booking[b].status = "in_progress" =>
              \/ /\ booking'[b].assigned = booking[b].assigned
                 /\ booking'[b].status \in {"in_progress", "completed", "no_show"}
              \/ cancelling[b] = "read" /\ booking'[b].status = "cancelled"
<1>1. ASSUME TypeOK, [Next]_vars
      PROVE  Step
  <2> SUFFICES ASSUME NEW b \in Bookings, booking[b].status = "in_progress"
               PROVE  \/ /\ booking'[b].assigned = booking[b].assigned
                         /\ booking'[b].status \in {"in_progress", "completed", "no_show"}
                      \/ cancelling[b] = "read" /\ booking'[b].status = "cancelled"
    OBVIOUS
  <2>1. Left(b)
    BY <1>1, HandedOut
  <2>2. booking[b] \in BookingRow
    BY <1>1 DEF TypeOK
  <2> QED
    BY <2>1, <2>2 DEF Left, BookingRow
<1>2. TypeOK /\ [Next]_vars => [Step]_vars
  BY <1>1
<1> QED
  BY <1>2, TypeCorrect, PTL DEF Spec, OnlyLateCancelsTakeWork

\* What is started or over stays so, in every step but that of a late public cancel.
THEOREM WorkStays == Spec => WorkIsKept
BY EndedForGood, StartedWorkStays DEF WorkIsKept
-----------------------------------------------------------------------------
(* The projector's board.                                                   *)

\* No closing job has picked up a session.
NobodyCloses == \A s \in Sessions : selected[s] = {}

\* No public cancel has yet to write the desk of the booking it has cancelled.
CancelsPosted == \A b \in Bookings : cancelling[b] # "written"

\* What the cell of a session, desk and type may show, bk being the bookings and
\* cancels how far their public cancels are: also a booking whose public cancel
\* has not reached the desk.
Shows(cell, bk, cancels, s, d, t) ==
  cell.status \in {"waiting", "in_progress"} =>
    /\ cell.ref \in Bookings
    /\ bk[cell.ref].session = s
    /\ bk[cell.ref].desk = d
    /\ bk[cell.ref].type = t
    /\ \/ bk[cell.ref].status = cell.status
       \/ bk[cell.ref].status = "cancelled" /\ cancels[cell.ref] = "written"

\* The invariant.
BoardInv ==
  \A s \in Sessions, d \in Desks, t \in BookingTypes :
    Shows(board[s][d][t], booking, cancelling, s, d, t)

\* The step does not end the public cancel of c.
StillToPost(c) == cancelling[c] = "written" => cancelling'[c] = "written"

\* q and r are bookings of one cell.
SamePlace(q, r) == q.session = r.session /\ q.desk = r.desk /\ q.type = r.type

\* A step that changes no status and no place, and posts nothing, keeps the
\* board honest; so does one that blanks cells.
LEMMA HonestKept ==
  ASSUME BoardInv,
         \A s \in Sessions, d \in Desks, t \in BookingTypes :
           \/ board'[s][d][t] = board[s][d][t]
           \/ board'[s][d][t].status \notin {"waiting", "in_progress"},
         \A c \in Bookings : /\ booking'[c].status = booking[c].status
                             /\ SamePlace(booking'[c], booking[c])
                             /\ StillToPost(c)
  PROVE  BoardInv'
<1> SUFFICES ASSUME NEW s \in Sessions, NEW d \in Desks, NEW t \in BookingTypes,
                    board'[s][d][t].status \in {"waiting", "in_progress"}
             PROVE  Shows(board'[s][d][t], booking', cancelling', s, d, t)
  BY DEF BoardInv, Shows
<1>1. board'[s][d][t] = board[s][d][t]
  OBVIOUS
<1>2. Shows(board[s][d][t], booking, cancelling, s, d, t)
  BY DEF BoardInv
<1> DEFINE c == board[s][d][t].ref
<1>3. /\ c \in Bookings
      /\ booking'[c].status = booking[c].status
      /\ SamePlace(booking'[c], booking[c])
      /\ StillToPost(c)
  BY <1>1, <1>2 DEF Shows
<1> QED
  BY <1>1, <1>2, <1>3 DEF Shows, SamePlace, StillToPost

\* A booking replaced in its place, and its cell posted accordingly.
LEMMA HonestPost ==
  ASSUME TypeOK, BoardInv,
         NEW b \in Bookings, NEW q, SamePlace(q, booking[b]),
         booking' = [booking EXCEPT ![b] = q],
         \A c \in Bookings \ {b} : StillToPost(c),
         NEW status, NEW ref, board' = Post(board, b, status, ref),
         status \in {"waiting", "in_progress"} =>
           /\ ref \in Bookings
           /\ booking'[ref].status = status
           /\ SamePlace(booking'[ref], booking[b])
  PROVE  BoardInv'
<1> DEFINE bs == booking[b].session
           bd == booking[b].desk
           bt == booking[b].type
<1>0. /\ booking \in [Bookings -> BookingRow]
      /\ board \in [Sessions -> [Desks -> [BookingTypes -> BoardCell]]]
      /\ bs \in Sessions /\ bd \in Desks /\ bt \in BookingTypes
  BY DEF TypeOK, BookingRow
<1> SUFFICES ASSUME NEW s \in Sessions, NEW d \in Desks, NEW t \in BookingTypes
             PROVE  Shows(board'[s][d][t], booking', cancelling', s, d, t)
  BY DEF BoardInv
<1>1. Shows(board[s][d][t], booking, cancelling, s, d, t)
  BY DEF BoardInv
<1>2. CASE s = bs /\ d = bd /\ t = bt
  <2>1. CASE board[bs][bd][bt].status = "absent"
    <3>1. board'[s][d][t].status = "absent"
      BY <1>2, <2>1 DEF Post
    <3> QED
      BY <3>1 DEF Shows
  <2>2. CASE board[bs][bd][bt].status # "absent"
    <3>1. board'[s][d][t] = [status |-> status, ref |-> ref]
      BY <1>0, <1>2, <2>2 DEF Post
    <3> QED
      BY <1>2, <3>1 DEF Shows, SamePlace
  <2> QED
    BY <2>1, <2>2
<1>3. CASE ~(s = bs /\ d = bd /\ t = bt)
  <2>1. board'[s][d][t] = board[s][d][t]
    BY <1>0, <1>3 DEF Post
  <2>2. ASSUME board[s][d][t].status \in {"waiting", "in_progress"}
        PROVE  /\ booking'[board[s][d][t].ref] = booking[board[s][d][t].ref]
               /\ StillToPost(board[s][d][t].ref)
    BY <1>0, <1>1, <1>3, <2>2 DEF Shows
  <2> QED
    BY <1>1, <2>1, <2>2 DEF Shows, StillToPost
<1> QED
  BY <1>2, <1>3

\* The end of a booking, with the cell brought up to date by BoardAfter.
LEMMA HonestEnding ==
  ASSUME TypeOK, BoardInv,
         NEW b \in Bookings, NEW q, SamePlace(q, booking[b]),
         booking' = [booking EXCEPT ![b] = q],
         \A c \in Bookings \ {b} : StillToPost(c),
         NEW status \in {"idle", "completed"}, NEW ref,
         board' \in BoardAfter(booking', b, status, ref)
  PROVE  BoardInv'
<1>1. CASE booking[b].type = "grading"
  <2>1. board' = Post(board, b, status, ref)
    BY <1>1 DEF BoardAfter
  <2> QED
    BY <2>1, HonestPost
<1>2. CASE booking[b].type # "grading"
  <2>0. booking[b].type = "help"
    BY <1>2 DEF TypeOK, BookingRow, BookingTypes
  <2>1. board' \in HelpSynced(booking', b)
    BY <1>2 DEF BoardAfter
  <2>2. \/ board' = Post(board, b, "idle", NoBooking)
        \/ \E x \in {"waiting", "in_progress"} :
             \E c \in HelpAt(booking', b, x) : board' = Post(board, b, x, c)
    BY <2>1 DEF HelpSynced
  <2>3. \A x \in {"waiting", "in_progress"} : \A c \in HelpAt(booking', b, x) :
          /\ c \in Bookings
          /\ booking'[c].status = x
          /\ SamePlace(booking'[c], booking[b])
    BY <2>0 DEF HelpAt, SamePlace
  <2>4. CASE board' = Post(board, b, "idle", NoBooking)
    BY <2>4, HonestPost
  <2>5. ASSUME NEW x \in {"waiting", "in_progress"}, NEW c \in HelpAt(booking', b, x),
               board' = Post(board, b, x, c)
        PROVE  BoardInv'
    BY <2>3, <2>5, HonestPost
  <2> QED
    BY <2>2, <2>4, <2>5
<1> QED
  BY <1>1, <1>2

\* A new booking, which no cell can have referred to, and its cell.
LEMMA HonestCreate ==
  ASSUME TypeOK, BoardInv,
         NEW s \in Sessions, NEW st \in Students, NEW d \in Desks,
         NEW type \in BookingTypes, NEW b \in Bookings,
         CreateBooking(s, st, d, type, b)
  PROVE  BoardInv'
<1>1. /\ \A c \in Bookings \ {b} : booking'[c] = booking[c]
      /\ UNCHANGED cancelling
  BY DEF CreateBooking, TypeOK
<1>2. /\ booking[b].status = "absent"
      /\ booking'[b].status = "waiting"
      /\ booking'[b].session = s
      /\ booking'[b].desk = d
      /\ booking'[b].type = type
  BY DEF CreateBooking, TypeOK
<1> SUFFICES ASSUME NEW x \in Sessions, NEW y \in Desks, NEW z \in BookingTypes
             PROVE  Shows(board'[x][y][z], booking', cancelling', x, y, z)
  BY DEF BoardInv
<1>3. Shows(board[x][y][z], booking, cancelling, x, y, z)
  BY DEF BoardInv
<1>4. \/ board'[x][y][z] = board[x][y][z]
      \/ /\ x = s /\ y = d /\ z = type
         /\ board'[x][y][z] = [status |-> "waiting", ref |-> b]
  BY DEF CreateBooking, TypeOK
<1>5. CASE board'[x][y][z] = board[x][y][z]
  <2>1. board[x][y][z].status \in {"waiting", "in_progress"} => board[x][y][z].ref # b
    BY <1>2, <1>3 DEF Shows
  <2> QED
    BY <1>1, <1>3, <1>5, <2>1 DEF Shows
<1>6. CASE /\ x = s /\ y = d /\ z = type
           /\ board'[x][y][z] = [status |-> "waiting", ref |-> b]
  BY <1>2, <1>6 DEF Shows
<1> QED
  BY <1>4, <1>5, <1>6

\* Leaving posts the offers it returns, which are waiting again.
LEMMA HonestLeave ==
  ASSUME TypeOK, BoardInv, NEW s \in Sessions, NEW u \in Users, WorkerLeave(s, u)
  PROVE  BoardInv'
<1>0. UNCHANGED cancelling /\ \A c \in Bookings : StillToPost(c)
  BY DEF WorkerLeave, StillToPost
<1>1. \A c \in Bookings : /\ booking'[c].status = booking[c].status
                          /\ SamePlace(booking'[c], booking[c])
  <2>1. \A c \in Bookings : /\ booking[c] \in BookingRow
                            /\ booking'[c] \in {booking[c], Returned(booking[c], u)}
    BY DEF WorkerLeave, TypeOK
  <2>2. ASSUME NEW r \in BookingRow
        PROVE  Returned(r, u).status = r.status /\ SamePlace(Returned(r, u), r)
    BY DEF Returned, BookingRow, SamePlace
  <2> QED
    BY <2>1, <2>2 DEF SamePlace
<1>2. CASE UNCHANGED board
  BY <1>0, <1>1, <1>2, HonestKept
<1>3. ASSUME NEW L \in LastPosted(OffersHeld(s, u)), board' = ReturnedToBoard(L)
      PROVE  BoardInv'
  <2> SUFFICES ASSUME NEW x \in Sessions, NEW y \in Desks, NEW z \in BookingTypes
               PROVE  Shows(board'[x][y][z], booking', cancelling', x, y, z)
    BY DEF BoardInv
  <2> DEFINE here == {b \in L : /\ booking[b].session = x
                                /\ booking[b].desk = y
                                /\ booking[b].type = z}
  <2>1. \A b \in here : b \in Bookings /\ booking[b].status = "waiting"
    BY DEF LastPosted, OffersHeld
  <2>2. CASE here = {} \/ board[x][y][z].status = "absent"
    <3>1. board'[x][y][z] = board[x][y][z]
      BY <1>3, <2>2 DEF ReturnedToBoard
    <3>2. Shows(board[x][y][z], booking, cancelling, x, y, z)
      BY DEF BoardInv
    <3> QED
      BY <1>0, <1>1, <3>1, <3>2 DEF Shows, SamePlace
  <2>3. CASE ~(here = {} \/ board[x][y][z].status = "absent")
    <3>1. board'[x][y][z] = [status |-> "waiting", ref |-> CHOOSE b \in here : TRUE]
      BY <1>3, <2>3 DEF ReturnedToBoard
    <3>2. (CHOOSE b \in here : TRUE) \in here
      BY <2>3
    <3> QED
      BY <1>1, <2>1, <3>1, <3>2 DEF Shows, SamePlace
  <2> QED
    BY <2>2, <2>3
<1> QED
  BY <1>2, <1>3 DEF WorkerLeave

\* Each way the dispatcher and the workers write a row keeps its place.
LEMMA PlaceKept ==
  ASSUME NEW r \in BookingRow, NEW u
  PROVE  /\ SamePlace(r, r)
         /\ SamePlace(Offered(r, u), r) /\ Offered(r, u).status = "waiting"
         /\ SamePlace(StartedBy(r, u), r) /\ StartedBy(r, u).status = "in_progress"
         /\ SamePlace(Returned(r, u), r) /\ Returned(r, u).status = r.status
         /\ SamePlace(Offered(Returned(r, r.assigned), u), r)
         /\ Offered(Returned(r, r.assigned), u).status = "waiting"
         /\ \A x : SamePlace([r EXCEPT !.status = x], r)
BY DEF SamePlace, Offered, StartedBy, Returned, BookingRow

\* Students and workers leave no ghost on the board.
LEMMA HonestStudentsAndTasks ==
  ASSUME TypeOK, BoardInv, StudentNext \/ PublicCancelNext \/ TaskNext
  PROVE  BoardInv'
<1>0. /\ booking \in [Bookings -> BookingRow]
      /\ \A b \in Bookings : booking[b] \in BookingRow
  BY DEF TypeOK
<1>1. ASSUME NEW b \in Bookings, CancelBooking(b)
      PROVE  BoardInv'
  <2>1. booking' = [booking EXCEPT ![b] = [booking[b] EXCEPT !.status = "cancelled"]]
    BY <1>0, <1>1 DEF CancelBooking
  <2>2. SamePlace([booking[b] EXCEPT !.status = "cancelled"], booking[b])
    BY <1>0, PlaceKept
  <2> QED
    BY <1>1, <2>1, <2>2, HonestEnding DEF CancelBooking, StillToPost
<1>2. ASSUME NEW b \in Bookings, PublicCancelRead(b)
      PROVE  BoardInv'
  <2>1. \A c \in Bookings : StillToPost(c)
    BY <1>2 DEF PublicCancelRead, StillToPost, TypeOK
  <2> QED
    BY <1>2, <2>1, HonestKept DEF PublicCancelRead, SamePlace
<1>3. ASSUME NEW b \in Bookings, PublicCancelWrite(b)
      PROVE  BoardInv'
  <2>1. /\ UNCHANGED board
        /\ \A c \in Bookings : /\ SamePlace(booking'[c], booking[c])
                               /\ \/ /\ booking'[c] = booking[c]
                                     /\ cancelling'[c] = cancelling[c]
                                  \/ /\ booking'[c].status = "cancelled"
                                     /\ cancelling'[c] = "written"
    BY <1>0, <1>3 DEF PublicCancelWrite, SamePlace, TypeOK, BookingRow
  <2> QED
    BY <2>1 DEF BoardInv, Shows, SamePlace
<1>4. ASSUME NEW b \in Bookings, PublicCancelDesk(b)
      PROVE  BoardInv'
  <2>1. \A c \in Bookings \ {b} : StillToPost(c)
    BY <1>4 DEF PublicCancelDesk, StillToPost, TypeOK
  <2>2. /\ booking' = [booking EXCEPT ![b] = booking[b]]
        /\ SamePlace(booking[b], booking[b])
    BY <1>0, <1>4 DEF PublicCancelDesk, SamePlace
  <2>3. board' \in BoardAfter(booking', b, "idle", NoBooking)
    BY <1>4 DEF PublicCancelDesk
  <2> QED
    BY <2>1, <2>2, <2>3, HonestEnding
<1>5. ASSUME NEW b \in Bookings, NEW u \in Users, Start(b, u)
      PROVE  BoardInv'
  <2> DEFINE q == [booking[b] EXCEPT !.status = "in_progress", !.offer = "none"]
  <2>1. booking' = [booking EXCEPT ![b] = q]
    BY <1>0, <1>5 DEF Start, BookingRow
  <2>2. SamePlace(q, booking[b]) /\ q.status = "in_progress"
    BY <1>0 DEF SamePlace, BookingRow
  <2>3. /\ board' = Post(board, b, "in_progress", b)
        /\ \A c \in Bookings : StillToPost(c)
    BY <1>5 DEF Start, StillToPost
  <2>4. booking'[b] = q
    BY <1>0, <2>1
  <2> HIDE DEF q
  <2> QED
    BY <2>1, <2>2, <2>3, <2>4, HonestPost
<1>6. ASSUME NEW b \in Bookings, NEW u \in Users, Reject(b, u)
      PROVE  BoardInv'
  <2>1. /\ booking' = [booking EXCEPT ![b] = Returned(booking[b], u)]
        /\ booking[b].status = "waiting"
        /\ board' = Post(board, b, "waiting", b)
        /\ \A c \in Bookings : StillToPost(c)
    BY <1>6 DEF Reject, StillToPost
  <2>2. booking'[b] = Returned(booking[b], u)
    BY <1>0, <2>1
  <2> QED
    BY <1>0, <2>1, <2>2, PlaceKept, HonestPost
<1>7. ASSUME NEW b \in Bookings, NEW u \in Users, NEW status \in {"completed", "no_show"},
             NEW credit, NEW gradingStatus \in {"idle", "completed"}, NEW ref,
             Finish(b, u, status, credit, gradingStatus, ref)
      PROVE  BoardInv'
  <2>1. /\ booking' = [booking EXCEPT ![b] = [booking[b] EXCEPT !.status = status]]
        /\ board' \in BoardAfter(booking', b, gradingStatus, ref)
        /\ \A c \in Bookings : StillToPost(c)
    BY <1>0, <1>7 DEF Finish, StillToPost
  <2>2. SamePlace([booking[b] EXCEPT !.status = status], booking[b])
    BY <1>0, PlaceKept
  <2> QED
    BY <2>1, <2>2, HonestEnding
<1>8. CASE StudentNext
  BY <1>1, <1>8, HonestCreate DEF StudentNext
<1>9. CASE TaskNext
  BY <1>5, <1>6, <1>7, <1>9 DEF TaskNext, Complete, NoShow, CompleteWithScores
<1> QED
  BY <1>2, <1>3, <1>4, <1>8, <1>9 DEF PublicCancelNext

\* Nor do the dispatcher and the timeout sweep: an offer that is handed on is
\* posted again, one that nobody takes still waits.
LEMMA HonestDispatch ==
  ASSUME TypeOK, BoardInv, DispatchNext
  PROVE  BoardInv'
<1>0. /\ booking \in [Bookings -> BookingRow]
      /\ \A b \in Bookings : booking[b] \in BookingRow
  BY DEF TypeOK
<1> DEFINE Posting == \A c \in Bookings : StillToPost(c)
<1>1. ASSUME NEW w, NEW s, NEW u, NEW b \in Bookings, Hand(w, s, u, b), Posting
      PROVE  BoardInv'
  <2>1. \/ /\ booking' = [booking EXCEPT ![b] = StartedBy(booking[b], u)]
           /\ board' = Post(board, b, "in_progress", b)
        \/ /\ booking' = [booking EXCEPT ![b] = Offered(booking[b], u)]
           /\ board' = Post(board, b, "waiting", b)
    BY <1>0, <1>1 DEF Hand
  <2>2. CASE /\ booking' = [booking EXCEPT ![b] = StartedBy(booking[b], u)]
             /\ board' = Post(board, b, "in_progress", b)
    <3>1. booking'[b] = StartedBy(booking[b], u)
      BY <1>0, <2>2
    <3>2. /\ SamePlace(StartedBy(booking[b], u), booking[b])
          /\ StartedBy(booking[b], u).status = "in_progress"
      BY <1>0, PlaceKept
    <3> QED
      BY <1>1, <2>2, <3>1, <3>2, HonestPost
  <2>3. CASE /\ booking' = [booking EXCEPT ![b] = Offered(booking[b], u)]
             /\ board' = Post(board, b, "waiting", b)
    <3>1. booking'[b] = Offered(booking[b], u)
      BY <1>0, <2>3
    <3>2. /\ SamePlace(Offered(booking[b], u), booking[b])
          /\ Offered(booking[b], u).status = "waiting"
      BY <1>0, PlaceKept
    <3> QED
      BY <1>1, <2>3, <3>1, <3>2, HonestPost
  <2> QED
    BY <2>1, <2>2, <2>3
<1>2. ASSUME NEW s \in Sessions, NEW u \in Users, AssignNext(s, u)
      PROVE  BoardInv'
  <2>0. Posting
    BY <1>2 DEF AssignNext, Hand, StillToPost
  <2>1. ASSUME NEW w, NEW r, NEW b \in FirstInQueue(Offerable(s, u, r)), Hand(w, s, u, b)
        PROVE  BoardInv'
    BY <1>1, <2>0, <2>1 DEF FirstInQueue, Offerable, OpenTo
  <2>2. CASE UNCHANGED <<booking, board>>
    BY <2>0, <2>2, HonestKept DEF SamePlace
  <2> QED
    BY <1>2, <2>1, <2>2 DEF AssignNext
<1>3. ASSUME NEW s \in Sessions, NEW b \in Bookings, ProcessOfferTimeout(s, b)
      PROVE  BoardInv'
  <2> DEFINE back == Returned(booking[b], booking[b].assigned)
  <2>0. Posting
    BY <1>3 DEF ProcessOfferTimeout, StillToPost
  <2>1. \/ booking' = [booking EXCEPT ![b] = back] /\ UNCHANGED board
        \/ \E v : /\ booking' = [booking EXCEPT ![b] = Offered(back, v)]
                  /\ board' = Post(board, b, "waiting", b)
    BY <1>3 DEF ProcessOfferTimeout
  <2>2. /\ SamePlace(back, booking[b]) /\ back.status = booking[b].status
        /\ \A v : /\ SamePlace(Offered(back, v), booking[b])
                  /\ Offered(back, v).status = "waiting"
    BY <1>0, PlaceKept
  <2> HIDE DEF back
  <2>3. CASE booking' = [booking EXCEPT ![b] = back] /\ UNCHANGED board
    <3>1. \A c \in Bookings : /\ booking'[c].status = booking[c].status
                              /\ SamePlace(booking'[c], booking[c])
      <4>1. \A c \in Bookings : booking'[c] = IF c = b THEN back ELSE booking[c]
        BY <1>0, <2>3
      <4> QED
        BY <1>0, <2>2, <4>1, PlaceKept
    <3> QED
      BY <2>0, <2>3, <3>1, HonestKept
  <2>4. ASSUME NEW v, booking' = [booking EXCEPT ![b] = Offered(back, v)],
               board' = Post(board, b, "waiting", b)
        PROVE  BoardInv'
    <3>1. booking'[b] = Offered(back, v)
      BY <1>0, <2>4
    <3> QED
      BY <2>0, <2>2, <2>4, <3>1, HonestPost
  <2> QED
    BY <2>1, <2>3, <2>4
<1> QED
  BY <1>2, <1>3 DEF DispatchNext

\* Nor does anything else, as long as no closing job is at work.
LEMMA HonestOther ==
  ASSUME TypeOK, BoardInv, NobodyCloses,
         WorkerNext \/ SessionNext \/ CleanupNext \/ GroupNext \/ Tick
  PROVE  BoardInv'
<1>0. /\ booking \in [Bookings -> BookingRow]
      /\ \A b \in Bookings : booking[b] \in BookingRow
  BY DEF TypeOK
<1>1. CASE UNCHANGED <<booking, board, cancelling>>
  BY <1>1, HonestKept DEF SamePlace, StillToPost
<1>2. ASSUME NEW s \in Sessions, StartSession(s)
      PROVE  BoardInv'
  <2>1. \A x \in Sessions, d \in Desks, t \in BookingTypes :
          \/ board'[x][d][t] = board[x][d][t]
          \/ board'[x][d][t].status = "idle"
    BY <1>2 DEF StartSession, TypeOK
  <2>2. UNCHANGED <<booking, cancelling>>
    BY <1>2 DEF StartSession
  <2> QED
    BY <2>1, <2>2, HonestKept DEF SamePlace, StillToPost
<1>3. ASSUME NEW b \in Bookings, OfferPasses(b) \/ GraceEnds(b) \/ BookingAges(b)
      PROVE  BoardInv'
  <2>1. PICK r \in {[booking[b] EXCEPT !.offer = "passed"],
                    [booking[b] EXCEPT !.recent = FALSE],
                    [booking[b] EXCEPT !.young = FALSE]} :
          booking' = [booking EXCEPT ![b] = r]
    BY <1>3 DEF OfferPasses, GraceEnds, BookingAges, TypeOK
  <2>2. SamePlace(r, booking[b]) /\ r.status = booking[b].status
    BY <1>0 DEF SamePlace, BookingRow
  <2>3. \A c \in Bookings : /\ booking'[c].status = booking[c].status
                            /\ SamePlace(booking'[c], booking[c])
    BY <1>0, <2>1, <2>2 DEF SamePlace
  <2>4. UNCHANGED <<board, cancelling>>
    BY <1>3 DEF OfferPasses, GraceEnds, BookingAges
  <2> QED
    BY <2>3, <2>4, HonestKept DEF StillToPost
<1>4. ASSUME NEW s \in Sessions, NEW job, CleanUp(s, job)
      PROVE  FALSE
  BY <1>4 DEF CleanUp, NobodyCloses
<1>5. CASE WorkerNext
  <2>1. PICK s \in Sessions, u \in Users :
          \/ JoinRead(s, u)
          \/ \E accept \in AcceptChoices : JoinSave(s, u, accept)
          \/ \E t \in Sessions : MirrorRead(s, t, u) \/ MirrorSave(s, t, u)
          \/ MirrorGivenUp(s, u)
          \/ WorkerLeave(s, u)
          \/ LeaveMirror(s, u)
    BY <1>5 DEF WorkerNext
  <2>2. UNCHANGED <<booking, board, cancelling>> \/ WorkerLeave(s, u)
    BY <2>1 DEF JoinRead, JoinSave, MirrorRead, MirrorSave, MirrorGivenUp, LeaveMirror
  <2> QED
    BY <1>1, <2>2, HonestLeave
<1>6. CASE SessionNext
  <2>1. PICK s \in Sessions : \/ StartSession(s)
                              \/ PauseSession(s)
                              \/ ResumeSession(s)
                              \/ CloseSession(s)
    BY <1>6 DEF SessionNext
  <2> QED
    BY <1>1, <1>2, <2>1 DEF PauseSession, ResumeSession, CloseSession
<1>7. CASE CleanupNext
  BY <1>1, <1>4, <1>7 DEF CleanupNext, SelectForCleanup
<1>8. CASE GroupNext
  BY <1>1, <1>8 DEF GroupNext, LinkSessions, UnlinkSession, SetMode
<1>9. CASE Tick
  BY <1>1, <1>3, <1>9 DEF Tick, PausePasses
<1> QED
  BY <1>5, <1>6, <1>7, <1>8, <1>9

(***************************************************************************)
(* Whatever updateDeskStatus and syncHelpDeskStatus are called with, and   *)
(* however public cancels overlap, no desk waits for, or is busy with, a   *)
(* booking that is not, once the cancels have written their desks.  A      *)
(* closing job cancels bookings and writes no desks at all.                *)
(***************************************************************************)
THEOREM BoardHasNoGhosts ==
  Spec /\ []NobodyCloses => [](CancelsPosted => NoGhostOnBoard)
<1>1. Init => BoardInv
  BY DEF Init, BoardInv, Shows
<1>2. TypeOK /\ NobodyCloses /\ BoardInv /\ [Next]_vars => BoardInv'
  <2> SUFFICES ASSUME TypeOK, NobodyCloses, BoardInv, [Next]_vars
               PROVE  BoardInv'
    OBVIOUS
  <2>1. CASE UNCHANGED vars
    BY <2>1, HonestKept DEF vars, SamePlace, StillToPost
  <2> QED
    BY <2>1, HonestStudentsAndTasks, HonestDispatch, HonestOther DEF Next
<1>3. BoardInv => (CancelsPosted => NoGhostOnBoard)
  BY DEF BoardInv, Shows, CancelsPosted, NoGhostOnBoard
<1> QED
  BY <1>1, <1>2, <1>3, TypeCorrect, PTL DEF Spec
-----------------------------------------------------------------------------
(* The counters of completed tasks.                                         *)

\* No public cancel is about to overwrite a task completed since it read the
\* booking: that would take back a credited task, and not the credit.
CancelsAreOnTime ==
  \A b \in Bookings : cancelling[b] = "read" => booking[b].status # "completed"

\* The bookings that exist, and, among the bookings bk, the tasks that u has
\* completed in s.
Existing(bk) == {b \in Bookings : bk[b].status # "absent"}

Earned(bk, s, u) == {b \in Bookings : /\ bk[b].status = "completed"
                                      /\ bk[b].session = s
                                      /\ bk[b].assigned = u}

\* The join and mirror requests in flight hold counters that they will save.
SnapsEarned ==
  \A s \in Sessions, u \in Users :
    /\ req[s][u].phase = "join" =>
         req[s][u].snap.load <= Cardinality(Earned(booking, s, u))
    /\ req[s][u].phase = "mirrorSave" =>
         \A t \in req[s][u].target :
           req[s][u].snap.load <= Cardinality(Earned(booking, t, u))

\* Only finitely many bookings exist, so that they can be counted.
CreditInv == /\ CreditIsEarned
             /\ SnapsEarned
             /\ IsFiniteSet(Existing(booking))

\* The workers of w have completed no more than they have in the table.
NoMore(w) ==
  \A s \in Sessions, u \in Users : w[s][u].load <= worker[s][u].load

\* Every counter of every row is a natural number.
LEMMA LoadsAreNat ==
  ASSUME TypeOK
  PROVE  /\ worker \in WorkerT
         /\ \A s \in Sessions, u \in Users :
              worker[s][u] \in WorkerRow /\ worker[s][u].load \in Nat
         /\ NoMore(worker)
<1>1. worker \in WorkerT
  BY DEF TypeOK, WorkerT
<1>2. \A s \in Sessions, u \in Users :
        worker[s][u] \in WorkerRow /\ worker[s][u].load \in Nat
  BY <1>1 DEF WorkerT, WorkerRow
<1> QED
  BY <1>1, <1>2 DEF NoMore

\* Everything that is written into a row but the credit keeps its counter.
LEMMA LoadOfRows ==
  ASSUME NEW r \in WorkerRow, NEW b
  PROVE  /\ Busy(r, b).load = r.load
         /\ Working(r, b).load = r.load
         /\ AfterTimeout(r).load = r.load
         /\ Unburdened(r).load = r.load
         /\ Freed(r, 0).load = r.load
         /\ Freed(r, 1).load = r.load + 1
         /\ Snapshot(r).load <= r.load
BY DEF Busy, Working, AfterTimeout, Unburdened, Freed, Snapshot, NoRow, WorkerRow

\* Writing a row with no larger a counter adds no credit.
LEMMA NoMorePut ==
  ASSUME NEW w \in WorkerT, NoMore(w), TypeOK,
         NEW s \in Sessions, NEW u \in Users, NEW r, r.load <= w[s][u].load,
         r.load \in Nat
  PROVE  /\ NoMore([w EXCEPT ![s][u] = r])
         /\ NoMore(PutRow(w, s, u, r))
<1>1. \A x \in Sessions, y \in Users :
        worker[x][y].load \in Nat /\ w[x][y].load \in Nat
  BY LoadsAreNat DEF WorkerT, WorkerRow
<1>2. \A x \in Sessions, y \in Users :
        [w EXCEPT ![s][u] = r][x][y] = IF x = s /\ y = u THEN r ELSE w[x][y]
  BY DEF WorkerT
<1>3. NoMore([w EXCEPT ![s][u] = r])
  BY <1>1, <1>2 DEF NoMore
<1> QED
  BY <1>3 DEF PutRow

\* A row that is inserted as a mirror has no credit.
LEMMA NoMoreLocked ==
  ASSUME TypeOK, NEW s \in Sessions, NEW u \in Users, NEW w \in RowLocked(s, u)
  PROVE  w \in WorkerT /\ w[s][u] \in WorkerRow /\ NoMore(w)
<1>1. w \in WorkerT
  BY RowLockedType
<1>2. CASE w = worker
  BY <1>1, <1>2, LoadsAreNat
<1>3. CASE w # worker
  <2> DEFINE mirror(o) == [NoRow EXCEPT !.status = Row(o, u).status,
                                        !.accept = Row(o, u).accept,
                                        !.mirror = TRUE]
  <2>1. PICK o \in GroupOf(s) : w = [worker EXCEPT ![s][u] = mirror(o)]
    BY <1>3 DEF RowLocked
  <2>2. mirror(o).load = 0
    BY DEF NoRow
  <2>3. worker[s][u].load \in Nat /\ 0 <= worker[s][u].load
    BY LoadsAreNat
  <2> HIDE DEF mirror
  <2>4. PICK r : w = [worker EXCEPT ![s][u] = r] /\ r.load = 0
    BY <2>1, <2>2
  <2>5. r.load \in Nat /\ r.load <= worker[s][u].load
    BY <2>3, <2>4
  <2>6. NoMore(w)
    BY <2>4, <2>5, LoadsAreNat, NoMorePut
  <2> QED
    BY <1>1, <2>6 DEF WorkerT
<1> QED
  BY <1>2, <1>3

\* Neither has a row whose worker comes back online.
LEMMA NoMoreRevived ==
  ASSUME TypeOK, NEW s \in Sessions, NEW u \in Users
  PROVE  Revived(s, u) \in WorkerT /\ NoMore(Revived(s, u))
<1>1. worker[s][u] \in WorkerRow
  BY LoadsAreNat
<1> DEFINE r == [worker[s][u] EXCEPT !.status = "online", !.pause = "none", !.consec = 0]
<1>2. r.load = worker[s][u].load
  BY <1>1 DEF WorkerRow
<1>3. worker[s][u].load \in Nat /\ worker[s][u].load <= worker[s][u].load
  BY LoadsAreNat
<1>4. Revived(s, u) \in {worker, [worker EXCEPT ![s][u] = r]}
  BY LoadsAreNat DEF Revived, WorkerT
<1> HIDE DEF r
<1>5. NoMore([worker EXCEPT ![s][u] = r])
  BY <1>2, <1>3, LoadsAreNat, NoMorePut
<1> QED
  BY <1>4, <1>5, RevivedType, LoadsAreNat

\* How the counter of u's row in s may come about in one step: it has not
\* grown, a join or a mirroring has saved what it had read, or u has completed
\* a task of s.
SavedByJoin(s, u) ==
  req[s][u].phase = "join" /\ worker'[s][u].load <= req[s][u].snap.load

SavedByMirror(s, u) ==
  \E o \in Sessions : /\ req[o][u].phase = "mirrorSave"
                      /\ s \in req[o][u].target
                      /\ worker'[s][u].load <= req[o][u].snap.load

Credited(s, u) ==
  /\ worker'[s][u].load <= worker[s][u].load + 1
  /\ \E b \in Bookings :
       /\ booking[b].status = "in_progress"
       /\ booking[b].session = s
       /\ booking[b].assigned = u
       /\ booking' = [booking EXCEPT ![b] = [booking[b] EXCEPT !.status = "completed"]]

CreditFrom(s, u) ==
  \/ worker'[s][u].load <= worker[s][u].load
  \/ SavedByJoin(s, u)
  \/ SavedByMirror(s, u)
  \/ Credited(s, u)

\* Joining, mirroring and leaving.
LEMMA CreditByWorkers ==
  ASSUME TypeOK, WorkerNext, NEW s \in Sessions, NEW u \in Users
  PROVE  CreditFrom(s, u)
<1>0. /\ \A x \in Sessions, y \in Users :
           worker[x][y] \in WorkerRow /\ worker[x][y].load \in Nat
      /\ worker \in WorkerT
  BY LoadsAreNat
<1>a. \A x \in Sessions, y \in Users :
        req[x][y].snap \in WorkerRow /\ req[x][y].snap.load \in Nat
  BY DEF TypeOK, Request, WorkerRow
<1>1. CASE UNCHANGED worker
  BY <1>0, <1>1 DEF CreditFrom
<1>2. ASSUME NEW x \in Sessions, NEW y \in Users, NEW accept, JoinSave(x, y, accept)
      PROVE  CreditFrom(s, u)
  <2> DEFINE snap == req[x][y].snap
             saved == [snap EXCEPT !.accept = accept, !.mirror = FALSE]
             promoted == [worker[x][y] EXCEPT !.mirror = FALSE]
             new == NewRow(accept, FALSE)
  <2>1. PICK r \in {saved, promoted, new} :
          worker' = [worker EXCEPT ![x][y] = r] /\ req[x][y].phase = "join"
    BY <1>2 DEF JoinSave
  <2>2. /\ saved.load = snap.load
        /\ promoted.load = worker[x][y].load
        /\ new.load = 0
    BY <1>0, <1>a DEF WorkerRow, NewRow, NoRow
  <2> HIDE DEF saved, promoted, new
  <2>3. r.load <= snap.load \/ r.load <= worker[x][y].load
    BY <1>0, <1>a, <2>1, <2>2
  <2>4. worker'[s][u] = IF s = x /\ u = y THEN r ELSE worker[s][u]
    BY <1>0, <2>1 DEF WorkerT
  <2> QED
    BY <1>0, <2>1, <2>3, <2>4 DEF CreditFrom, SavedByJoin
<1>3. ASSUME NEW x \in Sessions, NEW t \in Sessions, NEW y \in Users, MirrorSave(x, t, y)
      PROVE  CreditFrom(s, u)
  <2> DEFINE snap == req[x][y].snap
             new == NewRow(snap.accept, TRUE)
  <2>1. PICK r \in {snap, worker[t][y], new} :
          /\ worker' = [worker EXCEPT ![t][y] = r]
          /\ req[x][y].phase = "mirrorSave"
          /\ t \in req[x][y].target
    BY <1>3 DEF MirrorSave
  <2>2. new.load = 0
    BY DEF NewRow, NoRow
  <2> HIDE DEF new
  <2>3. r.load <= snap.load \/ r.load <= worker[t][y].load
    BY <1>0, <1>a, <2>1, <2>2
  <2>4. worker'[s][u] = IF s = t /\ u = y THEN r ELSE worker[s][u]
    BY <1>0, <2>1 DEF WorkerT
  <2> QED
    BY <1>0, <2>1, <2>3, <2>4 DEF CreditFrom, SavedByMirror
<1>4. ASSUME NEW x \in Sessions, NEW y \in Users, WorkerLeave(x, y) \/ LeaveMirror(x, y)
      PROVE  CreditFrom(s, u)
  <2>1. worker'[s][u].load = worker[s][u].load
    <3>1. CASE WorkerLeave(x, y)
      <4> DEFINE away == [worker[x][y] EXCEPT !.status = "paused"]
                 gone == [worker[x][y] EXCEPT !.status = "offline", !.cur = NoBooking,
                                              !.pause = "none", !.consec = 0]
      <4>1. PICK r \in {away, gone} : worker' = [worker EXCEPT ![x][y] = r]
        BY <1>0, <3>1 DEF WorkerLeave, WorkerT
      <4>2. away.load = worker[x][y].load /\ gone.load = worker[x][y].load
        BY <1>0 DEF WorkerRow
      <4> HIDE DEF away, gone
      <4> QED
        BY <1>0, <4>1, <4>2 DEF WorkerT
    <3>2. CASE LeaveMirror(x, y)
      BY <1>0, <3>2 DEF LeaveMirror, WorkerT, WorkerRow
    <3> QED
      BY <1>4, <3>1, <3>2
  <2> QED
    BY <1>0, <2>1 DEF CreditFrom
<1>5. PICK x \in Sessions, y \in Users :
        \/ JoinRead(x, y)
        \/ \E accept \in AcceptChoices : JoinSave(x, y, accept)
        \/ \E t \in Sessions : MirrorRead(x, t, y) \/ MirrorSave(x, t, y)
        \/ MirrorGivenUp(x, y)
        \/ WorkerLeave(x, y)
        \/ LeaveMirror(x, y)
  BY DEF WorkerNext
<1>6. \/ UNCHANGED worker
      \/ \E accept \in AcceptChoices : JoinSave(x, y, accept)
      \/ \E t \in Sessions : MirrorSave(x, t, y)
      \/ WorkerLeave(x, y) \/ LeaveMirror(x, y)
  BY <1>5 DEF JoinRead, MirrorRead, MirrorGivenUp
<1> QED
  BY <1>1, <1>2, <1>3, <1>4, <1>6

\* A step that leaves the worker table with no larger counters adds no credit.
LEMMA CreditNoMore ==
  ASSUME NEW s \in Sessions, NEW u \in Users, NEW w, NoMore(w), worker' = w
  PROVE  CreditFrom(s, u)
BY DEF NoMore, CreditFrom

\* Answering an offer adds none, finishing a task credits its worker at most.
LEMMA CreditByTasks ==
  ASSUME TypeOK, TaskNext, NEW s \in Sessions, NEW u \in Users
  PROVE  CreditFrom(s, u)
<1>0. /\ booking \in [Bookings -> BookingRow]
      /\ \A b \in Bookings : booking[b] \in BookingRow /\ booking[b].session \in Sessions
  BY DEF TypeOK, BookingRow
<1>1. ASSUME NEW b \in Bookings, NEW x \in Users, Start(b, x)
      PROVE  CreditFrom(s, u)
  <2> DEFINE bs == booking[b].session
  <2>1. PICK w \in RowLocked(bs, x) :
          worker' = [w EXCEPT ![bs][x] = Working(w[bs][x], b)]
    BY <1>1, <1>0, NoMoreLocked DEF Start, WorkerT
  <2>2. w \in WorkerT /\ w[bs][x] \in WorkerRow /\ NoMore(w)
    BY <1>0, NoMoreLocked
  <2>3. /\ Working(w[bs][x], b).load = w[bs][x].load
        /\ w[bs][x].load \in Nat
    BY <2>2, LoadOfRows DEF WorkerRow
  <2>4. NoMore([w EXCEPT ![bs][x] = Working(w[bs][x], b)])
    BY <1>0, <2>2, <2>3, NoMorePut
  <2> QED
    BY <2>1, <2>4, CreditNoMore
<1>2. ASSUME NEW b \in Bookings, NEW x \in Users, Reject(b, x)
      PROVE  CreditFrom(s, u)
  <2> DEFINE bs == booking[b].session
  <2>1. PICK w \in RowLocked(bs, x) :
          worker' = [w EXCEPT ![bs][x] = Unburdened(w[bs][x])]
    BY <1>2, <1>0, NoMoreLocked DEF Reject, WorkerT
  <2>2. w \in WorkerT /\ w[bs][x] \in WorkerRow /\ NoMore(w)
    BY <1>0, NoMoreLocked
  <2>3. /\ Unburdened(w[bs][x]).load = w[bs][x].load
        /\ w[bs][x].load \in Nat
    BY <2>2, LoadOfRows DEF WorkerRow
  <2>4. NoMore([w EXCEPT ![bs][x] = Unburdened(w[bs][x])])
    BY <1>0, <2>2, <2>3, NoMorePut
  <2> QED
    BY <2>1, <2>4, CreditNoMore
<1>3. ASSUME NEW b \in Bookings, NEW x \in Users, NEW gradingStatus, NEW ref,
             Finish(b, x, "no_show", 0, gradingStatus, ref)
      PROVE  CreditFrom(s, u)
  <2> DEFINE bs == booking[b].session
  <2>1. PICK w \in RowLocked(bs, x) :
          worker' = [w EXCEPT ![bs][x] = Freed(w[bs][x], 0)]
    BY <1>3, <1>0, NoMoreLocked DEF Finish, WorkerT
  <2>2. w \in WorkerT /\ w[bs][x] \in WorkerRow /\ NoMore(w)
    BY <1>0, NoMoreLocked
  <2>3. /\ Freed(w[bs][x], 0).load = w[bs][x].load
        /\ w[bs][x].load \in Nat
    BY <2>2, LoadOfRows DEF WorkerRow
  <2>4. NoMore([w EXCEPT ![bs][x] = Freed(w[bs][x], 0)])
    BY <1>0, <2>2, <2>3, NoMorePut
  <2> QED
    BY <2>1, <2>4, CreditNoMore
<1>4. ASSUME NEW b \in Bookings, NEW x \in Users, NEW gradingStatus, NEW ref,
             Finish(b, x, "completed", 1, gradingStatus, ref)
      PROVE  CreditFrom(s, u)
  <2> DEFINE bs == booking[b].session
  <2>1. PICK w \in RowLocked(bs, x) :
          /\ worker' = [w EXCEPT ![bs][x] = Freed(w[bs][x], 1)]
          /\ booking[b].status = "in_progress"
          /\ booking[b].assigned = x
          /\ booking' = [booking EXCEPT ![b] =
                           [booking[b] EXCEPT !.status = "completed"]]
    BY <1>4, <1>0, NoMoreLocked DEF Finish, WorkerT
  <2>2. w \in WorkerT /\ w[bs][x] \in WorkerRow /\ NoMore(w)
    BY <1>0, NoMoreLocked
  <2>3. /\ Freed(w[bs][x], 1).load = w[bs][x].load + 1
        /\ w[bs][x].load \in Nat
        /\ w[bs][x].load <= worker[bs][x].load
        /\ worker[bs][x].load \in Nat
    BY <1>0, <2>2, LoadOfRows, LoadsAreNat DEF WorkerRow, NoMore
  <2>4. CASE s = bs /\ u = x
    <3>1. worker'[s][u] = Freed(w[bs][x], 1)
      BY <1>0, <2>1, <2>2, <2>4 DEF WorkerT
    <3>2. worker'[s][u].load <= worker[s][u].load + 1
      BY <2>3, <2>4, <3>1
    <3>3. Credited(s, u)
      BY <2>1, <2>4, <3>2 DEF Credited
    <3> QED
      BY <3>3 DEF CreditFrom
  <2>5. CASE ~(s = bs /\ u = x)
    <3>1. worker'[s][u] = w[s][u]
      BY <1>0, <2>1, <2>2, <2>5 DEF WorkerT
    <3> QED
      BY <2>2, <3>1 DEF NoMore, CreditFrom
  <2> QED
    BY <2>4, <2>5
<1> QED
  BY <1>1, <1>2, <1>3, <1>4 DEF TaskNext, Complete, NoShow, CompleteWithScores

\* Being offered work, or losing an offer, adds no credit.
LEMMA CreditByDispatch ==
  ASSUME TypeOK, DispatchNext, NEW s \in Sessions, NEW u \in Users
  PROVE  CreditFrom(s, u)
<1>0. \A b \in Bookings : booking[b] \in BookingRow /\ booking[b].session \in Sessions
  BY DEF TypeOK, BookingRow
<1>1. ASSUME NEW x \in Sessions, NEW y \in Users, AssignNext(x, y)
      PROVE  CreditFrom(s, u)
  <2> DEFINE w == Revived(x, y)
  <2>1. w \in WorkerT /\ NoMore(w)
    BY NoMoreRevived
  <2> HIDE DEF w
  <2>2. ASSUME NEW b \in Bookings, Hand(w, x, y, b)
        PROVE  CreditFrom(s, u)
    <3> DEFINE t == booking[b].session
    <3>0. t \in Sessions
      BY <1>0
    <3>1. w[t][y] \in WorkerRow /\ w[t][y].load \in Nat
      BY <1>0, <2>1 DEF WorkerT, WorkerRow
    <3>2. PICK r \in {Working(w[t][y], b), Busy(w[t][y], b)} :
            worker' = PutRow(w, t, y, r)
      BY <2>2 DEF Hand
    <3>3. r.load \in Nat /\ r.load <= w[t][y].load
      BY <3>1, <3>2, LoadOfRows
    <3> HIDE DEF t
    <3>4. NoMore(PutRow(w, t, y, r))
      BY <2>1, <3>0, <3>3, NoMorePut
    <3> QED
      BY <3>2, <3>4, CreditNoMore
  <2>3. CASE worker' = w
    BY <2>1, <2>3, CreditNoMore
  <2>4. \/ \E b \in Bookings : Hand(w, x, y, b)
        \/ worker' = w
    BY <1>1 DEF AssignNext, FirstInQueue, Offerable, OpenTo, w
  <2> QED
    BY <2>2, <2>3, <2>4
<1>2. ASSUME NEW x \in Sessions, NEW b \in Bookings, ProcessOfferTimeout(x, b)
      PROVE  CreditFrom(s, u)
  <2> DEFINE y == booking[b].assigned
             w == [worker EXCEPT ![x][y] = AfterTimeout(worker[x][y])]
  <2>1. y \in Users
    BY <1>0, <1>2 DEF ProcessOfferTimeout, Expired, BookingRow
  <2>2. worker[x][y] \in WorkerRow /\ worker[x][y].load \in Nat
    BY <2>1, LoadsAreNat
  <2>3. AfterTimeout(worker[x][y]).load = worker[x][y].load
        /\ AfterTimeout(worker[x][y]) \in WorkerRow
    BY <2>2, LoadOfRows, AfterTimeoutType
  <2>4. NoMore(w) /\ w \in WorkerT
    BY <2>1, <2>2, <2>3, NoMorePut, LoadsAreNat, WorkerPut
  <2>5. \/ worker' = w
        \/ \E v \in Users : worker' = [w EXCEPT ![x][v] = Busy(w[x][v], b)]
    <3>1. w = [worker EXCEPT ![x][y] = AfterTimeout(@)]
      BY <2>1, LoadsAreNat DEF WorkerT
    <3> HIDE DEF w
    <3>2. \/ worker' = w
          \/ \E v \in Users : worker' = [w EXCEPT ![x][v] = Busy(@, b)]
      BY <1>2, <3>1 DEF ProcessOfferTimeout, LeastLoaded, Eligible
    <3> QED
      BY <2>4, <3>2 DEF WorkerT
  <2> HIDE DEF w
  <2>6. ASSUME NEW v \in Users, worker' = [w EXCEPT ![x][v] = Busy(w[x][v], b)]
        PROVE  CreditFrom(s, u)
    <3>1. w[x][v] \in WorkerRow /\ w[x][v].load \in Nat
      BY <2>4 DEF WorkerT, WorkerRow
    <3>2. Busy(w[x][v], b).load = w[x][v].load
      BY <3>1, LoadOfRows
    <3>3. NoMore([w EXCEPT ![x][v] = Busy(w[x][v], b)])
      BY <2>4, <3>1, <3>2, NoMorePut
    <3> QED
      BY <2>6, <3>3, CreditNoMore
  <2> QED
    BY <2>4, <2>5, <2>6, CreditNoMore
<1> QED
  BY <1>1, <1>2 DEF DispatchNext

\* Nor does anything that managers, students, jobs or the clock do; a row
\* mirrored into a linked session starts without credit.
LEMMA CreditByOthers ==
  ASSUME TypeOK, NEW s \in Sessions, NEW u \in Users,
         StudentNext \/ PublicCancelNext \/ SessionNext \/ CleanupNext \/ GroupNext
           \/ Tick \/ UNCHANGED vars
  PROVE  CreditFrom(s, u)
<1>0. /\ worker \in WorkerT
      /\ \A x \in Sessions, y \in Users :
           worker[x][y] \in WorkerRow /\ worker[x][y].load \in Nat
  BY LoadsAreNat
<1>1. CASE UNCHANGED worker
  BY <1>0, <1>1 DEF CreditFrom
<1>2. ASSUME NEW x \in Sessions, worker' = ForcedOffline(x)
      PROVE  CreditFrom(s, u)
  <2>1. \A r \in WorkerRow :
          [r EXCEPT !.status = "offline", !.cur = NoBooking, !.pause = "none",
                    !.consec = 0].load = r.load
    BY DEF WorkerRow
  <2>2. worker'[s][u].load = worker[s][u].load
    BY <1>0, <1>2, <2>1 DEF ForcedOffline, WorkerT, Row
  <2> QED
    BY <1>0, <2>2 DEF CreditFrom
<1>3. ASSUME NEW x \in Sessions, NEW t \in Sessions, NEW mode, NEW g,
             LinkSessions(x, t, mode, g)
      PROVE  CreditFrom(s, u)
  <2>1. ASSUME NEW a \in Sessions, NEW c \in Sessions, NEW y \in Users
        PROVE  Mirrored(a, c)[c][y].load <= worker[c][y].load
    <3> DEFINE new == [NoRow EXCEPT !.status = Row(a, y).status,
                                    !.accept = Row(a, y).accept, !.mirror = TRUE]
    <3>1. new.load = 0
      BY DEF NoRow
    <3>2. Mirrored(a, c)[c][y] = worker[c][y] \/ Mirrored(a, c)[c][y] = new
      BY <1>0 DEF Mirrored, WorkerT, Row
    <3> HIDE DEF new
    <3> QED
      BY <1>0, <3>1, <3>2
  <2>2. CASE worker' = [worker EXCEPT ![x] = Mirrored(t, x)[x],
                                      ![t] = Mirrored(x, t)[t]]
    <3>1. worker'[s] = IF s = t THEN Mirrored(x, t)[t]
                       ELSE IF s = x THEN Mirrored(t, x)[x] ELSE worker[s]
      BY <1>0, <2>2 DEF WorkerT
    <3> QED
      BY <1>0, <2>1, <3>1 DEF CreditFrom
  <2> QED
    BY <1>1, <1>3, <2>2 DEF LinkSessions
<1>4. ASSUME NEW x \in Sessions, NEW y \in Users, PausePasses(x, y)
      PROVE  CreditFrom(s, u)
  <2>1. worker'[s][u].load = worker[s][u].load
    BY <1>0, <1>4 DEF PausePasses, WorkerT, WorkerRow
  <2> QED
    BY <1>0, <2>1 DEF CreditFrom
<1>5. CASE StudentNext \/ PublicCancelNext \/ UNCHANGED vars
  BY <1>1, <1>5 DEF StudentNext, PublicCancelNext, CreateBooking, CancelBooking,
                    PublicCancelRead, PublicCancelWrite, PublicCancelDesk, vars
<1>6. CASE SessionNext
  BY <1>1, <1>2, <1>6 DEF SessionNext, StartSession, PauseSession, ResumeSession,
                          CloseSession
<1>7. CASE CleanupNext
  BY <1>1, <1>2, <1>7 DEF CleanupNext, SelectForCleanup, CleanUp
<1>8. CASE GroupNext
  BY <1>1, <1>3, <1>8 DEF GroupNext, UnlinkSession, SetMode
<1>9. CASE Tick
  BY <1>1, <1>4, <1>9 DEF Tick, OfferPasses, GraceEnds, BookingAges
<1> QED
  BY <1>5, <1>6, <1>7, <1>8, <1>9

\* Whatever the step, credit comes from nowhere else.
LEMMA CreditOfStep ==
  ASSUME TypeOK, [Next]_vars, NEW s \in Sessions, NEW u \in Users
  PROVE  CreditFrom(s, u)
BY CreditByWorkers, CreditByTasks, CreditByDispatch, CreditByOthers DEF Next

\* A row that is no mirror.
Own(r) == r.status # "absent" /\ ~r.mirror

\* The requests in flight: a step leaves the one of u in s alone, or ends the
\* reading phases, or has just read a row of the table.
ReadNow(s, u) ==
  \/ req'[s][u] = req[s][u]
  \/ req'[s][u].phase \notin {"join", "mirrorSave"}
  \/ /\ req'[s][u].phase = "join"
     /\ req'[s][u].snap.load <= worker[s][u].load
  \/ \E t \in Sessions :
       /\ req'[s][u].phase = "mirrorSave"
       /\ req'[s][u].target = {t}
       /\ req'[s][u].snap.load <= worker[t][u].load
       /\ Own(req'[s][u].snap) => Own(worker[t][u])

\* Every request reads from the table the counters it will save, and whether
\* the row is a mirror.
LEMMA SnapOfStep ==
  ASSUME TypeOK, [Next]_vars, NEW s \in Sessions, NEW u \in Users
  PROVE  ReadNow(s, u)
<1>0. /\ req \in [Sessions -> [Users -> Request]]
      /\ \A x \in Sessions, y \in Users :
           worker[x][y] \in WorkerRow /\ req[x][y] \in Request
  BY DEF TypeOK
<1>1. CASE UNCHANGED req
  BY <1>1 DEF ReadNow
<1>2. ASSUME NEW x \in Sessions, NEW y \in Users, NEW r,
             req' = [req EXCEPT ![x][y] = r], r.phase \notin {"join", "mirrorSave"}
      PROVE  ReadNow(s, u)
  <2>1. req'[s][u] = IF s = x /\ u = y THEN r ELSE req[s][u]
    BY <1>0, <1>2
  <2> QED
    BY <1>2, <2>1 DEF ReadNow
<1>3. ASSUME NEW x \in Sessions, NEW y \in Users, JoinRead(x, y)
      PROVE  ReadNow(s, u)
  <2> DEFINE r == [NoRequest EXCEPT !.phase = "join", !.snap = Snapshot(Row(x, y))]
  <2>1. req' = [req EXCEPT ![x][y] = r]
    BY <1>3 DEF JoinRead
  <2>2. r.phase = "join" /\ r.snap = Snapshot(worker[x][y])
    BY DEF NoRequest, Row
  <2> HIDE DEF r
  <2>3. req'[s][u] = IF s = x /\ u = y THEN r ELSE req[s][u]
    BY <1>0, <2>1
  <2>4. Snapshot(worker[x][y]).load <= worker[x][y].load
    BY <1>0, LoadOfRows
  <2> QED
    BY <2>2, <2>3, <2>4 DEF ReadNow
<1>4. ASSUME NEW x \in Sessions, NEW t \in Sessions, NEW y \in Users, MirrorRead(x, t, y)
      PROVE  ReadNow(s, u)
  <2> DEFINE sn == [Snapshot(Row(t, y)) EXCEPT !.accept = req[x][y].snap.accept]
             r == [req[x][y] EXCEPT !.phase = "mirrorSave", !.target = {t}, !.snap = sn]
  <2>1. req' = [req EXCEPT ![x][y] = r]
    BY <1>0, <1>4 DEF MirrorRead
  <2>2. Snapshot(worker[t][y]) \in WorkerRow
    BY <1>0, SnapshotType
  <2>3. /\ sn.load = Snapshot(worker[t][y]).load
        /\ Own(sn) => Own(worker[t][y])
    <3>1. /\ sn.load = Snapshot(worker[t][y]).load
          /\ sn.status = Snapshot(worker[t][y]).status
          /\ sn.mirror = Snapshot(worker[t][y]).mirror
      BY <2>2 DEF Row, WorkerRow
    <3>2. Own(Snapshot(worker[t][y])) => Own(worker[t][y])
      BY <1>0 DEF Own, Snapshot, NoRow, WorkerRow
    <3> QED
      BY <3>1, <3>2 DEF Own
  <2> HIDE DEF sn
  <2>4. r.phase = "mirrorSave" /\ r.target = {t} /\ r.snap = sn
    BY <1>0 DEF Request
  <2> HIDE DEF r
  <2>5. req'[s][u] = IF s = x /\ u = y THEN r ELSE req[s][u]
    BY <1>0, <2>1
  <2>6. Snapshot(worker[t][y]).load <= worker[t][y].load
    BY <1>0, LoadOfRows
  <2>7. r.snap.load <= worker[t][y].load /\ (Own(r.snap) => Own(worker[t][y]))
    BY <2>3, <2>4, <2>6
  <2>8. CASE s = x /\ u = y
    <3>1. req'[s][u] = r
      BY <2>5, <2>8
    <3> QED
      BY <2>4, <2>7, <2>8, <3>1 DEF ReadNow
  <2>9. CASE ~(s = x /\ u = y)
    BY <2>5, <2>9 DEF ReadNow
  <2> QED
    BY <2>8, <2>9
<1>5. NoRequest.phase = "idle"
  BY DEF NoRequest
<1>6. CASE WorkerNext
  <2>1. PICK x \in Sessions, y \in Users :
          \/ JoinRead(x, y)
          \/ \E accept \in AcceptChoices : JoinSave(x, y, accept)
          \/ \E t \in Sessions : MirrorRead(x, t, y) \/ MirrorSave(x, t, y)
          \/ MirrorGivenUp(x, y)
          \/ WorkerLeave(x, y)
          \/ LeaveMirror(x, y)
    BY <1>6 DEF WorkerNext
  <2>2. ASSUME NEW accept, JoinSave(x, y, accept)
        PROVE  ReadNow(s, u)
    <3> DEFINE r == [NoRequest EXCEPT !.phase = "mirror", !.snap.accept = accept]
    <3>1. req' = [req EXCEPT ![x][y] = NoRequest] \/ req' = [req EXCEPT ![x][y] = r]
      BY <1>0, <2>2 DEF JoinSave
    <3>2. r.phase = "mirror"
      BY DEF NoRequest
    <3> HIDE DEF r
    <3> QED
      BY <1>2, <1>5, <3>1, <3>2
  <2>3. ASSUME NEW t \in Sessions, MirrorSave(x, t, y)
        PROVE  ReadNow(s, u)
    BY <1>2, <1>5, <2>3 DEF MirrorSave
  <2>4. ASSUME MirrorGivenUp(x, y) \/ LeaveMirror(x, y)
        PROVE  ReadNow(s, u)
    BY <1>2, <1>5, <2>4 DEF MirrorGivenUp, LeaveMirror
  <2>5. ASSUME WorkerLeave(x, y)
        PROVE  ReadNow(s, u)
    <3> DEFINE r == [NoRequest EXCEPT !.phase = "leave", !.status = LeaveStatus(x, y)]
    <3>1. req' = [req EXCEPT ![x][y] = NoRequest] \/ req' = [req EXCEPT ![x][y] = r]
      BY <1>0, <2>5 DEF WorkerLeave
    <3>2. r.phase = "leave"
      BY DEF NoRequest
    <3> HIDE DEF r
    <3> QED
      BY <1>2, <1>5, <3>1, <3>2
  <2> QED
    BY <1>3, <1>4, <2>1, <2>2, <2>3, <2>4, <2>5
<1>7. CASE TaskNext
  <2>1. ASSUME NEW b \in Bookings, NEW x \in Users,
               Start(b, x) \/ Reject(b, x) \/ Complete(b, x) \/ NoShow(b, x)
                 \/ CompleteWithScores(b, x)
        PROVE  UNCHANGED req
    BY <2>1 DEF Start, Reject, Complete, NoShow, CompleteWithScores, Finish
  <2> QED
    BY <1>1, <1>7, <2>1 DEF TaskNext
<1>8. CASE StudentNext \/ PublicCancelNext \/ DispatchNext \/ UNCHANGED vars
  <2>1. StudentNext => UNCHANGED req
    BY DEF StudentNext, CreateBooking, CancelBooking
  <2>2. PublicCancelNext => UNCHANGED req
    BY DEF PublicCancelNext, PublicCancelRead, PublicCancelWrite, PublicCancelDesk
  <2>3. ASSUME NEW x \in Sessions, NEW y, AssignNext(x, y) \/ ProcessOfferTimeout(x, y)
        PROVE  UNCHANGED req
    BY <2>3 DEF AssignNext, ProcessOfferTimeout
  <2>4. DispatchNext => UNCHANGED req
    BY <2>3 DEF DispatchNext
  <2>5. UNCHANGED vars => UNCHANGED req
    BY DEF vars
  <2> QED
    BY <1>1, <1>8, <2>1, <2>2, <2>4, <2>5
<1>9. CASE SessionNext \/ CleanupNext \/ GroupNext \/ Tick
  BY <1>1, <1>9 DEF SessionNext, CleanupNext, GroupNext, Tick, StartSession,
       PauseSession, ResumeSession, CloseSession, SelectForCleanup, CleanUp,
       LinkSessions, UnlinkSession, SetMode, OfferPasses, GraceEnds, BookingAges,
       PausePasses
<1> QED
  BY <1>6, <1>7, <1>8, <1>9 DEF Next

\* One booking at most is created in a step, so there are finitely many.
LEMMA ExistingFinite ==
  ASSUME TypeOK, CancelKnown, [Next]_vars, IsFiniteSet(Existing(booking))
  PROVE  IsFiniteSet(Existing(booking'))
<1>1. CASE AllFollow
  <2>1. Existing(booking') = Existing(booking)
    BY <1>1 DEF AllFollow, Follows, Existing
  <2> QED
    BY <2>1
<1>2. CASE Creates
  <2>1. PICK b \in Bookings : \A c \in Bookings \ {b} : booking'[c] = booking[c]
    BY <1>2 DEF Creates, CreateBooking, TypeOK
  <2>2. Existing(booking') \subseteq Existing(booking) \cup {b}
    BY <2>1 DEF Existing
  <2>3. IsFiniteSet(Existing(booking) \cup {b})
    BY FS_AddElement
  <2> QED
    BY <2>2, <2>3, FS_Subset
<1> QED
  BY <1>1, <1>2, NextFollows

\* A completed task stays completed, and its worker's.
LEMMA EarnedGrows ==
  ASSUME TypeOK, CancelsAreOnTime, [Next]_vars, NEW s \in Sessions, NEW u \in Users
  PROVE  Earned(booking, s, u) \subseteq Earned(booking', s, u)
<1> SUFFICES ASSUME NEW b \in Bookings,
                    /\ booking[b].status = "completed"
                    /\ booking[b].session = s
                    /\ booking[b].assigned = u
             PROVE  booking'[b] = booking[b]
  BY DEF Earned
<1>1. Left(b)
  BY HandedOut
<1> QED
  BY <1>1 DEF Left, CancelsAreOnTime

\* The invariant is inductive.
LEMMA CreditStep ==
  ASSUME TypeOK, CancelKnown, CancelsAreOnTime, CreditInv, [Next]_vars
  PROVE  CreditInv'
<1>1. IsFiniteSet(Existing(booking'))
  BY ExistingFinite DEF CreditInv
<1>2. ASSUME NEW s \in Sessions, NEW u \in Users
      PROVE  /\ IsFiniteSet(Earned(booking', s, u))
             /\ Cardinality(Earned(booking, s, u)) \in Nat
             /\ Cardinality(Earned(booking', s, u)) \in Nat
             /\ Cardinality(Earned(booking, s, u)) <= Cardinality(Earned(booking', s, u))
  <2>1. Earned(booking', s, u) \subseteq Existing(booking')
    BY DEF Earned, Existing
  <2>2. IsFiniteSet(Earned(booking', s, u))
    BY <1>1, <2>1, FS_Subset
  <2>3. Earned(booking, s, u) \subseteq Earned(booking', s, u)
    BY EarnedGrows
  <2>4. /\ IsFiniteSet(Earned(booking, s, u))
        /\ Cardinality(Earned(booking, s, u)) <= Cardinality(Earned(booking', s, u))
    BY <2>2, <2>3, FS_Subset
  <2> QED
    BY <2>2, <2>4, FS_CardinalityType
<1>3. \A s \in Sessions, u \in Users :
        worker[s][u].load \in Nat
        /\ worker[s][u].load <= Cardinality(Earned(booking, s, u))
  BY LoadsAreNat DEF CreditInv, CreditIsEarned, Earned, Row
<1>4. /\ TypeOK'
      /\ \A s \in Sessions, u \in Users :
           /\ worker'[s][u].load \in Nat
           /\ req[s][u].snap.load \in Nat /\ req'[s][u].snap.load \in Nat
           /\ req[s][u].target \subseteq Sessions
  <2>1. TypeOK'
    BY NextTyping
  <2> QED
    BY <2>1 DEF TypeOK, Request, WorkerRow
<1>5. ASSUME NEW s \in Sessions, NEW u \in Users
      PROVE  worker'[s][u].load <= Cardinality(Earned(booking', s, u))
  <2>1. CASE worker'[s][u].load <= worker[s][u].load
    BY <1>2, <1>3, <1>4, <2>1
  <2>2. CASE SavedByJoin(s, u)
    <3>1. req[s][u].snap.load <= Cardinality(Earned(booking, s, u))
      BY <2>2 DEF SavedByJoin, CreditInv, SnapsEarned
    <3> QED
      BY <1>2, <1>4, <2>2, <3>1 DEF SavedByJoin
  <2>3. CASE SavedByMirror(s, u)
    <3>1. PICK o \in Sessions : /\ req[o][u].phase = "mirrorSave"
                                /\ s \in req[o][u].target
                                /\ worker'[s][u].load <= req[o][u].snap.load
      BY <2>3 DEF SavedByMirror
    <3>2. req[o][u].snap.load <= Cardinality(Earned(booking, s, u))
      BY <3>1 DEF CreditInv, SnapsEarned
    <3> QED
      BY <1>2, <1>4, <3>1, <3>2
  <2>4. CASE Credited(s, u)
    <3>1. PICK b \in Bookings :
            /\ booking[b].status = "in_progress"
            /\ booking[b].session = s
            /\ booking[b].assigned = u
            /\ booking' = [booking EXCEPT ![b] =
                             [booking[b] EXCEPT !.status = "completed"]]
      BY <2>4 DEF Credited
    <3>2. b \in Earned(booking', s, u) /\ b \notin Earned(booking, s, u)
      BY <3>1 DEF Earned, TypeOK, BookingRow
    <3>3. Earned(booking, s, u) \cup {b} \subseteq Earned(booking', s, u)
      BY <3>2, EarnedGrows
    <3>4. IsFiniteSet(Earned(booking, s, u))
      BY <1>2, EarnedGrows, FS_Subset
    <3>5. Cardinality(Earned(booking, s, u) \cup {b})
            = Cardinality(Earned(booking, s, u)) + 1
      BY <3>2, <3>4, FS_AddElement
    <3>6. Cardinality(Earned(booking, s, u) \cup {b})
            <= Cardinality(Earned(booking', s, u))
      BY <1>2, <3>3, FS_Subset
    <3>7. worker'[s][u].load <= worker[s][u].load + 1
      BY <2>4 DEF Credited
    <3>8. worker[s][u].load + 1 <= Cardinality(Earned(booking, s, u)) + 1
      BY <1>2, <1>3
    <3>9. Cardinality(Earned(booking, s, u)) + 1 <= Cardinality(Earned(booking', s, u))
      BY <3>5, <3>6
    <3> QED
      BY <1>2, <1>3, <1>4, <3>7, <3>8, <3>9
  <2> QED
    BY <2>1, <2>2, <2>3, <2>4, CreditOfStep DEF CreditFrom
<1>6. CreditIsEarned'
  BY <1>5 DEF CreditIsEarned, Earned, Row
<1>7. ASSUME NEW s \in Sessions, NEW u \in Users
      PROVE  /\ req'[s][u].phase = "join" =>
                  req'[s][u].snap.load <= Cardinality(Earned(booking', s, u))
             /\ req'[s][u].phase = "mirrorSave" =>
                  \A t \in req'[s][u].target :
                    req'[s][u].snap.load <= Cardinality(Earned(booking', t, u))
  <2>1. CASE req'[s][u] = req[s][u]
    <3>1. req[s][u].phase = "join" =>
            req[s][u].snap.load <= Cardinality(Earned(booking, s, u))
      BY DEF CreditInv, SnapsEarned
    <3>2. req[s][u].phase = "mirrorSave" =>
            \A t \in req[s][u].target :
              req[s][u].snap.load <= Cardinality(Earned(booking, t, u))
      BY DEF CreditInv, SnapsEarned
    <3>3. req[s][u].snap.load \in Nat /\ req[s][u].target \subseteq Sessions
      BY <1>4
    <3>4. req[s][u].phase = "join" =>
            req[s][u].snap.load <= Cardinality(Earned(booking', s, u))
      BY <1>2, <3>1, <3>3
    <3>5. ASSUME req[s][u].phase = "mirrorSave", NEW t \in req[s][u].target
          PROVE  req[s][u].snap.load <= Cardinality(Earned(booking', t, u))
      <4>1. t \in Sessions
        BY <3>3
      <4> QED
        BY <1>2, <3>2, <3>3, <3>5, <4>1
    <3> QED
      BY <2>1, <3>4, <3>5
  <2>2. CASE req'[s][u].phase \notin {"join", "mirrorSave"}
    BY <2>2
  <2>3. CASE /\ req'[s][u].phase = "join"
             /\ req'[s][u].snap.load <= worker[s][u].load
    BY <1>2, <1>3, <1>4, <2>3
  <2>4. CASE \E t \in Sessions :
               /\ req'[s][u].phase = "mirrorSave"
               /\ req'[s][u].target = {t}
               /\ req'[s][u].snap.load <= worker[t][u].load
    <3>1. PICK t \in Sessions :
               /\ req'[s][u].phase = "mirrorSave"
               /\ req'[s][u].target = {t}
               /\ req'[s][u].snap.load <= worker[t][u].load
      BY <2>4
    <3>2. req'[s][u].snap.load <= Cardinality(Earned(booking', t, u))
      BY <1>2, <1>3, <1>4, <3>1
    <3> QED
      BY <3>1, <3>2
  <2> QED
    BY <2>1, <2>2, <2>3, <2>4, SnapOfStep DEF ReadNow
<1>8. SnapsEarned'
  BY <1>7 DEF SnapsEarned
<1> QED
  BY <1>1, <1>6, <1>8 DEF CreditInv

(***************************************************************************)
(* The counter that the fairness gate compares is saved back as it was     *)
(* read by WorkerJoin and by the mirroring of a join, maybe after a task   *)
(* was completed: credit can be lost that way, but unless a public cancel  *)
(* is late enough to take a completed task back, none is ever made up.     *)
(***************************************************************************)
THEOREM CreditsAreEarned == Spec /\ []CancelsAreOnTime => []CreditIsEarned
<1>1. Init => CreditInv
  <2> SUFFICES ASSUME Init
               PROVE  CreditInv
    OBVIOUS
  <2>1. Existing(booking) = {}
    BY DEF Init, NoBookingRow, Existing
  <2>2. \A s \in Sessions, u \in Users : Earned(booking, s, u) = {}
    BY DEF Init, NoBookingRow, Earned
  <2>3. IsFiniteSet({}) /\ Cardinality({}) = 0
    BY FS_EmptySet
  <2>4. CreditIsEarned
    <3>1. \A s \in Sessions, u \in Users : worker[s][u].load = 0
      BY DEF Init, NoRow
    <3>2. \A s \in Sessions, u \in Users :
            worker[s][u].load <= Cardinality(Earned(booking, s, u))
      BY <2>2, <2>3, <3>1
    <3> QED
      BY <3>2 DEF CreditIsEarned, Earned, Row
  <2>5. SnapsEarned
    BY DEF Init, SnapsEarned, NoRequest
  <2> QED
    BY <2>1, <2>3, <2>4, <2>5 DEF CreditInv
<1>2. TypeOK /\ CancelKnown /\ CancelsAreOnTime /\ CreditInv /\ [Next]_vars => CreditInv'
  BY CreditStep
<1>3. CreditInv => CreditIsEarned
  BY DEF CreditInv
<1> QED
  BY <1>1, <1>2, <1>3, BookingsExist, PTL DEF Spec
-----------------------------------------------------------------------------
(* Separated groups, over the sessions that MCQueueDispatch remembers each  *)
(* worker to have joined.                                                   *)

\* A row that is no mirror is in a session its worker joined, and so is one
\* that a mirroring request has read and will save back.
RowsJoined ==
  \A s \in Sessions, u \in Users : Own(worker[s][u]) => <<s, u>> \in joined

SnapsJoined ==
  \A s \in Sessions, u \in Users :
    req[s][u].phase = "mirrorSave" /\ Own(req[s][u].snap) =>
      \A t \in req[s][u].target : <<t, u>> \in joined

\* A group has several members, and they have one mode: the dispatcher asks the
\* worker's session for both, a timeout and an acceptance the booking's.
SameGroup(s, t) == session[t].group = session[s].group

GroupsWhole ==
  \A s \in Sessions : session[s].group # NoGroup =>
    /\ \E t \in Sessions : t # s /\ SameGroup(s, t)
    /\ \A t \in Sessions : SameGroup(s, t) => session[t].mode = session[s].mode

\* The invariant.
CoursesInv == RowsJoined /\ SnapsJoined /\ GroupsWhole

\* The rows of w that are no mirrors are none in the table.
NoNewOwn(w) ==
  \A s \in Sessions, u \in Users : Own(w[s][u]) => Own(worker[s][u])

\* Everything written into a row but by a join keeps the mark of a mirror.
LEMMA MirrorOfRows ==
  ASSUME NEW r \in WorkerRow, NEW b, NEW credit
  PROVE  /\ Busy(r, b).mirror = r.mirror
         /\ Working(r, b).mirror = r.mirror
         /\ AfterTimeout(r).mirror = r.mirror
         /\ Unburdened(r).mirror = r.mirror
         /\ Freed(r, credit).mirror = r.mirror
BY DEF Busy, Working, AfterTimeout, Unburdened, Freed, WorkerRow

\* Writing an existing row with its mark makes nobody a member of a course.
LEMMA NoNewOwnPut ==
  ASSUME NEW w \in WorkerT, NoNewOwn(w), NEW s \in Sessions, NEW u \in Users,
         NEW r, r.mirror = w[s][u].mirror
  PROVE  /\ w[s][u].status # "absent" => NoNewOwn([w EXCEPT ![s][u] = r])
         /\ NoNewOwn(PutRow(w, s, u, r))
<1>1. \A x \in Sessions, y \in Users :
        [w EXCEPT ![s][u] = r][x][y] = IF x = s /\ y = u THEN r ELSE w[x][y]
  BY DEF WorkerT
<1>2. w[s][u].status # "absent" => NoNewOwn([w EXCEPT ![s][u] = r])
  BY <1>1 DEF NoNewOwn, Own
<1> QED
  BY <1>2 DEF PutRow

\* A row inserted for an answer is a mirror.
LEMMA NoNewOwnLocked ==
  ASSUME TypeOK, NEW s \in Sessions, NEW u \in Users, NEW w \in RowLocked(s, u)
  PROVE  /\ w \in WorkerT /\ w[s][u] \in WorkerRow
         /\ w[s][u].status # "absent"
         /\ NoNewOwn(w)
<1>1. w \in WorkerT /\ w[s][u] \in WorkerRow
  BY NoMoreLocked
<1>2. worker \in WorkerT
  BY LoadsAreNat
<1>3. CASE HasRow(s, u)
  <2>1. w = worker
    BY <1>3 DEF RowLocked
  <2> QED
    BY <1>1, <1>3, <2>1 DEF HasRow, NoNewOwn
<1>4. CASE ~HasRow(s, u)
  <2> DEFINE new(o) == [NoRow EXCEPT !.status = Row(o, u).status,
                                     !.accept = Row(o, u).accept, !.mirror = TRUE]
  <2>1. PICK o \in GroupOf(s) : HasRow(o, u) /\ w = [worker EXCEPT ![s][u] = new(o)]
    BY <1>4 DEF RowLocked
  <2>2. new(o).mirror = TRUE /\ new(o).status # "absent"
    BY <2>1 DEF NoRow, HasRow, Row
  <2> HIDE DEF new
  <2>3. \A x \in Sessions, y \in Users :
          w[x][y] = IF x = s /\ y = u THEN new(o) ELSE worker[x][y]
    BY <1>2, <2>1 DEF WorkerT
  <2> QED
    BY <1>1, <2>2, <2>3 DEF NoNewOwn, Own
<1> QED
  BY <1>3, <1>4

\* A worker who comes back online does so with their row.
LEMMA NoNewOwnRevived ==
  ASSUME TypeOK, NEW s \in Sessions, NEW u \in Users
  PROVE  /\ Revived(s, u) \in WorkerT
         /\ NoNewOwn(Revived(s, u))
         /\ Revived(s, u)[s][u].mirror = worker[s][u].mirror
<1>1. worker \in WorkerT /\ worker[s][u] \in WorkerRow
  BY LoadsAreNat
<1> DEFINE r == [worker[s][u] EXCEPT !.status = "online", !.pause = "none", !.consec = 0]
<1>2. r.mirror = worker[s][u].mirror
  BY <1>1 DEF WorkerRow
<1>3. \/ Revived(s, u) = worker
      \/ worker[s][u].status # "absent" /\ Revived(s, u) = [worker EXCEPT ![s][u] = r]
  BY <1>1 DEF Revived, WorkerT, Row
<1> HIDE DEF r
<1>4. NoNewOwn(worker)
  BY DEF NoNewOwn
<1>5. NoNewOwn(Revived(s, u))
  BY <1>1, <1>2, <1>3, <1>4, NoNewOwnPut
<1>6. Revived(s, u)[s][u].mirror = worker[s][u].mirror
  BY <1>1, <1>2, <1>3 DEF WorkerT
<1> QED
  BY <1>5, <1>6, RevivedType

\* Where a row that is no mirror may come from in a step other than a join: it
\* was there, or a mirroring has saved back the row it had read.
SavedOwn(s, u) ==
  \E o \in Sessions : /\ req[o][u].phase = "mirrorSave"
                      /\ s \in req[o][u].target
                      /\ Own(req[o][u].snap)

OwnFrom(s, u) == Own(worker'[s][u]) => Own(worker[s][u]) \/ SavedOwn(s, u)

\* A step that leaves the worker table with no more such rows makes none.
LEMMA OwnNoNew ==
  ASSUME NEW s \in Sessions, NEW u \in Users, NEW w, NoNewOwn(w), worker' = w
  PROVE  OwnFrom(s, u)
BY DEF NoNewOwn, OwnFrom

\* A join makes one, of its worker in its session.
LEMMA OwnByJoin ==
  ASSUME TypeOK, NEW x \in Sessions, NEW y \in Users, NEW accept, JoinSave(x, y, accept),
         NEW s \in Sessions, NEW u \in Users, ~(s = x /\ u = y)
  PROVE  OwnFrom(s, u)
<1>1. worker'[s][u] = worker[s][u]
  BY DEF TypeOK, JoinSave
<1> QED
  BY <1>1 DEF OwnFrom

\* Mirroring makes mirrors, or saves what it read; leaving makes none.
LEMMA OwnByWorkers ==
  ASSUME TypeOK, NEW x \in Sessions, NEW y \in Users,
         \/ JoinRead(x, y)
         \/ \E t \in Sessions : MirrorRead(x, t, y) \/ MirrorSave(x, t, y)
         \/ MirrorGivenUp(x, y)
         \/ WorkerLeave(x, y)
         \/ LeaveMirror(x, y),
         NEW s \in Sessions, NEW u \in Users
  PROVE  OwnFrom(s, u)
<1>0. /\ worker \in WorkerT
      /\ worker[x][y] \in WorkerRow
      /\ NoNewOwn(worker)
  BY LoadsAreNat DEF NoNewOwn
<1>1. CASE UNCHANGED worker
  BY <1>0, <1>1, OwnNoNew
<1>2. ASSUME NEW t \in Sessions, MirrorSave(x, t, y)
      PROVE  OwnFrom(s, u)
  <2> DEFINE snap == req[x][y].snap
             new == NewRow(snap.accept, TRUE)
  <2>1. PICK r \in {snap, worker[t][y], new} :
          /\ worker' = [worker EXCEPT ![t][y] = r]
          /\ req[x][y].phase = "mirrorSave"
          /\ t \in req[x][y].target
    BY <1>2 DEF MirrorSave
  <2>2. ~Own(new)
    BY DEF NewRow, NoRow, Own
  <2> HIDE DEF new
  <2>3. worker'[s][u] = IF s = t /\ u = y THEN r ELSE worker[s][u]
    BY <1>0, <2>1 DEF WorkerT
  <2> QED
    BY <2>1, <2>2, <2>3 DEF OwnFrom, SavedOwn
<1>3. ASSUME WorkerLeave(x, y)
      PROVE  OwnFrom(s, u)
  <2> DEFINE away == [worker[x][y] EXCEPT !.status = "paused"]
             gone == [worker[x][y] EXCEPT !.status = "offline", !.cur = NoBooking,
                                          !.pause = "none", !.consec = 0]
  <2>1. PICK r \in {away, gone} : worker' = [worker EXCEPT ![x][y] = r]
    BY <1>0, <1>3 DEF WorkerLeave, WorkerT
  <2>2. away.mirror = worker[x][y].mirror /\ gone.mirror = worker[x][y].mirror
    BY <1>0 DEF WorkerRow
  <2>3. worker[x][y].status # "absent"
    BY <1>3 DEF WorkerLeave, HasRow
  <2> HIDE DEF away, gone
  <2>4. r.mirror = worker[x][y].mirror
    BY <2>1, <2>2
  <2>5. NoNewOwn([worker EXCEPT ![x][y] = r])
    BY <1>0, <2>3, <2>4, NoNewOwnPut
  <2> QED
    BY <2>1, <2>5, OwnNoNew
<1>4. ASSUME LeaveMirror(x, y)
      PROVE  OwnFrom(s, u)
  <2>1. \/ worker'[s][u] = worker[s][u]
        \/ /\ HasRow(s, u)
           /\ worker'[s][u] = [worker[s][u] EXCEPT !.status = req[x][y].status]
    BY <1>0, <1>4 DEF LeaveMirror, WorkerT
  <2>2. worker[s][u] \in WorkerRow
    BY LoadsAreNat
  <2> QED
    BY <2>1, <2>2 DEF OwnFrom, Own, HasRow, WorkerRow
<1> QED
  BY <1>1, <1>2, <1>3, <1>4 DEF JoinRead, MirrorRead, MirrorGivenUp

\* Answering an offer and finishing a task insert mirrors at most.
LEMMA OwnByTasks ==
  ASSUME TypeOK, TaskNext, NEW s \in Sessions, NEW u \in Users
  PROVE  OwnFrom(s, u)
<1>0. \A b \in Bookings : booking[b].session \in Sessions
  BY DEF TypeOK, BookingRow
<1>1. ASSUME NEW b \in Bookings, NEW x \in Users,
             NEW w \in RowLocked(booking[b].session, x), NEW r,
             r.mirror = w[booking[b].session][x].mirror,
             worker' = [w EXCEPT ![booking[b].session][x] = r]
      PROVE  OwnFrom(s, u)
  <2> DEFINE bs == booking[b].session
  <2>0. bs \in Sessions
    BY <1>0
  <2> HIDE DEF bs
  <2>1. w \in RowLocked(bs, x) /\ r.mirror = w[bs][x].mirror
        /\ worker' = [w EXCEPT ![bs][x] = r]
    BY <1>1 DEF bs
  <2>2. NoNewOwn([w EXCEPT ![bs][x] = r])
    BY <2>0, <2>1, NoNewOwnLocked, NoNewOwnPut
  <2> QED
    BY <2>1, <2>2, OwnNoNew
<1>2. ASSUME NEW b \in Bookings, NEW x \in Users, Start(b, x)
      PROVE  OwnFrom(s, u)
  <2> DEFINE bs == booking[b].session
  <2>1. PICK w \in RowLocked(bs, x) :
          worker' = [w EXCEPT ![bs][x] = Working(w[bs][x], b)]
    BY <1>0, <1>2, NoNewOwnLocked DEF Start, WorkerT
  <2>2. Working(w[bs][x], b).mirror = w[bs][x].mirror
    BY <1>0, <2>1, NoNewOwnLocked, MirrorOfRows
  <2> QED
    BY <1>1, <2>1, <2>2
<1>3. ASSUME NEW b \in Bookings, NEW x \in Users, Reject(b, x)
      PROVE  OwnFrom(s, u)
  <2> DEFINE bs == booking[b].session
  <2>1. PICK w \in RowLocked(bs, x) :
          worker' = [w EXCEPT ![bs][x] = Unburdened(w[bs][x])]
    BY <1>0, <1>3, NoNewOwnLocked DEF Reject, WorkerT
  <2>2. Unburdened(w[bs][x]).mirror = w[bs][x].mirror
    BY <1>0, <2>1, NoNewOwnLocked, MirrorOfRows
  <2> QED
    BY <1>1, <2>1, <2>2
<1>4. ASSUME NEW b \in Bookings, NEW x \in Users, NEW status, NEW credit,
             NEW gradingStatus, NEW ref, Finish(b, x, status, credit, gradingStatus, ref)
      PROVE  OwnFrom(s, u)
  <2> DEFINE bs == booking[b].session
  <2>1. PICK w \in RowLocked(bs, x) :
          worker' = [w EXCEPT ![bs][x] = Freed(w[bs][x], credit)]
    BY <1>0, <1>4, NoNewOwnLocked DEF Finish, WorkerT
  <2>2. Freed(w[bs][x], credit).mirror = w[bs][x].mirror
    BY <1>0, <2>1, NoNewOwnLocked, MirrorOfRows
  <2> QED
    BY <1>1, <2>1, <2>2
<1> QED
  BY <1>2, <1>3, <1>4 DEF TaskNext, Complete, NoShow, CompleteWithScores

\* Neither does being offered work or losing an offer.
LEMMA OwnByDispatch ==
  ASSUME TypeOK, DispatchNext, NEW s \in Sessions, NEW u \in Users
  PROVE  OwnFrom(s, u)
<1>0. \A b \in Bookings : booking[b] \in BookingRow /\ booking[b].session \in Sessions
  BY DEF TypeOK, BookingRow
<1>1. ASSUME NEW x \in Sessions, NEW y \in Users, AssignNext(x, y)
      PROVE  OwnFrom(s, u)
  <2> DEFINE w == Revived(x, y)
  <2>1. w \in WorkerT /\ NoNewOwn(w)
    BY NoNewOwnRevived
  <2> HIDE DEF w
  <2>2. ASSUME NEW b \in Bookings, Hand(w, x, y, b)
        PROVE  OwnFrom(s, u)
    <3> DEFINE t == booking[b].session
    <3>0. t \in Sessions /\ w[t][y] \in WorkerRow
      BY <1>0, <2>1 DEF WorkerT
    <3>1. PICK r \in {Working(w[t][y], b), Busy(w[t][y], b)} :
            worker' = PutRow(w, t, y, r)
      BY <2>2 DEF Hand
    <3>2. r.mirror = w[t][y].mirror
      BY <3>0, <3>1, MirrorOfRows
    <3> HIDE DEF t
    <3>3. NoNewOwn(PutRow(w, t, y, r))
      BY <2>1, <3>0, <3>2, NoNewOwnPut
    <3> QED
      BY <3>1, <3>3, OwnNoNew
  <2>3. CASE worker' = w
    BY <2>1, <2>3, OwnNoNew
  <2>4. \/ \E b \in Bookings : Hand(w, x, y, b)
        \/ worker' = w
    BY <1>1 DEF AssignNext, FirstInQueue, Offerable, OpenTo, w
  <2> QED
    BY <2>2, <2>3, <2>4
<1>2. ASSUME NEW x \in Sessions, NEW b \in Bookings, ProcessOfferTimeout(x, b)
      PROVE  OwnFrom(s, u)
  <2> DEFINE y == booking[b].assigned
             w == [worker EXCEPT ![x][y] = AfterTimeout(worker[x][y])]
  <2>1. y \in Users /\ worker[x][y].status # "absent"
    BY <1>0, <1>2 DEF ProcessOfferTimeout, Expired, BookingRow, HasRow
  <2>2. worker \in WorkerT /\ worker[x][y] \in WorkerRow /\ NoNewOwn(worker)
    BY <2>1, LoadsAreNat DEF NoNewOwn
  <2>3. /\ AfterTimeout(worker[x][y]).mirror = worker[x][y].mirror
        /\ AfterTimeout(worker[x][y]) \in WorkerRow
    BY <2>2, MirrorOfRows, AfterTimeoutType
  <2>4. NoNewOwn(w) /\ w \in WorkerT
    BY <2>1, <2>2, <2>3, NoNewOwnPut, WorkerPut
  <2>5. \/ worker' = w
        \/ \E v \in Users : /\ w[x][v].status # "absent"
                            /\ worker' = [w EXCEPT ![x][v] = Busy(w[x][v], b)]
    <3>1. w = [worker EXCEPT ![x][y] = AfterTimeout(@)]
      BY <2>1, <2>2 DEF WorkerT
    <3> HIDE DEF w
    <3>2. \/ worker' = w
          \/ \E v \in Users : /\ IsFree(w[x][v])
                              /\ worker' = [w EXCEPT ![x][v] = Busy(@, b)]
      BY <1>2, <3>1 DEF ProcessOfferTimeout, LeastLoaded, Eligible
    <3> QED
      BY <2>4, <3>2 DEF WorkerT, IsFree
  <2> HIDE DEF w
  <2>6. ASSUME NEW v \in Users, w[x][v].status # "absent",
               worker' = [w EXCEPT ![x][v] = Busy(w[x][v], b)]
        PROVE  OwnFrom(s, u)
    <3>1. w[x][v] \in WorkerRow
      BY <2>4 DEF WorkerT
    <3>2. Busy(w[x][v], b).mirror = w[x][v].mirror
      BY <3>1, MirrorOfRows
    <3>3. NoNewOwn([w EXCEPT ![x][v] = Busy(w[x][v], b)])
      BY <2>4, <2>6, <3>2, NoNewOwnPut
    <3> QED
      BY <2>6, <3>3, OwnNoNew
  <2> QED
    BY <2>4, <2>5, <2>6, OwnNoNew
<1> QED
  BY <1>1, <1>2 DEF DispatchNext

\* Managers link with mirrors; students, jobs and the clock make no rows.
LEMMA OwnByOthers ==
  ASSUME TypeOK, NEW s \in Sessions, NEW u \in Users,
         StudentNext \/ PublicCancelNext \/ SessionNext \/ CleanupNext \/ GroupNext
           \/ Tick \/ UNCHANGED vars
  PROVE  OwnFrom(s, u)
<1>0. /\ worker \in WorkerT
      /\ \A x \in Sessions, y \in Users : worker[x][y] \in WorkerRow
      /\ NoNewOwn(worker)
  BY LoadsAreNat DEF NoNewOwn
<1>1. CASE UNCHANGED worker
  BY <1>0, <1>1, OwnNoNew
<1>2. ASSUME NEW x \in Sessions, worker' = ForcedOffline(x)
      PROVE  OwnFrom(s, u)
  <2>1. \A r \in WorkerRow :
          [r EXCEPT !.status = "offline", !.cur = NoBooking, !.pause = "none",
                    !.consec = 0].mirror = r.mirror
    BY DEF WorkerRow
  <2>2. \/ worker'[s][u] = worker[s][u]
        \/ HasRow(s, u) /\ worker'[s][u].mirror = worker[s][u].mirror
    BY <1>0, <1>2, <2>1 DEF ForcedOffline, WorkerT, Row
  <2> QED
    BY <2>2 DEF OwnFrom, Own, HasRow
<1>3. ASSUME NEW x \in Sessions, NEW t \in Sessions, NEW mode, NEW g,
             LinkSessions(x, t, mode, g)
      PROVE  OwnFrom(s, u)
  <2>1. ASSUME NEW a \in Sessions, NEW c \in Sessions, NEW y \in Users
        PROVE  Own(Mirrored(a, c)[c][y]) => Own(worker[c][y])
    <3> DEFINE new == [NoRow EXCEPT !.status = Row(a, y).status,
                                    !.accept = Row(a, y).accept, !.mirror = TRUE]
    <3>1. ~Own(new)
      BY DEF NoRow, Own
    <3>2. Mirrored(a, c)[c][y] = worker[c][y] \/ Mirrored(a, c)[c][y] = new
      BY <1>0 DEF Mirrored, WorkerT, Row
    <3> HIDE DEF new
    <3> QED
      BY <3>1, <3>2
  <2>2. CASE worker' = [worker EXCEPT ![x] = Mirrored(t, x)[x],
                                      ![t] = Mirrored(x, t)[t]]
    <3>1. worker'[s] = IF s = t THEN Mirrored(x, t)[t]
                       ELSE IF s = x THEN Mirrored(t, x)[x] ELSE worker[s]
      BY <1>0, <2>2 DEF WorkerT
    <3>2. CASE s = t
      BY <2>1, <3>1, <3>2 DEF OwnFrom
    <3>3. CASE s # t /\ s = x
      BY <2>1, <3>1, <3>3 DEF OwnFrom
    <3>4. CASE s # t /\ s # x
      BY <3>1, <3>4 DEF OwnFrom
    <3> QED
      BY <3>2, <3>3, <3>4
  <2> QED
    BY <1>1, <1>3, <2>2 DEF LinkSessions
<1>4. ASSUME NEW x \in Sessions, NEW y \in Users, PausePasses(x, y)
      PROVE  OwnFrom(s, u)
  <2>1. /\ worker'[s][u].status = worker[s][u].status
        /\ worker'[s][u].mirror = worker[s][u].mirror
    BY <1>0, <1>4 DEF PausePasses, WorkerT, WorkerRow
  <2> QED
    BY <2>1 DEF OwnFrom, Own
<1>5. CASE StudentNext \/ PublicCancelNext \/ UNCHANGED vars
  BY <1>1, <1>5 DEF StudentNext, PublicCancelNext, CreateBooking, CancelBooking,
                    PublicCancelRead, PublicCancelWrite, PublicCancelDesk, vars
<1>6. CASE SessionNext
  BY <1>1, <1>2, <1>6 DEF SessionNext, StartSession, PauseSession, ResumeSession,
                          CloseSession
<1>7. CASE CleanupNext
  BY <1>1, <1>2, <1>7 DEF CleanupNext, SelectForCleanup, CleanUp
<1>8. CASE GroupNext
  BY <1>1, <1>3, <1>8 DEF GroupNext, UnlinkSession, SetMode
<1>9. CASE Tick
  BY <1>1, <1>4, <1>9 DEF Tick, OfferPasses, GraceEnds, BookingAges
<1> QED
  BY <1>5, <1>6, <1>7, <1>8, <1>9

\* A step that touches no group and no mode keeps the groups whole.
LEMMA WholeKept ==
  ASSUME GroupsWhole,
         \A s \in Sessions : /\ session'[s].group = session[s].group
                             /\ session'[s].mode = session[s].mode
  PROVE  GroupsWhole'
BY DEF GroupsWhole, SameGroup

\* So does one that dissolves a group, whatever it writes as its mode.
LEMMA WholeDissolved ==
  ASSUME GroupsWhole, NEW x \in Sessions,
         \A s \in Sessions :
           IF s \in GroupOf(x) THEN session'[s].group = NoGroup
           ELSE /\ session'[s].group = session[s].group
                /\ session'[s].mode = session[s].mode
  PROVE  GroupsWhole'
<1> SUFFICES ASSUME NEW s \in Sessions, session'[s].group # NoGroup
             PROVE  /\ \E t \in Sessions : t # s /\ session'[t].group = session'[s].group
                    /\ \A t \in Sessions : session'[t].group = session'[s].group
                                             => session'[t].mode = session'[s].mode
  BY DEF GroupsWhole, SameGroup
<1>1. s \notin GroupOf(x) /\ session[s].group # NoGroup
  OBVIOUS
<1>2. \A t \in Sessions : session[t].group = session[s].group => t \notin GroupOf(x)
  BY <1>1 DEF GroupOf
<1>3. \A t \in Sessions : session'[t].group = session'[s].group
                            <=> session[t].group = session[s].group
  BY <1>1, <1>2
<1> QED
  BY <1>1, <1>2, <1>3 DEF GroupsWhole, SameGroup

\* And one that gives a whole group one mode.
LEMMA WholeMode ==
  ASSUME GroupsWhole, NEW g, NEW mode,
         \A s \in Sessions :
           /\ session'[s].group = session[s].group
           /\ session'[s].mode = IF session[s].group = g THEN mode
                                 ELSE session[s].mode
  PROVE  GroupsWhole'
BY DEF GroupsWhole, SameGroup

\* Managers make groups of two and give them one mode; nobody else touches them.
LEMMA GroupsStep ==
  ASSUME TypeOK, GroupsWhole, [Next]_vars
  PROVE  GroupsWhole'
<1>0. /\ session \in [Sessions -> SessionRow]
      /\ \A s \in Sessions : session[s] \in SessionRow
  BY DEF TypeOK
<1>1. CASE UNCHANGED session
  BY <1>1, WholeKept
<1>2. ASSUME NEW s \in Sessions, StartSession(s) \/ PauseSession(s) \/ ResumeSession(s)
      PROVE  GroupsWhole'
  BY <1>0, <1>2, WholeKept DEF StartSession, PauseSession, ResumeSession, SessionRow
<1>3. ASSUME NEW s \in Sessions, CloseSession(s)
      PROVE  GroupsWhole'
  BY <1>0, <1>3, WholeDissolved DEF CloseSession, SessionRow
<1>4. ASSUME NEW s \in Sessions, NEW job, CleanUp(s, job)
      PROVE  GroupsWhole'
  BY <1>0, <1>4, WholeKept DEF CleanUp, SessionRow
<1>5. ASSUME NEW s \in Sessions, UnlinkSession(s)
      PROVE  GroupsWhole'
  BY <1>0, <1>5, WholeDissolved DEF UnlinkSession, SessionRow
<1>6. ASSUME NEW s \in Sessions, NEW mode, SetMode(s, mode)
      PROVE  GroupsWhole'
  <2>1. \A t \in Sessions :
          /\ session'[t].group = session[t].group
          /\ session'[t].mode = IF session[t].group = session[s].group THEN mode
                                ELSE session[t].mode
    BY <1>0, <1>6 DEF SetMode, GroupOf, SessionRow
  <2> QED
    BY <2>1, WholeMode
<1>7. ASSUME NEW s \in Sessions, NEW t \in Sessions, NEW mode, NEW g \in Groups,
             LinkSessions(s, t, mode, g)
      PROVE  GroupsWhole'
  <2>1. CASE /\ \A x \in Sessions : session[x].group # g
             /\ session' = [x \in Sessions |->
                  IF x \in {s, t} THEN [session[x] EXCEPT !.group = g, !.mode = mode]
                  ELSE session[x]]
             /\ session[s].group = NoGroup
             /\ session[t].group = NoGroup
    <3>0. s # t
      BY <1>7 DEF LinkSessions
    <3>1. \A x \in Sessions :
            IF x \in {s, t} THEN session'[x].group = g /\ session'[x].mode = mode
            ELSE session'[x] = session[x]
      BY <1>0, <2>1 DEF SessionRow
    <3> SUFFICES ASSUME NEW x \in Sessions, session'[x].group # NoGroup
                 PROVE  /\ \E y \in Sessions :
                             y # x /\ session'[y].group = session'[x].group
                        /\ \A y \in Sessions : session'[y].group = session'[x].group
                                                 => session'[y].mode = session'[x].mode
      BY DEF GroupsWhole, SameGroup
    <3>a. \A y \in Sessions : session'[y].group = g <=> y \in {s, t}
      BY <2>1, <3>1
    <3>2. CASE x \in {s, t}
      BY <3>0, <3>1, <3>2, <3>a
    <3>3. CASE x \notin {s, t}
      BY <2>1, <3>1, <3>3 DEF GroupsWhole, SameGroup
    <3> QED
      BY <3>2, <3>3
  <2>2. CASE session' = [x \in Sessions |->
               IF session[x].group = g THEN [session[x] EXCEPT !.mode = mode]
               ELSE session[x]]
    <3>1. \A x \in Sessions :
            /\ session'[x].group = session[x].group
            /\ session'[x].mode = IF session[x].group = g THEN mode
                                  ELSE session[x].mode
      BY <1>0, <2>2 DEF SessionRow
    <3> QED
      BY <3>1, WholeMode
  <2> QED
    BY <1>7, <2>1, <2>2 DEF LinkSessions
<1>8. CASE StudentNext \/ PublicCancelNext \/ DispatchNext \/ UNCHANGED vars
  <2>1. ASSUME NEW s \in Sessions, NEW st, NEW d, NEW type, NEW b,
               CreateBooking(s, st, d, type, b)
        PROVE  GroupsWhole'
    BY <1>0, <2>1, WholeKept DEF CreateBooking, SessionRow
  <2> QED
    BY <1>1, <1>8, <2>1 DEF StudentNext, PublicCancelNext, DispatchNext, vars,
         CancelBooking, PublicCancelRead, PublicCancelWrite, PublicCancelDesk,
         AssignNext, ProcessOfferTimeout
<1>9. CASE WorkerNext
  <2>1. PICK x \in Sessions, y \in Users :
          \/ JoinRead(x, y)
          \/ \E accept \in AcceptChoices : JoinSave(x, y, accept)
          \/ \E t \in Sessions : MirrorRead(x, t, y) \/ MirrorSave(x, t, y)
          \/ MirrorGivenUp(x, y)
          \/ WorkerLeave(x, y)
          \/ LeaveMirror(x, y)
    BY <1>9 DEF WorkerNext
  <2>2. UNCHANGED session
    BY <2>1 DEF JoinRead, JoinSave, MirrorRead, MirrorSave, MirrorGivenUp, WorkerLeave,
                LeaveMirror
  <2> QED
    BY <1>1, <2>2
<1>10. CASE TaskNext
  <2>1. ASSUME NEW b \in Bookings, NEW x \in Users,
               Start(b, x) \/ Reject(b, x) \/ Complete(b, x) \/ NoShow(b, x)
                 \/ CompleteWithScores(b, x)
        PROVE  UNCHANGED session
    BY <2>1 DEF Start, Reject, Complete, NoShow, CompleteWithScores, Finish
  <2> QED
    BY <1>1, <1>10, <2>1 DEF TaskNext
<1>11. CASE Tick
  BY <1>1, <1>11 DEF Tick, OfferPasses, GraceEnds, BookingAges, PausePasses
<1>12. CASE SessionNext
  BY <1>2, <1>3, <1>12 DEF SessionNext
<1>13. CASE CleanupNext
  BY <1>1, <1>4, <1>13 DEF CleanupNext, SelectForCleanup
<1>14. CASE GroupNext
  BY <1>5, <1>6, <1>7, <1>14 DEF GroupNext
<1> QED
  BY <1>8, <1>9, <1>10, <1>11, <1>12, <1>13, <1>14 DEF Next

\* u gets b as fresh work in a separated group, or accepts it there.
Fresh(b, u) ==
  /\ IsSeparated(booking[b].session)
  /\ \/ NewlyHeld(b, u)
     \/ /\ booking'[b].assigned = u
        /\ booking[b].status = "waiting"
        /\ booking'[b].status = "in_progress"

\* Nothing but a dispatch or an acceptance hands out work.
HandsOut ==
  \/ \E s \in Sessions, u \in Users : AssignNext(s, u)
  \/ \E s \in Sessions, b \in Bookings : ProcessOfferTimeout(s, b)
  \/ \E b \in Bookings, u \in Users : Start(b, u)

\* What else may happen to the assignee and the status of a booking.
Idle(b) ==
  \/ booking'[b].assigned \notin Users
  \/ /\ booking'[b].assigned = booking[b].assigned
     /\ \/ booking'[b].status = booking[b].status
        \/ booking'[b].status # "in_progress"

LEMMA OthersHandNothing ==
  ASSUME TypeOK, [Next]_vars, ~HandsOut, NEW b \in Bookings
  PROVE  Idle(b)
<1>0. /\ booking \in [Bookings -> BookingRow]
      /\ NoUser \notin Users
  BY QueueAssumption DEF TypeOK
<1>1. CASE UNCHANGED booking
  BY <1>1 DEF Idle
<1>2. ASSUME NEW s \in Sessions, NEW st \in Students, NEW d \in Desks,
             NEW type \in BookingTypes, NEW c \in Bookings,
             CreateBooking(s, st, d, type, c)
      PROVE  Idle(b)
  BY <1>0, <1>2 DEF CreateBooking, Idle
<1>3. ASSUME NEW c \in Bookings, CancelBooking(c) \/ PublicCancelWrite(c)
      PROVE  Idle(b)
  BY <1>0, <1>3 DEF CancelBooking, PublicCancelWrite, Idle, BookingRow
<1>4. ASSUME NEW s \in Sessions, NEW u \in Users, WorkerLeave(s, u)
      PROVE  Idle(b)
  <2>1. booking[b] \in BookingRow
    BY <1>0
  <2>2. \/ booking'[b] = booking[b]
        \/ booking'[b] = Returned(booking[b], u)
    BY <1>0, <1>4 DEF WorkerLeave
  <2> QED
    BY <1>0, <2>1, <2>2 DEF Returned, Idle, BookingRow
<1>5. ASSUME NEW c \in Bookings, NEW u \in Users, Reject(c, u)
      PROVE  Idle(b)
  <2>1. booking' = [booking EXCEPT ![c] = Returned(booking[c], u)]
    BY <1>0, <1>5 DEF Reject
  <2>2. Returned(booking[c], u).assigned = NoUser
    BY <1>0 DEF Returned, BookingRow
  <2> QED
    BY <1>0, <2>1, <2>2 DEF Idle
<1>6. ASSUME NEW c \in Bookings, NEW u \in Users, NEW status \in {"completed", "no_show"},
             NEW credit, NEW gradingStatus, NEW ref,
             Finish(c, u, status, credit, gradingStatus, ref)
      PROVE  Idle(b)
  <2>1. booking' = [booking EXCEPT ![c].status = status]
    BY <1>6 DEF Finish
  <2> QED
    BY <1>0, <2>1 DEF Idle, BookingRow
<1>7. ASSUME NEW s \in Sessions, NEW job, CleanUp(s, job)
      PROVE  Idle(b)
  BY <1>0, <1>7 DEF CleanUp, WaitingCancelled, Idle, BookingRow
<1>8. ASSUME NEW c \in Bookings, OfferPasses(c) \/ GraceEnds(c) \/ BookingAges(c)
      PROVE  Idle(b)
  BY <1>0, <1>8 DEF OfferPasses, GraceEnds, BookingAges, Idle, BookingRow
<1>9. CASE StudentNext \/ PublicCancelNext
  BY <1>1, <1>2, <1>3, <1>9 DEF StudentNext, PublicCancelNext, PublicCancelRead,
                                PublicCancelDesk
<1>10. CASE WorkerNext
  <2>1. PICK x \in Sessions, y \in Users :
          \/ JoinRead(x, y)
          \/ \E accept \in AcceptChoices : JoinSave(x, y, accept)
          \/ \E t \in Sessions : MirrorRead(x, t, y) \/ MirrorSave(x, t, y)
          \/ MirrorGivenUp(x, y)
          \/ WorkerLeave(x, y)
          \/ LeaveMirror(x, y)
    BY <1>10 DEF WorkerNext
  <2>2. UNCHANGED booking \/ WorkerLeave(x, y)
    BY <2>1 DEF JoinRead, JoinSave, MirrorRead, MirrorSave, MirrorGivenUp, LeaveMirror
  <2> QED
    BY <1>1, <1>4, <2>2
<1>11. CASE TaskNext
  BY <1>5, <1>6, <1>11 DEF TaskNext, Complete, NoShow, CompleteWithScores, HandsOut
<1>12. CASE SessionNext \/ GroupNext \/ UNCHANGED vars
  BY <1>1, <1>12 DEF SessionNext, GroupNext, vars, StartSession, PauseSession,
       ResumeSession, CloseSession, LinkSessions, UnlinkSession, SetMode
<1>13. CASE CleanupNext \/ Tick
  BY <1>1, <1>7, <1>8, <1>13 DEF CleanupNext, SelectForCleanup, Tick, PausePasses
<1> QED
  BY <1>9, <1>10, <1>11, <1>12, <1>13 DEF Next, DispatchNext, HandsOut

\* Whoever gets or accepts work in a separated group has a row of their own in
\* the session of the booking.
LEMMA FreshIsOwn ==
  ASSUME TypeOK, GroupsWhole, [Next]_vars,
         NEW b \in Bookings, NEW u \in Users, Fresh(b, u)
  PROVE  Own(worker[booking[b].session][u])
<1>0. /\ booking \in [Bookings -> BookingRow]
      /\ worker \in WorkerT
      /\ \A c \in Bookings : booking[c].session \in Sessions
      /\ NoUser \notin Users
  BY LoadsAreNat, QueueAssumption DEF TypeOK, BookingRow
<1>1. ASSUME NEW s \in Sessions, NEW v \in Users, AssignNext(s, v)
      PROVE  Own(worker[booking[b].session][u])
  <2> DEFINE r == Revived(s, v)[s][v]
  <2>1. PICK c \in FirstInQueue(Offerable(s, v, r)) : Hand(Revived(s, v), s, v, c)
    BY <1>1 DEF AssignNext, Fresh, NewlyHeld
  <2>2. /\ c \in Bookings
        /\ DispatchSeparated(s) => ~r.mirror /\ booking[c].session = s
        /\ ~DispatchSeparated(s) => booking[c].session \in GroupOf(s)
    BY DEF FirstInQueue, Offerable, OpenTo
  <2>3. b = c /\ u = v
    <3>1. \A q \in BookingRow : Offered(q, v).assigned = v /\ StartedBy(q, v).assigned = v
      BY DEF Offered, StartedBy, BookingRow
    <3>2. booking'[c].assigned = v /\ \A x \in Bookings \ {c} : booking'[x] = booking[x]
      BY <1>0, <2>1, <2>2, <3>1 DEF Hand
    <3> QED
      BY <3>2 DEF Fresh, NewlyHeld
  <2>4. DispatchSeparated(s)
    <3> SUFFICES ASSUME ~DispatchSeparated(s)
                 PROVE  FALSE
      OBVIOUS
    <3>1. booking[b].session \in GroupOf(s) /\ IsSeparated(booking[b].session)
      BY <2>2, <2>3 DEF Fresh
    <3>2. session[s].group # NoGroup /\ SameGroup(booking[b].session, s)
      BY <3>1 DEF GroupOf, IsSeparated, SameGroup
    <3>3. session[s].mode = "separated"
      BY <1>0, <3>1, <3>2 DEF GroupsWhole, IsSeparated
    <3>4. GroupOf(s) # {s}
      BY <3>2 DEF GroupsWhole, GroupOf, SameGroup
    <3> QED
      BY <3>3, <3>4 DEF DispatchSeparated
  <2>5. r.mirror = worker[s][v].mirror
    BY NoNewOwnRevived
  <2>6. HasRow(s, v)
    BY <1>1 DEF AssignNext
  <2> HIDE DEF r
  <2> QED
    BY <2>2, <2>3, <2>4, <2>5, <2>6 DEF Own, HasRow
<1>2. ASSUME NEW s \in Sessions, NEW c \in Bookings, ProcessOfferTimeout(s, c)
      PROVE  Own(worker[booking[b].session][u])
  <2> DEFINE y == booking[c].assigned
             back == Returned(booking[c], y)
             w == [worker EXCEPT ![s][y] = AfterTimeout(@)]
  <2>0. /\ y \in Users
        /\ booking[c].session = s
    BY <1>0, <1>2 DEF ProcessOfferTimeout, Expired, BookingRow
  <2>1. \A q \in BookingRow : \A x : Returned(q, x).assigned = NoUser
    BY DEF Returned, BookingRow
  <2>2. PICK v \in Users :
          /\ v # y
          /\ IsFree(w[s][v])
          /\ IsSeparated(s) => ~w[s][v].mirror
          /\ booking' = [booking EXCEPT ![c] = Offered(back, v)]
    <3>1. CASE booking' = [booking EXCEPT ![c] = back]
      BY <1>0, <2>1, <3>1 DEF Fresh, NewlyHeld
    <3> HIDE DEF back, w
    <3>2. CASE ~(booking' = [booking EXCEPT ![c] = back])
      BY <1>2, <3>2 DEF ProcessOfferTimeout, LeastLoaded, Eligible, back, w
    <3> QED
      BY <3>1, <3>2
  <2>3. b = c /\ u = v
    <3>1. Offered(back, v).assigned = v
      BY <1>0 DEF Offered, Returned, BookingRow
    <3> HIDE DEF back
    <3>2. booking'[c].assigned = v /\ \A x \in Bookings \ {c} : booking'[x] = booking[x]
      BY <1>0, <2>2, <3>1
    <3> QED
      BY <3>2 DEF Fresh, NewlyHeld
  <2>4. w[s][v] = worker[s][v]
    BY <1>0, <2>0, <2>2 DEF WorkerT
  <2>5. IsSeparated(s)
    BY <2>0, <2>3 DEF Fresh
  <2> HIDE DEF w
  <2> QED
    BY <2>0, <2>2, <2>3, <2>4, <2>5 DEF Own, IsFree
<1>3. ASSUME NEW c \in Bookings, NEW v \in Users, Start(c, v)
      PROVE  Own(worker[booking[b].session][u])
  <2>1. PICK w \in RowLocked(booking[c].session, v) :
          /\ booking[c].assigned = v
          /\ ~(w[booking[c].session][v].mirror /\ IsSeparated(booking[c].session))
          /\ booking' = [booking EXCEPT ![c].status = "in_progress", ![c].offer = "none"]
    BY <1>3 DEF Start, MayStart
  <2>2. b = c /\ u = v
    <3>1. /\ booking'[c].assigned = v
          /\ \A x \in Bookings \ {c} : booking'[x] = booking[x]
      BY <1>0, <2>1 DEF BookingRow
    <3> QED
      BY <2>1, <3>1 DEF Fresh, NewlyHeld
  <2>3. Own(w[booking[b].session][u])
    BY <1>0, <2>1, <2>2, NoNewOwnLocked DEF Own, Fresh
  <2>4. NoNewOwn(w)
    BY <1>0, <2>1, NoNewOwnLocked
  <2> QED
    BY <1>0, <2>3, <2>4 DEF NoNewOwn
<1>4. CASE ~HandsOut
  <2>1. Idle(b)
    BY <1>4, OthersHandNothing
  <2>2. booking[b] \in BookingRow
    BY <1>0
  <2> QED
    BY <2>1 DEF Idle, Fresh, NewlyHeld
<1> QED
  BY <1>1, <1>2, <1>3, <1>4 DEF HandsOut

\* A row that is no mirror was there, or was read by a mirroring, or comes from
\* its worker's own join.
JoinedNow(s, u) == \E accept \in AcceptChoices : JoinSave(s, u, accept)

LEMMA OwnOfStep ==
  ASSUME TypeOK, [Next]_vars, NEW s \in Sessions, NEW u \in Users
  PROVE  OwnFrom(s, u) \/ JoinedNow(s, u)
<1>1. CASE WorkerNext
  <2>1. PICK x \in Sessions, y \in Users :
          \/ JoinRead(x, y)
          \/ \E accept \in AcceptChoices : JoinSave(x, y, accept)
          \/ \E t \in Sessions : MirrorRead(x, t, y) \/ MirrorSave(x, t, y)
          \/ MirrorGivenUp(x, y)
          \/ WorkerLeave(x, y)
          \/ LeaveMirror(x, y)
    BY <1>1 DEF WorkerNext
  <2>2. CASE \E accept \in AcceptChoices : JoinSave(x, y, accept)
    BY <2>2, OwnByJoin DEF JoinedNow
  <2> QED
    BY <2>1, <2>2, OwnByWorkers
<1> QED
  BY <1>1, OwnByTasks, OwnByDispatch, OwnByOthers DEF Next

\* `joined` remembers who joined which session, as MCQueueDispatch does: nobody
\* at first, and then whoever's join is saved.
JoinsRemembered ==
  /\ joined = {}
  /\ [][joined' = joined \cup {x \in Sessions \X Users : JoinedNow(x[1], x[2])}]_<<vars, joined>>

\* The invariant is inductive.
LEMMA CoursesStep ==
  ASSUME TypeOK, CoursesInv, [Next]_vars,
         \/ joined' = joined \cup {x \in Sessions \X Users : JoinedNow(x[1], x[2])}
         \/ UNCHANGED <<vars, joined>>
  PROVE  CoursesInv'
<1>1. CASE UNCHANGED <<vars, joined>>
  BY <1>1 DEF vars, CoursesInv, RowsJoined, SnapsJoined, GroupsWhole, SameGroup
<1>2. CASE joined' = joined \cup {x \in Sessions \X Users : JoinedNow(x[1], x[2])}
  <2>1. /\ joined \subseteq joined'
        /\ \A s \in Sessions, u \in Users : JoinedNow(s, u) => <<s, u>> \in joined'
    BY <1>2
  <2>2. ASSUME NEW s \in Sessions, NEW u \in Users, Own(worker'[s][u])
        PROVE  <<s, u>> \in joined'
    <3>1. CASE Own(worker[s][u])
      BY <2>1, <3>1 DEF CoursesInv, RowsJoined
    <3>2. CASE SavedOwn(s, u)
      BY <2>1, <3>2 DEF SavedOwn, CoursesInv, SnapsJoined
    <3> QED
      BY <2>1, <2>2, <3>1, <3>2, OwnOfStep DEF OwnFrom
  <2>3. ASSUME NEW s \in Sessions, NEW u \in Users,
               req'[s][u].phase = "mirrorSave", Own(req'[s][u].snap),
               NEW t \in req'[s][u].target
        PROVE  <<t, u>> \in joined'
    <3>1. CASE req'[s][u] = req[s][u]
      BY <2>1, <2>3, <3>1 DEF CoursesInv, SnapsJoined
    <3>2. CASE req'[s][u] # req[s][u]
      <4>1. PICK o \in Sessions : /\ req'[s][u].target = {o}
                                  /\ Own(req'[s][u].snap) => Own(worker[o][u])
        BY <2>3, <3>2, SnapOfStep DEF ReadNow
      <4> QED
        BY <2>1, <2>3, <4>1 DEF CoursesInv, RowsJoined
    <3> QED
      BY <3>1, <3>2
  <2>4. GroupsWhole'
    BY GroupsStep DEF CoursesInv
  <2> QED
    BY <2>2, <2>3, <2>4 DEF CoursesInv, RowsJoined, SnapsJoined
<1> QED
  BY <1>1, <1>2

(***************************************************************************)
(* In a separated group, a worker gets fresh work, or accepts an offer,    *)
(* only in a session they joined themselves: the dispatcher, the timeouts  *)
(* and WorkerUpdateBooking look at the mark of a mirror in different ways, *)
(* while joins and mirroring save rows back as they were read and the      *)
(* group is linked, unlinked and switched between its modes.               *)
(***************************************************************************)
THEOREM FreshWorkIsOwn == Spec /\ JoinsRemembered => FreshWorkStaysInCourse
<1> DEFINE Step == \A b \in Bookings, u \in Users :
                     /\ IsSeparated(booking[b].session)
                     /\ \/ NewlyHeld(b, u)
                        \/ /\ booking'[b].assigned = u
                           /\ booking[b].status = "waiting"
                           /\ booking'[b].status = "in_progress"
                     => <<booking[b].session, u>> \in joined
           Remembers == joined' = joined \cup {x \in Sessions \X Users :
                                                 JoinedNow(x[1], x[2])}
<1>1. Init /\ joined = {} => CoursesInv
  BY DEF Init, CoursesInv, RowsJoined, SnapsJoined, GroupsWhole, SameGroup, Own, NoRow,
         NoRequest
<1>2. TypeOK /\ CoursesInv /\ [Next]_vars /\ [Remembers]_<<vars, joined>> => CoursesInv'
  BY CoursesStep
<1>3. ASSUME TypeOK, CoursesInv, [Next]_vars
      PROVE  Step
  <2> SUFFICES ASSUME NEW b \in Bookings, NEW u \in Users, Fresh(b, u)
               PROVE  <<booking[b].session, u>> \in joined
    BY DEF Fresh
  <2>1. booking[b].session \in Sessions
    BY <1>3 DEF TypeOK, BookingRow
  <2>2. Own(worker[booking[b].session][u])
    BY <1>3, FreshIsOwn DEF CoursesInv
  <2> QED
    BY <1>3, <2>1, <2>2 DEF CoursesInv, RowsJoined
<1>4. TypeOK /\ CoursesInv /\ [Next]_vars => [Step]_mcvars
  BY <1>3
<1> QED
  BY <1>1, <1>2, <1>4, TypeCorrect, PTL DEF Spec, JoinsRemembered, FreshWorkStaysInCourse
=============================================================================
