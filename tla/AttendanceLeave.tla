--------------------------- MODULE AttendanceLeave ---------------------------
(***************************************************************************)
(* Leave requests and the attendance records they change: submitting,      *)
(* editing, cancelling, reviewing, revoking and expiring requests, the     *)
(* check-ins and corrections that compete with them for a record, and the  *)
(* session and enrolment changes that bind items to sessions, detach them  *)
(* and apply them again.                                                   *)
(*                                                                         *)
(* A request to the server is an actor. What it reads before it writes is  *)
(* one step and its commit another, unless a row lock makes them one. A    *)
(* transaction of two steps may fail between them. Row locks on requests   *)
(* and items are modelled; records are never locked by the code.           *)
(***************************************************************************)
EXTENDS Naturals, FiniteSets

CONSTANTS Actors, Students, Sessions, Days, Requests, Slots,
          MaxPending,   \* settings.MaxPending
          MaxLives,     \* bound: times a record is created for one student
          NoSession, NoRequest

ASSUME LeaveAssumption ==
  /\ MaxPending \in Nat \ {0} /\ MaxLives \in Nat \ {0}
  /\ IsFiniteSet(Slots) /\ Slots \subseteq Nat /\ Requests \subseteq Nat
  /\ IsFiniteSet(Sessions) /\ IsFiniteSet(Days)
  /\ NoSession \notin Sessions \cup Days /\ NoRequest \notin Requests

VARIABLES
  session,   \* attendance_sessions: the day of each session, or NoSession
  target,    \* the students of each session's sections
  enrolled,  \* course_section_students
  archived,  \* students with a removal that can still be undone
  record,    \* attendance_records, by session and student
  request,   \* attendance_leave_requests
  item,      \* attendance_leave_request_items, by request and slot
  flight     \* what each actor is doing, with what it has read

vars == <<session, target, enrolled, archived, record, request, item, flight>>
rows == <<session, target, enrolled, archived, record, request, item>>
------------------------------------------------------------------------------
\* A record's row. A deleted or missing row has status "none"; its id says how
\* many rows this student had in this session, so a stale id can be told.
NoRecord == [status |-> "none", source |-> "none", timed |-> FALSE,
             leave |-> NoRequest, id |-> 0]
Attended == {"present", "late"}
RecordRow == [status : {"none", "absent", "present", "late", "leave"},
              source : {"none", "checkin", "manual", "leave_request", "system"},
              timed : BOOLEAN, leave : Requests \cup {NoRequest}, id : 0..MaxLives]
There(x) == x.status # "none"
Blank(x) == [NoRecord EXCEPT !.status = "absent", !.source = "system", !.id = x.id + 1]
Gone(x) == [NoRecord EXCEPT !.id = x.id]

NoItem == [status |-> "none", session |-> NoSession, day |-> NoSession,
           byDate |-> FALSE, previous |-> "none", rec |-> 0]
Item(d, s, by) == [NoItem EXCEPT !.status = "pending", !.session = s,
                                 !.day = d, !.byDate = by]
ItemRow == [status : {"none", "pending", "applied", "awaiting_session",
                      "superseded", "rejected", "cancelled", "revoked"},
            session : Sessions \cup {NoSession}, day : Days \cup {NoSession},
            byDate : BOOLEAN, rec : 0..MaxLives,
            previous : {"none", "absent", "present", "late", "leave"}]
OpenItem == {"pending", "applied", "awaiting_session"}

RequestRow == [status : {"none", "pending", "approved", "partially_approved",
                         "rejected", "cancelled", "revoked", "expired"},
               student : Students, removed : BOOLEAN, edition : 0..1]
Granted == {"approved", "partially_approved"}

Idle == [op |-> "idle", locks |-> {}]

Eligible(s, u) == session[s] # NoSession /\ u \in target[s] \cap enrolled

\* leaveSessionsOnDate
SessionsOn(d, u) == {s \in Sessions : session[s] = d /\ Eligible(s, u)}

\* A statement that writes the rows of these requests waits for their locks.
Unlocked(rs) == \A a \in Actors : flight[a].locks \cap rs = {}

\* The requests with an item of that session which the filter accepts.
With(s, Filter(_)) ==
  {r \in Requests : \E k \in Slots : item[r][k].session = s /\ Filter(item[r][k])}

Init ==
  /\ session \in [Sessions -> Days \cup {NoSession}]
  /\ target = [s \in Sessions |-> Students]
  /\ enrolled = Students /\ archived = {}
  /\ record = [s \in Sessions |-> [u \in Students |->
                 IF session[s] = NoSession THEN NoRecord ELSE Blank(NoRecord)]]
  /\ request \in [Requests -> {[status |-> "none", student |-> u,
                                removed |-> FALSE, edition |-> 0] : u \in Students}]
  /\ item = [r \in Requests |-> [k \in Slots |-> NoItem]]
  /\ flight = [a \in Actors |-> Idle]
------------------------------------------------------------------------------
(* The student's side: submit, edit, cancel *)

OpenItems(u, r) ==
  {item[q][k] : q \in {x \in Requests \ {r} : request[x].student = u
                         /\ request[x].status # "none"}, k \in Slots}

\* Mutant: what was granted no longer counts.
OpenOfPending(u, r) == {i \in OpenItems(u, r) : i.status = "pending"}

OpenOf(u, r) == {i \in OpenItems(u, r) : i.status \in OpenItem}
OpenSessions(u, r) == {i.session : i \in OpenOf(u, r)}
OpenDays(u, r) == {i.day : i \in OpenOf(u, r)}

\* buildLeaveItemForSession: a second open item for the session, or a student
\* who is present, is refused; one who is late is not.
MayLeave(s, u, r) ==
  s \notin OpenSessions(u, r) /\ record[s][u].status # "present"

\* An explicit session must exist, be the student's, and not fall on a day
\* that is asked for already.
MayPick(s, u, r) ==
  Eligible(s, u) /\ session[s] \notin OpenDays(u, r) /\ MayLeave(s, u, r)

MayPickDay(d, u, r) ==
  d \notin OpenDays(u, r) /\ \A s \in SessionsOn(d, u) : MayLeave(s, u, r)

\* buildLeaveRequestItems: one item per session picked, one per session on a
\* day picked, one without a session for a day that has none yet.
Built(ss, ds, u) ==
  {Item(session[s], s, FALSE) : s \in ss}
    \cup (UNION {{Item(d, s, TRUE) : s \in SessionsOn(d, u)} : d \in ds})
    \cup {Item(d, NoSession, TRUE) : d \in {x \in ds : SessionsOn(x, u) = {}}}

\* Nothing asks twice, in the request or beside it, and there is room.
Acceptable(ss, ds, u, r) ==
  /\ ss \cup ds # {}
  /\ \A s \in ss : MayPick(s, u, r) /\ \A d \in ds : s \notin SessionsOn(d, u)
  /\ \A d \in ds : MayPickDay(d, u, r)
  /\ Cardinality(Built(ss, ds, u)) <= Cardinality(Slots)

\* The rows of a request, one slot each.
Placed(new) ==
  CHOOSE f \in [Slots -> new \cup {NoItem}] :
    /\ \A i \in new : \E k \in Slots : f[k] = i
    /\ \A j, k \in Slots : f[j] = f[k] /\ j # k => f[k] = NoItem

Submitting == {a \in Actors : flight[a].op \in {"submit", "edit"}}

\* acquireLeaveRequestLock: one submission or edit per student at a time.
NoOtherSubmission(u) ==
  \A b \in Submitting : request[flight[b].req].student # u

\* The requests of the student whose open items are read FOR UPDATE.
OpenRequests(u, r) ==
  {q \in Requests \ {r} : /\ request[q].student = u
                          /\ \E k \in Slots : item[q][k].status \in OpenItem}

Pending(u) == {r \in Requests : request[r].student = u /\ request[r].status = "pending"}

\* CreateLeaveRequest up to its insert.
BeginSubmit(a, r, ss, ds) ==
  LET u == request[r].student IN
  /\ flight[a] = Idle /\ request[r].status = "none"
  /\ u \in enrolled
  /\ NoOtherSubmission(u)
  /\ Cardinality(Pending(u)) < MaxPending
  /\ Unlocked(OpenRequests(u, r))
  /\ Acceptable(ss, ds, u, r)
  /\ flight' = [flight EXCEPT ![a] = [op |-> "submit", req |-> r,
                  new |-> Placed(Built(ss, ds, u)), locks |-> OpenRequests(u, r)]]
  /\ UNCHANGED rows

Submit(a) ==
  LET f == flight[a] IN
  /\ f.op = "submit"
  /\ request' = [request EXCEPT ![f.req].status = "pending"]
  /\ item' = [item EXCEPT ![f.req] = f.new]
  /\ flight' = [flight EXCEPT ![a] = Idle]
  /\ UNCHANGED <<session, target, enrolled, archived, record>>

\* UpdateLeaveRequest: pending requests only; every item is replaced.
BeginEdit(a, r, ss, ds) ==
  LET u == request[r].student IN
  /\ flight[a] = Idle /\ request[r].status = "pending"
  /\ request[r].edition = 0     \* bound: one edit per request
  /\ NoOtherSubmission(u)
  /\ Unlocked({r} \cup OpenRequests(u, r))
  /\ Acceptable(ss, ds, u, r)
  /\ flight' = [flight EXCEPT ![a] = [op |-> "edit", req |-> r,
                  new |-> Placed(Built(ss, ds, u)),
                  locks |-> {r} \cup OpenRequests(u, r)]]
  /\ UNCHANGED rows

Edit(a) ==
  LET f == flight[a] IN
  /\ f.op = "edit"
  /\ request' = [request EXCEPT ![f.req].edition = 1]
  /\ item' = [item EXCEPT ![f.req] = f.new]
  /\ flight' = [flight EXCEPT ![a] = Idle]
  /\ UNCHANGED <<session, target, enrolled, archived, record>>

\* The pending items of a request take another status with it.
ItemsBecome(its, status, from) ==
  [k \in Slots |-> IF its[k].status = from THEN [its[k] EXCEPT !.status = status]
                                           ELSE its[k]]

\* CancelLeaveRequest, on a locked row.
Cancel(r) ==
  /\ request[r].status = "pending" /\ Unlocked({r})
  /\ request' = [request EXCEPT ![r].status = "cancelled"]
  /\ item' = [item EXCEPT ![r] = ItemsBecome(item[r], "cancelled", "pending")]
  /\ UNCHANGED <<session, target, enrolled, archived, record, flight>>
------------------------------------------------------------------------------
(* Applying leave to a record *)

\* ensureAttendanceRecordInTx: the row found, or a new blank one; when one was
\* inserted meanwhile it is read again.
Ensured(seen, now) ==
  IF There(seen) THEN seen ELSE IF There(now) THEN now ELSE Blank(now)

\* Attendance by check-in or by hand is not overwritten.
KeepsAttendance(x) ==
  x.status \in Attended /\ x.source \in {"checkin", "manual"}

LeaveRow(x, r) == [x EXCEPT !.status = "leave", !.source = "leave_request",
                            !.leave = r, !.timed = FALSE]

\* applyLeaveToRecord, on the record as it was read: the item ...
ItemAfter(i, x) ==
  IF i.session = NoSession \/ session[i.session] = NoSession
    THEN [i EXCEPT !.status = "awaiting_session", !.session = NoSession]
  ELSE IF KeepsAttendance(x)
    THEN [i EXCEPT !.status = "superseded", !.rec = x.id]
  ELSE [i EXCEPT !.status = "applied", !.previous = x.status, !.rec = x.id]

\* Mutant: attendance is not looked at.
RowAfterBlindly(now, x, r) ==
  IF There(now) /\ now.id = x.id THEN LeaveRow(now, r) ELSE now

\* ... and the row, written by id whatever it holds by now.
RowAfter(now, x, r) ==
  IF KeepsAttendance(x) THEN now
  ELSE IF There(now) /\ now.id = x.id THEN LeaveRow(now, r)
  ELSE IF ~There(now) /\ x.id = now.id + 1 THEN LeaveRow(x, r)
  ELSE now

\* When several requests put one student on leave, one is the last to write ...
LastWriters(Of(_)) ==
  {w \in [Students -> Requests \cup {NoRequest}] :
     \A u \in Students : IF Of(u) = {} THEN w[u] = NoRequest ELSE w[u] \in Of(u)}

\* ... and finds the record on leave already.
Found(x, r, rs) == IF rs \ {r} = {} THEN x ELSE LeaveRow(x, CHOOSE q \in rs \ {r} : TRUE)

\* The sessions a set of slots of r is about, as far as they exist.
About(r, ks) == {s \in Sessions : session[s] # NoSession
                                  /\ \E k \in ks : item[r][k].session = s}

\* ReviewLeaveRequest: request and items are locked, the records are read.
\* A record that cannot be ensured fails the review.
PendingSlots(r) == {k \in Slots : item[r][k].status = "pending"}

BeginReview(a, r, ok) ==
  LET u == request[r].student IN
  /\ flight[a] = Idle /\ request[r].status = "pending" /\ Unlocked({r})
  /\ ok \subseteq PendingSlots(r)
  /\ \A s \in About(r, ok) : Eligible(s, u) /\ record[s][u].id < MaxLives
  /\ flight' = [flight EXCEPT ![a] = [op |-> "review", req |-> r, ok |-> ok,
                  seen |-> [s \in About(r, ok) |-> record[s][u]], locks |-> {r}]]
  /\ UNCHANGED rows

Verdict(ok, ks) == CASE ok = {} -> "rejected" [] ok # {} /\ ok = ks -> "approved"
                     [] OTHER -> "partially_approved"

Review(a) ==
  LET f == flight[a]
      u == request[f.req].student
      At(s) == Ensured(f.seen[s], record[s][u])
      Live(i) == i.session \in DOMAIN f.seen
  IN
  /\ f.op = "review"
  /\ request' = [request EXCEPT ![f.req].status = Verdict(f.ok, PendingSlots(f.req))]
  /\ item' = [item EXCEPT ![f.req] = [k \in Slots |->
       CASE k \in f.ok -> ItemAfter(@[k], IF Live(@[k]) THEN At(@[k].session) ELSE NoRecord)
         [] k \in PendingSlots(f.req) \ f.ok -> [@[k] EXCEPT !.status = "rejected"]
         [] OTHER -> @[k]]]
  /\ record' = [s \in Sessions |->
       IF s \in DOMAIN f.seen /\ session[s] # NoSession
         THEN [record[s] EXCEPT ![u] = RowAfter(@, At(s), f.req)] ELSE record[s]]
  /\ flight' = [flight EXCEPT ![a] = Idle]
  /\ UNCHANGED <<session, target, enrolled, archived>>

\* RevokeLeaveRequest: request and items are locked, the records are read.
BeginRevoke(a, r) ==
  /\ flight[a] = Idle /\ request[r].status \in Granted /\ Unlocked({r})
  /\ flight' = [flight EXCEPT ![a] = [op |-> "revoke", req |-> r, locks |-> {r},
                  seen |-> [s \in Sessions |-> record[s][request[r].student]]]]
  /\ UNCHANGED rows

\* Only a record that was read as leave of this request goes back.
RestoredBy(f, s) ==
  {k \in Slots : LET i == item[f.req][k] IN
     /\ i.session = s /\ i.status = "applied"
     /\ i.rec = f.seen[s].id /\ i.rec = record[s][request[f.req].student].id
     /\ f.seen[s].status = "leave" /\ f.seen[s].leave = f.req}

\* The status before the leave; a missing one counts as absent.
Unleft(x, previous) ==
  [x EXCEPT !.status = IF previous = "none" THEN "absent" ELSE previous,
            !.source = "manual", !.leave = NoRequest]

Revoke(a) ==
  LET f == flight[a]
      u == request[f.req].student
  IN
  /\ f.op = "revoke"
  /\ record' = [s \in Sessions |->
       IF RestoredBy(f, s) = {} \/ ~There(record[s][u]) THEN record[s]
       ELSE LET k == CHOOSE k \in RestoredBy(f, s) : TRUE
            IN [record[s] EXCEPT ![u] = Unleft(@, item[f.req][k].previous)]]
  /\ item' = [item EXCEPT ![f.req] =
       ItemsBecome(ItemsBecome(@, "revoked", "applied"), "revoked", "awaiting_session")]
  /\ request' = [request EXCEPT ![f.req].status = "revoked"]
  /\ flight' = [flight EXCEPT ![a] = Idle]
  /\ UNCHANGED <<session, target, enrolled, archived>>

\* ExpireStalePendingLeaveRequests lists what is pending for too long, then
\* marks the requests by id and cancels their pending items.
BeginExpire(a, rs) ==
  /\ flight[a] = Idle /\ rs # {}
  /\ \A r \in rs : request[r].status = "pending"
  /\ flight' = [flight EXCEPT ![a] = [op |-> "expire", reqs |-> rs, locks |-> {}]]
  /\ UNCHANGED rows

EndedBy(rs, status) ==
  [r \in Requests |-> IF r \in rs THEN [request[r] EXCEPT !.status = status]
                                  ELSE request[r]]

PendingItemsCancelled(rs) ==
  [r \in Requests |-> IF r \in rs THEN ItemsBecome(item[r], "cancelled", "pending")
                                  ELSE item[r]]

Expire(a) ==
  LET f == flight[a] IN
  /\ f.op = "expire" /\ Unlocked(f.reqs)
  /\ request' = EndedBy(f.reqs, "expired")
  /\ item' = PendingItemsCancelled(f.reqs)
  /\ flight' = [flight EXCEPT ![a] = Idle]
  /\ UNCHANGED <<session, target, enrolled, archived, record>>
------------------------------------------------------------------------------
(* Check-in and corrections *)

\* SupersedeLeaveRequestItemForRecord
Supersedes(s, u, id) ==
  {r \in Requests : request[r].student = u /\ \E k \in Slots :
     item[r][k].session = s /\ item[r][k].rec = id /\ item[r][k].status = "applied"}

Superseded(s, u, id) ==
  [r \in Requests |-> [k \in Slots |->
     IF r \in Supersedes(s, u, id) /\ item[r][k].session = s
          /\ item[r][k].rec = id /\ item[r][k].status = "applied"
       THEN [item[r][k] EXCEPT !.status = "superseded"] ELSE item[r][k]]]

\* The record was on leave through a request when it was read.
WasOnLeave(x) == x.status = "leave" /\ x.leave # NoRequest

\* Mutant: the item stays applied.
ReplacesRecordOnly(f, s, u) == UNCHANGED item

\* The items follow only if the record, as read, was on leave.
Replaces(f, s, u) ==
  IF WasOnLeave(f.seen)
    THEN Unlocked(Supersedes(s, u, f.seen.id)) /\ item' = Superseded(s, u, f.seen.id)
    ELSE UNCHANGED item

CheckedIn(x) == x.timed /\ x.status # "absent"

\* StudentCheckIn, and its PIN, network and location checks before it.
BeginCheckIn(a, s, u) ==
  /\ flight[a] = Idle /\ Eligible(s, u) /\ ~CheckedIn(record[s][u])
  /\ record[s][u].id < MaxLives
  /\ flight' = [flight EXCEPT ![a] = [op |-> "checkin", session |-> s, student |-> u,
                  seen |-> Ensured(record[s][u], record[s][u]), locks |-> {}]]
  /\ UNCHANGED rows

\* The update repeats the condition on the row it finds.
StillOpenFor(x, seen) == x.id = seen.id /\ ~CheckedIn(x)

\* The update leaves the row's leave_request_id alone. A row that is gone or checked in is not touched.
CheckIn(a, status) ==
  LET f == flight[a]
      x == Ensured(record[f.session][f.student], record[f.session][f.student])
  IN
  /\ f.op = "checkin"
  /\ flight' = [flight EXCEPT ![a] = Idle]
  /\ IF session[f.session] # NoSession /\ StillOpenFor(x, f.seen)
       THEN /\ record' = [record EXCEPT ![f.session][f.student] =
                 [x EXCEPT !.status = status, !.source = "checkin", !.timed = TRUE]]
            /\ Replaces(f, f.session, f.student)
       ELSE UNCHANGED <<record, item>>
  /\ UNCHANGED <<session, target, enrolled, archived, request>>

\* UpdateAttendanceRecordReturningPrevious and BulkUpdateAttendanceRecords read
\* the record in the transaction that writes it, under the session's lock.
BeginMark(a, s, u) ==
  /\ flight[a] = Idle /\ Eligible(s, u) /\ record[s][u].id < MaxLives
  /\ \A b \in Actors : flight[b].op = "mark" => flight[b].session # s
  /\ flight' = [flight EXCEPT ![a] = [op |-> "mark", session |-> s, student |-> u,
                  seen |-> Ensured(record[s][u], record[s][u]), locks |-> {}]]
  /\ UNCHANGED rows

Marked(x, status) == [x EXCEPT !.status = status, !.source = "manual",
                               !.timed = status # "absent"]

\* The single correction also gives every student of the sections a record.
Backfilled(s, fills) ==
  [u \in Students |-> IF fills /\ Eligible(s, u) /\ record[s][u].id < MaxLives
                      THEN Ensured(record[s][u], record[s][u]) ELSE record[s][u]]

Mark(a, status, fills) ==
  LET f == flight[a]
      x == Ensured(record[f.session][f.student], record[f.session][f.student])
  IN
  /\ f.op = "mark"
  /\ flight' = [flight EXCEPT ![a] = Idle]
  /\ IF session[f.session] # NoSession /\ x.id = f.seen.id
       THEN /\ record' = [record EXCEPT ![f.session] =
                 [Backfilled(f.session, fills) EXCEPT ![f.student] = Marked(x, status)]]
            /\ Replaces(f, f.session, f.student)
       ELSE UNCHANGED <<record, item>>
  /\ UNCHANGED <<session, target, enrolled, archived, request>>

\* UpdateAttendanceRecordByRecordID reads the row, then saves it whole: the
\* check-in time and the leave of the row are those that were read, and a row
\* deleted meanwhile comes back.
BeginSave(a, s, u) ==
  /\ flight[a] = Idle /\ session[s] # NoSession /\ There(record[s][u])
  /\ flight' = [flight EXCEPT ![a] = [op |-> "save", session |-> s, student |-> u,
                  seen |-> record[s][u], locks |-> {}]]
  /\ UNCHANGED rows

Save(a, status) ==
  LET f == flight[a]
      now == record[f.session][f.student]
  IN
  /\ f.op = "save"
  /\ flight' = [flight EXCEPT ![a] = Idle]
  /\ IF session[f.session] # NoSession /\ (~There(now) \/ now.id = f.seen.id)
       THEN /\ record' = [record EXCEPT ![f.session][f.student] =
                 [f.seen EXCEPT !.status = status, !.source = "manual"]]
            /\ Replaces(f, f.session, f.student)
       ELSE UNCHANGED <<record, item>>
  /\ UNCHANGED <<session, target, enrolled, archived, request>>
------------------------------------------------------------------------------
(* Sessions: created, changed, retimed, deleted *)

\* CreateAttendanceSession with its records; binding follows.
CreateSession(a, s, d, us) ==
  /\ flight[a] = Idle /\ session[s] = NoSession
  /\ \A u \in us \cap enrolled : record[s][u].id < MaxLives
  /\ session' = [session EXCEPT ![s] = d]
  /\ target' = [target EXCEPT ![s] = us]
  /\ record' = [record EXCEPT ![s] = [u \in Students |->
       IF u \in us \cap enrolled THEN Blank(@[u]) ELSE @[u]]]
  /\ flight' = [flight EXCEPT ![a] = [op |-> "bind", session |-> s,
                                      again |-> FALSE, locks |-> {}]]
  /\ UNCHANGED <<enrolled, archived, request, item>>

\* syncAttendanceSessionTargets: records of students no longer meant go.
Synced(s, us) ==
  [u \in Students |->
     IF u \notin us \cap enrolled THEN Gone(record[s][u])
     ELSE IF There(record[s][u]) THEN record[s][u] ELSE Blank(record[s][u])]

\* UpdateAttendanceSessionHandler: the day and the sections; binding and
\* reapplying follow.
ChangeSession(a, s, d, us) ==
  /\ flight[a] = Idle /\ session[s] # NoSession
  /\ \A u \in Students : record[s][u].id < MaxLives
  /\ session' = [session EXCEPT ![s] = d]
  /\ target' = [target EXCEPT ![s] = us]
  /\ record' = [record EXCEPT ![s] = Synced(s, us)]
  /\ flight' = [flight EXCEPT ![a] = [op |-> "bind", session |-> s,
                                      again |-> TRUE, locks |-> {}]]
  /\ UNCHANGED <<enrolled, archived, request, item>>

\* ApplyTimeChangeHandler reads the check-ins before its transaction ...
BeginRetime(a, s) ==
  /\ flight[a] = Idle /\ session[s] # NoSession
  /\ flight' = [flight EXCEPT ![a] = [op |-> "retime", session |-> s,
                  seen |-> record[s], locks |-> {}]]
  /\ UNCHANGED rows

\* ... and reclassifies them by id; the source of a changed one is "system".
Reclassified(seen, now, status) ==
  IF /\ seen.timed /\ seen.status \in Attended \cup {"absent"}
     /\ seen.status # status /\ There(now) /\ now.id = seen.id
  THEN [now EXCEPT !.status = status, !.source = "system"] ELSE now

Retime(a, d, status) ==
  LET f == flight[a] IN
  /\ f.op = "retime"
  /\ session' = [session EXCEPT ![f.session] = d]
  /\ record' = [record EXCEPT ![f.session] =
       [u \in Students |-> Reclassified(f.seen[u], @[u], status)]]
  /\ flight' = [flight EXCEPT ![a] = [op |-> "bind", session |-> f.session,
                                      again |-> TRUE, locks |-> {}]]
  /\ UNCHANGED <<target, enrolled, archived, request, item>>

\* DetachLeaveItemsFromSession
Detached(i) ==
  CASE i.status = "applied" ->
         [i EXCEPT !.status = "awaiting_session", !.session = NoSession, !.rec = 0]
    [] i.status \in {"pending", "awaiting_session", "superseded"} ->
         [i EXCEPT !.session = NoSession, !.rec = 0]
    [] OTHER -> i

IsBound(i) == i.status \in OpenItem \cup {"superseded"}

\* DeleteAttendanceSession
DeleteSession(s) ==
  /\ session[s] # NoSession /\ Unlocked(With(s, IsBound))
  /\ session' = [session EXCEPT ![s] = NoSession]
  /\ record' = [record EXCEPT ![s] = [u \in Students |-> Gone(@[u])]]
  /\ item' = [r \in Requests |-> [k \in Slots |->
       IF item[r][k].session = s THEN Detached(item[r][k]) ELSE item[r][k]]]
  /\ UNCHANGED <<target, enrolled, archived, request, flight>>

\* Reading a session gives every student of its sections a record.
OpenRegister(s) ==
  /\ session[s] # NoSession
  /\ record' = [record EXCEPT ![s] = Backfilled(s, TRUE)]
  /\ UNCHANGED <<session, target, enrolled, archived, request, item, flight>>

\* The candidates of BindLeaveItemsToSession in a request: items of that day
\* without a session, or asked for by day and bound to another session, unless
\* the request has an item of this session.
Candidates(s, r) ==
  IF request[r].status = "none" \/ \E k \in Slots : item[r][k].session = s THEN {}
  ELSE {k \in Slots : LET i == item[r][k] IN
          /\ i.status \in OpenItem /\ i.day = session[s]
          /\ i.session = NoSession \/ (i.byDate /\ i.session # s)}

First(ks) == CHOOSE k \in ks : \A j \in ks : k <= j

\* What the transaction reads, without locks: per request its first candidate.
BindReads(s) ==
  {[req |-> r, slot |-> First(Candidates(s, r)),
    was |-> item[r][First(Candidates(s, r))], status |-> request[r].status,
    edition |-> request[r].edition, row |-> record[s][request[r].student]] :
   r \in {q \in Requests : Candidates(s, q) # {} /\ Eligible(s, request[q].student)}}

BeginBind(a) ==
  LET f == flight[a] IN
  /\ f.op = "bind"
  /\ flight' = [flight EXCEPT ![a] =
       IF session[f.session] = NoSession THEN Idle
       ELSE [op |-> "binding", session |-> f.session, again |-> f.again,
             reads |-> BindReads(f.session), locks |-> {}]]
  /\ UNCHANGED rows

FreeSlot(r) == {k \in Slots : item[r][k] = NoItem}

\* The slot that takes the session: the item itself, when it had none and is
\* still the row that was read, or a new one.
TakesSlot(c) ==
  IF c.was.session # NoSession THEN FreeSlot(c.req)
  ELSE IF request[c.req].edition = c.edition THEN {c.slot} ELSE {}

\* The row of that slot: with the status it has, or, for a new one, with one
\* from the status that was read.
TakenItem(c, s) ==
  IF c.was.session = NoSession
    THEN [item[c.req][c.slot] EXCEPT !.session = s]
    ELSE [Item(c.was.day, s, TRUE) EXCEPT !.status =
            IF c.was.status = "pending" THEN "pending" ELSE "awaiting_session"]

\* Leave follows when the request and the item, as read, were approved.
Applies(c) == c.was.status \in {"awaiting_session", "applied"} /\ c.status \in Granted

\* The student's requests that apply leave in this binding.
Applying(reads, u) ==
  {c.req : c \in {x \in reads : request[x.req].student = u /\ Applies(x)
                                 /\ TakesSlot(x) # {}}}

AfterBind(f) == IF f.again THEN [op |-> "reapply", session |-> f.session, locks |-> {}]
                           ELSE Idle

BindLeaveItems(a) ==
  LET f == flight[a]
      s == f.session
      Of(r) == {c \in f.reads : c.req = r /\ TakesSlot(c) # {}}
      Reqs(u) == Applying(f.reads, u)
      Row(r) == (CHOOSE c \in f.reads : c.req = r).row
  IN
  /\ f.op = "binding"
  /\ Unlocked({c.req : c \in f.reads})
  /\ \A c \in f.reads : c.was.session # NoSession => FreeSlot(c.req) # {}  \* bound
  /\ \A u \in Students : record[s][u].id < MaxLives
  /\ \E last \in LastWriters(Reqs) :
       /\ item' = [r \in Requests |-> IF Of(r) = {} THEN item[r] ELSE
            LET c == CHOOSE c \in Of(r) : TRUE
                u == request[r].student
                x == Found(Ensured(c.row, record[s][u]), r,
                           IF last[u] = r THEN Reqs(u) ELSE {r})
            IN [item[r] EXCEPT ![First(TakesSlot(c))] =
                  IF Applies(c) THEN ItemAfter(TakenItem(c, s), x) ELSE TakenItem(c, s)]]
       /\ record' = [record EXCEPT ![s] = [u \in Students |->
            IF last[u] = NoRequest \/ session[s] = NoSession THEN @[u]
            ELSE RowAfter(@[u], Ensured(Row(last[u]), @[u]), last[u])]]
  /\ flight' = [flight EXCEPT ![a] = AfterBind(f)]
  /\ UNCHANGED <<session, target, enrolled, archived, request>>

\* ReapplyLeaveForSession: the items of granted requests whose record is not
\* their leave, unless somebody has attended or corrected it since.
Unapplied(s) ==
  {x \in Requests \X Slots :
     LET i == item[x[1]][x[2]]
         now == record[s][request[x[1]].student]
     IN /\ i.session = s /\ i.status \in {"applied", "awaiting_session"}
        /\ request[x[1]].status \in Granted
        /\ ~(now.status = "leave" /\ now.leave = x[1])
        /\ ~(now.source \in {"checkin", "manual"} /\ now.status \notin {"none", "absent"})}

\* One student who may not have a record fails it for all.
Reapply(a) ==
  LET s == flight[a].session
      todo == Unapplied(s)
      Reqs(u) == {x[1] : x \in {y \in todo : request[y[1]].student = u}}
      At(u) == Ensured(record[s][u], record[s][u])
  IN
  /\ flight[a].op = "reapply"
  /\ Unlocked({x[1] : x \in todo})
  /\ flight' = [flight EXCEPT ![a] = Idle]
  /\ \A u \in Students : record[s][u].id < MaxLives
  /\ \E last \in LastWriters(Reqs) :
       IF session[s] = NoSession \/ \A x \in todo : Eligible(s, request[x[1]].student)
       THEN /\ item' = [r \in Requests |-> [k \in Slots |->
                 LET u == request[r].student IN
                 IF <<r, k>> \notin todo THEN item[r][k]
                 ELSE ItemAfter(item[r][k],
                        Found(At(u), r, IF last[u] = r THEN Reqs(u) ELSE {r}))]]
            /\ record' = [record EXCEPT ![s] = [u \in Students |->
                 IF last[u] = NoRequest \/ session[s] = NoSession THEN @[u]
                 ELSE RowAfter(@[u], At(u), last[u])]]
       ELSE UNCHANGED <<item, record>>
  /\ UNCHANGED <<session, target, enrolled, archived, request>>
------------------------------------------------------------------------------
(* Enrolment *)

\* ArchiveAndRemoveStudentFromSection lists the pending requests of a student
\* who leaves the course, and cancels them by id.
BeginRemove(a, u) ==
  /\ flight[a] = Idle /\ u \in enrolled
  /\ u \notin archived     \* bound: one removal at a time
  /\ flight' = [flight EXCEPT ![a] = [op |-> "remove", student |-> u,
                  reqs |-> Pending(u), locks |-> {}]]
  /\ UNCHANGED rows

Remove(a) ==
  LET f == flight[a] IN
  /\ f.op = "remove" /\ Unlocked(f.reqs)
  /\ enrolled' = enrolled \ {f.student} /\ archived' = archived \cup {f.student}
  /\ request' = [r \in Requests |-> IF r \in f.reqs
       THEN [request[r] EXCEPT !.status = "cancelled", !.removed = TRUE] ELSE request[r]]
  /\ item' = PendingItemsCancelled(f.reqs)
  /\ flight' = [flight EXCEPT ![a] = Idle]
  /\ UNCHANGED <<session, target, record>>

\* AddStudentToSection enrols the student anew; that closes the removal if it
\* is the same section, and leaves the cancelled requests cancelled.
Enrol(u) ==
  /\ u \notin enrolled
  /\ enrolled' = enrolled \cup {u}
  /\ archived' \in {archived, archived \ {u}}
  /\ UNCHANGED <<session, target, record, request, item, flight>>

CancelledByRemoval(u) ==
  {r \in Requests : request[r].student = u /\ request[r].removed
                    /\ request[r].status = "cancelled"}

\* RestoreStudentToSection undoes the removal, whether or not the student is
\* enrolled again: requests and items become pending, unexamined.
Restore(u) ==
  LET rs == CancelledByRemoval(u) IN
  /\ u \in archived /\ Unlocked(rs)
  /\ enrolled' = enrolled \cup {u} /\ archived' = archived \ {u}
  /\ request' = [r \in Requests |-> IF r \in rs
       THEN [request[r] EXCEPT !.status = "pending", !.removed = FALSE] ELSE request[r]]
  /\ item' = [r \in Requests |-> IF r \in rs
       THEN ItemsBecome(item[r], "pending", "cancelled") ELSE item[r]]
  /\ UNCHANGED <<session, target, record, flight>>

\* A transaction in progress fails and is rolled back: deadlock, timeout, or a
\* lost connection. Errors of binding and reapplying are only logged.
Fail(a) ==
  /\ flight[a] # Idle
  /\ flight' = [flight EXCEPT ![a] =
       IF flight[a].op \in {"bind", "binding"} /\ flight[a].again
         THEN AfterBind(flight[a]) ELSE Idle]
  /\ UNCHANGED rows
------------------------------------------------------------------------------
(* The routes *)

CreateLeaveRequestHandler(a) ==
  \E r \in Requests, ss \in SUBSET Sessions, ds \in SUBSET Days : BeginSubmit(a, r, ss, ds)
UpdateLeaveRequestHandler(a) ==
  \E r \in Requests, ss \in SUBSET Sessions, ds \in SUBSET Days : BeginEdit(a, r, ss, ds)
CancelMyLeaveRequestHandler(a) == flight[a] = Idle /\ \E r \in Requests : Cancel(r)
\* For a session the page shows, or for the one the PIN belongs to.
StudentCheckInHandler(a) == \E s \in Sessions, u \in Students : BeginCheckIn(a, s, u)
StudentCheckInByPINHandler(a) == \E s \in Sessions, u \in Students : BeginCheckIn(a, s, u)

\* One request, item by item; or several, each all or nothing.
ReviewLeaveRequestHandler(a) ==
  \E r \in Requests, ok \in SUBSET Slots : BeginReview(a, r, ok)
BatchReviewLeaveRequests(a) ==
  \E r \in Requests : \E ok \in {PendingSlots(r), {}} : BeginReview(a, r, ok)
RevokeLeaveRequestHandler(a) == \E r \in Requests : BeginRevoke(a, r)
RunLeaveRequestAutoExpire(a) == \E rs \in SUBSET Requests : BeginExpire(a, rs)

UpdateAttendanceRecordHandler(a) == \E s \in Sessions, u \in Students : BeginMark(a, s, u)
BulkUpdateAttendanceRecordsHandler(a) ==
  \E s \in Sessions, u \in Students : BeginMark(a, s, u)
UpdateByRecordIDHandler(a) == \E s \in Sessions, u \in Students : BeginSave(a, s, u)

CreateAttendanceSessionHandler(a) ==
  \E s \in Sessions, d \in Days, us \in SUBSET Students : CreateSession(a, s, d, us)
SectionsHandler(a) ==
  \E s \in Sessions, us \in SUBSET Students : ChangeSession(a, s, session[s], us)
DayHandler(a) == \E s \in Sessions, d \in Days : ChangeSession(a, s, d, target[s])
DeleteAttendanceSessionHandler(a) == flight[a] = Idle /\ \E s \in Sessions : DeleteSession(s)
GetAttendanceSession(a) == flight[a] = Idle /\ \E s \in Sessions : OpenRegister(s)
ApplyTimeChangeHandler(a) == \E s \in Sessions : BeginRetime(a, s)

StudentStarts(a) ==
  CreateLeaveRequestHandler(a) \/ UpdateLeaveRequestHandler(a)
  \/ CancelMyLeaveRequestHandler(a) \/ StudentCheckInHandler(a) \/ StudentCheckInByPINHandler(a)
StaffDecide(a) ==
  ReviewLeaveRequestHandler(a) \/ BatchReviewLeaveRequests(a) \/ RevokeLeaveRequestHandler(a)
  \/ RunLeaveRequestAutoExpire(a) \/ UpdateAttendanceRecordHandler(a)
  \/ BulkUpdateAttendanceRecordsHandler(a) \/ UpdateByRecordIDHandler(a)
SessionsChange(a) ==
  CreateAttendanceSessionHandler(a) \/ SectionsHandler(a)
  \/ DeleteAttendanceSessionHandler(a) \/ GetAttendanceSession(a)
SessionsMove(a) == ApplyTimeChangeHandler(a) \/ DayHandler(a)
RosterChanges(a) ==
  \E u \in Students : BeginRemove(a, u) \/ (flight[a] = Idle /\ Enrol(u))
RosterUndone(a) == \E u \in Students : flight[a] = Idle /\ Restore(u)

Step(a) ==
  \/ Submit(a) \/ Edit(a) \/ Review(a) \/ Revoke(a) \/ Expire(a) \/ Remove(a)
  \/ \E status \in Attended : CheckIn(a, status)
  \/ \E status \in {"absent", "present", "late", "leave"} :
       Save(a, status) \/ \E fills \in BOOLEAN : Mark(a, status, fills)
  \/ \E d \in Days, status \in Attended \cup {"absent"} : Retime(a, d, status)
  \/ BeginBind(a) \/ BindLeaveItems(a) \/ Reapply(a)
------------------------------------------------------------------------------
\* The rows keep to their columns; an item that is applied has its session and
\* its record (the item's three columns are written by five operations).
TypeOK ==
  /\ session \in [Sessions -> Days \cup {NoSession}]
  /\ target \in [Sessions -> SUBSET Students]
  /\ enrolled \subseteq Students /\ archived \subseteq Students
  /\ record \in [Sessions -> [Students -> RecordRow]]
  /\ request \in [Requests -> RequestRow]
  /\ item \in [Requests -> [Slots -> ItemRow]]
  /\ \A r \in Requests, k \in Slots : item[r][k].status = "applied" =>
       item[r][k].session # NoSession /\ item[r][k].rec > 0

\* No student has two open items for one session (buildLeaveRequestItems reads
\* the open items of the other requests under a lock of the student).
OneOpenItem ==
  \A q, r \in Requests, j, k \in Slots :
    /\ <<q, j>> # <<r, k>> /\ request[q].student = request[r].student
    /\ item[q][j].session = item[r][k].session /\ item[q][j].session # NoSession
    => item[q][j].status \notin OpenItem \/ item[r][k].status \notin OpenItem
=============================================================================
