------------------------ MODULE AttendanceLeaveProofs ------------------------
(***************************************************************************)
(* Theorems about AttendanceLeave while sessions and the roster stay as    *)
(* they are, for any students, sessions, days, requests, items and actors: *)
(*   OneLeavePerSession  no student has two open items for one session,    *)
(*                       however submissions, edits, reviews, revocations, *)
(*                       expiry, check-ins and corrections overlap or fail *)
(*   NoDoubleBookings    the same of the instances that TLC checks         *)
(* The items of a request are decided in one step and stored in a later    *)
(* one.  The invariant says that what is about to be stored still meets no *)
(* open item of the student then: a submission excludes another one of the *)
(* student, every other operation closes items or keeps them as they are,  *)
(* and a review opens none because the items it approves are still pending *)
(* under its lock.                                                         *)
(***************************************************************************)
EXTENDS MCAttendanceLeave, FiniteSetTheorems, FunctionTheorems, TLAPS

\* What people and jobs do to requests and records.
DecisionsNext ==
  \E a \in Actors : StudentStarts(a) \/ StaffDecide(a) \/ Step(a) \/ Fail(a)

DecisionsSpec == Init /\ [][DecisionsNext]_vars
------------------------------------------------------------------------------
(* The invariant.                                                           *)

\* Rows without a bound on the lives of a record.
AnyRecord == [status : {"none", "absent", "present", "late", "leave"},
              source : {"none", "checkin", "manual", "leave_request", "system"},
              timed : BOOLEAN, leave : Requests \cup {NoRequest}, id : Nat]
AnyItem == [status : {"none", "pending", "applied", "awaiting_session",
                      "superseded", "rejected", "cancelled", "revoked"},
            session : Sessions \cup {NoSession}, day : Days \cup {NoSession},
            byDate : BOOLEAN, rec : Nat,
            previous : {"none", "absent", "present", "late", "leave"}]

SeenRecords == UNION {[ss -> AnyRecord] : ss \in SUBSET Sessions}

\* What an actor remembers between the two steps of its operation.
Flight ==
  [op : {"idle"}, locks : {{}}]
  \cup [op : {"submit", "edit"}, req : Requests, new : [Slots -> AnyItem],
        locks : SUBSET Requests]
  \cup [op : {"review"}, req : Requests, ok : SUBSET Slots, seen : SeenRecords,
        locks : SUBSET Requests]
  \cup [op : {"revoke"}, req : Requests, seen : [Sessions -> AnyRecord],
        locks : SUBSET Requests]
  \cup [op : {"expire"}, reqs : SUBSET Requests, locks : {{}}]
  \cup [op : {"checkin", "mark", "save"}, session : Sessions, student : Students,
        seen : AnyRecord, locks : {{}}]

Shapes ==
  /\ session \in [Sessions -> Days \cup {NoSession}]
  /\ record \in [Sessions -> [Students -> AnyRecord]]
  /\ request \in [Requests -> RequestRow]
  /\ item \in [Requests -> [Slots -> AnyItem]]
  /\ flight \in [Actors -> Flight]

Stores(f) == f.op \in {"submit", "edit"}

\* The items f is about to store meet no open item of the student, and no two of
\* them are for one session.
NewIsFree(f) ==
  /\ \A j, k \in Slots : j # k /\ f.new[j].session = f.new[k].session
                           => f.new[j].session = NoSession
  /\ \A q \in Requests \ {f.req}, j, k \in Slots :
       /\ request[q].student = request[f.req].student
       /\ item[q][j].session = f.new[k].session
       /\ item[q][j].status \in OpenItem
       => f.new[k].session = NoSession

\* Who changes a request has found it, and locks it or is the first to write it;
\* what a review approves is pending.
FlightOK(f) ==
  /\ f.op \in {"edit", "review", "revoke"} =>
       f.req \in f.locks /\ request[f.req].status # "none"
  /\ f.op = "expire" => \A r \in f.reqs : request[r].status # "none"
  /\ f.op = "submit" => request[f.req].status = "none"
  /\ f.op = "review" => f.ok \subseteq PendingSlots(f.req)
  /\ Stores(f) => NewIsFree(f)

\* Two actors lock different requests and store items of different students.
Apart(f, g) ==
  /\ f.locks \cap g.locks = {}
  /\ Stores(f) /\ Stores(g) => request[f.req].student # request[g.req].student

\* A request that does not exist has no open items.
MissingIsEmpty ==
  \A r \in Requests, k \in Slots :
    request[r].status = "none" => item[r][k].status \notin OpenItem

LeaveInv ==
  /\ Shapes
  /\ OneOpenItem
  /\ MissingIsEmpty
  /\ \A a \in Actors : FlightOK(flight[a])
  /\ \A a, b \in Actors : a # b => Apart(flight[a], flight[b])
------------------------------------------------------------------------------
(* What the steps have in common.                                           *)

\* An item that is open afterwards was open before, for the same session.
ClosesTo(i, j) ==
  j.status \in OpenItem => i.status \in OpenItem /\ j.session \in {i.session, NoSession}

\* Requests stay with their students and do not come or go.
RequestsStay ==
  \A r \in Requests : /\ request'[r].student = request[r].student
                      /\ request'[r].status = "none" <=> request[r].status = "none"

\* A step that ends what a did, or is done at once by an idle a, and opens no
\* item and leaves alone what others review.
LEMMA Ends ==
  ASSUME LeaveInv, NEW a \in Actors, flight' = [flight EXCEPT ![a] = Idle],
         Shapes', RequestsStay,
         \A r \in Requests, k \in Slots : ClosesTo(item[r][k], item'[r][k]),
         \A b \in Actors \ {a} :
           flight[b].op = "review" => item'[flight[b].req] = item[flight[b].req]
  PROVE  LeaveInv'
<1>1. /\ flight \in [Actors -> Flight]
      /\ flight'[a] = Idle
      /\ \A b \in Actors \ {a} : flight'[b] = flight[b]
  BY DEF LeaveInv, Shapes
<1>2. \A b \in Actors : Stores(flight[b]) => flight[b].req \in Requests
  BY <1>1 DEF Flight, Stores
<1>3. \A b \in Actors : flight[b].op \in {"review", "revoke"} => flight[b].req \in Requests
  BY <1>1 DEF Flight
<1>4. \A b \in Actors : flight[b].op = "expire" => flight[b].reqs \subseteq Requests
  BY <1>1 DEF Flight
<1>5. OneOpenItem'
  BY DEF LeaveInv, OneOpenItem, ClosesTo, RequestsStay
<1>6. MissingIsEmpty'
  BY DEF LeaveInv, MissingIsEmpty, ClosesTo, RequestsStay
<1>7. ASSUME NEW b \in Actors
      PROVE  FlightOK(flight[b])'
  <2>1. CASE b = a
    BY <1>1, <2>1 DEF FlightOK, Idle, Stores
  <2>2. CASE b # a
    <3>1. flight'[b] = flight[b] /\ FlightOK(flight[b])
      BY <1>1, <2>2 DEF LeaveInv
    <3>2. Stores(flight[b]) => NewIsFree(flight[b])'
      BY <1>2, <3>1 DEF FlightOK, NewIsFree, RequestsStay, ClosesTo
    <3>3. flight[b].op = "review" => PendingSlots(flight[b].req)' = PendingSlots(flight[b].req)
      BY <2>2, <3>1 DEF PendingSlots
    <3> QED
      BY <1>2, <1>3, <1>4, <3>1, <3>2, <3>3 DEF FlightOK, RequestsStay, Stores
  <2> QED
    BY <2>1, <2>2
<1>8. ASSUME NEW b \in Actors, NEW c \in Actors, b # c
      PROVE  Apart(flight[b], flight[c])'
  BY <1>1, <1>2, <1>8 DEF LeaveInv, Apart, Idle, Stores, RequestsStay
<1> QED
  BY <1>5, <1>6, <1>7, <1>8 DEF LeaveInv

\* The first step of an operation: it reads, and remembers f.
LEMMA Starts ==
  ASSUME LeaveInv, NEW a \in Actors, flight[a] = Idle, NEW f \in Flight,
         flight' = [flight EXCEPT ![a] = f], UNCHANGED rows,
         FlightOK(f), Unlocked(f.locks),
         Stores(f) => NoOtherSubmission(request[f.req].student)
  PROVE  LeaveInv'
<1>1. /\ flight' \in [Actors -> Flight]
      /\ flight'[a] = f
      /\ \A b \in Actors \ {a} : flight'[b] = flight[b]
  BY DEF LeaveInv, Shapes
<1>2. Shapes' /\ OneOpenItem' /\ MissingIsEmpty'
  BY <1>1 DEF LeaveInv, Shapes, OneOpenItem, MissingIsEmpty, rows
<1>3. \A g : FlightOK(g)' <=> FlightOK(g)
  BY DEF rows, FlightOK, NewIsFree, PendingSlots, Stores
<1>4. \A b \in Actors : FlightOK(flight[b])'
  BY <1>1, <1>3 DEF LeaveInv
<1>5. ASSUME NEW b \in Actors, NEW c \in Actors, b # c
      PROVE  Apart(flight[b], flight[c])'
  <2>1. \A d \in Actors \ {a} : Apart(flight[d], f) /\ Apart(f, flight[d])
    BY DEF Apart, Unlocked, NoOtherSubmission, Submitting, Stores
  <2>2. Apart(flight'[b], flight'[c])
    BY <1>1, <1>5, <2>1 DEF LeaveInv
  <2> QED
    BY <2>2 DEF Apart, rows
<1> QED
  BY <1>2, <1>4, <1>5 DEF LeaveInv

\* The second step of a submission or an edit: the items are stored as they were
\* decided.
LEMMA Inserts ==
  ASSUME LeaveInv, NEW a \in Actors, Submit(a) \/ Edit(a)
  PROVE  LeaveInv'
<1> DEFINE f == flight[a]
           r == f.req
<1>1. /\ f \in Flight /\ Stores(f) /\ FlightOK(f) /\ NewIsFree(f)
      /\ r \in Requests /\ f.new \in [Slots -> AnyItem]
  BY DEF Submit, Edit, Stores, LeaveInv, Shapes, Flight, FlightOK
<1>2. /\ item' = [item EXCEPT ![r] = f.new]
      /\ flight' = [flight EXCEPT ![a] = Idle]
      /\ UNCHANGED <<session, record>>
      /\ \/ request' = [request EXCEPT ![r] = [request[r] EXCEPT !.status = "pending"]]
         \/ request' = [request EXCEPT ![r] = [request[r] EXCEPT !.edition = 1]]
  <2>1. request \in [Requests -> RequestRow]
    BY DEF LeaveInv, Shapes
  <2>2. CASE Submit(a)
    BY <1>1, <2>1, <2>2 DEF Submit
  <2>3. CASE Edit(a)
    BY <1>1, <2>1, <2>3 DEF Edit
  <2> QED
    BY <2>2, <2>3
<1>3. /\ item'[r] = f.new
      /\ \A q \in Requests \ {r} : item'[q] = item[q] /\ request'[q] = request[q]
      /\ request' \in [Requests -> RequestRow]
      /\ \A q \in Requests : request'[q].student = request[q].student
      /\ flight'[a] = Idle
      /\ \A b \in Actors \ {a} : flight'[b] = flight[b]
      /\ Idle \in Flight
  <2>1. /\ request \in [Requests -> RequestRow]
        /\ item \in [Requests -> [Slots -> AnyItem]]
        /\ flight \in [Actors -> Flight]
    BY DEF LeaveInv, Shapes
  <2>2. \A row \in RequestRow :
          /\ [row EXCEPT !.status = "pending"] \in RequestRow
          /\ [row EXCEPT !.status = "pending"].student = row.student
          /\ [row EXCEPT !.edition = 1] \in RequestRow
          /\ [row EXCEPT !.edition = 1].student = row.student
    BY DEF RequestRow
  <2>3. PICK row \in RequestRow : /\ request' = [request EXCEPT ![r] = row]
                                 /\ row.student = request[r].student
    BY <1>1, <1>2, <2>1, <2>2
  <2>4. Idle \in Flight
    BY DEF Idle, Flight
  <2> QED
    BY <1>1, <1>2, <2>1, <2>3, <2>4
<1>4. Shapes'
  BY <1>1, <1>2, <1>3 DEF LeaveInv, Shapes
<1>5. request'[r].status # "none"
  BY <1>1, <1>2 DEF Submit, Edit, FlightOK, LeaveInv, Shapes, RequestRow
<1>6. OneOpenItem'
  BY <1>1, <1>3 DEF LeaveInv, OneOpenItem, NewIsFree
<1>7. MissingIsEmpty'
  BY <1>1, <1>3, <1>5 DEF LeaveInv, MissingIsEmpty
<1>8. ASSUME NEW b \in Actors
      PROVE  FlightOK(flight[b])'
  <2>1. CASE b = a
    BY <1>3, <2>1 DEF FlightOK, Idle, Stores
  <2>2. CASE b # a
    <3> DEFINE g == flight[b]
    <3>1. /\ flight'[b] = g /\ g \in Flight /\ FlightOK(g)
          /\ Apart(f, g)
      BY <1>3, <2>2 DEF LeaveInv, Shapes
    <3>2. Stores(g) => g.req \in Requests
      BY <3>1 DEF Flight, Stores
    <3>3. g.op \in {"review", "revoke"} => g.req \in Requests /\ g.req # r
      BY <1>1, <3>1 DEF Flight, FlightOK, Apart, Stores
    <3>4. g.op = "expire" => g.reqs \subseteq Requests
      BY <3>1 DEF Flight
    <3>5. Stores(g) => g.req # r /\ request[g.req].student # request[r].student
      BY <1>1, <3>1 DEF Apart
    <3>6. Stores(g) => NewIsFree(g)'
      BY <1>3, <3>1, <3>2, <3>5 DEF FlightOK, NewIsFree
    <3>7. g.op = "review" => PendingSlots(g.req)' = PendingSlots(g.req)
      BY <1>3, <3>3 DEF PendingSlots
    <3>8. \A q \in Requests : request[q].status # "none" => request'[q].status # "none"
      BY <1>3, <1>5
    <3>9. g.op = "submit" => request'[g.req] = request[g.req]
      BY <1>3, <3>2, <3>5 DEF Stores
    <3> QED
      BY <3>1, <3>2, <3>3, <3>4, <3>6, <3>7, <3>8, <3>9 DEF FlightOK, Stores
  <2> QED
    BY <2>1, <2>2
<1>9. ASSUME NEW b \in Actors, NEW c \in Actors, b # c
      PROVE  Apart(flight[b], flight[c])'
  <2>1. \A d \in Actors : Stores(flight[d]) => flight[d].req \in Requests
    BY DEF LeaveInv, Shapes, Flight, Stores
  <2> QED
    BY <1>3, <1>9, <2>1 DEF LeaveInv, Apart, Idle, Stores
<1> QED
  BY <1>4, <1>6, <1>7, <1>8, <1>9 DEF LeaveInv
------------------------------------------------------------------------------
(* What is stored.                                                          *)

\* No more items than slots: each gets one.
LEMMA PlacedInSlots ==
  ASSUME NEW new, IsFiniteSet(new), NoItem \notin new,
         Cardinality(new) <= Cardinality(Slots)
  PROVE  /\ Placed(new) \in [Slots -> new \cup {NoItem}]
         /\ \A j, k \in Slots : Placed(new)[j] = Placed(new)[k] /\ j # k
                                  => Placed(new)[k] = NoItem
<1> DEFINE n == Cardinality(new)
           m == Cardinality(Slots)
<1>1. IsFiniteSet(Slots)
  BY LeaveAssumption
<1>2. PICK F \in Bijection(1..n, new) : n \in Nat
  BY FS_CardinalityType DEF ExistsBijection
<1>3. PICK G \in Bijection(1..m, Slots) : m \in Nat
  BY <1>1, FS_CardinalityType DEF ExistsBijection
<1>4. /\ F \in [1..n -> new]
      /\ \A i, j \in 1..n : F[i] = F[j] => i = j
      /\ \A x \in new : \E i \in 1..n : F[i] = x
  BY <1>2, Fun_BijectionProperties
<1>5. /\ G \in [1..m -> Slots]
      /\ \A i, j \in 1..m : G[i] = G[j] => i = j
  BY <1>3, Fun_BijectionProperties
<1>6. 1..n \subseteq 1..m
  BY <1>2, <1>3
<1> DEFINE index(k) == CHOOSE i \in 1..n : G[i] = k
           h == [k \in Slots |-> IF \E i \in 1..n : G[i] = k THEN F[index(k)] ELSE NoItem]
<1>7. \A k \in Slots : (\E i \in 1..n : G[i] = k) => index(k) \in 1..n /\ G[index(k)] = k
  OBVIOUS
<1> HIDE DEF index
<1>8. h \in [Slots -> new \cup {NoItem}]
  BY <1>4, <1>7
<1>9. ASSUME NEW x \in new
      PROVE  \E k \in Slots : h[k] = x
  <2>1. PICK i \in 1..n : F[i] = x
    BY <1>4
  <2>2. G[i] \in Slots /\ index(G[i]) \in 1..n /\ G[index(G[i])] = G[i]
    BY <1>5, <1>6, <1>7
  <2>3. index(G[i]) = i
    BY <1>5, <1>6, <2>2
  <2> QED
    BY <2>1, <2>2, <2>3
<1>10. ASSUME NEW j \in Slots, NEW k \in Slots, h[j] = h[k], j # k
       PROVE  h[k] = NoItem
  <2>1. CASE (\E i \in 1..n : G[i] = j) /\ (\E i \in 1..n : G[i] = k)
    <3>1. F[index(j)] = F[index(k)]
      BY <1>10, <2>1
    <3> QED
      BY <1>4, <1>7, <1>10, <2>1, <3>1
  <2>2. CASE ~(\E i \in 1..n : G[i] = k)
    BY <2>2
  <2>3. CASE ~(\E i \in 1..n : G[i] = j)
    BY <1>10, <2>3
  <2> QED
    BY <2>1, <2>2, <2>3
<1> HIDE DEF h
<1> QED
  BY <1>8, <1>9, <1>10 DEF Placed

\* The items built of an acceptable choice: each row of the table, pending, for a
\* session that no open item of another request is for; two are for different
\* sessions, or for different days without one.
LEMMA BuiltItems ==
  ASSUME Shapes, NEW u \in Students, NEW r \in Requests,
         NEW ss \in SUBSET Sessions, NEW ds \in SUBSET Days, Acceptable(ss, ds, u, r)
  PROVE  /\ Built(ss, ds, u) \subseteq AnyItem
         /\ \A x \in Built(ss, ds, u) :
              /\ x.status = "pending"
              /\ x.session # NoSession => x.session \notin OpenSessions(u, r)
         /\ \A x, y \in Built(ss, ds, u) :
              x.session = y.session /\ (x.session # NoSession \/ x.day = y.day) => x = y
<1> DEFINE Picked(s) == Item(session[s], s, FALSE)
           Asked(d, s) == Item(d, s, TRUE)
<1>1. /\ \A s \in Sessions : session[s] \in Days \cup {NoSession} =>
           /\ Picked(s) \in AnyItem
           /\ Picked(s).status = "pending"
           /\ Picked(s).session = s
      /\ \A d \in Days, s \in Sessions \cup {NoSession} :
           /\ Asked(d, s) \in AnyItem
           /\ Asked(d, s).status = "pending"
           /\ Asked(d, s).session = s
           /\ Asked(d, s).day = d
  BY DEF Item, NoItem, AnyItem
<1>2. /\ \A s \in ss : s \in Sessions /\ s # NoSession /\ session[s] \in Days \cup {NoSession}
                       /\ s \notin OpenSessions(u, r)
                       /\ \A d \in ds : s \notin SessionsOn(d, u)
      /\ \A d \in ds : d \in Days /\ \A s \in SessionsOn(d, u) :
                         s \in Sessions /\ s # NoSession /\ session[s] = d
                         /\ s \notin OpenSessions(u, r)
  BY LeaveAssumption DEF Acceptable, MayPick, MayPickDay, MayLeave, SessionsOn, Shapes
<1>3. \A x \in Built(ss, ds, u) :
        \/ \E s \in ss : x = Picked(s)
        \/ \E d \in ds : \E s \in SessionsOn(d, u) : x = Asked(d, s)
        \/ \E d \in ds : x = Asked(d, NoSession)
  <2> SUFFICES ASSUME NEW x \in Built(ss, ds, u)
               PROVE  \/ \E s \in ss : x = Picked(s)
                      \/ \E d \in ds : \E s \in SessionsOn(d, u) : x = Asked(d, s)
                      \/ \E d \in ds : x = Asked(d, NoSession)
    OBVIOUS
  <2> HIDE DEF Picked, Asked
  <2>1. \/ x \in {Picked(s) : s \in ss}
        \/ x \in UNION {{Asked(d, s) : s \in SessionsOn(d, u)} : d \in ds}
        \/ x \in {Asked(d, NoSession) : d \in {e \in ds : SessionsOn(e, u) = {}}}
    BY DEF Built, Picked, Asked
  <2>2. ASSUME x \in UNION {{Asked(d, s) : s \in SessionsOn(d, u)} : d \in ds}
        PROVE  \E d \in ds : \E s \in SessionsOn(d, u) : x = Asked(d, s)
    BY <2>2, Zenon
  <2> QED
    BY <2>1, <2>2
<1> HIDE DEF Picked, Asked
<1>4. ASSUME NEW x \in Built(ss, ds, u)
      PROVE  /\ x \in AnyItem
             /\ x.status = "pending"
             /\ x.session # NoSession => x.session \notin OpenSessions(u, r)
  <2>1. CASE \E s \in ss : x = Picked(s)
    BY <1>1, <1>2, <2>1
  <2>2. CASE \E d \in ds : \E s \in SessionsOn(d, u) : x = Asked(d, s)
    BY <1>1, <1>2, <2>2
  <2>3. CASE \E d \in ds : x = Asked(d, NoSession)
    BY <1>1, <1>2, <2>3
  <2> QED
    BY <1>3, <2>1, <2>2, <2>3
<1>5. ASSUME NEW x \in Built(ss, ds, u), NEW y \in Built(ss, ds, u),
             x.session = y.session, x.session # NoSession \/ x.day = y.day
      PROVE  x = y
  <2>1. CASE \E s \in ss : x = Picked(s)
    <3>1. PICK s \in ss : x = Picked(s)
      BY <2>1
    <3>2. x.session = s
      BY <1>1, <1>2, <3>1
    <3>3. CASE \E t \in ss : y = Picked(t)
      BY <1>1, <1>2, <1>5, <3>1, <3>2, <3>3
    <3>4. CASE \E d \in ds : \E t \in SessionsOn(d, u) : y = Asked(d, t)
      <4>1. PICK d \in ds : \E t \in SessionsOn(d, u) : y = Asked(d, t)
        BY <3>4
      <4>2. PICK t \in SessionsOn(d, u) : y = Asked(d, t)
        BY <4>1
      <4>3. y.session = t
        BY <1>1, <1>2, <4>2
      <4> QED
        BY <1>2, <1>5, <3>2, <4>3
    <3>5. CASE \E d \in ds : y = Asked(d, NoSession)
      <4>1. y.session = NoSession
        BY <1>1, <1>2, <3>5
      <4> QED
        BY <1>2, <1>5, <3>2, <4>1
    <3> QED
      BY <1>3, <3>3, <3>4, <3>5
  <2>2. CASE \E d \in ds : \E s \in SessionsOn(d, u) : x = Asked(d, s)
    <3>1. PICK d \in ds : \E s \in SessionsOn(d, u) : x = Asked(d, s)
      BY <2>2
    <3>2. PICK s \in SessionsOn(d, u) : x = Asked(d, s)
      BY <3>1
    <3>3. x.session = s
      BY <1>1, <1>2, <3>2
    <3>4. CASE \E t \in ss : y = Picked(t)
      <4>1. PICK t \in ss : y = Picked(t)
        BY <3>4
      <4>2. y.session = t
        BY <1>1, <1>2, <4>1
      <4> QED
        BY <1>2, <1>5, <3>3, <4>2
    <3>5. CASE \E e \in ds : \E t \in SessionsOn(e, u) : y = Asked(e, t)
      <4>1. PICK e \in ds : \E t \in SessionsOn(e, u) : y = Asked(e, t)
        BY <3>5
      <4>2. PICK t \in SessionsOn(e, u) : y = Asked(e, t)
        BY <4>1
      <4>3. y.session = t
        BY <1>1, <1>2, <4>2
      <4>4. t = s
        BY <1>5, <3>3, <4>3
      <4>5. session[s] = d /\ session[s] = e
        BY <1>2, <4>4
      <4> QED
        BY <3>2, <4>2, <4>4, <4>5
    <3>6. CASE \E e \in ds : y = Asked(e, NoSession)
      <4>1. y.session = NoSession
        BY <1>1, <1>2, <3>6
      <4> QED
        BY <1>2, <1>5, <3>3, <4>1
    <3> QED
      BY <1>3, <3>4, <3>5, <3>6
  <2>3. CASE \E d \in ds : x = Asked(d, NoSession)
    <3>1. PICK d \in ds : x = Asked(d, NoSession)
      BY <2>3
    <3>2. x.session = NoSession /\ x.day = d
      BY <1>1, <1>2, <3>1
    <3>3. CASE \E s \in ss : y = Picked(s)
      <4>1. PICK s \in ss : y = Picked(s)
        BY <3>3
      <4>2. y.session = s
        BY <1>1, <1>2, <4>1
      <4> QED
        BY <1>2, <1>5, <3>2, <4>2
    <3>4. CASE \E e \in ds : \E t \in SessionsOn(e, u) : y = Asked(e, t)
      <4>1. PICK e \in ds : \E t \in SessionsOn(e, u) : y = Asked(e, t)
        BY <3>4
      <4>2. PICK t \in SessionsOn(e, u) : y = Asked(e, t)
        BY <4>1
      <4>3. y.session = t
        BY <1>1, <1>2, <4>2
      <4> QED
        BY <1>2, <1>5, <3>2, <4>1, <4>3
    <3>5. CASE \E e \in ds : y = Asked(e, NoSession)
      <4>1. PICK e \in ds : y = Asked(e, NoSession)
        BY <3>5
      <4>2. y.day = e
        BY <1>1, <1>2, <4>1
      <4> QED
        BY <1>5, <3>1, <3>2, <4>1, <4>2
    <3> QED
      BY <1>3, <3>3, <3>4, <3>5
  <2> QED
    BY <1>3, <2>1, <2>2, <2>3
<1> QED
  BY <1>4, <1>5

\* There are finitely many, as there are sessions and days.
LEMMA BuiltFinite ==
  ASSUME Shapes, NEW u \in Students, NEW r \in Requests,
         NEW ss \in SUBSET Sessions, NEW ds \in SUBSET Days, Acceptable(ss, ds, u, r)
  PROVE  IsFiniteSet(Built(ss, ds, u))
<1> DEFINE new == Built(ss, ds, u)
           places == (Sessions \cup {NoSession}) \X (Days \cup {NoSession})
           place == [x \in new |-> << x.session, x.day >>]
<1>1. /\ new \subseteq AnyItem
      /\ \A x, y \in new :
           x.session = y.session /\ (x.session # NoSession \/ x.day = y.day) => x = y
  BY BuiltItems
<1>2. IsFiniteSet(Sessions \cup {NoSession}) /\ IsFiniteSet(Days \cup {NoSession})
  BY LeaveAssumption, FS_AddElement
<1>3. IsFiniteSet(places)
  BY <1>2, FS_Product
<1>4. place \in [new -> places]
  BY <1>1 DEF AnyItem
<1>5. \A x, y \in new : place[x] = place[y] => x = y
  BY <1>1
<1> HIDE DEF place, new, places
<1>6. place \in Injection(new, places)
  BY <1>4, <1>5, Fun_IsInj
<1>7. IsFiniteSet(new)
  BY <1>3, <1>6, FS_Injection
<1> QED
  BY <1>7 DEF new

\* So each has a slot, and what a submission or an edit remembers is free.
LEMMA StoredIsFree ==
  ASSUME Shapes, MissingIsEmpty, NEW r \in Requests,
         NEW ss \in SUBSET Sessions, NEW ds \in SUBSET Days,
         Acceptable(ss, ds, request[r].student, r),
         NEW f, f.req = r, f.new = Placed(Built(ss, ds, request[r].student))
  PROVE  f.new \in [Slots -> AnyItem] /\ NewIsFree(f)
<1> DEFINE u == request[r].student
           new == Built(ss, ds, u)
<1>1. u \in Students
  BY DEF Shapes, RequestRow
<1>2. /\ new \subseteq AnyItem
      /\ \A x \in new : /\ x.status = "pending"
                        /\ x.session # NoSession => x.session \notin OpenSessions(u, r)
      /\ \A x, y \in new :
           x.session = y.session /\ (x.session # NoSession \/ x.day = y.day) => x = y
  BY <1>1, BuiltItems
<1>3. IsFiniteSet(new) /\ Cardinality(new) <= Cardinality(Slots)
  BY <1>1, BuiltFinite DEF Acceptable
<1>4. NoItem \in AnyItem /\ NoItem.session = NoSession /\ NoItem.status = "none"
  BY DEF NoItem, AnyItem
<1>5. NoItem \notin new
  BY <1>2, <1>4
<1>6. /\ f.new \in [Slots -> new \cup {NoItem}]
      /\ \A j, k \in Slots : f.new[j] = f.new[k] /\ j # k => f.new[k] = NoItem
  BY <1>3, <1>5, PlacedInSlots
<1>7. ASSUME NEW j \in Slots, NEW k \in Slots, j # k, f.new[j].session = f.new[k].session
      PROVE  f.new[j].session = NoSession
  <2>1. f.new[j] \in new \cup {NoItem} /\ f.new[k] \in new \cup {NoItem}
    BY <1>6
  <2> QED
    BY <1>2, <1>4, <1>6, <1>7, <2>1
<1>8. ASSUME NEW q \in Requests \ {r}, NEW j \in Slots, NEW k \in Slots,
             request[q].student = u, item[q][j].session = f.new[k].session,
             item[q][j].status \in OpenItem
      PROVE  f.new[k].session = NoSession
  <2>1. request[q].status # "none"
    BY <1>8 DEF MissingIsEmpty
  <2>2. item[q][j] \in OpenItems(u, r)
    BY <1>8, <2>1 DEF OpenItems
  <2>3. f.new[k].session \in OpenSessions(u, r)
    BY <1>8, <2>2 DEF OpenSessions, OpenOf
  <2>4. f.new[k] \in new \cup {NoItem}
    BY <1>6
  <2> QED
    BY <1>2, <1>4, <2>3, <2>4
<1>9. f.new \in [Slots -> AnyItem]
  BY <1>2, <1>4, <1>6
<1> QED
  BY <1>7, <1>8, <1>9 DEF NewIsFree
------------------------------------------------------------------------------
(* What the operations make of a row.                                       *)

Status == {"none", "absent", "present", "late", "leave"}
Closed == {"superseded", "rejected", "cancelled", "revoked"}

\* A record that is missing is made anew.
LEMMA EnsuredIsRecord ==
  ASSUME NEW x \in AnyRecord, NEW now \in AnyRecord
  PROVE  Ensured(x, now) \in AnyRecord
<1>1. NoRecord \in AnyRecord
  BY DEF NoRecord, AnyRecord
<1>2. now.id + 1 \in Nat
  BY DEF AnyRecord
<1>3. Blank(now) \in AnyRecord
  BY <1>1, <1>2 DEF Blank, AnyRecord
<1> QED
  BY <1>3 DEF Ensured

\* A record stays a record.
LEMMA RowValues ==
  ASSUME NEW x \in AnyRecord, NEW now \in AnyRecord, NEW r \in Requests,
         NEW status \in Status
  PROVE  /\ Ensured(x, now) \in AnyRecord
         /\ RowAfter(now, x, r) \in AnyRecord
         /\ Unleft(x, status) \in AnyRecord
         /\ Marked(x, status) \in AnyRecord
         /\ [x EXCEPT !.status = status, !.source = "checkin", !.timed = TRUE] \in AnyRecord
         /\ [x EXCEPT !.status = status, !.source = "manual"] \in AnyRecord
<1>1. Ensured(x, now) \in AnyRecord
  BY EnsuredIsRecord
<1>2. RowAfter(now, x, r) \in AnyRecord
  <2>1. LeaveRow(now, r) \in AnyRecord /\ LeaveRow(x, r) \in AnyRecord
    BY DEF LeaveRow, AnyRecord
  <2> QED
    BY <2>1 DEF RowAfter
<1>3. Unleft(x, status) \in AnyRecord
  BY DEF Unleft, AnyRecord, Status
<1>4. Marked(x, status) \in AnyRecord
  <2>1. (status # "absent") \in BOOLEAN
    OBVIOUS
  <2> QED
    BY <2>1 DEF Marked, AnyRecord, Status
<1> QED
  BY <1>1, <1>2, <1>3, <1>4 DEF AnyRecord, Status

\* An item stays one; one decided keeps its session or waits for one.
LEMMA ItemValues ==
  ASSUME session \in [Sessions -> Days \cup {NoSession}],
         NEW i \in AnyItem, NEW x \in AnyRecord, NEW status \in Closed
  PROVE  /\ ItemAfter(i, x) \in AnyItem
         /\ ItemAfter(i, x).session \in {i.session, NoSession}
         /\ [i EXCEPT !.status = status] \in AnyItem
         /\ [i EXCEPT !.status = status].status \notin OpenItem
BY DEF ItemAfter, AnyItem, AnyRecord, Closed, OpenItem

\* Items that take a closed status open none.
LEMMA ItemsClose ==
  ASSUME session \in [Sessions -> Days \cup {NoSession}],
         NEW its \in [Slots -> AnyItem], NEW status \in Closed, NEW from
  PROVE  /\ ItemsBecome(its, status, from) \in [Slots -> AnyItem]
         /\ \A k \in Slots : ClosesTo(its[k], ItemsBecome(its, status, from)[k])
<1>1. \A k \in Slots : /\ [its[k] EXCEPT !.status = status] \in AnyItem
                       /\ [its[k] EXCEPT !.status = status].status \notin OpenItem
  BY DEF AnyItem, Closed, OpenItem
<1> QED
  BY <1>1 DEF ItemsBecome, ClosesTo

\* The record an operation replaces takes the items that name it along.
LEMMA ReplacesCloses ==
  ASSUME Shapes, NEW f \in Flight, NEW s, NEW u, Replaces(f, s, u)
  PROVE  /\ item' \in [Requests -> [Slots -> AnyItem]]
         /\ \A r \in Requests, k \in Slots : ClosesTo(item[r][k], item'[r][k])
         /\ \A b \in Actors, r \in Requests :
              r \in flight[b].locks => item'[r] = item[r]
<1>1. item \in [Requests -> [Slots -> AnyItem]]
  BY DEF Shapes
<1>2. CASE UNCHANGED item
  BY <1>1, <1>2 DEF ClosesTo
<1>3. CASE /\ Unlocked(Supersedes(s, u, f.seen.id))
           /\ item' = Superseded(s, u, f.seen.id)
  <2> DEFINE rs == Supersedes(s, u, f.seen.id)
             new(r, k) == IF r \in rs /\ item[r][k].session = s
                               /\ item[r][k].rec = f.seen.id /\ item[r][k].status = "applied"
                            THEN [item[r][k] EXCEPT !.status = "superseded"] ELSE item[r][k]
  <2>1. item' = [r \in Requests |-> [k \in Slots |-> new(r, k)]]
    BY <1>3 DEF Superseded
  <2>2. \A r \in Requests, k \in Slots :
          /\ new(r, k) \in AnyItem
          /\ ClosesTo(item[r][k], new(r, k))
          /\ r \notin rs => new(r, k) = item[r][k]
    <3>1. \A i \in AnyItem : /\ [i EXCEPT !.status = "superseded"] \in AnyItem
                            /\ [i EXCEPT !.status = "superseded"].status = "superseded"
      BY DEF AnyItem
    <3> QED
      BY <1>1, <3>1 DEF ClosesTo, OpenItem
  <2> HIDE DEF new, rs
  <2>3. /\ item' \in [Requests -> [Slots -> AnyItem]]
        /\ \A r \in Requests, k \in Slots : ClosesTo(item[r][k], item'[r][k])
    BY <2>1, <2>2
  <2>4. \A r \in Requests : r \notin rs => item'[r] = item[r]
    BY <1>1, <2>1, <2>2
  <2>5. \A b \in Actors, r \in Requests : r \in flight[b].locks => r \notin rs
    BY <1>3 DEF Unlocked, rs
  <2> QED
    BY <2>3, <2>4, <2>5
<1> QED
  BY <1>2, <1>3 DEF Replaces
------------------------------------------------------------------------------
(* The first steps.                                                         *)

\* A submission or an edit decides on free items under the student's lock.
LEMMA Decides ==
  ASSUME LeaveInv, NEW a \in Actors, NEW r \in Requests,
         NEW ss \in SUBSET Sessions, NEW ds \in SUBSET Days,
         BeginSubmit(a, r, ss, ds) \/ BeginEdit(a, r, ss, ds)
  PROVE  LeaveInv'
<1> DEFINE u == request[r].student
           new == Placed(Built(ss, ds, u))
           open == OpenRequests(u, r)
           s == [op |-> "submit", req |-> r, new |-> new, locks |-> open]
           e == [op |-> "edit", req |-> r, new |-> new, locks |-> {r} \cup open]
<1>1. \A f : f.req = r /\ f.new = new => f.new \in [Slots -> AnyItem] /\ NewIsFree(f)
  BY StoredIsFree DEF BeginSubmit, BeginEdit, LeaveInv
<1>2. new \in [Slots -> AnyItem] /\ NewIsFree(s) /\ NewIsFree(e)
  BY <1>1
<1>3. open \subseteq Requests
  BY DEF OpenRequests
<1>4. s \in Flight /\ e \in Flight
  BY <1>2, <1>3 DEF Flight
<1>5. CASE BeginSubmit(a, r, ss, ds)
  <2>1. FlightOK(s)
    BY <1>2, <1>5 DEF FlightOK, BeginSubmit, Stores
  <2> HIDE DEF new, open
  <2> QED
    BY <1>4, <1>5, <2>1, Starts DEF BeginSubmit, new, open
<1>6. CASE BeginEdit(a, r, ss, ds)
  <2>1. FlightOK(e)
    BY <1>2, <1>6 DEF FlightOK, BeginEdit, Stores
  <2> HIDE DEF new, open
  <2> QED
    BY <1>4, <1>6, <2>1, Starts DEF BeginEdit, new, open
<1> QED
  BY <1>5, <1>6

\* A review or a revocation locks its request.
LEMMA TakesUp ==
  ASSUME LeaveInv, NEW a \in Actors, NEW r \in Requests, NEW ok \in SUBSET Slots,
         BeginReview(a, r, ok) \/ BeginRevoke(a, r)
  PROVE  LeaveInv'
<1> DEFINE v == [op |-> "review", req |-> r, ok |-> ok,
                 seen |-> [s \in About(r, ok) |-> record[s][request[r].student]],
                 locks |-> {r}]
           w == [op |-> "revoke", req |-> r, locks |-> {r},
                 seen |-> [s \in Sessions |-> record[s][request[r].student]]]
<1>1. \A s \in Sessions : record[s][request[r].student] \in AnyRecord
  BY DEF LeaveInv, Shapes, RequestRow
<1>2. CASE BeginReview(a, r, ok)
  <2>1. v.seen \in SeenRecords
    <3>1. About(r, ok) \in SUBSET Sessions
      BY DEF About
    <3>2. v.seen \in [About(r, ok) -> AnyRecord]
      BY <1>1, <3>1
    <3> QED
      BY <3>1, <3>2 DEF SeenRecords
  <2>2. v \in Flight
    BY <2>1 DEF Flight
  <2>3. FlightOK(v)
    BY <1>2 DEF FlightOK, BeginReview, Stores
  <2> QED
    BY <1>2, <2>2, <2>3, Starts DEF BeginReview, Stores
<1>3. CASE BeginRevoke(a, r)
  <2>1. w \in Flight
    BY <1>1 DEF Flight
  <2>2. FlightOK(w)
    BY <1>3 DEF FlightOK, BeginRevoke, Stores, Granted
  <2> QED
    BY <1>3, <2>1, <2>2, Starts DEF BeginRevoke, Stores
<1> QED
  BY <1>2, <1>3

\* Expiry, check-ins and corrections read without locks.
LEMMA Looks ==
  ASSUME LeaveInv, NEW a \in Actors, NEW f \in Flight, flight[a] = Idle,
         f.op \in {"expire", "checkin", "mark", "save"}, f.locks = {},
         f.op = "expire" => \A r \in f.reqs : request[r].status # "none",
         flight' = [flight EXCEPT ![a] = f], UNCHANGED rows
  PROVE  LeaveInv'
<1>1. FlightOK(f) /\ ~Stores(f)
  BY DEF FlightOK, Stores
<1> QED
  BY <1>1, Starts DEF Unlocked

LEMMA Begun ==
  ASSUME LeaveInv, NEW a \in Actors, StudentStarts(a) \/ StaffDecide(a)
  PROVE  LeaveInv' \/ \E r \in Requests : flight[a] = Idle /\ Cancel(r)
<1>1. \A s \in Sessions, u \in Students :
        /\ record[s][u] \in AnyRecord
        /\ Ensured(record[s][u], record[s][u]) \in AnyRecord
  <2>1. record \in [Sessions -> [Students -> AnyRecord]]
    BY DEF LeaveInv, Shapes
  <2>2. \A x, y \in AnyRecord : Ensured(x, y) \in AnyRecord
    BY EnsuredIsRecord
  <2> QED
    BY <2>1, <2>2
<1>2. ASSUME NEW s \in Sessions, NEW u \in Students, BeginCheckIn(a, s, u)
      PROVE  LeaveInv'
  <2> DEFINE f == [op |-> "checkin", session |-> s, student |-> u,
                   seen |-> Ensured(record[s][u], record[s][u]), locks |-> {}]
  <2>1. f \in Flight
    BY <1>1 DEF Flight
  <2> QED
    BY <1>2, <2>1, Looks DEF BeginCheckIn
<1>3. ASSUME NEW s \in Sessions, NEW u \in Students, BeginMark(a, s, u)
      PROVE  LeaveInv'
  <2> DEFINE f == [op |-> "mark", session |-> s, student |-> u,
                   seen |-> Ensured(record[s][u], record[s][u]), locks |-> {}]
  <2>1. f \in Flight
    BY <1>1 DEF Flight
  <2> QED
    BY <1>3, <2>1, Looks DEF BeginMark
<1>4. ASSUME NEW s \in Sessions, NEW u \in Students, BeginSave(a, s, u)
      PROVE  LeaveInv'
  <2> DEFINE f == [op |-> "save", session |-> s, student |-> u,
                   seen |-> record[s][u], locks |-> {}]
  <2>1. f \in Flight
    BY <1>1 DEF Flight
  <2> QED
    BY <1>4, <2>1, Looks DEF BeginSave
<1>5. ASSUME NEW rs \in SUBSET Requests, BeginExpire(a, rs)
      PROVE  LeaveInv'
  <2> DEFINE f == [op |-> "expire", reqs |-> rs, locks |-> {}]
  <2>1. f \in Flight
    BY DEF Flight
  <2>2. \A r \in f.reqs : request[r].status # "none"
    BY <1>5 DEF BeginExpire
  <2> QED
    BY <1>5, <2>1, <2>2, Looks DEF BeginExpire
<1>6. CASE StudentStarts(a)
  BY <1>2, <1>6, Decides DEF StudentStarts, CreateLeaveRequestHandler,
     UpdateLeaveRequestHandler, CancelMyLeaveRequestHandler, StudentCheckInHandler,
     StudentCheckInByPINHandler
<1>7. CASE StaffDecide(a)
  <2>1. \A r \in Requests : PendingSlots(r) \in SUBSET Slots /\ {} \in SUBSET Slots
    BY DEF PendingSlots
  <2>2. ASSUME BatchReviewLeaveRequests(a)
        PROVE  LeaveInv'
    BY <2>1, <2>2, TakesUp DEF BatchReviewLeaveRequests
  <2>3. ASSUME ReviewLeaveRequestHandler(a) \/ RevokeLeaveRequestHandler(a)
        PROVE  LeaveInv'
    BY <2>1, <2>3, TakesUp DEF ReviewLeaveRequestHandler, RevokeLeaveRequestHandler
  <2> QED
    BY <1>3, <1>4, <1>5, <1>7, <2>2, <2>3 DEF StaffDecide, RunLeaveRequestAutoExpire,
       UpdateAttendanceRecordHandler, BulkUpdateAttendanceRecordsHandler,
       UpdateByRecordIDHandler
<1> QED
  BY <1>6, <1>7
------------------------------------------------------------------------------
(* The last steps.                                                          *)

\* What an actor holds while it writes.
LEMMA Held ==
  ASSUME LeaveInv, NEW a \in Actors
  PROVE  /\ flight[a] \in Flight /\ FlightOK(flight[a])
         /\ \A b \in Actors \ {a} :
              /\ flight[b].op = "review" =>
                   flight[b].req \in Requests /\ flight[b].req \in flight[b].locks
              /\ flight[a].op \in {"review", "revoke"} /\ flight[b].op = "review" =>
                   flight[b].req # flight[a].req
         /\ Idle \in Flight
         /\ [flight EXCEPT ![a] = Idle] \in [Actors -> Flight]
<1>1. flight \in [Actors -> Flight] /\ Idle \in Flight
  BY DEF LeaveInv, Shapes, Idle, Flight
<1>2. \A b \in Actors : FlightOK(flight[b])
  BY DEF LeaveInv
<1>3. \A b \in Actors : flight[b].op = "review" => flight[b].req \in Requests
  BY <1>1 DEF Flight
<1>4. \A b \in Actors \ {a} : Apart(flight[a], flight[b])
  BY DEF LeaveInv
<1> QED
  BY <1>1, <1>2, <1>3, <1>4 DEF FlightOK, Apart

\* A request that is decided stays one, of the same student.
LEMMA RequestsChange ==
  ASSUME NEW row \in RequestRow, NEW status \in {"pending", "approved",
           "partially_approved", "rejected", "cancelled", "revoked", "expired"}
  PROVE  /\ [row EXCEPT !.status = status] \in RequestRow
         /\ [row EXCEPT !.status = status].student = row.student
         /\ [row EXCEPT !.status = status].status # "none"
BY DEF RequestRow

\* Cancelling is one step, on a request nobody has locked.
LEMMA Cancels ==
  ASSUME LeaveInv, NEW a \in Actors, flight[a] = Idle, NEW r \in Requests, Cancel(r)
  PROVE  LeaveInv'
<1>1. Shapes
  BY DEF LeaveInv
<1>2. request' \in [Requests -> RequestRow] /\ RequestsStay
  <2> DEFINE row == [request[r] EXCEPT !.status = "cancelled"]
  <2>1. request \in [Requests -> RequestRow] /\ request' = [request EXCEPT ![r] = row]
    BY <1>1 DEF Cancel, Shapes
  <2>2. row \in RequestRow /\ row.student = request[r].student /\ row.status # "none"
    BY <2>1, RequestsChange
  <2>3. request[r].status # "none"
    BY DEF Cancel
  <2> HIDE DEF row
  <2> QED
    BY <2>1, <2>2, <2>3 DEF RequestsStay
<1>3. /\ item' \in [Requests -> [Slots -> AnyItem]]
      /\ \A q \in Requests, k \in Slots : ClosesTo(item[q][k], item'[q][k])
      /\ \A q \in Requests \ {r} : item'[q] = item[q]
  <2>1. item \in [Requests -> [Slots -> AnyItem]] /\ item[r] \in [Slots -> AnyItem]
        /\ session \in [Sessions -> Days \cup {NoSession}]
    BY <1>1 DEF Shapes
  <2>2. "cancelled" \in Closed
    BY DEF Closed
  <2> DEFINE its == ItemsBecome(item[r], "cancelled", "pending")
  <2>3. its \in [Slots -> AnyItem] /\ \A k \in Slots : ClosesTo(item[r][k], its[k])
    BY <2>1, <2>2, ItemsClose
  <2>4. item' = [item EXCEPT ![r] = its]
    BY DEF Cancel
  <2> HIDE DEF its
  <2> QED
    BY <2>1, <2>3, <2>4 DEF ClosesTo
<1>4. flight' = [flight EXCEPT ![a] = Idle]
  BY <1>1 DEF Cancel, Shapes
<1>5. Shapes'
  BY <1>1, <1>2, <1>3 DEF Shapes, Cancel
<1>6. \A b \in Actors \ {a} :
        flight[b].op = "review" => item'[flight[b].req] = item[flight[b].req]
  BY <1>3, Held DEF Cancel, Unlocked
<1> QED
  BY <1>2, <1>3, <1>4, <1>5, <1>6, Ends

\* A review decides what is pending under its lock.
LEMMA Reviews ==
  ASSUME LeaveInv, NEW a \in Actors, Review(a)
  PROVE  LeaveInv'
<1> DEFINE f == flight[a]
           r == f.req
           u == request[r].student
           At(s) == Ensured(f.seen[s], record[s][u])
           x(k) == IF item[r][k].session \in DOMAIN f.seen
                     THEN At(item[r][k].session) ELSE NoRecord
           new(k) == CASE k \in f.ok -> ItemAfter(item[r][k], x(k))
                       [] k \in PendingSlots(r) \ f.ok ->
                            [item[r][k] EXCEPT !.status = "rejected"]
                       [] OTHER -> item[r][k]
<1>1. /\ Shapes
      /\ session \in [Sessions -> Days \cup {NoSession}]
      /\ record \in [Sessions -> [Students -> AnyRecord]]
      /\ item \in [Requests -> [Slots -> AnyItem]]
      /\ request \in [Requests -> RequestRow]
      /\ flight \in [Actors -> Flight]
  BY DEF LeaveInv, Shapes
<1>2. f.op = "review"
  BY DEF Review
<1>3. /\ r \in Requests /\ f.ok \subseteq PendingSlots(r)
      /\ f.seen \in SeenRecords /\ request[r].status # "none"
  BY <1>2, Held DEF Flight, FlightOK
<1>4. u \in Students
  BY <1>1, <1>3 DEF RequestRow
<1>5. \A s \in DOMAIN f.seen : s \in Sessions /\ f.seen[s] \in AnyRecord
  <2>1. PICK ss \in SUBSET Sessions : f.seen \in [ss -> AnyRecord]
    BY <1>3 DEF SeenRecords
  <2> QED
    BY <2>1
<1>6. \A s \in DOMAIN f.seen : At(s) \in AnyRecord
  BY <1>1, <1>4, <1>5, EnsuredIsRecord
<1>7. \A k \in Slots : x(k) \in AnyRecord
  <2>1. NoRecord \in AnyRecord
    BY DEF NoRecord, AnyRecord
  <2> QED
    BY <1>6, <2>1
<1>8. \A k \in Slots : new(k) \in AnyItem /\ ClosesTo(item[r][k], new(k))
  <2>1. "rejected" \in Closed
    BY DEF Closed
  <2>2. \A i \in AnyItem, y \in AnyRecord :
          /\ ItemAfter(i, y) \in AnyItem
          /\ ItemAfter(i, y).session \in {i.session, NoSession}
          /\ [i EXCEPT !.status = "rejected"] \in AnyItem
          /\ [i EXCEPT !.status = "rejected"].status \notin OpenItem
    BY <1>1, <2>1, ItemValues
  <2>3. \A k \in PendingSlots(r) : item[r][k].status \in OpenItem
    BY DEF PendingSlots, OpenItem
  <2>4. \A k \in Slots : item[r][k] \in AnyItem
    BY <1>1, <1>3
  <2> HIDE DEF x
  <2>5. ASSUME NEW k \in Slots, k \in f.ok
        PROVE  new(k) \in AnyItem /\ ClosesTo(item[r][k], new(k))
    <3>1. new(k) = ItemAfter(item[r][k], x(k))
      BY <2>5
    <3> QED
      BY <1>3, <1>7, <2>2, <2>3, <2>4, <2>5, <3>1 DEF ClosesTo
  <2>6. ASSUME NEW k \in Slots, k \notin f.ok, k \in PendingSlots(r)
        PROVE  new(k) \in AnyItem /\ ClosesTo(item[r][k], new(k))
    <3>1. new(k) = [item[r][k] EXCEPT !.status = "rejected"]
      BY <2>6
    <3>2. /\ [item[r][k] EXCEPT !.status = "rejected"] \in AnyItem
          /\ [item[r][k] EXCEPT !.status = "rejected"].status \notin OpenItem
      BY <2>1, <2>4, <1>1, <1>7, ItemValues
    <3> HIDE DEF new
    <3> QED
      BY <3>1, <3>2 DEF ClosesTo
  <2>7. ASSUME NEW k \in Slots, k \notin PendingSlots(r)
        PROVE  new(k) \in AnyItem /\ ClosesTo(item[r][k], new(k))
    <3>1. new(k) = item[r][k]
      BY <1>3, <2>7
    <3> QED
      BY <2>4, <3>1 DEF ClosesTo
  <2> QED
    BY <2>5, <2>6, <2>7
<1>9. item' = [item EXCEPT ![r] = [k \in Slots |-> new(k)]]
  BY <1>1, <1>3 DEF Review
<1> HIDE DEF new, x
<1>10. /\ item' \in [Requests -> [Slots -> AnyItem]]
       /\ \A q \in Requests, k \in Slots : ClosesTo(item[q][k], item'[q][k])
       /\ \A q \in Requests \ {r} : item'[q] = item[q]
  BY <1>1, <1>3, <1>8, <1>9 DEF ClosesTo
<1>11. request' \in [Requests -> RequestRow] /\ RequestsStay
  <2> DEFINE v == Verdict(f.ok, PendingSlots(r))
             row == [request[r] EXCEPT !.status = v]
  <2>1. v \in {"rejected", "approved", "partially_approved"}
    BY DEF Verdict
  <2>2. request' = [request EXCEPT ![r] = row]
    BY <1>1, <1>3 DEF Review
  <2> HIDE DEF v
  <2>3. row \in RequestRow /\ row.student = request[r].student /\ row.status # "none"
    <3>1. request[r] \in RequestRow
      BY <1>1, <1>3
    <3>2. \A y \in RequestRow : /\ [y EXCEPT !.status = v] \in RequestRow
                               /\ [y EXCEPT !.status = v].student = y.student
                               /\ [y EXCEPT !.status = v].status # "none"
      BY <2>1 DEF RequestRow
    <3> QED
      BY <3>1, <3>2
  <2> HIDE DEF row
  <2> QED
    BY <1>1, <1>3, <2>2, <2>3 DEF RequestsStay
<1>12. record' \in [Sessions -> [Students -> AnyRecord]]
  <2> DEFINE row(s) == IF s \in DOMAIN f.seen /\ session[s] # NoSession
               THEN [record[s] EXCEPT ![u] = RowAfter(record[s][u], At(s), r)] ELSE record[s]
  <2>1. \A s \in Sessions : row(s) \in [Students -> AnyRecord]
    <3>1. \A s \in DOMAIN f.seen : RowAfter(record[s][u], At(s), r) \in AnyRecord
      <4>1. "none" \in Status
        BY DEF Status
      <4>2. \A s \in DOMAIN f.seen : At(s) \in AnyRecord /\ record[s][u] \in AnyRecord
        BY <1>1, <1>4, <1>5, <1>6
      <4> HIDE DEF At
      <4> QED
        BY <1>3, <4>1, <4>2, RowValues
    <3> HIDE DEF At
    <3> QED
      BY <1>1, <3>1
  <2>2. record' = [s \in Sessions |-> row(s)]
    BY <1>1, <1>4 DEF Review
  <2> HIDE DEF row
  <2> QED
    BY <2>1, <2>2
<1>13. flight' = [flight EXCEPT ![a] = Idle] /\ UNCHANGED session
  BY DEF Review
<1>14. Shapes'
  BY <1>1, <1>10, <1>11, <1>12, <1>13, Held DEF Shapes
<1>15. \A b \in Actors \ {a} :
         flight[b].op = "review" => item'[flight[b].req] = item[flight[b].req]
  BY <1>2, <1>10, Held
<1> QED
  BY <1>10, <1>11, <1>13, <1>14, <1>15, Ends

\* A revocation closes what was granted, under the request's lock.
LEMMA Revokes ==
  ASSUME LeaveInv, NEW a \in Actors, Revoke(a)
  PROVE  LeaveInv'
<1> DEFINE f == flight[a]
           r == f.req
           u == request[r].student
           half == ItemsBecome(item[r], "revoked", "applied")
           its == ItemsBecome(half, "revoked", "awaiting_session")
<1>1. /\ Shapes
      /\ session \in [Sessions -> Days \cup {NoSession}]
      /\ record \in [Sessions -> [Students -> AnyRecord]]
      /\ item \in [Requests -> [Slots -> AnyItem]]
      /\ request \in [Requests -> RequestRow]
  BY DEF LeaveInv, Shapes
<1>2. f.op = "revoke"
  BY DEF Revoke
<1>3. r \in Requests /\ request[r].status # "none"
  BY <1>2, Held DEF Flight, FlightOK
<1>4. u \in Students
  BY <1>1, <1>3 DEF RequestRow
<1>5. its \in [Slots -> AnyItem] /\ \A k \in Slots : ClosesTo(item[r][k], its[k])
  <2>1. "revoked" \in Closed
    BY DEF Closed
  <2>2. half \in [Slots -> AnyItem] /\ \A k \in Slots : ClosesTo(item[r][k], half[k])
    BY <1>1, <1>3, <2>1, ItemsClose
  <2>3. its \in [Slots -> AnyItem] /\ \A k \in Slots : ClosesTo(half[k], its[k])
    BY <1>1, <2>1, <2>2, ItemsClose
  <2> HIDE DEF half, its
  <2> QED
    BY <2>2, <2>3 DEF ClosesTo
<1>6. item' = [item EXCEPT ![r] = its]
  BY DEF Revoke
<1> HIDE DEF its
<1>7. /\ item' \in [Requests -> [Slots -> AnyItem]]
      /\ \A q \in Requests, k \in Slots : ClosesTo(item[q][k], item'[q][k])
      /\ \A q \in Requests \ {r} : item'[q] = item[q]
  BY <1>1, <1>3, <1>5, <1>6 DEF ClosesTo
<1>8. request' \in [Requests -> RequestRow] /\ RequestsStay
  <2> DEFINE row == [request[r] EXCEPT !.status = "revoked"]
  <2>1. request' = [request EXCEPT ![r] = row]
    BY <1>1, <1>3 DEF Revoke
  <2>2. row \in RequestRow /\ row.student = request[r].student /\ row.status # "none"
    BY <1>1, <1>3, RequestsChange
  <2> HIDE DEF row
  <2> QED
    BY <1>1, <1>3, <2>1, <2>2 DEF RequestsStay
<1>9. record' \in [Sessions -> [Students -> AnyRecord]]
  <2> DEFINE k(s) == CHOOSE k \in RestoredBy(f, s) : TRUE
             row(s) == IF RestoredBy(f, s) = {} \/ ~There(record[s][u]) THEN record[s]
               ELSE [record[s] EXCEPT ![u] = Unleft(record[s][u], item[r][k(s)].previous)]
  <2>1. \A s \in Sessions : row(s) \in [Students -> AnyRecord]
    <3>1. \A s \in Sessions : RestoredBy(f, s) # {} => k(s) \in Slots
      BY DEF RestoredBy
    <3>2. \A i \in AnyItem : i.previous \in Status
      BY DEF AnyItem, Status
    <3>3. \A s \in Sessions : RestoredBy(f, s) # {} => item[r][k(s)].previous \in Status
      BY <1>1, <1>3, <3>1, <3>2
    <3> HIDE DEF k
    <3>4. \A s \in Sessions : RestoredBy(f, s) # {} =>
            Unleft(record[s][u], item[r][k(s)].previous) \in AnyRecord
      <4>1. \A x \in AnyRecord, status \in Status : Unleft(x, status) \in AnyRecord
        BY <1>3, RowValues
      <4>2. \A s \in Sessions : record[s][u] \in AnyRecord
        BY <1>1, <1>4
      <4> QED
        BY <3>3, <4>1, <4>2
    <3> QED
      BY <1>1, <3>4
  <2>2. record' = [s \in Sessions |-> row(s)]
    BY <1>1, <1>4 DEF Revoke
  <2> HIDE DEF row
  <2> QED
    BY <2>1, <2>2
<1>10. flight' = [flight EXCEPT ![a] = Idle] /\ UNCHANGED session
  BY DEF Revoke
<1>11. Shapes'
  BY <1>1, <1>7, <1>8, <1>9, <1>10, Held DEF Shapes
<1>12. \A b \in Actors \ {a} :
         flight[b].op = "review" => item'[flight[b].req] = item[flight[b].req]
  BY <1>2, <1>7, Held
<1> QED
  BY <1>7, <1>8, <1>10, <1>11, <1>12, Ends

\* Expiry waits for whoever has locked a request, and cancels what is pending.
LEMMA Expires ==
  ASSUME LeaveInv, NEW a \in Actors, Expire(a)
  PROVE  LeaveInv'
<1> DEFINE rs == flight[a].reqs
           row(r) == [request[r] EXCEPT !.status = "expired"]
           its(r) == ItemsBecome(item[r], "cancelled", "pending")
<1>1. /\ Shapes
      /\ session \in [Sessions -> Days \cup {NoSession}]
      /\ item \in [Requests -> [Slots -> AnyItem]]
      /\ request \in [Requests -> RequestRow]
  BY DEF LeaveInv, Shapes
<1>2. rs \subseteq Requests /\ \A r \in rs : request[r].status # "none"
  BY Held DEF Expire, Flight, FlightOK
<1>3. \A r \in Requests :
        row(r) \in RequestRow /\ row(r).student = request[r].student /\ row(r).status # "none"
  BY <1>1, RequestsChange
<1>4. \A r \in Requests :
        its(r) \in [Slots -> AnyItem] /\ \A k \in Slots : ClosesTo(item[r][k], its(r)[k])
  <2>1. "cancelled" \in Closed
    BY DEF Closed
  <2> QED
    BY <1>1, <2>1, ItemsClose
<1>5. /\ request' = [r \in Requests |-> IF r \in rs THEN row(r) ELSE request[r]]
      /\ item' = [r \in Requests |-> IF r \in rs THEN its(r) ELSE item[r]]
      /\ flight' = [flight EXCEPT ![a] = Idle]
      /\ UNCHANGED <<session, record>> /\ Unlocked(rs)
  BY DEF Expire, EndedBy, PendingItemsCancelled
<1> HIDE DEF row, its, rs
<1>6. request' \in [Requests -> RequestRow] /\ RequestsStay
  BY <1>1, <1>2, <1>3, <1>5 DEF RequestsStay
<1>7. /\ item' \in [Requests -> [Slots -> AnyItem]]
      /\ \A q \in Requests, k \in Slots : ClosesTo(item[q][k], item'[q][k])
      /\ \A q \in Requests \ rs : item'[q] = item[q]
  BY <1>1, <1>4, <1>5 DEF ClosesTo
<1>8. Shapes'
  BY <1>1, <1>5, <1>6, <1>7, Held DEF Shapes
<1>9. \A b \in Actors \ {a} :
        flight[b].op = "review" => item'[flight[b].req] = item[flight[b].req]
  BY <1>5, <1>7, Held DEF Unlocked
<1> QED
  BY <1>5, <1>6, <1>7, <1>8, <1>9, Ends

\* A check-in or a correction writes one record and the items that name it.
LEMMA Writes ==
  ASSUME LeaveInv, NEW a \in Actors, flight' = [flight EXCEPT ![a] = Idle],
         record' \in [Sessions -> [Students -> AnyRecord]], UNCHANGED <<session, request>>,
         NEW s, NEW u, Replaces(flight[a], s, u) \/ UNCHANGED item
  PROVE  LeaveInv'
<1>1. Shapes /\ item \in [Requests -> [Slots -> AnyItem]]
  BY DEF LeaveInv, Shapes
<1>2. /\ item' \in [Requests -> [Slots -> AnyItem]]
      /\ \A r \in Requests, k \in Slots : ClosesTo(item[r][k], item'[r][k])
      /\ \A b \in Actors, r \in Requests : r \in flight[b].locks => item'[r] = item[r]
  <2>1. CASE Replaces(flight[a], s, u)
    BY <1>1, <2>1, Held, ReplacesCloses
  <2>2. CASE UNCHANGED item
    BY <1>1, <2>2 DEF ClosesTo
  <2> QED
    BY <2>1, <2>2
<1>3. RequestsStay
  BY DEF RequestsStay
<1>4. Shapes'
  BY <1>1, <1>2, Held DEF Shapes
<1>5. \A b \in Actors \ {a} :
        flight[b].op = "review" => item'[flight[b].req] = item[flight[b].req]
  BY <1>2, Held
<1> QED
  BY <1>2, <1>3, <1>4, <1>5, Ends

\* The three that write a record.
LEMMA Corrects ==
  ASSUME LeaveInv, NEW a \in Actors,
         \/ \E status \in Attended : CheckIn(a, status)
         \/ \E status \in Status : Save(a, status) \/ \E fills \in BOOLEAN : Mark(a, status, fills)
  PROVE  LeaveInv'
<1> DEFINE f == flight[a]
           s == f.session
           u == f.student
           x == Ensured(record[s][u], record[s][u])
<1>1. record \in [Sessions -> [Students -> AnyRecord]]
  BY DEF LeaveInv, Shapes
<1>2. f.op \in {"checkin", "save", "mark"}
  BY DEF CheckIn, Save, Mark
<1>3. s \in Sessions /\ u \in Students /\ f.seen \in AnyRecord
  BY <1>2, Held DEF Flight
<1>4. x \in AnyRecord
  BY <1>1, <1>3, EnsuredIsRecord
<1>5. \A y \in AnyRecord, status \in Status :
        /\ Marked(y, status) \in AnyRecord
        /\ [y EXCEPT !.status = status, !.source = "checkin", !.timed = TRUE] \in AnyRecord
        /\ [y EXCEPT !.status = status, !.source = "manual"] \in AnyRecord
  <2>1. ASSUME NEW y \in AnyRecord, NEW status \in Status
        PROVE  Marked(y, status) \in AnyRecord
    <3>1. (status # "absent") \in BOOLEAN
      OBVIOUS
    <3> QED
      BY <3>1 DEF Marked, AnyRecord, Status
  <2>2. ASSUME NEW y \in AnyRecord, NEW status \in Status
        PROVE  [y EXCEPT !.status = status, !.source = "checkin", !.timed = TRUE] \in AnyRecord
    BY DEF AnyRecord, Status
  <2>3. ASSUME NEW y \in AnyRecord, NEW status \in Status
        PROVE  [y EXCEPT !.status = status, !.source = "manual"] \in AnyRecord
    BY DEF AnyRecord, Status
  <2> QED
    BY <2>1, <2>2, <2>3
<1>6. /\ flight' = [flight EXCEPT ![a] = Idle] /\ UNCHANGED <<session, request>>
      /\ Replaces(f, s, u) \/ UNCHANGED item
  BY DEF CheckIn, Save, Mark
<1>7. record' \in [Sessions -> [Students -> AnyRecord]]
  <2>1. ASSUME NEW status \in Attended, CheckIn(a, status)
        PROVE  record' \in [Sessions -> [Students -> AnyRecord]]
    <3> DEFINE y == [x EXCEPT !.status = status, !.source = "checkin", !.timed = TRUE]
    <3>1. y \in AnyRecord
      BY <1>4, <1>5 DEF Attended, Status
    <3>2. record' = [record EXCEPT ![s][u] = y] \/ record' = record
      BY <2>1 DEF CheckIn
    <3> HIDE DEF y
    <3> QED
      BY <1>1, <1>3, <3>1, <3>2
  <2>2. ASSUME NEW status \in Status, Save(a, status)
        PROVE  record' \in [Sessions -> [Students -> AnyRecord]]
    <3> DEFINE y == [f.seen EXCEPT !.status = status, !.source = "manual"]
    <3>1. y \in AnyRecord
      BY <1>3, <1>5
    <3>2. record' = [record EXCEPT ![s][u] = y] \/ record' = record
      BY <2>2 DEF Save
    <3> HIDE DEF y
    <3> QED
      BY <1>1, <1>3, <3>1, <3>2
  <2>3. ASSUME NEW status \in Status, NEW fills \in BOOLEAN, Mark(a, status, fills)
        PROVE  record' \in [Sessions -> [Students -> AnyRecord]]
    <3> DEFINE y == Marked(x, status)
               all == Backfilled(s, fills)
    <3>1. y \in AnyRecord
      BY <1>4, <1>5
    <3>2. all \in [Students -> AnyRecord]
      <4>1. \A v \in Students :
              record[s][v] \in AnyRecord /\ Ensured(record[s][v], record[s][v]) \in AnyRecord
        BY <1>1, <1>3, EnsuredIsRecord
      <4> QED
        BY <4>1 DEF Backfilled
    <3>3. record' = [record EXCEPT ![s] = [all EXCEPT ![u] = y]] \/ record' = record
      BY <2>3 DEF Mark
    <3> HIDE DEF y, all
    <3> QED
      BY <1>1, <1>3, <3>1, <3>2, <3>3
  <2> QED
    BY <2>1, <2>2, <2>3
<1> QED
  BY <1>6, <1>7, Writes

\* A failed step forgets.
LEMMA Fails ==
  ASSUME LeaveInv, NEW a \in Actors, Fail(a)
  PROVE  LeaveInv'
<1>1. flight[a].op \notin {"bind", "binding"}
  BY Held DEF Flight
<1>2. flight' = [flight EXCEPT ![a] = Idle] /\ UNCHANGED rows
  BY <1>1 DEF Fail
<1>3. Shapes' /\ RequestsStay
  BY <1>2, Held DEF LeaveInv, Shapes, rows, RequestsStay
<1>4. \A r \in Requests, k \in Slots : ClosesTo(item[r][k], item'[r][k])
  BY <1>2 DEF ClosesTo, rows, LeaveInv, Shapes
<1> QED
  BY <1>2, <1>3, <1>4, Ends DEF rows
------------------------------------------------------------------------------
(* The theorems.                                                            *)

LEMMA InitiallyFree ==
  ASSUME Init
  PROVE  LeaveInv
<1>1. NoItem \in AnyItem /\ NoItem.status = "none"
  BY DEF NoItem, AnyItem
<1>2. Idle \in Flight
  BY DEF Idle, Flight
<1>3. NoRecord \in AnyRecord /\ Blank(NoRecord) \in AnyRecord
  <2>1. NoRecord \in AnyRecord
    BY DEF NoRecord, AnyRecord
  <2>2. NoRecord.id + 1 \in Nat
    BY <2>1 DEF AnyRecord
  <2> QED
    BY <2>1, <2>2 DEF Blank, AnyRecord
<1>4. request \in [Requests -> RequestRow]
  <2>1. \A u \in Students :
          [status |-> "none", student |-> u, removed |-> FALSE, edition |-> 0] \in RequestRow
    BY DEF RequestRow
  <2> QED
    BY <2>1 DEF Init
<1>5. Shapes
  BY <1>1, <1>2, <1>3, <1>4 DEF Init, Shapes
<1>6. \A r \in Requests, k \in Slots : item[r][k].status \notin OpenItem
  BY <1>1 DEF Init, OpenItem
<1>7. \A a \in Actors : FlightOK(flight[a])
  BY DEF Init, FlightOK, Idle, Stores
<1>8. \A a, b \in Actors : Apart(flight[a], flight[b])
  BY DEF Init, Apart, Idle, Stores
<1> QED
  BY <1>5, <1>6, <1>7, <1>8 DEF LeaveInv, OneOpenItem, MissingIsEmpty

LEMMA DecisionsKeep ==
  ASSUME LeaveInv, NEW a \in Actors,
         StudentStarts(a) \/ StaffDecide(a) \/ Step(a) \/ Fail(a)
  PROVE  LeaveInv'
<1>1. CASE StudentStarts(a) \/ StaffDecide(a)
  BY <1>1, Begun, Cancels
<1>2. CASE Step(a)
  <2>1. flight[a].op \notin {"remove", "retime", "bind", "binding", "reapply"}
    BY Held DEF Flight
  <2>2. ~Remove(a) /\ ~BeginBind(a) /\ ~BindLeaveItems(a) /\ ~Reapply(a)
        /\ \A d \in Days, status \in Attended \cup {"absent"} : ~Retime(a, d, status)
    BY <2>1 DEF Remove, BeginBind, BindLeaveItems, Reapply, Retime
  <2> QED
    BY <1>2, <2>2, Inserts, Reviews, Revokes, Expires, Corrects DEF Step, Status
<1>3. CASE Fail(a)
  BY <1>3, Fails
<1> QED
  BY <1>1, <1>2, <1>3

LEMMA StutterKeeps ==
  ASSUME LeaveInv, UNCHANGED vars
  PROVE  LeaveInv'
<1>1. \A g : FlightOK(g)' <=> FlightOK(g)
  BY DEF vars, FlightOK, NewIsFree, PendingSlots, Stores
<1>2. \A g, h : Apart(g, h)' <=> Apart(g, h)
  BY DEF vars, Apart, Stores
<1> QED
  BY <1>1, <1>2 DEF vars, LeaveInv, Shapes, OneOpenItem, MissingIsEmpty

\* No student has two open items for one session, whatever submissions, edits,
\* reviews, revocations, expiry, check-ins and corrections do at once, and where
\* they fail (buildLeaveRequestItems, applyLeaveToRecord).
THEOREM OneLeavePerSession == DecisionsSpec => []OneOpenItem
<1>1. Init => LeaveInv
  BY InitiallyFree
<1>2. LeaveInv /\ [DecisionsNext]_vars => LeaveInv'
  BY DecisionsKeep, StutterKeeps DEF DecisionsNext
<1>3. LeaveInv => OneOpenItem
  BY DEF LeaveInv
<1> QED
  BY <1>1, <1>2, <1>3, PTL DEF DecisionsSpec

\* The invariant of the instances: it holds where two actors may overlap.
DecisionsInv == scenario = "decisions" => LeaveInv

\* TLC's instances start with one session or with all of them; while requests and
\* decisions overlap, no student has two open items for one session in any.
THEOREM NoDoubleBookings == MCSpec => []NoDoubleBooking
<1>1. MCInit => DecisionsInv
  BY InitiallyFree DEF MCInit, DecisionsInv
<1>2. DecisionsInv /\ [MCNext]_leaveVars => DecisionsInv'
  <2>1. CASE MCNext
    BY <2>1, DecisionsKeep DEF MCNext, Begins, Serial, DecisionsInv
  <2>2. CASE UNCHANGED leaveVars
    BY <2>2, StutterKeeps DEF leaveVars, DecisionsInv
  <2> QED
    BY <2>1, <2>2
<1>3. DecisionsInv => NoDoubleBooking
  BY DEF DecisionsInv, NoDoubleBooking, LeaveInv
<1> QED
  BY <1>1, <1>2, <1>3, PTL DEF MCSpec
=============================================================================
