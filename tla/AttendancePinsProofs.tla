------------------------- MODULE AttendancePinsProofs -------------------------
(***************************************************************************)
(* Theorems about AttendancePins, for every number of sessions, PINs and   *)
(* requests in flight:                                                     *)
(*   PinTypes          rows, Redis and requests stay well formed           *)
(*   NeverShownNeverIn nobody checks in with a PIN the session never had   *)
(*   NothingElseReopens a closed session is opened by a start, by an edit  *)
(*                     or from a row read before it was closed             *)
(* and about the histories of MCAttendancePins in which one operation      *)
(* follows another:                                                        *)
(*   AgreesInTurn      the PIN that is shown is the PIN that checks in     *)
(* That admitted PINs were shown is not inductive: a check-in looks at the *)
(* row, rows are written from the state in Redis and from what a request   *)
(* has read, and states from one another.  The invariant says of each of   *)
(* these places that the PIN in it has been shown.  Nor is the agreement   *)
(* of row and state: what an operation has read must still hold of its     *)
(* session when it writes (Coherent), of what the worker has listed too.   *)
(***************************************************************************)
EXTENDS MCAttendancePins, TLAPS

\* The hashes of a row are of PINs that have been shown.
HashesShown(r, pins) ==
  r.current \in pins \cup {NoPin} /\ r.previous \in pins \cup {NoPin}

RowsShown == \A s \in Sessions : HashesShown(row[s], shown[s])

StateShown(st, pins) == st # NoState => st.current \in pins

StatesShown == \A s \in Sessions : StateShown(state[s], shown[s])

\* The steps that write back, or go on from, the state they remember.
Carrying == {"sync", "reconcile", "store", "grace"}

\* It will write a row back.
ToSave(q) == "save" \in {q.next, q.then}

\* What a request remembers of a state, and the row an edit will write back.
RequestShown(q, history) ==
  /\ q.next \in Carrying => q.state \in State /\ q.state.current \in history[q.on]
  /\ q.next = "grace" => q.state.mode = "rotating" /\ q.pin \in Pins
  /\ ToSave(q) => /\ HashesShown(q.row, history[q.on])
                  /\ HashesShown(q.synced, history[q.on])
  /\ q.next = "verify" => q.pin \in Pins

RequestsShown == \A q \in Actors : RequestShown(req[q], shown)

PinsInv ==
  TablesOK /\ RowsShown /\ StatesShown /\ RequestsShown /\ AdmittedWasShown

\* A PIN once shown stays in the history.
Grows == /\ shown' \in [Sessions -> SUBSET Pins]
         /\ \A s \in Sessions : shown[s] \subseteq shown'[s]
-----------------------------------------------------------------------------
(* The values that steps write.                                             *)

\* Nothing remembered is a request.
LEMMA NothingRead ==
  /\ NoRow \in Row /\ NoRow.current = NoPin /\ NoRow.previous = NoPin
  /\ NoRequest \in Request /\ NoRequest.state = NoState
  /\ NoRequest.next = "none" /\ NoRequest.then = "none"
  /\ NoTick \in Tick
<1>1. /\ NoRow \in Row /\ NoRow.current = NoPin /\ NoRow.previous = NoPin
  BY DEF NoRow, Row, MaybePin, Modes
<1>2. (CHOOSE s \in Sessions : TRUE) \in Sessions
  BY PinsAssumption
<1>3. /\ NoRequest \in Request /\ NoRequest.state = NoState
      /\ NoRequest.next = "none" /\ NoRequest.then = "none"
  BY <1>1, <1>2 DEF NoRequest, Request, MaybePin
<1>4. NoTick \in Tick
  BY <1>1 DEF NoTick, Tick
<1> QED
  BY <1>1, <1>3, <1>4

\* Looking at a session leaves its hashes alone.
LEMMA ViewKeepsHashes ==
  ASSUME TablesOK, NEW s \in Sessions, NEW after \in ViewsOf(s)
  PROVE  /\ after \in Row
         /\ after.current = row[s].current /\ after.previous = row[s].previous
<1>1. row[s] \in Row
  BY DEF TablesOK
<1>2. PICK pin \in Pins, due \in BOOLEAN : after = Viewed(row[s], pin, due)
  BY DEF ViewsOf, UniquePins
<1>3. \A x \in Row : /\ ViewedDraft(x, pin) \in Row
                     /\ ViewedDraft(x, pin).current = x.current
                     /\ ViewedDraft(x, pin).previous = x.previous
  <2>1. TAKE x \in Row
  <2> DEFINE code == CASE x.mode = "rotating" -> NoPin
                       [] x.code = NoPin -> pin
                       [] OTHER -> x.code
  <2>2. code \in MaybePin
    BY <1>2 DEF Row, MaybePin
  <2>3. ViewedDraft(x, pin) = [x EXCEPT !.status = "draft", !.grace = FALSE, !.code = code]
    BY DEF ViewedDraft
  <2> HIDE DEF code
  <2> QED
    BY <2>2, <2>3 DEF Row
<1>4. \A x \in Row : /\ ViewedActive(x, pin, due) \in Row
                     /\ ViewedActive(x, pin, due).current = x.current
                     /\ ViewedActive(x, pin, due).previous = x.previous
  <2>1. TAKE x \in Row
  <2> DEFINE renewed == x.code = NoPin \/ (x.auto /\ due)
             code == IF renewed THEN pin ELSE x.code
             grace == x.auto /\ (IF renewed THEN x.code # NoPin ELSE x.grace)
  <2>2. code \in MaybePin /\ grace \in BOOLEAN
    BY <1>2 DEF Row, MaybePin
  <2>3. ViewedActive(x, pin, due) = [x EXCEPT !.status = "active", !.code = code, !.grace = grace]
    BY DEF ViewedActive
  <2> HIDE DEF code, grace
  <2> QED
    BY <2>2, <2>3 DEF Row
<1>5. \A x \in Row : [x EXCEPT !.status = "closed", !.code = NoPin, !.grace = FALSE] \in Row
  BY DEF Row, MaybePin
<1>6. \A x \in Row : /\ [x EXCEPT !.status = "closed", !.code = NoPin, !.grace = FALSE].current = x.current
                     /\ [x EXCEPT !.status = "closed", !.code = NoPin, !.grace = FALSE].previous = x.previous
  BY DEF Row
<1> QED
  BY <1>1, <1>2, <1>3, <1>4, <1>5, <1>6 DEF Viewed

\* A look at a session leaves its current PIN, and opens nothing that is over.
LEMMA ViewsByTheClock ==
  ASSUME TablesOK, NEW s \in Sessions, NEW after \in ViewsOf(s)
  PROVE  /\ after \in Row /\ after.current = row[s].current /\ after.over = row[s].over
         /\ after.status \in {"draft", "active", "closed"}
         /\ after.status = "closed" => row[s].over
         /\ after.status = "active" => ~ row[s].over
<1>1. row[s] \in Row /\ after \in Row /\ after.current = row[s].current
  BY ViewKeepsHashes DEF TablesOK
<1>2. PICK pin \in Pins, due \in BOOLEAN : after = Viewed(row[s], pin, due)
  BY DEF ViewsOf, UniquePins
<1>3. \A x \in Row : ViewedDraft(x, pin).status = "draft" /\ ViewedDraft(x, pin).over = x.over
  <2>1. TAKE x \in Row
  <2> DEFINE code == CASE x.mode = "rotating" -> NoPin
                       [] x.mode = "static" /\ x.code = NoPin -> pin
                       [] OTHER -> x.code
  <2>2. ViewedDraft(x, pin) = [x EXCEPT !.status = "draft", !.grace = FALSE, !.code = code]
    BY DEF ViewedDraft
  <2> HIDE DEF code
  <2> QED BY <2>2 DEF Row
<1>4. \A x \in Row : ViewedActive(x, pin, due).status = "active" /\ ViewedActive(x, pin, due).over = x.over
  <2>1. TAKE x \in Row
  <2> DEFINE renewed == x.code = NoPin \/ (x.auto /\ due)
             code == IF renewed THEN pin ELSE x.code
             grace == x.auto /\ (IF renewed THEN x.code # NoPin ELSE x.grace)
  <2>2. ViewedActive(x, pin, due) = [x EXCEPT !.status = "active", !.code = code, !.grace = grace]
    BY DEF ViewedActive
  <2> HIDE DEF code, grace
  <2> QED BY <2>2 DEF Row
<1>5. \A x \in Row : /\ [x EXCEPT !.status = "closed", !.code = NoPin, !.grace = FALSE].status = "closed"
                     /\ [x EXCEPT !.status = "closed", !.code = NoPin, !.grace = FALSE].over = x.over
  BY DEF Row
<1>6. CASE ComputeSessionStatus(row[s]) = "draft"
  BY <1>1, <1>2, <1>3, <1>6 DEF Viewed
<1>7. CASE ComputeSessionStatus(row[s]) = "active"
  BY <1>1, <1>2, <1>4, <1>7 DEF Viewed, ComputeSessionStatus
<1>8. CASE ComputeSessionStatus(row[s]) = "closed"
  BY <1>1, <1>2, <1>5, <1>8 DEF Viewed, ComputeSessionStatus
<1> QED BY <1>6, <1>7, <1>8 DEF ComputeSessionStatus

\* The PINs a session is built with are PINs; only the next one may be missing.
LEMMA PinsToBuildWith ==
  ASSUME TablesOK, NEW r \in Row, NEW first \in FirstPins(r, key), NEW next \in NextPins(r, key, first)
  PROVE  first \in Pins /\ next \in MaybePin /\ (ModeOf(r) = "rotating" => next \in Pins)
BY DEF FirstPins, NextPins, Unreserved, MaybePin, Row

\* A session that is built shows its first PIN, in the row and in the state.
LEMMA BuiltType ==
  ASSUME NEW r \in Row, NEW seen \in Row, NEW first \in Pins, NEW next \in MaybePin,
         ModeOf(seen) = "rotating" => next \in Pins
  PROVE  /\ Built(r, ModeOf(seen), first) \in Row
         /\ Built(r, ModeOf(seen), first).current = first
         /\ Built(r, ModeOf(seen), first).previous = NoPin
         /\ FreshState(seen, first, next) \in State
         /\ FreshState(seen, first, next).current = first
<1> DEFINE mode == ModeOf(seen)
           auto == (mode = "rotating")
           expiry == IF r.over THEN "own" ELSE "end"
<1>1. /\ mode \in Modes /\ auto \in BOOLEAN /\ expiry \in {"none", "end", "own", "past"}
      /\ mode = "rotating" => next \in Pins
  BY DEF ModeOf, Modes
<1>2. Built(r, mode, first) =
        [r EXCEPT !.status = "active", !.mode = mode, !.auto = auto, !.code = NoPin,
                  !.current = first, !.previous = NoPin, !.grace = FALSE, !.expiry = expiry]
  BY DEF Built
<1>3. FreshState(seen, first, next) =
        [mode |-> mode, current |-> first, next |-> next, previous |-> NoPin]
  BY DEF FreshState
<1> HIDE DEF mode, auto, expiry
<1>4. /\ Built(r, mode, first) \in Row
      /\ Built(r, mode, first).current = first
      /\ Built(r, mode, first).previous = NoPin
  BY <1>1, <1>2 DEF Row, MaybePin
<1>5. FreshState(seen, first, next) \in State /\ FreshState(seen, first, next).current = first
  BY <1>1, <1>3 DEF State, MaybePin
<1> QED
  BY <1>4, <1>5 DEF mode

\* The row a handler has when the session was built for it.
LEMMA StoredType ==
  ASSUME NEW r \in Row, NEW st \in State
  PROVE  LET built == [Built(r, st.mode, st.current) EXCEPT !.code = st.current]
         IN  /\ built \in Row /\ built.current = st.current /\ built.previous = NoPin
             /\ built.status = "active"
<1> DEFINE mode == st.mode
           first == st.current
           auto == (mode = "rotating")
           expiry == IF r.over THEN "own" ELSE "end"
<1>1. /\ mode \in Modes /\ first \in Pins /\ auto \in BOOLEAN
      /\ expiry \in {"none", "end", "own", "past"}
  BY DEF State
<1>2. Built(r, mode, first) =
        [r EXCEPT !.status = "active", !.mode = mode, !.auto = auto, !.code = NoPin,
                  !.current = first, !.previous = NoPin, !.grace = FALSE, !.expiry = expiry]
  BY DEF Built
<1> HIDE DEF mode, first, auto, expiry
<1> DEFINE built == [Built(r, mode, first) EXCEPT !.code = first]
<1>3. built \in Row /\ built.current = first /\ built.previous = NoPin /\ built.status = "active"
  BY <1>1, <1>2 DEF Row, MaybePin
<1> QED
  BY <1>3 DEF mode, first

\* What an edit or a rotation makes of a row or a state, and the listed row.
LEMMA EditedType ==
  ASSUME NEW r \in Row, NEW auto \in BOOLEAN, NEW begun \in BOOLEAN, NEW over \in BOOLEAN,
         NEW code \in MaybePin
  PROVE  /\ Edited(r, auto, code, begun, over) \in Row
         /\ Edited(r, auto, code, begun, over).current = r.current
         /\ Edited(r, auto, code, begun, over).previous = r.previous
<1> DEFINE grace == r.grace /\ code = r.code
           expiry == IF r.expiry = "end" /\ over # r.over THEN "own" ELSE r.expiry
           mode == ModeOf([auto |-> auto])
<1>1. grace \in BOOLEAN /\ expiry \in {"none", "end", "own", "past"} /\ mode \in Modes
  BY DEF Row, ModeOf, Modes
<1>2. Edited(r, auto, code, begun, over) =
        [r EXCEPT !.auto = auto, !.mode = mode, !.code = code, !.grace = grace,
                  !.begun = begun, !.over = over, !.expiry = expiry]
  BY DEF Edited
<1> HIDE DEF grace, expiry, mode
<1> QED
  BY <1>1, <1>2 DEF Row

LEMMA ModeType ==
  ASSUME NEW st \in State, NEW r \in Row, NEW mode \in Modes, NEW pin \in MaybePin,
         mode = "rotating" => pin \in Pins
  PROVE  /\ InMode(st, mode, pin) \in State
         /\ InMode(st, mode, pin).current = st.current
         /\ InRowMode(r, mode) \in Row
         /\ InRowMode(r, mode).current = r.current
         /\ InRowMode(r, mode).previous = r.previous
         /\ ModeOf(r) \in Modes
BY DEF InMode, InRowMode, State, Row, Modes, MaybePin, ModeOf

\* Listed rows carry no hash.
LEMMA ListedType == \A r \in Row : Listed(r) \in Row /\ Listed(r).status = r.status
BY NothingRead DEF Listed, Row

\* What a handler has of a row are the hashes of the row itself.
LEMMA OverlaidType ==
  ASSUME NEW r \in Row, NEW st \in State \cup {NoState}, NEW grace \in BOOLEAN,
         NEW expiry \in {"end", "own", "past"}
  PROVE  /\ Overlaid(r, st, grace, expiry) \in Row
         /\ Overlaid(r, st, grace, expiry).current = r.current
         /\ Overlaid(r, st, grace, expiry).previous = r.previous
         /\ Overlaid(r, st, grace, expiry).status \in {r.status, "active"}
<1>1. CASE st = NoState
  BY <1>1 DEF Overlaid, Row, MaybePin
<1>2. CASE st # NoState
  <2> DEFINE mode == IF r.auto THEN st.mode ELSE "static"
             ahead == grace /\ st.previous # NoPin
  <2>1. mode \in Modes /\ ahead \in BOOLEAN /\ st.current \in MaybePin
    BY <1>2 DEF State, Modes, MaybePin
  <2>2. Overlaid(r, st, grace, expiry) =
          [r EXCEPT !.status = "active", !.expiry = expiry, !.code = st.current,
                    !.mode = mode, !.grace = ahead]
    BY <1>2 DEF Overlaid
  <2> HIDE DEF mode, ahead
  <2> QED
    BY <2>1, <2>2 DEF Row
<1> QED
  BY <1>1, <1>2

\* The request with which a handler goes on after its look.
LEMMA OnwardType ==
  ASSUME NEW x \in Request, NEW r \in Row
  PROVE  /\ Onward(x, r) \in Request
         /\ Onward(x, r) = NoRequest \/ (Onward(x, r).next = x.then /\ Onward(x, r).on = x.on)
         /\ Onward(x, r).next = x.then /\ Onward(x, r).then = "none"
         /\ x.then = "save" => Onward(x, r).row = r /\ Onward(x, r).synced = NoRow
<1> DEFINE seen == IF x.then = "save" THEN r ELSE NoRow
           y == [NoRequest EXCEPT !.next = x.then, !.on = x.on, !.row = seen]
<1>1. seen \in Row
  BY NothingRead
<1>2. x.then \in {"none", "start", "close", "save", "delete"} /\ x.on \in Sessions
  BY DEF Request
<1>a. NoRequest.synced = NoRow
  BY DEF NoRequest
<1>3. /\ y \in Request /\ y.next = x.then /\ y.then = "none" /\ y.on = x.on /\ y.row = seen
      /\ y.synced = NoRow
  BY <1>1, <1>2, <1>a, NothingRead DEF Request
<1>4. Onward(x, r) = IF x.then = "none" THEN NoRequest ELSE y
  BY DEF Onward
<1> HIDE DEF y
<1> QED
  BY <1>2, <1>3, <1>4, NothingRead

\* The keys in Redis lead to sessions.
LEMMA KeysType ==
  ASSUME NEW keys \in [Pins -> Sessions \cup {NoSession}], NEW pins, NEW s \in Sessions
  PROVE  /\ Claimed(keys, pins, s) \in [Pins -> Sessions \cup {NoSession}]
         /\ Released(keys, pins) \in [Pins -> Sessions \cup {NoSession}]
BY DEF Claimed, Released
-----------------------------------------------------------------------------
(* Each table by itself, whatever the step does to the others.              *)

\* A history that is left alone grows, and so does one that notes a PIN.
LEMMA SameHistory ==
  ASSUME TablesOK, UNCHANGED shown
  PROVE  Grows
BY DEF Grows, TablesOK

LEMMA Noted ==
  ASSUME TablesOK, NEW s \in Sessions, NEW pin \in Pins, Recorded(s, pin)
  PROVE  Grows /\ pin \in shown'[s]
BY DEF Grows, TablesOK, Recorded

\* A row that is written with hashes that were shown.
LEMMA RowWritten ==
  ASSUME PinsInv, Grows, NEW s \in Sessions, NEW r \in Row, HashesShown(r, shown'[s]),
         row' = [row EXCEPT ![s] = r]
  PROVE  row' \in [Sessions -> Row] /\ RowsShown'
BY DEF PinsInv, TablesOK, Grows, RowsShown, HashesShown

LEMMA RowsKept ==
  ASSUME PinsInv, Grows, UNCHANGED row
  PROVE  row' \in [Sessions -> Row] /\ RowsShown'
BY DEF PinsInv, TablesOK, Grows, RowsShown, HashesShown

\* A state that is written, or deleted.
LEMMA StateWritten ==
  ASSUME PinsInv, Grows, NEW s \in Sessions, NEW st \in State \cup {NoState}, StateShown(st, shown'[s]),
         state' = [state EXCEPT ![s] = st]
  PROVE  state' \in [Sessions -> State \cup {NoState}] /\ StatesShown'
BY DEF PinsInv, TablesOK, Grows, StatesShown, StateShown

LEMMA StatesKept ==
  ASSUME PinsInv, Grows, UNCHANGED state
  PROVE  state' \in [Sessions -> State \cup {NoState}] /\ StatesShown'
BY DEF PinsInv, TablesOK, Grows, StatesShown, StateShown

\* A request that goes on.
LEMMA RequestWritten ==
  ASSUME PinsInv, Grows, NEW q \in Actors, NEW x \in Request, RequestShown(x, shown'),
         req' = [req EXCEPT ![q] = x]
  PROVE  req' \in [Actors -> Request] /\ RequestsShown'
<1>1. req \in [Actors -> Request]
  BY DEF PinsInv, TablesOK
<1>2. ASSUME NEW a \in Actors, a # q
      PROVE  RequestShown(req'[a], shown')
  <2>1. req'[a] = req[a] /\ req[a].on \in Sessions
    BY <1>1, <1>2 DEF Request
  <2>2. RequestShown(req[a], shown)
    BY DEF PinsInv, RequestsShown
  <2>3. shown[req[a].on] \subseteq shown'[req[a].on]
    BY <2>1 DEF Grows
  <2> QED
    BY <2>1, <2>2, <2>3 DEF RequestShown, HashesShown
<1>3. RequestShown(req'[q], shown')
  BY <1>1
<1> QED
  BY <1>1, <1>2, <1>3 DEF RequestsShown

LEMMA RequestsKept ==
  ASSUME PinsInv, Grows, UNCHANGED req
  PROVE  req' \in [Actors -> Request] /\ RequestsShown'
<1>1. ASSUME NEW a \in Actors
      PROVE  RequestShown(req'[a], shown')
  <2>1. req'[a] = req[a] /\ req[a].on \in Sessions
    BY DEF Request, PinsInv, TablesOK
  <2>2. RequestShown(req[a], shown)
    BY DEF PinsInv, RequestsShown
  <2>3. shown[req[a].on] \subseteq shown'[req[a].on]
    BY <2>1 DEF Grows
  <2> QED
    BY <2>1, <2>2, <2>3 DEF RequestShown, HashesShown
<1> QED
  BY <1>1 DEF RequestsShown, PinsInv, TablesOK

\* A request that ends.
LEMMA RequestOver ==
  ASSUME PinsInv, Grows, NEW q \in Actors, Ends(q)
  PROVE  req' \in [Actors -> Request] /\ RequestsShown'
<1>1. RequestShown(NoRequest, shown')
  BY NothingRead DEF RequestShown, Carrying, ToSave
<1> QED
  BY <1>1, NothingRead, RequestWritten DEF Ends

\* Those who were admitted keep what they were admitted with.
LEMMA AdmittedKept ==
  ASSUME PinsInv, Grows, UNCHANGED admitted
  PROVE  admitted' \in [Sessions -> SUBSET Pins] /\ AdmittedWasShown'
BY DEF PinsInv, TablesOK, Grows, AdmittedWasShown

\* A new request.
LEMMA RequestMade ==
  ASSUME PinsInv, Grows, NEW q \in Actors, NEW s \in Sessions, NEW seen \in Row, NEW pin \in MaybePin,
         NEW next \in {"start", "resolve", "rotate", "verify"},
         next = "verify" => pin \in Pins,
         Asks(q, s, next, seen, pin)
  PROVE  req' \in [Actors -> Request] /\ RequestsShown'
<1> DEFINE x == [next |-> next, then |-> "none", on |-> s, row |-> seen, synced |-> NoRow,
                 state |-> NoState, pin |-> pin]
<1>1. x \in Request
  BY NothingRead DEF Request
<1>2. RequestShown(x, shown')
  BY DEF RequestShown, Carrying, ToSave
<1>3. req' = [req EXCEPT ![q] = x]
  BY DEF Asks
<1> HIDE DEF x
<1> QED
  BY <1>1, <1>2, <1>3, RequestWritten

\* A handler that goes on after its look.
LEMMA HandlerGoesOn ==
  ASSUME PinsInv, Grows, NEW q \in Actors, NEW r \in Row, GoesOnWith(q, r),
         req[q].then = "save" => HashesShown(r, shown'[req[q].on])
  PROVE  req' \in [Actors -> Request] /\ RequestsShown'
<1> DEFINE x == Onward(req[q], r)
<1>1. req[q] \in Request
  BY DEF PinsInv, TablesOK
<1>2. /\ x \in Request
      /\ x = NoRequest \/ (x.next = req[q].then /\ x.on = req[q].on)
      /\ x.next = req[q].then /\ x.then = "none"
      /\ req[q].then = "save" => x.row = r /\ x.synced = NoRow
  BY <1>1, OnwardType
<1>3. req' = [req EXCEPT ![q] = x]
  BY DEF GoesOnWith
<1>4. req[q].then \in {"none", "start", "close", "save", "delete"}
  BY <1>1 DEF Request
<1> HIDE DEF x
<1>5. HashesShown(NoRow, shown'[req[q].on])
  BY NothingRead DEF HashesShown
<1>6. RequestShown(x, shown')
  BY <1>2, <1>4, <1>5, NothingRead DEF RequestShown, Carrying, ToSave
<1> QED
  BY <1>2, <1>3, <1>6, RequestWritten

\* A request that goes on with what it remembers, to a step that needs nothing of it.
LEMMA RequestGoesOn ==
  ASSUME PinsInv, Grows, NEW q \in Actors, NEW next \in {"stuck"}, Goes(q, next)
  PROVE  req' \in [Actors -> Request] /\ RequestsShown'
<1> DEFINE x == [req[q] EXCEPT !.next = next]
<1>1. req[q] \in Request /\ RequestShown(req[q], shown)
  BY DEF PinsInv, TablesOK, RequestsShown
<1>2. /\ x \in Request /\ x.next = next /\ x.on = req[q].on /\ x.state = req[q].state
      /\ x.then = req[q].then /\ x.row = req[q].row /\ x.synced = req[q].synced
  BY <1>1 DEF Request
<1>3. shown[req[q].on] \subseteq shown'[req[q].on]
  BY <1>1 DEF Grows, Request
<1>4. RequestShown(x, shown')
  BY <1>1, <1>2, <1>3 DEF RequestShown, Carrying, ToSave, HashesShown
<1>5. req' = [req EXCEPT ![q] = x]
  BY DEF Goes, PinsInv, TablesOK
<1> HIDE DEF x
<1> QED
  BY <1>2, <1>4, <1>5, RequestWritten

\* A request that goes on with a state it has just read or made.
LEMMA RequestTakes ==
  ASSUME PinsInv, Grows, NEW q \in Actors, NEW st \in State \cup {NoState},
         NEW next \in {"clean", "rehydrate", "reconcile", "rotate", "store"},
         next \in Carrying => st \in State /\ st.current \in shown'[req[q].on],
         req' = [req EXCEPT ![q].next = next, ![q].state = st]
  PROVE  req' \in [Actors -> Request] /\ RequestsShown'
<1> DEFINE x == [req[q] EXCEPT !.next = next, !.state = st]
<1>1. req \in [Actors -> Request] /\ req[q] \in Request
  BY DEF PinsInv, TablesOK
<1>2. /\ x \in Request /\ x.next = next /\ x.on = req[q].on /\ x.state = st
      /\ x.then = req[q].then /\ x.row = req[q].row /\ x.synced = req[q].synced
  BY <1>1 DEF Request
<1>3. req' = [req EXCEPT ![q] = x]
  BY <1>1
<1>a. RequestShown(req[q], shown) /\ shown[req[q].on] \subseteq shown'[req[q].on]
  BY <1>1 DEF PinsInv, RequestsShown, Grows, Request
<1> HIDE DEF x
<1>4. RequestShown(x, shown')
  BY <1>2, <1>a DEF RequestShown, Carrying, ToSave, HashesShown
<1> QED
  BY <1>2, <1>3, <1>4, RequestWritten

\* A step keeps the invariant when it keeps it in every table.
LEMMA Assembled ==
  ASSUME row' \in [Sessions -> Row] /\ RowsShown',
         state' \in [Sessions -> State \cup {NoState}] /\ StatesShown',
         req' \in [Actors -> Request] /\ RequestsShown',
         admitted' \in [Sessions -> SUBSET Pins] /\ AdmittedWasShown',
         Grows, key' \in [Pins -> Sessions \cup {NoSession}], tick' \in Tick
  PROVE  PinsInv'
BY DEF PinsInv, TablesOK, Grows
-----------------------------------------------------------------------------
(* Looking, creating, editing, deleting.                                    *)

\* A synced row is a row with the hashes it had.
LEMMA SyncedRow ==
  ASSUME PinsInv, Grows, NEW s \in Sessions, NEW after \in ViewsOf(s), Syncs(s, after)
  PROVE  /\ row' \in [Sessions -> Row] /\ RowsShown'
         /\ after \in Row /\ HashesShown(after, shown'[s])
<1>1. /\ after \in Row
      /\ after.current = row[s].current /\ after.previous = row[s].previous
  BY ViewKeepsHashes DEF PinsInv
<1>2. HashesShown(after, shown'[s])
  BY <1>1 DEF HashesShown, PinsInv, RowsShown, Grows
<1> QED
  BY <1>1, <1>2, RowWritten DEF Syncs

LEMMA LookingKeeps ==
  ASSUME PinsInv, NEW s \in Sessions, ViewSession(s)
  PROVE  PinsInv'
<1>1. Grows
  BY SameHistory DEF ViewSession, PinsInv
<1>2. row' \in [Sessions -> Row] /\ RowsShown'
  BY <1>1, SyncedRow DEF ViewSession
<1>3. key' \in [Pins -> Sessions \cup {NoSession}] /\ tick' \in Tick
  BY DEF ViewSession, PinsInv, TablesOK
<1> QED
  BY <1>1, <1>2, <1>3, StatesKept, RequestsKept, AdmittedKept, Assembled DEF ViewSession

LEMMA LookingFirstKeeps ==
  ASSUME PinsInv, NEW q \in Requests, NEW s \in Sessions,
         NEW then \in {"none", "save", "delete", "start", "close"}, ViewsFor(q, s, then)
  PROVE  PinsInv'
<1>1. Grows
  BY SameHistory DEF ViewsFor, PinsInv
<1>2. PICK after \in ViewsOf(s) :
        /\ Syncs(s, after)
        /\ LET seen == IF then = "save" THEN after ELSE NoRow IN
           req' = [req EXCEPT ![q] =
             [next |-> "look", then |-> then, on |-> s, row |-> seen,
              synced |-> seen, state |-> NoState, pin |-> NoPin]]
  BY DEF ViewsFor
<1>3. /\ row' \in [Sessions -> Row] /\ RowsShown'
      /\ after \in Row /\ HashesShown(after, shown'[s])
  BY <1>1, <1>2, SyncedRow
<1> DEFINE seen == IF then = "save" THEN after ELSE NoRow
           x == [next |-> "look", then |-> then, on |-> s, row |-> seen,
                 synced |-> seen, state |-> NoState, pin |-> NoPin]
<1>4. seen \in Row /\ (then = "save" => HashesShown(seen, shown'[s]))
  BY <1>3, NothingRead
<1>5. q \in Actors /\ req' = [req EXCEPT ![q] = x]
  BY <1>2 DEF Actors
<1> HIDE DEF seen
<1>a. x \in Request /\ RequestShown(x, shown')
  BY <1>4 DEF Request, MaybePin, RequestShown, Carrying, ToSave
<1> HIDE DEF x
<1>6. req' \in [Actors -> Request] /\ RequestsShown'
  BY <1>1, <1>5, <1>a, RequestWritten
<1>7. key' \in [Pins -> Sessions \cup {NoSession}] /\ tick' \in Tick
  BY DEF ViewsFor, PinsInv, TablesOK
<1> QED
  BY <1>1, <1>3, <1>6, <1>7, StatesKept, AdmittedKept, Assembled DEF ViewsFor

\* The row is read again.
LEMMA ReadingKeeps ==
  ASSUME PinsInv, NEW q \in Actors, Look(q)
  PROVE  PinsInv'
<1> DEFINE s == req[q].on
<1>1. Grows /\ UNCHANGED << row, key, state, shown, admitted, tick >>
  BY SameHistory DEF Look, PinsInv
<1>2. /\ req[q] \in Request /\ s \in Sessions /\ row[s] \in Row /\ req[q].synced \in Row
      /\ HashesShown(row[s], shown'[s]) /\ RequestShown(req[q], shown')
  BY <1>1 DEF PinsInv, TablesOK, Request, RowsShown, RequestsShown
<1>3. CASE Exists(s)
  <2> DEFINE r == IF req[q].then = "save" THEN row[s] ELSE Listed(row[s])
             x == [req[q] EXCEPT !.next = "resolve", !.row = r]
  <2>1. r \in Row /\ (req[q].then = "save" => r = row[s])
    BY <1>2, ListedType
  <2>2. req' = [req EXCEPT ![q] = x]
    BY <1>3 DEF Look, PinsInv, TablesOK
  <2> HIDE DEF r
  <2>3. /\ x \in Request /\ x.next = "resolve" /\ x.then = req[q].then /\ x.on = s
        /\ x.row = r /\ x.synced = req[q].synced
    BY <1>2, <2>1 DEF Request
  <2> HIDE DEF x
  <2>4. RequestShown(x, shown')
    BY <1>2, <2>1, <2>3 DEF RequestShown, Carrying, ToSave
  <2>5. req' \in [Actors -> Request] /\ RequestsShown'
    BY <1>1, <2>2, <2>3, <2>4, RequestWritten
  <2>6. key' \in [Pins -> Sessions \cup {NoSession}] /\ tick' \in Tick
    BY <1>1 DEF PinsInv, TablesOK
  <2> QED
    BY <1>1, <2>5, <2>6, RowsKept, StatesKept, AdmittedKept, Assembled
<1>4. CASE ~ Exists(s)
  <2>1. GoesOnWith(q, req[q].synced)
    BY <1>4 DEF Look
  <2>2. req[q].then = "save" => HashesShown(req[q].synced, shown'[s])
    BY <1>2 DEF RequestShown, ToSave
  <2>3. req' \in [Actors -> Request] /\ RequestsShown'
    BY <1>1, <1>2, <2>1, <2>2, HandlerGoesOn
  <2>4. key' \in [Pins -> Sessions \cup {NoSession}] /\ tick' \in Tick
    BY <1>1 DEF PinsInv, TablesOK
  <2> QED
    BY <1>1, <2>3, <2>4, RowsKept, StatesKept, AdmittedKept, Assembled
<1> QED
  BY <1>3, <1>4

LEMMA CreatingKeeps ==
  ASSUME PinsInv, NEW s \in Sessions, NEW auto \in BOOLEAN, NEW begun \in BOOLEAN, NEW pin \in Pins,
         CreateSession(s, auto, begun, pin)
  PROVE  PinsInv'
<1>1. Grows
  BY SameHistory DEF CreateSession, PinsInv
<1> DEFINE r == CreatedRow(auto, begun, pin)
<1>2. r \in Row /\ HashesShown(r, shown'[s])
  BY DEF CreatedRow, Row, ModeOf, Modes, MaybePin, HashesShown
<1>3. row' = [row EXCEPT ![s] = r]
  BY DEF CreateSession
<1> HIDE DEF r
<1>4. row' \in [Sessions -> Row] /\ RowsShown'
  BY <1>1, <1>2, <1>3, RowWritten
<1>5. key' \in [Pins -> Sessions \cup {NoSession}] /\ tick' \in Tick
  BY DEF CreateSession, PinsInv, TablesOK
<1> QED
  BY <1>1, <1>4, <1>5, StatesKept, RequestsKept, AdmittedKept, Assembled DEF CreateSession

LEMMA SavingKeeps ==
  ASSUME PinsInv, NEW q \in Requests, NEW auto \in BOOLEAN, NEW begun \in BOOLEAN, NEW over \in BOOLEAN,
         NEW code \in MaybePin, SaveEdited(q, auto, code, begun, over)
  PROVE  PinsInv'
<1> DEFINE s == req[q].on
           r == Edited(req[q].row, auto, code, begun, over)
<1>1. Grows
  BY SameHistory DEF SaveEdited, PinsInv
<1>2. q \in Actors /\ req[q] \in Request /\ RequestShown(req[q], shown) /\ req[q].next = "save"
  BY DEF Actors, PinsInv, TablesOK, RequestsShown, SaveEdited
<1>3. /\ s \in Sessions /\ req[q].row \in Row /\ HashesShown(req[q].row, shown[s])
      /\ HashesShown(req[q].synced, shown[s])
  BY <1>2 DEF Request, RequestShown, ToSave
<1>4. r \in Row /\ r.current = req[q].row.current /\ r.previous = req[q].row.previous
  <2>1. \A x \in Row : LET y == Edited(x, auto, code, begun, over) IN
          y \in Row /\ y.current = x.current /\ y.previous = x.previous
    BY EditedType
  <2> QED
    BY <1>3, <2>1
<1>5. row' = [row EXCEPT ![s] = r] /\ row'[s] = r
  BY <1>3 DEF SaveEdited, PinsInv, TablesOK
<1> DEFINE x == [req[q] EXCEPT !.next = "refresh", !.row = r]
<1>a. req' = [req EXCEPT ![q] = x]
  BY <1>2, <1>5 DEF SaveEdited, PinsInv, TablesOK
<1> HIDE DEF r
<1>b. /\ x \in Request /\ x.next = "refresh" /\ x.on = s /\ x.row = r
      /\ x.synced = req[q].synced
  BY <1>2, <1>4 DEF Request
<1> HIDE DEF x, s
<1>6. HashesShown(r, shown'[s]) /\ HashesShown(req[q].synced, shown'[s])
  BY <1>1, <1>3, <1>4 DEF HashesShown, Grows
<1>c. RequestShown(x, shown')
  BY <1>b, <1>6 DEF RequestShown, Carrying
<1>7. row' \in [Sessions -> Row] /\ RowsShown'
  BY <1>1, <1>3, <1>4, <1>5, <1>6, RowWritten
<1>8. req' \in [Actors -> Request] /\ RequestsShown'
  BY <1>1, <1>2, <1>a, <1>b, <1>c, RequestWritten
<1>9. key' \in [Pins -> Sessions \cup {NoSession}] /\ tick' \in Tick
  BY DEF SaveEdited, PinsInv, TablesOK
<1> QED
  BY <1>1, <1>7, <1>8, <1>9, StatesKept, AdmittedKept, Assembled DEF SaveEdited

LEMMA RefreshingKeeps ==
  ASSUME PinsInv, NEW q \in Actors, Refresh(q)
  PROVE  PinsInv'
<1> DEFINE s == req[q].on
<1>1. Grows
  BY SameHistory DEF Refresh, PinsInv
<1>2. /\ req[q] \in Request /\ s \in Sessions /\ req[q].row \in Row
      /\ ToSave(req[q]) => HashesShown(req[q].row, shown'[s]) /\ HashesShown(req[q].synced, shown'[s])
  BY <1>1 DEF PinsInv, TablesOK, Request, RequestsShown, RequestShown, Grows, HashesShown, Refresh
<1>3. PICK after \in IF Exists(s) THEN ViewsOf(s) ELSE {req[q].row} :
        /\ IF Exists(s) THEN Syncs(s, after) ELSE UNCHANGED row
        /\ IF state[s] = NoState THEN Ends(q)
           ELSE req' = [req EXCEPT ![q].next = "sync", ![q].row = after, ![q].state = state[s]]
  BY DEF Refresh
<1>4. /\ row' \in [Sessions -> Row] /\ RowsShown' /\ after \in Row
      /\ ToSave(req[q]) => HashesShown(after, shown'[s])
  BY <1>1, <1>2, <1>3, SyncedRow, RowsKept
<1>5. req' \in [Actors -> Request] /\ RequestsShown'
  <2>1. CASE state[s] = NoState
    BY <1>1, <1>3, <2>1, RequestOver
  <2>2. CASE state[s] # NoState
    <3> DEFINE x == [req[q] EXCEPT !.next = "sync", !.row = after, !.state = state[s]]
    <3>1. req' = [req EXCEPT ![q] = x]
      BY <1>3, <2>2 DEF PinsInv, TablesOK
    <3>2. state[s] \in State /\ state[s].current \in shown'[s]
      BY <1>1, <1>2, <2>2 DEF PinsInv, TablesOK, StatesShown, StateShown, Grows
    <3>3. /\ x \in Request /\ x.next = "sync" /\ x.on = s /\ x.state = state[s] /\ x.row = after
          /\ x.then = req[q].then /\ x.synced = req[q].synced
      BY <1>2, <1>4, <3>2 DEF Request
    <3> HIDE DEF x, s
    <3>4. RequestShown(x, shown')
      BY <1>2, <1>4, <3>2, <3>3 DEF RequestShown, Carrying, ToSave
    <3> QED
      BY <1>1, <3>1, <3>3, <3>4, RequestWritten
  <2> QED
    BY <2>1, <2>2
<1>6. key' \in [Pins -> Sessions \cup {NoSession}] /\ tick' \in Tick
  BY DEF Refresh, PinsInv, TablesOK
<1> QED
  BY <1>1, <1>4, <1>5, <1>6, StatesKept, AdmittedKept, Assembled DEF Refresh

\* Steps that end a request and touch nothing but, perhaps, one row.
LEMMA EndingKeeps ==
  ASSUME PinsInv, NEW q \in Actors, Ends(q), UNCHANGED << row, key, state, shown, admitted >>,
         tick' \in Tick
  PROVE  PinsInv'
<1>1. Grows
  BY SameHistory DEF PinsInv
<1>2. key' \in [Pins -> Sessions \cup {NoSession}]
  BY DEF PinsInv, TablesOK
<1> QED
  BY <1>1, <1>2, RowsKept, StatesKept, RequestOver, AdmittedKept, Assembled

LEMMA DeletingKeeps ==
  ASSUME PinsInv, NEW q \in Actors, DeleteSession(q)
  PROVE  PinsInv'
<1> DEFINE s == req[q].on
           r == [row[s] EXCEPT !.status = "deleted"]
<1>1. Grows
  BY SameHistory DEF DeleteSession, PinsInv
<1>2. s \in Sessions /\ row[s] \in Row /\ HashesShown(row[s], shown[s])
  BY DEF PinsInv, TablesOK, Request, RowsShown
<1>3. r \in Row /\ HashesShown(r, shown'[s])
  BY <1>2 DEF Row, HashesShown, DeleteSession
<1>4. row' = [row EXCEPT ![s] = r]
  BY <1>2 DEF DeleteSession, PinsInv, TablesOK
<1> HIDE DEF s, r
<1>5. row' \in [Sessions -> Row] /\ RowsShown'
  BY <1>1, <1>2, <1>3, <1>4, RowWritten
<1>6. key' \in [Pins -> Sessions \cup {NoSession}] /\ tick' \in Tick
  BY DEF DeleteSession, PinsInv, TablesOK
<1> QED
  BY <1>1, <1>5, <1>6, StatesKept, RequestOver, AdmittedKept, Assembled DEF DeleteSession

LEMMA ReconcilingKeeps ==
  ASSUME PinsInv, NEW q \in Actors, Reconcile(q)
  PROVE  PinsInv'
<1> DEFINE s == req[q].on
           st == req[q].state
           mode == ModeOf(req[q].row)
<1>1. Grows
  BY SameHistory DEF Reconcile, PinsInv
<1>2. /\ s \in Sessions /\ st \in State /\ st.current \in shown[s]
      /\ req[q].row \in Row /\ row[s] \in Row /\ HashesShown(row[s], shown[s])
  BY DEF PinsInv, TablesOK, Request, RowsShown, RequestsShown, RequestShown, Reconcile, Carrying
<1>3. mode \in Modes
  BY DEF ModeOf, Modes
<1>4. key \in [Pins -> Sessions \cup {NoSession}] /\ tick' \in Tick
  BY DEF Reconcile, PinsInv, TablesOK
<1>5. Ends(q) /\ UNCHANGED << shown, admitted >>
  BY DEF Reconcile
<1>6. CASE UNCHANGED << row, key, state >>
  BY <1>4, <1>5, <1>6, EndingKeeps
<1>7. CASE \E pin \in ModePins(st, mode) :
             /\ key' = KeysInMode(key, s, st, mode, pin)
             /\ state' = [state EXCEPT ![s] = InMode(st, mode, pin)]
             /\ row' = [row EXCEPT ![s] = InRowMode(@, mode)]
  <2>1. PICK pin \in ModePins(st, mode) :
             /\ key' = KeysInMode(key, s, st, mode, pin)
             /\ state' = [state EXCEPT ![s] = InMode(st, mode, pin)]
             /\ row' = [row EXCEPT ![s] = InRowMode(row[s], mode)]
    BY <1>2, <1>7 DEF PinsInv, TablesOK
  <2>2. pin \in MaybePin /\ (mode = "rotating" => pin \in Pins)
    BY <1>3 DEF ModePins, Unreserved, MaybePin, Modes
  <2> HIDE DEF s, st, mode
  <2>3. /\ InMode(st, mode, pin) \in State /\ InMode(st, mode, pin).current = st.current
        /\ InRowMode(row[s], mode) \in Row
        /\ InRowMode(row[s], mode).current = row[s].current
        /\ InRowMode(row[s], mode).previous = row[s].previous
    BY <1>2, <1>3, <2>2, ModeType
  <2>4. /\ StateShown(InMode(st, mode, pin), shown'[s])
        /\ HashesShown(InRowMode(row[s], mode), shown'[s])
    BY <1>2, <1>5, <2>3 DEF StateShown, HashesShown
  <2>5. row' \in [Sessions -> Row] /\ RowsShown'
    BY <1>1, <1>2, <2>1, <2>3, <2>4, RowWritten
  <2>6. state' \in [Sessions -> State \cup {NoState}] /\ StatesShown'
    BY <1>1, <1>2, <2>1, <2>3, <2>4, StateWritten
  <2>7. key' \in [Pins -> Sessions \cup {NoSession}]
    BY <1>2, <1>4, <2>1, KeysType DEF KeysInMode
  <2> QED
    BY <1>1, <1>4, <1>5, <2>5, <2>6, <2>7, RequestOver, AdmittedKept, Assembled
<1> QED
  BY <1>6, <1>7 DEF Reconcile
-----------------------------------------------------------------------------
(* Starting and showing.                                                    *)

\* The row that is built, whether it exists or not, and what goes with it.
LEMMA BuildingKeepsRows ==
  ASSUME PinsInv, NEW s \in Sessions, NEW seen \in Row, NEW first \in FirstPins(seen, key),
         NEW next \in NextPins(seen, key, first), BuildsRow(s, seen, first, next)
  PROVE  /\ Grows /\ row' \in [Sessions -> Row] /\ RowsShown'
         /\ key' \in [Pins -> Sessions \cup {NoSession}]
         /\ FreshState(seen, first, next) \in State
         /\ FreshState(seen, first, next).current \in shown'[s]
<1>1. first \in Pins /\ next \in MaybePin /\ (ModeOf(seen) = "rotating" => next \in Pins)
  BY PinsToBuildWith DEF PinsInv
<1>2. Grows /\ first \in shown'[s]
  BY <1>1, Noted DEF BuildsRow, PinsInv
<1> DEFINE old == row[s]
           new == Built(old, ModeOf(seen), first)
           r == IF Exists(s) THEN new ELSE old
<1>3. old \in Row /\ HashesShown(old, shown[s]) /\ shown[s] \subseteq shown'[s]
  BY <1>2 DEF PinsInv, TablesOK, RowsShown, Grows
<1>4. /\ new \in Row /\ new.current = first /\ new.previous = NoPin
      /\ FreshState(seen, first, next) \in State /\ FreshState(seen, first, next).current = first
  BY <1>1, <1>3, BuiltType
<1>5. row' = [row EXCEPT ![s] = r]
  BY DEF BuildsRow, PinsInv, TablesOK
<1> HIDE DEF new, old
<1>6. r \in Row /\ HashesShown(r, shown'[s])
  BY <1>2, <1>3, <1>4 DEF HashesShown
<1> HIDE DEF r
<1>7. row' \in [Sessions -> Row] /\ RowsShown'
  BY <1>2, <1>5, <1>6, RowWritten
<1>8. key' \in [Pins -> Sessions \cup {NoSession}]
  BY KeysType DEF BuildsRow, PinsInv, TablesOK
<1> QED
  BY <1>2, <1>4, <1>7, <1>8

\* A new request that has read nothing, or a listed row.
LEMMA AskingKeeps ==
  ASSUME PinsInv, NEW q \in Requests, NEW s \in Sessions, NEW seen \in Row, NEW pin \in MaybePin,
         NEW next \in {"start", "resolve", "rotate", "verify"},
         next = "verify" => pin \in Pins,
         Asks(q, s, next, seen, pin), UNCHANGED << row, key, state, shown, admitted, tick >>
  PROVE  PinsInv'
<1>1. Grows
  BY SameHistory DEF PinsInv
<1>2. req' \in [Actors -> Request] /\ RequestsShown'
  BY <1>1, RequestMade DEF Actors
<1>3. key' \in [Pins -> Sessions \cup {NoSession}] /\ tick' \in Tick
  BY DEF PinsInv, TablesOK
<1> QED
  BY <1>1, <1>2, <1>3, RowsKept, StatesKept, AdmittedKept, Assembled

LEMMA StartingKeeps ==
  ASSUME PinsInv, NEW q \in Actors, Start(q)
  PROVE  PinsInv'
<1> DEFINE s == req[q].on
           seen == row[s]
<1>1. s \in Sessions /\ seen \in Row /\ tick' \in Tick
  BY DEF PinsInv, TablesOK, Request, Start
<1>2. Ends(q) /\ UNCHANGED admitted
  BY DEF Start
<1>3. CASE UNCHANGED << row, key, state, shown >>
  BY <1>1, <1>2, <1>3, EndingKeeps
<1>4. CASE ~ UNCHANGED << row, key, state, shown >>
  <2>1. PICK first \in FirstPins(seen, key) : \E next \in NextPins(seen, key, first) :
          /\ BuildsRow(s, seen, first, next)
          /\ state' = [state EXCEPT ![s] = FreshState(seen, first, next)]
    BY <1>4 DEF Start
  <2>2. PICK next \in NextPins(seen, key, first) :
          /\ BuildsRow(s, seen, first, next)
          /\ state' = [state EXCEPT ![s] = FreshState(seen, first, next)]
    BY <2>1
  <2> DEFINE st == FreshState(seen, first, next)
  <2> HIDE DEF s, seen
  <2>3. /\ Grows /\ row' \in [Sessions -> Row] /\ RowsShown'
        /\ key' \in [Pins -> Sessions \cup {NoSession}]
        /\ st \in State /\ st.current \in shown'[s]
    BY <1>1, <2>2, BuildingKeepsRows
  <2>4. state' \in [Sessions -> State \cup {NoState}] /\ StatesShown'
    BY <1>1, <2>2, <2>3, StateWritten DEF StateShown
  <2> QED
    BY <1>1, <1>2, <2>3, <2>4, RequestOver, AdmittedKept, Assembled
<1> QED
  BY <1>3, <1>4

\* A start that is rolled back leaves its PIN in Redis, and in the history.
LEMMA LosingStartKeeps ==
  ASSUME PinsInv, NEW q \in Actors, StartIsLost(q)
  PROVE  PinsInv'
<1> DEFINE s == req[q].on
           seen == row[s]
<1>1. s \in Sessions /\ seen \in Row /\ tick' \in Tick
  BY DEF PinsInv, TablesOK, Request, StartIsLost
<1>2. Ends(q) /\ UNCHANGED << row, admitted >>
  BY DEF StartIsLost
<1>a. PICK first \in FirstPins(seen, key) : \E next \in NextPins(seen, key, first) :
        /\ key' = Claimed(key, {first, next} \cap Pins, s)
        /\ state' = [state EXCEPT ![s] = FreshState(seen, first, next)]
        /\ Recorded(s, first)
  BY DEF StartIsLost
<1>3. PICK next \in NextPins(seen, key, first) :
        /\ key' = Claimed(key, {first, next} \cap Pins, s)
        /\ state' = [state EXCEPT ![s] = FreshState(seen, first, next)]
        /\ Recorded(s, first)
  BY <1>a
<1> DEFINE st == FreshState(seen, first, next)
<1> HIDE DEF s, seen
<1>4. first \in Pins /\ next \in MaybePin /\ (ModeOf(seen) = "rotating" => next \in Pins)
  BY <1>1, PinsToBuildWith DEF PinsInv
<1>5. Grows /\ first \in shown'[s]
  BY <1>1, <1>3, <1>4, Noted DEF PinsInv
<1>6. st \in State /\ st.current = first
  BY <1>1, <1>4, BuiltType
<1>7. state' \in [Sessions -> State \cup {NoState}] /\ StatesShown'
  BY <1>1, <1>3, <1>5, <1>6, StateWritten DEF StateShown
<1>8. key' \in [Pins -> Sessions \cup {NoSession}]
  BY <1>1, <1>3, KeysType DEF PinsInv, TablesOK
<1> QED
  BY <1>1, <1>2, <1>5, <1>7, <1>8, RowsKept, RequestOver, AdmittedKept, Assembled

LEMMA ResolvingKeeps ==
  ASSUME PinsInv, NEW q \in Actors, Resolve(q)
  PROVE  PinsInv'
<1> DEFINE s == req[q].on
           st == state[s]
<1>1. Grows
  BY SameHistory DEF Resolve, PinsInv
<1>2. req[q] \in Request /\ s \in Sessions /\ st \in State \cup {NoState} /\ StateShown(st, shown[s])
  BY DEF PinsInv, TablesOK, Request, StatesShown
<1>3. /\ key' \in [Pins -> Sessions \cup {NoSession}] /\ tick' \in Tick
      /\ UNCHANGED << row, state, shown, admitted >>
  BY DEF Resolve, PinsInv, TablesOK
<1>4. CASE Ends(q)
  BY <1>3, <1>4, EndingKeeps DEF Resolve
<1>5. ASSUME NEW next \in {"rehydrate", "reconcile", "rotate"},
             next = "reconcile" => st # NoState,
             req' = [req EXCEPT ![q].next = next, ![q].state = st]
      PROVE  PinsInv'
  <2>1. next \in Carrying => st \in State /\ st.current \in shown'[s]
    BY <1>2, <1>3, <1>5 DEF Carrying, StateShown
  <2>2. req' \in [Actors -> Request] /\ RequestsShown'
    BY <1>1, <1>2, <1>5, <2>1, RequestTakes
  <2> QED
    BY <1>1, <1>3, <2>2, RowsKept, StatesKept, AdmittedKept, Assembled
<1>6. CASE GoesOnOverlaid(q, req[q].row, st)
  <2>1. PICK grace \in BOOLEAN, expiry \in {"end", "own", "past"} :
          GoesOnWith(q, Overlaid(req[q].row, st, grace, expiry))
    BY <1>6 DEF GoesOnOverlaid
  <2> DEFINE r == Overlaid(req[q].row, st, grace, expiry)
  <2>2. req[q].row \in Row
    BY <1>2 DEF Request
  <2>3. r \in Row /\ r.current = req[q].row.current /\ r.previous = req[q].row.previous
    BY <1>2, <2>2, OverlaidType
  <2> HIDE DEF r
  <2>4. req[q].then = "save" => HashesShown(r, shown'[s])
    BY <1>1, <1>2, <1>3, <2>3 DEF PinsInv, RequestsShown, RequestShown, ToSave, HashesShown
  <2>5. req' \in [Actors -> Request] /\ RequestsShown'
    BY <1>1, <2>1, <2>3, <2>4, HandlerGoesOn DEF r
  <2> QED
    BY <1>1, <1>3, <2>5, RowsKept, StatesKept, AdmittedKept, Assembled
<1>7. \/ req' = [req EXCEPT ![q].next = "rehydrate", ![q].state = st]
      \/ req' = [req EXCEPT ![q].next = "reconcile", ![q].state = st] /\ st # NoState
      \/ req' = [req EXCEPT ![q].next = "rotate", ![q].state = st]
      \/ Ends(q) \/ GoesOnOverlaid(q, req[q].row, st)
  BY DEF Resolve
<1> QED
  BY <1>4, <1>5, <1>6, <1>7

LEMMA RehydratingKeeps ==
  ASSUME PinsInv, NEW q \in Actors, Rehydrate(q)
  PROVE  PinsInv'
<1> DEFINE s == req[q].on
           seen == req[q].row
<1>1. req[q] \in Request /\ s \in Sessions /\ seen \in Row /\ req[q].pin \in MaybePin
  BY DEF PinsInv, TablesOK, Request
<1>a. PICK first \in FirstPins(seen, key) : \E next \in NextPins(seen, key, first) :
        /\ BuildsRow(s, seen, first, next)
        /\ req' = [req EXCEPT ![q].next = "store", ![q].state = FreshState(seen, first, next)]
  BY DEF Rehydrate
<1>2. PICK next \in NextPins(seen, key, first) :
        /\ BuildsRow(s, seen, first, next)
        /\ req' = [req EXCEPT ![q].next = "store", ![q].state = FreshState(seen, first, next)]
  BY <1>a
<1> DEFINE st == FreshState(seen, first, next)
<1>3. req' = [req EXCEPT ![q].next = "store", ![q].state = st]
  BY <1>2
<1>4. UNCHANGED << state, admitted, tick >>
  BY DEF Rehydrate
<1> HIDE DEF s, seen
<1>5. /\ Grows /\ row' \in [Sessions -> Row] /\ RowsShown'
      /\ key' \in [Pins -> Sessions \cup {NoSession}]
      /\ st \in State /\ st.current \in shown'[s]
  BY <1>1, <1>2, BuildingKeepsRows
<1> HIDE DEF st
<1>6. req' \in [Actors -> Request] /\ RequestsShown'
  BY <1>1, <1>3, <1>5, RequestTakes DEF s
<1>7. tick' \in Tick
  BY <1>4 DEF PinsInv, TablesOK
<1> QED
  BY <1>4, <1>5, <1>6, <1>7, StatesKept, AdmittedKept, Assembled

LEMMA StoringKeeps ==
  ASSUME PinsInv, NEW q \in Actors, StoreState(q)
  PROVE  PinsInv'
<1> DEFINE s == req[q].on
           st == req[q].state
<1>1. Grows
  BY SameHistory DEF StoreState, PinsInv
<1>2. s \in Sessions /\ st \in State /\ st.current \in shown[s]
  BY DEF PinsInv, TablesOK, Request, RequestsShown, RequestShown, StoreState, Carrying
<1> DEFINE r == [Built(req[q].row, st.mode, st.current) EXCEPT !.code = st.current]
<1>3. /\ state' = [state EXCEPT ![s] = st] /\ GoesOnWith(q, r)
      /\ UNCHANGED << row, key, shown, admitted, tick >>
  BY DEF StoreState
<1>a. req[q].row \in Row
  BY DEF PinsInv, TablesOK, Request
<1>b. r \in Row /\ r.current = st.current /\ r.previous = NoPin
  BY <1>2, <1>a, StoredType
<1> HIDE DEF r
<1>c. HashesShown(r, shown'[s])
  BY <1>2, <1>3, <1>b DEF HashesShown
<1>d. req' \in [Actors -> Request] /\ RequestsShown'
  BY <1>1, <1>3, <1>b, <1>c, HandlerGoesOn
<1> HIDE DEF s, st
<1>4. state' \in [Sessions -> State \cup {NoState}] /\ StatesShown'
  BY <1>1, <1>2, <1>3, StateWritten DEF StateShown
<1>5. key' \in [Pins -> Sessions \cup {NoSession}] /\ tick' \in Tick
  BY <1>3 DEF PinsInv, TablesOK
<1> QED
  BY <1>1, <1>3, <1>4, <1>5, <1>d, RowsKept, AdmittedKept, Assembled
-----------------------------------------------------------------------------
(* Rotating.                                                                *)

\* The worker that gives up its tick.
LEMMA TickGivenUp ==
  ASSUME TablesOK, NEW q, tick' = IF q = Worker THEN [tick EXCEPT !.todo = {}] ELSE tick
  PROVE  tick' \in Tick
BY DEF TablesOK, Tick

LEMMA BlockingKeeps ==
  ASSUME PinsInv, NEW q \in Actors, RotateBlocksItself(q)
  PROVE  PinsInv'
<1>1. Grows
  BY SameHistory DEF RotateBlocksItself, PinsInv
<1>2. req' \in [Actors -> Request] /\ RequestsShown'
  BY <1>1, RequestGoesOn DEF RotateBlocksItself
<1>3. key' \in [Pins -> Sessions \cup {NoSession}] /\ tick' \in Tick
  BY DEF RotateBlocksItself, PinsInv, TablesOK
<1> QED
  BY <1>1, <1>2, <1>3, RowsKept, StatesKept, AdmittedKept, Assembled DEF RotateBlocksItself

LEMMA RotatingStaticKeeps ==
  ASSUME PinsInv, NEW q \in Actors, RotateStatic(q)
  PROVE  PinsInv'
<1> DEFINE s == req[q].on
           st == state[s]
           new == InMode(st, "static", NoPin)
           r == InRowMode(row[s], "static")
<1>1. Grows /\ UNCHANGED << shown, admitted, tick >> /\ Ends(q)
  BY SameHistory DEF RotateStatic, PinsInv
<1>2. /\ s \in Sessions /\ st \in State /\ st.current \in shown[s]
      /\ row[s] \in Row /\ HashesShown(row[s], shown[s])
  BY DEF PinsInv, TablesOK, Request, RowsShown, StatesShown, StateShown, RotateStatic
<1>3. /\ state' = [state EXCEPT ![s] = new]
      /\ key' = KeysInMode(key, s, st, "static", NoPin)
      /\ row' = [row EXCEPT ![s] = r]
  BY <1>2 DEF RotateStatic, PinsInv, TablesOK
<1>4. "static" \in Modes /\ NoPin \in MaybePin
  BY DEF Modes, MaybePin
<1>5. /\ new \in State /\ new.current = st.current
      /\ r \in Row /\ r.current = row[s].current /\ r.previous = row[s].previous
  BY <1>2, <1>4, ModeType
<1>6. key' \in [Pins -> Sessions \cup {NoSession}]
  BY <1>2, <1>3, KeysType DEF KeysInMode, PinsInv, TablesOK
<1> HIDE DEF new, r, st, s
<1>7. StateShown(new, shown'[s]) /\ HashesShown(r, shown'[s])
  BY <1>1, <1>2, <1>5 DEF StateShown, HashesShown
<1>8. row' \in [Sessions -> Row] /\ RowsShown'
  BY <1>1, <1>2, <1>3, <1>5, <1>7, RowWritten
<1>9. state' \in [Sessions -> State \cup {NoState}] /\ StatesShown'
  BY <1>1, <1>2, <1>3, <1>5, <1>7, StateWritten
<1>10. tick' \in Tick
  BY <1>1 DEF PinsInv, TablesOK
<1> QED
  BY <1>1, <1>6, <1>8, <1>9, <1>10, RequestOver, AdmittedKept, Assembled

\* A rotation goes on from a state that rotates, with a PIN it has reserved.
LEMMA BeginningToRotateKeeps ==
  ASSUME PinsInv, NEW q \in Actors, RotateBegins(q)
  PROVE  PinsInv'
<1> DEFINE s == req[q].on
           old == state[s]
<1>1. Grows /\ UNCHANGED << row, shown, admitted, tick >>
  BY SameHistory DEF RotateBegins, PinsInv
<1>2. s \in Sessions /\ old \in State /\ old.current \in shown[s] /\ req[q] \in Request
  BY DEF PinsInv, TablesOK, Request, StatesShown, StateShown, RotateBegins
<1>3. PICK pin \in ModePins(old, "rotating") :
        \E after \in Unreserved(Claimed(key, {ReconciledForRotation(old, pin).next} \cap Pins, s))
                       \ {ReconciledForRotation(old, pin).current, ReconciledForRotation(old, pin).next} :
          /\ state' = [state EXCEPT ![s] = ReconciledForRotation(old, pin)]
          /\ key' = Released(Claimed(Claimed(key, {ReconciledForRotation(old, pin).next} \cap Pins, s),
                                     {after}, s), {ReconciledForRotation(old, pin).current})
          /\ req' = [req EXCEPT ![q].next = "grace", ![q].state = ReconciledForRotation(old, pin),
                                ![q].pin = after]
  BY DEF RotateBegins
<1> DEFINE st == ReconciledForRotation(old, pin)
<1>4. PICK after \in Pins :
          /\ state' = [state EXCEPT ![s] = st]
          /\ key' = Released(Claimed(Claimed(key, {st.next} \cap Pins, s), {after}, s), {st.current})
          /\ req' = [req EXCEPT ![q].next = "grace", ![q].state = st, ![q].pin = after]
  BY <1>3 DEF Unreserved
<1>5. pin \in Pins
  BY DEF ModePins, Unreserved
<1>6. st \in State /\ st.current = old.current /\ st.mode = "rotating"
  BY <1>2, <1>5, ModeType DEF ReconciledForRotation, InMode, State, Modes, MaybePin
<1>7. st.current \in shown'[s]
  BY <1>1, <1>2, <1>6
<1> HIDE DEF st, old
<1>8. state' \in [Sessions -> State \cup {NoState}] /\ StatesShown'
  BY <1>1, <1>2, <1>4, <1>6, <1>7, StateWritten DEF StateShown
<1> DEFINE x == [req[q] EXCEPT !.next = "grace", !.state = st, !.pin = after]
<1>9. /\ x \in Request /\ x.next = "grace" /\ x.on = s /\ x.state = st /\ x.pin = after
      /\ x.then = req[q].then /\ x.row = req[q].row /\ x.synced = req[q].synced
  BY <1>2, <1>6 DEF Request, MaybePin
<1>a. RequestShown(req[q], shown)
  BY DEF PinsInv, RequestsShown
<1>10. req' = [req EXCEPT ![q] = x]
  BY <1>4 DEF PinsInv, TablesOK
<1> HIDE DEF x
<1>11. RequestShown(x, shown')
  BY <1>1, <1>6, <1>7, <1>9, <1>a DEF RequestShown, Carrying, ToSave
<1> HIDE DEF s
<1>12. req' \in [Actors -> Request] /\ RequestsShown'
  BY <1>1, <1>9, <1>10, <1>11, RequestWritten
<1>13. key' \in [Pins -> Sessions \cup {NoSession}] /\ tick' \in Tick
  BY <1>1, <1>2, <1>4, KeysType DEF PinsInv, TablesOK
<1> QED
  BY <1>1, <1>8, <1>12, <1>13, RowsKept, AdmittedKept, Assembled

\* What a rotation writes, whether its transaction commits or not.
LEMMA RotatedShown ==
  ASSUME PinsInv, NEW q \in Actors, req[q].next = "grace", Recorded(req[q].on, req[q].state.next)
  PROVE  /\ Grows /\ req[q].on \in Sessions
         /\ RotatedState(req[q].state, req[q].pin) \in State
         /\ StateShown(RotatedState(req[q].state, req[q].pin), shown'[req[q].on])
         /\ RotatedRow(row[req[q].on], req[q].state) \in Row
         /\ HashesShown(RotatedRow(row[req[q].on], req[q].state), shown'[req[q].on])
<1> DEFINE s == req[q].on
           st == req[q].state
           after == req[q].pin
<1>1. req[q] \in Request /\ s \in Sessions /\ row[s] \in Row
  BY DEF PinsInv, TablesOK, Request
<1>2. /\ st \in State /\ st.current \in shown[s] /\ st.mode = "rotating" /\ after \in Pins
  BY DEF PinsInv, RequestsShown, RequestShown, Carrying
<1>3. st.next \in Pins /\ st.current \in Pins
  BY <1>2 DEF State
<1>4. Grows /\ st.next \in shown'[s]
  BY <1>1, <1>3, Noted DEF PinsInv
<1>5. st.current \in shown'[s]
  BY <1>1, <1>2, <1>4 DEF Grows
<1> HIDE DEF s, st, after
<1>6. RotatedState(st, after) \in State /\ RotatedState(st, after).current = st.next
  BY <1>2, <1>3 DEF RotatedState, State, MaybePin
<1>7. /\ RotatedRow(row[s], st) \in Row
      /\ RotatedRow(row[s], st).current = st.next /\ RotatedRow(row[s], st).previous = st.current
  BY <1>1, <1>3 DEF RotatedRow, Row, MaybePin
<1>8. StateShown(RotatedState(st, after), shown'[s]) /\ HashesShown(RotatedRow(row[s], st), shown'[s])
  BY <1>4, <1>5, <1>6, <1>7 DEF StateShown, HashesShown
<1> QED
  BY <1>1, <1>4, <1>6, <1>7, <1>8 DEF s, st, after

LEMMA RotatingKeeps ==
  ASSUME PinsInv, NEW q \in Actors, RotateEnds(q) \/ RotateIsLost(q)
  PROVE  PinsInv'
<1> DEFINE s == req[q].on
           st == RotatedState(req[q].state, req[q].pin)
           r == RotatedRow(row[s], req[q].state)
<1>1. /\ req[q].next = "grace" /\ Recorded(s, req[q].state.next) /\ Ends(q)
      /\ key' = Claimed(key, {req[q].state.current}, s)
      /\ state' = [state EXCEPT ![s] = st]
      /\ UNCHANGED << admitted, tick >>
  BY DEF RotateEnds, RotateIsLost
<1>2. /\ Grows /\ s \in Sessions
      /\ st \in State /\ StateShown(st, shown'[s])
      /\ r \in Row /\ HashesShown(r, shown'[s])
  BY <1>1, RotatedShown
<1>3. row' = [row EXCEPT ![s] = r] \/ UNCHANGED row
  BY DEF RotateEnds, RotateIsLost
<1>4. key' \in [Pins -> Sessions \cup {NoSession}] /\ tick' \in Tick
  BY <1>1, <1>2, KeysType DEF PinsInv, TablesOK
<1> HIDE DEF s, st, r
<1>5. row' \in [Sessions -> Row] /\ RowsShown'
  BY <1>2, <1>3, RowWritten, RowsKept
<1>6. state' \in [Sessions -> State \cup {NoState}] /\ StatesShown'
  BY <1>1, <1>2, StateWritten
<1> QED
  BY <1>1, <1>2, <1>4, <1>5, <1>6, RequestOver, AdmittedKept, Assembled
-----------------------------------------------------------------------------
(* Closing, checking in, the worker, time.                                  *)

LEMMA ClosingKeeps ==
  ASSUME PinsInv, NEW q \in Actors, Close(q)
  PROVE  PinsInv'
<1> DEFINE s == req[q].on
           old == row[s]
           closed == ClosedRow(old)
           r == IF Exists(s) THEN closed ELSE old
<1>1. Grows /\ UNCHANGED << key, state, shown, admitted, tick >>
  BY SameHistory DEF Close, PinsInv
<1>2. s \in Sessions /\ old \in Row /\ HashesShown(old, shown[s]) /\ state[s] \in State \cup {NoState}
  BY DEF PinsInv, TablesOK, Request, RowsShown
<1>3. closed \in Row /\ HashesShown(closed, shown'[s])
  BY <1>2 DEF ClosedRow, Row, MaybePin, HashesShown
<1>4. row' = [row EXCEPT ![s] = r]
  BY DEF Close, PinsInv, TablesOK
<1>5. req' = [req EXCEPT ![q].next = "clean", ![q].state = state[s]]
  BY DEF Close
<1>6. req' \in [Actors -> Request] /\ RequestsShown'
  BY <1>1, <1>2, <1>5, RequestTakes DEF Carrying
<1> HIDE DEF closed, old
<1>7. r \in Row /\ HashesShown(r, shown'[s])
  BY <1>1, <1>2, <1>3
<1> HIDE DEF r, s
<1>8. row' \in [Sessions -> Row] /\ RowsShown'
  BY <1>1, <1>2, <1>4, <1>7, RowWritten
<1>9. key' \in [Pins -> Sessions \cup {NoSession}] /\ tick' \in Tick
  BY <1>1 DEF PinsInv, TablesOK
<1> QED
  BY <1>1, <1>6, <1>8, <1>9, StatesKept, AdmittedKept, Assembled

LEMMA CleaningKeeps ==
  ASSUME PinsInv, NEW q \in Actors, Clean(q)
  PROVE  PinsInv'
<1> DEFINE s == req[q].on
<1>1. Grows /\ Ends(q) /\ UNCHANGED << row, shown, admitted, tick >>
  BY SameHistory DEF Clean, PinsInv
<1>2. s \in Sessions
  BY DEF PinsInv, TablesOK, Request
<1>3. state' = [state EXCEPT ![s] = NoState] /\ StateShown(NoState, shown'[s])
  BY DEF Clean, StateShown
<1>4. state' \in [Sessions -> State \cup {NoState}] /\ StatesShown'
  BY <1>1, <1>2, <1>3, StateWritten
<1>5. key' \in [Pins -> Sessions \cup {NoSession}] /\ tick' \in Tick
  BY <1>1, <1>2, KeysType DEF Clean, PinsInv, TablesOK
<1> QED
  BY <1>1, <1>4, <1>5, RowsKept, RequestOver, AdmittedKept, Assembled

\* A check-in is admitted by the hashes of the row, which have been shown.
LEMMA VerifyingKeeps ==
  ASSUME PinsInv, NEW q \in Actors, Verify(q)
  PROVE  PinsInv'
<1> DEFINE s == req[q].on
           pin == req[q].pin
<1>1. Grows /\ Ends(q) /\ UNCHANGED << row, key, state, shown, tick >>
  BY SameHistory DEF Verify, PinsInv
<1>2. s \in Sessions /\ pin \in Pins /\ HashesShown(row[s], shown[s])
  BY DEF PinsInv, TablesOK, Request, RowsShown, RequestsShown, RequestShown, Verify
<1>3. Admissible(row[s], pin) => pin \in shown[s]
  BY <1>2, PinsAssumption DEF Admissible, Accepts, HashesShown
<1>4. admitted' \in [Sessions -> SUBSET Pins] /\ AdmittedWasShown'
  <2>1. CASE Admissible(row[s], pin)
    BY <1>1, <1>2, <1>3, <2>1 DEF Verify, PinsInv, TablesOK, AdmittedWasShown
  <2>2. CASE ~ Admissible(row[s], pin)
    BY <1>1, <2>2 DEF Verify, PinsInv, TablesOK, AdmittedWasShown
  <2> QED
    BY <2>1, <2>2
<1>5. key' \in [Pins -> Sessions \cup {NoSession}] /\ tick' \in Tick
  BY <1>1 DEF PinsInv, TablesOK
<1> QED
  BY <1>1, <1>4, <1>5, RowsKept, StatesKept, RequestOver, Assembled

\* The worker's own steps, which plan what to visit and visit it.
LEMMA PlanningKeeps ==
  ASSUME PinsInv, TickBegins \/ TickMaintains \/ TickEnds
  PROVE  PinsInv'
<1>1. UNCHANGED << row, key, state, shown, admitted, req >>
  BY DEF TickBegins, TickMaintains, TickEnds
<1>2. Grows
  BY <1>1, SameHistory DEF PinsInv
<1>3. tick' \in Tick
  <2>1. CASE TickBegins
    BY <2>1 DEF TickBegins, DueDrafts, Tick, PinsInv, TablesOK
  <2>2. CASE TickMaintains
    BY <2>2, ListedType DEF TickMaintains, Tick, PinsInv, TablesOK
  <2>3. CASE TickEnds
    BY <2>3, NothingRead DEF TickEnds
  <2> QED
    BY <2>1, <2>2, <2>3
<1>4. key' \in [Pins -> Sessions \cup {NoSession}]
  BY <1>1 DEF PinsInv, TablesOK
<1> QED
  BY <1>1, <1>2, <1>3, <1>4, RowsKept, StatesKept, RequestsKept, AdmittedKept, Assembled

LEMMA VisitingKeeps ==
  ASSUME PinsInv, NEW s \in Sessions, TickVisits(s)
  PROVE  PinsInv'
<1>1. Grows /\ UNCHANGED << row, key, state, shown, admitted >>
  BY SameHistory DEF TickVisits, PinsInv
<1>2. /\ tick.rows[s] \in Row /\ tick' \in Tick
      /\ Worker \in Actors /\ NoPin \in MaybePin
  BY DEF TickVisits, PinsInv, TablesOK, Tick, Actors, MaybePin
<1> DEFINE next == IF tick.phase = "open" THEN "start"
                   ELSE IF Expired(tick.rows[s]) THEN "close" ELSE "resolve"
           x == [next |-> next, then |-> "none", on |-> s, row |-> tick.rows[s],
                 synced |-> NoRow, state |-> NoState, pin |-> NoPin]
<1>3. next \in {"start", "close", "resolve"} /\ NoRow \in Row
  BY NothingRead
<1>4. req' = [req EXCEPT ![Worker] = x]
  BY DEF TickVisits
<1> HIDE DEF next
<1>5. x \in Request /\ RequestShown(x, shown')
  BY <1>2, <1>3 DEF Request, RequestShown, Carrying, ToSave
<1> HIDE DEF x
<1>6. req' \in [Actors -> Request] /\ RequestsShown'
  BY <1>1, <1>2, <1>4, <1>5, RequestWritten
<1>7. key' \in [Pins -> Sessions \cup {NoSession}]
  BY <1>1 DEF PinsInv, TablesOK
<1> QED
  BY <1>1, <1>2, <1>6, <1>7, RowsKept, StatesKept, AdmittedKept, Assembled

\* Time changes what a row says of the clock, not its hashes.
LEMMA PassingKeeps ==
  ASSUME PinsInv, NEW s \in Sessions, Begins(s) \/ EndPasses(s) \/ Expires(s) \/ GraceEnds(s)
  PROVE  PinsInv'
<1>1. Grows /\ UNCHANGED << key, state, shown, admitted, req, tick >>
  BY SameHistory DEF Begins, EndPasses, Expires, GraceEnds, PinsInv
<1>2. row[s] \in Row /\ HashesShown(row[s], shown[s]) /\ row \in [Sessions -> Row]
  BY DEF PinsInv, TablesOK, RowsShown
<1>3. PICK r \in {[row[s] EXCEPT !.begun = TRUE], [row[s] EXCEPT !.over = TRUE],
                  [row[s] EXCEPT !.expiry = "past"], [row[s] EXCEPT !.grace = FALSE]} :
        row' = [row EXCEPT ![s] = r]
  BY <1>2 DEF Begins, EndPasses, Expires, GraceEnds
<1>a. r \in Row /\ r.current = row[s].current /\ r.previous = row[s].previous
  BY <1>2 DEF Row
<1>4. HashesShown(r, shown'[s])
  BY <1>1, <1>2, <1>a DEF HashesShown
<1>5. row' \in [Sessions -> Row] /\ RowsShown'
  BY <1>1, <1>3, <1>4, <1>a, RowWritten
<1>6. key' \in [Pins -> Sessions \cup {NoSession}] /\ tick' \in Tick
  BY <1>1 DEF PinsInv, TablesOK
<1> QED
  BY <1>1, <1>5, <1>6, StatesKept, RequestsKept, AdmittedKept, Assembled

\* Redis loses a key, or everything.
LEMMA ForgettingKeeps ==
  ASSUME PinsInv, (\E p \in Pins : KeyExpires(p)) \/ RedisFlush
  PROVE  PinsInv'
<1>1. Grows /\ UNCHANGED << row, shown, admitted, req, tick >>
  BY SameHistory DEF KeyExpires, RedisFlush, PinsInv
<1>2. key' \in [Pins -> Sessions \cup {NoSession}] /\ tick' \in Tick
  BY <1>1 DEF KeyExpires, RedisFlush, PinsInv, TablesOK
<1>3. state' \in [Sessions -> State \cup {NoState}] /\ StatesShown'
  <2>1. CASE UNCHANGED state
    BY <1>1, <2>1, StatesKept
  <2>2. CASE state' = [s \in Sessions |-> NoState]
    BY <2>2 DEF StatesShown, StateShown
  <2> QED
    BY <2>1, <2>2 DEF KeyExpires, RedisFlush
<1> QED
  BY <1>1, <1>2, <1>3, RowsKept, RequestsKept, AdmittedKept, Assembled
-----------------------------------------------------------------------------
(* The invariant.                                                           *)

LEMMA InitShown == Init => PinsInv
<1> SUFFICES ASSUME Init PROVE PinsInv
  OBVIOUS
<1>1. TablesOK
  BY NothingRead DEF Init, TablesOK
<1>2. RowsShown /\ StatesShown /\ AdmittedWasShown
  BY NothingRead DEF Init, RowsShown, HashesShown, StatesShown, StateShown, AdmittedWasShown
<1>3. RequestsShown
  BY NothingRead DEF Init, RequestsShown, RequestShown, Carrying, ToSave
<1> QED
  BY <1>1, <1>2, <1>3 DEF PinsInv

\* The steps that end a request, whatever else they do to the tick.
LEMMA GivingUpKeeps ==
  ASSUME PinsInv, NEW q \in Actors,
         SyncFails(q) \/ StartFails(q) \/ RotateRefused(q)
  PROVE  PinsInv'
<1>1. Ends(q) /\ UNCHANGED << row, key, state, shown, admitted >>
  BY DEF SyncFails, StartFails, RotateRefused
<1>2. tick' \in Tick
  BY TickGivenUp DEF SyncFails, StartFails, RotateRefused, PinsInv, TablesOK
<1> QED
  BY <1>1, <1>2, EndingKeeps

\* A handler goes on without the PIN, with the row that was synced.
LEMMA FailingToRehydrateKeeps ==
  ASSUME PinsInv, NEW q \in Actors, RehydrateFails(q)
  PROVE  PinsInv'
<1>1. Grows /\ GoesOnWith(q, req[q].synced) /\ UNCHANGED << row, key, state, shown, admitted >>
  BY SameHistory DEF RehydrateFails, PinsInv
<1>2. /\ req[q].synced \in Row /\ req[q].on \in Sessions
      /\ req[q].then = "save" => HashesShown(req[q].synced, shown[req[q].on])
  BY DEF PinsInv, TablesOK, Request, RequestsShown, RequestShown, ToSave
<1>3. req' \in [Actors -> Request] /\ RequestsShown'
  BY <1>1, <1>2, HandlerGoesOn
<1>4. tick' \in Tick
  BY TickGivenUp DEF RehydrateFails, PinsInv, TablesOK
<1>5. key' \in [Pins -> Sessions \cup {NoSession}]
  BY <1>1 DEF PinsInv, TablesOK
<1> QED
  BY <1>1, <1>3, <1>4, <1>5, RowsKept, StatesKept, AdmittedKept, Assembled

LEMMA StepKeepsShown ==
  ASSUME PinsInv, NEW q \in Actors, Step(q)
  PROVE  PinsInv'
<1>1. CASE Start(q)
  BY <1>1, StartingKeeps
<1>2. CASE StartFails(q) \/ RotateRefused(q)
  BY <1>2, GivingUpKeeps
<1>3. CASE Resolve(q)
  BY <1>3, ResolvingKeeps
<1>14. CASE Look(q)
  BY <1>14, ReadingKeeps
<1>15. CASE RehydrateFails(q)
  BY <1>15, FailingToRehydrateKeeps
<1>4. CASE Rehydrate(q)
  BY <1>4, RehydratingKeeps
<1>5. CASE StoreState(q)
  BY <1>5, StoringKeeps
<1>6. CASE Reconcile(q)
  BY <1>6, ReconcilingKeeps
<1>7. CASE RotateBlocksItself(q)
  BY <1>7, BlockingKeeps
<1>8. CASE RotateStatic(q)
  BY <1>8, RotatingStaticKeeps
<1>9. CASE RotateBegins(q)
  BY <1>9, BeginningToRotateKeeps
<1>10. CASE RotateEnds(q)
  BY <1>10, RotatingKeeps
<1>11. CASE Close(q)
  BY <1>11, ClosingKeeps
<1>12. CASE Clean(q)
  BY <1>12, CleaningKeeps
<1>13. CASE Verify(q)
  BY <1>13, VerifyingKeeps
<1> QED
  BY <1>1, <1>2, <1>3, <1>4, <1>5, <1>6, <1>7, <1>8, <1>9, <1>10, <1>11, <1>12, <1>13, <1>14, <1>15
     DEF Step

\* A request of a teacher, a screen or a student comes in.
LEMMA RequestingKeeps ==
  ASSUME PinsInv, Starting(TRUE) \/ Showing \/ Managing \/ Editing \/ CheckingIn
  PROVE  PinsInv'
<1>1. PICK q \in Requests, s \in Sessions :
        \/ AskToActivate(q, s) \/ AskToStart(q, s) \/ AskForPin(q, s) \/ AskToRotate(q, s)
        \/ AskToClose(q, s) \/ ReadToEdit(q, s) \/ ReadToDelete(q, s) \/ LookAt(q, s)
        \/ \E p \in Pins : TypePin(q, s, p)
  BY DEF Starting, Showing, Managing, Editing, CheckingIn
<1>2. CASE \/ AskToActivate(q, s) \/ AskToClose(q, s) \/ ReadToEdit(q, s) \/ ReadToDelete(q, s)
           \/ LookAt(q, s)
  BY <1>2, LookingFirstKeeps DEF AskToActivate, AskToClose, ReadToEdit, ReadToDelete, LookAt
<1>3. NoRow \in Row /\ NoPin \in MaybePin /\ Pins \subseteq MaybePin /\ Listed(row[s]) \in Row
  BY NothingRead, ListedType DEF MaybePin, PinsInv, TablesOK
<1>4. CASE AskToStart(q, s)
  BY <1>3, <1>4, AskingKeeps DEF AskToStart
<1>5. CASE AskForPin(q, s)
  BY <1>3, <1>5, AskingKeeps DEF AskForPin
<1>6. CASE AskToRotate(q, s)
  BY <1>3, <1>6, AskingKeeps DEF AskToRotate
<1>7. ASSUME NEW p \in Pins, TypePin(q, s, p) PROVE PinsInv'
  BY <1>3, <1>7, AskingKeeps DEF TypePin
<1> QED
  BY <1>1, <1>2, <1>4, <1>5, <1>6, <1>7

LEMMA NextKeepsShown ==
  ASSUME PinsInv, [Next]_vars
  PROVE  PinsInv'
<1>1. CASE Creating(BOOLEAN, Pins)
  BY <1>1, CreatingKeeps DEF Creating
<1>2. CASE Starting(TRUE) \/ Showing \/ Managing \/ Editing \/ CheckingIn
  BY <1>2, RequestingKeeps
<1>3. CASE Viewing
  BY <1>3, LookingKeeps DEF Viewing
<1>4. CASE Saving(MaybePin)
  <2>1. PICK q \in Requests :
          \/ \E auto, begun, over \in BOOLEAN, code \in MaybePin \cup {req[q].row.code} :
               SaveEdited(q, auto, code, begun, over)
          \/ Refresh(q) \/ SyncFails(q) \/ DeleteSession(q)
    BY <1>4 DEF Saving
  <2>2. q \in Actors /\ req[q].row.code \in MaybePin
    BY DEF Actors, PinsInv, TablesOK, Request, Row
  <2>3. CASE \E auto, begun, over \in BOOLEAN, code \in MaybePin \cup {req[q].row.code} :
               SaveEdited(q, auto, code, begun, over)
    BY <2>2, <2>3, SavingKeeps
  <2>4. CASE Refresh(q)
    BY <2>2, <2>4, RefreshingKeeps
  <2>5. CASE SyncFails(q)
    BY <2>2, <2>5, GivingUpKeeps
  <2>6. CASE DeleteSession(q)
    BY <2>2, <2>6, DeletingKeeps
  <2> QED
    BY <2>1, <2>3, <2>4, <2>5, <2>6
<1>5. CASE \E q \in Actors : Step(q)
  BY <1>5, StepKeepsShown
<1>6. CASE Ticking
  BY <1>6, PlanningKeeps, VisitingKeeps DEF Ticking
<1>7. CASE Passing
  BY <1>7, PassingKeeps, ForgettingKeeps DEF Passing
<1>8. CASE Failing
  BY <1>8, LosingStartKeeps, RotatingKeeps DEF Failing
<1>9. CASE RedisFlush
  BY <1>9, ForgettingKeeps
<1>10. CASE UNCHANGED vars
  <2>1. Grows /\ UNCHANGED << row, key, state, shown, admitted, req, tick >>
    BY <1>10, SameHistory DEF vars, PinsInv
  <2>2. key' \in [Pins -> Sessions \cup {NoSession}] /\ tick' \in Tick
    BY <2>1 DEF PinsInv, TablesOK
  <2> QED
    BY <2>1, <2>2, RowsKept, StatesKept, RequestsKept, AdmittedKept, Assembled
<1> QED
  BY <1>1, <1>2, <1>3, <1>4, <1>5, <1>6, <1>7, <1>8, <1>9, <1>10 DEF Next, Act

LEMMA AlwaysShown == Spec => []PinsInv
BY InitShown, NextKeepsShown, PTL DEF Spec

\* Rows, Redis and requests in flight stay well formed: above all, a runtime
\* state that rotates always has a PIN reserved to rotate to, also one that a
\* worker or a request carries from an earlier read to a later write.
THEOREM PinTypes == Spec => []TypeOK
<1>1. Init => stale \subseteq Actors \X Sessions
  BY DEF Init
<1>2. stale \subseteq Actors \X Sessions /\ [Next]_vars => (stale \subseteq Actors \X Sessions)'
  BY DEF Next, Remembers, vars
<1>3. PinsInv /\ stale \subseteq Actors \X Sessions => TypeOK
  BY DEF PinsInv, TypeOK
<1> QED
  BY <1>1, <1>2, <1>3, AlwaysShown, PTL DEF Spec

\* Nobody checks in with a PIN that the session has never had (StudentCheckIn
\* compares with the hashes of the row), whatever two teachers, the worker, a
\* rotation that is rolled back or a flush of Redis did to row, keys and state.
THEOREM NeverShownNeverIn == Spec => []AdmittedWasShown
<1>1. PinsInv => AdmittedWasShown
  BY DEF PinsInv
<1> QED
  BY <1>1, AlwaysShown, PTL
-----------------------------------------------------------------------------
(* What opens a closed session, however the operations overlap.             *)

\* q goes on from a row of s that was active as it was read.
ActiveAsRead(x) ==
  x.next = "rehydrate" \/ (x.next = "resolve" /\ x.row.status = "active")

HeldActive(q, s) ==
  \/ req[q].on = s /\ ActiveAsRead(req[q])
  \/ q = Worker /\ tick.phase = "maintain" /\ s \in tick.todo

\* A session is closed before its end only while an edit is being refreshed.
ClosedIsOver ==
  \A s \in Sessions : row[s].status = "closed" =>
    row[s].over \/ \E q \in Actors : req[q].on = s /\ req[q].next = "refresh"

\* Who believes that a closed session is active has read it before the close.
BeliefIsStale ==
  \A q \in Actors, s \in Sessions :
    HeldActive(q, s) /\ row[s].status = "closed" => <<q, s>> \in stale

\* Between two ticks nothing is left to visit.
NothingLeft == tick.phase = "idle" => tick.todo = {}

CloseInv == ClosedIsOver /\ BeliefIsStale /\ NothingLeft

\* What the worker has before it is believed to be active.
TodoHeld ==
  /\ NothingLeft'
  /\ tick'.phase = "maintain" =>
       \A t \in tick'.todo : row[t].status = "closed" => HeldActive(Worker, t)

LEMMA TodoKept ==
  ASSUME TablesOK, CloseInv, tick' = tick \/ tick' = [tick EXCEPT !.todo = {}]
  PROVE  TodoHeld
BY DEF CloseInv, NothingLeft, TodoHeld, HeldActive, TablesOK, Tick

\* A step that writes one row and one request.
LEMMA StatusStep ==
  ASSUME TablesOK, CloseInv, NEW q \in Actors, NEW s \in Sessions, NEW r, NEW x,
         row' = [row EXCEPT ![s] = r], req' = [req EXCEPT ![q] = x], TodoHeld, Remembers,
         r.status = "closed" =>
           \/ r.over
           \/ x.next = "refresh" /\ x.on = s
           \/ /\ row[s].status = "closed" /\ (row[s].over => r.over)
              /\ req[q].next # "refresh" \/ x = req[q],
         r.status = "active" /\ row[s].status = "closed" => ~ row[s].over \/ MayReopen(q, s),
         ActiveAsRead(x) /\ row[x.on].status = "closed" => HeldActive(q, x.on),
         req[q].next = "refresh" /\ x # req[q] => req[q].on = s
  PROVE  CloseInv' /\ ReopenedRightly
<1>1. /\ row'[s] = r /\ \A t \in Sessions : t # s => row'[t] = row[t]
      /\ req'[q] = x /\ \A a \in Actors : a # q => req'[a] = req[a]
  BY DEF TablesOK
<1>2. ClosedIsOver'
  <2> SUFFICES ASSUME NEW t \in Sessions, row'[t].status = "closed", ~ row'[t].over
               PROVE  \E a \in Actors : req'[a].on = t /\ req'[a].next = "refresh"
    BY DEF ClosedIsOver
  <2>1. CASE row[t].status = "closed" /\ ~ row[t].over /\ (t # s \/ req[q].next # "refresh" \/ x = req[q])
    <3>1. PICK a \in Actors : req[a].on = t /\ req[a].next = "refresh"
      BY <2>1 DEF CloseInv, ClosedIsOver
    <3>2. req'[a] = req[a]
      BY <1>1, <2>1, <3>1
    <3> QED BY <3>1, <3>2
  <2>2. CASE t = s /\ x.next = "refresh" /\ x.on = s
    BY <1>1, <2>2
  <2> QED BY <1>1, <2>1, <2>2
<1>3. BeliefIsStale'
  <2> SUFFICES ASSUME NEW a \in Actors, NEW t \in Sessions, HeldActive(a, t)', row'[t].status = "closed"
               PROVE  <<a, t>> \in stale'
    BY DEF BeliefIsStale
  <2>1. Holds(a, t)'
    BY DEF Holds, HeldActive, ActiveAsRead
  <2>2. row[t].status = "closed" => HeldActive(a, t)
    <3>1. CASE a = Worker /\ tick'.phase = "maintain" /\ t \in tick'.todo
      BY <3>1 DEF TodoHeld
    <3>2. CASE req'[a].on = t /\ ActiveAsRead(req'[a])
      BY <1>1, <3>2 DEF HeldActive
    <3> QED BY <3>1, <3>2 DEF HeldActive, ActiveAsRead
  <2>3. row[t].status = "closed" => <<a, t>> \in stale
    BY <2>2 DEF CloseInv, BeliefIsStale
  <2>4. <<a, t>> \in Actors \X Sessions /\ <<a, t>>[1] = a /\ <<a, t>>[2] = t
    OBVIOUS
  <2> QED BY <2>1, <2>3, <2>4 DEF Remembers
<1>4. ReopenedRightly
  <2> SUFFICES ASSUME NEW t \in Sessions, row[t].status = "closed", row'[t].status = "active"
               PROVE  \E a \in Actors : MayReopen(a, t)
    BY DEF ReopenedRightly
  <2>1. t = s
    BY <1>1
  <2>2. CASE ~ row[s].over
    <3>1. PICK a \in Actors : req[a].on = s /\ req[a].next = "refresh"
      BY <2>1, <2>2 DEF CloseInv, ClosedIsOver
    <3> QED BY <2>1, <3>1 DEF MayReopen
  <2> QED BY <1>1, <2>1, <2>2
<1>5. NothingLeft'
  BY DEF TodoHeld
<1> QED BY <1>2, <1>3, <1>4, <1>5 DEF CloseInv

\* A step that opens and closes nothing, and goes on from no row.
LEMMA PlainStep ==
  ASSUME TablesOK, CloseInv, NEW q \in Actors, NEW s \in Sessions, NEW r, NEW x,
         row' = [row EXCEPT ![s] = r], req' = [req EXCEPT ![q] = x], TodoHeld, Remembers,
         \/ r.status = row[s].status /\ (row[s].over => r.over)
         \/ r.status \in {"draft", "deleted"},
         x = req[q] \/ (req[q].next # "refresh" /\ x.next \notin {"resolve", "rehydrate"})
  PROVE  CloseInv' /\ ReopenedRightly
<1>1. ActiveAsRead(x) /\ row[x.on].status = "closed" => HeldActive(q, x.on)
  BY DEF ActiveAsRead, HeldActive
<1>2. r.status = "active" /\ row[s].status = "closed" => ~ row[s].over \/ MayReopen(q, s)
  OBVIOUS
<1>3. req[q].next = "refresh" /\ x # req[q] => req[q].on = s
  OBVIOUS
<1>4. r.status = "closed" =>
        row[s].status = "closed" /\ (row[s].over => r.over) /\ (req[q].next # "refresh" \/ x = req[q])
  OBVIOUS
<1> QED BY <1>1, <1>2, <1>3, <1>4, StatusStep

\* The same of a step that leaves the rows alone.
LEMMA StillStep ==
  ASSUME TablesOK, CloseInv, NEW q \in Actors, NEW x, UNCHANGED row,
         req' = [req EXCEPT ![q] = x], TodoHeld, Remembers, req[q].next # "refresh",
         ActiveAsRead(x) /\ row[x.on].status = "closed" => HeldActive(q, x.on)
  PROVE  CloseInv' /\ ReopenedRightly
<1>1. PICK s \in Sessions : TRUE
  BY PinsAssumption
<1>2. row' = [row EXCEPT ![s] = row[s]]
  BY DEF TablesOK
<1> DEFINE r == row[s]
<1>3. /\ r.status = "closed" => row[s].status = "closed" /\ (row[s].over => r.over)
      /\ ~ (r.status = "active" /\ row[s].status = "closed")
  OBVIOUS
<1> QED BY <1>2, <1>3, StatusStep

\* A request that ends, the rows being left alone.
LEMMA StillEnd ==
  ASSUME TablesOK, CloseInv, NEW q \in Actors, UNCHANGED row, Ends(q), TodoHeld, Remembers,
         req[q].next # "refresh"
  PROVE  CloseInv' /\ ReopenedRightly
<1>1. ~ ActiveAsRead(NoRequest)
  BY NothingRead DEF ActiveAsRead
<1> QED BY <1>1, StillStep DEF Ends

\* A handler that goes on after its look.
LEMMA StillGoingOn ==
  ASSUME TablesOK, CloseInv, NEW q \in Actors, NEW r, UNCHANGED row, GoesOnWith(q, r), TodoHeld,
         Remembers, req[q].next # "refresh"
  PROVE  CloseInv' /\ ReopenedRightly
<1> DEFINE x == Onward(req[q], r)
<1>1. req[q].then \in {"none", "start", "close", "save", "delete"}
  BY DEF TablesOK, Request
<1>2. x = NoRequest \/ x.next = req[q].then
  BY NothingRead DEF Onward, Request
<1>3. req' = [req EXCEPT ![q] = x]
  BY DEF GoesOnWith
<1> HIDE DEF x
<1>4. ~ ActiveAsRead(x)
  BY <1>1, <1>2, NothingRead DEF ActiveAsRead
<1> QED BY <1>3, <1>4, StillStep

\* A row that is brought up to date by a look.
LEMMA SyncedStep ==
  ASSUME TablesOK, CloseInv, NEW q \in Actors, NEW s \in Sessions, NEW after \in ViewsOf(s), NEW x,
         row' = [row EXCEPT ![s] = after], req' = [req EXCEPT ![q] = x], UNCHANGED tick, Remembers,
         x = req[q] \/ x.next \notin {"resolve", "rehydrate"},
         req[q].next = "refresh" /\ x # req[q] => req[q].on = s
  PROVE  CloseInv' /\ ReopenedRightly
<1>1. after.over = row[s].over /\ (after.status = "closed" => row[s].over) /\
      (after.status = "active" => ~ row[s].over)
  BY ViewsByTheClock
<1>2. TodoHeld
  BY TodoKept
<1>3. ActiveAsRead(x) /\ row[x.on].status = "closed" => HeldActive(q, x.on)
  BY DEF ActiveAsRead, HeldActive
<1> QED BY <1>1, <1>2, <1>3, StatusStep

\* Looks, and requests that begin.
LEMMA AskingOpensNone ==
  ASSUME TablesOK, CloseInv, Remembers,
         Starting(TRUE) \/ Showing \/ Managing \/ Editing \/ CheckingIn
  PROVE  CloseInv' /\ ReopenedRightly
<1>1. PICK q \in Requests, s \in Sessions :
        \/ \E then \in {"none", "start", "close", "save", "delete"} : ViewsFor(q, s, then)
        \/ AskToStart(q, s) \/ AskForPin(q, s) \/ AskToRotate(q, s)
        \/ \E p \in Pins : TypePin(q, s, p)
  BY DEF Starting, Showing, Managing, Editing, CheckingIn, AskToActivate, AskToClose, ReadToEdit,
         ReadToDelete, LookAt
<1>2. q \in Actors
  BY DEF Actors
<1>3. ASSUME NEW then, ViewsFor(q, s, then) PROVE CloseInv' /\ ReopenedRightly
  <2>1. PICK after \in ViewsOf(s) :
          /\ Syncs(s, after)
          /\ LET seen == IF then = "save" THEN after ELSE NoRow IN
             req' = [req EXCEPT ![q] =
               [next |-> "look", then |-> then, on |-> s, row |-> seen,
                synced |-> seen, state |-> NoState, pin |-> NoPin]]
    BY <1>3 DEF ViewsFor
  <2> DEFINE seen == IF then = "save" THEN after ELSE NoRow
             x == [next |-> "look", then |-> then, on |-> s, row |-> seen,
                   synced |-> seen, state |-> NoState, pin |-> NoPin]
  <2>2. /\ req' = [req EXCEPT ![q] = x] /\ x.next = "look" /\ UNCHANGED tick
        /\ row' = [row EXCEPT ![s] = after] /\ req[q].next = "none"
    BY <1>3, <2>1 DEF ViewsFor, Syncs
  <2> HIDE DEF x
  <2> QED BY <1>2, <2>2, SyncedStep
<1>4. ASSUME NEW next \in {"start", "resolve", "rotate", "verify"}, NEW seen, NEW pin,
             next = "resolve" => seen = Listed(row[s]),
             Asks(q, s, next, seen, pin), UNCHANGED << row, tick >>
      PROVE  CloseInv' /\ ReopenedRightly
  <2> DEFINE x == [next |-> next, then |-> "none", on |-> s, row |-> seen, synced |-> NoRow,
                   state |-> NoState, pin |-> pin]
  <2>1. req' = [req EXCEPT ![q] = x] /\ req[q].next = "none"
    BY <1>4 DEF Asks
  <2>2. x.next = next /\ x.on = s /\ x.row = seen
    OBVIOUS
  <2>3. Listed(row[s]).status = row[s].status
    BY ListedType DEF TablesOK
  <2> HIDE DEF x
  <2>4. ~ (ActiveAsRead(x) /\ row[x.on].status = "closed")
    BY <1>4, <2>2, <2>3 DEF ActiveAsRead
  <2>5. TodoHeld
    BY <1>4, TodoKept
  <2> QED BY <1>2, <1>4, <2>1, <2>4, <2>5, StillStep
<1>5. CASE AskToStart(q, s)
  BY <1>4, <1>5 DEF AskToStart
<1>6. CASE AskForPin(q, s)
  BY <1>4, <1>6 DEF AskForPin
<1>7. CASE AskToRotate(q, s)
  BY <1>4, <1>7 DEF AskToRotate
<1>8. ASSUME NEW p \in Pins, TypePin(q, s, p) PROVE CloseInv' /\ ReopenedRightly
  BY <1>4, <1>8 DEF TypePin
<1> QED BY <1>1, <1>3, <1>5, <1>6, <1>7, <1>8

\* A look at the list.
LEMMA ViewingOpensNone ==
  ASSUME TablesOK, CloseInv, Remembers, Viewing
  PROVE  CloseInv' /\ ReopenedRightly
<1>1. PICK s \in Sessions : ViewSession(s)
  BY DEF Viewing
<1>2. PICK after \in ViewsOf(s) : Syncs(s, after)
  BY <1>1 DEF ViewSession
<1>3. Worker \in Actors /\ req' = [req EXCEPT ![Worker] = req[Worker]]
  BY <1>1 DEF ViewSession, Actors, TablesOK
<1> DEFINE x == req[Worker]
<1>4. x = req[Worker]
  OBVIOUS
<1> QED BY <1>1, <1>2, <1>3, <1>4, SyncedStep DEF ViewSession, Syncs

\* The steps that end a request and open nothing.
LEMMA EndingOpensNone ==
  ASSUME TablesOK, CloseInv, Remembers, NEW q \in Actors,
         \/ StartFails(q) \/ StartIsLost(q) \/ RotateRefused(q) \/ RotateIsLost(q) \/ SyncFails(q)
         \/ Verify(q) \/ Clean(q)
         \/ Start(q) /\ UNCHANGED row
         \/ Reconcile(q) /\ UNCHANGED row
  PROVE  CloseInv' /\ ReopenedRightly
<1>1. /\ UNCHANGED row /\ Ends(q) /\ req[q].next # "refresh"
      /\ tick' = tick \/ tick' = [tick EXCEPT !.todo = {}]
  BY DEF StartFails, StartIsLost, RotateRefused, RotateIsLost, SyncFails, Verify, Clean, Start, Reconcile
<1> QED BY <1>1, TodoKept, StillEnd

\* The steps that bring a row in line, rotate it or delete it.
LEMMA WritingOpensNone ==
  ASSUME TablesOK, CloseInv, Remembers, NEW q \in Actors,
         \/ DeleteSession(q) \/ RotateStatic(q) \/ RotateEnds(q)
         \/ Reconcile(q) /\ ~ UNCHANGED row
  PROVE  CloseInv' /\ ReopenedRightly
<1> DEFINE s == req[q].on
<1>1. s \in Sessions /\ row[s] \in Row
  BY DEF TablesOK, Request
<1>2. Ends(q) /\ UNCHANGED tick /\ req[q].next # "refresh"
  BY DEF DeleteSession, RotateStatic, RotateEnds, Reconcile
<1>3. PICK r : /\ row' = [row EXCEPT ![s] = r]
               /\ \/ r.status = row[s].status /\ (row[s].over => r.over)
                  \/ r.status \in {"draft", "deleted"}
  <2>1. CASE DeleteSession(q)
    <3> DEFINE r == [row[s] EXCEPT !.status = "deleted"]
    <3>1. row' = [row EXCEPT ![s] = r] /\ r.status = "deleted"
      BY <1>1, <2>1 DEF DeleteSession, Row
    <3> QED BY <3>1
  <2>2. \A mode : /\ InRowMode(row[s], mode).status = row[s].status
                  /\ InRowMode(row[s], mode).over = row[s].over
    BY <1>1 DEF InRowMode, Row
  <2>3. CASE RotateStatic(q)
    BY <2>2, <2>3 DEF RotateStatic
  <2>4. CASE Reconcile(q) /\ ~ UNCHANGED row
    BY <2>2, <2>4 DEF Reconcile
  <2>5. CASE RotateEnds(q)
    <3> DEFINE r == RotatedRow(row[s], req[q].state)
    <3>1. row' = [row EXCEPT ![s] = r] /\ r.status = row[s].status /\ r.over = row[s].over
      BY <1>1, <2>5 DEF RotateEnds, RotatedRow, Row
    <3> QED BY <3>1
  <2> QED BY <2>1, <2>3, <2>4, <2>5
<1>4. TodoHeld
  BY <1>2, TodoKept
<1> QED BY <1>1, <1>2, <1>3, <1>4, NothingRead, PlainStep DEF Ends

\* The steps that go on from what was read.
LEMMA GoingOnOpensNone ==
  ASSUME TablesOK, CloseInv, Remembers, NEW q \in Actors,
         Look(q) \/ Resolve(q) \/ RehydrateFails(q) \/ StoreState(q) \/ RotateBlocksItself(q) \/ RotateBegins(q)
  PROVE  CloseInv' /\ ReopenedRightly
<1> DEFINE s == req[q].on
<1>1. s \in Sessions /\ req[q] \in Request
  BY DEF TablesOK, Request
<1>2. /\ UNCHANGED row /\ req[q].next # "refresh"
      /\ tick' = tick \/ tick' = [tick EXCEPT !.todo = {}]
  BY DEF Look, Resolve, RehydrateFails, StoreState, RotateBlocksItself, RotateBegins, Goes
<1>3. TodoHeld
  BY <1>2, TodoKept
<1>4. CASE \E r : GoesOnWith(q, r)
  BY <1>2, <1>3, <1>4, StillGoingOn
<1>5. CASE Look(q) /\ Exists(s)
  <2> DEFINE r == IF req[q].then = "save" THEN row[s] ELSE Listed(row[s])
             x == [req[q] EXCEPT !.next = "resolve", !.row = r]
  <2>1. req' = [req EXCEPT ![q] = x]
    BY <1>5 DEF Look, TablesOK
  <2>2. r.status = row[s].status
    BY <1>1, ListedType DEF TablesOK
  <2> HIDE DEF r
  <2>3. x.on = s /\ x.next = "resolve" /\ x.row = r
    BY <1>1 DEF Request
  <2> HIDE DEF x
  <2>4. ~ (ActiveAsRead(x) /\ row[x.on].status = "closed")
    BY <2>2, <2>3 DEF ActiveAsRead
  <2> QED BY <1>2, <1>3, <2>1, <2>4, StillStep
<1>6. CASE Resolve(q)
  <2>1. CASE Ends(q)
    BY <1>2, <1>3, <2>1, StillEnd
  <2>2. ASSUME NEW next \in {"rehydrate", "reconcile", "rotate"},
               next = "rehydrate" => req[q].row.status = "active",
               req' = [req EXCEPT ![q].next = next, ![q].state = state[s]]
        PROVE  CloseInv' /\ ReopenedRightly
    <3> DEFINE x == [req[q] EXCEPT !.next = next, !.state = state[s]]
    <3>1. req' = [req EXCEPT ![q] = x] /\ x.on = s /\ x.next = next
      BY <1>1, <2>2 DEF TablesOK, Request
    <3> HIDE DEF x
    <3>2. ActiveAsRead(x) => HeldActive(q, x.on)
      BY <1>6, <2>2, <3>1 DEF ActiveAsRead, HeldActive, Resolve
    <3> QED BY <1>2, <1>3, <3>1, <3>2, StillStep
  <2>3. \/ /\ req' = [req EXCEPT ![q].next = "rehydrate", ![q].state = state[s]]
           /\ req[q].row.status = "active"
        \/ req' = [req EXCEPT ![q].next = "reconcile", ![q].state = state[s]]
        \/ req' = [req EXCEPT ![q].next = "rotate", ![q].state = state[s]]
        \/ Ends(q) \/ \E r : GoesOnWith(q, r)
    BY <1>6 DEF Resolve, ToRehydrate, GoesOnOverlaid
  <2> QED BY <1>4, <2>1, <2>2, <2>3
<1>7. CASE RotateBlocksItself(q)
  <2> DEFINE x == [req[q] EXCEPT !.next = "stuck"]
  <2>1. req' = [req EXCEPT ![q] = x] /\ x.next = "stuck"
    BY <1>1, <1>7 DEF RotateBlocksItself, Goes, TablesOK, Request
  <2> HIDE DEF x
  <2> QED BY <1>2, <1>3, <2>1, StillStep DEF ActiveAsRead
<1>8. CASE RotateBegins(q)
  <2>1. PICK st, pin : req' = [req EXCEPT ![q].next = "grace", ![q].state = st, ![q].pin = pin]
    BY <1>8 DEF RotateBegins
  <2> DEFINE x == [req[q] EXCEPT !.next = "grace", !.state = st, !.pin = pin]
  <2>2. req' = [req EXCEPT ![q] = x] /\ x.next = "grace"
    BY <1>1, <2>1 DEF TablesOK, Request
  <2> HIDE DEF x
  <2> QED BY <1>2, <1>3, <2>2, StillStep DEF ActiveAsRead
<1> QED BY <1>4, <1>5, <1>6, <1>7, <1>8 DEF Look, RehydrateFails, StoreState

\* A session is built.
LEMMA BuildingOpensRightly ==
  ASSUME TablesOK, CloseInv, Remembers, NEW q \in Actors,
         Rehydrate(q) \/ (Start(q) /\ ~ UNCHANGED row)
  PROVE  CloseInv' /\ ReopenedRightly
<1> DEFINE s == req[q].on
<1>1. s \in Sessions /\ row[s] \in Row /\ req[q] \in Request
  BY DEF TablesOK, Request
<1>2. UNCHANGED tick /\ req[q].next \in {"rehydrate", "start"}
  BY DEF Rehydrate, Start
<1>3. PICK seen, first, next : BuildsRow(s, seen, first, next)
  BY DEF Rehydrate, Start
<1> DEFINE r == IF Exists(s) THEN Built(row[s], ModeOf(seen), first) ELSE row[s]
<1>4. row' = [row EXCEPT ![s] = r]
  BY <1>3 DEF BuildsRow
<1>5. r.status = "active" \/ (r = row[s] /\ r.status \notin {"active", "closed"})
  BY <1>1 DEF Built, Row, Exists
<1>6. PICK x : req' = [req EXCEPT ![q] = x] /\ x.next \in {"none", "store"}
  <2>1. CASE Start(q)
    BY <2>1, NothingRead DEF Start, Ends
  <2>2. CASE Rehydrate(q)
    <3>1. PICK st : req' = [req EXCEPT ![q].next = "store", ![q].state = st]
      BY <2>2 DEF Rehydrate
    <3> DEFINE x == [req[q] EXCEPT !.next = "store", !.state = st]
    <3>2. req' = [req EXCEPT ![q] = x] /\ x.next = "store"
      BY <1>1, <3>1 DEF TablesOK, Request
    <3> QED BY <3>2
  <2> QED BY <2>1, <2>2
<1>7. row[s].status = "closed" => MayReopen(q, s)
  <2>1. req'[q] # req[q]
    BY <1>2, <1>6 DEF TablesOK
  <2>2. req[q].next = "rehydrate" /\ row[s].status = "closed" => <<q, s>> \in stale
    BY <1>1 DEF CloseInv, BeliefIsStale, HeldActive, ActiveAsRead
  <2> QED BY <1>2, <2>1, <2>2 DEF MayReopen
<1> HIDE DEF r
<1>8. TodoHeld
  BY <1>2, TodoKept
<1>9. ~ ActiveAsRead(x)
  BY <1>6 DEF ActiveAsRead
<1> QED BY <1>1, <1>2, <1>4, <1>5, <1>6, <1>7, <1>8, <1>9, StatusStep

\* A session is closed.
LEMMA ClosingIsOver ==
  ASSUME TablesOK, CloseInv, Remembers, NEW q \in Actors, Close(q)
  PROVE  CloseInv' /\ ReopenedRightly
<1> DEFINE s == req[q].on
           r == IF Exists(s) THEN ClosedRow(row[s]) ELSE row[s]
           x == [req[q] EXCEPT !.next = "clean", !.state = state[s]]
<1>1. s \in Sessions /\ row[s] \in Row /\ req[q] \in Request
  BY DEF TablesOK, Request
<1>2. row' = [row EXCEPT ![s] = r] /\ UNCHANGED tick /\ req[q].next = "close"
  BY DEF Close
<1>3. \/ r.status = "closed" /\ r.over
      \/ r = row[s] /\ r.status \notin {"active", "closed"}
  BY <1>1 DEF ClosedRow, Row, Exists
<1>4. req' = [req EXCEPT ![q] = x] /\ x.next = "clean"
  BY <1>1 DEF Close, TablesOK, Request
<1> HIDE DEF r, x
<1>5. TodoHeld
  BY <1>2, TodoKept
<1>6. ~ ActiveAsRead(x)
  BY <1>4 DEF ActiveAsRead
<1> QED BY <1>1, <1>2, <1>3, <1>4, <1>5, <1>6, StatusStep

\* An edit is saved, and then refreshed.
LEMMA EditingOpensRightly ==
  ASSUME TablesOK, CloseInv, Remembers, NEW q \in Actors,
         Refresh(q) \/ \E auto, code, begun, over : SaveEdited(q, auto, code, begun, over)
  PROVE  CloseInv' /\ ReopenedRightly
<1> DEFINE s == req[q].on
<1>1. s \in Sessions /\ row[s] \in Row /\ req[q] \in Request
  BY DEF TablesOK, Request
<1>2. UNCHANGED tick /\ TodoHeld
  BY TodoKept DEF Refresh, SaveEdited
<1>3. ASSUME NEW auto, NEW code, NEW begun, NEW over, SaveEdited(q, auto, code, begun, over)
      PROVE  CloseInv' /\ ReopenedRightly
  <2> DEFINE r == Edited(req[q].row, auto, code, begun, over)
             x == [req[q] EXCEPT !.next = "refresh", !.row = r]
  <2>1. /\ row' = [row EXCEPT ![s] = r] /\ req' = [req EXCEPT ![q] = x]
        /\ req[q].next = "save"
    BY <1>1, <1>3 DEF SaveEdited, TablesOK
  <2> HIDE DEF r
  <2>2. x.next = "refresh" /\ x.on = s
    BY <1>1 DEF Request
  <2> HIDE DEF x
  <2>3. MayReopen(q, s)
    BY <2>1, <2>2 DEF MayReopen, TablesOK
  <2>4. ~ ActiveAsRead(x)
    BY <2>2 DEF ActiveAsRead
  <2> QED BY <1>1, <1>2, <2>1, <2>2, <2>3, <2>4, StatusStep
<1>4. CASE Refresh(q)
  <2>1. PICK after \in IF Exists(s) THEN ViewsOf(s) ELSE {req[q].row} :
          /\ IF Exists(s) THEN Syncs(s, after) ELSE UNCHANGED row
          /\ IF state[s] = NoState THEN Ends(q)
             ELSE req' = [req EXCEPT ![q].next = "sync", ![q].row = after, ![q].state = state[s]]
    BY <1>4 DEF Refresh
  <2>2. PICK x : req' = [req EXCEPT ![q] = x] /\ x.next \in {"none", "sync"}
    <3>1. CASE state[s] = NoState
      BY <2>1, <3>1, NothingRead DEF Ends
    <3>2. CASE state[s] # NoState
      <4> DEFINE x == [req[q] EXCEPT !.next = "sync", !.row = after, !.state = state[s]]
      <4>1. req' = [req EXCEPT ![q] = x] /\ x.next = "sync"
        BY <1>1, <2>1, <3>2 DEF TablesOK, Request
      <4> QED BY <4>1
    <3> QED BY <3>1, <3>2
  <2>3. CASE Exists(s)
    <3>1. after \in ViewsOf(s) /\ row' = [row EXCEPT ![s] = after]
      BY <2>1, <2>3 DEF Syncs
    <3> QED BY <1>1, <1>2, <2>2, <3>1, SyncedStep
  <2>4. CASE ~ Exists(s)
    <3> DEFINE r == row[s]
    <3>1. row' = [row EXCEPT ![s] = r]
      BY <2>1, <2>4 DEF TablesOK
    <3>2. r.status \notin {"active", "closed"}
      BY <1>1, <2>4 DEF Exists, Row
    <3>3. ~ ActiveAsRead(x)
      BY <2>2 DEF ActiveAsRead
    <3> HIDE DEF r
    <3> QED BY <1>1, <1>2, <2>2, <3>1, <3>2, <3>3, StatusStep
  <2> QED BY <2>3, <2>4
<1> QED BY <1>3, <1>4

\* The worker lists what is active, and visits what it has listed.
LEMMA TickingOpensNone ==
  ASSUME TablesOK, CloseInv, Remembers, Ticking
  PROVE  CloseInv' /\ ReopenedRightly
<1>1. UNCHANGED row /\ Worker \in Actors
  BY DEF Ticking, TickBegins, TickMaintains, TickEnds, TickVisits, Actors
<1>2. CASE TickBegins \/ TickMaintains \/ TickEnds
  <2>1. TodoHeld
    <3>1. CASE TickBegins
      BY <3>1 DEF TickBegins, TodoHeld, NothingLeft, TablesOK, Tick
    <3>2. CASE TickMaintains
      BY <3>2 DEF TickMaintains, TodoHeld, NothingLeft
    <3>3. CASE TickEnds
      BY <3>3 DEF TickEnds, TodoHeld, NothingLeft, NoTick
    <3> QED BY <1>2, <3>1, <3>2, <3>3
  <2>2. req' = [req EXCEPT ![Worker] = req[Worker]]
    BY <1>2 DEF TickBegins, TickMaintains, TickEnds, TablesOK
  <2>3. PICK s \in Sessions : TRUE
    BY PinsAssumption
  <2>4. row' = [row EXCEPT ![s] = row[s]]
    BY <1>1 DEF TablesOK
  <2> DEFINE x == req[Worker]
             r == row[s]
  <2>5. x = req[Worker] /\ r = row[s]
    OBVIOUS
  <2> HIDE DEF x, r
  <2> QED BY <1>1, <2>1, <2>2, <2>4, <2>5, PlainStep
<1>3. ASSUME NEW s \in Sessions, TickVisits(s) PROVE CloseInv' /\ ReopenedRightly
  <2>1. PICK next \in {"start", "close", "resolve"} :
          /\ tick.phase = "open" => next = "start"
          /\ req' = [req EXCEPT ![Worker] =
               [next |-> next, then |-> "none", on |-> s, row |-> tick.rows[s], synced |-> NoRow,
                state |-> NoState, pin |-> NoPin]]
    BY <1>3 DEF TickVisits
  <2> DEFINE x == [next |-> next, then |-> "none", on |-> s, row |-> tick.rows[s], synced |-> NoRow,
                   state |-> NoState, pin |-> NoPin]
  <2>2. x.on = s /\ x.next = next /\ req' = [req EXCEPT ![Worker] = x]
    BY <2>1
  <2> HIDE DEF x
  <2>3. s \in tick.todo /\ tick' = [tick EXCEPT !.todo = tick.todo \ {s}] /\ req[Worker].next = "none"
    BY <1>3 DEF TickVisits
  <2>4. tick'.phase = tick.phase /\ tick'.todo = tick.todo \ {s}
    BY <2>3 DEF TablesOK, Tick
  <2>5. TodoHeld
    BY <2>4 DEF TodoHeld, HeldActive, CloseInv, NothingLeft
  <2>6. tick.phase = "idle" => tick.todo = {}
    BY DEF CloseInv, NothingLeft
  <2>7. ActiveAsRead(x) => HeldActive(Worker, x.on)
    BY <2>1, <2>2, <2>3, <2>6 DEF ActiveAsRead, HeldActive, TablesOK, Tick
  <2> QED BY <1>1, <2>2, <2>3, <2>5, <2>7, StillStep
<1> QED BY <1>2, <1>3 DEF Ticking

\* Time, Redis and the creation of a session.
LEMMA TimeOpensNone ==
  ASSUME TablesOK, CloseInv, Remembers, Passing \/ RedisFlush \/ Creating(BOOLEAN, Pins)
  PROVE  CloseInv' /\ ReopenedRightly
<1>1. UNCHANGED << req, tick >>
  BY DEF Passing, Begins, EndPasses, Expires, GraceEnds, KeyExpires, RedisFlush, Creating, CreateSession
<1>2. PICK s, r :
        /\ s \in Sessions /\ row' = [row EXCEPT ![s] = r]
        /\ \/ r.status = row[s].status /\ (row[s].over => r.over)
           \/ r.status \in {"draft", "deleted"}
  <2>1. ASSUME NEW s \in Sessions
        PROVE  /\ [row[s] EXCEPT !.begun = TRUE].status = row[s].status
               /\ [row[s] EXCEPT !.begun = TRUE].over = row[s].over
               /\ [row[s] EXCEPT !.over = TRUE].status = row[s].status
               /\ [row[s] EXCEPT !.over = TRUE].over = TRUE
               /\ [row[s] EXCEPT !.expiry = "past"].status = row[s].status
               /\ [row[s] EXCEPT !.expiry = "past"].over = row[s].over
               /\ [row[s] EXCEPT !.grace = FALSE].status = row[s].status
               /\ [row[s] EXCEPT !.grace = FALSE].over = row[s].over
    BY DEF TablesOK, Row
  <2>2. ASSUME NEW s \in Sessions, Begins(s) \/ EndPasses(s) \/ Expires(s) \/ GraceEnds(s)
        PROVE  \E r : /\ row' = [row EXCEPT ![s] = r]
                      /\ r.status = row[s].status /\ (row[s].over => r.over)
    <3>1. \/ row' = [row EXCEPT ![s] = [row[s] EXCEPT !.begun = TRUE]]
          \/ row' = [row EXCEPT ![s] = [row[s] EXCEPT !.over = TRUE]]
          \/ row' = [row EXCEPT ![s] = [row[s] EXCEPT !.expiry = "past"]]
          \/ row' = [row EXCEPT ![s] = [row[s] EXCEPT !.grace = FALSE]]
      BY <2>2 DEF Begins, EndPasses, Expires, GraceEnds
    <3> QED BY <2>1, <3>1
  <2>3. CASE UNCHANGED row
    <3>1. PICK s \in Sessions : TRUE
      BY PinsAssumption
    <3>2. row' = [row EXCEPT ![s] = row[s]]
      BY <2>3 DEF TablesOK
    <3> QED BY <3>2
  <2>4. CASE Creating(BOOLEAN, Pins)
    <3>1. PICK s \in Sessions, auto \in BOOLEAN, begun \in BOOLEAN, pin \in Pins :
            CreateSession(s, auto, begun, pin)
      BY <2>4 DEF Creating
    <3> DEFINE r == CreatedRow(auto, begun, pin)
    <3>2. row' = [row EXCEPT ![s] = r] /\ r.status = "draft"
      BY <3>1 DEF CreateSession, CreatedRow
    <3> QED BY <3>2
  <2> QED BY <2>2, <2>3, <2>4 DEF Passing, KeyExpires, RedisFlush
<1>3. Worker \in Actors /\ req' = [req EXCEPT ![Worker] = req[Worker]]
  BY <1>1 DEF Actors, TablesOK
<1> DEFINE x == req[Worker]
<1>4. x = req[Worker] /\ TodoHeld
  BY <1>1, TodoKept
<1> HIDE DEF x
<1> QED BY <1>2, <1>3, <1>4, PlainStep

LEMMA NextReopensRightly ==
  ASSUME TablesOK, CloseInv, [Next]_vars
  PROVE  CloseInv' /\ [ReopenedRightly]_vars
<1>1. CASE UNCHANGED vars
  BY <1>1 DEF vars, CloseInv, ClosedIsOver, BeliefIsStale, NothingLeft, HeldActive, ActiveAsRead
<1>2. CASE Act /\ Remembers
  <2>1. ASSUME NEW q \in Actors, Step(q) PROVE CloseInv' /\ ReopenedRightly
    <3>1. CASE \/ StartFails(q) \/ RotateRefused(q) \/ Verify(q) \/ Clean(q)
               \/ (Start(q) \/ Reconcile(q)) /\ UNCHANGED row
      BY <1>2, <3>1, EndingOpensNone
    <3>2. CASE RotateStatic(q) \/ RotateEnds(q) \/ (Reconcile(q) /\ ~ UNCHANGED row)
      BY <1>2, <3>2, WritingOpensNone
    <3>3. CASE Rehydrate(q) \/ (Start(q) /\ ~ UNCHANGED row)
      BY <1>2, <3>3, BuildingOpensRightly
    <3>4. CASE Close(q)
      BY <1>2, <3>4, ClosingIsOver
    <3>5. CASE \/ Look(q) \/ Resolve(q) \/ RehydrateFails(q) \/ StoreState(q)
               \/ RotateBlocksItself(q) \/ RotateBegins(q)
      BY <1>2, <3>5, GoingOnOpensNone
    <3> QED BY <2>1, <3>1, <3>2, <3>3, <3>4, <3>5 DEF Step
  <2>2. CASE Saving(MaybePin)
    <3>1. PICK q \in Requests :
            \/ \E auto, begun, over \in BOOLEAN, code \in MaybePin \cup {req[q].row.code} :
                 SaveEdited(q, auto, code, begun, over)
            \/ Refresh(q) \/ SyncFails(q) \/ DeleteSession(q)
      BY <2>2 DEF Saving
    <3>2. q \in Actors
      BY DEF Actors
    <3> QED BY <1>2, <3>1, <3>2, EditingOpensRightly, EndingOpensNone, WritingOpensNone
  <2>3. CASE Failing
    BY <1>2, <2>3, EndingOpensNone DEF Failing
  <2> QED BY <1>2, <2>1, <2>2, <2>3, AskingOpensNone, ViewingOpensNone, TickingOpensNone, TimeOpensNone
          DEF Act
<1> QED BY <1>1, <1>2 DEF Next

\* A closed session is opened by a start (StartAttendanceSession), by an edit,
\* or by a screen or the worker that rehydrates it from the row it had read
\* before the close (getAttendanceRuntimeState); nobody who reads it closed
\* opens it, whatever overlaps and however often Redis comes back empty.
THEOREM NothingElseReopens == Spec => ClosedStaysClosed
<1>1. Init => CloseInv
  BY NothingRead DEF Init, CloseInv, ClosedIsOver, BeliefIsStale, NothingLeft, HeldActive, ActiveAsRead,
                     NoRow, NoTick
<1>2. PinsInv /\ CloseInv /\ [Next]_vars => CloseInv' /\ [ReopenedRightly]_vars
  BY NextReopensRightly DEF PinsInv
<1> QED BY <1>1, <1>2, AlwaysShown, PTL DEF Spec, ClosedStaysClosed
-----------------------------------------------------------------------------
(* One operation at a time.  In the serial scenarios of MCAttendancePins at  *)
(* most one actor is under way; time passes in between.                      *)

Busy(q) == req[q].next # "none"

About(s) == {q \in Actors : Busy(q) /\ req[q].on = s}

\* What a row, a state and the request x about the session have to do with one
\* another: nothing but closing and rebuilding separates the current PINs, only a
\* session that is active is rebuilt, and what a form will save of the hashes is
\* what the row has.
Coherent(r, st, x) ==
  /\ x.next \notin {"clean", "store"} /\ st # NoState => st.current = r.current
  /\ r.status = "new" => st = NoState
  /\ x.next = "resolve" /\ x.row.status = "active" => r.status = "active"
  /\ x.next \in {"rehydrate", "store"} => r.status = "active"
  /\ x.next \in {"store", "sync", "reconcile"} => x.state.current = r.current
  /\ x.next \in {"look", "resolve", "sync", "reconcile", "grace", "save"} => r.status # "new"
  /\ x.next = "save" \/ (x.next = "resolve" /\ x.then = "save") =>
       x.row.current = r.current /\ x.row.status # "new"
  /\ x.next \in {"look", "resolve", "rehydrate"} /\ x.then = "save" =>
       x.synced.current = r.current /\ x.synced.status # "new"

Story(s) ==
  /\ \A q \in About(s) : Coherent(row[s], state[s], req[q])
  /\ About(s) = {} => Coherent(row[s], state[s], NoRequest)

Alone ==
  /\ \A q, a \in Actors : Busy(q) /\ Busy(a) => q = a
  /\ \A q \in Requests : Busy(q) => tick.phase = "idle"

\* The worker has what it listed as active still before it.
Planned ==
  /\ tick.phase = "idle" => tick.todo = {} /\ ~ Busy(Worker)
  /\ tick.phase = "maintain" => \A s \in tick.todo : row[s].status = "active"
  /\ Busy(Worker) => req[Worker].on \notin tick.todo

InTurn == Alone /\ Planned /\ \A s \in Sessions : Story(s)

\* The step of an actor about s.
Tells(q, s) ==
  /\ \A t \in Sessions : t # s => row'[t] = row[t] /\ state'[t] = state[t]
  /\ \A a \in Actors : a # q => req'[a] = req[a]
  /\ req'[q] = NoRequest \/ (req'[q].on = s /\ req'[q].next # "none")
  /\ Coherent(row'[s], state'[s], req'[q])
  /\ tick' \in {tick, [tick EXCEPT !.todo = {}]}

\* What is true of a session and of the request about it.
LEMMA Known ==
  ASSUME TablesOK, NEW q \in Actors
  PROVE  /\ req[q] \in Request /\ req[q].on \in Sessions /\ req[q].row \in Row
         /\ req[q].synced \in Row /\ req[q].state \in State \cup {NoState}
         /\ \A s \in Sessions : row[s] \in Row /\ state[s] \in State \cup {NoState}
BY DEF TablesOK, Request

\* A session nobody is busy with stays as it is when another one changes.
LEMMA OthersStay ==
  ASSUME InTurn, NEW q \in Actors, NEW s \in Sessions,
         (Busy(q) /\ req[q].on = s) \/ (\A a \in Actors : ~ Busy(a)),
         Tells(q, s), NEW t \in Sessions, t # s
  PROVE  Story(t)'
<1>1. \A a \in Actors : Busy(a) => a = q /\ req[a].on = s
  BY DEF InTurn, Alone
<1>2. About(t) = {} /\ About(t)' = {}
  <2>1. ASSUME NEW a \in Actors, Busy(a)', req'[a].on = t PROVE FALSE
    <3>1. a = q
      BY <1>1, <2>1 DEF Tells, Busy
    <3>2. req'[q] # NoRequest
      BY <2>1, <3>1, NothingRead DEF Busy
    <3> QED BY <2>1, <3>1, <3>2 DEF Tells
  <2> QED BY <1>1, <2>1 DEF About
<1>3. Coherent(row[t], state[t], NoRequest)
  BY <1>2 DEF InTurn, Story
<1>4. row'[t] = row[t] /\ state'[t] = state[t]
  BY DEF Tells
<1> QED BY <1>2, <1>3, <1>4 DEF Story

\* The step of the one actor that is under way, or of the first.
LEMMA ActorsStep ==
  ASSUME TablesOK, InTurn, NEW q \in Actors, NEW s \in Sessions,
         (Busy(q) /\ req[q].on = s) \/ (q \in Requests /\ Idle), Tells(q, s)
  PROVE  InTurn'
<1>1. (Busy(q) /\ req[q].on = s) \/ (\A a \in Actors : ~ Busy(a))
  BY DEF Idle, Busy
<1>2. \A a \in Actors : a # q => ~ Busy(a) /\ ~ Busy(a)'
  BY <1>1 DEF InTurn, Alone, Tells, Busy
<1>3. Story(s)'
  <2>1. \A a \in About(s)' : a = q
    BY <1>2 DEF About
  <2>2. q \notin About(s)' => req'[q] = NoRequest
    BY NothingRead DEF About, Tells, Busy
  <2> QED BY <2>1, <2>2 DEF Story, Tells
<1>4. tick'.phase = tick.phase /\ tick'.todo \subseteq tick.todo
  BY DEF Tells, TablesOK, Tick
<1>5. q \in Requests => tick.phase = "idle" /\ tick.todo = {} /\ q # Worker
  BY PinsAssumption DEF Idle, Busy, InTurn, Alone, Planned
<1>6. Alone'
  BY <1>2, <1>4, <1>5 DEF Alone, Actors
<1>7. Planned'
  <2>1. CASE q \in Requests
    BY <1>2, <1>4, <1>5, <2>1 DEF Planned, Actors
  <2>2. CASE q = Worker
    <3>1. Busy(Worker) /\ req[Worker].on = s /\ s \notin tick.todo /\ tick.phase # "idle"
      BY <2>2, PinsAssumption DEF InTurn, Planned
    <3>2. Busy(Worker)' => req'[Worker].on = s
      BY <2>2, NothingRead DEF Tells, Busy
    <3>3. tick.phase = "maintain" => \A t \in tick'.todo : row'[t].status = "active"
      BY <1>4, <3>1 DEF InTurn, Planned, Tells, TablesOK, Tick
    <3> QED BY <1>4, <3>1, <3>2, <3>3 DEF Planned
  <2> QED BY <2>1, <2>2 DEF Actors
<1>8. \A t \in Sessions : t # s => Story(t)'
  BY <1>1, OthersStay
<1> QED BY <1>3, <1>6, <1>7, <1>8 DEF InTurn

\* A row that changes by itself.
LEMMA RowsStep ==
  ASSUME TablesOK, InTurn, NEW s \in Sessions, UNCHANGED << state, req, tick >>,
         \A t \in Sessions : t # s => row'[t] = row[t],
         \A q \in About(s) : Coherent(row'[s], state[s], req[q]),
         About(s) = {} => Coherent(row'[s], state[s], NoRequest),
         tick.phase = "maintain" /\ s \in tick.todo => row'[s].status = "active"
  PROVE  InTurn'
<1>1. \A q \in Actors : Busy(q)' = Busy(q)
  BY DEF Busy
<1>2. \A t \in Sessions : About(t)' = About(t)
  BY DEF About, Busy
<1>3. Alone'
  BY <1>1 DEF InTurn, Alone, Actors
<1>4. Planned'
  BY DEF InTurn, Planned, Busy, TablesOK, Tick
<1>5. ASSUME NEW t \in Sessions PROVE Story(t)'
  BY <1>2 DEF InTurn, Story
<1> QED BY <1>3, <1>4, <1>5 DEF InTurn
-----------------------------------------------------------------------------
(* What each step about a session does to it.                               *)

\* A step that ends the request and leaves the session alone.
LEMMA EndingTells ==
  ASSUME TablesOK, NEW q \in Actors, NEW s \in Sessions, req[q].on = s,
         Coherent(row[s], state[s], req[q]), req[q].next \notin {"clean", "store"},
         Ends(q), UNCHANGED << row, state >>, tick' \in {tick, [tick EXCEPT !.todo = {}]}
  PROVE  Tells(q, s)
<1>1. req'[q] = NoRequest /\ \A a \in Actors : a # q => req'[a] = req[a]
  BY DEF Ends, TablesOK
<1>2. Coherent(row[s], state[s], NoRequest)
  BY NothingRead DEF Coherent
<1> QED BY <1>1, <1>2 DEF Tells

LEMMA StartTells ==
  ASSUME TablesOK, NEW q \in Actors, NEW s \in Sessions, req[q].on = s,
         Coherent(row[s], state[s], req[q]), Start(q)
  PROVE  Tells(q, s)
<1>2. CASE state[s] # NoState \/ ~ Exists(s)
  BY <1>2, EndingTells DEF Start
<1>3. CASE ~ (state[s] # NoState \/ ~ Exists(s))
  <2>0. PICK first \in FirstPins(row[s], key) : \E next \in NextPins(row[s], key, first) :
          /\ BuildsRow(s, row[s], first, next)
          /\ state' = [state EXCEPT ![s] = FreshState(row[s], first, next)]
    BY <1>3 DEF Start
  <2>1. PICK next \in NextPins(row[s], key, first) :
          /\ BuildsRow(s, row[s], first, next)
          /\ state' = [state EXCEPT ![s] = FreshState(row[s], first, next)]
    BY <2>0
  <2> DEFINE r == Built(row[s], ModeOf(row[s]), first)
             st == FreshState(row[s], first, next)
  <2>2. row[s] \in Row /\ row' = [row EXCEPT ![s] = r]
    BY <1>3, <2>1, Known DEF BuildsRow
  <2>3. r.status = "active" /\ r.current = first /\ st.current = first
    BY <2>2 DEF Built, FreshState, Row
  <2>4. Coherent(r, st, NoRequest)
    BY <2>3, NothingRead DEF Coherent
  <2>5. row'[s] = r /\ state'[s] = st /\ req' = [req EXCEPT ![q] = NoRequest] /\ UNCHANGED tick
    BY <2>1, <2>2 DEF TablesOK, Start, Ends
  <2> HIDE DEF r, st
  <2>6. state' = [state EXCEPT ![s] = st]
    BY <2>1 DEF st
  <2> QED BY <2>2, <2>4, <2>5, <2>6 DEF Tells, TablesOK
<1> QED BY <1>2, <1>3

\* A handler goes on with the row r after its look, the row being left alone.
LEMMA GoingOnTells ==
  ASSUME TablesOK, NEW q \in Actors, NEW s \in Sessions, req[q].on = s, NEW st,
         NEW r \in Row, GoesOnWith(q, r), UNCHANGED row,
         state' = state \/ state' = [state EXCEPT ![s] = st],
         Coherent(row[s], state'[s], NoRequest),
         req[q].then = "save" => r.current = row[s].current /\ r.status # "new" /\ row[s].status # "new",
         tick' \in {tick, [tick EXCEPT !.todo = {}]}
  PROVE  Tells(q, s)
<1> DEFINE x == Onward(req[q], r)
<1>1. req' = [req EXCEPT ![q] = x]
  BY DEF GoesOnWith
<1>2. /\ x = NoRequest \/ (x.next = req[q].then /\ x.on = s)
      /\ x.next = req[q].then /\ x.then = "none"
      /\ req[q].then = "save" => x.row = r
      /\ req[q].then \in {"none", "start", "close", "save", "delete"}
      /\ req[q].then = "none" => x = NoRequest
  <2>1. req[q] \in Request
    BY Known
  <2>2. req[q].then = "none" => x = NoRequest
    BY DEF Onward
  <2> HIDE DEF x
  <2> QED BY <2>1, <2>2, OnwardType DEF Request, x
<1> HIDE DEF x
<1>3. Coherent(row[s], state'[s], x)
  BY <1>2, NothingRead DEF Coherent
<1> QED BY <1>1, <1>2, <1>3 DEF Tells, TablesOK

LEMMA LookTells ==
  ASSUME TablesOK, NEW q \in Actors, NEW s \in Sessions, req[q].on = s,
         Coherent(row[s], state[s], req[q]), Look(q)
  PROVE  Tells(q, s)
<1>1. UNCHANGED << row, state, tick >> /\ req[q].next = "look"
  BY DEF Look
<1>2. CASE Exists(s)
  <2> DEFINE r == IF req[q].then = "save" THEN row[s] ELSE Listed(row[s])
             x == [req[q] EXCEPT !.next = "resolve", !.row = r]
  <2>1. req' = [req EXCEPT ![q] = x]
    BY <1>2 DEF Look, TablesOK
  <2>2. r.status = row[s].status /\ (req[q].then = "save" => r = row[s])
    BY Known, ListedType
  <2> HIDE DEF r
  <2>3. /\ x.on = s /\ x.next = "resolve" /\ x.row = r /\ x.then = req[q].then
        /\ x.synced = req[q].synced
    BY Known DEF Request
  <2> HIDE DEF x
  <2>4. Coherent(row[s], state[s], x)
    BY <1>1, <2>2, <2>3 DEF Coherent
  <2> QED BY <1>1, <2>1, <2>3, <2>4 DEF Tells, TablesOK
<1>3. CASE ~ Exists(s)
  <2>1. GoesOnWith(q, req[q].synced)
    BY <1>3 DEF Look
  <2>2. Coherent(row[s], state'[s], NoRequest)
    BY <1>1, NothingRead DEF Coherent
  <2>3. req[q].then = "save" =>
          req[q].synced.current = row[s].current /\ req[q].synced.status # "new" /\ row[s].status # "new"
    BY <1>1 DEF Coherent
  <2>4. req[q].synced \in Row
    BY Known
  <2> QED BY <1>1, <2>1, <2>2, <2>3, <2>4, GoingOnTells
<1> QED BY <1>2, <1>3

LEMMA ResolveTells ==
  ASSUME TablesOK, NEW q \in Actors, NEW s \in Sessions, req[q].on = s,
         Coherent(row[s], state[s], req[q]), Resolve(q)
  PROVE  Tells(q, s)
<1>1. UNCHANGED << row, state, tick >> /\ req[q].next = "resolve"
  BY DEF Resolve
<1>2. CASE Ends(q)
  BY <1>1, <1>2, EndingTells
<1>3. ASSUME NEW next \in {"rehydrate", "reconcile", "rotate"},
             next = "rehydrate" => req[q].row.status = "active",
             next = "reconcile" => state[s] # NoState,
             req' = [req EXCEPT ![q].next = next, ![q].state = state[s]]
      PROVE  Tells(q, s)
  <2> DEFINE x == [req[q] EXCEPT !.next = next, !.state = state[s]]
  <2>1. req' = [req EXCEPT ![q] = x]
    BY <1>3 DEF TablesOK
  <2>2. x.on = s /\ x.next = next /\ x.state = state[s] /\ x.then = req[q].then /\ x.synced = req[q].synced
    BY Known DEF Request
  <2> HIDE DEF x
  <2>3. Coherent(row[s], state[s], x)
    BY <1>1, <1>3, <2>2 DEF Coherent
  <2> QED BY <1>1, <1>3, <2>1, <2>2, <2>3 DEF Tells, TablesOK
<1>4. CASE GoesOnOverlaid(q, req[q].row, state[s])
  <2>1. PICK grace \in BOOLEAN, expiry \in {"end", "own", "past"} :
          GoesOnWith(q, Overlaid(req[q].row, state[s], grace, expiry))
    BY <1>4 DEF GoesOnOverlaid
  <2> DEFINE r == Overlaid(req[q].row, state[s], grace, expiry)
  <2>0. req[q].row \in Row /\ state[s] \in State \cup {NoState}
    BY Known
  <2>2. r \in Row /\ r.current = req[q].row.current /\ r.status \in {req[q].row.status, "active"}
    BY <2>0, OverlaidType
  <2> HIDE DEF r
  <2>3. req[q].then = "save" => r.current = row[s].current /\ r.status # "new" /\ row[s].status # "new"
    BY <1>1, <2>2 DEF Coherent
  <2>4. Coherent(row[s], state'[s], NoRequest)
    BY <1>1, NothingRead DEF Coherent
  <2> QED BY <1>1, <2>1, <2>2, <2>3, <2>4, GoingOnTells DEF r
<1>5. \/ /\ req' = [req EXCEPT ![q].next = "rehydrate", ![q].state = state[s]]
         /\ req[q].row.status = "active"
      \/ req' = [req EXCEPT ![q].next = "reconcile", ![q].state = state[s]] /\ state[s] # NoState
      \/ req' = [req EXCEPT ![q].next = "rotate", ![q].state = state[s]]
      \/ Ends(q) \/ GoesOnOverlaid(q, req[q].row, state[s])
  BY DEF Resolve, ToRehydrate
<1> QED BY <1>2, <1>3, <1>4, <1>5

LEMMA RehydrateTells ==
  ASSUME TablesOK, NEW q \in Actors, NEW s \in Sessions, req[q].on = s,
         Coherent(row[s], state[s], req[q]), Rehydrate(q)
  PROVE  Tells(q, s)
<1>1. row[s].status = "active" /\ row[s] \in Row
  BY Known DEF Rehydrate, Coherent
<1> DEFINE seen == req[q].row
<1>0. PICK first \in FirstPins(seen, key) : \E next \in NextPins(seen, key, first) :
        /\ BuildsRow(s, seen, first, next)
        /\ req' = [req EXCEPT ![q].next = "store", ![q].state = FreshState(seen, first, next)]
  BY DEF Rehydrate
<1>2. PICK next \in NextPins(seen, key, first) :
        /\ BuildsRow(s, seen, first, next)
        /\ req' = [req EXCEPT ![q].next = "store", ![q].state = FreshState(seen, first, next)]
  BY <1>0
<1> DEFINE r == Built(row[s], ModeOf(seen), first)
           x == [req[q] EXCEPT !.next = "store", !.state = FreshState(seen, first, next)]
<1>3. row' = [row EXCEPT ![s] = r] /\ UNCHANGED << state, tick >>
  BY <1>1, <1>2 DEF BuildsRow, Exists, Rehydrate
<1>4. r.status = "active" /\ r.current = first
  BY <1>1 DEF Built, Row
<1>5. /\ x.on = s /\ x.next = "store" /\ x.state.current = first /\ req' = [req EXCEPT ![q] = x]
      /\ x.then = req[q].then /\ x.synced = req[q].synced
  BY <1>2, Known DEF Request, FreshState, TablesOK
<1>6. Coherent(r, state[s], x)
  BY <1>4, <1>5 DEF Coherent
<1>7. row'[s] = r
  BY <1>3 DEF TablesOK
<1> HIDE DEF r, x
<1> QED BY <1>3, <1>5, <1>6, <1>7 DEF Tells, TablesOK

\* No PIN is left.
LEMMA RehydrateFailsTells ==
  ASSUME TablesOK, NEW q \in Actors, NEW s \in Sessions, req[q].on = s,
         Coherent(row[s], state[s], req[q]), RehydrateFails(q)
  PROVE  Tells(q, s)
<1>1. /\ req[q].next = "rehydrate" /\ UNCHANGED << row, state >> /\ GoesOnWith(q, req[q].synced)
      /\ tick' \in {tick, [tick EXCEPT !.todo = {}]} /\ req[q].synced \in Row
  BY Known DEF RehydrateFails
<1>2. Coherent(row[s], state'[s], NoRequest)
  BY <1>1, NothingRead DEF Coherent
<1>3. req[q].then = "save" =>
        req[q].synced.current = row[s].current /\ req[q].synced.status # "new" /\ row[s].status # "new"
  BY <1>1 DEF Coherent
<1> QED BY <1>1, <1>2, <1>3, GoingOnTells

LEMMA StoreTells ==
  ASSUME TablesOK, NEW q \in Actors, NEW s \in Sessions, req[q].on = s,
         Coherent(row[s], state[s], req[q]), RequestShown(req[q], shown), StoreState(q)
  PROVE  Tells(q, s)
<1> DEFINE st == req[q].state
           r == [Built(req[q].row, st.mode, st.current) EXCEPT !.code = st.current]
<1>1. /\ req[q].next = "store" /\ row[s].status = "active" /\ st.current = row[s].current
      /\ UNCHANGED << row, tick >> /\ state' = [state EXCEPT ![s] = st] /\ GoesOnWith(q, r)
  BY DEF StoreState, Coherent
<1>2. st \in State
  BY <1>1 DEF RequestShown, Carrying
<1>3. r \in Row /\ r.current = st.current /\ r.status = "active"
  BY <1>2, Known, StoredType
<1>4. state'[s] = st
  BY <1>1 DEF TablesOK
<1> HIDE DEF r, st
<1>5. Coherent(row[s], state'[s], NoRequest)
  BY <1>1, <1>4, NothingRead DEF Coherent
<1> QED BY <1>1, <1>3, <1>5, GoingOnTells

LEMMA ReconcileTells ==
  ASSUME TablesOK, NEW q \in Actors, NEW s \in Sessions, req[q].on = s,
         Coherent(row[s], state[s], req[q]), RequestShown(req[q], shown), Reconcile(q)
  PROVE  Tells(q, s)
<1> DEFINE st == req[q].state
           mode == ModeOf(req[q].row)
<1>1. /\ st \in State /\ st.current = row[s].current /\ row[s].status # "new"
      /\ Ends(q) /\ UNCHANGED tick /\ req[q].next \in {"sync", "reconcile"} /\ row[s] \in Row
  BY Known DEF Reconcile, Coherent, RequestShown, Carrying
<1>2. CASE UNCHANGED << row, key, state >>
  BY <1>1, <1>2, EndingTells
<1>3. CASE ~ UNCHANGED << row, key, state >>
  <2>1. PICK pin \in ModePins(st, mode) :
          /\ state' = [state EXCEPT ![s] = InMode(st, mode, pin)]
          /\ row' = [row EXCEPT ![s] = InRowMode(row[s], mode)]
    BY <1>3 DEF Reconcile
  <2> DEFINE r == InRowMode(row[s], mode)
             new == InMode(st, mode, pin)
  <2>2. r.status = row[s].status /\ r.current = row[s].current /\ r.over = row[s].over
    BY <1>1 DEF InRowMode, Row
  <2>3. new.current = st.current
    BY <1>1 DEF InMode, State
  <2>4. Coherent(r, new, NoRequest)
    BY <1>1, <2>2, <2>3, NothingRead DEF Coherent
  <2>5. row'[s] = r /\ state'[s] = new
    BY <2>1 DEF TablesOK
  <2> HIDE DEF r, new
  <2> QED BY <1>1, <2>1, <2>4, <2>5 DEF Tells, TablesOK, Ends
<1> QED BY <1>2, <1>3

LEMMA RotateStaticTells ==
  ASSUME TablesOK, NEW q \in Actors, NEW s \in Sessions, req[q].on = s,
         Coherent(row[s], state[s], req[q]), RotateStatic(q)
  PROVE  Tells(q, s)
<1> DEFINE r == InRowMode(row[s], "static")
           st == InMode(state[s], "static", NoPin)
<1>1. /\ row[s].status = "active" /\ row[s] \in Row /\ state[s] \in State
      /\ state[s].current = row[s].current
      /\ row' = [row EXCEPT ![s] = r] /\ state' = [state EXCEPT ![s] = st]
      /\ req' = [req EXCEPT ![q] = NoRequest] /\ UNCHANGED tick
  BY Known DEF RotateStatic, Coherent, Ends
<1>2. r.status = "active" /\ r.current = row[s].current
  BY <1>1 DEF InRowMode, Row
<1>3. st.current = row[s].current
  BY <1>1 DEF InMode, State
<1>4. Coherent(r, st, NoRequest)
  BY <1>2, <1>3, NothingRead DEF Coherent
<1>5. row'[s] = r /\ state'[s] = st
  BY <1>1 DEF TablesOK
<1> HIDE DEF r, st
<1> QED BY <1>1, <1>4, <1>5 DEF Tells, TablesOK

LEMMA RotateBeginsTells ==
  ASSUME TablesOK, NEW q \in Actors, NEW s \in Sessions, req[q].on = s,
         Coherent(row[s], state[s], req[q]), RotateBegins(q)
  PROVE  Tells(q, s)
<1>1. /\ row[s].status = "active" /\ state[s] \in State /\ UNCHANGED << row, tick >>
      /\ state[s].current = row[s].current
  BY Known DEF RotateBegins, Coherent
<1>2. PICK pin \in ModePins(state[s], "rotating"), after \in Pins :
        LET st == ReconciledForRotation(state[s], pin)
        IN  /\ state' = [state EXCEPT ![s] = st]
            /\ req' = [req EXCEPT ![q].next = "grace", ![q].state = st, ![q].pin = after]
  BY DEF RotateBegins, Unreserved
<1> DEFINE st == ReconciledForRotation(state[s], pin)
           x == [req[q] EXCEPT !.next = "grace", !.state = st, !.pin = after]
<1>3. st.current = row[s].current
  BY <1>1 DEF ReconciledForRotation, InMode, State
<1>4. /\ state' = [state EXCEPT ![s] = st] /\ state'[s] = st
      /\ req' = [req EXCEPT ![q] = x]
  BY <1>2 DEF TablesOK
<1>5. x.on = s /\ x.next = "grace"
  BY Known DEF Request
<1>6. Coherent(row[s], st, x)
  BY <1>1, <1>3, <1>5 DEF Coherent
<1> HIDE DEF st, x
<1> QED BY <1>1, <1>4, <1>5, <1>6 DEF Tells, TablesOK

LEMMA RotateEndsTells ==
  ASSUME TablesOK, NEW q \in Actors, NEW s \in Sessions, req[q].on = s, RequestShown(req[q], shown),
         Coherent(row[s], state[s], req[q]), RotateEnds(q)
  PROVE  Tells(q, s)
<1> DEFINE r == RotatedRow(row[s], req[q].state)
           st == RotatedState(req[q].state, req[q].pin)
<1>1. /\ row[s] \in Row /\ req[q].state \in State /\ req[q].next = "grace"
      /\ row' = [row EXCEPT ![s] = r] /\ state' = [state EXCEPT ![s] = st]
      /\ req' = [req EXCEPT ![q] = NoRequest] /\ UNCHANGED tick
  BY Known DEF RotateEnds, RequestShown, Carrying, Ends
<1>2. /\ r.status = row[s].status /\ r.over = row[s].over
      /\ r.current = req[q].state.next
  BY <1>1 DEF RotatedRow, Row
<1>3. st.current = req[q].state.next
  BY <1>1 DEF RotatedState, State
<1>4. Coherent(r, st, NoRequest)
  BY <1>1, <1>2, <1>3, NothingRead DEF Coherent
<1>5. row'[s] = r /\ state'[s] = st
  BY <1>1 DEF TablesOK
<1> HIDE DEF r, st
<1> QED BY <1>1, <1>4, <1>5 DEF Tells, TablesOK

LEMMA CloseTells ==
  ASSUME TablesOK, NEW q \in Actors, NEW s \in Sessions, req[q].on = s,
         Coherent(row[s], state[s], req[q]), Close(q)
  PROVE  Tells(q, s)
<1> DEFINE r == IF Exists(s) THEN ClosedRow(row[s]) ELSE row[s]
           x == [req[q] EXCEPT !.next = "clean", !.state = state[s]]
<1>1. /\ row[s] \in Row /\ req[q].next = "close" /\ UNCHANGED << state, tick >>
      /\ row' = [row EXCEPT ![s] = r] /\ row'[s] = r /\ req' = [req EXCEPT ![q] = x]
  BY Known DEF Close, TablesOK
<1>2. \/ r.status = "closed" /\ r.over
      \/ r = row[s] /\ r.status \in {"new", "deleted"}
  BY <1>1 DEF ClosedRow, Row, Exists
<1>3. x.on = s /\ x.next = "clean"
  BY Known DEF Request
<1>4. Coherent(r, state[s], x)
  BY <1>1, <1>2, <1>3 DEF Coherent
<1> HIDE DEF r, x
<1> QED BY <1>1, <1>3, <1>4 DEF Tells, TablesOK

LEMMA CleanTells ==
  ASSUME TablesOK, NEW q \in Actors, NEW s \in Sessions, req[q].on = s,
         Coherent(row[s], state[s], req[q]), Clean(q)
  PROVE  Tells(q, s)
<1>1. /\ req[q].next = "clean" /\ UNCHANGED << row, tick >>
      /\ state' = [state EXCEPT ![s] = NoState] /\ state'[s] = NoState
      /\ req' = [req EXCEPT ![q] = NoRequest]
  BY DEF Clean, Ends, TablesOK
<1>2. Coherent(row[s], NoState, NoRequest)
  BY <1>1, NothingRead DEF Coherent
<1> QED BY <1>1, <1>2 DEF Tells, TablesOK

LEMMA StuckTells ==
  ASSUME TablesOK, NEW q \in Actors, NEW s \in Sessions, req[q].on = s,
         Coherent(row[s], state[s], req[q]), RotateBlocksItself(q)
  PROVE  Tells(q, s)
<1> DEFINE x == [req[q] EXCEPT !.next = "stuck"]
<1>1. /\ req[q].next = "rotate" /\ UNCHANGED << row, state, tick >>
      /\ req' = [req EXCEPT ![q] = x]
  BY DEF RotateBlocksItself, Goes, TablesOK
<1>2. x.on = s /\ x.next = "stuck"
  BY Known DEF Request
<1>3. Coherent(row[s], state[s], x)
  BY <1>1, <1>2 DEF Coherent
<1> HIDE DEF x
<1> QED BY <1>1, <1>2, <1>3 DEF Tells, TablesOK

LEMMA SaveTells ==
  ASSUME TablesOK, NEW q \in Actors, NEW s \in Sessions, req[q].on = s,
         Coherent(row[s], state[s], req[q]), NEW auto, NEW code, NEW begun, NEW over,
         SaveEdited(q, auto, code, begun, over)
  PROVE  Tells(q, s)
<1> DEFINE r == Edited(req[q].row, auto, code, begun, over)
           x == [req[q] EXCEPT !.next = "refresh", !.row = r]
<1>1. /\ req[q].next = "save" /\ req[q].row \in Row /\ UNCHANGED << state, tick >>
      /\ row' = [row EXCEPT ![s] = r] /\ row'[s] = r /\ req' = [req EXCEPT ![q] = x]
  BY Known DEF SaveEdited, TablesOK
<1>2. req[q].row.current = row[s].current /\ req[q].row.status # "new" /\ row[s].status # "new"
  BY <1>1 DEF Coherent
<1>3. r.status = req[q].row.status /\ r.current = req[q].row.current
  BY <1>1 DEF Edited, Row
<1>4. x.on = s /\ x.next = "refresh"
  BY Known DEF Request
<1>5. Coherent(r, state[s], x)
  BY <1>1, <1>2, <1>3, <1>4 DEF Coherent
<1> HIDE DEF r, x
<1> QED BY <1>1, <1>4, <1>5 DEF Tells, TablesOK

LEMMA RefreshTells ==
  ASSUME TablesOK, NEW q \in Actors, NEW s \in Sessions, req[q].on = s,
         Coherent(row[s], state[s], req[q]), Refresh(q)
  PROVE  Tells(q, s)
<1>1. PICK after \in IF Exists(s) THEN ViewsOf(s) ELSE {req[q].row} :
        /\ IF Exists(s) THEN Syncs(s, after) ELSE UNCHANGED row
        /\ IF state[s] = NoState THEN Ends(q)
           ELSE req' = [req EXCEPT ![q].next = "sync", ![q].row = after, ![q].state = state[s]]
  BY DEF Refresh
<1>2. UNCHANGED << state, tick >> /\ req[q].next = "refresh"
  BY DEF Refresh
<1>3. /\ \A t \in Sessions : t # s => row'[t] = row[t]
      /\ row'[s].current = row[s].current
      /\ row'[s].status = row[s].status \/ row'[s].status \in {"draft", "active", "closed"}
  <2>1. CASE Exists(s)
    <3>1. after \in ViewsOf(s) /\ row' = [row EXCEPT ![s] = after]
      BY <1>1, <2>1 DEF Syncs
    <3>2. after.current = row[s].current /\ after.status \in {"draft", "active", "closed"}
      BY <3>1, ViewsByTheClock
    <3> QED BY <3>1, <3>2 DEF TablesOK
  <2>2. CASE ~ Exists(s)
    BY <1>1, <2>2
  <2> QED BY <2>1, <2>2
<1>4. row[s].status = "new" => row'[s].status = "new"
  BY <1>1 DEF Exists
<1>5. CASE state[s] = NoState
  <2>1. Coherent(row'[s], state[s], NoRequest)
    BY <1>3, <1>5, NothingRead DEF Coherent
  <2> QED BY <1>1, <1>2, <1>3, <1>5, <2>1 DEF Tells, TablesOK, Ends
<1>6. CASE state[s] # NoState
  <2> DEFINE x == [req[q] EXCEPT !.next = "sync", !.row = after, !.state = state[s]]
  <2>1. x.on = s /\ x.next = "sync" /\ x.state = state[s]
    BY Known DEF Request
  <2>2. req' = [req EXCEPT ![q] = x]
    BY <1>1, <1>6 DEF TablesOK
  <2>3. row[s].status # "new" /\ state[s].current = row[s].current
    BY <1>2, <1>6 DEF Coherent
  <2>4. row'[s].status # "new"
    BY <1>3, <2>3
  <2> HIDE DEF x
  <2>5. Coherent(row'[s], state[s], x)
    BY <1>3, <1>6, <2>1, <2>3, <2>4 DEF Coherent
  <2> QED BY <1>2, <1>3, <2>1, <2>2, <2>5 DEF Tells, TablesOK
<1> QED BY <1>5, <1>6

LEMMA DeleteTells ==
  ASSUME TablesOK, NEW q \in Actors, NEW s \in Sessions, req[q].on = s,
         Coherent(row[s], state[s], req[q]), DeleteSession(q)
  PROVE  Tells(q, s)
<1> DEFINE r == [row[s] EXCEPT !.status = "deleted"]
<1>1. /\ req[q].next = "delete" /\ row[s] \in Row /\ UNCHANGED << state, tick >>
      /\ row' = [row EXCEPT ![s] = r] /\ row'[s] = r /\ req' = [req EXCEPT ![q] = NoRequest]
  BY Known DEF DeleteSession, Ends, TablesOK
<1>2. r.status = "deleted" /\ r.current = row[s].current
  BY <1>1 DEF Row
<1>3. Coherent(r, state[s], NoRequest)
  BY <1>1, <1>2, NothingRead DEF Coherent
<1> HIDE DEF r
<1> QED BY <1>1, <1>3 DEF Tells, TablesOK

\* A request that begins.
LEMMA AskingTells ==
  ASSUME TablesOK, NEW q \in Requests, NEW s \in Sessions, NEW next, NEW seen, NEW pin,
         next # "none", Asks(q, s, next, seen, pin), UNCHANGED << row, state, tick >>,
         Coherent(row[s], state[s], [next |-> next, then |-> "none", on |-> s, row |-> seen,
                                     synced |-> NoRow, state |-> NoState, pin |-> pin])
  PROVE  Tells(q, s)
<1> DEFINE x == [next |-> next, then |-> "none", on |-> s, row |-> seen, synced |-> NoRow,
                 state |-> NoState, pin |-> pin]
<1>1. q \in Actors /\ req' = [req EXCEPT ![q] = x] /\ x.on = s /\ x.next # "none"
  BY DEF Asks, Actors
<1>2. Coherent(row'[s], state'[s], x)
  OBVIOUS
<1> HIDE DEF x
<1> QED BY <1>1, <1>2 DEF Tells, TablesOK

LEMMA LookingTells ==
  ASSUME TablesOK, NEW q \in Requests, NEW s \in Sessions,
         NEW then \in {"none", "start", "close", "save", "delete"},
         Coherent(row[s], state[s], NoRequest), ViewsFor(q, s, then)
  PROVE  Tells(q, s)
<1>1. PICK after \in ViewsOf(s) :
        /\ Syncs(s, after)
        /\ LET seen == IF then = "save" THEN after ELSE NoRow IN
           req' = [req EXCEPT ![q] =
             [next |-> "look", then |-> then, on |-> s, row |-> seen,
              synced |-> seen, state |-> NoState, pin |-> NoPin]]
  BY DEF ViewsFor
<1>2. /\ row' = [row EXCEPT ![s] = after] /\ row'[s] = after /\ UNCHANGED << state, tick >>
      /\ row[s].status # "new"
  BY <1>1 DEF Syncs, ViewsFor, TablesOK, Exists
<1>3. after.current = row[s].current /\ after.status \in {"draft", "active", "closed"}
  BY ViewsByTheClock
<1> DEFINE seen == IF then = "save" THEN after ELSE NoRow
           x == [next |-> "look", then |-> then, on |-> s, row |-> seen,
                 synced |-> seen, state |-> NoState, pin |-> NoPin]
<1>4. q \in Actors /\ req' = [req EXCEPT ![q] = x]
  BY <1>1 DEF Actors
<1>5. x.next = "look" /\ x.then = then /\ x.on = s /\ (then = "save" => x.synced = after)
  OBVIOUS
<1> HIDE DEF x, seen
<1>6. Coherent(after, state[s], x)
  BY <1>2, <1>3, <1>5, NothingRead DEF Coherent
<1> QED BY <1>2, <1>4, <1>5, <1>6 DEF Tells, TablesOK

LEMMA PlainAskTells ==
  ASSUME TablesOK, NEW q \in Requests, NEW s \in Sessions,
         Coherent(row[s], state[s], NoRequest), AskToStart(q, s) \/ AskToRotate(q, s) \/ AskForPin(q, s)
  PROVE  Tells(q, s)
<1>1. PICK next \in {"start", "rotate", "resolve"}, seen \in {NoRow, Listed(row[s])} :
        /\ Asks(q, s, next, seen, NoPin) /\ UNCHANGED << row, state, tick >>
        /\ next = "resolve" => row[s].status # "new" /\ seen = Listed(row[s])
  BY DEF AskToStart, AskToRotate, AskForPin, Exists
<1>2. Listed(row[s]).status = row[s].status
  BY ListedType DEF TablesOK
<1>3. Coherent(row[s], state[s], [next |-> next, then |-> "none", on |-> s, row |-> seen,
                                  synced |-> NoRow, state |-> NoState, pin |-> NoPin])
  BY <1>1, <1>2, NothingRead DEF Coherent
<1> QED BY <1>1, <1>3, AskingTells
-----------------------------------------------------------------------------
(* One after the other, every step keeps the two records together.           *)

LEMMA EndsTell ==
  ASSUME TablesOK, NEW q \in Actors, NEW s \in Sessions, req[q].on = s,
         Coherent(row[s], state[s], req[q]),
         StartFails(q) \/ RotateRefused(q) \/ SyncFails(q) \/ Verify(q)
  PROVE  Tells(q, s)
<1>1. /\ Ends(q) /\ UNCHANGED << row, state >> /\ tick' \in {tick, [tick EXCEPT !.todo = {}]}
      /\ req[q].next \in {"start", "rotate", "sync", "verify"}
  BY DEF StartFails, RotateRefused, SyncFails, Verify
<1> QED BY <1>1, EndingTells

LEMMA WorkStaysInTurn ==
  ASSUME PinsInv, InTurn, NEW q \in Actors,
         \/ Step(q) \/ Refresh(q) \/ SyncFails(q) \/ DeleteSession(q)
         \/ \E auto, begun, over, code : SaveEdited(q, auto, code, begun, over)
  PROVE  InTurn'
<1> DEFINE s == req[q].on
<1>1. s \in Sessions /\ RequestShown(req[q], shown) /\ TablesOK
  BY Known DEF PinsInv, RequestsShown
<1>2. Busy(q)
  BY DEF Busy, Step, Start, StartFails, Look, Resolve, Rehydrate, StoreState, RehydrateFails, Reconcile,
         RotateRefused, RotateBlocksItself, RotateStatic, RotateBegins, RotateEnds, Close, Clean,
         Verify, Refresh, SyncFails, DeleteSession, SaveEdited
<1>3. Coherent(row[s], state[s], req[q])
  BY <1>1, <1>2 DEF InTurn, Story, About
<1>4. Tells(q, s)
  <2>1. CASE Step(q)
    BY <1>1, <1>3, <2>1, StartTells, LookTells, ResolveTells, RehydrateTells,
       RehydrateFailsTells, StoreTells, ReconcileTells,
       StuckTells, RotateStaticTells, RotateBeginsTells, RotateEndsTells, CloseTells, CleanTells,
       EndsTell DEF Step
  <2>2. CASE Refresh(q)
    BY <1>1, <1>3, <2>2, RefreshTells
  <2>3. CASE SyncFails(q)
    BY <1>1, <1>3, <2>3, EndsTell
  <2>4. CASE DeleteSession(q)
    BY <1>1, <1>3, <2>4, DeleteTells
  <2>5. ASSUME NEW auto, NEW begun, NEW over, NEW code, SaveEdited(q, auto, code, begun, over)
        PROVE  Tells(q, s)
    BY <1>1, <1>3, <2>5, SaveTells
  <2> QED BY <2>1, <2>2, <2>3, <2>4, <2>5
<1> QED BY <1>1, <1>2, <1>4, ActorsStep

\* A request that comes when nothing is under way.
LEMMA AskStaysInTurn ==
  ASSUME TablesOK, InTurn, Idle, Serial, Asking
  PROVE  InTurn'
<1>1. ASSUME NEW s \in Sessions PROVE Coherent(row[s], state[s], NoRequest)
  <2>1. About(s) = {}
    BY DEF About, Busy, Idle
  <2> QED BY <2>1 DEF InTurn, Story
<1>2. ASSUME NEW q \in Requests, NEW s \in Sessions, Tells(q, s)
      PROVE  InTurn'
  BY <1>2, ActorsStep DEF Actors
<1>3. CASE Starting(~ Calm) \/ Managing \/ Editing \/ Showing
  <2>1. PICK q \in Requests, s \in Sessions :
          \/ \E then \in {"none", "start", "close", "save", "delete"} : ViewsFor(q, s, then)
          \/ AskToStart(q, s) \/ AskToRotate(q, s) \/ AskForPin(q, s)
    BY <1>3 DEF Starting, Managing, Editing, Showing, AskToActivate, AskToClose, ReadToEdit,
                ReadToDelete, LookAt
  <2> QED BY <1>1, <1>2, <2>1, LookingTells, PlainAskTells
<1>4. CASE Viewing
  <2>1. PICK s \in Sessions : ViewSession(s)
    BY <1>4 DEF Viewing
  <2>2. PICK after \in ViewsOf(s) : Syncs(s, after)
    BY <2>1 DEF ViewSession
  <2>3. /\ row' = [row EXCEPT ![s] = after] /\ row'[s] = after
        /\ \A t \in Sessions : t # s => row'[t] = row[t]
        /\ UNCHANGED << state, req, tick >>
    BY <2>1, <2>2 DEF Syncs, ViewSession, TablesOK
  <2>4. after.current = row[s].current /\ after.status \in {"draft", "active", "closed"}
    BY ViewsByTheClock
  <2>5. row[s].status # "new"
    BY <2>2 DEF Syncs, Exists
  <2>6. Coherent(after, state[s], NoRequest)
    BY <1>1, <2>4, <2>5, NothingRead DEF Coherent
  <2>7. About(s) = {} /\ tick.phase # "maintain"
    BY DEF About, Busy, Idle
  <2> QED BY <2>3, <2>6, <2>7, RowsStep
<1> QED BY <1>3, <1>4 DEF Asking

\* Time, and the creation of a session, change nothing the records agree on.
LEMMA RowChanges ==
  ASSUME TablesOK, InTurn, NEW s \in Sessions, NEW r, row' = [row EXCEPT ![s] = r],
         r.current = row[s].current, UNCHANGED << state, req, tick >>,
         r.status = row[s].status
  PROVE  InTurn'
<1>1. row'[s] = r /\ \A t \in Sessions : t # s => row'[t] = row[t]
  BY DEF TablesOK
<1>2. \A x : Coherent(row[s], state[s], x) => Coherent(r, state[s], x)
  BY DEF Coherent
<1>3. tick.phase = "maintain" /\ s \in tick.todo => r.status = "active"
  BY DEF InTurn, Planned
<1>4. /\ \A q \in About(s) : Coherent(r, state[s], req[q])
      /\ About(s) = {} => Coherent(r, state[s], NoRequest)
  BY <1>2 DEF InTurn, Story
<1> QED BY <1>1, <1>3, <1>4, RowsStep

LEMMA TimeStaysInTurn ==
  ASSUME TablesOK, InTurn, Passing
  PROVE  InTurn'
<1>1. ASSUME NEW s \in Sessions, Begins(s) PROVE InTurn'
  <2> DEFINE r == [row[s] EXCEPT !.begun = TRUE]
  <2>1. row' = [row EXCEPT ![s] = r] /\ UNCHANGED << state, req, tick >>
    BY <1>1 DEF Begins
  <2>2. r.current = row[s].current /\ r.status = row[s].status /\ r.over = row[s].over
    BY Known DEF Row, TablesOK
  <2> HIDE DEF r
  <2> QED BY <2>1, <2>2, RowChanges
<1>2. ASSUME NEW s \in Sessions, EndPasses(s) PROVE InTurn'
  <2> DEFINE r == [row[s] EXCEPT !.over = TRUE]
  <2>1. row' = [row EXCEPT ![s] = r] /\ UNCHANGED << state, req, tick >>
    BY <1>2 DEF EndPasses
  <2>2. r.current = row[s].current /\ r.status = row[s].status /\ r.over
    BY Known DEF Row, TablesOK
  <2> HIDE DEF r
  <2> QED BY <2>1, <2>2, RowChanges
<1>3. ASSUME NEW s \in Sessions, Expires(s) PROVE InTurn'
  <2> DEFINE r == [row[s] EXCEPT !.expiry = "past"]
  <2>1. row' = [row EXCEPT ![s] = r] /\ UNCHANGED << state, req, tick >>
    BY <1>3 DEF Expires
  <2>2. r.current = row[s].current /\ r.status = row[s].status /\ r.over = row[s].over
    BY Known DEF Row, TablesOK
  <2> HIDE DEF r
  <2> QED BY <2>1, <2>2, RowChanges
<1>4. ASSUME NEW s \in Sessions, GraceEnds(s) PROVE InTurn'
  <2> DEFINE r == [row[s] EXCEPT !.grace = FALSE]
  <2>1. row' = [row EXCEPT ![s] = r] /\ UNCHANGED << state, req, tick >>
    BY <1>4 DEF GraceEnds
  <2>2. r.current = row[s].current /\ r.status = row[s].status /\ r.over = row[s].over
    BY Known DEF Row, TablesOK
  <2> HIDE DEF r
  <2> QED BY <2>1, <2>2, RowChanges
<1>5. ASSUME UNCHANGED << row, state, req, tick >> PROVE InTurn'
  BY <1>5 DEF InTurn, Alone, Planned, Story, About, Busy
<1> QED BY <1>1, <1>2, <1>3, <1>4, <1>5 DEF Passing, KeyExpires

LEMMA CreationStaysInTurn ==
  ASSUME TablesOK, InTurn, NEW begins, NEW pins, Creating(begins, pins)
  PROVE  InTurn'
<1>1. PICK s \in Sessions, auto \in BOOLEAN, begun \in begins, pin \in pins :
        CreateSession(s, auto, begun, pin)
  BY DEF Creating
<1> DEFINE r == CreatedRow(auto, begun, pin)
<1>2. /\ row[s].status = "new" /\ row' = [row EXCEPT ![s] = r]
      /\ UNCHANGED << state, req, tick >>
  BY <1>1 DEF CreateSession
<1>3. r.status = "draft"
  BY DEF CreatedRow
<1>4. row'[s] = r /\ \A t \in Sessions : t # s => row'[t] = row[t]
  BY <1>2 DEF TablesOK
<1>5. \A x : Coherent(row[s], state[s], x) => Coherent(r, state[s], x)
  BY <1>2, <1>3 DEF Coherent
<1>6. tick.phase = "maintain" => s \notin tick.todo
  BY <1>2 DEF InTurn, Planned
<1>7. /\ \A q \in About(s) : Coherent(r, state[s], req[q])
      /\ About(s) = {} => Coherent(r, state[s], NoRequest)
  BY <1>5 DEF InTurn, Story
<1> HIDE DEF r
<1> QED BY <1>2, <1>4, <1>6, <1>7, RowsStep

LEMMA TicksStayInTurn ==
  ASSUME TablesOK, InTurn, Ticking, \A q \in Requests : req[q].next = "none"
  PROVE  InTurn'
<1>1. UNCHANGED << row, state >>
  BY DEF Ticking, TickBegins, TickMaintains, TickEnds, TickVisits
<1>3. \A q \in Actors : ~ Busy(q)
  BY DEF Ticking, TickBegins, TickMaintains, TickEnds, TickVisits, InTurn, Planned, Busy, Actors
<1>4. \A s \in Sessions : About(s) = {} /\ Coherent(row[s], state[s], NoRequest)
  BY <1>3 DEF About, InTurn, Story
<1>5. CASE TickBegins \/ TickMaintains \/ TickEnds
  <2>0. /\ TickBegins => req' = req /\ tick'.phase = "open"
        /\ TickMaintains => /\ req' = req /\ tick'.phase = "maintain"
                           /\ tick'.todo = {s \in Sessions : row[s].status = "active"}
        /\ TickEnds => req' = req /\ tick'.phase = "idle" /\ tick'.todo = {}
    <3>1. TickBegins => req' = req /\ tick'.phase = "open"
      BY DEF TickBegins, TablesOK, Tick
    <3>2. TickMaintains => /\ req' = req /\ tick'.phase = "maintain"
                           /\ tick'.todo = {s \in Sessions : row[s].status = "active"}
      BY DEF TickMaintains
    <3>3. TickEnds => req' = req /\ tick'.phase = "idle" /\ tick'.todo = {}
      BY DEF TickEnds, NoTick
    <3> QED BY <3>1, <3>2, <3>3
  <2>1. /\ req' = req
        /\ tick'.phase = "idle" => tick'.todo = {}
        /\ tick'.phase = "maintain" => \A s \in tick'.todo : row[s].status = "active"
    BY <1>5, <2>0
  <2>2. \A q \in Actors : ~ Busy(q)'
    BY <1>3, <2>1 DEF Busy
  <2>3. Alone' /\ Planned'
    BY <1>1, <2>1, <2>2 DEF Alone, Planned, Actors
  <2>4. \A s \in Sessions : Story(s)'
    BY <1>1, <1>4, <2>1 DEF Story, About, Busy
  <2> QED BY <2>3, <2>4 DEF InTurn
<1>6. ASSUME NEW s \in Sessions, TickVisits(s) PROVE InTurn'
  <2>1. PICK next \in {"start", "close", "resolve"} :
          /\ tick.phase = "open" => next = "start"
          /\ req' = [req EXCEPT ![Worker] =
               [next |-> next, then |-> "none", on |-> s, row |-> tick.rows[s], synced |-> NoRow,
                state |-> NoState, pin |-> NoPin]]
    BY <1>6 DEF TickVisits
  <2> DEFINE x == [next |-> next, then |-> "none", on |-> s, row |-> tick.rows[s], synced |-> NoRow,
                   state |-> NoState, pin |-> NoPin]
  <2>2. /\ req'[Worker] = x /\ x.on = s /\ x.next = next
        /\ \A q \in Actors : q # Worker => ~ Busy(q)'
    BY <1>3, <2>1 DEF TablesOK, Actors, Busy
  <2>3. s \in tick.todo /\ tick' = [tick EXCEPT !.todo = tick.todo \ {s}]
    BY <1>6 DEF TickVisits
  <2>4. tick'.phase = tick.phase /\ tick'.todo = tick.todo \ {s} /\ tick.phase \in {"open", "maintain"}
    BY <2>3 DEF TablesOK, Tick, InTurn, Planned
  <2>5. tick.phase = "maintain" => \A t \in tick.todo : row[t].status = "active"
    BY DEF InTurn, Planned
  <2>6. Alone'
    BY <2>2, PinsAssumption DEF Alone, Actors
  <2>7. Planned'
    BY <1>1, <2>2, <2>4, <2>5 DEF Planned
  <2>8. Coherent(row[s], state[s], x)
    BY <1>4, <2>1, <2>2, <2>3, <2>4, <2>5, NothingRead DEF Coherent
  <2>9. About(s)' \subseteq {Worker} /\ \A t \in Sessions : t # s => About(t)' = {}
    BY <2>2 DEF About
  <2>10. Worker \in About(s)'
    BY <2>1, <2>2 DEF About, Busy, Actors
  <2> HIDE DEF x
  <2>11. \A t \in Sessions : Story(t)'
    BY <1>1, <1>4, <2>2, <2>8, <2>9, <2>10 DEF Story
  <2> QED BY <2>6, <2>7, <2>11 DEF InTurn
<1> QED BY <1>5, <1>6 DEF Ticking

\* MCAttendancePins takes steps of AttendancePins.
LEMMA MCStepIsStep ==
  ASSUME TablesOK, [MCNext]_mcvars
  PROVE  [Next]_vars /\ UNCHANGED scenario
<1>1. ASSUME Creating({TRUE, ~ Serial}, {CHOOSE pin \in Pins : TRUE}) PROVE Act
  <2>1. (CHOOSE pin \in Pins : TRUE) \in Pins
    BY PinsAssumption
  <2>2. Creating(BOOLEAN, Pins)
    BY <1>1, <2>1 DEF Creating, Serial
  <2> QED BY <2>2 DEF Act
<1>2. ASSUME Asking PROVE Act
  <2>1. Starting(~ Calm) => Starting(TRUE)
    BY DEF Starting
  <2> QED BY <1>2, <2>1 DEF Asking, Act
<1>3. ASSUME Going PROVE Act
  <2>1. Saving({}) => Saving(MaybePin)
    BY DEF Saving
  <2> QED BY <1>3, <2>1 DEF Going, Act
<1>4. ASSUME Passing PROVE Act
  BY <1>4 DEF Act
<1>5. UNCHANGED mcvars \/ (Act /\ Remembers /\ UNCHANGED scenario)
  BY <1>1, <1>2, <1>3, <1>4 DEF MCNext
<1> QED BY <1>5 DEF Next, mcvars

LEMMA FirstInTurn ==
  ASSUME Init
  PROVE  InTurn
<1>1. \A q \in Actors : ~ Busy(q)
  BY NothingRead DEF Init, Busy
<1>2. tick.phase = "idle" /\ tick.todo = {}
  BY DEF Init, NoTick
<1>3. \A s \in Sessions : row[s].status = "new" /\ state[s] = NoState
  BY DEF Init, NoRow
<1>4. Alone /\ Planned
  BY <1>1, <1>2 DEF Alone, Planned, Actors
<1>5. \A s \in Sessions : Story(s)
  BY <1>1, <1>3, NothingRead DEF Story, About, Coherent
<1> QED BY <1>4, <1>5 DEF InTurn

LEMMA StaysInTurn ==
  ASSUME PinsInv, InTurn, Serial, [MCNext]_mcvars
  PROVE  InTurn'
<1>1. TablesOK
  BY DEF PinsInv
<1>2. CASE Creating({TRUE, ~ Serial}, {CHOOSE pin \in Pins : TRUE})
  BY <1>1, <1>2, CreationStaysInTurn
<1>3. CASE Asking
  <2>1. Idle
    BY <1>3 DEF Asking
  <2> QED BY <1>1, <1>3, <2>1, AskStaysInTurn
<1>4. CASE \E q \in Actors : Step(q)
  BY <1>4, WorkStaysInTurn
<1>5. CASE Saving({})
  <2>1. PICK q \in Requests :
          \/ \E auto, begun, over \in BOOLEAN, code \in {} \cup {req[q].row.code} :
               SaveEdited(q, auto, code, begun, over)
          \/ Refresh(q) \/ SyncFails(q) \/ DeleteSession(q)
    BY <1>5 DEF Saving
  <2>2. q \in Actors
    BY DEF Actors
  <2> QED BY <2>1, <2>2, WorkStaysInTurn
<1>6. CASE Ticking /\ \A q \in Requests : req[q].next = "none"
  BY <1>1, <1>6, TicksStayInTurn
<1>7. CASE Passing
  BY <1>1, <1>7, TimeStaysInTurn
<1>8. CASE UNCHANGED mcvars
  BY <1>8 DEF mcvars, vars, InTurn, Alone, Planned, Story, About, Busy
<1> QED BY <1>2, <1>3, <1>4, <1>5, <1>6, <1>7, <1>8 DEF MCNext, Going

SerialInv == PinsInv /\ (Serial => InTurn)

LEMMA InTurnFirst == MCInit => SerialInv
BY InitShown, FirstInTurn DEF MCInit, SerialInv

LEMMA InTurnNext == SerialInv /\ [MCNext]_mcvars => SerialInv'
<1> SUFFICES ASSUME SerialInv, [MCNext]_mcvars PROVE SerialInv'
  OBVIOUS
<1>1. [Next]_vars /\ UNCHANGED scenario
  BY MCStepIsStep DEF SerialInv, PinsInv
<1>2. PinsInv'
  BY <1>1, NextKeepsShown DEF SerialInv
<1>3. Serial' = Serial
  BY <1>1 DEF Serial
<1>4. Serial => InTurn'
  BY StaysInTurn DEF SerialInv
<1> QED BY <1>2, <1>3, <1>4 DEF SerialInv

LEMMA AlwaysInTurn == MCSpec => []SerialInv
BY InTurnFirst, InTurnNext, PTL DEF MCSpec

\* The PIN on the projector is the PIN that checks in, as long as the starts,
\* looks, edits, rotations and closings of a session (StartAttendanceSession,
\* rotateAttendanceRuntimePINLocked, UpdateAttendanceSession, ...) come one
\* after the other: however many sessions and PINs, whatever the clock does.
THEOREM AgreesInTurn == MCSpec => []ShownIsAcceptedSerially
<1>1. SerialInv => ShownIsAcceptedSerially
  <2> SUFFICES ASSUME SerialInv, Serial, NEW s \in Sessions, Quiet(s),
                      row[s].status = "active", state[s] # NoState
               PROVE  state[s].current = row[s].current
    BY DEF ShownIsAcceptedSerially, ShownIsAccepted
  <2>1. About(s) = {}
    BY DEF About, Busy, Quiet
  <2> QED BY <2>1, NothingRead DEF SerialInv, InTurn, Story, Coherent
<1> QED BY <1>1, AlwaysInTurn, PTL

=============================================================================
