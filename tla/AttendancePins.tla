---------------------------- MODULE AttendancePins ----------------------------
(***************************************************************************)
(* The life of an attendance session's PIN.                                *)
(*                                                                         *)
(* A session keeps two records that must tell the same story: its row in   *)
(* attendance_sessions, whose PIN hashes a check-in is verified against,   *)
(* and its runtime state in Redis, from which the projector shows the PIN. *)
(* A third record, the Redis key of each PIN, leads a typed PIN to its     *)
(* session.  The requests of teachers and screens, and the worker that     *)
(* opens, rotates and closes sessions, write all three, mostly without a   *)
(* transaction around them.                                                *)
(*                                                                         *)
(* Sources: repositories/attendance_runtime_repo.go, attendance_repo.go,   *)
(* handlers/attendance_handler.go, the worker in cmd/api/main.go.          *)
(*                                                                         *)
(* Time is three flags of a row: its start has come (begun), its end has   *)
(* passed (over), and its expires_at: at its end, at a time of its own, or *)
(* past.                                                                   *)
(***************************************************************************)
EXTENDS Naturals, FiniteSets

CONSTANTS
  Sessions,   \* session ids; a deleted one is not given out again
  Pins,
  NoPin,
  NoSession,
  NoState,
  Requests,   \* requests in flight
  Worker      \* the lifecycle worker of the leading process

ASSUME PinsAssumption ==
  /\ Pins # {} /\ NoPin \notin Pins
  /\ Sessions # {} /\ NoSession \notin Sessions
  /\ Worker \notin Requests

VARIABLES
  row,       \* attendance_sessions
  key,       \* Redis, per PIN: the session it leads to
  state,     \* Redis, per session: the runtime state
  shown,     \* per session: the PINs its row or its screen has shown as current
  admitted,  \* per session: the PINs that students have checked in with
  req,       \* per request: the next step and what was read so far
  tick,      \* the worker's tick: the sessions it still has to visit
  stale      \* history: who holds the row of which session from before its close

vars == <<row, key, state, shown, admitted, req, tick, stale>>

Actors == Requests \cup {Worker}

MaybePin == Pins \cup {NoPin}

Modes == {"static", "rotating"}

Row == [status: {"new", "draft", "active", "closed", "deleted"},
        begun: BOOLEAN,
        over: BOOLEAN,
        expiry: {"none", "end", "own", "past"},  \* expires_at
        auto: BOOLEAN,                      \* auto_rotate_pin
        mode: Modes,                        \* pin_mode
        code: MaybePin,                     \* pin_code
        current: MaybePin,                  \* current_pin_hash
        previous: MaybePin,                 \* previous_pin_hash
        grace: BOOLEAN]                     \* pin_grace_until is ahead

\* AttendanceRuntimeState: one that rotates has reserved the PIN to go on with.
State ==
  {st \in [mode: Modes, current: Pins, next: MaybePin, previous: MaybePin] :
     st.mode = "rotating" => st.next \in Pins}

Request == [next: {"none", "look", "start", "close", "clean", "resolve",
                   "rehydrate", "store", "rotate", "grace", "stuck",
                   "reconcile", "save", "refresh", "sync", "delete", "verify"},
            then: {"none", "start", "close", "save", "delete"},  \* after the look
            on: Sessions,
            row: Row,                       \* the row as it was last read
            synced: Row,                    \* the row as the look began with it
            state: State \cup {NoState},    \* the runtime state as it was read
            pin: MaybePin]

Tick == [phase: {"idle", "open", "maintain"},
         todo: SUBSET Sessions,
         rows: [Sessions -> Row]]

TablesOK ==
  /\ row \in [Sessions -> Row]
  /\ key \in [Pins -> Sessions \cup {NoSession}]
  /\ state \in [Sessions -> State \cup {NoState}]
  /\ shown \in [Sessions -> SUBSET Pins]
  /\ admitted \in [Sessions -> SUBSET Pins]
  /\ req \in [Actors -> Request]
  /\ tick \in Tick

\* Rows, Redis and requests keep to their columns and fields.
TypeOK == TablesOK /\ stale \subseteq Actors \X Sessions

Exists(s) == row[s].status \notin {"new", "deleted"}

\* No transaction holds the row (rotation is the one that spans several
\* steps): an UPDATE, or a SELECT FOR UPDATE, would wait.
Free(s) == \A q \in Actors : req[q].next \in {"grace", "stuck"} => req[q].on # s

Goes(q, next) == req' = [req EXCEPT ![q].next = next]

\* A slot that is free remembers nothing.
NoRow == [status |-> "new", begun |-> FALSE, over |-> FALSE, expiry |-> "none",
          auto |-> TRUE, mode |-> "rotating", code |-> NoPin,
          current |-> NoPin, previous |-> NoPin, grace |-> FALSE]

NoRequest == [next |-> "none", then |-> "none", on |-> CHOOSE s \in Sessions : TRUE,
              row |-> NoRow, synced |-> NoRow, state |-> NoState, pin |-> NoPin]

NoTick == [phase |-> "idle", todo |-> {}, rows |-> [s \in Sessions |-> NoRow]]

Ends(q) == req' = [req EXCEPT ![q] = NoRequest]

\* A new request about s, idle so far, has read what it needs.
Asks(q, s, next, seen, pin) ==
  /\ q \in Requests
  /\ req[q].next = "none"
  /\ req' = [req EXCEPT ![q] =
       [next |-> next, then |-> "none", on |-> s, row |-> seen,
        synced |-> NoRow, state |-> NoState, pin |-> pin]]
-----------------------------------------------------------------------------
(* Redis: the keys of the PINs and the runtime state.                       *)

\* attendanceModeForSession, with the feature switched on
ModeOf(r) == IF r.auto THEN "rotating" ELSE "static"

\* reserveAttendancePIN: SETNX on one PIN after another until one is free.
Unreserved(keys) == {p \in Pins : keys[p] = NoSession}

\* releaseAttendancePINs: DEL, whoever the PIN leads to.
Released(keys, pins) ==
  [p \in Pins |-> IF p \in pins THEN NoSession ELSE keys[p]]

\* A PIN reserved, or claimed: SET, whoever it led to before.
Claimed(keys, pins, s) == [p \in Pins |-> IF p \in pins THEN s ELSE keys[p]]

PinsOf(st) ==
  IF st = NoState THEN {} ELSE {st.current, st.next, st.previous} \cap Pins

\* What persistAttendancePinHistory keeps, and what a screen may show.
Recorded(s, pin) == shown' = [shown EXCEPT ![s] = @ \cup {pin}]
-----------------------------------------------------------------------------
(* buildAttendanceRuntimeState: the PINs, then the row, then the state.     *)

\* A static session keeps the PIN announced beforehand.
FirstPins(r, keys) ==
  IF ModeOf(r) = "static" /\ r.code # NoPin THEN {r.code} ELSE Unreserved(keys)

NextPins(r, keys, first) ==
  IF ModeOf(r) = "rotating" THEN Unreserved(keys) \ {first} ELSE {NoPin}

Built(r, mode, first) ==
  [r EXCEPT !.status = "active", !.mode = mode, !.auto = (mode = "rotating"),
            !.code = NoPin, !.current = first, !.previous = NoPin,
            !.grace = FALSE, !.expiry = IF r.over THEN "own" ELSE "end"]

\* What the session is built from is the row `seen`, what is written over is
\* the row there is.
BuildsRow(s, seen, first, next) ==
  /\ row' = [row EXCEPT ![s] =
       IF Exists(s) THEN Built(@, ModeOf(seen), first) ELSE @]
  /\ key' = Claimed(key, {first, next} \cap Pins, s)
  /\ Recorded(s, first)

FreshState(seen, first, next) ==
  [mode |-> ModeOf(seen), current |-> first, next |-> next, previous |-> NoPin]
-----------------------------------------------------------------------------
(* Looking at a session rewrites it: GetAttendanceSession, the session list *)
(* and the form bring status, pin_code and grace up to date by the clock.   *)

ComputeSessionStatus(r) ==
  IF ~r.begun THEN "draft" ELSE IF r.over THEN "closed" ELSE "active"

\* generateUniqueAttendancePIN: unlike the pin_code of the other active rows,
\* as far as there is such a PIN; the keys in Redis are not asked.
UniquePins(s) ==
  LET taken == {row[t].code : t \in {u \in Sessions \ {s} :
                                      row[u].status = "active"}}
      fresh == Pins \ {row[s].code}
  IN IF fresh \subseteq taken THEN fresh ELSE fresh \ taken

ViewedDraft(r, pin) ==
  [r EXCEPT !.status = "draft", !.grace = FALSE,
            !.code = CASE r.mode = "rotating" -> NoPin
                       [] r.mode = "static" /\ r.code = NoPin -> pin
                       [] OTHER -> @]

ViewedActive(r, pin, due) ==
  LET renewed == r.code = NoPin \/ (r.auto /\ due) IN
  [r EXCEPT !.status = "active",
            !.code = IF renewed THEN pin ELSE @,
            !.grace = r.auto /\ (IF renewed THEN r.code # NoPin ELSE @)]

\* applyAttendancePinState
Viewed(r, pin, due) ==
  CASE ComputeSessionStatus(r) = "draft" -> ViewedDraft(r, pin)
    [] ComputeSessionStatus(r) = "active" -> ViewedActive(r, pin, due)
    [] OTHER -> [r EXCEPT !.status = "closed", !.code = NoPin, !.grace = FALSE]

\* The row as it may look after somebody looked at it.
ViewsOf(s) == {Viewed(row[s], pin, due) : pin \in UniquePins(s), due \in BOOLEAN}

\* syncAttendanceSessionPinState: the row is locked and brought up to date.
Syncs(s, after) ==
  /\ Exists(s)
  /\ Free(s)
  /\ row' = [row EXCEPT ![s] = after]

\* GetAttendanceSessions: the list
ViewSession(s) ==
  /\ \E after \in ViewsOf(s) : Syncs(s, after)
  /\ UNCHANGED <<key, state, shown, admitted, req, tick>>

\* GetAttendanceSession, which is a page of its own (then = "none") and with
\* which several handlers begin: the row is synced first ...
ViewsFor(q, s, then) ==
  /\ q \in Requests
  /\ req[q].next = "none"
  /\ \E after \in ViewsOf(s) :
       /\ Syncs(s, after)
       /\ LET seen == IF then = "save" THEN after ELSE NoRow IN
          req' = [req EXCEPT ![q] =
            [next |-> "look", then |-> then, on |-> s, row |-> seen,
             synced |-> seen, state |-> NoState, pin |-> NoPin]]
  /\ UNCHANGED <<key, state, shown, admitted, tick>>

Expired(r) == r.expiry = "past" \/ (r.expiry = "end" /\ r.over)

\* What the worker, or a screen, goes by of a row it has read.
Listed(r) == [NoRow EXCEPT !.status = r.status, !.auto = r.auto, !.code = r.code,
                           !.expiry = IF Expired(r) THEN "past" ELSE "none"]

\* The look is over: the handler goes on with the row r it has got.
Onward(x, r) ==
  IF x.then = "none" THEN NoRequest
  ELSE [NoRequest EXCEPT !.next = x.then, !.on = x.on,
                         !.row = IF x.then = "save" THEN r ELSE NoRow]

GoesOnWith(q, r) == req' = [req EXCEPT ![q] = Onward(req[q], r)]

\* ... and read again, to be shown with its PIN (ResolveAttendanceSessionPinState);
\* a handler that cannot goes on with the row that was synced.
Look(q) ==
  LET s == req[q].on IN
  /\ req[q].next = "look"
  /\ IF Exists(s)
     THEN req' = [req EXCEPT ![q].next = "resolve",
                    ![q].row = IF req[q].then = "save" THEN row[s] ELSE Listed(row[s])]
     ELSE GoesOnWith(q, req[q].synced)
  /\ UNCHANGED <<row, key, state, shown, admitted, tick>>

\* applyAttendanceRuntimeStateToSession: what a handler has of the row are the
\* PIN, the grace, the status and the expiry of the runtime state.
Overlaid(r, st, grace, expiry) ==
  IF st = NoState THEN [r EXCEPT !.code = NoPin, !.grace = FALSE]
  ELSE [r EXCEPT !.status = "active", !.expiry = expiry, !.code = st.current,
                 !.mode = IF r.auto THEN st.mode ELSE "static",
                 !.grace = grace /\ st.previous # NoPin]

GoesOnOverlaid(q, r, st) ==
  \E grace \in BOOLEAN, expiry \in {"end", "own", "past"} :
    GoesOnWith(q, Overlaid(r, st, grace, expiry))
-----------------------------------------------------------------------------
(* Creating, editing and deleting.                                          *)

\* CreateAttendanceSession: a rotating session has no PIN before its start.
CreatedRow(auto, begun, pin) ==
  [status |-> "draft", begun |-> begun, over |-> FALSE, expiry |-> "none",
   auto |-> auto, mode |-> ModeOf([auto |-> auto]),
   code |-> IF auto THEN NoPin ELSE pin,
   current |-> NoPin, previous |-> NoPin, grace |-> FALSE]

\* CreateAttendanceSessionHandler: the end must still be to come.
CreateSession(s, auto, begun, pin) ==
  /\ row[s].status = "new"
  /\ row' = [row EXCEPT ![s] = CreatedRow(auto, begun, pin)]
  /\ UNCHANGED <<key, state, shown, admitted, req, tick>>

ReadToEdit(q, s) == ViewsFor(q, s, "save")

ReadToDelete(q, s) == ViewsFor(q, s, "delete")

LookAt(q, s) == ViewsFor(q, s, "none")

\* What the form may change: the rotation, the announced PIN, the times (an
\* end that is moved leaves expires_at where it was).
Edited(r, auto, code, begun, over) ==
  [r EXCEPT !.auto = auto, !.mode = ModeOf([auto |-> auto]), !.code = code,
            !.grace = @ /\ code = r.code, !.begun = begun, !.over = over,
            !.expiry = IF @ = "end" /\ over # r.over THEN "own" ELSE @]

\* UpdateAttendanceSession: Save writes every column back as it was read, and
\* inserts the row if it is gone.
SaveEdited(q, auto, code, begun, over) ==
  LET s == req[q].on IN
  /\ req[q].next = "save"
  /\ Free(s)
  /\ row' = [row EXCEPT ![s] = Edited(req[q].row, auto, code, begun, over)]
  /\ req' = [req EXCEPT ![q].next = "refresh", ![q].row = row'[s]]
  /\ UNCHANGED <<key, state, shown, admitted, tick>>

\* RefreshAttendanceSessionPinState (which a row that is gone fails), then the
\* runtime state is read to be brought in line with the rotation chosen.
Refresh(q) ==
  LET s == req[q].on IN
  /\ req[q].next = "refresh"
  /\ \E after \in IF Exists(s) THEN ViewsOf(s) ELSE {req[q].row} :
       /\ IF Exists(s) THEN Syncs(s, after) ELSE UNCHANGED row
       /\ IF state[s] = NoState THEN Ends(q)
          ELSE req' = [req EXCEPT ![q].next = "sync", ![q].row = after,
                                  ![q].state = state[s]]
  /\ UNCHANGED <<key, state, shown, admitted, tick>>

\* DeleteAttendanceSession: what is in Redis stays there.
DeleteSession(q) ==
  LET s == req[q].on IN
  /\ req[q].next = "delete"
  /\ Free(s)
  /\ row' = [row EXCEPT ![s].status = "deleted"]
  /\ Ends(q)
  /\ UNCHANGED <<key, state, shown, admitted, tick>>
-----------------------------------------------------------------------------
(* reconcileAttendanceRuntimeMode: the state that was read earlier is       *)
(* rewritten for the mode of the row that was read earlier.                 *)

\* The state for the other mode.
InMode(st, mode, pin) ==
  [st EXCEPT !.mode = mode, !.next = IF mode = "static" THEN NoPin ELSE pin]

KeysInMode(keys, s, st, mode, pin) ==
  IF mode = "static" THEN Released(keys, {st.next} \cap Pins)
                     ELSE Claimed(keys, {pin}, s)

\* The PIN to go with the mode: rotation needs a next one.
ModePins(st, mode) ==
  IF mode = "static" THEN {NoPin} ELSE Unreserved(key) \ {st.current}

InRowMode(r, mode) == [r EXCEPT !.mode = mode, !.auto = (mode = "rotating")]

Reconcile(q) ==
  LET s == req[q].on
      st == req[q].state
      mode == ModeOf(req[q].row)
  IN
  /\ req[q].next \in {"sync", "reconcile"}
  /\ Free(s)
  /\ IF st.mode = mode \/ ModePins(st, mode) = {}
     THEN UNCHANGED <<row, key, state>>
     ELSE \E pin \in ModePins(st, mode) :
            /\ key' = KeysInMode(key, s, st, mode, pin)
            /\ state' = [state EXCEPT ![s] = InMode(st, mode, pin)]
            /\ row' = [row EXCEPT ![s] = InRowMode(@, mode)]
  /\ Ends(q)
  /\ UNCHANGED <<shown, admitted, tick>>

\* SyncAttendanceRuntimeAutoRotate is not tried again when Redis fails it.
SyncFails(q) ==
  /\ req[q].next = "sync"
  /\ Ends(q)
  /\ UNCHANGED <<row, key, state, shown, admitted, tick>>
-----------------------------------------------------------------------------
(* Starting.                                                                *)

\* ActivateAttendanceSessionHandler looks at the session first.
AskToActivate(q, s) == ViewsFor(q, s, "start")

\* StartAttendanceSessionHandler
AskToStart(q, s) ==
  /\ Asks(q, s, "start", NoRow, NoPin)
  /\ UNCHANGED <<row, key, state, shown, admitted, tick>>

\* StartAttendanceSession, whatever the status of the row: a runtime state
\* that is there already is answered, and the row left as it is.
Start(q) ==
  LET s == req[q].on IN
  /\ req[q].next = "start"
  /\ Free(s)
  /\ IF state[s] # NoState \/ ~Exists(s)
     THEN UNCHANGED <<row, key, state, shown>>
     ELSE \E first \in FirstPins(row[s], key) :
          \E next \in NextPins(row[s], key, first) :
            /\ BuildsRow(s, row[s], first, next)
            /\ state' = [state EXCEPT ![s] = FreshState(row[s], first, next)]
  /\ Ends(q)
  /\ UNCHANGED <<admitted, tick>>

\* No PIN is left.
StartFails(q) ==
  LET s == req[q].on IN
  /\ req[q].next = "start"
  /\ Free(s)
  /\ Exists(s) /\ state[s] = NoState
  /\ \A first \in FirstPins(row[s], key) : NextPins(row[s], key, first) = {}
  /\ Ends(q)
  /\ UNCHANGED <<row, key, state, shown, admitted, tick>>

\* The transaction is rolled back after Redis has been written.
StartIsLost(q) ==
  LET s == req[q].on IN
  /\ req[q].next = "start"
  /\ Free(s)
  /\ Exists(s) /\ state[s] = NoState
  /\ \E first \in FirstPins(row[s], key) :
     \E next \in NextPins(row[s], key, first) :
       /\ key' = Claimed(key, {first, next} \cap Pins, s)
       /\ state' = [state EXCEPT ![s] = FreshState(row[s], first, next)]
       /\ Recorded(s, first)
  /\ Ends(q)
  /\ UNCHANGED <<row, admitted, tick>>
-----------------------------------------------------------------------------
(* Showing the PIN.                                                         *)

\* GetAttendanceSessionPinHandler reads the row (and uses no more of it than
\* the worker does).
AskForPin(q, s) ==
  /\ Exists(s)
  /\ Asks(q, s, "resolve", Listed(row[s]), NoPin)
  /\ UNCHANGED <<row, key, state, shown, admitted, tick>>

\* Mutant of ToRehydrate: for a session of any status.
ToRehydrateAny(r) == TRUE

\* Without a state one is built for a session that was active.
ToRehydrate(r) == r.status = "active"

\* getAttendanceRuntimeState: what a screen shows, or what the worker goes on
\* from.
Resolve(q) ==
  LET st == state[req[q].on]
      GoesOn(next) == req' = [req EXCEPT ![q].next = next, ![q].state = st]
  IN
  /\ req[q].next = "resolve"
  /\ IF st = NoState /\ ToRehydrate(req[q].row) THEN GoesOn("rehydrate")
     ELSE \/ q # Worker /\ GoesOnOverlaid(q, req[q].row, st)
          \/ /\ q = Worker /\ st # NoState
             /\ \/ st.mode # ModeOf(req[q].row) /\ GoesOn("reconcile")
                \/ st.mode = ModeOf(req[q].row) /\ Ends(q)
                \/ st.mode = ModeOf(req[q].row) /\ st.mode = "rotating" /\ GoesOn("rotate")
  /\ UNCHANGED <<row, key, state, shown, admitted, tick>>

\* The PINs are reserved and the row is updated, without a lock ...
Rehydrate(q) ==
  LET s == req[q].on
      seen == req[q].row
  IN
  /\ req[q].next = "rehydrate"
  /\ Free(s)
  /\ \E first \in FirstPins(seen, key) : \E next \in NextPins(seen, key, first) :
       /\ BuildsRow(s, seen, first, next)
       /\ req' = [req EXCEPT ![q].next = "store",
                             ![q].state = FreshState(seen, first, next)]
  /\ UNCHANGED <<state, admitted, tick>>

\* ... and then the state is written; a handler has the row as it was built.
StoreState(q) ==
  LET st == req[q].state IN
  /\ req[q].next = "store"
  /\ state' = [state EXCEPT ![req[q].on] = st]
  /\ GoesOnWith(q, [Built(req[q].row, st.mode, st.current) EXCEPT !.code = st.current])
  /\ UNCHANGED <<row, key, shown, admitted, tick>>

\* No PIN is left: the worker gives up its tick, a handler goes on with the
\* row that was synced.
RehydrateFails(q) ==
  LET seen == req[q].row IN
  /\ req[q].next = "rehydrate"
  /\ \A first \in FirstPins(seen, key) : NextPins(seen, key, first) = {}
  /\ GoesOnWith(q, req[q].synced)
  /\ tick' = IF q = Worker THEN [tick EXCEPT !.todo = {}] ELSE tick
  /\ UNCHANGED <<row, key, state, shown, admitted>>
-----------------------------------------------------------------------------
(* Rotating: one transaction that holds the row, Redis written in between.  *)

AskToRotate(q, s) ==
  /\ Asks(q, s, "rotate", NoRow, NoPin)
  /\ UNCHANGED <<row, key, state, shown, admitted, tick>>

\* The PIN to go on with is not to be had.
NoPinToRotate(st) ==
  LET mine == {st.current, st.next} IN
  IF st.mode = "rotating" THEN Unreserved(key) \ mine = {}
  ELSE Cardinality(Unreserved(key) \ mine) < 2

\* Only an active session rotates, and only to a PIN that is free.  The worker
\* gives up its tick otherwise.
RotateRefused(q) ==
  LET s == req[q].on IN
  /\ req[q].next = "rotate"
  /\ Free(s)
  /\ row[s].status = "active" =>
       /\ state[s] # NoState
       /\ ModeOf(row[s]) = "rotating"
       /\ NoPinToRotate(state[s])
  /\ Ends(q)
  /\ tick' = IF q = Worker THEN [tick EXCEPT !.todo = {}] ELSE tick
  /\ UNCHANGED <<row, key, state, shown, admitted>>

\* With the row locked the runtime state is built on another connection, whose
\* UPDATE waits for the lock, which waits for the UPDATE.
RotateBlocksItself(q) ==
  LET s == req[q].on IN
  /\ req[q].next = "rotate"
  /\ Free(s)
  /\ row[s].status = "active"
  /\ state[s] = NoState
  /\ Goes(q, "stuck")
  /\ UNCHANGED <<row, key, state, shown, admitted, tick>>

\* A session whose rotation is switched off is only brought in line.
RotateStatic(q) ==
  LET s == req[q].on
      st == state[s]
  IN
  /\ req[q].next = "rotate"
  /\ Free(s)
  /\ row[s].status = "active" /\ st # NoState
  /\ ModeOf(row[s]) = "static"
  /\ state' = [state EXCEPT ![s] = InMode(st, "static", NoPin)]
  /\ key' = KeysInMode(key, s, st, "static", NoPin)
  /\ row' = [row EXCEPT ![s] = InRowMode(@, "static")]
  /\ Ends(q)
  /\ UNCHANGED <<shown, admitted, tick>>

\* A state cached before rotation was switched on is brought in line first.
ReconciledForRotation(st, pin) ==
  IF st.mode = "rotating" THEN st ELSE InMode(st, "rotating", pin)

\* The PIN after the next one is reserved, and the current PIN's key deleted.
RotateBegins(q) ==
  LET s == req[q].on IN
  /\ req[q].next = "rotate"
  /\ Free(s)
  /\ row[s].status = "active" /\ state[s] # NoState
  /\ ModeOf(row[s]) = "rotating"
  /\ \E pin \in ModePins(state[s], "rotating") :
       LET st == ReconciledForRotation(state[s], pin)
           keys == Claimed(key, {st.next} \cap Pins, s)
       IN \E after \in Unreserved(keys) \ {st.current, st.next} :
            /\ state' = [state EXCEPT ![s] = st]
            /\ key' = Released(Claimed(keys, {after}, s), {st.current})
            /\ req' = [req EXCEPT ![q].next = "grace", ![q].state = st,
                                  ![q].pin = after]
  /\ UNCHANGED <<row, shown, admitted, tick>>

RotatedState(st, after) ==
  [st EXCEPT !.current = st.next, !.previous = st.current, !.next = after]

\* Mutant of RotatedRow: the row keeps the hash of the old PIN as current.
HalfRotatedRow(r, st) == [r EXCEPT !.previous = st.current, !.grace = TRUE]

RotatedRow(r, st) ==
  [r EXCEPT !.current = st.next, !.previous = st.current, !.grace = TRUE]

\* The old PIN's key is set again for its grace, row and state are written.
RotateEnds(q) ==
  LET s == req[q].on
      st == req[q].state
  IN
  /\ req[q].next = "grace"
  /\ key' = Claimed(key, {st.current}, s)
  /\ row' = [row EXCEPT ![s] = RotatedRow(@, st)]
  /\ state' = [state EXCEPT ![s] = RotatedState(st, req[q].pin)]
  /\ Recorded(s, st.next)
  /\ Ends(q)
  /\ UNCHANGED <<admitted, tick>>

\* The transaction is rolled back, after Redis has been written.
RotateIsLost(q) ==
  LET s == req[q].on
      st == req[q].state
  IN
  /\ req[q].next = "grace"
  /\ key' = Claimed(key, {st.current}, s)
  /\ state' = [state EXCEPT ![s] = RotatedState(st, req[q].pin)]
  /\ Recorded(s, st.next)
  /\ Ends(q)
  /\ UNCHANGED <<row, admitted, tick>>
-----------------------------------------------------------------------------
(* Closing: the row first, Redis after the commit.                          *)

\* CloseAttendanceSessionHandler looks at the session first.
AskToClose(q, s) == ViewsFor(q, s, "close")

ClosedRow(r) ==
  [r EXCEPT !.status = "closed", !.expiry = "past", !.over = TRUE,
            !.code = NoPin, !.current = NoPin, !.previous = NoPin,
            !.grace = FALSE]

\* CloseAttendanceRuntimeSession
Close(q) ==
  LET s == req[q].on IN
  /\ req[q].next = "close"
  /\ Free(s)
  /\ row' = [row EXCEPT ![s] = IF Exists(s) THEN ClosedRow(@) ELSE @]
  /\ req' = [req EXCEPT ![q].next = "clean", ![q].state = state[s]]
  /\ UNCHANGED <<key, state, shown, admitted, tick>>

\* deleteAttendanceRuntimeState
Clean(q) ==
  /\ req[q].next = "clean"
  /\ state' = [state EXCEPT ![req[q].on] = NoState]
  /\ key' = Released(key, PinsOf(req[q].state))
  /\ Ends(q)
  /\ UNCHANGED <<row, shown, admitted, tick>>
-----------------------------------------------------------------------------
(* Checking in.                                                             *)

Accepts(r, pin) ==
  pin = r.current \/ (r.grace /\ r.previous # NoPin /\ pin = r.previous)

\* LookupAttendanceSessionIDByPIN: the key in Redis, else the rows.
LeadsTo(pin) ==
  IF key[pin] # NoSession THEN {key[pin]}
  ELSE {s \in Sessions : row[s].status = "active" /\ Accepts(row[s], pin)}

\* A student types a PIN for session s (or only a PIN: StudentCheckInByPIN).
TypePin(q, s, pin) ==
  /\ s \in LeadsTo(pin)
  /\ Asks(q, s, "verify", NoRow, pin)
  /\ UNCHANGED <<row, key, state, shown, admitted, tick>>

\* Mutant of Admissible: a PIN that leads to the session is taken for its PIN.
AdmissibleByKey(r, pin) == r.begun /\ ~r.over /\ r.status = "active"

\* StudentCheckIn reads the row again and compares the hashes.
Admissible(r, pin) == r.begun /\ ~r.over /\ r.status = "active" /\ Accepts(r, pin)

Verify(q) ==
  LET s == req[q].on
      pin == req[q].pin
  IN
  /\ req[q].next = "verify"
  /\ admitted' = IF Admissible(row[s], pin)
                 THEN [admitted EXCEPT ![s] = @ \cup {pin}] ELSE admitted
  /\ Ends(q)
  /\ UNCHANGED <<row, key, state, shown, tick>>
-----------------------------------------------------------------------------
(* The lifecycle worker.                                                    *)

\* Mutant of DueDrafts: the drafts whose time is still to come.
EarlyDrafts == {s \in Sessions : row[s].status = "draft" /\ ~row[s].begun}

DueDrafts ==
  {s \in Sessions : row[s].status = "draft" /\ row[s].begun /\ ~row[s].over}

\* AutoOpenDueAttendanceSessions lists the drafts whose time has come.
TickBegins ==
  /\ tick.phase = "idle"
  /\ tick' = [tick EXCEPT !.phase = "open", !.todo = DueDrafts]
  /\ UNCHANGED <<row, key, state, shown, admitted, req>>

\* MaintainAttendanceRuntimeSessions lists the active sessions.
TickMaintains ==
  /\ tick.phase = "open"
  /\ tick.todo = {}
  /\ req[Worker].next = "none"
  /\ tick' = [phase |-> "maintain", rows |-> [s \in Sessions |-> Listed(row[s])],
              todo |-> {s \in Sessions : row[s].status = "active"}]
  /\ UNCHANGED <<row, key, state, shown, admitted, req>>

\* The next session of the list: opened, or closed when its row as listed has
\* expired, or else looked after.
TickVisits(s) ==
  /\ req[Worker].next = "none"
  /\ s \in tick.todo
  /\ req' = [req EXCEPT ![Worker] =
       [next |-> IF tick.phase = "open" THEN "start"
                 ELSE IF Expired(tick.rows[s]) THEN "close" ELSE "resolve",
        then |-> "none", on |-> s, row |-> tick.rows[s], synced |-> NoRow,
        state |-> NoState, pin |-> NoPin]]
  /\ tick' = [tick EXCEPT !.todo = @ \ {s}]
  /\ UNCHANGED <<row, key, state, shown, admitted>>

TickEnds ==
  /\ tick.phase = "maintain"
  /\ tick.todo = {}
  /\ req[Worker].next = "none"
  /\ tick' = NoTick
  /\ UNCHANGED <<row, key, state, shown, admitted, req>>
-----------------------------------------------------------------------------
(* Time and Redis.                                                          *)

Begins(s) ==
  /\ Exists(s) /\ ~row[s].begun
  /\ row' = [row EXCEPT ![s].begun = TRUE]
  /\ UNCHANGED <<key, state, shown, admitted, req, tick>>

\* The end comes after the start, unless the session was closed before it.
EndPasses(s) ==
  /\ Exists(s) /\ row[s].begun /\ ~row[s].over
  /\ row' = [row EXCEPT ![s].over = TRUE]
  /\ UNCHANGED <<key, state, shown, admitted, req, tick>>

\* A session started or edited when its end had passed expires on its own.
Expires(s) ==
  /\ row[s].expiry = "own"
  /\ row' = [row EXCEPT ![s].expiry = "past"]
  /\ UNCHANGED <<key, state, shown, admitted, req, tick>>

GraceEnds(s) ==
  /\ row[s].grace
  /\ row' = [row EXCEPT ![s].grace = FALSE]
  /\ UNCHANGED <<key, state, shown, admitted, req, tick>>

\* A key left over from a rotation, or from a session no longer there.
KeyExpires(pin) ==
  LET s == key[pin] IN
  /\ s # NoSession
  /\ Free(s)
  /\ state[s] # NoState => pin \notin {state[s].current, state[s].next}
  /\ key' = [key EXCEPT ![pin] = NoSession]
  /\ UNCHANGED <<row, state, shown, admitted, req, tick>>

\* Redis comes back empty.
RedisFlush ==
  /\ key' = [p \in Pins |-> NoSession]
  /\ state' = [s \in Sessions |-> NoState]
  /\ UNCHANGED <<row, shown, admitted, req, tick>>
-----------------------------------------------------------------------------
Init ==
  /\ row = [s \in Sessions |-> NoRow]
  /\ key = [p \in Pins |-> NoSession]
  /\ state = [s \in Sessions |-> NoState]
  /\ shown = [s \in Sessions |-> {}]
  /\ admitted = [s \in Sessions |-> {}]
  /\ req = [q \in Actors |-> NoRequest]
  /\ tick = NoTick
  /\ stale = {}

Creating(begins, pins) ==
  \E s \in Sessions, auto \in BOOLEAN, begun \in begins, pin \in pins :
    CreateSession(s, auto, begun, pin)

\* Starts of a session whose start has come, unless `early`.
Starting(early) ==
  \E q \in Requests, s \in Sessions :
    /\ early \/ row[s].begun
    /\ AskToActivate(q, s) \/ AskToStart(q, s)

Viewing == \E s \in Sessions : ViewSession(s)

Showing ==
  \E q \in Requests, s \in Sessions : AskForPin(q, s) \/ LookAt(q, s)

Managing ==
  \E q \in Requests, s \in Sessions : AskToRotate(q, s) \/ AskToClose(q, s)

Editing ==
  \E q \in Requests, s \in Sessions : ReadToEdit(q, s) \/ ReadToDelete(q, s)

Saving(codes) ==
  \E q \in Requests :
    \/ \E auto, begun, over \in BOOLEAN, code \in codes \cup {req[q].row.code} :
         SaveEdited(q, auto, code, begun, over)
    \/ Refresh(q) \/ SyncFails(q) \/ DeleteSession(q)

CheckingIn == \E q \in Requests, s \in Sessions, p \in Pins : TypePin(q, s, p)

\* What an actor does next.
Step(q) ==
  \/ Start(q) \/ StartFails(q)
  \/ Look(q)
  \/ Resolve(q) \/ Rehydrate(q) \/ StoreState(q) \/ RehydrateFails(q)
  \/ Reconcile(q)
  \/ RotateRefused(q) \/ RotateBlocksItself(q) \/ RotateStatic(q)
  \/ RotateBegins(q) \/ RotateEnds(q)
  \/ Close(q) \/ Clean(q)
  \/ Verify(q)

Ticking ==
  TickBegins \/ TickMaintains \/ TickEnds \/ \E s \in Sessions : TickVisits(s)

Passing ==
  \/ \E s \in Sessions : Begins(s) \/ EndPasses(s) \/ Expires(s) \/ GraceEnds(s)
  \/ \E p \in Pins : KeyExpires(p)

Failing == \E q \in Actors : StartIsLost(q) \/ RotateIsLost(q)

\* What q goes on from is the row of s as it was read some time ago.
Holds(q, s) ==
  \/ req[q].on = s /\ req[q].next \in {"resolve", "rehydrate"}
  \/ q = Worker /\ tick.phase = "maintain" /\ s \in tick.todo

\* History: a row that is held while its session is closed is stale.
Remembers ==
  stale' = {h \in Actors \X Sessions :
              /\ Holds(h[1], h[2])'
              /\ \/ h \in stale
                 \/ row[h[2]].status # "closed" /\ row'[h[2]].status = "closed"}

Act ==
  \/ Creating(BOOLEAN, Pins) \/ Starting(TRUE) \/ Viewing \/ Showing \/ Managing \/ Editing
  \/ Saving(MaybePin) \/ CheckingIn \/ (\E q \in Actors : Step(q)) \/ Ticking \/ Passing
  \/ Failing \/ RedisFlush

Next == Act /\ Remembers

Spec == Init /\ [][Next]_vars
-----------------------------------------------------------------------------
(* Properties.                                                              *)

Quiet(s) == \A q \in Actors : req[q].on = s => req[q].next = "none"

(***************************************************************************)
(* The PIN on the projector is the PIN that checks in: with no request     *)
(* about it under way, an active session's runtime state and row agree.    *)
(***************************************************************************)
ShownIsAccepted ==
  \A s \in Sessions :
    Quiet(s) /\ row[s].status = "active" /\ state[s] # NoState =>
      state[s].current = row[s].current

(***************************************************************************)
(* Nobody checks in with a PIN that the session has never had: a key in    *)
(* Redis may lead to a PIN that is only reserved, or to a session that has *)
(* lost the PIN to another.                                                *)
(***************************************************************************)
AdmittedWasShown == \A s \in Sessions : admitted[s] \subseteq shown[s]

(***************************************************************************)
(* A closed session is opened again by a start, by an edit (when it is     *)
(* saved, or, until its refresh, by whoever looks first), or by one that   *)
(* still holds the row it read before the close, a screen or the worker,   *)
(* and rehydrates it.  Nobody who looks at it once it is closed opens it,  *)
(* however looks, edits, closings, ticks and a lost Redis overlap.         *)
(***************************************************************************)
MayReopen(q, s) ==
  /\ req[q].on = s
  /\ \/ req[q].next = "refresh"
     \/ req'[q] # req[q] /\ req[q].next \in {"start", "save"}
     \/ req'[q] # req[q] /\ req[q].next = "rehydrate" /\ <<q, s>> \in stale

ReopenedRightly ==
  \A s \in Sessions : row[s].status = "closed" /\ row'[s].status = "active" =>
    \E q \in Actors : MayReopen(q, s)

ClosedStaysClosed == [][ReopenedRightly]_vars

\* A session that may be checked in to by the clock, and yet is a draft.
Due(s) == row[s].status = "draft" /\ row[s].begun /\ ~row[s].over

=============================================================================
