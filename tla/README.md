# Verification of the classroom assistant backend

TLA+ models of the parts of this Go service whose correctness depends on the
order in which things happen, their TLC configurations, and TLAPS proofs about
them. The service (Fiber, GORM, PostgreSQL, Redis, WebSockets) runs courses:
attendance, grading and help queues, scores, exams, leave requests. Two or more
processes of it run side by side during a deployment, and every HTTP request is
a goroutine of its own, so nearly every table has several concurrent writers.

## 1. The system

| Component | State | Operations and interactions | What is hard |
|---|---|---|---|
| **Queue dispatch** (`repositories/queue_repo.go`, `handlers/queue_handler.go`) | `queue_bookings`, `queue_workers`, `queue_desk_statuses` | Students book through a PIN and cancel; workers (TAs) join, leave, accept, reject, complete; the dispatcher offers the first waiting booking; offers expire | reads and writes of a request in separate statements, offers racing deadlines, two sessions sharing workers |
| **Queue sessions** (same files) | `queue_sessions` | create, edit, start, pause, resume, close, delete, link into a concurrent group, unlink, joint/separated mode | whole-row saves, status checks on rows read earlier |
| **Queue jobs** (`cmd/api/main.go:587-771`) | dates and tickers in memory | offer timeouts every 10 s, stale sessions at midnight, abandoned paused sessions | several replicas, restarts, handovers |
| **Leader election** (`config/leader.go`) | one Redis key per job, `isLeader` per process | SETNX, renew, release | lost replies, late commands, stalls, crashes |
| **Attendance** (`attendance_repo.go`, `attendance_runtime_repo.go`) | sessions and records in PostgreSQL, PINs in Redis | open, rotate the PIN, check in, close, correct | one state in two stores; rollbacks, a Redis that comes back empty |
| **Attendance leave** (`attendance_leave_repo.go`) | requests with an item per session | submit, review, revoke, expire, bind to sessions created later, undo with a removal | approvals racing check-ins and expiry; seven ways to change what was granted |
| **Scores, edit requests, assignments** | scores, requests, sub-items, publish times | grade, request an edit, review, edit the sub-items, publish | reviews decided twice, sub-items replaced under scores, the minute job racing forms |
| **Exams** (`exam_*`, `classroom_repo.go`) | settings, results, rooms, seats | enter, publish, schedule, hide, mail, view; lay out rooms, assign seats | whole-row saves, plans replaced in several statements |
| **Courses and people** (`course_*`, `team_repo.go`) | courses, instructors, sections, enrolment, TAs, teams, a cached overview | create, toggle, invite, remove, move, restore, deal out teams | checks and writes in separate statements, lazily invalidated caches |
| **Accounts** (`auth_handler.go`, `twofa_handler.go`, `user_handler.go`, `oauth_handler.go`) | users, refresh tokens, codes, linked accounts | sign in, refresh, revoke, change and reset passwords, second factor, link | no transactions; whole user rows read and saved |
| **Realtime hub** (`realtime/`) | clients, rooms, Redis bus | join, broadcast, drop, publish, resync | slow clients, lost subscriptions, several replicas |
| **Mail, backup** (`services/`) | deferred mails; backup lock, marker and records | flush, retry; daily, by hand, restore | repeated after a crash; a restore brings back its own bookkeeping |
| **Announcements** (`system_settings_repo.go`, `system_settings_handler.go`) | announcements, acknowledgements, dismissals; notifications written | write one or several, edit, change the status, delete; acknowledge, dismiss; tell inboxes and by mail | a row read before it is written, a fan-out that outlives its request and that nothing records |
| Settings, logs, limits, tools | their tables | CRUD, reports | little of their own |

`PROJECT.json` lists every component with its sources and status, and every
hazard with the line where it bites and the properties that watch it.

How the parts fit together: handlers call the repository; some repository
functions open a transaction and lock the rows they touch, most do not. After
most queue actions a handler asks for the next assignment
(`tryAssignNextBookingAndEmit`), and the offer-timeout job asks again every
10 s, so the dispatcher may run after any step. Each job runs on every replica
and acts only where `IsLeader()` says so. Linked queue sessions are two rows with
one `concurrent_group_id`; their workers get a row in each, the copied one marked
`is_mirror`. Attendance sessions, leave requests and the roster change each
other's rows: a new session binds granted leave, a removal cancels what is
pending, its undoing restores it. Writes of the roster and of scores drop cached
overviews. Everything that changes is told to the rooms of the hub.

### What makes each part correct

* Dispatch: one unfinished booking per student and session; an offer always has
  a deadline and comes to an end; a started task is not lost; a finished booking
  stays finished; no booking waits for ever beside a free worker; a finished
  task is credited once; the projector shows no ghosts; a separated group keeps
  the courses' work apart; one grading per desk.
* Sessions: at most two sessions in a group and one mode for both; the life
  cycle draft, active, paused, closed.
* Election: the lock never passes from a punctual replica at work; a leader
  exists when faults end.
* Jobs: no session stays open, no day passes without a backup, and no mail is
  repeated, for longer or more often than faults explain.
* Attendance: the PIN on the screen is accepted, nobody checks in with another,
  sessions open on time and stay closed.
* Leave: at most one open item per student and session; records show what was
  granted and nothing else; attendance is not overruled.
* Grading: the summary of who is ungraded, the grid and the grading sheet agree;
  no edit of an assignment loses scores unasked; a request is decided once; what
  is due is published.
* Courses: the lead named leads and may; a person has one place; the overview
  becomes current again.
* Accounts: sessions end at their cap and with the password; a backup code works
  once; an account at a provider leads to one user.
* Exams: who has a published result is told; seats are in the exam's rooms.
* Hub: a client that stays sees each event of its rooms once, or is told to
  fetch everything.
* Announcements: everybody an announcement was published to is told, and once;
  what the list calls live is on the pages of its audience.

## 2. Modules

| Module | Models | State and its counterpart |
|---|---|---|
| `QueueDispatch` | the live queue | `session`, `worker`, `booking`, `board` are the four tables; `req`, `cancelling`, `selected` are what requests and jobs in flight remember between statements |
| `QueueSessions` | rows of `queue_sessions`, statement by statement | `row` is the table, `req` one slot per request in flight: the next statement and what was read; `late`, `mixed` histories |
| `QueueBooking` | from the PIN on the projector to a booking | `door`, `board`, `booked`, `latest` are PINs and status, desk rows, unfinished bookings and each student's last; `visit`, `staff` the requests in flight |
| `LeaseLock` | what an election promises: an abstract lock | `owner`, `acting` |
| `LeaderElection` | the Redis lease, shown to implement `LeaseLock` | `key` is the lock with its remaining time; `phase`, `leader`, `call`, `answer`, `since` are a process; `late` the commands Redis may still run |
| `QueueMidnight` | the midnight job on top of `LeaderElection` (EXTENDS, composed step by step) | `day`, `hour` the clock; `boot` how far a worker has got; `seen` is `lastDate`; `open` the start days of the sessions still open |
| `AttendancePins` | PINs of attendance sessions in both stores | `row`, `state`, `key` are the table, the runtime state and the PIN keys in Redis; `req`, `tick` requests and the worker; `shown`, `admitted` histories |
| `AttendanceLeave` | leave requests and the records they change | `request`, `item`, `record`, `session`, `enrolled` are tables; `flight` the operations between read and commit |
| `Grading` | one assignment, its sub-items, scores, edit requests and publication | tables `row`, `items`, `scores`, `requests`; `call` the handlers in flight, `job` the minute job |
| `CourseStaff`, `CourseRoster` | courses and instructors; sections, people, teams and the cached overview (EXTENDS the first) | tables, and `call` the requests in flight |
| `Accounts`, `LinkedAccounts` | users, tokens, second factor; external accounts (EXTENDS the first) | tables, and `request`: per request the statements still to run with the values read |
| `ExamPublish` | results from draft to mail and view | `exam`, `marks`, `viewed` are tables; `clerk`, `sweep`, `fanout` requests, the job and the mails in the background |
| `ExamSeating` | rooms, layouts and seats | `room`, `desk`, `plan` are tables, `editor` the requests |
| `RealtimeHub` | connections, rooms and the bus, per replica | `hub`, `member`, `buf` are the hub's maps and channels; `reader`, `writer` the two goroutines of a connection; `bus` a replica's subscription |
| `DailyBackup` | daily backup, backups by hand, restores | `settings`, `records`, `bucket`, `lock` are app_configs, the list, the object store and the Redis lock; `known` each process's cache of settings |
| `DeferredMail` | mails that wait for the window | `mail` is the table; `flush` the list a process works through |
| `Announcements` | announcements from the composer to inboxes and pages | `posted`, `acked`, `dismissed` are the tables; `inbox`, `mailed` count what was written to each user; `edit`, `click` are requests in flight, `fanout` the goroutines that tell; `spread`, `withdrawn`, `addressed`, `cut`, `editedTwice`, `overtaken` histories |
| `MC...` | bounds, scenarios and histories for TLC | a `scenario` picks what may start; `starts` counts it; `raced` and the like remember overlaps |
| `QueueDispatchProofs`, `QueueSessionsProofs`, `AttendancePinsProofs`, `AttendanceLeaveProofs`, `AdministrationProofs`, `GradingProofs`, `AccountsProofs`, `ServicesProofs` | theorems about the module each is named after (`QueueDispatchProofs`: also the history of joins of `MCQueueDispatch`; `AccountsProofs`: also `LinkedAccounts`, and the histories of `MCAccounts`; `GradingProofs`: in the scenarios of `MCGrading`; `AdministrationProofs`: `ExamSeating` and `Announcements`; `ServicesProofs`: `RealtimeHub`, `DeferredMail` and `LeaderElection`) | |

`PROJECT.json` maps each definition to the lines it stands for. Components that
share no state are checked in one run, one scenario each (`MCClassroom`,
`MCServices`): a behaviour follows one of them and the others stand still.

### Modelling decisions

* A step is one transaction, or one statement where the code opens none. What a
  handler reads before it writes is a step of its own whenever something it
  depends on can change in between; what two READ COMMITTED transactions can do
  to each other when they lock different rows is not modelled, except in
  `ExamSeating`: there the replacement of a session's rooms is two steps because
  seats and rooms are written without a common lock, and of two replacements that
  overlap each leaves the other's new rows, or fails on a row that both write.
* Saves of a whole row (`Save`) write every column as it was read, and insert the
  row again if it is gone, because GORM does.
* Names, texts, coordinates, numbers of sections and seats, points, formats and
  logs are left out. Scores are "given or not" except where an edit request
  carries one. Mails are sent or not.
* Time is what is compared: a deadline runs or has passed, a start has come, a
  clock counts units for leases, session caps, days and minutes of jobs.
* `QueueDispatch`: where the code's order falls through to `user_id`, any of the
  least loaded workers may be chosen; a transaction that expires several offers
  is a sequence of one-offer steps (SKIP LOCKED); the count of consecutive
  timeouts saturates at `PauseThreshold`; one join or leave request per worker
  row and one public cancel per booking are in flight at a time. A worker's
  heartbeat age is left out. First-in-first-out service is not claimed: the code
  itself reorders by eligibility.
* `QueueBooking` keeps bookings that are waiting or in progress and leaves
  offers to `QueueDispatch`. Group PINs, the check-in cutoff and the late stamp,
  preview mode, the staff's unvalidated booking route and the public cancel (in
  `QueueDispatch`) are left out.
* `LeaderElection` counts time in units; a renewal interval, a call timeout and
  the lease stand in the relation `Interval + 2 * Timeout < TTL` that 5 s, 2 s
  and 15 s satisfy. A punctual replica starts its tick when due and ends it
  within the timeout; others may stall for any time. A command the caller gave
  up on may be run later or never. `Former` stands for the tokens of processes
  that are gone. Redis does not lose keys.
* `QueueMidnight` scales the minute and the day down; a day is long enough to
  replace a lost lease in (`DayAssumption`), and midnight does not fall within a
  start.
* `AttendancePins` reduces time to three flags of a row (`begun`, `over`, when it
  expires). PINs are interchangeable; that a random PIN meets another is left in.
  `GetAttendanceSession`, with which a page, a form, a close, an activation and a
  deletion begin, is several steps: the row is synced, read again, and overlaid with
  the runtime state, which it builds if there is none; a form saves what comes out.
* `AttendanceLeave`: locks on requests and items are modelled, records are never
  locked by the code. A transaction of two steps may fail between them.
* `Grading`: saving an assignment is a transaction of two steps, since under READ
  COMMITTED a score may be committed between the count of the scores in the way and
  the DELETE; the other transactions are one step.
* `CourseStaff` is driven by an administrator, who may make every call, so the
  rights of others add no behaviour; what the right to manage depends on is
  `MayManage`. `CourseRoster` gives a person one address, under which they may
  be a student and an assistant.
* `Accounts` counts hours; a request ends within one. Rate limits are left out.
* `ExamPublish`: mails do not fail, and no crash ends a fan-out. Of a list of results
  for several settings the code reads the setting for each entry, as for single
  ones. `ExamSeating` leaves out the edit
  of a session's title and time and the import preview, which write no seats.
* `RealtimeHub` leaves out tickets and keepalive beyond "the peer is gone".
* `DailyBackup`: work begun in a tick ends in it (30 minutes of timeout against
  35 of lock), and a day has several ticks. Dumps, encryption and the object
  store are reduced to whether a dump is whole.
* `DeferredMail`: the window is looked at once per flush, so one begun before
  20:00 may end after. A send may be refused, or reported as failed after the
  server has taken the mail; either counts as a fault.
* `Announcements` leaves out texts, pictures, severity, priority, pages and the
  limit on how many are shown. A creation and the decision to tell of it are one
  step, as are the UPDATE of an edit and that decision, which uses what was read
  and written and nothing else. A chunk is any part of those left to tell, since
  nothing depends on their order. Roles are sent and stored in any spelling
  (`Spelled`), and each reader of an audience trims and lower-cases them, or not, as
  its code does. Students have no inbox in `users`, so no
  fan-out reaches them. The clock counts hours.

## 3. Runs

| Run | Question | Bounds and why they are enough |
|---|---|---|
| `one_session` | Do the queue's invariants and its progress hold in one session? | two workers and two students give every kind of contention for an offer (taken over, handed back, declined by the fairness gate); two bookings, both types, one desk, pause after two timeouts, two joins, so a worker may rejoin |
| `managed` | ... with managers, closing jobs and public cancels in between, and with two sessions linked, unlinked, switched? | two such operations: pause then resume, list then close, cancel racing either, link then switch; one booking in the last two scenarios |
| `lease` | Does the election implement the lock, and does leadership settle? | two punctual replicas and one that stalls, lease 5, interval 2, timeout 1, one fault (failed call, repeated command, stop, crash) |
| `session_groups` | Do overlapping requests of every kind keep groups sound and sessions in their life cycle? | three sessions, the number needed to exceed two per group or to leave one alone; three requests besides deletions, two at a time: two that race and one before or between them |
| `attendance_pins` | Do the screen, the row and Redis agree on the PIN; do sessions open on time and stay closed? | one session, three PINs, a worker that may be rolled back, two requests: a request and what overtakes it. With one session a tick that fails has no others to give up; what that costs them is not checked |
| `attendance_leave` | Do requests, items and records agree through everything that changes them? | one student, two sessions on two days, two requests of two items; four or five operations, the length of grant, change, undo, redo |
| `grading` | Do pages, scores, reviews and publication agree? | two students, two calls, four sub-items, three requests: edit, grade and review in any order |
| `courses` | Is there one lead, one place per person, a current overview? | three requests of two callers in each of five scenarios; two courses and terms, a lead and a successor, two people, up to three sections |
| `accounts` | Do sessions, codes and links end when they should? | two users and a third to be created, a student with the number of the first, two requests at once, four in all, three hours with a cap of two |
| `classroom` | Is everybody told; are seats and desks where they belong? | one exam, two students, two clerks; two rooms, two desks and a plan with two editors; two queue sessions of a room with two desks, a visitor and a clerk at a time; two to four requests |
| `services` | What do processes do on their own, with a fault (two for mails)? | two replicas over two midnights, two days, two events with a buffer of two, two mails with two attempts; announcements of two administrators to a third user and a student: three requests about one, one request that writes two, or two requests and two clicks of readers. Chunks of one leave a fan-out a middle to fail in; the seven payloads cover drafts, a start to come, mails, demands, and roles as the table has them, in capitals and blank; an hour passes |
| `revealed_scores` | a statement of the code that does not hold (section 6) | the instance of `classroom` |

Deadlock is not looked for in the runs of requests: people may stop making them,
and the bounds end them. The election's run checks it. Workers, requests,
rooms, replicas and the like are interchangeable, so the safety runs use
symmetry; runs with liveness use none.

Many properties end in `Serially`. The code does not keep them when two requests
about the same row overlap, because it checks and writes in separate statements;
the runs contain those overlaps, histories (`raced`) tell which rows were met by
one, and the property speaks of the others, or of a scenario in which requests
do not overlap. They are not trivial for it: one request after another, with
jobs, caches, undone removals, whole-row saves and expiring things in between,
is where most of the logic is. Properties without the suffix hold under overlap, with
the exceptions their comments name; `OpensOnTime` alone is about one scenario in which
operations follow one another, `calm`, and `NoDoubleBooking` about the one in which
requests and decisions overlap.

**Fairness.** `QueueDispatch!FairSpec` assumes that the sweep of the leader's
offer-timeout job keeps running (a ticker of 10 s, `main.go:670-715`) and that
running deadlines and windows pass; no request of a person is fair. A sweep only
asks for workers who look free in sessions that are active, so fairness is on
those guards (`SweepTimeout`, `SweepDispatch`), not on the dispatcher itself.
`LeaderElection!FairSpec` assumes that tickers fire, Redis answers what it is
asked in the end, replies are taken, a begun stop ends, and time passes; faults
are not fair and are bounded, so they end. `MCAttendancePins!FairSpec` and
`Grading!Spec` assume that the worker's ticks keep coming, which its ticker and
the election give; `courses` assumes that a cached overview expires, as its time
to live says. No strong fairness is used.

**Mutants.** Each property of a passing run is paired with a mutation of one
mapped definition that violates it: the definitions commented `Mutant of ...`.
They are not part of the specifications.

**Type invariants.** Each module states one (`...TypeOK`). They document the
state; those of the modules with proofs are theorems, the others hold in
the runs' instances when added to their configurations.

## 4. Proofs

`QueueDispatchProofs`, for any sessions, users, students, desks, bookings,
groups and thresholds that satisfy `QueueAssumption`:

* `TypeCorrect`: `Spec => []TypeOK`. One step per operation, from the lemmas on
  the row-writing operators.
* `OffersHaveDeadlines`: `[]OfferHasDeadline`. Inductive with the types: every
  operation writes a booking's holder, deadline and status together.
* `EndedForGood`: `EndedStaysEnded`. A step that changes a booking's status
  requires it unfinished, or writes `cancelled`; the public cancel, which checks
  nothing when it writes, only ever writes `cancelled`.
* `OneActive`: `[]OneActivePerStudent`. New unfinished bookings come from
  `CreateBooking` alone, which the unique index guards, and `EndedStaysEnded`
  keeps the others from coming back. `BookingsStaySound` joins it with
  `OffersHaveDeadlines`, as the run checks them (`BookingsAreSound`).

The same module, from the types and `HandedOut`: a booking that is no longer
waiting is left alone by every step, finished as it stands, or overwritten with
`cancelled` by a late public cancel.

* `StartedWorkStays`: `OnlyLateCancelsTakeWork`. Timeouts, take-overs, leaving,
  pausing, closing and switching modes all look for waiting bookings.
  `WorkStays` joins it with `EndedForGood` (`WorkIsKept`).
* `BoardHasNoGhosts`: `[](CancelsPosted => NoGhostOnBoard)` under
  `[]NobodyCloses`. Each transaction that moves a booking rewrites the cell of its
  desk; a public cancel does so in a later statement. The invariant `BoardInv`
  therefore lets a cell show a cancelled booking whose cancel has yet to write
  the desk, also when an accept or a completion came in between; once the cancels
  in flight have written (`CancelsPosted`) there is no ghost. The closing jobs
  cancel bookings and never write a desk, hence `NobodyCloses`.
* `CreditsAreEarned`: `[]CreditIsEarned` under `[]CancelsAreOnTime`. The invariant
  adds `SnapsEarned`: the count that a join in flight has read, and will save, is
  earned too. They are inductive together because completed bookings stay
  completed and with their worker. Only a public cancel that read the booking
  while it waited and writes when it is completed breaks that (the task becomes
  a cancelled one, the credit stays), and only such cancels are excluded.
* `FreshWorkIsOwn`: `FreshWorkStaysInCourse` of `MCQueueDispatch`, for every
  behaviour of `Spec` along which `joined` records the joins that are saved
  (`JoinsRemembered`; the MC module keeps it in the same way, within bounds that
  the theorem does not need). `CoursesInv` says that a row that is no mirror is
  in a session its worker joined (`RowsJoined`), that so is a row which a
  mirroring request holds and will save back over whatever is there then
  (`SnapsJoined`), and that a group has several members of one mode
  (`GroupsWhole`). The last is what makes the three places that tell a separated
  group agree: the dispatcher counts the group of the worker's session, a timeout
  and an acceptance look at the mode of the booking's. `OwnOfStep` shows where a
  row that is no mirror can come from, step by step.

`ServicesProofs`, of the election, for any replicas and times that satisfy
`LeaderAssumption`:

* `ElectionTypes`: `Spec => []TypeOK`.
* `AtMostOneLeader`: `[]OneLeader`. `OneLeader` is not inductive. The invariant
  adds `NoStrayRelease` (no release command of a living leader is abroad),
  `Fits` (a punctual replica's clock is within its interval or timeout) and
  `Lease` (a punctual replica that leads, or whose pending call has succeeded,
  owns the key, with enough time left to reach the end of its next call). `Lease`
  is where `Interval + 2 * Timeout < TTL` is used.
* `ImplementsLeaseLock`: `Spec => LeadsUnderLock`, that is `LeaseLock!Spec` with
  the key's owner and the punctual replicas at work for `owner` and `acting`. It
  rests on the same invariant: a step either keeps the key with its owner, or
  takes it from somebody who is not at work.

`QueueSessionsProofs`, for any sessions, rooms, groups and requests that satisfy
`SessionsAssumption`:

* `SessionTypes`: `Spec => []TypeOK`.
* `GroupsStayPairs`: `[]GroupsArePairs`. A form saves every column, so a session
  may return to a group it left; the invariant `PairsInv` therefore counts with the
  rows of a group what requests remember of it, and says two sessions account for
  both (`PairsOnly`). A row about to be created carries no group
  (`NewRowsAreFree`), and a form carries what some read returned
  (`FormsReadRows`). The mode is another matter: a form left open across a link or
  a mode change undoes half of it, and `mixed` remembers the group until its mode
  is set again.
* `StaysInLifeCycle`: `LifeCycleIsKept`. `Knows` says that a request that is not
  `late` has the status of its session right, and `Fits` that by a `/status` route
  or in a closing job it is one the next statement may start from.

`AttendancePinsProofs`, for any sessions, PINs and requests that satisfy
`PinsAssumption`:

* `PinTypes`: `Spec => []TypeOK`; above all, whatever rotates has a reserved PIN
  to rotate to, in Redis and in the hands of a request.
* `NeverShownNeverIn`: `[]AdmittedWasShown`. A check-in compares with the hashes
  of the row, so the invariant follows each PIN on its way there: the hashes of a
  row (`RowsShown`), the current PIN of a runtime state (`StatesShown`), and the
  state, or the row of a form, that a request or the worker has read and will
  write back or go on from (`RequestsShown`) were all shown. Histories only grow.
* `NothingElseReopens`: `Spec => ClosedStaysClosed`, all overlaps included. `CloseInv`
  says that whoever believes a closed session to be active, because of the row it goes
  on from or of the worker's list, read it before the close and is remembered in
  `stale`; and that a closed session is past its end, so that a look cannot open it,
  unless an edit that may have extended it has yet to refresh the row.
* `AgreesInTurn` (`[]ShownIsAcceptedSerially`) is about the specification TLC checks,
  `MCSpec`, in the scenarios where one operation follows another, with any number of
  sessions (the run has one). `SerialInv` adds `InTurn` to the invariant of the PINs
  shown: at most one actor is busy (`Alone`), what the worker has left of its list is
  active (`Planned`), and `Coherent` says of a session's row, its state and the request
  about it what the request may rely on: the current PINs agree except while it
  closes the session or has rebuilt the row and not yet the state, a session being
  rebuilt is active, and what a form will save, overlaid with the runtime state or
  not, has the hash of the current PIN that the row has. `Tells` is what every step
  about a session is shown to do: it changes that session only and leaves it coherent.

`AdministrationProofs`, of `ExamSeating`, for any plans, rooms, desks, students and
requests that satisfy `SeatingAssumption`:

* `SeatingTypes`, `SeatsAreKept`: types, and `[]SeatsHaveDesks`: no seat names a
  desk that is gone, because the foreign key keeps the desk.
* `SeatsEndInRooms`: `[]SeatsInRooms`. That property speaks of moments without
  requests. In between, `SeatsFollowed` accounts for seats outside the rooms by a
  request that has written seats and whose rooms will follow, or that is deleting
  the plan; `ReplacementsClear` says that what a transaction replacing the rooms
  leaves of the seats stands in rooms it writes, or in rooms another replacement
  added and that are still there when it commits, unless the plan is being
  deleted; the rest is `unsettled`.

The same module, of `Announcements`, for any users, administrators, payloads and
bounds that satisfy `NoticeAssumption` and `PayloadAssumption`, with any number of
failures and stops:

* `NoticeTypes`: `NoticeSpec => []NoticeTypeOK`.
* `ToldOnce`: `[]ToldOnceEach`. Its second half compares what a user got with how
  often the announcement was taken down. Neither follows the other, so the
  invariant goes through the fan-outs begun. `SpreadInv`: there are at most as
  many as withdrawals, plus one, and no more than withdrawals when the
  announcement is down, or when an edit in flight found it down. `CountInv` counts
  ahead: what a user got, and the fan-outs that still owe them something, are at
  most the fan-outs begun, so a step that writes to a user has to strike them
  off. That two edits held at once are remembered is `Meetings`. Its first half is
  `RememberedInv`.
* `LiveAreSeen`: `[]LiveIsShown`. The pages look at the flag and at the status, the
  administrators' screens at one of them or at neither; the pages match the roles as
  they are stored, the statistics trim and lower-case them. `SpellingAssumption` says
  that the users table has its roles in that form. `StatusInv` says they
  agree, in what is stored and in what an edit is about to store; and that neither
  an edit nor a change of status in flight would list as published what has not
  begun, unless an edit of the start met it.

`AttendanceLeaveProofs`, for any students, sessions, days, requests, slots and
actors that satisfy `LeaveAssumption`:

* `OneLeavePerSession`: `[]OneOpenItem` of `DecisionsSpec`, the operations on
  requests and records while sessions and the roster stay. A submission decides
  in one step and stores in another; the invariant `LeaveInv` says that what is
  about to be stored still meets no open item of the student (`NewIsFree`). It is
  kept because one submission per student is in flight at a time (`Apart`), and
  because nothing else opens an item: every step closes items or leaves them
  (`ClosesTo`), a review too, whose items are pending under its lock
  (`FlightOK`). That the items built are distinct, and that each finds a slot of
  its own, are lemmas about `Built` and `Placed` (a bijection from cardinalities).
* `NoDoubleBookings`: the same of the instances TLC checks. The theorem stops at
  operations that change sessions or the roster, and so does the property:
  binding works on what it read without locks, a session moved to another day
  meets items already there, and an undone removal reopens items unexamined.

`GradingProofs`, for any students, calls, sub-items, scores, marks and payloads
that satisfy `GradingAssumption`, in the scenarios of `MCGrading`:

* `IdsAreSound`: `[]IdsSound`. The ids of live sub-items are distinct, and whatever
  names a sub-item (a live row, a score, the cells of a call in flight, a plan of
  repair) names one the sequence has given; what a plan maps is not live and, as
  no id is given twice, never will be. `SyncIsSound` says so of an edit:
  `SyncedItems` keeps the first place of each live id in the payload and takes
  new, distinct ids elsewhere. That a plan maps into the live list rests on runs
  of detached ids being disjoint intervals (`RunsAreDisjoint`).
* `PagesNeverDiffer`: `[]PagesAgree`. The summary compares two numbers, the grids
  compare sets; they agree because the list is as long as its set (`LiveCount`).
* `EditsKeepScores`: `ScoresSurviveEdits`. What an edit keeps keeps its place, and
  what it removes had no scores when it counted, or the client's word; what was given
  since is `Late`, and excepted; grading, reviews and
  batches only add rows or write them over (`NothingLost`); a repair drops
  detached rows only, which is `IdsSound` at the moment it applies its plan.
* `DecisionsStand`: `DecidedOnceSerially`. `RequestsSound` says that what two calls
  hold at once is in `raced`, and that what one call alone is about to decide or
  to cancel is still pending: only a call that holds a request changes it.

`AccountsProofs`, for any users, students, identities and requests in flight that
satisfy `AccountsAssumption`, with the histories TLC keeps (`MCSpec`), and with
users 1 and 2 among them, whom scenarios begin with. A request is the list of what
it has still to write, decided when it began, so none of these is inductive;
`AccountsInv` and `LinksInv` say of each statement in the list what it may still
rely on (`Fits`, `MayJoin`), and that requests about one user or one account that
overlap are remembered (`Overlaps`, `Meet`).

* `CapIsKept`: `[]SessionsEndAtCap`. `Descends` says the start of a session, which
  is stored in its tokens or else is when they were created, is when the sign-in
  happened that the token descends from. A renewal in flight still carries the
  start of the token it replaces, and was within the cap when it was let through.
* `ChangeEndsAll`: `[]PasswordEndsSessionsSerially`. The property watches the rows, not
  the requests that are meant to end sessions: a step that leaves another password in
  a row must belong to a request that still revokes every token the user had when it
  began (`Ended`), or to an administrator. `PasswordsInv` says that every other
  request saves the password the row has (`KeepsPassword`), unless another one writes
  the row too, which is remembered (`SavesMeet`). `NoLateRenewal` adds the
  renewals in flight to the tokens that are there. A renewal is asked for with a
  token that is alive, so none of an ended session begins; one that had begun is
  an overlap. A request that ends sessions begins none (`Single`).
* `LinksAreUnique`: `[]LinksAreUniqueSerially`. Who may be given an account is
  decided by a lookup (`Own`); until the row is written only an overlapping
  request can make another's (`RelianceStays`). Without overlap there is one gap:
  a row outlives a deleted user, the lookup then finds a row without a user and
  goes on to the next way of finding one; such accounts are `orphaned`. At KKU a
  user has one row (`OneAtKKU`); at Google and GitHub this is false (section 6).

`ServicesProofs`, for any replicas, connections, rooms, events, mails, processes
and attempts that satisfy `HubAssumption` and `MailAssumption`:

* `HubTypes`: `HubSpec => []HubTypeOK`; above all, no buffer exceeds its capacity.
* `ShownOnceOrFetched`: `HubSpec => []ShownOnceOrResynced`, with no bound on
  broken subscriptions and failed publications. That nobody is left behind speaks
  of moments when all is quiet. `NobodyForgotten` says of every other moment where
  an event still owed to a connection is: about to be broadcast, on its way
  through the bus, in the connection's buffer, or made up for by a call to fetch
  everything, itself due from the subscription or in the buffer. `OwedIsDue` says
  what is owed is of a room the connection is in, and if another replica's, of a
  time after the first subscription. `OnceInv` says each event is in one place on
  its way to a connection (one broadcast or publication, once in an inbox or a
  buffer, or shown), which is why none is seen twice.
* `MailTypes`: `MailSpec => []MailTypeOK`.
* `CopiesAreCounted`: `MailSpec => []OneCopyPerFault`. `CopiesBounded` counts
  ahead: the copies of a mail, the processes that may still send one, and one to
  come when nobody leads, exceed the faults by one at most. So a handover, which
  lets a second process at the same mails, has to be paid for by its fault at once.
  `RowsOnce` says a process holds a mail once.
* `TheRunIsOne`: the specification TLC checks (`MCSpec`) implies `HubSpec`,
  `MailSpec` and `NoticeSpec`, so the theorems about these hold of it.

The assumptions say that the sets are what they are called (finite where the code
counts, "none" not a member) and that thresholds are natural numbers.

Model-checked only:

* Liveness (`OffersResolve`, `NoStarvation`, `LeadershipSettles`,
  `StaleLeaderStepsDown`, `OpensOnTime`, `DueIsPublished`, `OverviewHeals` and
  the like): temporal properties under fairness are beyond the provers.
* `OneMidnightPerFault`: it rests on time, that a lost lease is replaced before
  the next midnight, which follows only from how long every step of the election
  may take; `EveryDayIsBackedUp`: it holds for one fault and fewer requests than
  a day has ticks, because each can cost the backup a tick.
* The other `Serially` properties: they hold one operation at a time, and are about
  the scenarios of an MC module which see to that.

## 5. What the checks show

* In one session the queue is sound and makes progress: every offer resolves and
  no booking starves beside a worker who stays free, although the fairness gate
  and the re-offer window both turn workers away.
* With managers and closing jobs in between, a started task is lost in one way
  only (proved): a public cancel that had read the booking while it was waiting.
* A separated group keeps its courses' work apart through joins, mirrors and
  mode changes (proved); groups stay pairs even when two links race and forms are
  saved over them (proved). A session leaves its life cycle only by one of the
  routes that look at no status, by a request that was overtaken, or along with
  the other session of its group (proved).
* The lease is a lock, for any number of replicas (proved); a stalled one may
  act on a lease it has lost, but not for ever.
* A missed midnight, and a second mail (proved), has a fault behind it, one for
  one. A day without backup does not happen through one fault.
* An attendance session that is left to the worker opens on time, and nobody
  checks in with a PIN it never showed (proved), though Redis may be emptied and
  a rotation rolled back. Once closed it is opened only by a start, an edit, or one
  who read it before (proved). One operation at a time, the PIN it shows is the PIN it
  accepts, also when forms save what they were shown (proved).
* No student gets two open leave items for one session, whatever submissions,
  decisions and check-ins overlap (proved). One
  operation at a time, records and requests agree through every way to detach,
  reapply, replace and revoke.
* The three pages that say who is graded student by student agree even on damaged
  rows (the course summary, `assignment_repo.go:459-504`, counts otherwise), an edit
  loses no score without consent but one given while it runs, and a decided
  request stays decided unless calls overlap on it (proved); due assignments come
  out past crashes.
* The lead shown leads; a stale overview is gone after its time to live at the
  latest.
* No renewal outlives the cap, and no session survives a password change that no
  other request of the user overlaps, unless an administrator makes it (proved).
  An account at a provider signs in one user, unless requests about it overlap or
  its user was deleted (proved).
* Seats stay in the rooms of their exam through overlapping automatic seatings,
  room changes and layout edits (proved), except for a seat set on an outdated
  page, set while the rooms were being replaced, or left by a request that
  failed half-way.
* A client that stays connected misses no event without being told to start
  over, and sees none twice (proved).
* Whoever an announcement was published to is told, or a fan-out still owes it,
  unless a failure or a deployment ended one: then nobody tells the rest. Nobody is
  told twice of one that stayed up, unless two edits published it at once. What
  is listed as live is on the pages of everybody it addresses, and, roles being stored
  in lower case, of everybody it waits for (proved).

## 6. Statements the code does not keep

`revealed_scores` is a run of its own: *saving a max score can never accidentally
reveal scores to students* (`exam_handler.go:58-59`). `UpdateExamSetting` saves the row as read, so
results hidden meanwhile are visible again, and a cleared schedule is back.

Others met while modelling; the first word says where they show.

* Dispatch: a booking that has been called can be cancelled by a request that
  read it before (`queue_handler.go:3192`); the take-over of a timed-out offer
  looks at one session of a group (`queue_repo.go:1667`); a holder without a
  worker row makes the sweep of the session fail (`:1747`); a restart beside the
  lock of the former process skips the sweep at startup (`main.go:634`).
* Sessions: the form undoes a mode change, a link or a close; the room check is
  skipped when a partner is resumed; a partner still in draft can be paused; an
  overlapping start reopens a closed session; /pause revives an old PIN.
* Booking: two validations at once book one desk for two gradings
  (`queue_repo.go:995` says as much); booking and cancelling again unlocks a
  desk after a grade was taken back; a desk enabled after the start has no board
  row, so nothing guards it.
* Attendance: a session started early and put back to draft keeps its state in
  Redis, and the worker then leaves it a draft (`attendance_runtime_repo.go:596`);
  a tick returns at the first session that fails, and the others wait (`:968`); a
  screen, or the worker, that read a row before the close makes the session active
  again (`:567`); two that rehydrate at once leave different PINs in the row and in
  Redis (`:505`). A form saves the session as it is shown, with the PIN of the runtime
  state or with none: editing a static session that has not started, without sending
  the PIN, replaces the one announced for it, against *so the instructor's
  pre-announced code remains valid on activation* (`:464-465`).
* Leave: overlapping an approval, a check-in is erased; the expiry job marks a
  request expired that was approved after it listed it
  (`attendance_leave_repo.go:1629`); a changed time re-decides records by hand.
* Grading: a score given between an edit's count of the scores in the way
  (`assignment_repo.go:229`) and its DELETE (`:238`) is deleted though nobody agreed,
  and one given to a removed sub-item after it stays, detached; overlapping
  publications announce an assignment twice
  (`assignment_handler.go:341`), a crash between flip and announcement not at
  all; the unique index covers scores with a sub-item only, so two graders can
  store two without; the old review route decides again what was decided.
* Courses: enabling two duplicates in one batch enables both
  (`course_repo.go:2021`); a save brings a deleted course back; restoring a
  removal puts a student in two sections, or beside their place as assistant
  (`:1527`); archiving, restoring and new TA accounts leave the overview stale
  until it expires, against `cache_keys.go:139-141`; team edits check nothing.
* Accounts: *disabled usernames may be reused* (`user_handler.go`) contradicts
  the unique index; sessions are listed and revoked by number alone, which users
  and students share; two sign-ins with two backup codes at once bring one back;
  saving a profile undoes a password changed meanwhile; an administrator's new password
  ends no session (`user_handler.go:260-271`); a student's token links an external
  account to the user with the same number, because the callbacks do not look at its
  kind (`google_oauth_handler.go:516-524`); one external account can
  be linked to two users at once, or after a user it was linked to is deleted,
  whose row stays (`kku_sso_handler.go:156`); linking a Google or GitHub account
  again, an *upsert* (`google_oauth_handler.go:533`), adds a second row, because
  `FirstOrCreate` searches for all the row contains, the time of linking included,
  and unlinking removes one row while the other still signs in.
* Exams: publishing by hand and by the job at once mails twice; a late result is
  mailed again for each new entry, against the comment at
  `exam_publish_handler.go:357-359`, and not at all when its request had read
  the setting before the job published it; two automatic seatings with different
  rooms both report success though one deletes the other's seats; a student in
  two sections makes one fail and leave no plan; UpdateLayout twice duplicates
  desks; saving a room undoes its deletion; deleting a room for good, or a desk
  of a layout, reports success and deletes nothing when a seat names it; a seat
  written while the rooms are being replaced stays in a room that is gone.
* Announcements: *publishing also fans the announcement out to every recipient's
  notification inbox* (`schema.go:950-951`) is not so of the list screen's publish
  button (`SetAnnouncementStatusHandler`), nor of a scheduled one, which nothing
  looks at when it starts; *has never reached anyone*
  (`system_settings_handler.go:612-614`) is not so of one that was taken down, and
  editing it back up tells everybody again; the *share of the audience* that has
  acknowledged (`system_settings_repo.go:748-751`) is of users only, while students
  acknowledge too; two edits that publish one draft at once tell everybody twice
  (`system_settings_handler.go:595`); a change of status that had read the start
  before an edit moved it lists as published what has not begun
  (`system_settings_repo.go:1272`); of an audience sent as `["TA"]` the statistics wait
  for assistants whom no page shows it to, and of `[" "]` for everybody, because
  roles are stored as sent (`:1057`), matched so by the pages (`:796`) and normalised
  by the statistics only (`:726-746`); an edit whose row is deleted in between
  publishes it all the same (`:1250`).
* Mail: an error after the server has taken the mail, as the one that ends the
  connection, is a failed attempt, and the mail goes out again.
* Hub: a frame that arrives after a drop leaves a ghost member in its room;
  events before the first subscription and failed publications are never made up
  for; publications of one replica overtake each other.
* Backup: the second look at the marker reads a cache, so two slots make a daily
  backup each (`database_backup_service.go:175-177`); a restore in one slot and
  a dump in the other are not excluded; a restore takes back the marker and the
  list, so the day is done twice and newer backups are forgotten.

## 7. Not modelled, and the plan

Left out of the modelled parts: see the modelling decisions and the notes in
`PROJECT.json`. Not modelled: attendance guards and audit (filters and
append-only rows), bonus and feedback (single rows), rate limits, push and mail
templates, student programmes, feature flags and the other settings pages, logs,
command-line tools and load tests: they have no protocol that a model would say
more about than their tests do. Schema, routing and formatting enter the models
where a constraint matters. That a fan-out of an announcement comes to its end is
not stated: `ToldOnceEach` says that what it owes is kept, not that it is paid.

To come: `BookingLife`, a booking as its
student sees it, implemented by `QueueDispatch`; and the statement-level race of
two `AssignNext` transactions.

## 8. Running

    tlc -workers 2 -config one_session.cfg MCQueueDispatch
    tlapm QueueDispatchProofs.tla
    tlapm QueueSessionsProofs.tla
    tlapm AttendancePinsProofs.tla
    tlapm AttendanceLeaveProofs.tla
    tlapm AdministrationProofs.tla
    tlapm GradingProofs.tla
    tlapm AccountsProofs.tla
    tlapm ServicesProofs.tla
