---------------------------- MODULE QueueMidnight ----------------------------
(***************************************************************************)
(* startQueueMidnightWorker (cmd/api/main.go): every replica runs it, the  *)
(* lease of LeaderElection lets one act.  A replica sweeps once when it    *)
(* starts, notes the date, and then looks at the date every minute: when   *)
(* it has changed it notes the new one and, if it is the leader just then, *)
(* closes the sessions left open on earlier days.                          *)
(***************************************************************************)
EXTENDS LeaderElection

CONSTANTS
  LastDay,   \* days are 0 .. LastDay
  Minute,    \* the ticker of the worker fires this long after midnight
  DayLength  \* the least time between two midnights

\* Most of a day is left when a lease lost in its first minute has been
\* replaced.
ASSUME DayAssumption ==
  /\ LastDay \in Nat
  /\ Minute \in Nat /\ DayLength \in Nat
  /\ Minute + TTL + Interval + 2 * Timeout < DayLength

VARIABLES
  day,   \* today, in the zone of the worker
  hour,  \* time since midnight, up to DayLength
  boot,  \* per replica, how far its worker has got
  seen,  \* lastDate
  open   \* the days on which the sessions still open were started

worker == <<day, hour, boot, seen, open>>

\* The variables of the worker and of the lease stay within their types.
MidnightTypeOK ==
  /\ TypeOK
  /\ day \in 0 .. LastDay
  /\ hour \in 0 .. DayLength
  /\ boot \in [Replicas -> {"none", "startup", "swept", "looping"}]
  /\ seen \in [Replicas -> 0 .. LastDay]
  /\ open \subseteq 0 .. LastDay

MidnightInit ==
  /\ Init
  /\ day = 0
  /\ hour = 0
  /\ boot = [r \in Replicas |-> "none"]
  /\ seen = [r \in Replicas |-> 0]
  /\ open = {}

\* Mutant of StillOpen: yesterday's sessions are spared.
StillOpenYesterday == {d \in open : d + 1 >= day}

\* AutoCloseStaleQueueSessions closes what was started before today.
StillOpen == {d \in open : d >= day}

\* runCleanup; an error is logged and that is all.
Sweep(r) ==
  \/ leader[r] /\ open' = StillOpen
  \/ ~leader[r] /\ UNCHANGED open

SweepFails(r) == leader[r] /\ UNCHANGED open

BeginWorker(r) ==
  /\ Begin(r)
  /\ boot' = [boot EXCEPT ![r] = "startup"]
  /\ UNCHANGED <<day, hour, seen, open>>

\* StartLeaderElection has returned: the sweep at startup.
Startup(r, sweep) ==
  /\ boot[r] = "startup"
  /\ phase[r] # "starting"
  /\ sweep
  /\ boot' = [boot EXCEPT ![r] = "swept"]
  /\ UNCHANGED <<vars, day, hour, seen>>

Loop(r) ==
  /\ boot[r] = "swept"
  /\ seen' = [seen EXCEPT ![r] = day]
  /\ boot' = [boot EXCEPT ![r] = "looping"]
  /\ UNCHANGED <<vars, day, hour, open>>

\* The date is noted before leadership is looked at.
MinuteTick(r, sweep) ==
  /\ boot[r] = "looping"
  /\ phase[r] \in {"idle", "asking"}
  /\ seen[r] # day
  /\ seen' = [seen EXCEPT ![r] = day]
  /\ sweep
  /\ UNCHANGED <<vars, day, hour, boot>>

\* The deferred Stop runs when the worker returns from its loop.
StopWorker(r) == boot[r] = "looping" /\ Stop(r) /\ UNCHANGED worker

Ended(r) ==
  /\ boot' = [boot EXCEPT ![r] = "none"]
  /\ UNCHANGED <<day, hour, seen, open>>

ExitWorker(r) == boot[r] = "looping" /\ Exit(r) /\ Ended(r)

CrashWorker(r) == Crash(r) /\ Ended(r)

OpenSession ==
  /\ \E r \in Replicas : boot[r] # "none"
  /\ open' = open \cup {day}
  /\ UNCHANGED <<vars, day, hour, boot, seen>>

CloseByHand(d) ==
  /\ d \in open
  /\ open' = open \ {d}
  /\ UNCHANGED <<vars, day, hour, boot, seen>>

\* Starting takes no time but for the election's own calls.
Due(r) ==
  \/ boot[r] = "startup" /\ phase[r] # "starting"
  \/ boot[r] = "swept"
  \/ boot[r] = "looping" /\ seen[r] # day /\ hour = Minute

TimePasses ==
  /\ Advance
  /\ \A r \in Replicas : ~Due(r)
  /\ hour' = IF hour < DayLength THEN hour + 1 ELSE hour
  /\ UNCHANGED <<day, boot, seen, open>>

\* Nor does midnight fall within a start.
Midnight ==
  /\ day < LastDay
  /\ hour = DayLength
  /\ \A r \in Replicas : boot[r] # "none" => boot[r] = "looping" /\ seen[r] = day
  /\ day' = day + 1
  /\ hour' = 0
  /\ UNCHANGED <<vars, boot, seen, open>>

Down == \A r \in Replicas : boot[r] = "none"

Ordinary ==
  \/ \E r \in Replicas :
       \/ BeginWorker(r)
       \/ (Tick(r) \/ Serve(r) \/ Reply(r)) /\ UNCHANGED worker
       \/ Startup(r, Sweep(r))
       \/ Loop(r)
       \/ MinuteTick(r, Sweep(r))
       \/ phase[r] = "releasing" /\ ExitWorker(r)
  \/ TimePasses
  \/ OpenSession
  \/ \E d \in open : CloseByHand(d)
  \/ ~Down /\ Midnight

Faulty ==
  \/ \E r \in Replicas :
       \/ (Retry(r) \/ GiveUp(r)) /\ UNCHANGED worker
       \/ StopWorker(r) \/ ExitWorker(r) \/ CrashWorker(r)
       \/ Startup(r, SweepFails(r))
       \/ MinuteTick(r, SweepFails(r))
  \/ \E x \in late : ServeLate(x[1], x[2]) /\ UNCHANGED worker
  \/ Down /\ Midnight

MidnightSpec == MidnightInit /\ [][Ordinary \/ Faulty]_<<vars, worker>>
-----------------------------------------------------------------------------
\* Every replica that runs is in its loop and has noticed the current day.
Settled ==
  /\ \E r \in Replicas : boot[r] = "looping"
  /\ \A r \in Replicas : boot[r] # "none" => boot[r] = "looping" /\ seen[r] = day

=============================================================================
