---------------------------- MODULE LeaderElection ----------------------------
(***************************************************************************)
(* config/leader.go: the Redis lease that decides which backend replica    *)
(* runs a periodic worker.  A replica asks Redis once per Interval: SETNX  *)
(* with a lifetime of TTL while it is not the leader, a compare-and-extend *)
(* script while it is.  A call ends with an answer or, after Timeout, with *)
(* an error; the client may retry it, and Redis may still run a command    *)
(* that the caller has given up on.  Time passes in units.                 *)
(*                                                                         *)
(* Every process draws a fresh random owner token, so the token of a       *)
(* replica's earlier life is a different one: Former stands for them all.  *)
(* Redis itself is assumed not to lose its keys.                           *)
(***************************************************************************)
EXTENDS Naturals

CONSTANTS
  Replicas,   \* backend processes
  Punctual,   \* those whose goroutines are never stalled
  Nobody,     \* the key does not exist
  Former,     \* the token of a process that is gone
  TTL,        \* leaderTTL
  Interval,   \* ttl / 3
  Timeout     \* of one tick's call

ASSUME LeaderAssumption ==
  /\ Punctual \subseteq Replicas
  /\ Nobody \notin Replicas /\ Former \notin Replicas /\ Nobody # Former
  /\ TTL \in Nat /\ Interval \in Nat /\ Timeout \in Nat
  /\ 0 < Timeout /\ Timeout <= Interval
  /\ Interval + 2 * Timeout < TTL

VARIABLES
  key,     \* the lock in Redis: the owner's token and the time it has left
  phase,   \* per replica, what the election goroutine is doing
  leader,  \* isLeader
  call,    \* the command in flight
  answer,  \* what Redis answered to it
  since,   \* time since the ticker last fired, up to Interval
  late     \* commands given up on that Redis may yet run

vars == <<key, phase, leader, call, answer, since, late>>

Tokens == Replicas \cup {Former}

TypeOK ==
  /\ key \in [owner: Tokens \cup {Nobody}, left: 0 .. TTL]
  /\ phase \in [Replicas -> {"off", "starting", "idle", "asking", "releasing"}]
  /\ leader \in [Replicas -> BOOLEAN]
  /\ call \in [Replicas -> {"setnx", "renew", "release"}]
  /\ answer \in [Replicas -> {"none", "yes", "no"}]
  /\ since \in [Replicas -> 0 .. Interval]
  /\ late \subseteq Tokens \X {"setnx", "renew", "release"}

Unlocked == [owner |-> Nobody, left |-> 0]

Init ==
  /\ key = Unlocked
  /\ phase = [r \in Replicas |-> "off"]
  /\ leader = [r \in Replicas |-> FALSE]
  /\ call = [r \in Replicas |-> "setnx"]
  /\ answer = [r \in Replicas |-> "none"]
  /\ since = [r \in Replicas |-> 0]
  /\ late = {}

\* The workers gated on the lease run only while the election does: a worker
\* that is stopping has returned from its loop before it calls Stop.
Acts(r) == leader[r] /\ phase[r] \in {"idle", "asking"}

Calling(r) == phase[r] \in {"starting", "asking", "releasing"}
-----------------------------------------------------------------------------
(* Redis.                                                                   *)

\* Mutant of Accepts: a renewal does not compare the owner.
AcceptsBlindly(token, cmd) ==
  IF cmd = "setnx" THEN key.owner = Nobody
  ELSE IF cmd = "renew" THEN key.owner # Nobody ELSE key.owner = token

\* Does Redis carry the command out?  Both scripts compare the owner first.
Accepts(token, cmd) ==
  IF cmd = "setnx" THEN key.owner = Nobody ELSE key.owner = token

\* Mutant of Effect: a renewal leaves the time to live as it is.
EffectWithoutExtension(token, cmd) ==
  IF ~Accepts(token, cmd) \/ cmd = "renew" THEN key
  ELSE IF cmd = "release" THEN Unlocked
       ELSE [owner |-> token, left |-> TTL]

Effect(token, cmd) ==
  IF ~Accepts(token, cmd) THEN key
  ELSE IF cmd = "release" THEN Unlocked
       ELSE [key EXCEPT !.owner = IF cmd = "setnx" THEN token ELSE @,
                        !.left = TTL]

Serve(r) ==
  /\ Calling(r)
  /\ answer[r] = "none"
  /\ key' = Effect(r, call[r])
  /\ answer' = [answer EXCEPT ![r] = IF Accepts(r, call[r]) THEN "yes" ELSE "no"]
  /\ UNCHANGED <<phase, leader, call, since, late>>

ServeLate(token, cmd) ==
  /\ <<token, cmd>> \in late
  /\ key' = Effect(token, cmd)
  /\ late' = late \ {<<token, cmd>>}
  /\ UNCHANGED <<phase, leader, call, answer, since>>
-----------------------------------------------------------------------------
(* A replica.                                                               *)

\* StartLeaderElection: the first tick runs before it returns.
Begin(r) ==
  /\ phase[r] = "off"
  /\ phase' = [phase EXCEPT ![r] = "starting"]
  /\ call' = [call EXCEPT ![r] = "setnx"]
  /\ answer' = [answer EXCEPT ![r] = "none"]
  /\ since' = [since EXCEPT ![r] = 0]
  /\ UNCHANGED <<key, leader, late>>

\* The ticker fires every Interval.  A replica that was stalled finds a tick
\* already waiting.
Tick(r) ==
  /\ phase[r] = "idle"
  /\ since[r] = Interval \/ r \notin Punctual
  /\ phase' = [phase EXCEPT ![r] = "asking"]
  /\ call' = [call EXCEPT ![r] = IF leader[r] THEN "renew" ELSE "setnx"]
  /\ answer' = [answer EXCEPT ![r] = "none"]
  /\ since' = [since EXCEPT ![r] = 0]
  /\ UNCHANGED <<key, leader, late>>

\* After the first tick run() creates the ticker.
Idle(r) ==
  /\ phase' = [phase EXCEPT ![r] = "idle"]
  /\ since' = [since EXCEPT ![r] = IF phase[r] = "starting" THEN 0 ELSE @]

Reply(r) ==
  /\ phase[r] \in {"starting", "asking"}
  /\ answer[r] # "none"
  /\ leader' = [leader EXCEPT ![r] = answer[r] = "yes"]
  /\ Idle(r)
  /\ UNCHANGED <<key, call, answer, late>>

\* The client library sends the command again.
Retry(r) ==
  /\ Calling(r)
  /\ late' = late \cup {<<r, call[r]>>}
  /\ answer' = [answer EXCEPT ![r] = "none"]
  /\ UNCHANGED <<key, phase, leader, call, since>>

\* Mutant of GiveUp: a leader that gets an error waits for the next tick.
GiveUpLater(r) ==
  /\ phase[r] \in {"starting", "asking"}
  /\ UNCHANGED leader
  /\ late' = late \cup {<<r, call[r]>>}
  /\ Idle(r)
  /\ UNCHANGED <<key, call, answer>>

\* The call fails: no longer the leader, whatever Redis made of it.
GiveUp(r) ==
  /\ phase[r] \in {"starting", "asking"}
  /\ leader' = [leader EXCEPT ![r] = FALSE]
  /\ late' = late \cup {<<r, call[r]>>}
  /\ Idle(r)
  /\ UNCHANGED <<key, call, answer>>

\* Stop: a tick under way is finished first; only a leader calls release.
Stop(r) ==
  /\ phase[r] = "idle"
  /\ leader[r]
  /\ phase' = [phase EXCEPT ![r] = "releasing"]
  /\ call' = [call EXCEPT ![r] = "release"]
  /\ answer' = [answer EXCEPT ![r] = "none"]
  /\ UNCHANGED <<key, leader, since, late>>

\* A process ends: its token will not be used again.
Renamed(r, token) == IF token = r THEN Former ELSE token

Gone(r, pending) ==
  /\ phase' = [phase EXCEPT ![r] = "off"]
  /\ leader' = [leader EXCEPT ![r] = FALSE]
  /\ key' = [key EXCEPT !.owner = Renamed(r, @)]
  /\ late' = {<<Renamed(r, x[1]), x[2]>> : x \in late \cup pending}
  /\ UNCHANGED <<call, answer, since>>

\* Stop returns, with or without Redis having answered, and the process exits.
Exit(r) ==
  \/ phase[r] = "releasing" /\ answer[r] # "none" /\ Gone(r, {})
  \/ phase[r] = "releasing" /\ answer[r] = "none" /\ Gone(r, {<<r, call[r]>>})
  \/ phase[r] = "idle" /\ ~leader[r] /\ Gone(r, {})

Crash(r) ==
  /\ phase[r] # "off"
  /\ Gone(r, IF Calling(r) THEN {<<r, call[r]>>} ELSE {})
-----------------------------------------------------------------------------
(* Time.  A punctual replica starts its tick when it is due and ends it     *)
(* within the timeout.                                                      *)

Overdue(r) ==
  \/ phase[r] = "idle" /\ since[r] = Interval
  \/ phase[r] \in {"starting", "asking"} /\ since[r] = Timeout

Advance ==
  /\ \A r \in Punctual : ~Overdue(r)
  /\ key' = IF key.left <= 1 THEN Unlocked ELSE [key EXCEPT !.left = @ - 1]
  /\ since' = [r \in Replicas |->
                 IF since[r] < Interval THEN since[r] + 1 ELSE since[r]]
  /\ UNCHANGED <<phase, leader, call, answer, late>>
-----------------------------------------------------------------------------
Fault(r) == Retry(r) \/ GiveUp(r) \/ Stop(r) \/ Exit(r) \/ Crash(r)

Next ==
  \/ \E r \in Replicas : \/ Begin(r)
                         \/ Tick(r)
                         \/ Serve(r)
                         \/ Reply(r)
                         \/ Fault(r)
  \/ \E x \in late : ServeLate(x[1], x[2])
  \/ Advance

Spec == Init /\ [][Next]_vars

\* Ticks, calls and the clock go on; so does Stop once it has begun.
Fairness ==
  /\ \A r \in Replicas : /\ WF_vars(Tick(r))
                         /\ WF_vars(Serve(r))
                         /\ WF_vars(Reply(r))
                         /\ WF_vars(phase[r] = "releasing" /\ Exit(r))
  /\ WF_vars(Advance)

FairSpec == Spec /\ Fairness
-----------------------------------------------------------------------------
(* The promise.  Only a punctual replica's ownership counts: the lock of a  *)
(* stalled or dead process is as good as free to the others once it lapses. *)

Lock == INSTANCE LeaseLock
          WITH Holders <- Punctual,
               owner   <- IF key.owner \in Punctual THEN key.owner ELSE Nobody,
               acting  <- {r \in Punctual : Acts(r)}

\* A replica begins the gated work only while it owns the lock in Redis, and the
\* lock never passes from it while it works: not by expiry, nor by a command of
\* another or one run late.
LeadsUnderLock == Lock!Spec

\* Two punctual replicas never run the gated work at the same time, whatever
\* calls fail, are repeated or run late, and whoever crashes or stalls.
OneLeader ==
  \A r, q \in Punctual : Acts(r) /\ Acts(q) => r = q

\* A replica that was stalled past its lease does not go on believing that it
\* leads while another owns the lock.
StaleLeaderStepsDown == \A r \in Replicas : []<>(Acts(r) => key.owner = r)

\* Once the faults end and no stalling replica runs, there is a leader for
\* ever, if any replica runs.
LeadershipSettles ==
  (<>[] \A r \in Replicas \ Punctual : phase[r] = "off") =>
    <>[]((\E r \in Replicas : phase[r] # "off") => \E r \in Replicas : Acts(r))
=============================================================================
