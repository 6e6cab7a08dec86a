----------------------------- MODULE MCServices ------------------------------
(***************************************************************************)
(* What the backend's processes do beside answering requests, for TLC: the *)
(* midnight job (QueueMidnight), the daily backup (DailyBackup), the mails *)
(* to instructors (DeferredMail), the WebSocket hub (RealtimeHub) and the  *)
(* announcements told from goroutines (Announcements).                     *)
(* They share processes but no state, so a behaviour follows one of them,  *)
(* named by its scenario, with at most MaxFaults[scenario] failures,       *)
(* crashes, restarts and handovers.  Of announcements, one is written and  *)
(* changed in "telling", one request writes two in "batch", and in         *)
(* "reading" one is only shown, and readers acknowledge and dismiss it.    *)
(***************************************************************************)
EXTENDS QueueMidnight, RealtimeHub, DailyBackup, DeferredMail, Announcements

CONSTANTS
  Scenarios,
  Heads,         \* the administrators among People
  MaxFrames      \* bound: frames a client sends to join or leave, clicks of readers

VARIABLES
  scenario,
  faults,
  requests,
  frames

mcVars == << vars, worker, hubVars, backupVars, mailVars, noticeVars, scenario, faults, requests, frames >>

MaxFaults == [midnight |-> 1, backup |-> 1, hub |-> 1, mail |-> 2,
              telling |-> 1, batch |-> 1, reading |-> 1]

\* Bounds: requests of administrators, and announcements written.
MaxRequests == [backup |-> 1, telling |-> 3, batch |-> 1, reading |-> 2]
MaxWritten == [telling |-> 1, batch |-> 2, reading |-> 1]

MCWriter == [a \in Admins |-> a]
MCRoleOf == [u \in People |-> IF u \in Heads THEN "admin" ELSE "ta"]

\* The empty string is what is left of a blank one.
MCSpelled == [role \in {"TA", " "} |-> IF role = "TA" THEN "ta" ELSE ""]

Blank == [field \in DOMAIN Defaults |-> Unset]

MCPayloads ==
  {[Blank EXCEPT !.status = "draft"],
   [Blank EXCEPT !.mail = TRUE],
   [Blank EXCEPT !.status = "published", !.starts = 1, !.audience = {"ta", " "}],
   [Blank EXCEPT !.inbox = FALSE, !.active = FALSE, !.starts = 1, !.ends = 0],
   [Blank EXCEPT !.inbox = FALSE, !.audience = {"student", "TA"}],
   [Blank EXCEPT !.inbox = FALSE, !.audience = {" "}],
   [Blank EXCEPT !.inbox = FALSE, !.requires = TRUE, !.ends = 1]}

MCInit ==
  /\ MidnightInit /\ HubInit /\ BackupInit /\ MailInit /\ NoticeInit
  /\ scenario \in Scenarios
  /\ scenario # "backup" => settings = [last |-> Nil, maintenance |-> FALSE]
  /\ scenario # "mail" => window /\ leading = {}
  /\ faults = 0 /\ requests = 0 /\ frames = 0

Fails == faults < MaxFaults[scenario] /\ faults' = faults + 1

Asks == requests < MaxRequests[scenario] /\ requests' = requests + 1

MidnightJob == (Ordinary /\ UNCHANGED faults) \/ (Faulty /\ Fails)

Backups ==
  \/ BackupStep /\ UNCHANGED << faults, requests >>
  \/ BackupFault /\ Fails /\ UNCHANGED requests
  \/ Asks /\ (\E s \in Slots : BackupRequest(s)) /\ UNCHANGED faults

\* Only a frame changes the rooms of a connection that stays in the hub.
Framed == home' = home /\ member' # member /\ hub' = hub

Connections ==
  \/ /\ HubSteps /\ UNCHANGED faults
     /\ frames' = IF Framed THEN frames + 1 ELSE frames
     /\ frames' <= MaxFrames
  \/ HubFaults /\ Fails /\ UNCHANGED frames

Mailing == (MailStep /\ UNCHANGED faults) \/ (MailFault /\ Fails)

\* What is written of announcements in a scenario.
Written ==
  /\ lastId <= MaxWritten[scenario]
  /\ \A n \in DOMAIN posted : posted[n].inbox <=> scenario # "reading"
  /\ \A a \in Admins : edit[a].step = "find" => (edit[a].input.inbox <=> scenario # "reading")

Announcing ==
  /\ \/ Asks /\ (\E a \in Admins : AdminAsks(a)) /\ UNCHANGED << faults, frames >>
     \/ /\ scenario = "reading" /\ frames < MaxFrames /\ frames' = frames + 1
        /\ (\E v \in Readers : ReaderAsks(v)) /\ UNCHANGED << faults, requests >>
     \/ /\ Fails /\ (ServerStops \/ \E f \in Fanouts : FanoutFails(f))
        /\ UNCHANGED << requests, frames >>
     \/ /\ \/ HourPasses
           \/ \E a \in Admins : AdminSteps(a)
           \/ \E v \in Readers : InsertMark(v)
           \/ \E f \in Fanouts : FanoutSteps(f)
        /\ UNCHANGED << faults, requests, frames >>
  /\ Remembers /\ Written'

MCNext ==
  /\ UNCHANGED scenario
  /\ \/ /\ scenario = "midnight" /\ MidnightJob
        /\ UNCHANGED << hubVars, backupVars, mailVars, noticeVars, requests, frames >>
     \/ /\ scenario = "backup" /\ Backups
        /\ UNCHANGED << vars, worker, hubVars, mailVars, noticeVars, frames >>
     \/ /\ scenario = "hub" /\ Connections
        /\ UNCHANGED << vars, worker, backupVars, mailVars, noticeVars, requests >>
     \/ /\ scenario = "mail" /\ Mailing
        /\ UNCHANGED << vars, worker, hubVars, backupVars, noticeVars, requests, frames >>
     \/ /\ scenario \in DOMAIN MaxWritten /\ Announcing
        /\ UNCHANGED << vars, worker, hubVars, backupVars, mailVars >>

MCSpec == MCInit /\ [][MCNext]_mcVars

\* Nodes, Slots and Senders are the replicas in services.cfg.
Alike == Permutations(Replicas)
-----------------------------------------------------------------------------
\* A crash, a failed call, a handover or a failed sweep costs at most one
\* midnight: a session stays open past its own day only for as many midnights
\* as there were failures, and not at all when there was none.
OneMidnightPerFault == Settled => \A d \in open : day - d <= faults

\* A deferred mail goes out once, and once more at most for every crash, handover or
\* lost update that came between sending it and writing that down: neither retries
\* nor two processes at it at once cost more.
OneCopyPerFault == \A m \in Mails : copies[m] <= 1 + faults

\* However connections, frames, drops and the bus interleave, a connection that stays
\* is shown each event of its rooms, or told to fetch everything, and none twice.
ShownOnceOrResynced == NobodyLeftBehind /\ NoEventTwice
=============================================================================
