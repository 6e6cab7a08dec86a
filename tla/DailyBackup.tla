----------------------------- MODULE DailyBackup -----------------------------
(***************************************************************************)
(* Database backups: every slot of a blue-green deployment tries to make   *)
(* the daily one, a Redis lock and a marker in app_configs keep it to one; *)
(* administrators make backups by hand and restore them, after a snapshot  *)
(* of what is there.  Within a process one operation runs at a time.  What *)
(* a restore brings back includes app_configs and the list of backups.     *)
(*                                                                         *)
(* Sources: services/database_backup_service.go, the settings cache of     *)
(* repositories/system_settings_repo.go, handlers/system_settings_handler. *)
(***************************************************************************)
EXTENDS Naturals, FiniteSets, TLC

CONSTANTS
  Slots,      \* the processes
  LastDate,   \* bound: days 1 .. LastDate
  LastTick,   \* ticks of a day after the scheduled time are 0 .. LastTick
  LockTicks,  \* dailyBackupLockTTL, in ticks
  MaxBackups, \* bound: objects uploaded
  Nil

ASSUME BackupAssumption ==
  /\ LastDate \in Nat /\ LockTicks \in Nat \ {0} /\ MaxBackups \in Nat
  /\ LastTick \in Nat /\ LockTicks < LastTick

VARIABLES
  date, tick,
  ticked,    \* the slots whose ticker has fired in this tick
  settings,  \* app_configs: the date of the last daily backup, maintenance mode
  known,     \* settingsCache of each slot
  records,   \* database_backup_records: the objects listed
  bucket,    \* the uploaded objects: what was dumped, when, by whom
  restoring, \* the slots whose pg_restore has begun and not ended
  broken,    \* a restore ended in an error half way
  lock,      \* backup:daily:lock
  running,   \* backupOpState of each slot
  job,       \* the daily worker and an administrator's request in each slot
  crossed    \* history: dates on which a dump met another slot's restore

backupVars == <<date, tick, ticked, settings, known, records, bucket, restoring,
                broken, lock, running, job, crossed>>
clock == <<date, tick, ticked>>
database == <<settings, records, restoring, broken>>

Jobs == {"daily", "admin"} \X Slots
Free == [step |-> "free"]
Slot(j) == j[2]
Daily(j) == j[1] = "daily"
Keys == {"last", "maintenance"}

\* Settings, records and objects name dates and backups there can be.
BackupTypeOK ==
  /\ date \in 1 .. LastDate /\ tick \in 0 .. LastTick /\ ticked \subseteq Slots
  /\ settings.last \in 0 .. LastDate \cup {Nil} /\ settings.maintenance \in BOOLEAN
  /\ DOMAIN bucket = 1 .. Cardinality(DOMAIN bucket) /\ records \subseteq DOMAIN bucket
  /\ restoring \subseteq Slots /\ running \in [Slots -> BOOLEAN]
  /\ DOMAIN job = Jobs

\* Yesterday's backup was made, or none ever.
BackupInit ==
  /\ date = 1 /\ tick = 0 /\ ticked = {}
  /\ settings \in [last : {0, Nil}, maintenance : BOOLEAN]
  /\ known = [s \in Slots |-> [k \in Keys |-> Nil]]
  /\ records = {} /\ bucket = << >> /\ restoring = {} /\ broken = FALSE
  /\ lock = Nil /\ running = [s \in Slots |-> FALSE]
  /\ job = [j \in Jobs |-> Free] /\ crossed = {}

Goes(j, r) == job' = [job EXCEPT ![j] = r @@ @]
Gives(j) == job' = [job EXCEPT ![j] = Free]
-----------------------------------------------------------------------------
(* GetAppConfigValue and SetAppConfigValue.  A row that is not there is not *)
(* cached.                                                                  *)

Cached(s, k) == IF known[s][k] # Nil THEN known[s][k] ELSE settings[k]
Caches(s, k) == known' = [known EXCEPT ![s][k] = Cached(s, k)]

SetSetting(s, k, value) ==
  /\ settings' = [settings EXCEPT ![k] = value]
  /\ known' = [known EXCEPT ![s][k] = value]

\* settingsCacheTTL is short: an entry may be gone whenever it is looked for.
SettingExpires(s, k) ==
  /\ known[s][k] # Nil
  /\ known' = [known EXCEPT ![s][k] = Nil]
  /\ UNCHANGED <<clock, database, bucket, lock, running, job, crossed>>

\* UpdateMaintenanceModeHandler drops the entry it has just made.
SetMaintenanceModeConfig(s) ==
  /\ settings' = [settings EXCEPT !.maintenance = ~@]
  /\ known' = [known EXCEPT ![s]["maintenance"] = Nil]
  /\ UNCHANGED <<clock, records, restoring, broken, bucket, lock, running, job, crossed>>
-----------------------------------------------------------------------------
(* tryRunDailyBackup.                                                       *)

NotYetToday(last, today) == last # today

\* The worker's ticker, past the scheduled time.
TryRunDailyBackup(s) ==
  LET j == <<"daily", s>> IN
  /\ s \notin ticked /\ job[j] = Free
  /\ ticked' = ticked \cup {s}
  /\ Caches(s, "last")
  /\ IF NotYetToday(Cached(s, "last"), date)
     THEN Goes(j, [step |-> "lock", today |-> date]) ELSE UNCHANGED job
  /\ UNCHANGED <<date, tick, database, bucket, lock, running, crossed>>

AcquireDailyBackupLock(j) ==
  /\ job[j].step = "lock"
  /\ IF lock = Nil
     THEN LET mine == [owner |-> Slot(j), until |-> tick + LockTicks] IN
          lock' = mine /\ Goes(j, [step |-> "recheck", lock |-> mine])
     ELSE Gives(j) /\ UNCHANGED lock
  /\ UNCHANGED <<clock, database, known, bucket, running, crossed>>

\* Redis does not answer: the backup goes ahead without the lock.
ProceedWithoutLock(j) ==
  /\ job[j].step = "lock"
  /\ Goes(j, [step |-> "recheck", lock |-> Nil])
  /\ UNCHANGED <<clock, database, known, bucket, lock, running, crossed>>

\* The owner script: a lock that is not the one taken here stays.
ReleaseDailyBackupLock(j) == lock' = IF lock = job[j].lock THEN Nil ELSE lock

\* The marker again, by the same cached read.
RecheckMarker(j) ==
  /\ job[j].step = "recheck"
  /\ Caches(Slot(j), "last")
  /\ IF NotYetToday(Cached(Slot(j), "last"), job[j].today)
     THEN Goes(j, [step |-> "begin"]) /\ UNCHANGED lock
     ELSE Gives(j) /\ ReleaseDailyBackupLock(j)
  /\ UNCHANGED <<clock, database, bucket, running, crossed>>
-----------------------------------------------------------------------------
(* RunDatabaseBackupNow.                                                    *)

\* beginBackupOperation.
MayBegin(s) == ~running[s]

Abandon(j) ==
  /\ Gives(j)
  /\ IF Daily(j) THEN ReleaseDailyBackupLock(j) ELSE UNCHANGED lock

BeginBackup(j) ==
  /\ job[j].step = "begin"
  /\ IF MayBegin(Slot(j))
     THEN /\ running' = [running EXCEPT ![Slot(j)] = TRUE]
          /\ Goes(j, [step |-> "dump"]) /\ UNCHANGED lock
     ELSE Abandon(j) /\ UNCHANGED running
  /\ UNCHANGED <<clock, database, known, bucket, crossed>>

\* pg_dump sees the database of one moment, a restore half done included.
RunPgDump(j) ==
  /\ job[j].step = "dump"
  /\ Goes(j, [step |-> "record",
              dump |-> [settings |-> settings, records |-> records,
                        whole |-> restoring = {} /\ ~broken]])
  /\ crossed' = IF restoring \ {Slot(j)} # {} THEN crossed \cup {date} ELSE crossed
  /\ UNCHANGED <<clock, database, known, bucket, lock, running>>

EndBackup(s) == running' = [running EXCEPT ![s] = FALSE]

\* The upload and its row.
CreateDatabaseBackupRecord(j) ==
  LET n == Cardinality(DOMAIN bucket) + 1 IN
  /\ job[j].step = "record" /\ n <= MaxBackups
  /\ bucket' = (n :> [dump |-> job[j].dump, daily |-> Daily(j), date |-> date]) @@ bucket
  /\ records' = records \cup {n}
  /\ EndBackup(Slot(j))
  /\ IF Daily(j) THEN Goes(j, [step |-> "mark"])
     ELSE IF job[j].target = Nil THEN Gives(j) ELSE Goes(j, [step |-> "restore"])
  /\ UNCHANGED <<clock, settings, restoring, broken, known, lock, crossed>>

\* pg_dump, the upload or the row fails.
BackupFails(j) ==
  /\ job[j].step \in {"dump", "record"}
  /\ EndBackup(Slot(j)) /\ Abandon(j)
  /\ UNCHANGED <<clock, database, known, bucket, crossed>>

\* The date as it was when the tick began.
MarkDailyBackup(j) ==
  /\ job[j].step = "mark"
  /\ SetSetting(Slot(j), "last", job[j].today)
  /\ Abandon(j)
  /\ UNCHANGED <<clock, records, restoring, broken, bucket, running, crossed>>

MarkFails(j) ==
  /\ job[j].step = "mark" /\ Abandon(j)
  /\ UNCHANGED <<clock, database, known, bucket, running, crossed>>
-----------------------------------------------------------------------------
(* An administrator's requests.                                             *)

RunBackupNowHandler(s) ==
  LET j == <<"admin", s>> IN
  /\ job[j] = Free /\ Goes(j, [step |-> "begin", target |-> Nil])
  /\ UNCHANGED <<clock, database, known, bucket, lock, running, crossed>>

\* Only in maintenance, as far as this process knows, and of a listed backup;
\* the snapshot comes first.
RestoreBackupHandler(s) ==
  LET j == <<"admin", s>> IN
  /\ job[j] = Free /\ Cached(s, "maintenance") = TRUE
  /\ Caches(s, "maintenance")
  /\ \E n \in records : Goes(j, [step |-> "begin", target |-> n])
  /\ UNCHANGED <<clock, database, bucket, lock, running, crossed>>

RestoreDatabaseFromBackup(j) ==
  /\ job[j].step = "restore"
  /\ IF MayBegin(Slot(j))
     THEN /\ running' = [running EXCEPT ![Slot(j)] = TRUE]
          /\ restoring' = restoring \cup {Slot(j)}
          /\ Goes(j, [step |-> "restoring"])
     ELSE Gives(j) /\ UNCHANGED <<running, restoring>>
  /\ UNCHANGED <<clock, settings, records, broken, known, bucket, lock, crossed>>

\* Everything is as it was dumped; the caches are left alone.
RunPgRestore(j) ==
  LET dump == bucket[job[j].target].dump IN
  /\ job[j].step = "restoring"
  /\ settings' = dump.settings /\ records' = dump.records /\ broken' = ~dump.whole
  /\ restoring' = restoring \ {Slot(j)}
  /\ EndBackup(Slot(j)) /\ Gives(j)
  /\ UNCHANGED <<clock, known, bucket, lock, crossed>>

\* The download or the check of the sum fails, or pg_restore half way.
RestoreFails(j) ==
  /\ job[j].step = "restoring"
  /\ broken' \in {broken, TRUE} /\ restoring' = restoring \ {Slot(j)}
  /\ EndBackup(Slot(j)) /\ Gives(j)
  /\ UNCHANGED <<clock, settings, records, bucket, known, lock, crossed>>
-----------------------------------------------------------------------------
(* Time and failures.                                                       *)

CrashSlot(s) ==
  /\ job' = [j \in Jobs |-> IF Slot(j) = s THEN Free ELSE job[j]]
  /\ running' = [running EXCEPT ![s] = FALSE]
  /\ known' = [known EXCEPT ![s] = [k \in Keys |-> Nil]]
  /\ broken' = (broken \/ s \in restoring) /\ restoring' = restoring \ {s}
  /\ UNCHANGED <<clock, settings, records, bucket, lock, crossed>>

\* Mutant of Expired: the lock is taken without a time to live.
NeverExpires(l, t) == FALSE

\* What is begun in a tick ends in it: the lock outlives the work under it.
AllFree == \A j \in Jobs : job[j] = Free
Expired(l, t) == l # Nil /\ l.until <= t

TickPasses ==
  /\ AllFree /\ ticked = Slots /\ tick < LastTick
  /\ tick' = tick + 1 /\ ticked' = {}
  /\ lock' = IF Expired(lock, tick + 1) THEN Nil ELSE lock
  /\ UNCHANGED <<date, database, known, bucket, running, job, crossed>>

DayPasses ==
  /\ AllFree /\ ticked = Slots /\ tick = LastTick /\ date < LastDate
  /\ date' = date + 1 /\ tick' = 0 /\ ticked' = {}
  /\ lock' = Nil /\ known' = [s \in Slots |-> [k \in Keys |-> Nil]]
  /\ UNCHANGED <<database, bucket, running, job, crossed>>

BackupRequest(s) == RunBackupNowHandler(s) \/ RestoreBackupHandler(s) \/ SetMaintenanceModeConfig(s)

BackupStep ==
  \/ \E s \in Slots : TryRunDailyBackup(s) \/ \E k \in Keys : SettingExpires(s, k)
  \/ \E j \in Jobs : \/ AcquireDailyBackupLock(j) \/ RecheckMarker(j) \/ BeginBackup(j)
                     \/ RunPgDump(j) \/ CreateDatabaseBackupRecord(j) \/ MarkDailyBackup(j)
                     \/ RestoreDatabaseFromBackup(j) \/ RunPgRestore(j)
  \/ TickPasses \/ DayPasses

BackupFault ==
  \/ \E s \in Slots : CrashSlot(s)
  \/ \E j \in Jobs : ProceedWithoutLock(j) \/ BackupFails(j) \/ MarkFails(j) \/ RestoreFails(j)
-----------------------------------------------------------------------------
DailyOf(d) == {n \in DOMAIN bucket : bucket[n].daily /\ bucket[n].date = d}

\* One failure, crash or outage of Redis does not cost a day its backup, and
\* neither does a restore, a backup by hand or a lock left behind: a day that
\* is over has a backup of a whole database, made by the worker.  Left out are
\* days on which a dump met the restore of another slot, which nothing stops,
\* and a database that a failed restore left in pieces.
EveryDayIsBackedUp ==
  \A d \in 1 .. date - 1 :
    (d \notin crossed /\ ~broken) => \E n \in DailyOf(d) : bucket[n].dump.whole

=============================================================================
