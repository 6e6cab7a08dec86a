\* Two processes over two midnights, over two days with a backup each, and with a
\* connection that joins a room, two mails, and announcements of two administrators to a
\* third user and a student; one or two faults.
SPECIFICATION MCSpec
CONSTANTS
  Replicas = {r1, r2}
  Punctual = {r1, r2}
  Nobody = Nobody
  Former = Former
  TTL = 5
  Interval = 2
  Timeout = 1
  Minute = 2
  DayLength = 12
  LastDay = 2
  Nodes = {r1, r2}
  Sockets = {k1}
  Rooms = {g1}
  Capacity = 2
  Nowhere = Nowhere
  MaxEvents = 2
  Slots = {r1, r2}
  LastDate = 2
  LastTick = 3
  LockTicks = 2
  MaxBackups = 4
  Nil = Nil
  Mails = {m1, m2}
  Senders = {r1, r2}
  MaxAttempts = 2
  Limit = 1
  Admins = {h1, h2}
  Heads = {h1, h2}
  People = {h1, h2, t1}
  Pupils = {p1}
  Writer <- MCWriter
  RoleOf <- MCRoleOf
  Spelled <- MCSpelled
  Empty = ""
  Payloads <- MCPayloads
  MaxNotices = 2
  MaxFanouts = 2
  BatchLimit = 2
  Chunk = 1
  LastHour = 1
  Unset = Unset
  Scenarios = {"midnight", "backup", "hub", "mail", "telling", "batch", "reading"}
  MaxFrames = 2
SYMMETRY Alike
CHECK_DEADLOCK FALSE
INVARIANTS OneMidnightPerFault EveryDayIsBackedUp ShownOnceOrResynced OneCopyPerFault
  ToldOnceEach LiveIsShown
