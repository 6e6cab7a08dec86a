SPECIFICATION MCSpec
CONSTANTS
  Actors = {a1, a2}
  Students = {u1}
  Sessions = {s1, s2}
  Days = {d1, d2}
  Requests = {1, 2}
  Slots = {1, 2}
  MaxPending = 1
  MaxLives = 3
  NoSession = NoSession
  NoRequest = NoRequest
  FirstDay = d1
  FirstActor = a1
  Scenarios = {"steady", "moved", "decisions"}
INVARIANTS NoDoubleBooking LeaveMatchesRecordSerially
PROPERTY AttendanceIsKeptSerially
CHECK_DEADLOCK FALSE
