\* One session; its PIN, its start and its end.
CONSTANTS
  Sessions = {s1}
  Pins = {p1, p2, p3}
  NoPin = NoPin
  NoSession = NoSession
  NoState = NoState
  Requests = {q1}
  Worker = Worker
  Scenarios = {"calm", "serial", "race"}
  MaxAsks = 2
SPECIFICATION FairSpec
CHECK_DEADLOCK FALSE
INVARIANTS ShownIsAcceptedSerially AdmittedWasShown
PROPERTIES ClosedStaysClosed OpensOnTime
