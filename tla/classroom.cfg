\* Results of one exam, the seats of one in two rooms, and two queue sessions in a
\* room of two desks.
SPECIFICATION MCSpec
CONSTANTS
  Exams = {e1}
  Pupils = {t1, t2}
  Clerks = {c1, c2}
  Nil = Nil
  MaxRounds = 2
  MaxMinute = 2
  Rooms = {r1, r2}
  DeskIds = {d1, d2}
  Candidates = {t1, t2}
  Plans = {x1}
  Editors = {c1, c2}
  Absent = Absent
  Queues = {s1, s2}
  Linked = {s1}
  Attending = {s1}
  Students = {t1, t2}
  Desks = {d1, d2}
  TeacherDesks = {d2}
  Pins = {q1, q2}
  NoPin = NoPin
  Nobody = Nobody
  Visits = {v1}
  Staff = {k1}
  Scenarios = {"publishing", "seating", "booking", "booking_alone"}
  MaxChanges = 1
SYMMETRY Alike
CHECK_DEADLOCK FALSE
INVARIANTS EverybodyToldSerially SeatsInRooms OneGradingPerDeskSerially
PROPERTIES GradedDeskStaysLockedSerially
