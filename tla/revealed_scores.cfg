\* One exam and two requests.
SPECIFICATION MCSpec
CONSTANTS
  Exams = {e1}
  Pupils = {t1, t2}
  Clerks = {c1, c2}
  Nil = Nil
  MaxRounds = 2
  MaxMinute = 2
  Rooms = {r1, r2}
  DeskIds = {d1, d2}
  Candidates = {t1, t2}
  Plans = {x1}
  Editors = {c1, c2}
  Absent = Absent
  Queues = {s1, s2}
  Linked = {s1}
  Attending = {s1}
  Students = {t1, t2}
  Desks = {d1, d2}
  TeacherDesks = {d2}
  Pins = {q1, q2}
  NoPin = NoPin
  Nobody = Nobody
  Visits = {v1}
  Staff = {k1}
  Scenarios = {"publishing"}
  MaxChanges = 1
CHECK_DEADLOCK FALSE
PROPERTY RevealedOnlyByPublishing
