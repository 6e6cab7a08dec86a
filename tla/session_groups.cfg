\* Three requests of every kind, two at a time.
CONSTANTS
  Sessions = {s1, s2, s3}
  s1 = s1
  s2 = s2
  s3 = s3
  c1 = c1
  c2 = c2
  CourseOf <- Course
  Rooms = {r1}
  Groups = {g1, g2}
  NoGroup = NoGroup
  Requests = {q1, q2}
  MaxStarts = 3
SPECIFICATION MCSpec
SYMMETRY Symmetry
CHECK_DEADLOCK FALSE
INVARIANTS GroupsArePairs
PROPERTIES LifeCycleIsKept
