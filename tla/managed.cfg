\* One session under manager operations, closing jobs and public cancels; two sessions in a group.
CONSTANTS
  Sessions = {s1, s2}
  Users = {u1, u2}
  Students = {a, b}
  Desks = {d1}
  Bookings = {1, 2}
  Groups = {g1}
  NoUser = NoUser
  NoBooking = NoBooking
  NoGroup = NoGroup
  PauseThreshold = 1
  FairnessMargin = 1
  AcceptChoices = {{"grading"}}
  MaxOps = 2
  MaxRequests = 1
  MaxJoins = 2
  Booked = {"grading"}
  Scenarios = {"managed", "cancels", "linked"}
  One = s1
  Alone = a
SPECIFICATION MCSpec
SYMMETRY Symmetry
CHECK_DEADLOCK FALSE
PROPERTIES WorkIsKept FreshWorkStaysInCourse
