\* Two students, two workers and one desk in one session: booking, offers, timeouts, leaving.
CONSTANTS
  Sessions = {s1}
  Users = {u1, u2}
  Students = {a, b}
  Desks = {d1}
  Bookings = {1, 2}
  Groups = {g1}
  NoUser = NoUser
  NoBooking = NoBooking
  NoGroup = NoGroup
  PauseThreshold = 2
  FairnessMargin = 1
  AcceptChoices = {{"grading", "help"}}
  MaxOps = 0
  MaxRequests = 1
  MaxJoins = 2
  Booked = {"grading", "help"}
  Scenarios = {"offers"}
  One = s1
  Alone = a
SPECIFICATION MCFairSpec
CHECK_DEADLOCK FALSE
INVARIANTS BookingsAreSound NoGhostOnBoard CreditIsEarned
PROPERTIES OffersResolve NoStarvation
