SPECIFICATION MCSpec
CONSTANTS
  Courses = {k1, k2}
  Terms = {t1, t2}
  Users = {u1, u2}
  Nobody = Nobody
  NoCourse = NoCourse
  Calls = {c1, c2}
  Lists <- MCLists
  MaxRows = 4
  Home = k1
  Other = k2
  User1 = u1
  People = {p1, p2}
  Kinds = {"permanent"}
  Nothing = Nothing
  MaxSections = 3
  MaxTeams = 2
  MaxEnrolled = 3
  MaxRemovals = 2
  Scenarios = {"status", "staff", "roster", "teams", "overview"}
INVARIANTS LeadLeadsSerially OnePlaceSerially
PROPERTIES OverviewHeals
CHECK_DEADLOCK FALSE
