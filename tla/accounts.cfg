SPECIFICATION MCSpec
CONSTANTS
  Users = {1, 2, 3}
  Students = {1}
  Names = {1, 2}
  Emails = {1, 2}
  Passwords = {1, 2}
  Pids = {p1, p2}
  NoUser = NoUser
  Unset = Unset
  Requests = {q1, q2}
  Cap = 2
  Life = 3
  MaxTime = 3
  MaxTokens = 4
  MaxCodes = 3
  Identities <- MCIdentities
  P1 = p1
  P2 = p2
  MaxLinks = 4
  MaxStarts = 4
  Scenarios = {"sessions", "passwords", "codes", "staff", "links"}
INVARIANTS SessionsEndAtCap PasswordEndsSessionsSerially LinksAreUniqueSerially
PROPERTIES CodesWorkOnceSerially
CHECK_DEADLOCK FALSE
