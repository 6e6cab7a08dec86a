SPECIFICATION MCSpec
CONSTANTS
  Students = {u1, u2}
  Sessions = {s1}
  Calls = {c1, c2}
  Marks = {1, 2}
  Unset = Unset
  FirstCall = c1
  Payloads <- MCPayloads
  MaxItems = 4
  MaxScores = 4
  MaxRequests = 2
  MaxWrites = 4
  MaxAnnounced = 4
  MaxNow = 1
  Scenarios = {"grading", "asking", "publishing", "repairing"}
INVARIANTS PagesAgree
PROPERTIES ScoresSurviveEdits DecidedOnceSerially DueIsPublished
CHECK_DEADLOCK FALSE
