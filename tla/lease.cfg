\* Two punctual replicas and one that may stall, with one fault.
CONSTANTS
  Replicas = {r1, r2, r3}
  r1 = r1
  r2 = r2
  r3 = r3
  Punctual = {r1, r2}
  Nobody = Nobody
  Former = Former
  TTL = 5
  Interval = 2
  Timeout = 1
  MaxFaults = 1
SPECIFICATION MCFairSpec
PROPERTIES LeadsUnderLock LeadershipSettles StaleLeaderStepsDown
