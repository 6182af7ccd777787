SPECIFICATION FairSpec
PROPERTY DueIsServed
CONSTANTS
  u1 = u1 u2 = u2 p1 = p1 p2 = p2
  Users = {u1, u2} Procs = {p1}
  Nobody = Nobody Request = Request None = None
  Lengths = {1} Batch = 1 Pool = 1 AlertStreak = 1
  MaxTime = 2 MaxPatches = 0 MaxRequests = 1 MaxFaults = 1
CHECK_DEADLOCK FALSE
