SPECIFICATION Spec
INVARIANT MissedWhilePausedIsSkipped
CONSTANTS
  u1 = u1 u2 = u2 p1 = p1 p2 = p2
  Users = {u1} Procs = {p1}
  Nobody = Nobody Request = Request None = None
  Lengths = {1, 2} Batch = 1 Pool = 1 AlertStreak = 1
  MaxTime = 3 MaxPatches = 2 MaxRequests = 0 MaxFaults = 0
CHECK_DEADLOCK FALSE
