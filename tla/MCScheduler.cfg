SPECIFICATION Spec
INVARIANT TypeOK
INVARIANT SlotServedOnce
INVARIANT OneWorkerPerUser
INVARIANT OneWarningPerStreak
CONSTANTS
  u1 = u1 u2 = u2 p1 = p1 p2 = p2
  Users = {u1} Procs = {p1, p2}
  Nobody = Nobody Request = Request None = None
  Lengths = {1, 2} Batch = 1 Pool = 1 AlertStreak = 2
  MaxTime = 2 MaxPatches = 1 MaxRequests = 0 MaxFaults = 1
CHECK_DEADLOCK FALSE
SYMMETRY MCSymmetry
