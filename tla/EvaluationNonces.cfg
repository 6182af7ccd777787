SPECIFICATION MCSpec
INVARIANT NoncesArriveInOrder
CONSTANTS
  None = None t1 = t1 t2 = t2 b1 = b1 b2 = b2
  NAssets = 3 Hundred = 4 CostStep = 2 FiatStep = 4 VolumeStep = 2 OrderMin = 2 CostMin = 2
  Accounts <- MCAccounts Moves <- MCMoves Fees = {0, 2}
  Year = 2023 Day = 4 Window = 2 Cadences <- MCCadences Intervals = {1, 3} Dates <- MCDates
  Times = {0, 3} Starts <- MCStarts Delays = {0, 1, 122} CadenceTime = 4000
  Threads = {t1, t2} Buckets = {b1, b2} MinInterval = 2 LimiterTime = 3 MaxCalls = 2
  TTL = 2 Timeout = 1 MaxTime = 6 MaxVersion = 2
  Evaluations = {e1, e2} Pairs = {p1, p2} MaxPrice = 2
SYMMETRY MCSymmetry
CHECK_DEADLOCK FALSE
