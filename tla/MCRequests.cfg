SPECIFICATION Spec
INVARIANTS
  TypeOK OneLiveToken SignInEnds EveryRecordOpens LastRegistrationStands
  TargetsAreConsistent PointIsBeforeTheOrders NoDayLost
  NothingMissedOrRepeated OnlyALostOneStaysOpen
PROPERTY PinnedIsKept
CONSTANTS
  None = None Evaluation = Evaluation
  r1 = r1 r2 = r2 Requests = {r1, r2} MaxTime = 2 DayLength = 2
  TokenUsers = {u1} RefreshTTL = 1 MaxTokens = 3
  Users = {u1, u2} Credentials = {k1, k2} MaxVersion = 3
  Assets = {a1, a2, a3} Fiats = {"EUR", "USD"} HUNDRED = 3
  Refreshes = {f1} MaxAccount = 1 MaxRows = 3
  EvaluationIds = {1, 2, 3} Limit = 1 Retention = 1
SYMMETRY MCSymmetry
CHECK_DEADLOCK FALSE
