CONSTANTS
  Evaluators = {e1, e2}
  Attempts = {a1, a2}
  Nobody = Nobody
  NoAttempt = NoAttempt
  MaxLegs = 2
  Volume = 1
  Grace = 2
  ListBound = 1
SPECIFICATION LossySpec
INVARIANT PlansOnSettledAccount
