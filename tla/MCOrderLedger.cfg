CONSTANTS
  Evaluators = {e1, e2}
  Attempts = {a1, a2, a3}
  Nobody = Nobody
  NoAttempt = NoAttempt
  MaxLegs = 2
  Volume = 1
  Grace = 2
  ListBound = 1
SPECIFICATION Spec
SYMMETRY Symmetry
INVARIANTS TypeOK LedgerIsTrue PlansOnSettledAccount AtMostOneUnknown EveryOrderHasItsRow ReportIsTrue
PROPERTY KeepsPromise
