CONSTANTS
  Workers = {w1, w2}
  Nobody = Nobody
  Legs = {"BTC buy"}
  Documents <- Plans
  MaxVersion = 3
SPECIFICATION FairSpec
INVARIANTS TypeOK ExecutesWhatWasRead ExecutedOnce NothingLiveWhileSending
PROPERTIES OfferIsStable ExecutionIsRecorded
