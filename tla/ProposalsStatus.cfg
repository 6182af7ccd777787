CONSTANTS
  Workers = {w1, w2}
  Nobody = Nobody
  Legs = {"BTC buy"}
  Documents <- Plans
  MaxVersion = 2
SPECIFICATION Spec
INVARIANT StatusSaysWhatIsThere
