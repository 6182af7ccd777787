CONSTANTS
  Workers = {w1}
  Nobody = Nobody
  Legs = {"BTC buy"}
  Documents <- Plans
  MaxVersion = 2
SPECIFICATION Spec
PROPERTY WithdrawnIsNotExecuted
