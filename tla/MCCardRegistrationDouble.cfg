\* One page submitted twice at once.
CONSTANTS
  Cars = {c1}
  Plates = {p1}
  Cards = {x1, x2}
  Forms = {f1, f2}
  MaxOrders = 1
  Loops = {h1}
  Scenarios = {{"double"}}
SPECIFICATION Spec
INVARIANT KeyIsGateways
CHECK_DEADLOCK FALSE
