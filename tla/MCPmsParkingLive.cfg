\* A paid car gets out.
CONSTANTS
  Lots = {l1, l2}
  Plates = {p1}
  Visits = {v1, v2}
  Payments = {a}
  Handlers = {h1, h2}
  Scenarios = {{"redis", "webhook"}}
SPECIFICATION FairSpec
PROPERTIES
  PaidGetsOut
CHECK_DEADLOCK FALSE
