\* A second amount for a session that was paid.
SPECIFICATION Spec
CONSTANTS
  Sessions = {s1}
  Amounts = {5, 10}
  Requests = {r1, r2}
  Notifiers = {w1}
  Scenarios = {{}}
PROPERTIES
  PaysOnlyActive
CHECK_DEADLOCK FALSE
