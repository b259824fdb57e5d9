\* PG and PMS fail: every payment reaches the PMS in the end.
SPECIFICATION FairSpec
CONSTANTS
  Sessions = {s1}
  Amounts = {0, 5}
  Requests = {r1, r2}
  Notifiers = {w1}
  Scenarios = {{"pg", "pms"}}
PROPERTIES
  PmsEventuallyTold
CHECK_DEADLOCK FALSE
