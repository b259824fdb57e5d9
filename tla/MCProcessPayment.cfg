\* Everything that may fail; only PG and PMS; only crashes and the PMS.
SPECIFICATION Spec
CONSTANTS
  Sessions = {s1}
  Amounts = {0, 5}
  Requests = {r1, r2}
  Notifiers = {w1}
  Scenarios = {{"crash", "db", "redis", "ttl", "pg", "pms"}, {"pg", "pms"}, {"crash", "ttl", "pms"}}
SYMMETRY Symmetry
INVARIANTS
  TypeOK
  AskedOnce
  NothingUnpaid
  PmsToldOrRemembered
  RefusedMeansUnpaid
PROPERTIES
  KeepsLedger
  SuccessStands
CHECK_DEADLOCK FALSE
