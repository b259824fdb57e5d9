\* Requests that die, records and webhooks that are lost; answers that are late;
\* and notices, payments and visits that overlap.
CONSTANTS
  Lots = {l1}
  Plates = {p1}
  Visits = {v1, v2, v3}
  Payments = {a, b}
  Handlers = {h1, h2}
  Scenarios = {{"crash", "redis", "webhook"}, {"webhook"}, {"timeout"},
               {"duplicate"}, {"second"}, {"overlap"}}
SPECIFICATION Spec
SYMMETRY Symmetry
INVARIANTS
  TypeOK
  BoardIsTrue
  AckedIsPaid
PROPERTIES
  KeepsLifecycle
  OpensForPaid
CHECK_DEADLOCK FALSE
