\* Two cars that want the one plate, two orders, two cards, two submissions.
CONSTANTS
  Cars = {c1, c2}
  Plates = {p1}
  Cards = {x1, x2}
  Forms = {f1, f2}
  MaxOrders = 2
  Loops = {h1, h2}
  Scenarios = {{"crash"}, {"webhook", "redis", "expiry"}, {"webhook", "unheard"}, {"timeout"},
    {"duplicate"}, {"cardco"}, {"overlap"}, {"double", "fallback"}, {"page", "confirm"}, {"fallback"}}
SPECIFICATION FairSpec
INVARIANTS
  TypeOK
  KeyIsKnown
  OkMeansStored
  AppCardIsCharged
PROPERTIES
  NewerStands
  KeyArrives
CHECK_DEADLOCK FALSE
