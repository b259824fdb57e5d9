\* A car, two lots and two visits.  Losses, deaths and failures; repeated
\* webhooks and requests; and a broker that refuses.
CONSTANTS
  Lots = {l1, l2}
  Cars = {c1}
  Visits = {v1, v2}
  Loops = {h1, h2}
  Scenarios = {{"crash", "redis", "broker"}, {"webhook", "expiry", "offline", "late"},
               {"webhook", "offline", "late"}, {"webhook", "expiry", "late"}, {"webhook", "expiry"},
               {"duplicate"}, {"again"},
               {"duplicate", "overlap"}, {"again", "overlap"}, {"ack"}, {"broker", "pms"}}
SPECIFICATION FairSpec
INVARIANTS
  TypeOK
  AnnouncedOrRemembered
  ConfirmedHasSession
  RegistrationsAgree
  AppFollows
PROPERTIES
  KeepsOpening
  RegisteredIsAnnounced
CHECK_DEADLOCK FALSE
