\* Two users who share a car, two codes, two scans, two requests.
CONSTANTS
  MaxSessions = 2
  Users = {"u1", "u2"}
  Cars = {"c1", "c2"}
  CarsOf <- MCCarsOf
  Visits = {v1, v2}
  Confirms = {k1, k2}
  Scenarios = {{"repeat", "hour"}, {"hour", "month"}, {"hour", "month", "refused"}, {"second"},
    {"second", "timeout"}, {"refresh"}, {"crash", "provider", "lost"}, {"patience"}, {"expiry"}}
SPECIFICATION FairSpec
INVARIANTS
  TypeOK
  OnlyTheShown
  AppOwnsCar
PROPERTIES
  LoginCompletes
CHECK_DEADLOCK FALSE
