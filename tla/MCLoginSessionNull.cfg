\* One login, and hours that pass.
CONSTANTS
  MaxSessions = 1
  Users = {"u1"}
  Cars = {"c1", "c2"}
  CarsOf <- MCCarsOf
  Visits = {v1}
  Confirms = {k1}
  Scenarios = {{"hour"}}
SPECIFICATION Spec
PROPERTY RefreshKeepsSession
CHECK_DEADLOCK FALSE
