\* Everything that may go wrong with concurrent calls of a key, the same with
\* the calls one at a time, and the two ways in which only one side fails.
CONSTANTS
  Keys = {k1}
  Calls = {c1, c2, c3}
  Scenarios = {{"crash", "card", "db", "concurrent"}, {"crash", "card", "db"},
               {"crash"}, {"card", "concurrent"}}
SPECIFICATION FairSpec
INVARIANTS
  TypeOK
  SuccessIsCharged
PROPERTIES
  KeepsContract
  ChargeSettles
CHECK_DEADLOCK FALSE
