\* Prompt workers that may stop, slow ones that do not, and slow ones that may.
CONSTANTS
  Notifications = {n1, n2}
  Workers = {w1, w2}
  MaxAttempts = 2
  BatchSize = 2
  Scenarios = {{"stop"}, {"slow"}, {"slow", "stop"}}
SPECIFICATION FairSpec
INVARIANTS
  TypeOK
  EachAttemptSentOnce
  StatusIsTrue
PROPERTIES
  KeepsPromise
  EventuallySettled
CHECK_DEADLOCK FALSE
