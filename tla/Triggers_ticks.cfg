\* A reply to what is due and a daily question, run by the tick while they are edited,
\* deleted and the process restarts.
SPECIFICATION Spec
CONSTANTS
  t1 = t1  t2 = t2  o1 = o1  o2 = o2  o3 = o3  press1 = press1  press2 = press2
  None = None
  Triggers = {t1, t2}
  Obligations = {o1}
  Presses = {}
  Kind <- RepliesAndDaily
  At <- SecondLater
  DaysAhead <- OneDay
  Due <- DueDayTwo
  Day = 2
  BREAKER_AFTER = 2
  RUN_TTL_DAYS = 2
  MaxTime = 4
  Events = {"toggle", "delete", "restart"}
CHECK_DEADLOCK FALSE
INVARIANT
  BreakerTrips
PROPERTY
  DraftedOnce
