\* A press and the tick share the lock, questions fail, and every due trigger is run.
SPECIFICATION FairSpec
CONSTANTS
  t1 = t1  t2 = t2  o1 = o1  o2 = o2  o3 = o3  press1 = press1  press2 = press2
  None = None
  Triggers = {t1, t2}
  Obligations = {o1}
  Presses = {press1}
  Kind <- RepliesAndDaily
  At <- AtOnce
  DaysAhead <- OneDay
  Due <- DueInTurn
  Day = 1
  BREAKER_AFTER = 2
  RUN_TTL_DAYS = 2
  MaxTime = 2
  Events = {}
CHECK_DEADLOCK FALSE
PROPERTIES
  OnceASlot
  EveryDueTriggerRuns
