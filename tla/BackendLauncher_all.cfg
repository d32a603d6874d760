\* Crashes, spawns that fail, late probes and restarts by hand, in any order.
CHECK_DEADLOCK FALSE
SPECIFICATION FairSpec
CONSTANTS
  None = None
  Procs = {p1, p2, p3}
  UNANSWERED_LIMIT = 2
  MaxProbes = 2
  Events = {"crash", "restart", "nospawn"}
INVARIANTS
  OneBackend
  StopLeavesNoBackend
PROPERTY
  Recovers
