\* One reply to its end: handovers, failed checks and plans sent again.
SPECIFICATION Spec
CONSTANTS
  look = look  edit = edit  shut = shut  rm = rm  admin = admin  check = check
  short = short  long = long
  None = None  Gone = Gone
  Sessions = {x}
  Calls = {look, edit, check, shut}
  MayAllow = {}
  Trait <- TheTraits
  Writes <- TheModes
  Files = {edit}
  Check = check
  Plans = {long}
  Items <- TheItems
  Ids = {1}
  SavesFail = FALSE
  MAX_TOOL_ROUNDS = 2
  MAX_AUTO_CONTINUATIONS = 1
  MAX_CHECKS_BEFORE_DONE = 1
  PLAN_REVIEW_ITEMS = 4
INVARIANT
  WorkIsBounded
PROPERTY
  EveryReplyEnds
