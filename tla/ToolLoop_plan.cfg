\* A plan let run without stopping covers a tool that always asks.
SPECIFICATION Spec
CONSTANTS
  look = look  edit = edit  shut = shut  rm = rm  admin = admin  check = check
  short = short  long = long
  None = None  Gone = Gone
  Sessions = {x}
  Calls = {edit, admin}
  MayAllow = {edit}
  Trait <- TheTraits
  Writes <- TheModes
  Files = {}
  Check = edit
  Plans = {long}
  Items <- TheItems
  Ids = {1, 2}
  SavesFail = FALSE
  MAX_TOOL_ROUNDS = 2
  MAX_AUTO_CONTINUATIONS = 0
  MAX_CHECKS_BEFORE_DONE = 0
  PLAN_REVIEW_ITEMS = 4
PROPERTY AlwaysAsksIsAsked
