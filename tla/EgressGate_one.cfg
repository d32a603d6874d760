\* One request of every shape against edits, answers, failing saves and logs, restarts.
SPECIFICATION Spec
CONSTANTS
  r1 = r1  r2 = r2  h1 = h1  h2 = h2
  Hosts = {h1}
  Requests = {r1}
  DataClass = {"prompt", "image"}
  Faults = {"log", "save"}
  Calls <- EachKind
  Redirecting = {}
  MaxHops = 0
INVARIANTS
  NothingLeavesUndecided
