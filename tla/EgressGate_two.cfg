\* Two threads with questions to the same host.
SPECIFICATION Spec
CONSTANTS
  r1 = r1  r2 = r2  h1 = h1  h2 = h2
  Hosts = {h1}
  Requests = {r1, r2}
  DataClass = {"prompt", "image"}
  Faults = {}
  Calls <- Pictures
  Redirecting = {}
  MaxHops = 0
SYMMETRY Symmetry
INVARIANTS
  WireIsOnRecord
  TheLastWordWins
