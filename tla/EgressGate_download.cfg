\* A download redirected to either of two hosts, the file damaged: refused, recorded, ended.
SPECIFICATION FairSpec
CONSTANTS
  r1 = r1  r2 = r2  h1 = h1  h2 = h2
  Hosts = {h1, h2}
  Requests = {r1}
  DataClass = {"prompt"}
  Faults = {"file"}
  Calls <- Downloads
  Redirecting = {"download"}
  MaxHops = 1
INVARIANT
  RefusedNeverLeaves
PROPERTY
  KeepsPromise
  EveryRequestEnds
