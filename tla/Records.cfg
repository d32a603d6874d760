\* The rules, the egress log, the facts and the dropped files, each on its own.
CHECK_DEADLOCK FALSE
SPECIFICATION RecordsSpec
CONSTANTS
  Hosts = {h1}
  DataClass = {"prompt", "browse"}
  Faults = {"save", "file"}
  Sites <- GateAndPurge
  Ages = {1}
  MaxTime = 2
  MaxRows = 5
  Tampering = {"edit", "lose", "reorder"}
  MaxFact = 2
  Projects = {p1}
  Global = Global
  MostFound = 1
  Events = {"halt", "embedder", "old"}
  Folders = {}
  Uploads = Uploads
  PerFolder = 0
  MaxDropped = 2
  Scopes = {"global"}
  MaxStarts = 3
  Streams = {s1, s2}
  Chats = {c}
  Replaces = FALSE
  Sparse = FALSE
  Mishaps = TRUE
  None = None
SYMMETRY StreamsAlike
INVARIANTS
  NoConsentIsWidened
  BlockedStaysBlocked
  
  ChainVerifies
  EveryRequestAccountedFor
  TamperIsSeen
  CorrectedIsNotRecalled
  StandsAsTold

  
