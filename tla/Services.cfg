\* The updater, the task queue, one tool server's client, the paired clients, a card,
\* the watcher of the folders.
CHECK_DEADLOCK FALSE
SPECIFICATION ServicesSpec
CONSTANTS
  Newest = 2
  Threads = {t1, t2}
  Windows = FALSE
  MayRaise = FALSE
  Nothing = Nothing
  Tasks = {1, 2, 3, 4}
  Weight <- Level
  DependsOn <- ThenNext
  PlanOf <- TwoPlans
  Workers = {w1, w2}
  MaxRetries = 1
  Idle = Idle
  Callers = {c1, c2}
  MaxId = 3
  MaxNotes = 1
  Endless = FALSE
  Nobody = Nobody
  MaxClients = 3
  Codes = {k1, k2}
  Ttl = 1
  MaxClock = 2
  SaveFails = TRUE
  Folders = {docs}
  Uploads = Uploads
  PerFolder = 1
  MaxDropped = 0
  Scopes = {"global"}
  MaxStarts = 3
  Streams = {s1}
  Chats = {}
  Replaces = FALSE
  Sparse = FALSE
  Mishaps = FALSE
  None = None
  Pictures = {a, b}
  Room = 12
  FluxSize = 8
  ChatSize = 10
  OtherSize = 3
  CardEvents = {"question", "release", "choose", "connect", "fails"}
  Boot = Boot
  Presses = {press}
  Listings = {list}
  Processes = {s1, s2}
  NotLaunched = NotLaunched
  SlowestStart = 1
  ServerEvents = {"crash", "refused"}
INVARIANTS
  
  
  RevokedStaysRefused
  NoGrantCovers
  OneRowPerFile
PROPERTIES
  CardIsGivenBack
  OnlyNewerAndWhole
  EveryChangeIsRead
  DependenciesFirst
  EveryTaskEnds
  CardKeepsItsWord
