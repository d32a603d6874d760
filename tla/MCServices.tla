------------------------------ MODULE MCServices ------------------------------
(***************************************************************************)
(* Services of the backend that share the process and nothing else, each   *)
(* from its own start: the updater, the task queue, a tool server's client,*)
(* the paired clients, a tool call on its card, the folders' watcher, the  *)
(* pictures' card and the local model server.  A behaviour is a behaviour  *)
(* of one of them.                                                         *)
(***************************************************************************)
EXTENDS Updates, TaskQueue, McpClient, PairedClients, ToolCard, Knowledge, ImagesRuntime, ModelServers

(* One plan: a search, the answer from it, and the answer spoken; and a      *)
(* second of one step.                                                       *)
Urgent   == [t \in Tasks |-> IF t = 3 THEN 1 ELSE 2]
ThenNext == [t \in Tasks |-> IF t \in {2, 3} THEN {t - 1} ELSE {}]
TwoPlans == [t \in Tasks |-> IF t = 4 THEN 2 ELSE 1]
Level    == [t \in Tasks |-> IF t = 4 THEN 4 ELSE 2]

VARIABLE service

servicesVars ==
  <<service, updateVars, queueVars, clientVars, pairingVars, cardVars, knowledgeVars, imageVars, serverVars>>

(* A call to nobody's tool, where the card is not what is looked at.        *)
NoCard ==
  /\ question.subject = "plain" /\ question.server = "stranger" /\ question.words = {}
  /\ ~question.hinted /\ ~question.mutative /\ mode = "host_undo" /\ ~granted

ServicesInit ==
  /\ service \in {"updates", "queue", "client", "pairing", "card", "knowledge", "images", "servers"}
  /\ UpdatesInit /\ QueueInit /\ ClientInit /\ PairingInit /\ CardInit
  /\ KnowledgeInit /\ ImagesInit /\ ServersInit
  /\ service # "updates" => published = current
  /\ service # "card" => NoCard

OthersStill ==
  /\ service # "updates" => UNCHANGED updateVars
  /\ service # "queue" => UNCHANGED queueVars
  /\ service # "client" => UNCHANGED clientVars
  /\ service # "pairing" => UNCHANGED pairingVars
  /\ service # "card" => UNCHANGED cardVars
  /\ service # "knowledge" => UNCHANGED knowledgeVars
  /\ service # "images" => UNCHANGED imageVars
  /\ service # "servers" => UNCHANGED serverVars

ServicesNext ==
  /\ UNCHANGED service
  /\ \/ service = "updates" /\ UpdatesNext
     \/ service = "queue" /\ QueueNext
     \/ service = "client" /\ ClientNext
     \/ service = "pairing" /\ PairingNext
     \/ service = "card" /\ CardNext
     \/ service = "knowledge" /\ KnowledgeNext
     \/ service = "images" /\ ImagesNext
     \/ service = "servers" /\ ServersNext
  /\ OthersStill

(* The fairness of each, where it is the one that runs.                     *)
ServicesSpec ==
  /\ ServicesInit /\ [][ServicesNext]_servicesVars
  /\ WF_updateVars(service = "updates" /\ FetchStep)
  /\ \A t \in Threads : WF_updateVars(service = "updates" /\ Route(t))
  /\ \A w \in Workers : WF_queueVars(service = "queue" /\ Work(w))
  /\ \A c \in Callers : /\ WF_clientVars(service = "client" /\ Waits(c))
                        /\ WF_clientVars(service = "client" /\ Goes(c))
  /\ SF_knowledgeVars(service = "knowledge" /\ Watches)
  /\ WF_knowledgeVars(service = "knowledge" /\ Works("watcher"))
  /\ WF_knowledgeVars(service = "knowledge" /\ (Works("retry") \/ Replaced))
  /\ \A r \in Pictures : /\ WF_imageVars(service = "images" /\ Moves(r))
                         /\ WF_imageVars(service = "images" /\ Reload(r))
  /\ WF_imageVars(service = "images" /\ ChatArrives)
  /\ \A c \in Coroutines : WF_serverVars(service = "servers" /\ RunsOn(c))
=============================================================================
