------------------------------- MODULE McpClient -------------------------------
(***************************************************************************)
(* The client's end of one tool server's pipe: McpServer in                *)
(* src/backend/runtimes/mcp/client.py.  Every request is made on a thread  *)
(* of its own, and they share the queue that one reader fills from the     *)
(* server's output.  The server answers in any order, late, twice, with an *)
(* error or not at all, says things nobody asked for, and may end.         *)
(***************************************************************************)
EXTENDS Naturals, Sequences

CONSTANTS
  Callers,      (* the threads that make requests                            *)
  MaxId,        (* bound on the requests made                                *)
  MaxNotes,     (* bound on the messages nobody waits for                    *)
  Endless,      (* whether the server goes on saying such things for ever    *)
  Nobody        (* who those are for                                         *)

ASSUME ClientAssumption ==
  MaxId \in Nat /\ MaxNotes \in Nat /\ Endless \in BOOLEAN /\ Nobody \notin Callers

VARIABLES
  up,           (* _process runs and has not been closed                     *)
  nextId,       (* _next_id                                                  *)
  asked,        (* the requests the server has and has not answered          *)
  replies,      (* _replies                                                  *)
  notes,        (* messages nobody waited for, so far                        *)
  era,          (* era: "none" until connected                               *)
  call          (* caller -> the request it is making, or how that ended     *)

clientVars == <<up, nextId, asked, replies, notes, era, call>>

Method == {"discover", "initialize", "tool"}
Quiet  == [at |-> "quiet"]
Request(c) == [id |-> call[c].id, of |-> c, method |-> call[c].method]

-----------------------------------------------------------------------------
(* The server.                                                              *)

Says(message) == replies' = Append(replies, message)

Note ==
  IF Endless THEN Len(replies) < MaxNotes /\ UNCHANGED notes
  ELSE notes < MaxNotes /\ notes' = notes + 1

(* -32022 is the error that says which versions the server has.             *)
Answers(q) ==
  /\ up
  /\ \E kind \in {"result", "error"} \cup (IF q.method = "discover" THEN {"versions"} ELSE {}) :
       Says([id |-> q.id, of |-> q, kind |-> kind])
  /\ \/ asked' = asked \ {q} /\ UNCHANGED notes
     \/ Note /\ UNCHANGED asked
  /\ UNCHANGED <<up, nextId, era, call>>

Notifies ==
  /\ up /\ Note
  /\ Says([id |-> 0, of |-> Nobody, kind |-> "result"])
  /\ UNCHANGED <<up, nextId, asked, era, call>>

(* It ends by itself or is closed by disconnect; what it said is still read. *)
Ends ==
  /\ up /\ up' = FALSE
  /\ UNCHANGED <<nextId, asked, replies, notes, era, call>>

-----------------------------------------------------------------------------
(* _request.                                                                *)

(* Mutant of FreshId: the counter is only moved by requests that succeed.   *)
IdOfEra == IF era = "none" THEN 1 ELSE nextId + 1
FreshId == nextId + 1

(* The pipe of a server that ended cannot be written.                       *)
Send(c, method) ==
  /\ nextId < MaxId
  /\ nextId' = nextId + 1
  /\ call' = [call EXCEPT ![c] = [at |-> IF up THEN "waiting" ELSE "broken",
                                  id |-> FreshId, method |-> method, got |-> Nobody]]
  /\ asked' = IF up THEN asked \cup {[id |-> FreshId, of |-> c, method |-> method]} ELSE asked

(* The next message, whoever takes it: another's is dropped.                *)
Takes(c) ==
  /\ call[c].at = "waiting" /\ replies # <<>>
  /\ replies' = Tail(replies)
  /\ call' = IF Head(replies).id = call[c].id
             THEN [call EXCEPT ![c].at = Head(replies).kind, ![c].got = Head(replies).of]
             ELSE call
  /\ UNCHANGED <<up, nextId, asked, notes, era>>

GivesUp(c) == replies = <<>>

(* Nothing at all came for as long as one message is waited for.            *)
TimesOut(c) ==
  /\ call[c].at = "waiting" /\ GivesUp(c)
  /\ call' = [call EXCEPT ![c].at = "timeout"]
  /\ UNCHANGED <<up, nextId, asked, replies, notes, era>>

-----------------------------------------------------------------------------
(* connect: one thread, before the connection is anyone else's.             *)

Discovers(c) ==
  /\ call[c] = Quiet /\ nextId = 0
  /\ Send(c, "discover")
  /\ UNCHANGED <<up, replies, notes, era>>

Done(c, spoken) ==
  /\ era' = spoken
  /\ call' = [call EXCEPT ![c] = Quiet]
  /\ UNCHANGED <<up, nextId, asked, replies, notes>>

(* A result, or an error with a version in common.                          *)
Modern(c) ==
  /\ call[c].at \in {"result", "versions"} /\ call[c].method = "discover"
  /\ Done(c, "modern")

(* Any other error, no version in common, silence: _handshake_legacy.       *)
FallsBack(c) ==
  /\ call[c].at \in {"error", "versions", "timeout"} /\ call[c].method = "discover"
  /\ Send(c, "initialize")
  /\ UNCHANGED <<up, replies, notes, era>>

(* Its last step, the notification, fails as any write does.                *)
Legacy(c) ==
  /\ call[c].at = "result" /\ call[c].method = "initialize"
  /\ Done(c, "legacy")

(* list_tools and call_tool.                                                *)
CallsTool(c) ==
  /\ call[c] = Quiet /\ era # "none"
  /\ Send(c, "tool")
  /\ UNCHANGED <<up, replies, notes, era>>

(* What cannot be gone on from is raised, and a tool's result is returned.  *)
Returns(c) ==
  /\ \/ call[c].at = "broken"
     \/ call[c].at \in {"result", "error", "timeout"} /\ call[c].method = "tool"
     \/ call[c].at \in {"error", "timeout"} /\ call[c].method = "initialize"
  /\ Done(c, era)

-----------------------------------------------------------------------------
ClientInit ==
  /\ up = TRUE /\ nextId = 0 /\ asked = {} /\ replies = <<>> /\ notes = 0
  /\ era = "none" /\ call = [c \in Callers |-> Quiet]

Waits(c) == Takes(c) \/ TimesOut(c)
Goes(c) == Modern(c) \/ FallsBack(c) \/ Legacy(c) \/ Returns(c)

ClientNext ==
  \/ Notifies \/ Ends
  \/ \E q \in asked : Answers(q)
  \/ \E c \in Callers : Discovers(c) \/ CallsTool(c) \/ Waits(c) \/ Goes(c)

(* A waiting thread is woken by a message or by its timeout.                *)
ClientFairness == \A c \in Callers : WF_clientVars(Waits(c)) /\ WF_clientVars(Goes(c))

ClientSpec == ClientInit /\ [][ClientNext]_clientVars /\ ClientFairness

-----------------------------------------------------------------------------
(* Properties.                                                              *)

(* "Handing a caller somebody else's payload is worse than waiting"         *)
(* (client.py, _request): what a caller is handed answers the request it is *)
(* making, and not an earlier one that it gave up on or another caller's,   *)
(* however late and however often the server answers.                       *)
AnswersAreOnesOwn ==
  \A c \in Callers :
    call[c] # Quiet /\ call[c].at \in {"result", "error", "versions"} =>
      call[c].got = Request(c)

(* A caller is not kept for ever by a server that is slow, that ends or     *)
(* that says other things, as long as it does not say them for ever.        *)
RequestsEnd == \A c \in Callers : call[c].at = "waiting" ~> call[c].at # "waiting"

(* A caller times out only on a request that was not answered: what one     *)
(* thread takes from the queue for another is not dropped.                  *)
AnswersReachTheirCaller ==
  [][\A c \in Callers :
       call[c].at = "waiting" /\ call'[c].at = "timeout" => Request(c) \in asked]_clientVars
=============================================================================
