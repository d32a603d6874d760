------------------------------ MODULE EgressGate ------------------------------
(***************************************************************************)
(* The egress gate with the person on the other end of it:                 *)
(*   core/egress/gate.py     EgressGate.check and the four ways to send    *)
(*   core/egress/confirm.py  the questions that park a request's thread    *)
(*   core/egress/aio.py, network/session.py   the async sessions           *)
(* over the policy of module EgressPolicy.  Each request runs on a thread  *)
(* of its own; the person answers questions and edits the policy from the  *)
(* interface's thread between any two of its steps; the process can stop   *)
(* at any of them.  Loopback requests return before any of this and are    *)
(* not modelled.  The log is the set of its rows: their order and the hash *)
(* chain are module EgressLog's.                                           *)
(***************************************************************************)
EXTENDS EgressPolicy, Naturals

CONSTANTS
  Requests,     (* each is one call into the gate                           *)
  Calls,        (* what a request may ask for                               *)
  Redirecting,  (* routes whose server may answer with a redirect           *)
  MaxHops       (* bound: redirects one request follows                     *)

Body   == {"none", "original", "edited"}
Method == {"GET", "POST"}
Cargo  == {"text", "image", "facts", "repo"}
Routes == {"request", "stream", "download", "async_get", "async_post", "governed"}

(* Routes that call check from the event loop's own thread.                 *)
OnLoop == {"async_get", "async_post", "governed"}

(* The class a call site gives its cargo: a body that carries images is     *)
(* IMAGE, a push is REPO, everything else PROMPT.                           *)
ClassOf(cargo) == CASE cargo = "image" -> "image"
                    [] cargo = "repo"  -> "repo"
                    [] OTHER           -> "prompt"

Call == [route : Routes, host : Hosts, method : Method, body : Body,
         cargo : Cargo, granted : BOOLEAN]

ASSUME GateAssumption ==
  /\ MaxHops \in Nat
  /\ Redirecting \subseteq Routes
  /\ Calls \subseteq Call
  /\ \A c \in Calls :
       /\ ClassOf(c.cargo) \in DataClass
       /\ c.body = "none" <=> c.method = "GET"
       /\ c.body # "edited"
       /\ c.route = "download" => c.method = "GET"
       /\ c.granted => c.route \notin {"stream", "download"}
       /\ c.route \in OnLoop => ClassOf(c.cargo) = "prompt"

(* The two conditions under which what leaves is what was logged: only a    *)
(* download is redirected, and nothing posts through GatedSession.          *)
CheckedRedirects == Redirecting \subseteq {"download"}
LoggedMethods    == \A c \in Calls : c.route # "async_post"

VARIABLES
  call,      (* request -> what it asks for, as edited and redirected       *)
  hop,       (* request -> redirects followed so far                        *)
  pc,        (* request -> where its thread is                              *)
  verdict,   (* request -> what the policy said when it was consulted       *)
  question,  (* request -> its entry in PendingConfirmations                *)
  log,       (* rows of the egress log                                      *)
  wire,      (* what has left the machine                                   *)
  lastWord,  (* history: the last answer accepted for the current question  *)
  saidYes    (* history: urls some accepted answer said yes to              *)

gateVars == <<call, hop, pc, verdict, question, log, wire, lastWord, saidYes>>
vars == <<policyVars, gateVars>>

Stages == {"new", "granting", "refusing", "asking", "waiting", "woken",
           "remembering", "allowing", "cancelling", "cleared", "sent",
           "refused", "raised", "lost"}
Ended  == {"sent", "refused", "raised", "lost"}

(* An entry of PendingConfirmations: in the map or not, its event, the      *)
(* answer written on it, and what event.wait returned to the thread.        *)
NoEdit     == "unchanged"
Question   == [listed : BOOLEAN, set : BOOLEAN, approved : BOOLEAN,
               edit : {NoEdit, "edited"}, answered : BOOLEAN]
NoQuestion == [listed |-> FALSE, set |-> FALSE, approved |-> FALSE,
               edit |-> NoEdit, answered |-> FALSE]

(* Every hop of every request is a url of its own. *)
Url(r)  == <<r, hop[r]>>
Host(r) == call[r].host
Class(r) == ClassOf(call[r].cargo)

(* What check was asked about and what _record writes down.                 *)
Asked(r) == [url |-> Url(r), host |-> call[r].host, method |-> call[r].method,
             body |-> call[r].body, cargo |-> call[r].cargo,
             granted |-> call[r].granted]

Entry(r, decision) == [of |-> Asked(r), decision |-> decision]
Allowed == {e.of : e \in {x \in log : x.decision = "allowed"}}

Goto(r, stage) == pc' = [pc EXCEPT ![r] = stage]

-----------------------------------------------------------------------------
(* EgressGate.check *)

(* Mutant of Permits: a grant that forgets to look at the body.             *)
PermitsAnyBody(r) == call[r].granted

(* SearchReadGrant.permits *)
Permits(r) ==
  call[r].granted /\ call[r].method = "GET" /\ call[r].body = "none"

(* policy.decide, and the branch check takes on it.  The grant is           *)
(* considered only for a refusal of PROMPT.                                 *)
Consult(r) ==
  /\ pc[r] = "new"
  /\ LET v == Decide(Host(r), Class(r)) IN
       /\ verdict' = [verdict EXCEPT ![r] = v]
       /\ Goto(r, CASE v.mode = "allow" -> "allowing"
                    [] v.mode = "ask"   -> "asking"
                    [] v.mode = "deny"  ->
                         IF call[r].granted /\ Class(r) = "prompt"
                         THEN "granting" ELSE "refusing")
  /\ UNCHANGED <<policyVars, call, hop, question, log, wire, lastWord, saidYes>>

(* The rest of the grant's conditions, read again after decide returned:    *)
(* the kill switch and whether the person has an opinion of the host.       *)
ConsiderGrant(r) ==
  /\ pc[r] = "granting"
  /\ Goto(r, IF ~killSwitch /\ ~HasRule(Host(r), "prompt") /\ Permits(r)
             THEN "allowing" ELSE "refusing")
  /\ UNCHANGED <<policyVars, call, hop, verdict, question, log, wire,
                 lastWord, saidYes>>

(* _record and then raise or return: the row is in the log before the       *)
(* caller can send.  The log can fail, and then check raises instead.       *)
Record(r, from, decision, to) ==
  /\ pc[r] = from
  /\ \/ /\ log' = log \cup {Entry(r, decision)}
        /\ Goto(r, to)
     \/ /\ "log" \in Faults
        /\ Goto(r, "raised")
        /\ UNCHANGED log
  /\ UNCHANGED <<policyVars, call, hop, verdict, question, wire, lastWord, saidYes>>

(* Mutant of RecordDenied: the refusal is logged and not raised.            *)
RecordDeniedOnly(r) == Record(r, "refusing", "denied", "cleared")

RecordDenied(r)    == Record(r, "refusing", "denied", "refused")
RecordCancelled(r) == Record(r, "cancelling", "cancelled", "refused")
RecordAllowed(r)   == Record(r, "allowing", "allowed", "cleared")

(* The yes to a first-of-its-class question is kept before it is logged.    *)
(* policy.set saves, and check raises if the save does.                     *)
Remember(r) ==
  /\ pc[r] = "remembering"
  /\ LET newRules == RulesWith(Host(r), "allow", Class(r))
         newClassRules == ClassRulesWith(Host(r), "allow", Class(r))
     IN \/ /\ SaveDone(newRules, newClassRules, classDefaults, killSwitch)
           /\ Goto(r, "allowing")
        \/ /\ SaveFailed(newRules, newClassRules, classDefaults, killSwitch)
           /\ Goto(r, "raised")
  /\ UNCHANGED <<chosen, call, hop, verdict, question, log, wire, lastWord, saidYes>>

-----------------------------------------------------------------------------
(* PendingConfirmations *)

(* ask, as far as the wait.  On the event loop's thread it refuses at once: *)
(* nobody could answer.                                                     *)
Ask(r) ==
  /\ pc[r] = "asking"
  /\ IF call[r].route \in OnLoop
     THEN Goto(r, "cancelling") /\ UNCHANGED question
     ELSE /\ question' = [question EXCEPT ![r] = [NoQuestion EXCEPT !.listed = TRUE]]
          /\ Goto(r, "waiting")
  /\ lastWord' = [lastWord EXCEPT ![r] = "none"]
  /\ UNCHANGED <<policyVars, call, hop, verdict, log, wire, saidYes>>

(* Mutant of WaitReturns: the wait has no timeout.                          *)
WaitReturnsAnswered(r) ==
  /\ pc[r] = "waiting"
  /\ question[r].set
  /\ question' = [question EXCEPT ![r].answered = TRUE]
  /\ Goto(r, "woken")
  /\ UNCHANGED <<policyVars, call, hop, verdict, log, wire, lastWord, saidYes>>

(* event.wait returns: TRUE because the event is set, or FALSE after the    *)
(* timeout.  The entry is still in the map until the thread takes it out.   *)
WaitReturns(r) ==
  /\ pc[r] = "waiting"
  /\ question' = [question EXCEPT ![r].answered = question[r].set]
  /\ Goto(r, "woken")
  /\ UNCHANGED <<policyVars, call, hop, verdict, log, wire, lastWord, saidYes>>

(* Mutants of Consented: an unanswered question counts as a yes; a no that  *)
(* follows a yes is not looked at.                                          *)
ConsentedUnlessNo(q)   == ~q.answered \/ q.approved
Consented(q)           == q.answered /\ q.approved

AsEdited(body, q) == IF q.edit = NoEdit THEN body ELSE q.edit

(* The rest of ask, under the store's lock: take the entry out, read the    *)
(* answer on it and write the edited body back onto the request.            *)
Collect(r) ==
  /\ pc[r] = "woken"
  /\ question' = [question EXCEPT ![r].listed = FALSE]
  /\ IF Consented(question[r])
     THEN /\ call' = [call EXCEPT ![r].body = AsEdited(call[r].body, question[r])]
          /\ Goto(r, IF verdict[r].remember THEN "remembering" ELSE "allowing")
     ELSE Goto(r, "cancelling") /\ UNCHANGED call
  /\ UNCHANGED <<policyVars, hop, verdict, log, wire, lastWord, saidYes>>

(* decide, from the interface: it answers whatever is still in the map.     *)
(* The dialog edits a body that is there to edit.                           *)
Answer(r, yes, edit) ==
  /\ question[r].listed
  /\ edit # NoEdit => yes /\ call[r].body # "none"
  /\ question' = [question EXCEPT ![r].approved = yes, ![r].edit = edit,
                                  ![r].set = TRUE]
  /\ lastWord' = [lastWord EXCEPT ![r] =
       IF ~yes THEN "no" ELSE IF edit = NoEdit THEN "yes" ELSE "edit"]
  /\ saidYes' = IF yes THEN saidYes \cup {Url(r)} ELSE saidYes
  /\ chosen' = IF yes /\ verdict[r].remember
               THEN [chosen EXCEPT !.allowed = @ \cup {<<Host(r), Class(r)>>}]
               ELSE chosen
  /\ UNCHANGED <<rules, classRules, classDefaults, killSwitch, disk, trusted,
                 failedLoad, call, hop, pc, verdict, log, wire>>

(* cancel_all, the first thing shutdown does. *)
CancelAll ==
  LET waiting == {r \in Requests : question[r].listed} IN
  /\ waiting # {}
  /\ question' = [r \in Requests |->
       IF r \in waiting
       THEN [question[r] EXCEPT !.approved = FALSE, !.set = TRUE, !.listed = FALSE]
       ELSE question[r]]
  /\ lastWord' = [r \in Requests |-> IF r \in waiting THEN "no" ELSE lastWord[r]]
  /\ UNCHANGED <<policyVars, call, hop, pc, verdict, log, wire, saidYes>>

-----------------------------------------------------------------------------
(* Sending *)

(* What the route puts on the wire once check has returned.  GatedSession's *)
(* post reaches aiohttp as a get: _Ctx looks for a "_method" that post      *)
(* never sets.                                                              *)
OnWire(r) ==
  IF call[r].route = "async_post" THEN [Asked(r) EXCEPT !.method = "GET"]
  ELSE Asked(r)

(* Mutant of Send: the bytes go out, and then are logged.                   *)
SendUnlogged(r) ==
  /\ pc[r] \in {"allowing", "cleared"}
  /\ wire' = wire \cup {OnWire(r)}
  /\ Goto(r, "sent")
  /\ UNCHANGED <<policyVars, call, hop, verdict, question, log, lastWord, saidYes>>

Send(r) ==
  /\ pc[r] = "cleared"
  /\ wire' = wire \cup {OnWire(r)}
  /\ Goto(r, "sent")
  /\ UNCHANGED <<policyVars, call, hop, verdict, question, log, lastWord, saidYes>>

(* The server answers with a redirect to h.  download_to_file puts every    *)
(* hop through check; urlopen and aiohttp follow it themselves.             *)
Redirected(r, h) ==
  /\ pc[r] = "sent"
  /\ call[r].route \in Redirecting
  /\ hop[r] < MaxHops
  /\ hop' = [hop EXCEPT ![r] = @ + 1]
  /\ call' = [call EXCEPT ![r].host = h, ![r].method = "GET", ![r].body = "none"]
  /\ IF call[r].route = "download"
     THEN Goto(r, "new") /\ UNCHANGED wire
     ELSE wire' = wire \cup {Asked(r)'} /\ UNCHANGED pc
  /\ UNCHANGED <<policyVars, verdict, question, log, lastWord, saidYes>>

-----------------------------------------------------------------------------
(* The process stops and starts again: every thread and every question is   *)
(* gone, the policy is read from its file, the log is as it was.            *)
Restart ==
  /\ Load
  /\ pc' = [r \in Requests |-> IF pc[r] = "new" /\ hop[r] = 0 THEN "new" ELSE "lost"]
  /\ question' = [r \in Requests |-> NoQuestion]
  /\ lastWord' = [r \in Requests |-> "none"]
  /\ UNCHANGED <<call, hop, verdict, log, wire, saidYes>>

Init ==
  /\ PolicyInit
  /\ call \in [Requests -> Calls]
  /\ hop = [r \in Requests |-> 0]
  /\ pc = [r \in Requests |-> "new"]
  /\ verdict = [r \in Requests |-> Verdict("deny")]
  /\ question = [r \in Requests |-> NoQuestion]
  /\ log = {}
  /\ wire = {}
  /\ lastWord = [r \in Requests |-> "none"]
  /\ saidYes = {}

(* The steps a request's own thread takes. *)
Thread(r) ==
  \/ Consult(r) \/ ConsiderGrant(r)
  \/ RecordDenied(r) \/ RecordCancelled(r) \/ RecordAllowed(r)
  \/ Ask(r) \/ WaitReturns(r) \/ Collect(r) \/ Remember(r)
  \/ Send(r)

(* The interface's thread. *)
Person ==
  \/ PersonEdits /\ UNCHANGED gateVars
  \/ \E r \in Requests, yes \in BOOLEAN, edit \in {NoEdit, "edited"} :
       Answer(r, yes, edit)

World ==
  \/ \E r \in Requests, h \in Hosts : Redirected(r, h)
  \/ \E part \in Damage \ {"none"} : DamageFile(part) /\ UNCHANGED gateVars
  \/ CancelAll
  \/ Restart

Next == (\E r \in Requests : Thread(r)) \/ Person \/ World

Spec == Init /\ [][Next]_vars

(* A thread that can run does, and event.wait ends by answer or timeout;    *)
(* nothing obliges the person, the servers or the machine.                  *)
FairSpec == Spec /\ \A r \in Requests : WF_vars(Thread(r))

-----------------------------------------------------------------------------
(* Properties. *)

Content == [url : Requests \X Nat, host : Hosts, method : Method, body : Body,
            cargo : Cargo, granted : BOOLEAN]

GateTypeOK ==
  /\ call \in [Requests -> Call]
  /\ hop \in [Requests -> Nat]
  /\ pc \in [Requests -> Stages]
  /\ verdict \in [Requests -> [mode : Mode, remember : BOOLEAN]]
  /\ question \in [Requests -> Question]
  /\ log \subseteq [of : Content, decision : {"allowed", "denied", "cancelled"}]
  /\ wire \subseteq Content
  /\ lastWord \in [Requests -> {"none", "yes", "no", "edit"}]
  /\ saidYes \subseteq Requests \X Nat

TypeOK == PolicyTypeOK /\ GateTypeOK

(* Everything that left is in the log as allowed, with the host, method and *)
(* body that left: logged before the send, edits and redirects included.    *)
WireIsOnRecord == wire \subseteq Allowed

(* Nothing leaves on a class the person has not allowed to that host, was   *)
(* not asked about and said yes to, or did not hand over as a page to read. *)
NothingLeavesUndecided ==
  \A m \in wire :
    \/ <<m.host, ClassOf(m.cargo)>> \in chosen.allowed
    \/ m.url \in saidYes
    \/ m.granted /\ m.method = "GET" /\ m.body = "none" /\ ClassOf(m.cargo) = "prompt"

(* A request that had to be asked about proceeds only if the last answer    *)
(* the interface was told it gave was a yes, and with the body that answer  *)
(* approved: silence, a shutdown and a change of mind all count as no.      *)
TheLastWordWins ==
  \A r \in Requests :
    pc[r] \in {"remembering", "allowing", "cleared"} /\ verdict[r].mode = "ask" =>
      /\ lastWord[r] \in {"yes", "edit"}
      /\ lastWord[r] = "edit" <=> call[r].body = "edited"

(* A refused hop never leaves: no url is in the log as refused and on the   *)
(* wire.                                                                    *)
RefusedNeverLeaves ==
  \A e \in log : e.decision # "allowed" => \A m \in wire : m.url # e.of.url

(* The gate implements its promise: the allowed rows of the log are the     *)
(* promise's record and the wire is what left.                              *)
Promise == INSTANCE EgressPromise WITH recorded <- Allowed, left <- wire
KeepsPromise == Promise!Spec

(* No request waits for ever, answered or not, whatever else happens.       *)
EveryRequestEnds == \A r \in Requests : pc[r] = "asking" ~> pc[r] \in Ended

(* What the code's comments say and the runs refute. *)

(* "The kill switch is on, so nothing may leave this device"                *)
(* (policy.py:197); "cut, or restore, all outbound traffic in one action"   *)
(* (main.py:2919).                                                          *)
SealedMeansSealed == [][killSwitch => wire' = wire]_vars

(* "One decision per request, and it cannot be re-answered" (confirm.py:28) *)
AnsweredOnce ==
  [][\A r \in Requests :
       question[r].listed /\ question[r].set =>
         /\ question'[r].approved = question[r].approved
         /\ question'[r].edit = question[r].edit]_vars

(* forget(host) must not leave "a permission outliving the decision that    *)
(* created it" that is "invisible, because the privacy pane lists the host  *)
(* rule" (policy.py:555): a remembered yes is written only while its host   *)
(* still has the rule it was asked under.                                   *)
RememberedUnderAHostRule ==
  [][\A r \in Requests : Remember(r) => rules[Host(r)] # NoRule]_vars

(* "The first time facts recalled from the Spine go to a destination that   *)
(* has not had them before" is a hard stop of its own (policy.py:79).       *)
FactsAreAskedFirst ==
  \A m \in wire : m.cargo = "facts" =>
    <<m.host, "spine">> \in chosen.allowed \/ m.url \in saidYes

=============================================================================
