----------------------------- MODULE Services_proofs -----------------------------
(***************************************************************************)
(* The components that module MCServices checks side by side, each for any *)
(* values of its constants.  The updater: only a newer installer, whole as *)
(* its own release's checksum says, is what the host quits to run.  The    *)
(* task queue: nothing is attempted before what it depends on, and an end  *)
(* is final.  A tool server's client: a caller is handed the answer to its *)
(* own request.  Paired clients: one revoked stays out, and a code pairs   *)
(* one.  Pictures: some request is under way that will give the card back. *)
(* Model servers: one is alive at a time, where a server answers within    *)
(* the relaunch guard and the backend is not started again.                *)
(***************************************************************************)
EXTENDS Updates, TaskQueue, McpClient, PairedClients, ImagesRuntime, ModelServers,
        SequenceTheorems, FiniteSetTheorems, TLAPS

-----------------------------------------------------------------------------
(* The updater.                                                            *)

(* What a route remembers over its steps is still what it was when the      *)
(* route is done: an answer to the host is of a release newer than the      *)
(* build, which changes only when every route has ended.                    *)
OffersInv ==
  /\ DOMAIN thread = Threads
  /\ \A t \in Threads : thread[t].at = "asked" => thread[t].of > current

-----------------------------------------------------------------------------
(* Where a route goes next is a status or an offer.                         *)
NextInv ==
  \A t \in Threads : thread[t].at \in {"look", "sweep", "forget"} => thread[t].next \in {"status", "offer"}

(* What the routes keep, whichever of them are under way.            *)
RoutesInv == OffersInv /\ NextInv

LEMMA RouteStepKeeps ==
  ASSUME RoutesInv, [UpdatesNext]_updateVars
  PROVE  RoutesInv'
<1> USE DEF RoutesInv, OffersInv, NextInv
<1>1. CASE UNCHANGED updateVars
  BY <1>1 DEF updateVars
<1>2. CASE Rots \/ FetchStep \/ (\E r \in Release : Publish(r)) \/ (\E on \in BOOLEAN : SetChecks(on))
  BY <1>2 DEF Rots, FetchStep, Sums, Bytes, Replace, Recorded, Fails, Publish, SetChecks
<1>3. ASSUME NEW r \in Release \cup {Nothing}, Relaunch(r) PROVE RoutesInv'
  BY <1>3 DEF Relaunch
<1>4. ASSUME NEW t \in Threads, NEW force \in BOOLEAN, Check(t, force) PROVE RoutesInv'
  BY <1>4 DEF Check
<1>5. ASSUME NEW t \in Threads, NEW next \in {"status", "offer"}, Asks(t, next) PROVE RoutesInv'
  BY <1>5 DEF Asks, LooksAround
<1>6. ASSUME NEW t \in Threads, Download(t) PROVE RoutesInv'
  BY <1>6 DEF Download, LooksAround
<1>7. ASSUME NEW t \in Threads, Listed(t) \/ ListFails(t) PROVE RoutesInv'
  BY <1>7 DEF Listed, ListFails, LooksAround
<1>8. ASSUME NEW t \in Threads, Tidy(t) PROVE RoutesInv'
  BY <1>8 DEF Tidy
<1>9. ASSUME NEW t \in Threads, Sweep(t) PROVE RoutesInv'
  BY <1>9 DEF Sweep
<1>10. ASSUME NEW t \in Threads, ForgetRecord(t) \/ Status(t) \/ Install(t) PROVE RoutesInv'
  BY <1>10 DEF ForgetRecord, Status, Install
<1>11. ASSUME NEW t \in Threads, Offer(t) PROVE RoutesInv'
  BY <1>11 DEF Offer, Offerable, Newer
<1>12. QED
  BY <1>1, <1>2, <1>3, <1>4, <1>5, <1>6, <1>7, <1>8, <1>9, <1>10, <1>11 DEF UpdatesNext, Route

(* Every answer a route carries to the host is of a release newer than the  *)
(* build that gave it (updates.py, pending).                                *)
THEOREM RoutesInvariant == UpdatesSpec => []RoutesInv
<1>1. UpdatesInit => RoutesInv
  BY DEF UpdatesInit, RoutesInv, OffersInv, NextInv
<1>2. RoutesInv /\ [UpdatesNext]_updateVars => RoutesInv'
  BY RouteStepKeeps
<1>3. QED
  BY <1>1, <1>2, PTL DEF UpdatesSpec

-----------------------------------------------------------------------------
(* The step the host takes: it quits to run what it has just hashed again.  *)
RunsWhole ==
  installing' # installing /\ installing' # Nothing
    => file = Whole(installing') /\ installing' > current

LEMMA InstallRunsWhole ==
  ASSUME RoutesInv, NEW t \in Threads, Install(t)
  PROVE  RunsWhole
BY DEF RoutesInv, OffersInv, Install, Matches, RunsWhole

LEMMA StepRunsWhole ==
  ASSUME RoutesInv, [UpdatesNext]_updateVars
  PROVE  RunsWhole
<1>1. CASE UNCHANGED updateVars
  BY <1>1 DEF updateVars, RunsWhole
<1>2. CASE Rots \/ FetchStep \/ (\E r \in Release : Publish(r)) \/ (\E on \in BOOLEAN : SetChecks(on))
  BY <1>2 DEF Rots, FetchStep, Sums, Bytes, Replace, Recorded, Fails, Publish, SetChecks, RunsWhole
<1>3. ASSUME NEW r \in Release \cup {Nothing}, Relaunch(r) PROVE RunsWhole
  BY <1>3 DEF Relaunch, RunsWhole
<1>4. ASSUME NEW t \in Threads, Install(t) PROVE RunsWhole
  BY <1>4, InstallRunsWhole
<1>5. ASSUME NEW t \in Threads,
             \/ Listed(t) \/ ListFails(t) \/ Tidy(t) \/ Sweep(t) \/ ForgetRecord(t)
             \/ Status(t) \/ Offer(t) \/ Download(t)
             \/ \E force \in BOOLEAN : Check(t, force)
             \/ \E next \in {"status", "offer"} : Asks(t, next)
      PROVE  UNCHANGED installing
  BY <1>5 DEF Listed, ListFails, Tidy, Sweep, ForgetRecord, Status, Offer, Download, Check, Asks
<1>6. QED
  BY <1>1, <1>2, <1>3, <1>4, <1>5 DEF UpdatesNext, Route, RunsWhole

(* What the host quits to run is the installer of a newer release, whole as *)
(* that release's checksum says, over any downloads, sweeps, damage and     *)
(* relaunches (updates.py, pending; updateInstaller.js, install).           *)
THEOREM OnlyNewerIsRun == UpdatesSpec => OnlyNewerAndWhole
<1>1. RoutesInv /\ [UpdatesNext]_updateVars => [RunsWhole]_updateVars
  BY StepRunsWhole
<1>2. QED
  BY <1>1, RoutesInvariant, PTL DEF UpdatesSpec, OnlyNewerAndWhole, RunsWhole

-----------------------------------------------------------------------------
(* The task queue.                                                         *)

Statuses == Ended \cup {"unknown", "pending", "running", "retrying"}

(* What was taken from the heap had its dependencies completed, and keeps   *)
(* them so, since an end is final.                                          *)
TakenInv == \A t \in Tasks : status[t] \in {"running", "retrying"} => Ready(t)

QueueInv ==
  /\ status \in [Tasks -> Statuses]
  /\ heap \subseteq {t \in Tasks : status[t] = "pending"}
  /\ TakenInv

(* What a step may do to a task.                                            *)
Advances(t) ==
  /\ status[t] \in Ended => status'[t] = status[t]
  /\ status'[t] \in {"running", "retrying"} => Ready(t)

LEMMA DependenciesAreTasks == ASSUME NEW t \in Tasks PROVE DependsOn[t] \subseteq Tasks
BY QueueAssumption

(* Where every task moves as it may, what was taken stays ready.            *)
LEMMA AdvancesKeepTaken ==
  ASSUME \A t \in Tasks : Advances(t)
  PROVE  TakenInv'
BY DependenciesAreTasks DEF Advances, TakenInv, Ready, Ended

(* A worker's step changes one task's status, if any.                       *)
LEMMA OneAdvances ==
  ASSUME QueueInv, NEW t \in Tasks, NEW s \in Statuses,
         status' = [status EXCEPT ![t] = s], heap' \subseteq heap \ {t},
         status[t] \notin Ended, s \in {"running", "retrying"} => Ready(t)
  PROVE  QueueInv' /\ \A u \in Tasks : Advances(u)
<1>1. \A u \in Tasks : status'[u] = IF u = t THEN s ELSE status[u]
  BY DEF QueueInv
<1>2. \A u \in Tasks : Advances(u)
  BY <1>1 DEF Advances, QueueInv, TakenInv, Ended
<1>3. status' \in [Tasks -> Statuses]
  BY DEF QueueInv
<1>4. heap' \subseteq {u \in Tasks : status'[u] = "pending"}
  BY <1>1 DEF QueueInv
<1>5. QED
  BY <1>2, <1>3, <1>4, AdvancesKeepTaken DEF QueueInv

LEMMA StepAdvances ==
  ASSUME QueueInv, [QueueNext]_queueVars
  PROVE  QueueInv' /\ \A t \in Tasks : Advances(t)
<1>1. CASE UNCHANGED <<heap, status>>
  BY <1>1 DEF QueueInv, TakenInv, Advances, Ready
<1>2. ASSUME NEW p, Schedule(p) PROVE QueueInv' /\ \A t \in Tasks : Advances(t)
  <2>1. Plan(p) \subseteq Tasks /\ \A t \in Plan(p) : status[t] = "unknown"
    BY <1>2 DEF Schedule, Plan
  <2>2. status' = [t \in Tasks |-> IF t \in Plan(p) THEN "pending" ELSE status[t]]
    BY <1>2 DEF Schedule
  <2>3. \A t \in Tasks : Advances(t)
    BY <2>1, <2>2 DEF Advances, QueueInv, TakenInv, Ended
  <2>4. status' \in [Tasks -> Statuses]
    BY <2>2 DEF QueueInv, Statuses
  <2>5. heap' \subseteq {t \in Tasks : status'[t] = "pending"}
    BY <1>2, <2>1, <2>2 DEF Schedule, QueueInv
  <2>6. QED
    BY <2>3, <2>4, <2>5, AdvancesKeepTaken DEF QueueInv
<1>3. CASE Stop
  <2> DEFINE cut == {t \in Tasks : status[t] = "running" /\ \E w \in Workers : worker[w] = t}
  <2>1. status' = [t \in Tasks |-> IF t \in cut THEN "failed" ELSE status[t]] /\ heap' = heap
    BY <1>3 DEF Stop
  <2>2. \A t \in Tasks : Advances(t)
    BY <2>1 DEF Advances, QueueInv, TakenInv, Ended
  <2>3. status' \in [Tasks -> Statuses]
    BY <2>1 DEF QueueInv, Statuses, Ended
  <2>4. heap' \subseteq {t \in Tasks : status'[t] = "pending"}
    BY <2>1 DEF QueueInv
  <2>5. QED
    BY <2>2, <2>3, <2>4, AdvancesKeepTaken DEF QueueInv
<1>4. ASSUME NEW w \in Workers, NEW t \in Tasks, Take(w, t)
      PROVE  QueueInv' /\ \A u \in Tasks : Advances(u)
  <2>1. heap' = heap \ {t} /\ status[t] = "pending" /\ Ready(t)
    BY <1>4 DEF Take, Foremost, QueueInv
  <2>2. \E s \in {"running", "cancelled"} : status' = [status EXCEPT ![t] = s]
    BY <1>4 DEF Take, End
  <2>3. PICK s \in {"running", "cancelled"} : status' = [status EXCEPT ![t] = s]
    BY <2>2
  <2>4. s \in Statuses /\ heap' \subseteq heap \ {t} /\ status[t] \notin Ended
    BY <2>1 DEF Statuses, Ended
  <2>5. QED
    BY <2>1, <2>3, <2>4, OneAdvances
<1>5. ASSUME NEW w \in Workers, NEW t \in Tasks,
             \/ Completes(w, t) \/ GivesWay(w, t) \/ TriesAgain(w, t)
             \/ \E retryable \in BOOLEAN : Raises(w, t, retryable)
      PROVE  QueueInv' /\ \A u \in Tasks : Advances(u)
  <2>1. status[t] \in {"running", "retrying"} /\ heap' = heap
    BY <1>5 DEF Completes, GivesWay, TriesAgain, Raises, Running
  <2>2. Ready(t) /\ t \notin heap
    BY <2>1 DEF QueueInv, TakenInv
  <2>3. \E s \in Statuses : status' = [status EXCEPT ![t] = s]
    BY <1>5 DEF Completes, GivesWay, TriesAgain, Raises, End, Statuses, Ended
  <2>4. PICK s \in Statuses : status' = [status EXCEPT ![t] = s]
    BY <2>3
  <2>5. heap' \subseteq heap \ {t} /\ status[t] \notin Ended
    BY <2>1, <2>2 DEF Ended
  <2>6. QED
    BY <2>2, <2>4, <2>5, OneAdvances
<1>6. QED
  BY <1>1, <1>2, <1>3, <1>4, <1>5
     DEF QueueNext, Manages, Work, Cancel, CancelPlan, Begin, queueVars

(* What is in the heap is pending, and what was taken from it was ready.    *)
THEOREM QueueInvariant == QueueSpec => []QueueInv
<1>1. QueueInit => QueueInv
  BY DEF QueueInit, QueueInv, TakenInv, Statuses
<1>2. QueueInv /\ [QueueNext]_queueVars => QueueInv'
  BY StepAdvances
<1>3. QED
  BY <1>1, <1>2, PTL DEF QueueSpec

(* However plans are retried, cancelled or cut off, nothing is attempted    *)
(* before what it depends on has completed, and nothing ends twice          *)
(* (task_queue.py, _pop and _execute).                                      *)
THEOREM DependenciesGoFirst == QueueSpec => DependenciesFirst
<1> DEFINE InOrder == \A t \in Tasks :
                        /\ status[t] \in Ended => status'[t] = status[t]
                        /\ status'[t] = "running" => \A d \in DependsOn[t] : status[d] = "completed"
<1>1. QueueInv /\ [QueueNext]_queueVars => [InOrder]_queueVars
  BY StepAdvances DEF Advances, Ready
<1>2. QED
  BY <1>1, QueueInvariant, PTL DEF QueueSpec, DependenciesFirst

-----------------------------------------------------------------------------
(* A tool server's client.  What is on its way under a number is what was   *)
(* asked under that number, whatever the server says, late and twice.       *)

At   == {"waiting", "broken", "timeout", "result", "error", "versions"}
AskedFor == [id : Nat, of : Callers, method : Method]
Message == [id : Nat, of : AskedFor \cup {Nobody}, kind : {"result", "error", "versions"}]
Making == [at : At, id : Nat, method : Method, got : AskedFor \cup {Nobody}]

ClientShape ==
  /\ nextId \in Nat /\ asked \subseteq AskedFor /\ replies \in Seq(Message)
  /\ call \in [Callers -> {Quiet} \cup Making]

(* Numbers are given out upwards, so a fresh one is nobody's.               *)
NumbersInv ==
  /\ \A q \in asked : q.id <= nextId
  /\ \A i \in 1..Len(replies) : replies[i].id <= nextId
  /\ \A c \in Callers : call[c] \in Making => 0 < call[c].id /\ call[c].id <= nextId

(* What is asked or answered under the number of a request under way is     *)
(* that request.                                                            *)
MatchInv ==
  \A c \in Callers : call[c] \in Making =>
    /\ \A q \in asked : q.id = call[c].id => q = Request(c)
    /\ \A i \in 1..Len(replies) : replies[i].id = call[c].id => replies[i].of = Request(c)

OwnInv ==
  \A c \in Callers :
    call[c] \in Making /\ call[c].at \in {"result", "error", "versions"} =>
      call[c].got = Request(c)

ClientInv == ClientShape /\ NumbersInv /\ MatchInv /\ OwnInv

LEMMA QuietIsNotMaking == Quiet \notin Making
BY DEF Quiet, Making, At

(* A request is made under a number that is nobody's.                       *)
LEMMA SendKeeps ==
  ASSUME ClientInv, NEW c \in Callers, NEW method \in Method, Send(c, method), UNCHANGED replies
  PROVE  ClientInv'
<1> DEFINE new == [at |-> IF up THEN "waiting" ELSE "broken", id |-> nextId + 1,
                   method |-> method, got |-> Nobody]
<1> DEFINE ask == [id |-> nextId + 1, of |-> c, method |-> method]
<1>1. /\ nextId' = nextId + 1 /\ nextId' \in Nat /\ replies' = replies
      /\ call' = [call EXCEPT ![c] = new] /\ new \in Making /\ ask \in AskedFor
      /\ asked' = asked \cup {ask} \/ asked' = asked
  BY DEF Send, FreshId, ClientInv, ClientShape, Making, At, AskedFor
<1>2. call'[c] = new /\ \A d \in Callers \ {c} : call'[d] = call[d]
  BY <1>1 DEF ClientInv, ClientShape
<1>3. ClientShape'
  BY <1>1 DEF ClientInv, ClientShape
<1>4. \A q \in asked : q.id \in Nat /\ q.id <= nextId
  BY DEF ClientInv, ClientShape, NumbersInv, AskedFor
<1>5. \A i \in 1..Len(replies) : replies[i].id \in Nat /\ replies[i].id <= nextId
  <2> TAKE i \in 1..Len(replies)
  <2>1. replies[i] \in Message
    BY DEF ClientInv, ClientShape
  <2>2. QED
    BY <2>1 DEF ClientInv, NumbersInv, Message
<1>6. \A d \in Callers : call[d] \in Making => call[d].id \in Nat
  BY DEF Making
<1>7. NumbersInv'
  BY <1>1, <1>2, <1>4, <1>5, <1>6 DEF ClientInv, ClientShape, NumbersInv
<1>8. MatchInv'
  <2> SUFFICES ASSUME NEW d \in Callers, call'[d] \in Making
               PROVE  /\ \A q \in asked' : q.id = call'[d].id => q = Request(d)'
                      /\ \A i \in 1..Len(replies') :
                            replies'[i].id = call'[d].id => replies'[i].of = Request(d)'
    BY DEF MatchInv
  <2>1. CASE d = c
    <3>1. call'[d].id = nextId + 1 /\ Request(d)' = ask
      BY <2>1, <1>2 DEF Request
    <3>2. QED
      BY <3>1, <1>1, <1>4, <1>5 DEF ClientInv, ClientShape
  <2>2. CASE d # c
    <3>1. call'[d] = call[d] /\ Request(d)' = Request(d) /\ call[d].id <= nextId /\ call[d].id \in Nat
      BY <2>2, <1>2, <1>6 DEF Request, ClientInv, NumbersInv
    <3>2. QED
      BY <3>1, <1>1 DEF ClientInv, ClientShape, MatchInv
  <2>3. QED
    BY <2>1, <2>2
<1>9. OwnInv'
  BY <1>1, <1>2 DEF ClientInv, OwnInv, Request
<1>10. QED
  BY <1>3, <1>7, <1>8, <1>9 DEF ClientInv

(* Something more is said, under a number that was given out and of what    *)
(* was asked under it, or to nobody.                                        *)
LEMMA SaysKeeps ==
  ASSUME ClientInv, NEW m \in Message, Says(m), asked' \subseteq asked, UNCHANGED <<nextId, call>>,
         m.id <= nextId,
         m.id = 0 \/ (m.of \in asked /\ m.id = m.of.id)
  PROVE  ClientInv'
<1>1. replies \in Seq(Message) /\ replies' = Append(replies, m)
  BY DEF ClientInv, ClientShape, Says
<1>2. /\ replies' \in Seq(Message) /\ Len(replies') = Len(replies) + 1
      /\ \A i \in 1..Len(replies') : replies'[i] = IF i <= Len(replies) THEN replies[i] ELSE m
  BY <1>1
<1>3. ClientShape'
  BY <1>2 DEF ClientInv, ClientShape
<1>4. Len(replies) \in Nat
  BY <1>1
<1>5. NumbersInv'
  BY <1>2, <1>4 DEF ClientInv, NumbersInv
<1>6. MatchInv'
  <2> SUFFICES ASSUME NEW c \in Callers, call[c] \in Making
               PROVE  /\ \A q \in asked' : q.id = call[c].id => q = Request(c)
                      /\ \A i \in 1..Len(replies') :
                            replies'[i].id = call[c].id => replies'[i].of = Request(c)
    BY DEF MatchInv, Request
  <2>1. 0 < call[c].id
    BY DEF ClientInv, NumbersInv
  <2>2. m.id = call[c].id => m.of = Request(c)
    BY <2>1 DEF ClientInv, MatchInv
  <2>3. QED
    BY <2>2, <1>2, <1>4 DEF ClientInv, MatchInv
<1>7. OwnInv'
  BY DEF ClientInv, OwnInv, Request
<1>8. QED
  BY <1>3, <1>5, <1>6, <1>7 DEF ClientInv

(* A message is taken, and handed over only under the taker's own number.   *)
LEMMA TakesKeeps ==
  ASSUME ClientInv, NEW c \in Callers, Takes(c)
  PROVE  ClientInv'
<1>1. /\ call[c] \in Making /\ call[c].at = "waiting" /\ replies # <<>> /\ replies \in Seq(Message)
      /\ UNCHANGED <<nextId, asked>>
  BY DEF Takes, ClientInv, ClientShape, Quiet
<1>2. /\ replies' \in Seq(Message) /\ Len(replies') = Len(replies) - 1 /\ Len(replies) \in Nat \ {0}
      /\ \A i \in 1..Len(replies') : replies'[i] = replies[i + 1]
  BY <1>1 DEF Takes
<1>3. Head(replies) = replies[1] /\ replies[1] \in Message /\ 1 \in 1..Len(replies)
  BY <1>1, <1>2
<1>4. \/ call' = call
      \/ /\ replies[1].id = call[c].id
         /\ call' = [call EXCEPT ![c] = [@ EXCEPT !.at = replies[1].kind, !.got = replies[1].of]]
  BY <1>3 DEF Takes
<1>5. /\ \A d \in Callers \ {c} : call'[d] = call[d]
      /\ call'[c] \in Making /\ call'[c].id = call[c].id /\ call'[c].method = call[c].method
      /\ call'[c].at = "waiting" \/ call'[c].got = Request(c)
  <2>1. CASE call' = call
    BY <2>1, <1>1
  <2>2. CASE /\ replies[1].id = call[c].id
             /\ call' = [call EXCEPT ![c] = [@ EXCEPT !.at = replies[1].kind, !.got = replies[1].of]]
    <3>1. call'[c] = [call[c] EXCEPT !.at = replies[1].kind, !.got = replies[1].of]
          /\ \A d \in Callers \ {c} : call'[d] = call[d]
      BY <2>2 DEF ClientInv, ClientShape
    <3>2. replies[1].of = Request(c)
      BY <2>2, <1>1, <1>3 DEF ClientInv, MatchInv
    <3>3. QED
      BY <3>1, <3>2, <1>1, <1>3 DEF Making, Message, At
  <2>3. QED
    BY <2>1, <2>2, <1>4
<1>6. \A d \in Callers : /\ call'[d] \in Making <=> call[d] \in Making
                         /\ call[d] \in Making => call'[d].id = call[d].id /\ Request(d)' = Request(d)
  BY <1>1, <1>5 DEF Request
<1>7. ClientShape'
  BY <1>1, <1>2, <1>4, <1>5 DEF ClientInv, ClientShape
<1>8. \A i \in 1..Len(replies') : i + 1 \in 1..Len(replies)
  BY <1>2
<1>9. NumbersInv'
  BY <1>1, <1>2, <1>6, <1>8 DEF ClientInv, NumbersInv
<1>10. MatchInv'
  BY <1>1, <1>2, <1>6, <1>8 DEF ClientInv, MatchInv
<1>11. OwnInv'
  BY <1>1, <1>5, <1>6 DEF ClientInv, OwnInv
<1>12. QED
  BY <1>7, <1>9, <1>10, <1>11 DEF ClientInv

(* A wait ends without an answer, or a request is done with.                *)
LEMMA LetsGoKeeps ==
  ASSUME ClientInv, NEW c \in Callers, UNCHANGED <<nextId, asked, replies>>,
         \/ call' = [call EXCEPT ![c] = Quiet]
         \/ call[c].at = "waiting" /\ call' = [call EXCEPT ![c].at = "timeout"]
  PROVE  ClientInv'
<1>1. \A d \in Callers \ {c} : call'[d] = call[d]
  BY DEF ClientInv, ClientShape
<1>2. \/ call'[c] = Quiet
      \/ /\ call[c] \in Making /\ call'[c] \in Making /\ call'[c].at = "timeout"
         /\ call'[c].id = call[c].id /\ call'[c].method = call[c].method
  BY DEF ClientInv, ClientShape, Making, At, Quiet
<1>3. call'[c] \in {Quiet} \cup Making
  BY <1>2
<1>4. ClientShape'
  BY <1>3 DEF ClientInv, ClientShape
<1>5. \A d \in Callers : call'[d] \in Making =>
        call[d] \in Making /\ call'[d].id = call[d].id /\ Request(d)' = Request(d)
  BY <1>1, <1>2, QuietIsNotMaking DEF Request
<1>6. NumbersInv' /\ MatchInv'
  BY <1>5 DEF ClientInv, NumbersInv, MatchInv
<1>7. OwnInv'
  BY <1>1, <1>2, <1>5, QuietIsNotMaking DEF ClientInv, OwnInv
<1>8. QED
  BY <1>4, <1>6, <1>7 DEF ClientInv

(* The connection's state keeps its shape and its numbers their meaning.    *)
THEOREM ClientInvariant == ClientSpec => []ClientInv
<1>1. ClientInit => ClientInv
  BY QuietIsNotMaking DEF ClientInit, ClientInv, ClientShape, NumbersInv, MatchInv, OwnInv
<1>2. ClientInv /\ [ClientNext]_clientVars => ClientInv'
  <2> SUFFICES ASSUME ClientInv, [ClientNext]_clientVars PROVE ClientInv'
    OBVIOUS
  <2>1. CASE UNCHANGED <<nextId, asked, replies, call>>
    BY <2>1 DEF ClientInv, ClientShape, NumbersInv, MatchInv, OwnInv, Request
  <2>2. CASE Notifies
    <3> DEFINE m == [id |-> 0, of |-> Nobody, kind |-> "result"]
    <3>1. m \in Message /\ Says(m) /\ UNCHANGED <<nextId, asked, call>> /\ nextId \in Nat
      BY <2>2 DEF Notifies, Message, ClientInv, ClientShape
    <3>2. QED
      BY <3>1, SaysKeeps
  <2>3. ASSUME NEW q \in asked, Answers(q) PROVE ClientInv'
    <3>1. PICK kind \in {"result", "error", "versions"} : Says([id |-> q.id, of |-> q, kind |-> kind])
      BY <2>3 DEF Answers
    <3>2. q \in AskedFor /\ q.id <= nextId
      BY DEF ClientInv, ClientShape, NumbersInv
    <3>3. [id |-> q.id, of |-> q, kind |-> kind] \in Message
      BY <3>2 DEF AskedFor, Message
    <3>4. asked' \subseteq asked /\ UNCHANGED <<nextId, call>>
      BY <2>3 DEF Answers
    <3>5. QED
      BY <3>1, <3>2, <3>3, <3>4, SaysKeeps
  <2>4. ASSUME NEW c \in Callers, Takes(c) PROVE ClientInv'
    BY <2>4, TakesKeeps
  <2>5. ASSUME NEW c \in Callers, TimesOut(c) PROVE ClientInv'
    BY <2>5, LetsGoKeeps DEF TimesOut
  <2>6. ASSUME NEW c \in Callers, Modern(c) \/ Legacy(c) \/ Returns(c) PROVE ClientInv'
    BY <2>6, LetsGoKeeps DEF Modern, Legacy, Returns, Done
  <2>7. ASSUME NEW c \in Callers, Discovers(c) \/ FallsBack(c) \/ CallsTool(c) PROVE ClientInv'
    BY <2>7, SendKeeps DEF Discovers, FallsBack, CallsTool, Method
  <2>8. QED
    BY <2>1, <2>2, <2>3, <2>4, <2>5, <2>6, <2>7 DEF ClientNext, Waits, Goes, Ends, clientVars
<1>3. QED
  BY <1>1, <1>2, PTL DEF ClientSpec

(* Nobody is handed an answer to a request that it gave up on or that       *)
(* another thread made (client.py, _request).                               *)
THEOREM HandedOnesOwn == ClientSpec => []AnswersAreOnesOwn
<1>1. ClientInv => AnswersAreOnesOwn
  BY DEF ClientInv, ClientShape, OwnInv, AnswersAreOnesOwn
<1>2. QED
  BY <1>1, ClientInvariant, PTL

-----------------------------------------------------------------------------
(* Paired clients, over restarts and failed writes.                         *)

(* A client holds a code if memory or the table says that it came with it.  *)
Holds(c, k) == \/ c \in DOMAIN registry /\ registry[c].code = k
               \/ c \in DOMAIN rows /\ rows[c].code = k

Device == [code : Codes, at : Nat, revoked : BOOLEAN]

PairingShape ==
  /\ clock \in Nat /\ lastPaired \in Nat
  /\ DOMAIN registry \subseteq 1..lastPaired /\ DOMAIN rows \subseteq 1..lastPaired
  /\ \A c \in DOMAIN registry : registry[c] \in Device
  /\ \A c \in DOMAIN rows : rows[c] \in Device
  /\ pending \in [Codes -> [is : {"none", "shown", "used", "dropped"}, to : Nat]]
  /\ saidRevoked \subseteq 1..lastPaired

(* A restart reads the rows, so what is refused in memory and what the      *)
(* person was told has to be in them too.                                   *)
RevokedInv ==
  \A c \in saidRevoked :
    /\ c \in DOMAIN registry => registry[c].revoked
    /\ c \in DOMAIN rows => rows[c].revoked

(* A code that a client holds is one that can pair no other.                *)
CodesInv ==
  /\ \A c, k : Holds(c, k) => k \in Codes /\ pending[k].is \in {"used", "dropped"}
  /\ \A c, d, k : Holds(c, k) /\ Holds(d, k) => c = d

PairingInv == PairingShape /\ RevokedInv /\ CodesInv

-----------------------------------------------------------------------------
(* A step that writes to the tables only what its client holds already      *)
(* leaves who holds what as it was, or less.                                *)
LEMMA HoldsLess ==
  ASSUME CodesInv, pending' = pending, \A c, k : Holds(c, k)' => Holds(c, k)
  PROVE  CodesInv'
<1>1. ASSUME NEW c, NEW k, Holds(c, k)'
      PROVE  k \in Codes /\ pending'[k].is \in {"used", "dropped"}
  BY <1>1 DEF CodesInv
<1>2. ASSUME NEW c, NEW d, NEW k, Holds(c, k)', Holds(d, k)' PROVE c = d
  BY <1>2 DEF CodesInv
<1>3. QED
  BY <1>1, <1>2 DEF CodesInv

LEMMA InitHolds == PairingInit => PairingInv
<1> SUFFICES ASSUME PairingInit PROVE PairingInv
  OBVIOUS
<1>1. DOMAIN registry = {} /\ DOMAIN rows = {}
  BY DEF PairingInit
<1>2. QED
  BY <1>1 DEF PairingInit, PairingInv, PairingShape, RevokedInv, CodesInv, Holds, Unissued

LEMMA IssueKeeps ==
  ASSUME PairingInv, NEW code \in Codes, Issue(code)
  PROVE  PairingInv'
<1> USE DEF PairingInv
<1>1. Ttl \in Nat
  BY PairingAssumption
<1>2. PairingShape'
  BY <1>1 DEF PairingShape, Issue, LastTick, Dropped
<1>3. RevokedInv'
  BY DEF RevokedInv, Issue
<1>4. \A c, k : Holds(c, k)' <=> Holds(c, k)
  BY DEF Issue, Holds
<1>5. ASSUME NEW k \in Codes, pending[k].is \in {"used", "dropped"}
      PROVE  pending'[k].is \in {"used", "dropped"}
  BY <1>5 DEF Issue, Dropped
<1>6. CodesInv'
  BY <1>4, <1>5 DEF CodesInv
<1>7. QED
  BY <1>2, <1>3, <1>6

LEMMA RedeemKeeps ==
  ASSUME PairingInv, NEW code \in Codes, Redeem(code)
  PROVE  PairingInv'
<1> DEFINE new    == lastPaired + 1
           device == [code |-> code, at |-> clock, revoked |-> FALSE]
<1>1. /\ pending' = [pending EXCEPT ![code].is = "used"]
      /\ lastPaired' = new
      /\ registry' = Put(registry, new, device)
      /\ rows' = Put(rows, new, device) \/ rows' = rows
      /\ UNCHANGED <<clock, saidRevoked, everRevoked>>
  BY DEF Redeem, UsedUp, Written, Saves
<1>2. new \notin DOMAIN registry /\ new \notin DOMAIN rows /\ new \notin saidRevoked
      /\ new \in Nat /\ device \in Device
  BY DEF PairingInv, PairingShape, Device
<1>3. /\ DOMAIN registry' = DOMAIN registry \cup {new}
      /\ registry'[new] = device
      /\ \A d \in DOMAIN registry : registry'[d] = registry[d]
  BY <1>1, <1>2 DEF Put
<1>4. /\ DOMAIN rows' \subseteq DOMAIN rows \cup {new}
      /\ new \in DOMAIN rows' => rows'[new] = device
      /\ \A d \in DOMAIN rows : rows'[d] = rows[d]
  <2>1. CASE rows' = Put(rows, new, device)
    BY <1>2, <2>1 DEF Put
  <2>2. CASE rows' = rows
    BY <1>2, <2>2
  <2>3. QED
    BY <1>1, <2>1, <2>2
<1>5. PairingShape'
  <2>1. pending' \in [Codes -> [is : {"none", "shown", "used", "dropped"}, to : Nat]]
    BY <1>1 DEF PairingInv, PairingShape
  <2>2. DOMAIN registry' \subseteq 1..new /\ DOMAIN rows' \subseteq 1..new
        /\ saidRevoked' \subseteq 1..new
    BY <1>1, <1>3, <1>4 DEF PairingInv, PairingShape
  <2>3. \A c \in DOMAIN registry' : registry'[c] \in Device
    BY <1>2, <1>3 DEF PairingInv, PairingShape
  <2>4. \A c \in DOMAIN rows' : rows'[c] \in Device
    BY <1>2, <1>4 DEF PairingInv, PairingShape
  <2>5. QED
    BY <1>1, <1>2, <2>1, <2>2, <2>3, <2>4 DEF PairingInv, PairingShape
<1>6. RevokedInv'
  BY <1>1, <1>2, <1>3, <1>4 DEF PairingInv, RevokedInv
<1>7. ASSUME NEW c, NEW k, Holds(c, k)'
      PROVE  Holds(c, k) \/ (c = new /\ k = code)
  BY <1>3, <1>4, <1>7 DEF Holds
<1>8. \A c : ~Holds(c, code)
  BY DEF PairingInv, CodesInv, Redeem, Redeemable
<1>9. CodesInv'
  <2>1. ASSUME NEW c, NEW k, Holds(c, k)'
        PROVE  k \in Codes /\ pending'[k].is \in {"used", "dropped"}
    BY <1>1, <1>7, <2>1 DEF PairingInv, CodesInv, PairingShape
  <2>2. ASSUME NEW c, NEW d, NEW k, Holds(c, k)', Holds(d, k)' PROVE c = d
    BY <1>7, <1>8, <2>2 DEF PairingInv, CodesInv
  <2>3. QED
    BY <2>1, <2>2 DEF CodesInv
<1>10. QED
  BY <1>5, <1>6, <1>9 DEF PairingInv

LEMMA VerifyKeeps ==
  ASSUME PairingInv, NEW c \in Client, Verify(c)
  PROVE  PairingInv'
<1>1. rows' = Put(rows, c, registry[c]) \/ rows' = rows
  BY DEF Verify, Written, Saves
<1>2. c \in DOMAIN registry /\ ~registry[c].revoked
      /\ UNCHANGED <<clock, pending, registry, lastPaired, saidRevoked>>
  BY DEF Verify, Active
<1>3. c \notin saidRevoked
  BY <1>2 DEF PairingInv, RevokedInv
<1>4. /\ DOMAIN rows' \subseteq DOMAIN rows \cup {c}
      /\ \A d \in DOMAIN rows' : (d \in DOMAIN rows /\ rows'[d] = rows[d])
                                     \/ (d = c /\ rows'[d] = registry[c])
  <2>1. CASE rows' = Put(rows, c, registry[c])
    BY <2>1 DEF Put
  <2>2. CASE rows' = rows
    BY <2>2
  <2>3. QED
    BY <1>1, <2>1, <2>2
<1>5. PairingShape'
  BY <1>2, <1>4 DEF PairingInv, PairingShape
<1>6. RevokedInv'
  BY <1>2, <1>3, <1>4 DEF PairingInv, RevokedInv
<1>7. CodesInv'
  BY <1>2, <1>4, HoldsLess DEF PairingInv, Holds
<1>8. QED
  BY <1>5, <1>6, <1>7 DEF PairingInv

LEMMA RevokeKeeps ==
  ASSUME PairingInv, NEW c \in Client, Revoke(c)
  PROVE  PairingInv'
<1> DEFINE device == [registry[c] EXCEPT !.revoked = TRUE]
<1>1. /\ registry' = Put(registry, c, device)
      /\ \/ rows' = Put(rows, c, device) /\ saidRevoked' = saidRevoked \cup {c}
         \/ rows' = rows /\ saidRevoked' = saidRevoked
      /\ UNCHANGED <<clock, pending, lastPaired>>
  BY DEF Revoke, Written, Saves
<1>2. c \in DOMAIN registry /\ c \in 1..lastPaired /\ registry[c] \in Device
  BY DEF Revoke, Active, PairingInv, PairingShape
<1>3. device \in Device /\ device.revoked /\ device.code = registry[c].code
  BY <1>2 DEF Device
<1> HIDE DEF device
<1>4. /\ DOMAIN registry' = DOMAIN registry
      /\ registry'[c] = device
      /\ \A d \in DOMAIN registry : d # c => registry'[d] = registry[d]
  BY <1>1, <1>2 DEF Put
<1>5. /\ DOMAIN rows' \subseteq DOMAIN rows \cup {c}
      /\ \A d \in DOMAIN rows' : (d \in DOMAIN rows /\ rows'[d] = rows[d])
                                     \/ (d = c /\ rows'[d] = device)
      /\ \/ saidRevoked' = saidRevoked \cup {c} /\ rows'[c] = device
         \/ saidRevoked' = saidRevoked
  <2>1. CASE rows' = Put(rows, c, device) /\ saidRevoked' = saidRevoked \cup {c}
    BY <2>1 DEF Put
  <2>2. CASE rows' = rows /\ saidRevoked' = saidRevoked
    BY <2>2
  <2>3. QED
    BY <1>1, <2>1, <2>2
<1>6. PairingShape'
  BY <1>1, <1>2, <1>3, <1>4, <1>5 DEF PairingInv, PairingShape
<1>7. RevokedInv'
  BY <1>1, <1>3, <1>4, <1>5 DEF PairingInv, RevokedInv
<1>8. CodesInv'
  <2>1. ASSUME NEW d, NEW k, Holds(d, k)' PROVE Holds(d, k)
    BY <1>2, <1>3, <1>4, <1>5, <2>1 DEF Holds
  <2>2. QED
    BY <1>1, <2>1, HoldsLess DEF PairingInv
<1>9. QED
  BY <1>6, <1>7, <1>8 DEF PairingInv

LEMMA RestartKeeps ==
  ASSUME PairingInv, RestartPairing
  PROVE  PairingInv'
<1>1. PairingShape'
  BY DEF RestartPairing, PairingInv, PairingShape, Unissued, Dropped
<1>2. RevokedInv'
  BY DEF RestartPairing, PairingInv, RevokedInv
<1>3. \A c, k : Holds(c, k)' => Holds(c, k)
  BY DEF RestartPairing, Holds
<1>4. ASSUME NEW k \in Codes, pending[k].is \in {"used", "dropped"}
      PROVE  pending'[k].is \in {"used", "dropped"}
  BY <1>4 DEF RestartPairing, Unissued, Dropped
<1>5. CodesInv'
  BY <1>3, <1>4 DEF PairingInv, CodesInv
<1>6. QED
  BY <1>1, <1>2, <1>5 DEF PairingInv

(* The inductive invariant: what memory and the table say of a client agree *)
(* on its code, and on its being revoked once the person was told so.       *)
THEOREM PairingInvariant == PairingSpec => []PairingInv
<1>1. PairingInv /\ [PairingNext]_pairingVars => PairingInv'
  <2> SUFFICES ASSUME PairingInv, [PairingNext]_pairingVars PROVE PairingInv'
    OBVIOUS
  <2>1. CASE Tick
    BY <2>1 DEF Tick, PairingInv, PairingShape, RevokedInv, CodesInv, Holds
  <2>2. CASE RestartPairing
    BY <2>2, RestartKeeps
  <2>3. ASSUME NEW k \in Codes, Issue(k) PROVE PairingInv'
    BY <2>3, IssueKeeps
  <2>4. ASSUME NEW k \in Codes, Redeem(k) PROVE PairingInv'
    BY <2>4, RedeemKeeps
  <2>5. ASSUME NEW c \in Client, Verify(c) PROVE PairingInv'
    BY <2>5, VerifyKeeps
  <2>6. ASSUME NEW c \in Client, Revoke(c) PROVE PairingInv'
    BY <2>6, RevokeKeeps
  <2>7. CASE UNCHANGED pairingVars
    BY <2>7 DEF pairingVars, PairingInv, PairingShape, RevokedInv, CodesInv, Holds
  <2>8. QED
    BY <2>1, <2>2, <2>3, <2>4, <2>5, <2>6, <2>7 DEF PairingNext
<1>2. QED
  BY <1>1, InitHolds, PTL DEF PairingSpec

(* "Revoked, and never verifies again" (paired_clients.py, revoke), once    *)
(* the person was told so.                                                  *)
THEOREM RevokedForGood == PairingSpec => []RevokedStaysRefused
<1>1. PairingInv => RevokedStaysRefused
  BY DEF PairingInv, RevokedInv, RevokedStaysRefused, Active
<1>2. QED
  BY <1>1, PairingInvariant, PTL

(* A code is single-use (pairing.py, redeem), written or not, restarted or  *)
(* not.                                                                     *)
THEOREM CodesAreSingleUse == PairingSpec => []CodesPairOnce
<1>1. PairingInv => CodesPairOnce
  <2> SUFFICES ASSUME PairingInv,
                      NEW c \in DOMAIN registry \cup DOMAIN rows,
                      NEW d \in DOMAIN registry \cup DOMAIN rows, c # d
               PROVE  (IF c \in DOMAIN registry THEN registry[c] ELSE rows[c]).code
                        # (IF d \in DOMAIN registry THEN registry[d] ELSE rows[d]).code
    BY DEF CodesPairOnce
  <2>1. Holds(c, (IF c \in DOMAIN registry THEN registry[c] ELSE rows[c]).code)
    BY DEF Holds
  <2>2. Holds(d, (IF d \in DOMAIN registry THEN registry[d] ELSE rows[d]).code)
    BY DEF Holds
  <2>3. QED
    BY <2>1, <2>2 DEF PairingInv, CodesInv
<1>2. QED
  BY <1>1, PairingInvariant, PTL

-----------------------------------------------------------------------------
(* The card.                                                               *)

Places == Working \cup {"idle", "unloading", "restoring"}

(* The requests _in_flight counts.                                          *)
Counted == {r \in Pictures : picture[r] \in Working}

(* The count is that of the requests between the first line and the         *)
(* finally, so that the last one out is the last one.                       *)
CountInv ==
  /\ picture \in [Pictures -> Places]
  /\ inFlight = Cardinality(Counted)

CardInv == CountInv /\ SomeoneGivesBack

LEMMA CountedIsFinite == IsFiniteSet(Counted)
BY CardAssumption, FS_Subset DEF Counted

(* A request that goes on where it is counted, or where it is not, leaves   *)
(* the count.                                                               *)
LEMMA StaysCounted ==
  ASSUME CountInv, NEW r \in Pictures, NEW place \in Places,
         picture[r] \in Working <=> place \in Working, To(r, place), UNCHANGED inFlight
  PROVE  CountInv'
<1>1. Counted' = Counted
  BY DEF Counted, CountInv, To
<1>2. QED
  BY <1>1 DEF CountInv, To

LEMMA ComesIn ==
  ASSUME CountInv, NEW r \in Pictures, NEW place \in Working,
         picture[r] \notin Working, To(r, place), inFlight' = inFlight + 1
  PROVE  CountInv'
<1>1. Counted' = Counted \cup {r} /\ r \notin Counted
  BY DEF Counted, CountInv, To
<1>2. Cardinality(Counted') = Cardinality(Counted) + 1
  BY <1>1, CountedIsFinite, FS_AddElement
<1>3. QED
  BY <1>2 DEF CountInv, To, Places

LEMMA GoesOut ==
  ASSUME CountInv, NEW r \in Pictures, NEW place \in Places \ Working,
         picture[r] \in Working, To(r, place), inFlight' = inFlight - 1
  PROVE  CountInv'
<1>1. Counted' = Counted \ {r} /\ r \in Counted
  BY DEF Counted, CountInv, To
<1>2. Cardinality(Counted') = Cardinality(Counted) - 1
  BY <1>1, CountedIsFinite, FS_RemoveElement
<1>3. QED
  BY <1>2 DEF CountInv, To

(* Where the count is not one, whoever leaves leaves another behind.        *)
LEMMA AnotherStays ==
  ASSUME CountInv, NEW r \in Pictures, picture[r] \in Working, inFlight # 1
  PROVE  \E q \in Pictures \ {r} : picture[q] \in Working
<1>1. SUFFICES ASSUME Counted = {r} PROVE FALSE
  BY <1>1 DEF Counted
<1>2. Cardinality(Counted) = 1
  BY <1>1, FS_Singleton
<1>3. QED
  BY <1>2 DEF CountInv

LEMMA ImagesStep ==
  ASSUME CardInv, [ImagesNext]_imageVars
  PROVE  CardInv'
<1> USE DEF CardInv
<1>1. CASE UNCHANGED imageVars
  BY <1>1 DEF imageVars, CountInv, Counted, SomeoneGivesBack
<1>2. CASE Surroundings
  BY <1>2 DEF Surroundings, Question, ChatArrives, ChatGoes, Choose, Connect, Program, World,
              CountInv, Counted, SomeoneGivesBack
<1>3. ASSUME NEW r \in Pictures, Ask(r) PROVE CardInv'
  <2>1. PICK place \in {"reading", "drawing"} : To(r, place)
    BY <1>3 DEF Ask
  <2>2. CountInv'
    BY <1>3, <2>1, ComesIn DEF Ask, Working, Asking, Sampling
  <2>3. SomeoneGivesBack'
    BY <1>3, <2>1 DEF Ask, To, SomeoneGivesBack, CountInv, Working, Asking
  <2>4. QED
    BY <2>2, <2>3
<1>4. ASSUME NEW r \in Pictures, Prepares(r) \/ Paints(r) PROVE CardInv'
  <2>1. PICK place \in Working : To(r, place)
    BY <1>4 DEF Prepares, Paints, ReadCard, ListHeld, ReleaseHeld, Reread, Draw, TakeLock, Loads,
                FluxFails, Drawn, Working, Asking, Sampling
  <2>2. picture[r] \in Working /\ UNCHANGED inFlight
    BY <1>4 DEF Prepares, Paints, ReadCard, ListHeld, ReleaseHeld, Reread, Draw, TakeLock, Loads,
                FluxFails, Drawn, Working, Asking, Sampling
  <2>3. CountInv'
    BY <2>1, <2>2, StaysCounted DEF Places
  <2>4. picture'[r] \in Working
    BY <2>1 DEF To, CountInv
  <2>5. QED
    BY <2>3, <2>4 DEF SomeoneGivesBack
<1>5. ASSUME NEW r \in Pictures, Leave(r) PROVE CardInv'
  <2>1. PICK place \in {"unloading", "idle"} : To(r, place) /\ (inFlight = 1 => place = "unloading")
    BY <1>5 DEF Leave
  <2>2. picture[r] \in Working
    BY <1>5 DEF Leave, Working
  <2>3. CountInv'
    BY <1>5, <2>1, <2>2, GoesOut DEF Leave, Places, Working, Asking, Sampling
  <2>4. \E q \in Pictures : picture'[q] \in Working \cup {"unloading"}
    <3>1. CASE inFlight = 1
      BY <2>1, <3>1 DEF To, CountInv
    <3>2. CASE inFlight # 1
      BY <2>1, <2>2, <3>2, AnotherStays DEF To, CountInv
    <3>3. QED
      BY <3>1, <3>2
  <2>5. QED
    BY <2>3, <2>4 DEF SomeoneGivesBack
<1>6. ASSUME NEW r \in Pictures, Unload(r) PROVE CardInv'
  <2>1. CountInv'
    BY <1>6, StaysCounted DEF Unload, Places, Working, Asking, Sampling
  <2>2. SomeoneGivesBack'
    BY <1>6 DEF Unload, To, SomeoneGivesBack, CountInv
  <2>3. QED
    BY <2>1, <2>2
<1>7. ASSUME NEW r \in Pictures, BringBack(r) PROVE CardInv'
  <2>1. CountInv'
    BY <1>7, StaysCounted DEF BringBack, Places, Working, Asking, Sampling
  <2>2. SomeoneGivesBack'
    BY <1>7 DEF BringBack, To, SomeoneGivesBack, CountInv, Working, Asking, Sampling
  <2>3. QED
    BY <2>1, <2>2
<1>8. ASSUME NEW r \in Pictures, Reload(r) PROVE CardInv'
  BY <1>8 DEF Reload, CountInv, Counted, SomeoneGivesBack
<1>9. QED
  BY <1>1, <1>2, <1>3, <1>4, <1>5, <1>6, <1>7, <1>8 DEF ImagesNext, Requested, Moves, Finishes

(* While the image model is on the card, or a chat model is owed its place, *)
(* some request is under way that will see to it (runtime.py, execute's     *)
(* finally).                                                                *)
THEOREM TheCardIsOwed == ImagesSpec => []SomeoneGivesBack
<1>1. ImagesInit => CardInv
  <2> SUFFICES ASSUME ImagesInit PROVE CardInv
    OBVIOUS
  <2>1. Counted = {}
    BY DEF ImagesInit, Counted, Working, Asking, Sampling
  <2>2. QED
    BY <2>1, FS_EmptySet DEF ImagesInit, CardInv, CountInv, SomeoneGivesBack, Places
<1>2. CardInv /\ [ImagesNext]_imageVars => CardInv'
  BY ImagesStep
<1>3. CardInv => SomeoneGivesBack
  BY DEF CardInv
<1>4. QED
  BY <1>1, <1>2, <1>3, PTL DEF ImagesSpec

-----------------------------------------------------------------------------
(* The local model server.                                                 *)

(* A server answers or dies within the guard, and the backend keeps what it *)
(* launched: without either, a second server is spawned beside the first.   *)
WithinTheGuard == SlowestStart < RELAUNCH_GUARD /\ "relaunch" \notin ServerEvents

ProcessInv ==
  /\ process \in [Processes -> [is : {"unborn", "starting", "serving", "dead"}, age : Nat]]
  /\ DOMAIN doing = Coroutines
  /\ launched \in Processes \cup {NotLaunched}

(* Who is deciding has found nobody serving, and no half minute has passed  *)
(* since: what is alive by then is young.                                   *)
YoungInv ==
  /\ Alive \subseteq {launched}
  /\ \A p \in Being("starting") : process[p].age <= SlowestStart
  /\ (\E c \in Coroutines : doing[c] = "deciding") =>
       \A p \in Alive : process[p].age <= SlowestStart

LaunchInv == ProcessInv /\ YoungInv

(* A coroutine that decides nothing and spawns nothing keeps it.            *)
LEMMA MovesOnly ==
  ASSUME LaunchInv, UNCHANGED <<process, launched>>, NEW c \in Coroutines, NEW place,
         Reaches(c, place), place # "deciding"
  PROVE  LaunchInv'
BY DEF LaunchInv, ProcessInv, YoungInv, Alive, Being, Reaches

(* A server that gets neither older nor younger, and was alive.             *)
LEMMA ServerChanges ==
  ASSUME LaunchInv, UNCHANGED <<launched, doing>>, NEW p \in Alive, NEW how \in {"serving", "dead"},
         Becomes(p, how)
  PROVE  LaunchInv'
<1>1. \A q \in Processes : /\ process'[q].age = process[q].age
                           /\ process'[q].is = IF q = p THEN how ELSE process[q].is
  BY DEF LaunchInv, ProcessInv, Becomes, Alive, Being
<1>2. ProcessInv'
  BY DEF LaunchInv, ProcessInv, Becomes, Alive, Being
<1>3. Alive' \subseteq Alive /\ Being("starting")' \subseteq Being("starting")
  BY <1>1 DEF Alive, Being
<1>4. QED
  BY <1>1, <1>2, <1>3 DEF LaunchInv, YoungInv, Alive, Being

LEMMA SpawnKeeps ==
  ASSUME LaunchInv, WithinTheGuard, NEW c \in Coroutines, Spawn(c)
  PROVE  LaunchInv'
<1>1. CASE UNCHANGED <<process, launched>>
  BY <1>1, MovesOnly DEF Spawn
<1>2. ASSUME NEW p \in Being("unborn"), launched' = p, Reaches(c, "watching"),
             process' = [process EXCEPT ![p] = [is |-> "starting", age |-> 0]]
      PROVE  LaunchInv'
  <2>1. Alive = {}
    <3> SUFFICES ASSUME NEW q \in Alive PROVE FALSE
      OBVIOUS
    <3>1. q = launched /\ q \in Processes /\ process[q].is \in {"starting", "serving"}
      BY DEF LaunchInv, YoungInv, Alive, Being
    <3>2. process[q].age <= SlowestStart
      BY DEF Spawn, LaunchInv, YoungInv
    <3>3. ~(process[q].age < RELAUNCH_GUARD)
      BY <3>1, ServersAssumption DEF Spawn, Guarded, Launching
    <3>4. process[q].age \in Nat
      BY <3>1 DEF LaunchInv, ProcessInv
    <3>5. QED
      BY <3>2, <3>3, <3>4, ServersAssumption DEF WithinTheGuard, RELAUNCH_GUARD
  <2>2. ProcessInv'
    BY <1>2 DEF LaunchInv, ProcessInv, Being, Reaches
  <2>3. Alive' = {p} /\ process'[p].age = 0
    BY <1>2, <2>1 DEF LaunchInv, ProcessInv, Alive, Being
  <2>4. YoungInv'
    BY <1>2, <2>3, ServersAssumption DEF YoungInv, Alive
  <2>5. QED
    BY <2>2, <2>4 DEF LaunchInv
<1>3. QED
  BY <1>1, <1>2 DEF Spawn

LEMMA HalfMinuteKeeps ==
  ASSUME LaunchInv, HalfMinute
  PROVE  LaunchInv'
<1>1. \A c \in Coroutines : doing'[c] # "deciding"
  BY DEF HalfMinute, Prompt
<1>2. \A p \in Processes : /\ process'[p].is = process[p].is
                           /\ process'[p].age \in {process[p].age, process[p].age + 1}
  BY DEF HalfMinute, LaunchInv, ProcessInv, Alive, Being
<1>3. ProcessInv'
  BY DEF HalfMinute, LaunchInv, ProcessInv
<1>4. Alive' = Alive /\ Being("starting")' = Being("starting")
  BY <1>2 DEF Alive, Being
<1>5. \A p \in Being("starting") : process'[p].age <= SlowestStart
  BY <1>2, ServersAssumption DEF HalfMinute, LaunchInv, ProcessInv, YoungInv, Being
<1>6. QED
  BY <1>1, <1>3, <1>4, <1>5 DEF LaunchInv, YoungInv, HalfMinute

LEMMA ServersStep ==
  ASSUME LaunchInv, WithinTheGuard, [ServersNext]_serverVars
  PROVE  LaunchInv'
<1>1. CASE UNCHANGED serverVars
  BY <1>1 DEF serverVars, LaunchInv, ProcessInv, YoungInv, Alive, Being
<1>2. ASSUME NEW c \in Coroutines, Press(c) \/ List(c) \/ Spare(c) \/ Watch(c) \/ Scans(c)
      PROVE  LaunchInv'
  BY <1>2, MovesOnly DEF Press, List, Spare, Watch, Scans, ReadProviders, ReplaceCatalogue
<1>3. ASSUME NEW c \in Coroutines, ProbePort(c) PROVE LaunchInv'
  <2>1. CASE Serving
    BY <1>3, <2>1, MovesOnly DEF ProbePort
  <2>2. CASE ~Serving
    BY <1>3, <2>2 DEF ProbePort, Reaches, Serving, LaunchInv, ProcessInv, YoungInv, Alive, Being
  <2>3. QED
    BY <2>1, <2>2
<1>4. ASSUME NEW c \in Coroutines, Spawn(c) PROVE LaunchInv'
  BY <1>4, SpawnKeeps
<1>5. ASSUME NEW p \in Processes, ComesUp(p) \/ Crash(p) PROVE LaunchInv'
  <2>1. p \in Alive /\ UNCHANGED <<launched, doing>>
    BY <1>5 DEF ComesUp, Crash, Alive, Being
  <2>2. PICK how \in {"serving", "dead"} : Becomes(p, how)
    BY <1>5 DEF ComesUp, Crash
  <2>3. QED
    BY <2>1, <2>2, ServerChanges
<1>6. CASE HalfMinute
  BY <1>6, HalfMinuteKeeps
<1>7. ~BackendReturns
  BY DEF BackendReturns, WithinTheGuard
<1>8. QED
  BY <1>1, <1>2, <1>3, <1>4, <1>5, <1>6, <1>7
     DEF ServersNext, RunsOn, Starts, Coroutines

LEMMA OneIsAlive == ASSUME LaunchInv PROVE OneServer
<1>1. Cardinality({launched}) = 1 /\ IsFiniteSet({launched})
  BY FS_Singleton
<1>2. Cardinality(Alive) <= Cardinality({launched})
  BY <1>1, FS_Subset DEF LaunchInv, YoungInv
<1>3. QED
  BY <1>1, <1>2 DEF OneServer

(* Two presses, or a press and the automatic start, never spawn two servers *)
(* beside each other, however many press and whatever dies, as long as a    *)
(* server answers within the guard and the backend is not started again     *)
(* (model_servers.py, start).                                               *)
THEOREM OneServerAtATime ==
  ASSUME WithinTheGuard
  PROVE  ServersSpec => []OneServer
<1>1. ServersInit => LaunchInv
  BY ServersAssumption DEF ServersInit, LaunchInv, ProcessInv, YoungInv, Alive, Being, Coroutines
<1>2. LaunchInv /\ [ServersNext]_serverVars => LaunchInv'
  BY WithinTheGuard, ServersStep
<1>3. LaunchInv => OneServer
  BY OneIsAlive
<1>4. QED
  BY <1>1, <1>2, <1>3, PTL DEF ServersSpec
=============================================================================
