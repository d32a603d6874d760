------------------------------ MODULE Tools_proofs -----------------------------
(***************************************************************************)
(* What the gate promises of one tool call, for every call there is, every *)
(* mode and every grant: floors, names that always ask and removals and    *)
(* sends are asked about; a server's hint only tightens; a card's button   *)
(* does what it offers.  And of the servers the calls are made on: what is *)
(* decided unasked was allowed, and no process is left that nothing stops. *)
(***************************************************************************)
EXTENDS ToolCard, ToolServers, ToolPolicy_proofs, SequenceTheorems

(* The inductive invariant: the call is one that there can be.              *)
CardInv ==
  /\ question \in Call /\ Coherent(question)
  /\ mode \in Mode /\ granted \in BOOLEAN

(* The steps of a card leave the call one that there can be.                *)
THEOREM CardInvariant == CardSpec => []CardInv
<1>1. CardInit => CardInv
  BY DEF CardInit, CardInv
<1>2. CardInv /\ [CardNext]_cardVars => CardInv'
  <2> SUFFICES ASSUME CardInv, [CardNext]_cardVars PROVE CardInv'
    OBVIOUS
  <2>1. CASE Hints
    BY <2>1 DEF CardInv, Hints, Call, Coherent
  <2>2. CASE Allow
    BY <2>2 DEF CardInv, Allow
  <2>3. ASSUME NEW m \in Mode, SetMode(m) PROVE CardInv'
    BY <2>3 DEF CardInv, SetMode
  <2>4. CASE UNCHANGED cardVars
    BY <2>4 DEF CardInv, cardVars
  <2>5. QED
    BY <2>1, <2>2, <2>3, <2>4 DEF CardNext
<1>3. QED
  BY <1>1, <1>2, PTL DEF CardSpec

-----------------------------------------------------------------------------
(* Whatever was allowed, the gate asks about or refuses what a floor or a   *)
(* name says is to be asked about: McpRuntime.execute and policy.decide.    *)
THEOREM NoGrantIsEnough == CardSpec => []NoGrantCovers
<1>1. CardInv => NoGrantCovers
  <2> SUFFICES ASSUME CardInv,
                      \/ Floor(question) # "none"
                      \/ AlwaysAsks(question)
                      \/ /\ ~Reads(question)
                         /\ "delete" \in question.words \/ LooksOutbound(question)
               PROVE  Answer # "allow"
    BY DEF NoGrantCovers
  <2>1. CASE Floor(question) # "none"
    <3>1. Floor(question) \in {"refuse", "confirm"}
      BY <2>1 DEF Floor
    <3>2. QED
      BY <3>1 DEF Answer, Gate
  <2>2. CASE Floor(question) = "none"
    <3>1. Decide(question, mode, granted) # "allow"
      BY <2>2, GrantsDoNotSettle DEF CardInv
    <3>2. Decide(question, mode, granted) \in {"refuse", "confirm"}
      BY <3>1 DEF Decide
    <3>3. QED
      BY <3>2 DEF Answer, Gate
  <2>3. QED
    BY <2>1, <2>2
<1>2. QED
  BY <1>1, CardInvariant, PTL

-----------------------------------------------------------------------------
(* "Untrusted text may narrow, never widen" (policy.py): a hint only makes  *)
(* the answer about the call stricter, confirmed or not.                    *)
THEOREM HintsNarrow == CardSpec => HintsOnlyTighten
<1> DEFINE Tightens == Hints => /\ Strictness[Answer'] >= Strictness[Answer]
                               /\ Strictness[Confirmed'] >= Strictness[Confirmed]
<1>1. CardInv /\ [CardNext]_cardVars => [Tightens]_cardVars
  <2> SUFFICES ASSUME CardInv, Hints PROVE Tightens
    OBVIOUS
  <2>1. Answer' \in Verdict /\ Answer \in Verdict /\ Confirmed' \in Verdict /\ Confirmed \in Verdict
    BY DEF Answer, Confirmed, Gate, Verdict
  <2> DEFINE h == [question EXCEPT !.hinted = TRUE]
  <2>2. question \in Call /\ h \in Call /\ question' = h /\ mode' = mode /\ granted' = granted
        /\ mode \in Mode /\ granted \in BOOLEAN
    BY DEF CardInv, Hints, Call
  <2>3. /\ Reads(h) => Reads(question)
        /\ NoGrantSettles(question) => NoGrantSettles(h)
        /\ Refused(question, mode) => Refused(h, mode)
        /\ Floor(h) = Floor(question)
    BY <2>2, HintNarrows
  <2> HIDE DEF h
  <2>5. Answer' = Gate(h, mode, granted, FALSE) /\ Confirmed' = Gate(h, mode, granted, TRUE)
    BY <2>2 DEF Answer, Confirmed
  <2>6. Decide(question, mode, granted) = "refuse" => Decide(h, mode, granted) = "refuse"
    BY <2>3 DEF Decide
  <2>7. Decide(question, mode, granted) = "confirm" => Decide(h, mode, granted) \in {"confirm", "refuse"}
    BY <2>3 DEF Decide
  <2>8. Answer = "refuse" => Answer' = "refuse"
    BY <2>3, <2>5, <2>6 DEF Answer, Gate
  <2>9. Answer = "confirm" => Answer' \in {"confirm", "refuse"}
    BY <2>3, <2>5, <2>6, <2>7 DEF Answer, Gate
  <2>10. Confirmed = "refuse" => Confirmed' = "refuse"
    BY <2>3, <2>5, <2>6 DEF Confirmed, Gate
  <2>11. Confirmed # "confirm"
    BY DEF Confirmed, Gate
  <2>12. Strictness["allow"] = 0 /\ Strictness["confirm"] = 1 /\ Strictness["refuse"] = 2
    BY DEF Strictness, Verdict
  <2>13. Strictness[Answer'] >= Strictness[Answer]
    BY <2>1, <2>8, <2>9, <2>12 DEF Verdict
  <2>14. Strictness[Confirmed'] >= Strictness[Confirmed]
    BY <2>1, <2>10, <2>11, <2>12 DEF Verdict
  <2>15. QED
    BY <2>13, <2>14
<1>2. QED
  BY <1>1, CardInvariant, PTL DEF CardSpec, HintsOnlyTighten

-----------------------------------------------------------------------------
(* A button that allows the tool lets the call on the card run:             *)
(* runtime.py's "grantable" against policy.decide.                          *)
THEOREM AllowingIsEnough == CardSpec => CardKeepsItsWord
<1> DEFINE Settles == Allow => Answer' = "allow"
<1>1. CardInv /\ [CardNext]_cardVars => [Settles]_cardVars
  <2> SUFFICES ASSUME CardInv, Allow PROVE Answer' = "allow"
    OBVIOUS
  <2>1. question' = question /\ mode' = mode /\ granted'
    BY DEF Allow
  <2>2. Floor(question) = "none" /\ ~NoGrantSettles(question)
    BY DEF Allow, Grantable, NoGrantSettles
  <2>3. ~Refused(question, mode)
    BY DEF Allow, Answer, Gate, Decide
  <2>4. Decide(question, mode, TRUE) = "allow"
    BY <2>2, <2>3 DEF Decide
  <2>5. granted' = TRUE
    BY DEF Allow
  <2>6. QED
    BY <2>1, <2>2, <2>4, <2>5 DEF Answer, Gate
<1>2. QED
  BY <1>1, CardInvariant, PTL DEF CardSpec, CardKeepsItsWord

-----------------------------------------------------------------------------
(* The servers.  A connection and a request are on a process that is of     *)
(* their server, and a grant on the list is one the person made.            *)

Process == [server : Servers, program : Programs, up : BOOLEAN]
Working == [stage : {"starting", "ready"}, unasked : Sessions \cup {None}, server : Servers,
            tool : Tools \cup {None}, program : Programs \cup {None}, proc : Nat]

ListTypes ==
  /\ store \in [Servers -> Entry \cup {None}]
  /\ allowed \subseteq Sessions \X Servers \X Tools
  /\ said \subseteq Servers \X Programs \X Tools

(* What is granted on the list was granted to the program the list names.   *)
GrantsWereMade ==
  \A s \in Servers : store[s] # None =>
    \A t \in store[s].granted : <<s, store[s].program, t>> \in said

(* The table has a server's own process, and so has a request that started  *)
(* one.                                                                     *)
Connected ==
  /\ procs \in Seq(Process) /\ connections \in [Servers -> {None} \cup Nat]
  /\ \A s \in Servers :
       /\ s \in BuiltIn <=> connections[s] = Inside
       /\ s \notin BuiltIn => connections[s] = None
            \/ (connections[s] \in DOMAIN procs /\ procs[connections[s]].server = s)

OnAProcess(w) ==
  \/ w.stage = "ready" /\ w.proc = Inside
  \/ w.proc \in DOMAIN procs /\ w.server \notin BuiltIn /\ procs[w.proc].server = w.server

Requested ==
  /\ DOMAIN req = Requests
  /\ \A r \in Requests : req[r] = Idle \/ (req[r] \in Working /\ OnAProcess(req[r]))

ServersInv == ListTypes /\ GrantsWereMade /\ Connected /\ Requested

(* A process that is up is in the table, or the one that is being started   *)
(* for a server that has none.                                              *)
StartsAreFirst ==
  \A r \in Requests : req[r].stage = "starting" => connections[req[r].server] = None

KnownInv == ServersInv /\ EveryProcessIsKnown /\ StartsAreFirst

(* Processes are started and end, and stay their server's.                  *)
Onward ==
  /\ procs' \in Seq(Process)
  /\ \A p \in DOMAIN procs : p \in DOMAIN procs' /\ procs'[p].server = procs[p].server

LEMMA NamesAreApart ==
  None \notin Nat /\ Inside \in Nat /\ None # Inside /\ None \notin Servers /\ None \notin Programs
BY ServersAssumption DEF Inside

LEMMA ProcsAre ==
  ASSUME Connected
  PROVE  /\ \A p \in DOMAIN procs : p \in Nat /\ p # Inside /\ p # None /\ procs[p] \in Process
         /\ DOMAIN procs = 1..Len(procs) /\ Len(procs) \in Nat
BY NamesAreApart DEF Connected, Inside

LEMMA Closes ==
  ASSUME Connected, NEW p
  PROVE  /\ Close(p) \in Seq(Process) /\ DOMAIN Close(p) = DOMAIN procs
         /\ \A q \in DOMAIN procs :
              Close(p)[q].server = procs[q].server /\ (Close(p)[q].up => q # p /\ procs[q].up)
<1>1. CASE p \notin DOMAIN procs
  BY <1>1 DEF Close, Connected
<1>2. CASE p \in DOMAIN procs
  <2> DEFINE ended == [procs[p] EXCEPT !.up = FALSE]
  <2>1. ended \in Process /\ ended.server = procs[p].server /\ ended.up = FALSE
    BY <1>2, ProcsAre DEF Process
  <2> HIDE DEF ended
  <2>2. Close(p) = [procs EXCEPT ![p] = ended]
    BY <1>2 DEF Close, ended
  <2>3. Close(p) \in Seq(Process)
    BY <1>2, <2>1, <2>2 DEF Connected
  <2>4. \A q \in DOMAIN procs : Close(p)[q] = IF q = p THEN ended ELSE procs[q]
    BY <2>2
  <2> QED BY <2>1, <2>2, <2>3, <2>4
<1> QED BY <1>1, <1>2

LEMMA RequestsGoOn ==
  ASSUME Requested, Onward, DOMAIN req' = Requests,
         \A r \in Requests :
           req'[r] = req[r] \/ req'[r] = Idle \/ (req'[r] \in Working /\ OnAProcess(req[r])')
  PROVE  Requested'
<1>1. ASSUME NEW r \in Requests, req'[r] = req[r], req[r] # Idle
      PROVE  req'[r] \in Working /\ OnAProcess(req[r])'
  <2>1. req[r] \in Working /\ OnAProcess(req[r])
    BY <1>1 DEF Requested
  <2> QED BY <1>1, <2>1 DEF Onward, OnAProcess
<1> QED BY <1>1 DEF Requested

(* _connect: on what there is, or on a process of its own.                  *)
LEMMA Connects ==
  ASSUME ServersInv, NEW r \in Requests, NEW x \in Sessions \cup {None}, NEW s \in Servers,
         NEW t \in Tools \cup {None}, Config(s) # None, Connect(r, x, s, t), UNCHANGED connections
  PROVE  /\ Connected' /\ Requested'
         /\ \A q \in Requests : q # r => req'[q] = req[q]
         /\ req'[r].unasked = x /\ req'[r].server = s /\ req'[r].tool = t
         /\ req'[r].program = Config(s).program
         /\ \A p \in DOMAIN procs' :
              \/ p \in DOMAIN procs /\ procs'[p] = procs[p]
              \/ req'[r].stage = "starting" /\ req'[r].proc = p
         /\ req'[r].stage = "starting" => connections[s] = None
<1>1. Connected /\ Requested /\ ListTypes
  BY DEF ServersInv
<1>2. Config(s).program \in Programs \cup {None} /\ (s \notin BuiltIn => Config(s).program \in Programs)
  BY <1>1 DEF ListTypes, Config, Entry
<1>3. \A w : w = Config(s).program => w \in Programs \cup {None}
  BY <1>2
<1>4. CASE connections[s] # None
  <2>1. connections[s] \in Nat
    BY <1>1, <1>4, NamesAreApart, ProcsAre DEF Connected
  <2> DEFINE new == Work("ready", x, s, t, connections[s])
  <2>2. /\ new \in Working /\ new.unasked = x /\ new.server = s /\ new.tool = t /\ new.stage = "ready"
        /\ new.program = Config(s).program /\ new.proc = connections[s]
    BY <1>2, <2>1 DEF Work, Working
  <2>3. OnAProcess(new)
    BY <1>1, <1>4, <2>2 DEF Connected, OnAProcess
  <2>4. req' = [req EXCEPT ![r] = new] /\ UNCHANGED procs
    BY <1>4 DEF Connect
  <2> HIDE DEF new
  <2>5. req'[r] = new /\ DOMAIN req' = Requests /\ \A q \in Requests : q # r => req'[q] = req[q]
    BY <1>1, <2>4 DEF Requested
  <2>6. Connected' /\ Onward
    BY <1>1, <2>4 DEF Connected, Onward
  <2>7. Requested'
    <3>1. OnAProcess(req[r])'
      BY <2>3, <2>4, <2>5 DEF OnAProcess
    <3> QED BY <1>1, <2>2, <2>5, <2>6, <3>1, RequestsGoOn
  <2> QED BY <2>2, <2>4, <2>5, <2>6, <2>7
<1>5. CASE connections[s] = None
  <2>1. s \notin BuiltIn
    BY <1>1, <1>5, NamesAreApart DEF Connected
  <2> DEFINE process == [server |-> s, program |-> Config(s).program, up |-> TRUE]
             new == Work("starting", x, s, t, Len(procs) + 1)
  <2>2. process \in Process /\ process.server = s
    BY <1>2, <2>1 DEF Process
  <2>3. Len(procs) \in Nat
    BY <1>1, ProcsAre
  <2>4. /\ new \in Working /\ new.unasked = x /\ new.server = s /\ new.tool = t /\ new.stage = "starting"
        /\ new.program = Config(s).program /\ new.proc = Len(procs) + 1
    BY <1>2, <2>3 DEF Work, Working
  <2>5. req' = [req EXCEPT ![r] = new] /\ procs' = Append(procs, process)
    BY <1>5 DEF Connect
  <2> HIDE DEF new, process
  <2>6. req'[r] = new /\ DOMAIN req' = Requests /\ \A q \in Requests : q # r => req'[q] = req[q]
    BY <1>1, <2>5 DEF Requested
  <2>7. /\ procs' \in Seq(Process) /\ DOMAIN procs' = 1..(Len(procs) + 1) /\ DOMAIN procs = 1..Len(procs)
        /\ procs'[Len(procs) + 1] = process /\ \A p \in 1..Len(procs) : procs'[p] = procs[p]
    BY <1>1, <2>2, <2>5 DEF Connected
  <2>8. Onward
    BY <2>3, <2>7 DEF Onward
  <2>9. Connected'
    BY <1>1, <2>3, <2>7, <2>8 DEF Connected, Onward
  <2>10. Requested'
    <3>1. OnAProcess(req[r])'
      BY <2>1, <2>2, <2>3, <2>4, <2>6, <2>7 DEF OnAProcess
    <3> QED BY <1>1, <2>4, <2>6, <2>8, <3>1, RequestsGoOn
  <2>11. \A p \in DOMAIN procs' : (p \in DOMAIN procs /\ procs'[p] = procs[p]) \/ p = Len(procs) + 1
    BY <2>3, <2>7
  <2> QED BY <1>5, <2>4, <2>6, <2>9, <2>10, <2>11
<1> QED BY <1>4, <1>5

(* The list changes and the processes do not, or the other way round.       *)
LEMMA ListChanges ==
  ASSUME ServersInv, UNCHANGED <<connections, procs, req>>, ListTypes', GrantsWereMade'
  PROVE  ServersInv'
<1>1. Connected'
  BY DEF ServersInv, Connected
<1>2. Requested'
  BY DEF ServersInv, Requested, OnAProcess
<1> QED BY <1>1, <1>2 DEF ServersInv

LEMMA ProcessesChange ==
  ASSUME ServersInv, UNCHANGED <<store, said>>, allowed' \subseteq allowed, Connected', Requested'
  PROVE  ServersInv'
<1>1. ListTypes' /\ GrantsWereMade'
  BY DEF ServersInv, ListTypes, GrantsWereMade
<1> QED BY <1>1 DEF ServersInv

LEMMA Disconnects ==
  ASSUME ServersInv, NEW s \in Servers, Disconnect(s)
  PROVE  /\ Connected' /\ Onward /\ (UNCHANGED req => Requested')
         /\ \A p \in DOMAIN procs' :
              /\ p \in DOMAIN procs
              /\ procs'[p].up => procs[p].up /\ \A q \in Servers : connections[q] = p => connections'[q] = p
         /\ \A q \in Servers : connections[q] = None => connections'[q] = None
<1>1. Connected /\ Requested
  BY DEF ServersInv
<1>2. CASE UNCHANGED <<connections, procs>>
  <2>1. Connected' /\ Onward
    BY <1>1, <1>2 DEF Connected, Onward
  <2>2. UNCHANGED req => Requested'
    BY <1>1, <2>1, RequestsGoOn DEF Requested
  <2> QED BY <1>2, <2>1, <2>2
<1>3. CASE s \notin BuiltIn /\ connections' = [connections EXCEPT ![s] = None] /\ procs' = Close(connections[s])
  <2>1. /\ procs' \in Seq(Process) /\ DOMAIN procs' = DOMAIN procs
        /\ \A q \in DOMAIN procs :
             procs'[q].server = procs[q].server /\ (procs'[q].up => q # connections[s] /\ procs[q].up)
    BY <1>1, <1>3, Closes
  <2>2. /\ connections'[s] = None /\ DOMAIN connections' = Servers
        /\ \A q \in Servers : q # s => connections'[q] = connections[q]
    BY <1>1, <1>3 DEF Connected
  <2>3. Onward
    BY <2>1 DEF Onward
  <2>4. Connected'
    BY <1>1, <1>3, <2>1, <2>2, NamesAreApart DEF Connected
  <2>5. UNCHANGED req => Requested'
    BY <1>1, <2>3, RequestsGoOn DEF Requested
  <2> QED BY <2>1, <2>2, <2>3, <2>4, <2>5
<1> QED BY <1>2, <1>3 DEF Disconnect

LEMMA ListSteps ==
  ASSUME ServersInv,
         \/ \E s \in Servers :
              \/ \E p \in Programs, on \in BOOLEAN : Attach(s, p, on)
              \/ Detach(s)
              \/ \E t \in Tools : Grant(s, t) \/ Revoke(s, t)
              \/ \E t \in Tools, x \in Sessions : AllowForSession(x, s, t)
              \/ \E m \in Mode : Declare(s, m)
         \/ \E p \in Programs : FileDriver(p)
         \/ DamageFile
  PROVE  ServersInv'
<1>1. ListTypes /\ GrantsWereMade /\ DOMAIN store = Servers
      /\ \A s \in Servers : store[s] # None => store[s] \in Entry
  BY DEF ServersInv, ListTypes
<1> DEFINE Listed == /\ UNCHANGED <<connections, procs, req>> /\ ListTypes' /\ GrantsWereMade'
<1>2. ASSUME NEW s \in Servers, NEW entry \in Entry, store' = [store EXCEPT ![s] = entry],
             UNCHANGED <<allowed, connections, procs, req>>,
             said' \subseteq Servers \X Programs \X Tools,
             \A t \in entry.granted : <<s, entry.program, t>> \in said',
             \A g \in said : g[1] # s => g \in said'
      PROVE  Listed
  <2>1. store'[s] = entry /\ \A q \in Servers : q # s => store'[q] = store[q]
    BY <1>1, <1>2
  <2>2. store' \in [Servers -> Entry \cup {None}]
    BY <1>1, <1>2 DEF ListTypes
  <2>3. ASSUME NEW q \in Servers, store'[q] # None, NEW t \in store'[q].granted
        PROVE  <<q, store'[q].program, t>> \in said'
    <3>1. CASE q = s
      BY <1>2, <2>1, <2>3, <3>1
    <3>2. CASE q # s
      BY <1>1, <1>2, <2>1, <2>3, <3>2 DEF GrantsWereMade
    <3> QED BY <3>1, <3>2
  <2> QED BY <1>1, <1>2, <2>2, <2>3 DEF ListTypes, GrantsWereMade
<1>3. \A p \in Programs : /\ Fresh(p) \in Entry /\ Fresh(p).program = p /\ Fresh(p).granted = {}
  BY DEF Fresh, Entry, Mode
<1>4. \A s \in Servers : Forget(s) =>
        /\ said' \subseteq Servers \X Programs \X Tools
        /\ \A g \in said : g[1] # s => g \in said'
  BY <1>1 DEF Forget, ListTypes
<1>5. ASSUME NEW s \in Servers, NEW p \in Programs, NEW on \in BOOLEAN, Attach(s, p, on) PROVE Listed
  <2> DEFINE entry == [Fresh(p) EXCEPT !.enabled = on]
  <2>1. entry \in Entry /\ entry.granted = {}
    BY <1>3 DEF Entry
  <2>2. store' = [store EXCEPT ![s] = entry] /\ Forget(s) /\ UNCHANGED <<allowed, connections, procs, req>>
    BY <1>5 DEF Attach, Attached
  <2> HIDE DEF entry
  <2> QED BY <1>2, <1>4, <2>1, <2>2
<1>6. ASSUME NEW s \in Servers, Detach(s) PROVE Listed
  <2>1. store' = [store EXCEPT ![s] = None] /\ Forget(s) /\ UNCHANGED <<allowed, connections, procs, req>>
    BY <1>6 DEF Detach
  <2>2. /\ store' \in [Servers -> Entry \cup {None}] /\ store'[s] = None
        /\ \A q \in Servers : q # s => store'[q] = store[q]
    BY <1>1, <2>1 DEF ListTypes
  <2>3. GrantsWereMade'
    BY <1>1, <1>4, <2>1, <2>2 DEF GrantsWereMade
  <2> QED BY <1>1, <1>4, <2>1, <2>2, <2>3 DEF ListTypes
<1>7. ASSUME NEW s \in Servers, NEW t \in Tools, Grant(s, t) \/ Revoke(s, t) PROVE Listed
  <2>1. store[s] \in Entry /\ store[s].program \in Programs /\ store[s].granted \in SUBSET Tools
        /\ \A u \in store[s].granted : <<s, store[s].program, u>> \in said
    BY <1>1, <1>7 DEF Grant, Revoke, Entry, GrantsWereMade
  <2>2. CASE Grant(s, t)
    <3> DEFINE entry == [store[s] EXCEPT !.granted = store[s].granted \cup {t}]
    <3>1. entry \in Entry /\ entry.granted = store[s].granted \cup {t} /\ entry.program = store[s].program
      BY <2>1 DEF Entry
    <3>2. /\ store' = [store EXCEPT ![s] = entry] /\ said' = said \cup {<<s, store[s].program, t>>}
          /\ UNCHANGED <<allowed, connections, procs, req>>
      BY <2>2 DEF Grant
    <3> HIDE DEF entry
    <3>3. said' \subseteq Servers \X Programs \X Tools
      BY <1>1, <2>1, <3>2 DEF ListTypes
    <3> QED BY <1>2, <2>1, <3>1, <3>2, <3>3
  <2>3. CASE Revoke(s, t)
    <3> DEFINE entry == [store[s] EXCEPT !.granted = store[s].granted \ {t}]
    <3>1. entry \in Entry /\ entry.granted = store[s].granted \ {t} /\ entry.program = store[s].program
      BY <2>1 DEF Entry
    <3>2. /\ store' = [store EXCEPT ![s] = entry] /\ said' = said \ {<<s, store[s].program, t>>}
          /\ UNCHANGED <<allowed, connections, procs, req>>
      BY <2>3 DEF Revoke
    <3> HIDE DEF entry
    <3>3. said' \subseteq Servers \X Programs \X Tools
      BY <1>1, <3>2 DEF ListTypes
    <3>4. \A u \in entry.granted : <<s, entry.program, u>> \in said'
      BY <2>1, <3>1, <3>2
    <3>5. \A g \in said : g[1] # s => g \in said'
      BY <3>2
    <3> QED BY <1>2, <3>1, <3>2, <3>3, <3>4, <3>5
  <2> QED BY <1>7, <2>2, <2>3
<1>8. ASSUME NEW s \in Servers, NEW x \in Sessions, NEW t \in Tools, AllowForSession(x, s, t) PROVE Listed
  BY <1>1, <1>8 DEF AllowForSession, ListTypes, GrantsWereMade
<1>9. ASSUME NEW s \in Servers, NEW m \in Mode, Declare(s, m) PROVE Listed
  <2> DEFINE entry == [store[s] EXCEPT !.writes = m]
  <2>1. entry \in Entry /\ entry.granted = store[s].granted /\ entry.program = store[s].program
    BY <1>1, <1>9 DEF Entry, Declare
  <2>2. store' = [store EXCEPT ![s] = entry] /\ UNCHANGED <<allowed, connections, procs, req, said>>
        /\ store[s] # None
    BY <1>9 DEF Declare
  <2> HIDE DEF entry
  <2> QED BY <1>1, <1>2, <2>1, <2>2 DEF ListTypes, GrantsWereMade
<1>10. ASSUME NEW p \in Programs, FileDriver(p) PROVE Listed
  <2>1. Driver \in Servers
    BY ServersAssumption
  <2>2. CASE store[Driver] # None /\ store[Driver].program = p
    <3> DEFINE entry == [store[Driver] EXCEPT !.enabled = TRUE]
    <3>1. entry \in Entry /\ entry.granted = store[Driver].granted /\ entry.program = store[Driver].program
      BY <1>1, <2>1, <2>2 DEF Entry
    <3>2. store' = [store EXCEPT ![Driver] = entry] /\ UNCHANGED <<allowed, connections, procs, req, said>>
      BY <1>10, <2>2 DEF FileDriver
    <3> HIDE DEF entry
    <3> QED BY <1>1, <1>2, <2>1, <2>2, <3>1, <3>2 DEF ListTypes, GrantsWereMade
  <2>3. CASE ~(store[Driver] # None /\ store[Driver].program = p)
    <3>1. store' = [store EXCEPT ![Driver] = Fresh(p)] /\ Forget(Driver)
          /\ UNCHANGED <<allowed, connections, procs, req>>
      BY <1>10, <2>3 DEF FileDriver
    <3> QED BY <1>2, <1>3, <1>4, <2>1, <3>1
  <2> QED BY <2>2, <2>3
<1>11. ASSUME DamageFile PROVE Listed
  BY <1>1, <1>11 DEF DamageFile, ListTypes, GrantsWereMade
<1>12. Listed
  <2> HIDE DEF Listed
  <2> QED BY <1>5, <1>6, <1>7, <1>8, <1>9, <1>10, <1>11
<1> QED BY <1>12, ListChanges

LEMMA StartedKeeps ==
  ASSUME ServersInv, NEW r \in Requests, Started(r)
  PROVE  /\ ServersInv' /\ req[r].server \in Servers /\ req[r].proc \in DOMAIN procs
         /\ connections'[req[r].server] = req[r].proc
         /\ \A s \in Servers : s # req[r].server => connections'[s] = connections[s]
         /\ req'[r].stage = "ready" /\ \A q \in Requests : q # r => req'[q] = req[q]
<1>1. Connected /\ Requested /\ req[r] \in Working /\ OnAProcess(req[r]) /\ req[r].stage = "starting"
  BY DEF ServersInv, Requested, Started, Idle
<1> DEFINE new == [req[r] EXCEPT !.stage = "ready"]
<1>2. /\ new \in Working /\ new.stage = "ready" /\ new.server = req[r].server /\ new.proc = req[r].proc
      /\ req[r].server \in Servers /\ req[r].proc \in Nat
  BY <1>1 DEF Working
<1>3. /\ connections' = [connections EXCEPT ![req[r].server] = req[r].proc]
      /\ req' = [req EXCEPT ![r] = new] /\ UNCHANGED <<store, allowed, procs, said>>
  BY DEF Started
<1> HIDE DEF new
<1>4. /\ req[r].proc \in DOMAIN procs /\ req[r].server \notin BuiltIn
      /\ procs[req[r].proc].server = req[r].server
  BY <1>1 DEF OnAProcess
<1>5. req'[r] = new /\ DOMAIN req' = Requests /\ \A q \in Requests : q # r => req'[q] = req[q]
  BY <1>1, <1>3 DEF Requested
<1>6. /\ connections'[req[r].server] = req[r].proc /\ DOMAIN connections' = Servers
      /\ \A s \in Servers : s # req[r].server => connections'[s] = connections[s]
  BY <1>1, <1>2, <1>3 DEF Connected
<1>7. req[r].proc # Inside
  BY <1>1, <1>4, ProcsAre
<1>8. Connected'
  BY <1>1, <1>2, <1>3, <1>4, <1>6, <1>7 DEF Connected
<1>9. Onward
  BY <1>1, <1>3 DEF Onward, Connected
<1>10. OnAProcess(req[r])'
  BY <1>2, <1>3, <1>4, <1>5 DEF OnAProcess
<1>11. Requested'
  BY <1>1, <1>2, <1>5, <1>9, <1>10, RequestsGoOn
<1>12. ServersInv'
  BY <1>3, <1>8, <1>11, ProcessesChange
<1> QED BY <1>2, <1>4, <1>5, <1>6, <1>12

(* A request ends, and with it perhaps a process.                           *)
LEMMA EndsKeep ==
  ASSUME ServersInv, \/ \E r \in Requests : StartFails(r) \/ Answers(r)
                     \/ \E p \in DOMAIN procs : Dies(p)
  PROVE  /\ ServersInv' /\ UNCHANGED connections
         /\ \A p \in DOMAIN procs' :
              /\ p \in DOMAIN procs
              /\ procs'[p].up =>
                   /\ procs[p].up
                   /\ \A r \in Requests :
                        req[r].stage = "starting" /\ req[r].proc = p => req'[r] = req[r]
         /\ \A r \in Requests : req'[r] = req[r] \/ req'[r] = Idle
<1>1. Connected /\ Requested
  BY DEF ServersInv
<1>2. ASSUME NEW p, procs' = Close(p) \/ UNCHANGED procs,
             UNCHANGED <<store, allowed, connections, said>>, DOMAIN req' = Requests,
             \A r \in Requests : req'[r] = req[r] \/ req'[r] = Idle
      PROVE  ServersInv'
  <2>1. Connected' /\ Onward
    BY <1>1, <1>2, Closes DEF Connected, Onward
  <2>2. Requested'
    BY <1>1, <1>2, <2>1, RequestsGoOn
  <2> QED BY <1>2, <2>1, <2>2, ProcessesChange
<1>3. ASSUME NEW r \in Requests, StartFails(r)
      PROVE  /\ ServersInv' /\ UNCHANGED connections
             /\ \A p \in DOMAIN procs' :
                  /\ p \in DOMAIN procs
                  /\ procs'[p].up => procs[p].up /\ p # req[r].proc
             /\ \A q \in Requests : q # r => req'[q] = req[q]
             /\ req'[r] = Idle
  <2>1. /\ procs' = Close(req[r].proc) /\ UNCHANGED <<store, allowed, connections, said>>
        /\ DOMAIN req' = Requests /\ req'[r] = Idle /\ \A q \in Requests : q # r => req'[q] = req[q]
    BY <1>1, <1>3 DEF StartFails, Requested
  <2>2. ServersInv'
    BY <1>2, <2>1
  <2> QED BY <1>1, <2>1, <2>2, Closes
<1>4. ASSUME NEW r \in Requests, Answers(r)
      PROVE  /\ ServersInv' /\ UNCHANGED <<connections, procs>>
             /\ \A q \in Requests : q # r => req'[q] = req[q]
             /\ req'[r] = Idle /\ req[r].stage = "ready"
  <2>1. /\ UNCHANGED <<store, allowed, connections, procs, said>> /\ req[r].stage = "ready"
        /\ DOMAIN req' = Requests /\ req'[r] = Idle /\ \A q \in Requests : q # r => req'[q] = req[q]
    BY <1>1, <1>4 DEF Answers, Requested
  <2> QED BY <1>2, <2>1
<1>5. ASSUME NEW p \in DOMAIN procs, Dies(p)
      PROVE  /\ ServersInv' /\ UNCHANGED <<connections, req>>
             /\ \A q \in DOMAIN procs' : q \in DOMAIN procs /\ (procs'[q].up => procs[q].up)
  <2>1. procs' = Close(p) /\ UNCHANGED <<store, allowed, connections, req, said>> /\ DOMAIN req' = Requests
    BY <1>1, <1>5 DEF Dies, Requested
  <2>2. ServersInv'
    BY <1>2, <2>1
  <2> QED BY <1>1, <2>1, <2>2, Closes
<1> QED BY <1>3, <1>4, <1>5

LEMMA RestartKeeps ==
  ASSUME ServersInv, Restart
  PROVE  /\ ServersInv' /\ \A p \in DOMAIN procs' : ~procs'[p].up
         /\ \A r \in Requests : req'[r] = Idle
<1>1. Connected /\ Requested
  BY DEF ServersInv
<1>2. /\ procs' = [p \in DOMAIN procs |-> [procs[p] EXCEPT !.up = FALSE]]
      /\ connections' = [s \in Servers |-> IF s \in BuiltIn THEN Inside ELSE None]
      /\ allowed' = {} /\ req' = [r \in Requests |-> Idle] /\ UNCHANGED <<store, said>>
  BY DEF Restart
<1>3. \A p \in DOMAIN procs :
        /\ [procs[p] EXCEPT !.up = FALSE] \in Process
        /\ [procs[p] EXCEPT !.up = FALSE].up = FALSE
        /\ [procs[p] EXCEPT !.up = FALSE].server = procs[p].server
  BY <1>1, ProcsAre DEF Process
<1>4. \A p \in DOMAIN procs :
        procs'[p] \in Process /\ procs'[p].up = FALSE /\ procs'[p].server = procs[p].server
  BY <1>2, <1>3
<1>5. DOMAIN procs' = 1..Len(procs) /\ Len(procs) \in Nat /\ procs' \in [1..Len(procs) -> Process]
  BY <1>1, <1>2, <1>4, ProcsAre
<1>6. procs' \in Seq(Process)
  BY <1>5, SeqDef
<1>7. Connected'
  BY <1>2, <1>6, NamesAreApart DEF Connected
<1>8. Requested'
  BY <1>2 DEF Requested
<1> QED BY <1>2, <1>4, <1>7, <1>8, ProcessesChange

LEMMA UsesKeep ==
  ASSUME ServersInv, NEW r \in Requests, NEW s \in Servers,
         \/ List(r, s)
         \/ \E t \in Tools, x \in Sessions, yes \in BOOLEAN : Ask(r, x, s, t, yes)
  PROVE  ServersInv'
<1>1. CASE List(r, s)
  <2>1. UNCHANGED <<store, allowed, said>> /\ Config(s) # None
    BY <1>1 DEF List
  <2>2. CASE Connect(r, None, s, None) /\ UNCHANGED connections
    <3>1. Connected' /\ Requested'
      BY <2>1, <2>2, Connects
    <3> QED BY <2>1, <3>1, ProcessesChange
  <2>3. CASE Disconnect(s) /\ UNCHANGED req
    <3>1. Connected' /\ Requested'
      BY <2>3, Disconnects
    <3> QED BY <2>1, <3>1, ProcessesChange
  <2> QED BY <1>1, <2>2, <2>3 DEF List
<1>2. ASSUME NEW t \in Tools, NEW x \in Sessions, NEW yes \in BOOLEAN, Ask(r, x, s, t, yes) PROVE ServersInv'
  <2>1. PICK z \in Sessions \cup {None} : Connect(r, z, s, t)
    BY <1>2 DEF Ask
  <2>2. UNCHANGED <<store, allowed, connections, said>> /\ Config(s) # None
    BY <1>2 DEF Ask
  <2>3. Connected' /\ Requested'
    BY <2>1, <2>2, Connects
  <2> QED BY <2>2, <2>3, ProcessesChange
<1> QED BY <1>1, <1>2

(* set_server_enabled: the entry first, and then the process.               *)
LEMMA SwitchKeeps ==
  ASSUME ServersInv, NEW s \in Servers, NEW on \in BOOLEAN, Switch(s, on)
  PROVE  ServersInv'
<1>1. /\ ListTypes /\ GrantsWereMade /\ Connected /\ Requested /\ DOMAIN store = Servers
      /\ store[s] # None /\ store[s] \in Entry /\ UNCHANGED <<allowed, req, said>>
  BY DEF ServersInv, ListTypes, Switch
<1> DEFINE entry == [store[s] EXCEPT !.enabled = on]
<1>2. entry \in Entry /\ entry.granted = store[s].granted /\ entry.program = store[s].program
  BY <1>1 DEF Entry
<1>3. store' = [store EXCEPT ![s] = entry]
  BY DEF Switch
<1> HIDE DEF entry
<1>4. ListTypes' /\ GrantsWereMade'
  BY <1>1, <1>2, <1>3 DEF ListTypes, GrantsWereMade
<1>5. CASE UNCHANGED <<connections, procs>>
  BY <1>1, <1>4, <1>5, ListChanges
<1>6. CASE Disconnect(s)
  <2>1. Connected' /\ Requested'
    BY <1>1, <1>6, Disconnects
  <2> QED BY <1>4, <2>1 DEF ServersInv
<1> QED BY <1>5, <1>6 DEF Switch

LEMMA ServersStep == ServersInv /\ [Next]_vars => ServersInv'
<1> SUFFICES ASSUME ServersInv, [Next]_vars PROVE ServersInv'
  OBVIOUS
<1>1. ASSUME NEW s \in Servers, EditsList(s) PROVE ServersInv'
  BY <1>1, ListSteps, SwitchKeeps DEF EditsList
<1>2. ASSUME NEW r \in Requests, Uses(r) PROVE ServersInv'
  BY <1>2, UsesKeep, StartedKeeps, EndsKeep DEF Uses
<1>3. ASSUME NEW p \in DOMAIN procs, Dies(p) PROVE ServersInv'
  BY <1>3, EndsKeep
<1>4. CASE (\E p \in Programs : FileDriver(p)) \/ DamageFile
  BY <1>4, ListSteps
<1>5. CASE Restart
  BY <1>5, RestartKeeps
<1>6. CASE UNCHANGED vars
  BY <1>6, ListChanges DEF ServersInv, ListTypes, GrantsWereMade, vars
<1> QED BY <1>1, <1>2, <1>3, <1>4, <1>5, <1>6 DEF Next

LEMMA ServersStart == Init => ServersInv
<1> SUFFICES ASSUME Init PROVE ServersInv
  OBVIOUS
<1>1. procs \in Seq(Process) /\ procs = <<>>
  BY DEF Init
<1>2. Connected
  BY <1>1, NamesAreApart DEF Init, Connected
<1> QED BY <1>2 DEF Init, ServersInv, ListTypes, GrantsWereMade, Requested

LEMMA ServersHold == Spec => []ServersInv
BY ServersStart, ServersStep, PTL DEF Spec

(* The types of the servers: a connection is a built-in's, or a process of  *)
(* the server it is filed under, and so is what a request works on.         *)
THEOREM ServersTypes == Spec => []ServersTypeOK
<1>1. ServersInv => ServersTypeOK
  <2> SUFFICES ASSUME ServersInv PROVE ServersTypeOK
    OBVIOUS
  <2>1. ListTypes /\ Connected /\ Requested
    BY DEF ServersInv
  <2>2. /\ connections \in [Servers -> {None, Inside} \cup DOMAIN procs]
        /\ \A s \in Servers : connections[s] = Inside <=> s \in BuiltIn
        /\ \A s \in Servers : connections[s] \in DOMAIN procs => procs[connections[s]].server = s
    BY <2>1, ProcsAre DEF Connected
  <2>3. \A r \in Requests : req[r] # Idle =>
          /\ req[r].stage \in {"starting", "ready"} /\ req[r].server \in Servers
          /\ req[r].proc \in {Inside} \cup DOMAIN procs
    BY <2>1 DEF Requested, Working, OnAProcess
  <2> QED BY <2>1, <2>2, <2>3 DEF ServersTypeOK, ListTypes, Connected, Process
<1> QED BY <1>1, ServersHold, PTL

-----------------------------------------------------------------------------
(* A call that is decided without a press in it changes something only on a *)
(* server the file marks as granted, on a grant made to the program the     *)
(* list names now, on one made for this conversation, or as a built-in's    *)
(* own: whatever was attached, replaced, revoked, damaged or filed again.   *)
THEOREM UnaskedWereAllowed == Spec => UnaskedChangesWereAllowed
<1> DEFINE AllowedFor(r) ==
      LET q == req'[r] IN
      \/ Reads(Seen(q.server, q.tool)) \/ Config(q.server).writes = "granted"
      \/ <<q.server, q.program, q.tool>> \in said
      \/ <<q.unasked, q.server, q.tool>> \in allowed
      \/ <<q.server, q.tool>> \in OwnGrants
<1> DEFINE Unasked(r) == req[r] = Idle /\ req'[r] # Idle /\ req'[r].unasked # None
<1>1. ASSUME ServersInv, [Next]_vars, NEW r \in Requests, Unasked(r) PROVE AllowedFor(r)
  <2>1. req[r].stage = "idle" /\ req'[r] # req[r] /\ DOMAIN req = Requests
    BY <1>1 DEF Idle, ServersInv, Requested
  <2>2. PICK q \in Requests : Uses(q)
    <3>1. UNCHANGED req \/ Restart \/ \E q \in Requests : Uses(q)
      BY <1>1 DEF Next, vars, EditsList, Attach, Detach, Grant, Revoke, AllowForSession, Declare, Switch,
                  Dies, FileDriver, DamageFile
    <3>2. Restart => req'[r] = Idle
      BY DEF Restart
    <3> QED BY <1>1, <2>1, <3>1, <3>2
  <2>3. q = r /\ ~Started(q) /\ ~StartFails(q) /\ ~Answers(q)
    <3>1. \A p \in Requests : p # r => ~Started(p) /\ ~StartFails(p) /\ ~Answers(p)
      BY <2>1 DEF Started, StartFails, Answers
    <3>2. ~Started(r) /\ ~StartFails(r) /\ ~Answers(r)
      BY <2>1 DEF Started, StartFails, Answers
    <3>3. ASSUME NEW p \in Requests, p # r, NEW s \in Servers, List(p, s) PROVE FALSE
      BY <2>1, <3>3 DEF List, Connect
    <3>4. ASSUME NEW p \in Requests, p # r, NEW s \in Servers, NEW t \in Tools, NEW x \in Sessions,
                 NEW yes \in BOOLEAN, Ask(p, x, s, t, yes)
          PROVE  FALSE
      BY <2>1, <3>4 DEF Ask, Connect
    <3> QED BY <2>2, <3>1, <3>2, <3>3, <3>4 DEF Uses
  <2>4. ASSUME NEW s \in Servers, List(r, s) PROVE FALSE
    <3>1. CASE Connect(r, None, s, None) /\ UNCHANGED connections
      <4>1. req'[r].unasked = None
        BY <1>1, <2>4, <3>1, Connects DEF List
      <4> QED BY <1>1, <4>1
    <3>2. CASE UNCHANGED req
      BY <2>1, <3>2
    <3> QED BY <2>4, <3>1, <3>2 DEF List
  <2>5. ASSUME NEW s \in Servers, NEW t \in Tools, NEW x \in Sessions, NEW yes \in BOOLEAN, Ask(r, x, s, t, yes)
        PROVE  AllowedFor(r)
    <3>1. PICK z \in Sessions \cup {None} : z = IF yes THEN None ELSE x
      BY <2>5
    <3>2. Connect(r, z, s, t) /\ UNCHANGED connections /\ Config(s) # None
      BY <2>5, <3>1 DEF Ask
    <3>3. /\ req'[r].unasked = z /\ req'[r].server = s /\ req'[r].tool = t
          /\ req'[r].program = Config(s).program
      BY <1>1, <3>2, Connects
    <3>4. z = x /\ yes = FALSE
      BY <1>1, <3>1, <3>3
    <3>5. Judged(x, s, t, FALSE) = "allow"
      BY <2>5, <3>4 DEF Ask
    <3>6. Decide(Seen(s, t), EffectiveMode(s, t), Granted(x, s, t)) = "allow"
      BY <3>5 DEF Judged, Gate, Decide
    <3>7. Reads(Seen(s, t)) \/ EffectiveMode(s, t) = "granted" \/ Granted(x, s, t)
      BY <3>6 DEF Decide
    <3>8. EffectiveMode(s, t) = "granted" => Config(s).writes = "granted" \/ <<s, t>> \in OwnGrants
      BY DEF EffectiveMode
    <3>9. t \in Config(s).granted => <<s, Config(s).program, t>> \in said
      <4>1. CASE store[s] # None
        BY <1>1, <4>1 DEF ServersInv, GrantsWereMade, Config
      <4>2. CASE store[s] = None
        BY <3>2, <4>2 DEF Config
      <4> QED BY <4>1, <4>2
    <3>10. Granted(x, s, t) =>
             <<s, Config(s).program, t>> \in said \/ <<s, t>> \in OwnGrants \/ <<x, s, t>> \in allowed
      BY <3>9 DEF Granted
    <3> QED BY <3>3, <3>4, <3>7, <3>8, <3>10
  <2> QED BY <2>2, <2>3, <2>4, <2>5 DEF Uses
<1> DEFINE Stepwise == \A r \in Requests : Unasked(r) => AllowedFor(r)
<1>2. ServersInv /\ [Next]_vars => [Stepwise]_vars
  BY <1>1
<1> QED BY <1>2, ServersHold, PTL DEF Spec, UnaskedChangesWereAllowed

-----------------------------------------------------------------------------
(* Processes.  Where there is one request at a time, a process is started   *)
(* only for a server that has none.                                         *)

OneRequest == \A q, r \in Requests : q = r

LEMMA KnownStep ==
  ASSUME OneRequest, KnownInv, [Next]_vars
  PROVE  EveryProcessIsKnown' /\ StartsAreFirst'
<1> USE DEF KnownInv
<1>1. /\ ServersInv /\ Connected /\ Requested /\ ServersInv' /\ EveryProcessIsKnown /\ StartsAreFirst
  BY ServersStep DEF ServersInv
<1>2. ASSUME UNCHANGED <<procs, connections, req>> PROVE EveryProcessIsKnown' /\ StartsAreFirst'
  BY <1>1, <1>2 DEF EveryProcessIsKnown, StartsAreFirst
<1>3. ASSUME NEW s \in Servers, Disconnect(s), UNCHANGED req PROVE EveryProcessIsKnown' /\ StartsAreFirst'
  <2>1. /\ \A p \in DOMAIN procs' :
             /\ p \in DOMAIN procs
             /\ procs'[p].up => procs[p].up /\ \A q \in Servers : connections[q] = p => connections'[q] = p
        /\ \A q \in Servers : connections[q] = None => connections'[q] = None
    BY <1>1, <1>3, Disconnects
  <2>2. EveryProcessIsKnown'
    BY <1>1, <1>3, <2>1 DEF EveryProcessIsKnown
  <2>3. \A r \in Requests : req[r].stage = "starting" => req[r].server \in Servers
    BY <1>1 DEF Requested, Working, Idle
  <2>4. StartsAreFirst'
    BY <1>1, <1>3, <2>1, <2>3 DEF StartsAreFirst
  <2> QED BY <2>2, <2>4
<1>4. ASSUME NEW r \in Requests, NEW x \in Sessions \cup {None}, NEW s \in Servers, NEW t \in Tools \cup {None},
             Config(s) # None, req[r] = Idle, Connect(r, x, s, t), UNCHANGED connections
      PROVE  EveryProcessIsKnown' /\ StartsAreFirst'
  <2>1. /\ req'[r].server = s
        /\ \A p \in DOMAIN procs' :
             \/ p \in DOMAIN procs /\ procs'[p] = procs[p]
             \/ req'[r].stage = "starting" /\ req'[r].proc = p
        /\ req'[r].stage = "starting" => connections[s] = None
    BY <1>1, <1>4, Connects
  <2>2. \A q \in Requests : q = r /\ req[q].stage # "starting"
    BY <1>4 DEF OneRequest, Idle
  <2>3. EveryProcessIsKnown'
    BY <1>1, <1>4, <2>1, <2>2 DEF EveryProcessIsKnown
  <2>4. StartsAreFirst'
    BY <1>4, <2>1, <2>2 DEF StartsAreFirst
  <2> QED BY <2>3, <2>4
<1>5. ASSUME NEW s \in Servers, EditsList(s) PROVE EveryProcessIsKnown' /\ StartsAreFirst'
  <2>1. CASE \E on \in BOOLEAN : Switch(s, on)
    BY <1>2, <1>3, <2>1 DEF Switch
  <2>2. CASE ~\E on \in BOOLEAN : Switch(s, on)
    BY <1>2, <1>5, <2>2 DEF EditsList, Attach, Detach, Grant, Revoke, AllowForSession, Declare
  <2> QED BY <2>1, <2>2
<1>6. ASSUME NEW r \in Requests, NEW s \in Servers, List(r, s) PROVE EveryProcessIsKnown' /\ StartsAreFirst'
  BY <1>3, <1>4, <1>6 DEF List
<1>7. ASSUME NEW r \in Requests, NEW s \in Servers, NEW t \in Tools, NEW x \in Sessions, NEW yes \in BOOLEAN,
             Ask(r, x, s, t, yes)
      PROVE  EveryProcessIsKnown' /\ StartsAreFirst'
  <2>1. PICK z \in Sessions \cup {None} : Connect(r, z, s, t)
    BY <1>7 DEF Ask
  <2> QED BY <1>4, <1>7, <2>1 DEF Ask
<1>8. ASSUME NEW r \in Requests, Started(r) PROVE EveryProcessIsKnown' /\ StartsAreFirst'
  <2>1. /\ req[r].server \in Servers /\ connections'[req[r].server] = req[r].proc
        /\ \A s \in Servers : s # req[r].server => connections'[s] = connections[s]
        /\ req'[r].stage = "ready" /\ UNCHANGED procs
    BY <1>1, <1>8, StartedKeeps DEF Started
  <2>2. \A q \in Requests : q = r
    BY DEF OneRequest
  <2>3. connections[req[r].server] = None
    BY <1>1, <1>8 DEF StartsAreFirst, Started
  <2>4. \A p \in DOMAIN procs : p # None
    BY <1>1, ProcsAre
  <2>5. EveryProcessIsKnown'
    BY <1>1, <2>1, <2>2, <2>3, <2>4 DEF EveryProcessIsKnown
  <2>6. StartsAreFirst'
    BY <2>1, <2>2 DEF StartsAreFirst
  <2> QED BY <2>5, <2>6
<1>9. ASSUME \/ \E r \in Requests : StartFails(r) \/ Answers(r)
             \/ \E p \in DOMAIN procs : Dies(p)
      PROVE  EveryProcessIsKnown' /\ StartsAreFirst'
  <2>1. /\ UNCHANGED connections
        /\ \A p \in DOMAIN procs' :
             /\ p \in DOMAIN procs
             /\ procs'[p].up =>
                  /\ procs[p].up
                  /\ \A r \in Requests :
                       req[r].stage = "starting" /\ req[r].proc = p => req'[r] = req[r]
        /\ \A r \in Requests : req'[r] = req[r] \/ (req'[r] = Idle /\ req'[r].stage = "idle")
    BY <1>1, <1>9, EndsKeep DEF Idle
  <2>2. EveryProcessIsKnown'
    BY <1>1, <2>1 DEF EveryProcessIsKnown
  <2>3. StartsAreFirst'
    BY <1>1, <2>1 DEF StartsAreFirst
  <2> QED BY <2>2, <2>3
<1>10. ASSUME NEW r \in Requests, Uses(r) PROVE EveryProcessIsKnown' /\ StartsAreFirst'
  BY <1>6, <1>7, <1>8, <1>9, <1>10 DEF Uses
<1>11. ASSUME (\E p \in Programs : FileDriver(p)) \/ DamageFile PROVE EveryProcessIsKnown' /\ StartsAreFirst'
  BY <1>2, <1>11 DEF FileDriver, DamageFile
<1>12. ASSUME Restart PROVE EveryProcessIsKnown' /\ StartsAreFirst'
  BY <1>1, <1>12, RestartKeeps DEF EveryProcessIsKnown, StartsAreFirst, Idle
<1>13. ASSUME UNCHANGED vars PROVE EveryProcessIsKnown' /\ StartsAreFirst'
  BY <1>2, <1>13 DEF vars
<1> QED BY <1>5, <1>9, <1>10, <1>11, <1>12, <1>13 DEF Next

(* Where there is one request at a time: a process that is up is in the     *)
(* table the switch and shutdown go by, or still being started.             *)
THEOREM ProcessesAreKnown == OneRequest => (Spec => []EveryProcessIsKnown)
<1> SUFFICES ASSUME OneRequest PROVE Spec => []EveryProcessIsKnown
  OBVIOUS
<1>1. Init => KnownInv
  BY ServersStart DEF Init, KnownInv, EveryProcessIsKnown, StartsAreFirst, Idle
<1>2. KnownInv /\ [Next]_vars => KnownInv'
  BY ServersStep, KnownStep DEF KnownInv
<1>3. KnownInv => EveryProcessIsKnown
  BY DEF KnownInv
<1> QED BY <1>1, <1>2, <1>3, PTL DEF Spec
=============================================================================
