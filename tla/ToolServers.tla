------------------------------ MODULE ToolServers ------------------------------
(***************************************************************************)
(* The tool servers: the list the person keeps (runtimes/mcp/config.py,    *)
(* edited through runtimes/mcp/api.py and the settings server), the        *)
(* processes started for it and the calls made on them                     *)
(* (runtimes/mcp/runtime.py).  A route and a decision run whole; starting  *)
(* a process and calling a tool wait on a thread, and the rest of the      *)
(* program runs meanwhile.                                                 *)
(***************************************************************************)
EXTENDS ToolPolicy, Sequences

CONSTANTS
  Servers, BuiltIn,  (* by name; the ones Zaram ships, in process           *)
  Driver,            (* the server cua-driver is filed as                   *)
  Programs,          (* command lines                                       *)
  Undoes,            (* the programs of KNOWN_HOSTS                         *)
  Tools, Traits,     (* what ToolPolicy can tell of a tool on a server      *)
  OwnGrants,         (* what a built-in reports as granted                  *)
  Sessions, Requests,
  None,
  MaxProcs           (* bound on the processes ever started                 *)

ASSUME ServersAssumption ==
  /\ BuiltIn \subseteq Servers /\ Driver \in Servers /\ Undoes \subseteq Programs
  /\ Traits \in [Servers -> [Tools -> Call]]
  /\ OwnGrants \subseteq BuiltIn \X Tools
  /\ None \notin Servers \cup Programs \cup Tools \cup Sessions \cup Nat
  /\ MaxProcs \in Nat

VARIABLES
  store,        (* mcp-servers.json: server -> its entry, or None           *)
  allowed,      (* _session_grants                                          *)
  connections,  (* _connections: None, Inside, or a process                 *)
  procs,        (* every process started, and whether it is up              *)
  req,          (* request -> the call or the listing it is making          *)
  said          (* history: the grants the person has made and not undone   *)

vars == <<store, allowed, connections, procs, req, said>>

Inside == 0     (* the connection to a built-in, which has no process        *)

Entry == [program : Programs, writes : Mode, granted : SUBSET Tools, enabled : BOOLEAN]
Fresh(p) == [program |-> p, granted |-> {}, enabled |-> TRUE,
             writes  |-> IF p \in Undoes THEN "host_undo" ELSE "read_only"]

-----------------------------------------------------------------------------
(* A built-in is configured in the program itself; an entry of the same     *)
(* name in the file wins.                                                   *)
Config(s) ==
  IF store[s] # None THEN store[s]
  ELSE IF s \in BuiltIn
       THEN [program |-> None, writes |-> "read_only", granted |-> {}, enabled |-> TRUE]
  ELSE None

EffectiveMode(s, t) ==
  IF Config(s).writes = "read_only" /\ <<s, t>> \in OwnGrants THEN "granted"
  ELSE Config(s).writes

Granted(x, s, t) ==
  t \in Config(s).granted \/ <<s, t>> \in OwnGrants \/ <<x, s, t>> \in allowed

(* No caller passes a server's annotations on.                              *)
Seen(s, t) == [Traits[s][t] EXCEPT !.hinted = FALSE]

Judged(x, s, t, confirmed) ==
  Gate(Seen(s, t), EffectiveMode(s, t), Granted(x, s, t), confirmed)

-----------------------------------------------------------------------------
(* The list: load, change, save.                                            *)

Forget(s) == said' = {g \in said : g[1] # s}

(* Mutant of Attached: an entry replaced by another keeps its grants.       *)
AttachedKeeping(s, p) ==
  IF store[s] = None THEN Fresh(p) ELSE [Fresh(p) EXCEPT !.granted = store[s].granted]
Attached(s, p) == Fresh(p)

Attach(s, p, on) ==
  /\ store' = [store EXCEPT ![s] = [Attached(s, p) EXCEPT !.enabled = on]]
  /\ Forget(s)
  /\ UNCHANGED <<allowed, connections, procs, req>>

Detach(s) ==
  /\ store[s] # None
  /\ store' = [store EXCEPT ![s] = None]
  /\ Forget(s)
  /\ UNCHANGED <<allowed, connections, procs, req>>

(* _connect_cua_driver: the driver is filed again after it is installed.    *)
FileDriver(p) ==
  /\ LET same == store[Driver] # None /\ store[Driver].program = p IN
     /\ store' = [store EXCEPT ![Driver] =
                    IF same THEN [@ EXCEPT !.enabled = TRUE] ELSE Fresh(p)]
     /\ IF same THEN UNCHANGED said ELSE Forget(Driver)
  /\ UNCHANGED <<allowed, connections, procs, req>>

Grant(s, t) ==
  /\ store[s] # None
  /\ store' = [store EXCEPT ![s].granted = @ \cup {t}]
  /\ said' = said \cup {<<s, store[s].program, t>>}
  /\ UNCHANGED <<allowed, connections, procs, req>>

Revoke(s, t) ==
  /\ store[s] # None
  /\ store' = [store EXCEPT ![s].granted = @ \ {t}]
  /\ said' = said \ {<<s, store[s].program, t>>}
  /\ UNCHANGED <<allowed, connections, procs, req>>

AllowForSession(x, s, t) ==
  /\ Config(s) # None
  /\ allowed' = allowed \cup {<<x, s, t>>}
  /\ UNCHANGED <<store, connections, procs, req, said>>

(* The person marks a server in the file by hand, or damages it: a file     *)
(* that does not parse lists no servers.                                    *)
Declare(s, mode) ==
  /\ store[s] # None
  /\ store' = [store EXCEPT ![s].writes = mode]
  /\ UNCHANGED <<allowed, connections, procs, req, said>>

DamageFile ==
  /\ store' = [s \in Servers |-> None]
  /\ said' = {}
  /\ UNCHANGED <<allowed, connections, procs, req>>

-----------------------------------------------------------------------------
(* Processes and connections.                                               *)

Close(p) == IF p \in DOMAIN procs THEN [procs EXCEPT ![p].up = FALSE] ELSE procs

(* Mutant of Disconnect: the server is forgotten and goes on running.       *)
DisconnectForgetting(s) ==
  IF s \in BuiltIn THEN UNCHANGED <<connections, procs>>
  ELSE /\ connections' = [connections EXCEPT ![s] = None]
       /\ UNCHANGED procs

Disconnect(s) ==
  IF s \in BuiltIn THEN UNCHANGED <<connections, procs>>
  ELSE /\ connections' = [connections EXCEPT ![s] = None]
       /\ procs' = Close(connections[s])

(* set_server_enabled: off stops the process at once.                       *)
Switch(s, on) ==
  /\ store[s] # None
  /\ store' = [store EXCEPT ![s].enabled = on]
  /\ IF on THEN UNCHANGED <<connections, procs>> ELSE Disconnect(s)
  /\ UNCHANGED <<allowed, req, said>>

(* unasked: the conversation a call is decided for without a press in it,   *)
(* None after a press and for a listing.                                    *)
Idle == [stage |-> "idle"]
Work(stage, x, s, t, proc) ==
  [stage |-> stage, unasked |-> x, server |-> s, tool |-> t,
   program |-> Config(s).program, proc |-> proc]

(* _connect: what is connected is used as it is; otherwise a process is     *)
(* started, on a thread.                                                    *)
Connect(r, x, s, t) ==
  IF connections[s] # None
  THEN /\ req' = [req EXCEPT ![r] = Work("ready", x, s, t, connections[s])]
       /\ UNCHANGED procs
  ELSE /\ Len(procs) < MaxProcs
       /\ procs' = Append(procs, [server |-> s, program |-> Config(s).program, up |-> TRUE])
       /\ req' = [req EXCEPT ![r] = Work("starting", x, s, t, Len(procs) + 1)]

Started(r) ==
  /\ req[r].stage = "starting"
  /\ connections' = [connections EXCEPT ![req[r].server] = req[r].proc]
  /\ req' = [req EXCEPT ![r].stage = "ready"]
  /\ UNCHANGED <<store, allowed, procs, said>>

StartFails(r) ==
  /\ req[r].stage = "starting"
  /\ procs' = Close(req[r].proc)
  /\ req' = [req EXCEPT ![r] = Idle]
  /\ UNCHANGED <<store, allowed, connections, said>>

Dies(p) ==
  /\ procs[p].up
  /\ procs' = Close(p)
  /\ UNCHANGED <<store, allowed, connections, req, said>>

-----------------------------------------------------------------------------
(* Listing and calling.                                                     *)

(* available_tools, one server of it: what is off is stopped.               *)
List(r, s) ==
  /\ req[r] = Idle /\ Config(s) # None
  /\ IF Config(s).enabled
     THEN Connect(r, None, s, None) /\ UNCHANGED connections
     ELSE Disconnect(s) /\ UNCHANGED req
  /\ UNCHANGED <<store, allowed, said>>

(* execute: decided, and then connected to.  The two answers that are not   *)
(* to run it change nothing here.                                           *)
Ask(r, x, s, t, confirmed) ==
  /\ req[r] = Idle /\ Config(s) # None /\ Config(s).enabled
  /\ Judged(x, s, t, confirmed) = "allow"
  /\ Connect(r, IF confirmed THEN None ELSE x, s, t)
  /\ UNCHANGED <<store, allowed, connections, said>>

(* call_tool, or list_tools, on the process there was; it answers or fails. *)
Answers(r) ==
  /\ req[r].stage = "ready"
  /\ req' = [req EXCEPT ![r] = Idle]
  /\ UNCHANGED <<store, allowed, connections, procs, said>>

(* shutdown, and the next start: what shutdown does not close ends with the *)
(* pipes of the process that started it.                                    *)
Restart ==
  /\ procs' = [p \in DOMAIN procs |-> [procs[p] EXCEPT !.up = FALSE]]
  /\ connections' = [s \in Servers |-> IF s \in BuiltIn THEN Inside ELSE None]
  /\ allowed' = {}
  /\ req' = [r \in Requests |-> Idle]
  /\ UNCHANGED <<store, said>>

-----------------------------------------------------------------------------
Init ==
  /\ store = [s \in Servers |-> None]
  /\ allowed = {}
  /\ connections = [s \in Servers |-> IF s \in BuiltIn THEN Inside ELSE None]
  /\ procs = <<>>
  /\ req = [r \in Requests |-> Idle]
  /\ said = {}

EditsList(s) ==
  \/ \E p \in Programs, on \in BOOLEAN : Attach(s, p, on)
  \/ Detach(s)
  \/ \E t \in Tools : Grant(s, t) \/ Revoke(s, t)
  \/ \E t \in Tools, x \in Sessions : AllowForSession(x, s, t)
  \/ \E mode \in Mode : Declare(s, mode)
  \/ \E on \in BOOLEAN : Switch(s, on)

Uses(r) ==
  \/ \E s \in Servers : List(r, s)
  \/ \E s \in Servers, t \in Tools, x \in Sessions, yes \in BOOLEAN : Ask(r, x, s, t, yes)
  \/ Started(r) \/ StartFails(r) \/ Answers(r)

Next ==
  \/ \E s \in Servers : EditsList(s)
  \/ \E r \in Requests : Uses(r)
  \/ \E p \in DOMAIN procs : Dies(p)
  \/ \E p \in Programs : FileDriver(p)
  \/ DamageFile \/ Restart

Spec == Init /\ [][Next]_vars

-----------------------------------------------------------------------------
(* Properties. *)

ServersTypeOK ==
  /\ store \in [Servers -> Entry \cup {None}]
  /\ allowed \subseteq Sessions \X Servers \X Tools
  /\ procs \in Seq([server : Servers, program : Programs, up : BOOLEAN])
  /\ connections \in [Servers -> {None, Inside} \cup DOMAIN procs]
  /\ \A s \in Servers : connections[s] = Inside <=> s \in BuiltIn
  /\ \A s \in Servers : connections[s] \in DOMAIN procs => procs[connections[s]].server = s
  /\ \A r \in Requests : req[r] # Idle =>
       /\ req[r].stage \in {"starting", "ready"} /\ req[r].server \in Servers
       /\ req[r].proc \in {Inside} \cup DOMAIN procs
  /\ said \subseteq Servers \X Programs \X Tools

(* "Carrying consent across that would let an edit inherit permission given *)
(* for something else": a change is decided unasked only on a grant made to *)
(* the program the list names now, or for the conversation it is made in,   *)
(* or by a built-in of its own tools.                                       *)
UnaskedChangesWereAllowed ==
  [][\A r \in Requests :
       req[r] = Idle /\ req'[r] # Idle /\ req'[r].unasked # None =>
         LET q == req'[r] IN
         \/ Reads(Seen(q.server, q.tool)) \/ Config(q.server).writes = "granted"
         \/ <<q.server, q.program, q.tool>> \in said
         \/ <<q.unasked, q.server, q.tool>> \in allowed
         \/ <<q.server, q.tool>> \in OwnGrants]_vars

(* No process is left running that nothing can stop: each is in the table   *)
(* that shutdown and the switch go by, or still being started.              *)
EveryProcessIsKnown ==
  \A p \in DOMAIN procs : procs[p].up =>
    \/ \E s \in Servers : connections[s] = p
    \/ \E r \in Requests : req[r].stage = "starting" /\ req[r].proc = p

(* What comments say and the runs refute. *)

(* "A changed command is a different program" (api.py:212): a call that is  *)
(* about to run, runs in the program its server's entry named.              *)
RunsTheProgramNamed ==
  \A r \in Requests : req[r] # Idle /\ req[r].stage = "ready" /\ req[r].proc # Inside =>
    procs[req[r].proc].program = req[r].program

(* "Off is true the moment the switch says it" (api.py:276).                *)
OffIsOff ==
  \A s \in Servers \ BuiltIn : store[s] # None /\ ~store[s].enabled => connections[s] = None

(* "Remove a server, and every grant made to it" (api.py:260).              *)
RemovedWithItsGrants ==
  [][\A s \in Servers, x \in Sessions, t \in Tools :
       store[s] # None /\ store'[s] = None => <<x, s, t>> \notin allowed']_vars
=============================================================================
