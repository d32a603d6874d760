----------------------------- MODULE ModelServers -----------------------------
(***************************************************************************)
(* Starting one local model server (providers/model_servers.py) from boot  *)
(* (main.py, _bring_up_model_servers) and from the Start button            *)
(* (providers/api.py), and having its models show: the rescans that read   *)
(* every provider and then replace the catalogue (providers/manager.py).   *)
(* A probe, the decision under _lock, and the two halves of a scan are     *)
(* steps of their own.  Time passes in half minutes.                       *)
(***************************************************************************)
EXTENDS Integers, FiniteSets

CONSTANTS
  Boot,           (* the task that starts the server with Zaram              *)
  Presses,        (* presses of Start                                        *)
  Listings,       (* requests that list models, or ask for a rescan          *)
  Processes,      (* the servers that may come to be spawned                 *)
  NotLaunched,    (* no entry in _launches                                   *)
  SlowestStart,   (* half minutes a server may take to answer or die         *)
  ServerEvents    (* which of the events below may happen                    *)

ASSUME ServersAssumption ==
  /\ Boot \notin Presses \cup Listings /\ Presses \cap Listings = {}
  /\ NotLaunched \notin Processes /\ SlowestStart \in Nat
  /\ ServerEvents \subseteq {"crash", "relaunch", "rescan", "refused"}

RELAUNCH_GUARD == 2          (* RELAUNCH_GUARD_SECONDS                       *)
STALLED        == 4          (* STALLED_AFTER_SECONDS                        *)
PATIENCE       == 5          (* the timeout of refresh_when_up               *)

VARIABLES
  process,        (* of each server: how it is, and since when               *)
  launched,       (* _launches: the last one spawned                         *)
  doing,          (* where each coroutine is                                 *)
  waited,         (* how long it has watched                                 *)
  found,          (* whether its scan found the server                       *)
  listed,         (* the catalogue holds the server's models                 *)
  scanned         (* _scanned                                                *)

catalogueVars == <<listed, scanned>>
serverVars == <<process, launched, doing, waited, found, catalogueVars>>

Coroutines == {Boot} \cup Presses \cup Listings
Starters   == {Boot} \cup Presses

Being(how) == {p \in Processes : process[p].is = how}
Alive      == Being("starting") \cup Being("serving")
Serving    == Being("serving") # {}

Launching == launched # NotLaunched /\ process[launched].is \in {"starting", "serving"}
(* Mutant of Guarded: only what answers counts as launched.                 *)
GuardedOnceServing == launched # NotLaunched /\ process[launched].is = "serving"

Guarded   == Launching /\ process[launched].age < RELAUNCH_GUARD

Becomes(p, how) == process' = [process EXCEPT ![p] = [@ EXCEPT !.is = how]]
Reaches(c, where) == doing' = [doing EXCEPT ![c] = where]

-----------------------------------------------------------------------------
(* start *)

Press(c) ==
  /\ c \in Presses /\ doing[c] = "idle"
  /\ Reaches(c, "probing")
  /\ UNCHANGED <<process, launched, waited, found, catalogueVars>>

(* What serves already needs no start, and no rescan.                       *)
ProbePort(c) ==
  /\ doing[c] = "probing"
  /\ Reaches(c, IF Serving THEN "done" ELSE "deciding")
  /\ UNCHANGED <<process, launched, waited, found, catalogueVars>>

(* Under the lock: a launch that is young and alive is left to come up.     *)
Spare(c) ==
  /\ doing[c] = "deciding" /\ Guarded
  /\ Reaches(c, "watching")
  /\ waited' = [waited EXCEPT ![c] = 0]
  /\ UNCHANGED <<process, launched, found, catalogueVars>>

Spawn(c) ==
  /\ doing[c] = "deciding" /\ ~Guarded
  /\ \/ /\ \E p \in Being("unborn") :
             process' = [process EXCEPT ![p] = [is |-> "starting", age |-> 0]] /\ launched' = p
        /\ Reaches(c, "watching")
        /\ waited' = [waited EXCEPT ![c] = 0]
     \/ "refused" \in ServerEvents /\ Reaches(c, "done") /\ UNCHANGED <<process, launched, waited>>
  /\ UNCHANGED <<found, catalogueVars>>

-----------------------------------------------------------------------------
(* refresh_when_up *)

(* Nothing is on its way up any more.                                       *)
Hopeless(c) ==
  \/ launched = NotLaunched \/ process[launched].is = "dead"
  \/ process[launched].age > STALLED
  \/ waited[c] >= PATIENCE

Watch(c) ==
  /\ doing[c] = "watching"
  /\ \/ Serving /\ waited[c] < PATIENCE /\ Reaches(c, "reading")
     \/ (~Serving \/ waited[c] >= PATIENCE) /\ Hopeless(c) /\ Reaches(c, "done")
  /\ UNCHANGED <<process, launched, waited, found, catalogueVars>>

-----------------------------------------------------------------------------
(* refresh: the first listing scans, and every rescan does. *)

List(c) ==
  /\ c \in Listings /\ doing[c] = "idle"
  /\ ~scanned \/ "rescan" \in ServerEvents
  /\ Reaches(c, "reading")
  /\ UNCHANGED <<process, launched, waited, found, catalogueVars>>

(* scan_models asks the providers one after another.                        *)
ReadProviders(c) ==
  /\ doing[c] = "reading"
  /\ found' = [found EXCEPT ![c] = Serving]
  /\ Reaches(c, "replacing")
  /\ UNCHANGED <<process, launched, waited, catalogueVars>>

(* The catalogue is cleared and filled with what was read.                  *)
ReplaceCatalogue(c) ==
  /\ doing[c] = "replacing"
  /\ listed' = found[c] /\ scanned' = TRUE
  /\ Reaches(c, "done")
  /\ UNCHANGED <<process, launched, waited, found>>

-----------------------------------------------------------------------------
(* The servers, the backend and the clock. *)

(* A port is served by one; another that comes to it dies.                  *)
ComesUp(p) ==
  /\ process[p].is = "starting"
  /\ Becomes(p, IF Serving THEN "dead" ELSE "serving")
  /\ UNCHANGED <<launched, doing, waited, found, catalogueVars>>

Crash(p) ==
  /\ "crash" \in ServerEvents /\ p \in Alive
  /\ Becomes(p, "dead")
  /\ UNCHANGED <<launched, doing, waited, found, catalogueVars>>

(* The backend starts again; a detached server lives on.                    *)
BackendReturns ==
  /\ "relaunch" \in ServerEvents
  /\ doing' = [c \in Coroutines |-> IF c = Boot THEN "probing" ELSE "idle"]
  /\ launched' = NotLaunched
  /\ waited' = [c \in Starters |-> 0] /\ found' = [c \in Coroutines |-> FALSE]
  /\ listed' = FALSE /\ scanned' = FALSE
  /\ UNCHANGED process

(* Watches look every second, and the rest takes seconds.                   *)
Prompt(c) ==
  \/ doing[c] \in {"idle", "done"}
  \/ doing[c] = "watching" /\ ~Serving /\ ~Hopeless(c)

HalfMinute ==
  /\ \A c \in Coroutines : Prompt(c)
  /\ \A p \in Being("starting") : process[p].age < SlowestStart
  /\ process' = [p \in Processes |->
       IF p \in Alive /\ process[p].age <= STALLED THEN [process[p] EXCEPT !.age = @ + 1]
                                                   ELSE process[p]]
  /\ waited' = [c \in Starters |-> IF doing[c] = "watching" THEN waited[c] + 1 ELSE waited[c]]
  /\ UNCHANGED <<launched, doing, found, catalogueVars>>

-----------------------------------------------------------------------------
ServersInit ==
  /\ process = [p \in Processes |-> [is |-> "unborn", age |-> 0]]
  /\ launched = NotLaunched
  /\ doing = [c \in Coroutines |-> IF c = Boot THEN "probing" ELSE "idle"]
  /\ waited = [c \in Starters |-> 0] /\ found = [c \in Coroutines |-> FALSE]
  /\ listed = FALSE /\ scanned = FALSE

Starts(c)  == ProbePort(c) \/ Spare(c) \/ Spawn(c) \/ Watch(c)
Scans(c)   == ReadProviders(c) \/ ReplaceCatalogue(c)
RunsOn(c)  == Starts(c) \/ Scans(c)

ServersNext ==
  \/ \E c \in Presses : Press(c)
  \/ \E c \in Listings : List(c)
  \/ \E c \in Coroutines : RunsOn(c)
  \/ \E p \in Processes : ComesUp(p) \/ Crash(p)
  \/ BackendReturns \/ HalfMinute

(* The coroutines run on; a server need not answer, nor anybody press.      *)
ServersSpec ==
  /\ ServersInit /\ [][ServersNext]_serverVars
  /\ \A c \in Coroutines : WF_serverVars(RunsOn(c))

-----------------------------------------------------------------------------
(* Properties. *)

ServersTypeOK ==
  /\ process \in [Processes -> [is : {"unborn", "starting", "serving", "dead"}, age : 0 .. STALLED + 1]]
  /\ launched \in Processes \cup {NotLaunched}
  /\ doing \in [Coroutines -> {"idle", "probing", "deciding", "watching", "reading", "replacing", "done"}]
  /\ waited \in [Starters -> 0 .. PATIENCE] /\ found \in [Coroutines -> BOOLEAN]
  /\ listed \in BOOLEAN /\ scanned \in BOOLEAN

(* "Two clicks, or a click racing the automatic start, must not spawn two   *)
(* servers."                                                                *)
OneServer == Cardinality(Alive) <= 1

(* A watch that was there when the server answered has its models listed.   *)
WatchedIsListed ==
  \A c \in Starters : (doing[c] = "watching" /\ Serving) ~> (listed \/ ~Serving)

(* "Once the server answers, Zaram rescans its models itself": what serves  *)
(* is not left out of a catalogue that has been read.                       *)
ServingIsListed == (Serving /\ scanned) ~> (listed \/ ~Serving)
==============================================================================
