---------------------------- MODULE BackendLauncher ----------------------------
(***************************************************************************)
(* The desktop host's supervision of the Python backend:                   *)
(*   electron/backend/backendLauncher.js   spawn, probe, respawn, restart  *)
(*   electron/main.js                      the window that follows it      *)
(* and, as its environment, the processes it spawns (src/backend/main.py)  *)
(* and the one port they listen on.  Every handler runs to its end on the  *)
(* host's only thread, so each is one step; a process exits, and its exit  *)
(* event and a probe's answer reach the host, at any later step.           *)
(***************************************************************************)
EXTENDS Naturals, FiniteSets

CONSTANTS
  Procs,             (* process identities, reused once reaped              *)
  None,              (* no process                                          *)
  UNANSWERED_LIMIT,  (* probes a live backend may leave unanswered          *)
  MaxProbes,         (* bound: probes in flight (a 3 s timeout, every 2 s)  *)
  Events             (* what a run lets happen: crash, restart, nospawn     *)

ASSUME LauncherAssumption ==
  /\ None \notin Procs
  /\ UNANSWERED_LIMIT \in Nat \ {0}
  /\ MaxProbes \in Nat
  /\ Events \subseteq {"crash", "restart", "nospawn"}

VARIABLES
  proc,          (* process -> what it is doing                             *)
  port,          (* the process listening, or None                          *)
  child,         (* this.child                                              *)
  state,         (* this.status.state                                       *)
  failures,      (* this._failures, counted up to the limit                 *)
  stopping,      (* this._stopping                                          *)
  polling,       (* this._timer is set                                      *)
  restartTimer,  (* this._restartTimer is set                               *)
  probes,        (* answers under way, as the number of each kind           *)
  page,          (* what the main window shows                              *)
  appLoaded,     (* main.js's flag                                          *)
  startupTimer,  (* main.js's one-shot timeout has yet to fire or be cleared*)
  byHand         (* history: restart() has been asked for                   *)

hostVars == <<child, state, failures, stopping, polling, restartTimer>>
pageVars == <<page, appLoaded, startupTimer>>
vars == <<proc, port, hostVars, probes, pageVars, byHand>>

(* killed: told to stop and still there.  gone: exited, the host not told.  *)
Doing  == {"free", "starting", "serving", "killed", "gone"}
Alive  == {p \in Procs : proc[p] \in {"starting", "serving"}}
State  == {"starting", "available", "unavailable", "error", "restarting"}
Answer == {"ok", "bad", "silent"}

-----------------------------------------------------------------------------
(* _emit, and main.js's subscriber to it. *)

Window(s) ==
  CASE s = "available" ->
         /\ page' = "app" /\ appLoaded' = TRUE
         /\ startupTimer' = (startupTimer /\ appLoaded)
    [] s \in {"unavailable", "error"} /\ appLoaded ->
         page' = "error" /\ appLoaded' = FALSE /\ UNCHANGED startupTimer
    [] OTHER -> UNCHANGED pageVars

Emit(s)   == state' = s /\ Window(s)
EmitNone  == UNCHANGED <<state, pageVars>>

(* _spawnBackend, the status before it being first (or no emit).  The       *)
(* interpreter may be missing and spawn may throw; this.child is then what  *)
(* it was.                                                                  *)
Spawned(processes, first, current) ==
  \/ \E p \in {q \in Procs : processes[q] = "free"} :
       /\ proc' = [processes EXCEPT ![p] = "starting"]
       /\ child' = p
       /\ IF first = "" THEN EmitNone ELSE Emit(first)
  \/ /\ "nospawn" \in Events
     /\ proc' = processes
     /\ child' = current
     /\ Emit("error")

-----------------------------------------------------------------------------
(* What the host does. *)

(* start(), once, at the end of bootstrap. *)
Start ==
  /\ state = "starting" /\ ~polling /\ ~stopping /\ child = None
  /\ \A p \in Procs : proc[p] = "free"
  /\ stopping' = FALSE
  /\ polling' = TRUE
  /\ Spawned(proc, "starting", child)
  /\ UNCHANGED <<port, failures, restartTimer, probes, byHand>>

(* Mutant of ExitEvent: the process is not scheduled again once the window  *)
(* has had the app.                                                         *)
ExitEventUnlessLoaded(p) ==
  /\ proc[p] = "gone"
  /\ proc' = [proc EXCEPT ![p] = "free"]
  /\ child' = None
  /\ IF stopping THEN EmitNone ELSE Emit("unavailable")
  /\ restartTimer' = (restartTimer \/ (~stopping /\ ~appLoaded))
  /\ UNCHANGED <<port, failures, stopping, polling, probes, byHand>>

(* Mutant of ExitEvent: a backend is started at once and scheduled too.     *)
ExitEventTwice(p) ==
  /\ proc[p] = "gone"
  /\ IF stopping
     THEN /\ proc' = [proc EXCEPT ![p] = "free"] /\ child' = None
          /\ EmitNone /\ UNCHANGED restartTimer
     ELSE /\ Spawned([proc EXCEPT ![p] = "free"], "unavailable", None)
          /\ restartTimer' = TRUE
  /\ UNCHANGED <<port, failures, stopping, polling, probes, byHand>>

(* The child's exit handler: whichever process it was set on.               *)
ExitEvent(p) ==
  /\ proc[p] = "gone"
  /\ proc' = [proc EXCEPT ![p] = "free"]
  /\ child' = None
  /\ IF stopping
     THEN EmitNone /\ UNCHANGED restartTimer
     ELSE Emit("unavailable") /\ restartTimer' = TRUE
  /\ UNCHANGED <<port, failures, stopping, polling, probes, byHand>>

RestartTimerFires ==
  /\ restartTimer
  /\ restartTimer' = FALSE
  /\ IF stopping
     THEN EmitNone /\ UNCHANGED <<proc, child>>
     ELSE Spawned(proc, "", child)
  /\ UNCHANGED <<port, failures, stopping, polling, probes, byHand>>

(* The interval: a probe leaves.  Its answer is settled by what listens on  *)
(* the port now and reaches the host later.                                 *)
SendProbe(answer) ==
  /\ polling
  /\ probes["ok"] + probes["bad"] + probes["silent"] < MaxProbes
  /\ answer # "silent" => port # None
  /\ probes' = [probes EXCEPT ![answer] = @ + 1]
  /\ UNCHANGED <<proc, port, hostVars, pageVars, byHand>>

(* Bound: beyond the limit the count tells nothing more.                     *)
Counted(n) == IF n < UNANSWERED_LIMIT THEN n + 1 ELSE n

(* _childAlive is of this.child alone. *)
ChildAlive == child # None /\ proc[child] # "killed"

ShouldGiveUp(count) == ~ChildAlive \/ count >= UNANSWERED_LIMIT

AnswerArrives(answer) ==
  /\ probes[answer] > 0
  /\ probes' = [probes EXCEPT ![answer] = @ - 1]
  /\ LET count == Counted(failures) IN
     CASE answer = "ok" ->
            /\ failures' = 0
            /\ IF state # "available" THEN Emit("available") ELSE EmitNone
       [] answer = "bad" ->
            /\ IF state = "available" THEN Emit("unavailable") ELSE EmitNone
            /\ UNCHANGED failures
       [] answer = "silent" ->
            /\ failures' = count
            /\ IF state = "available" /\ ShouldGiveUp(count)
               THEN Emit("unavailable") ELSE EmitNone
  /\ UNCHANGED <<proc, port, child, stopping, polling, restartTimer, byHand>>

KillChild == IF child = None THEN proc
             ELSE [proc EXCEPT ![child] = IF @ = "gone" THEN @ ELSE "killed"]

(* restart(), from the interface. *)
Restart ==
  /\ "restart" \in Events
  /\ polling /\ ~stopping
  /\ restartTimer' = FALSE
  /\ polling' = TRUE
  /\ Spawned(KillChild, "restarting", None)
  /\ byHand' = TRUE
  /\ UNCHANGED <<port, failures, stopping, probes>>

(* Mutant of Stop: the child is forgotten and not killed.                   *)
StopForgetting ==
  /\ ~stopping
  /\ stopping' = TRUE
  /\ polling' = FALSE
  /\ restartTimer' = FALSE
  /\ child' = None
  /\ UNCHANGED <<proc, port, state, failures, probes, pageVars, byHand>>

(* stop(), from cleanup(): the last thing the host does with the backend.   *)
Stop ==
  /\ ~stopping
  /\ stopping' = TRUE
  /\ polling' = FALSE
  /\ restartTimer' = FALSE
  /\ proc' = KillChild
  /\ child' = None
  /\ UNCHANGED <<port, state, failures, probes, pageVars, byHand>>

(* main.js: the backend took too long. *)
StartupTimeout ==
  /\ startupTimer
  /\ startupTimer' = FALSE
  /\ page' = IF appLoaded THEN page ELSE "error"
  /\ UNCHANGED <<proc, port, hostVars, probes, appLoaded, byHand>>

-----------------------------------------------------------------------------
(* What the processes do. *)

Freed(p) == IF port = p THEN None ELSE port

(* uvicorn binds, or finds the address in use and exits. *)
Bind(p) ==
  /\ proc[p] = "starting"
  /\ \/ port = None /\ port' = p /\ proc' = [proc EXCEPT ![p] = "serving"]
     \/ port # None /\ proc' = [proc EXCEPT ![p] = "gone"] /\ UNCHANGED port
  /\ UNCHANGED <<hostVars, probes, pageVars, byHand>>

Crash(p) ==
  /\ "crash" \in Events
  /\ p \in Alive
  /\ proc' = [proc EXCEPT ![p] = "gone"]
  /\ port' = Freed(p)
  /\ UNCHANGED <<hostVars, probes, pageVars, byHand>>

Dies(p) ==
  /\ proc[p] = "killed"
  /\ proc' = [proc EXCEPT ![p] = "gone"]
  /\ port' = Freed(p)
  /\ UNCHANGED <<hostVars, probes, pageVars, byHand>>

-----------------------------------------------------------------------------

Init ==
  /\ proc = [p \in Procs |-> "free"]
  /\ port = None
  /\ child = None
  /\ state = "starting"
  /\ failures = 0
  /\ stopping = FALSE
  /\ polling = FALSE
  /\ restartTimer = FALSE
  /\ probes = [a \in Answer |-> 0]
  /\ page = "splash"
  /\ appLoaded = FALSE
  /\ startupTimer = TRUE
  /\ byHand = FALSE

Next ==
  \/ Start \/ RestartTimerFires \/ Restart \/ Stop \/ StartupTimeout
  \/ \E p \in Procs : ExitEvent(p) \/ Bind(p) \/ Crash(p) \/ Dies(p)
  \/ \E a \in Answer : SendProbe(a) \/ AnswerArrives(a)

Spec == Init /\ [][Next]_vars

(* Timers fire, exit events and answers arrive, processes start and stop    *)
(* when told; a backend that keeps being asked answers in the end.          *)
FairSpec ==
  /\ Spec
  /\ WF_vars(Start) /\ WF_vars(RestartTimerFires)
  /\ \A p \in Procs :
       WF_vars(ExitEvent(p)) /\ WF_vars(Bind(p)) /\ WF_vars(Dies(p))
  /\ \A a \in Answer : WF_vars(AnswerArrives(a))
  /\ SF_vars(SendProbe("ok"))

-----------------------------------------------------------------------------
(* Properties. *)

TypeOK ==
  /\ proc \in [Procs -> Doing]
  /\ port \in Procs \cup {None}
  /\ child \in Procs \cup {None}
  /\ state \in State
  /\ failures \in 0..UNANSWERED_LIMIT
  /\ {stopping, polling, restartTimer, appLoaded, startupTimer, byHand} \subseteq BOOLEAN
  /\ probes \in [Answer -> 0..MaxProbes]
  /\ page \in {"splash", "app", "error"}

(* However the backend crashes, is found dead by a late probe and is        *)
(* respawned, two of them never run at once to fight over the port, as long *)
(* as nobody restarts it by hand.                                           *)
OneBackend == ~byHand => Cardinality(Alive) <= 1

(* After stop() no process is left that was not told to stop: otherwise "an *)
(* orphaned process ends up holding port 8420 after the app has gone"       *)
(* (main.js:173).  That holds until a restart by hand.                      *)
StopLeavesNoBackend == stopping /\ ~byHand => Alive = {}

(* The window shows the app while the backend is available and not once it  *)
(* is reported gone.                                                        *)
PageFollowsBackend ==
  /\ state = "available" => page = "app"
  /\ page = "app" => state \notin {"unavailable", "error"}

(* "A single failure is not evidence the backend has gone": silence reports *)
(* a live backend unavailable only after the limit, answers arriving in any *)
(* order, until a restart by hand leaves it watching another process.       *)
SilenceIsTolerated ==
  [][AnswerArrives("silent") /\ state = "available" /\ state' = "unavailable" /\ ~byHand
       => Alive = {} \/ failures' = UNANSWERED_LIMIT]_vars

(* A backend that went away comes back by itself once it no longer crashes  *)
(* and nobody restarts it by hand, unless the app quits or a spawn failed,  *)
(* which is not tried again: no exit event, timer or late answer leaves the *)
(* host waiting for a process that nobody will start.                       *)
Quiet    == <>[][~Restart /\ ~ \E p \in Procs : Crash(p)]_vars
Recovers == Quiet /\ [](state # "error") =>
              (state = "unavailable" ~> (state = "available" \/ stopping))

(* What the comments say and a manual restart refutes. *)

(* The same, restarts by hand included.                                     *)
StopAlwaysLeavesNone == stopping => Alive = {}

(* Whether the process exists is the only ground "for telling the user it   *)
(* has gone" (backendLauncher.js:164): an exit is reported as such only     *)
(* when no backend runs.                                                    *)
GoneMeansGone ==
  [][\A p \in Procs : ExitEvent(p) /\ ~stopping => Alive = {}]_vars
=============================================================================
