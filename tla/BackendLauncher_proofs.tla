------------------------ MODULE BackendLauncher_proofs ------------------------
(* One backend, and none after stop(), for any number of processes.          *)
EXTENDS BackendLauncher, FiniteSetTheorems, TLAPS

-----------------------------------------------------------------------------
(* The invariant. *)

(* What every step keeps of the types.                                      *)
TypesKept ==
  /\ proc \in [Procs -> Doing]
  /\ child \in Procs \cup {None}
  /\ stopping \in BOOLEAN
  /\ polling \in BOOLEAN
  /\ restartTimer \in BOOLEAN
  /\ byHand \in BOOLEAN

(* At most one process exists, in whatever state; the host knows of it while *)
(* it is alive; and a respawn is due only when there is none.               *)
OneProcess   == \A p, q \in Procs : proc[p] # "free" /\ proc[q] # "free" => p = q
ChildIsIt    == \A p \in Procs : p \in Alive => child = p
ChildExists  == child # None => proc[child] # "free"
NoneIsDue    == restartTimer => \A p \in Procs : proc[p] = "free"
NotBegun     == ~polling /\ ~stopping => ~restartTimer /\ \A p \in Procs : proc[p] = "free"
StoppedAll   == stopping => Alive = {} /\ ~restartTimer

(* Until a restart by hand, which spawns beside a process that has yet to    *)
(* die.                                                                     *)
Unaided ==
  OneProcess /\ ChildIsIt /\ ChildExists /\ NoneIsDue /\ NotBegun /\ StoppedAll

LauncherInv == TypesKept /\ (~byHand => Unaided)

-----------------------------------------------------------------------------
(* Lemmas. *)

(* What a spawn does, whether the interpreter is there or not: the processes *)
(* are as they were, or one that was free starts and is the child.           *)
LEMMA SpawnedOneOrNone ==
  ASSUME NEW processes, NEW first, NEW current, Spawned(processes, first, current)
  PROVE  \/ \E p \in Procs : /\ processes[p] = "free"
                             /\ proc' = [processes EXCEPT ![p] = "starting"]
                             /\ child' = p
         \/ proc' = processes /\ child' = current
BY DEF Spawned

(* A process identity is not the absence of one.                            *)
LEMMA NoneIsNoProcess == None \notin Procs
BY LauncherAssumption DEF LauncherAssumption

(* Where no process is, a spawn leaves at most the one it starts.           *)
LEMMA SpawnWhereNoneIs ==
  ASSUME TypesKept, \A p \in Procs : proc[p] = "free", child = None,
         NEW first, Spawned(proc, first, child),
         restartTimer' = FALSE, stopping' = FALSE, polling' = TRUE, byHand' = byHand
  PROVE  LauncherInv'
<1>1. CASE proc' = proc /\ child' = child
  BY <1>1 DEF LauncherInv, TypesKept, Unaided, OneProcess, ChildIsIt, ChildExists,
              NoneIsDue, NotBegun, StoppedAll, Alive
<1>2. CASE \E p \in Procs : /\ proc' = [proc EXCEPT ![p] = "starting"]
                            /\ child' = p
  <2>1. PICK p \in Procs : proc' = [proc EXCEPT ![p] = "starting"] /\ child' = p
    BY <1>2
  <2>2. TypesKept'
    BY <2>1 DEF TypesKept, Doing
  <2>3. \A q \in Procs : proc'[q] = IF q = p THEN "starting" ELSE "free"
    BY <2>1 DEF TypesKept
  <2>4. QED
    BY <2>1, <2>2, <2>3 DEF LauncherInv, Unaided, OneProcess, ChildIsIt, ChildExists,
                            NoneIsDue, NotBegun, StoppedAll, Alive
<1>3. QED
  BY <1>1, <1>2, SpawnedOneOrNone

-----------------------------------------------------------------------------
(* The invariant is inductive. *)

LEMMA LauncherInit == Init => LauncherInv
BY DEF Init, LauncherInv, TypesKept, Doing, Unaided, OneProcess, ChildIsIt, ChildExists,
       NoneIsDue, NotBegun, StoppedAll, Alive

(* A step that moves neither the processes nor what the host knows of them. *)
LEMMA Elsewhere ==
  ASSUME LauncherInv, UNCHANGED <<proc, child, stopping, polling, restartTimer, byHand>>
  PROVE  LauncherInv'
BY DEF LauncherInv, TypesKept, Unaided, OneProcess, ChildIsIt, ChildExists, NoneIsDue,
       NotBegun, StoppedAll, Alive

(* One process goes on to what it does next, the host not told: alive only   *)
(* if it was, and there if it was.                                          *)
LEMMA ProcessMoves ==
  ASSUME LauncherInv, NEW p \in Procs, NEW next \in Doing \ {"free"}, proc[p] # "free",
         next \in {"starting", "serving"} => p \in Alive,
         proc' = [proc EXCEPT ![p] = next],
         UNCHANGED <<child, stopping, polling, restartTimer, byHand>>
  PROVE  LauncherInv'
<1>1. TypesKept'
  BY DEF LauncherInv, TypesKept
<1>2. \A q \in Procs : proc'[q] = IF q = p THEN next ELSE proc[q]
  BY DEF LauncherInv, TypesKept
<1>3. Alive' \subseteq Alive
  BY <1>2 DEF Alive
<1>4. ASSUME ~byHand PROVE Unaided'
  <2>1. Unaided
    BY <1>4 DEF LauncherInv
  <2>2. OneProcess' /\ NoneIsDue' /\ NotBegun'
    BY <1>2, <2>1 DEF Unaided, OneProcess, NoneIsDue, NotBegun
  <2>3. ChildIsIt' /\ StoppedAll'
    BY <1>3, <2>1 DEF Unaided, ChildIsIt, StoppedAll
  <2>4. ChildExists'
    BY <1>2, <2>1, NoneIsNoProcess DEF Unaided, ChildExists, LauncherInv, TypesKept
  <2>5. QED
    BY <2>2, <2>3, <2>4 DEF Unaided
<1>5. QED
  BY <1>1, <1>4 DEF LauncherInv

(* An exit leaves no process, and a respawn due unless the app is quitting. *)
LEMMA ExitKeepsInv ==
  ASSUME LauncherInv, NEW p \in Procs, ExitEvent(p)
  PROVE  LauncherInv'
<1>1. /\ proc[p] = "gone" /\ proc' = [proc EXCEPT ![p] = "free"] /\ child' = None
      /\ restartTimer' = IF stopping THEN restartTimer ELSE TRUE
      /\ UNCHANGED <<stopping, polling, byHand>>
  BY DEF ExitEvent
<1>2. TypesKept'
  BY <1>1 DEF LauncherInv, TypesKept, Doing
<1>3. ASSUME ~byHand PROVE Unaided'
  <2>1. Unaided
    BY <1>3 DEF LauncherInv
  <2>2. \A q \in Procs : proc'[q] = "free"
    BY <1>1, <2>1 DEF Unaided, OneProcess, LauncherInv, TypesKept
  <2>3. QED
    BY <1>1, <2>1, <2>2
       DEF Unaided, OneProcess, ChildIsIt, ChildExists, NoneIsDue, NotBegun, StoppedAll,
           Alive
<1>4. QED
  BY <1>1, <1>2, <1>3 DEF LauncherInv

(* stop() kills the one process there can be, which the host knows of.      *)
LEMMA StopKeepsInv ==
  ASSUME LauncherInv, Stop
  PROVE  LauncherInv'
<1>1. /\ stopping' = TRUE /\ polling' = FALSE /\ restartTimer' = FALSE
      /\ proc' = KillChild /\ child' = None /\ byHand' = byHand
  BY DEF Stop
<1>2. TypesKept'
  BY <1>1 DEF LauncherInv, TypesKept, KillChild, Doing
<1>3. ASSUME ~byHand PROVE Unaided'
  <2>1. Unaided
    BY <1>3 DEF LauncherInv
  <2>2. CASE child = None
    BY <1>1, <2>1, <2>2, NoneIsNoProcess
       DEF KillChild, Unaided, OneProcess, ChildIsIt, ChildExists, NoneIsDue, NotBegun,
           StoppedAll, Alive
  <2>3. CASE child # None
    <3>1. child \in Procs /\ proc[child] # "free"
      BY <2>1, <2>3 DEF LauncherInv, TypesKept, Unaided, ChildExists
    <3>2. \A q \in Procs : q # child => proc'[q] = proc[q] /\ proc[q] = "free"
      BY <1>1, <2>1, <2>3, <3>1 DEF KillChild, LauncherInv, TypesKept, Unaided, OneProcess
    <3>3. proc'[child] \in {"gone", "killed"}
      BY <1>1, <2>3, <3>1 DEF KillChild, LauncherInv, TypesKept
    <3>4. QED
      BY <1>1, <3>1, <3>2, <3>3
         DEF Unaided, OneProcess, ChildIsIt, ChildExists, NoneIsDue, NotBegun, StoppedAll,
             Alive
  <2>4. QED
    BY <2>2, <2>3
<1>4. QED
  BY <1>1, <1>2, <1>3 DEF LauncherInv

(* A spawn keeps the types, whatever it was given of them.                  *)
LEMMA SpawnKeepsTypes ==
  ASSUME NEW processes \in [Procs -> Doing], NEW current \in Procs \cup {None}, NEW first,
         Spawned(processes, first, current)
  PROVE  proc' \in [Procs -> Doing] /\ child' \in Procs \cup {None}
BY SpawnedOneOrNone DEF Doing

LEMMA StartKeepsInv ==
  ASSUME LauncherInv, Start
  PROVE  LauncherInv'
<1>1. /\ ~polling /\ ~stopping /\ child = None /\ \A p \in Procs : proc[p] = "free"
      /\ stopping' = FALSE /\ polling' = TRUE /\ Spawned(proc, "starting", child)
      /\ UNCHANGED <<restartTimer, byHand>>
  BY DEF Start
<1>2. CASE byHand
  BY <1>1, <1>2, SpawnKeepsTypes DEF LauncherInv, TypesKept
<1>3. CASE ~byHand
  <2>1. restartTimer' = FALSE
    BY <1>1, <1>3 DEF LauncherInv, TypesKept, Unaided, NotBegun
  <2>2. QED
    BY <1>1, <1>3, <2>1, SpawnWhereNoneIs DEF LauncherInv
<1>4. QED
  BY <1>2, <1>3 DEF LauncherInv, TypesKept

LEMMA TimerKeepsInv ==
  ASSUME LauncherInv, RestartTimerFires
  PROVE  LauncherInv'
<1>1. /\ restartTimer /\ restartTimer' = FALSE
      /\ IF stopping THEN UNCHANGED <<proc, child>> ELSE Spawned(proc, "", child)
      /\ UNCHANGED <<stopping, polling, byHand>>
  BY DEF RestartTimerFires
<1>2. TypesKept'
  BY <1>1, SpawnKeepsTypes DEF LauncherInv, TypesKept
<1>3. ASSUME ~byHand PROVE Unaided'
  <2>1. Unaided /\ ~stopping
    BY <1>1, <1>3 DEF LauncherInv, Unaided, StoppedAll
  <2>2. /\ \A p \in Procs : proc[p] = "free"
        /\ child = None /\ polling
    BY <1>1, <2>1 DEF LauncherInv, TypesKept, Unaided, NoneIsDue, ChildExists, NotBegun
  <2>3. stopping' = FALSE /\ polling' = TRUE
    BY <1>1, <2>1, <2>2 DEF LauncherInv, TypesKept
  <2>4. LauncherInv'
    BY <1>1, <2>1, <2>2, <2>3, SpawnWhereNoneIs DEF LauncherInv
  <2>5. QED
    BY <1>1, <1>3, <2>4 DEF LauncherInv
<1>4. QED
  BY <1>1, <1>2, <1>3 DEF LauncherInv

LEMMA LauncherStep == LauncherInv /\ [Next]_vars => LauncherInv'
<1> SUFFICES ASSUME LauncherInv, [Next]_vars PROVE LauncherInv'
  OBVIOUS
<1>1. CASE Start
  BY <1>1, StartKeepsInv
<1>2. CASE RestartTimerFires
  BY <1>2, TimerKeepsInv
<1>3. CASE Restart
  <2>1. KillChild \in [Procs -> Doing]
    BY DEF KillChild, LauncherInv, TypesKept, Doing
  <2>2. /\ proc' \in [Procs -> Doing] /\ child' \in Procs \cup {None}
    BY <1>3, <2>1, SpawnKeepsTypes DEF Restart
  <2>3. QED
    BY <1>3, <2>2 DEF Restart, LauncherInv, TypesKept
<1>4. CASE Stop
  BY <1>4, StopKeepsInv
<1>5. CASE StartupTimeout \/ UNCHANGED vars
  BY <1>5, Elsewhere DEF StartupTimeout, vars, hostVars
<1>6. ASSUME NEW p \in Procs, ExitEvent(p) PROVE LauncherInv'
  BY <1>6, ExitKeepsInv
<1>7. ASSUME NEW p \in Procs, Bind(p) PROVE LauncherInv'
  <2>1. PICK next \in {"serving", "gone"} : proc' = [proc EXCEPT ![p] = next]
    BY <1>7 DEF Bind
  <2>2. proc[p] = "starting" /\ p \in Alive
    BY <1>7 DEF Bind, Alive
  <2>3. UNCHANGED <<child, stopping, polling, restartTimer, byHand>>
    BY <1>7 DEF Bind, hostVars
  <2>4. QED
    BY <2>1, <2>2, <2>3, ProcessMoves DEF Doing
<1>8. ASSUME NEW p \in Procs, Crash(p) \/ Dies(p) PROVE LauncherInv'
  <2>1. proc' = [proc EXCEPT ![p] = "gone"] /\ proc[p] # "free"
    BY <1>8 DEF Crash, Dies, Alive
  <2>2. UNCHANGED <<child, stopping, polling, restartTimer, byHand>>
    BY <1>8 DEF Crash, Dies, hostVars
  <2>3. QED
    BY <2>1, <2>2, ProcessMoves DEF Doing
<1>9. ASSUME NEW a \in Answer, SendProbe(a) \/ AnswerArrives(a) PROVE LauncherInv'
  BY <1>9, Elsewhere DEF SendProbe, AnswerArrives, hostVars
<1>10. QED
  BY <1>1, <1>2, <1>3, <1>4, <1>5, <1>6, <1>7, <1>8, <1>9 DEF Next

(* The launcher's processes, its timers and what it holds keep their types,  *)
(* and until a restart by hand at most one process exists.                  *)
THEOREM LauncherInvariant == Spec => []LauncherInv
<1>1. QED
  BY LauncherInit, LauncherStep, PTL DEF Spec

(* However the backend crashes, is probed late and is respawned, two never   *)
(* run at once until somebody restarts it by hand (_spawnBackend, the exit   *)
(* handler and the respawn timer of backendLauncher.js).                    *)
THEOREM OneAtMost == Spec => []OneBackend
<1>1. LauncherInv => OneBackend
  <2> SUFFICES ASSUME LauncherInv, ~byHand PROVE Cardinality(Alive) <= 1
    BY DEF OneBackend
  <2>1. CASE Alive = {}
    BY <2>1, FS_EmptySet
  <2>2. CASE Alive # {}
    <3>1. PICK p \in Procs : p \in Alive
      BY <2>2 DEF Alive
    <3>2. Alive = {p}
      BY <3>1 DEF LauncherInv, Unaided, OneProcess, Alive
    <3>3. Cardinality(Alive) = 1
      BY <3>2, FS_Singleton
    <3>4. QED
      BY <3>3
  <2>3. QED
    BY <2>1, <2>2
<1>2. QED
  BY <1>1, LauncherInvariant, PTL

(* After stop() no process is left that was not told to stop, until a        *)
(* restart by hand (cleanup of main.js).                                    *)
THEOREM NoneAfterStop == Spec => []StopLeavesNoBackend
<1>1. LauncherInv => StopLeavesNoBackend
  BY DEF LauncherInv, Unaided, StoppedAll, StopLeavesNoBackend
<1>2. QED
  BY <1>1, LauncherInvariant, PTL
=============================================================================
