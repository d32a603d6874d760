-------------------------------- MODULE Triggers --------------------------------
(***************************************************************************)
(* Work that runs on its own: src/backend/core/triggers.py, its routes in  *)
(* main.py and the chat route it asks, seen from outside.  The scheduler's *)
(* tick and each "run now" request are tasks of one event loop: a task     *)
(* keeps the loop (turn) until it awaits the runner's lock or the answer   *)
(* to its question, and works all that time from the copy of the trigger   *)
(* it read at its beginning.                                               *)
(***************************************************************************)
EXTENDS Integers, Sequences, FiniteSetsExt

CONSTANTS
  Triggers, Obligations, None,
  Presses,         (* "run now" requests, each made at most once            *)
  Kind,            (* trigger -> daily, weekly, obligations                 *)
  At,              (* trigger -> its moment in the day or week              *)
  DaysAhead,       (* trigger -> days_ahead                                 *)
  Due,             (* obligation -> the day it is due                       *)
  Day,             (* bound: moments told apart in a day                    *)
  BREAKER_AFTER, RUN_TTL_DAYS,
  MaxTime,         (* bound on the clock                                    *)
  Events           (* what a run lets happen: toggle, delete, restart       *)

ASSUME TriggersAssumption ==
  /\ Day \in Nat \ {0} /\ MaxTime \in Nat
  /\ BREAKER_AFTER \in Nat \ {0} /\ RUN_TTL_DAYS \in Nat
  /\ Kind \in [Triggers -> {"daily", "weekly", "obligations"}]
  /\ At \in [Triggers -> Nat]
  /\ DaysAhead \in [Triggers -> 1..60]
  /\ Due \in [Obligations -> Nat]
  /\ None \notin Triggers \cup Obligations \cup Presses \cup {"tick"}
  /\ "tick" \notin Presses
  /\ Events \subseteq {"toggle", "delete", "restart"}

Tasks   == Presses \cup {"tick"}
Outcome == {"done", "held", "failed"}

VARIABLES
  trig,      (* the triggers table; status: unborn, live or deleted         *)
  runs,      (* the runs table; rows that read the same are one             *)
  open,      (* the open obligations                                        *)
  clock,
  turn,      (* the task that has the event loop, or None                   *)
  holder,    (* the task inside the runner's lock, or None                  *)
  line,      (* the tasks queued for it                                     *)
  todo,      (* task -> copies of the triggers it has yet to run            *)
  job,       (* task -> what it is running                                  *)
  pressed,   (* the presses made                                            *)
  streak,    (* history: runs recorded as held in a row since a re-enable   *)
  drafted,   (* history: <<trigger, obligation>> pairs ever recorded        *)
  served     (* history: the slot of the last unattended run recorded       *)

store   == <<trig, runs>>
runner  == <<turn, holder, line, todo, job>>
history == <<streak, drafted, served>>
vars    == <<store, open, clock, runner, pressed, history>>

Today == clock \div Day

-----------------------------------------------------------------------------
(* The schedule: Trigger.is_due. *)

Period(t)  == IF Kind[t] = "weekly" THEN 7 * Day ELSE Day
Slot(t, n) == n - ((n - At[t]) % Period(t))

IsDue(t) ==
  /\ trig[t].status = "live" /\ trig[t].enabled /\ ~trig[t].paused
  /\ trig[t].last < Slot(t, clock)

Copy(t) == [id |-> t, last |-> trig[t].last, held |-> trig[t].held]

(* _obligations_due_within, and the ones the runs table holds a draft of.   *)
DueWithin(days) == {o \in open : Due[o] \in Today..(Today + days)}
Drafted(t) == {r.obligation : r \in {x \in runs : x.trigger = t}} \ {None}

-----------------------------------------------------------------------------
(* record_run: the run, the trigger's count and pause, and the prune.       *)

(* Mutant of HeldInARow: the count is set and not added to.                 *)
HeldOnce(copy, outcome)   == IF outcome = "held" THEN 1 ELSE 0
HeldInARow(copy, outcome) == IF outcome = "held" THEN copy.held + 1 ELSE 0

(* Mutant of LastRun: the run belongs to the copy's time.                   *)
LastRunOfCopy(copy, started) == copy.last
LastRun(copy, started)       == Max({copy.last, started})

Kept(table) == {r \in table : r.finished >= clock - RUN_TTL_DAYS * Day}

RecordRun(copy, started, outcome, obligation) ==
  LET t    == copy.id
      held == HeldInARow(copy, outcome)
  IN /\ runs' = Kept(runs \cup {[trigger |-> t, finished |-> clock,
                                 outcome |-> outcome, obligation |-> obligation]})
     /\ trig' = IF trig[t].status # "live" THEN trig
                ELSE [trig EXCEPT ![t].last   = LastRun(copy, started),
                                  ![t].held   = held,
                                  ![t].paused = held >= BREAKER_AFTER]
     /\ streak' = [streak EXCEPT ![t] = IF outcome = "held" THEN @ + 1 ELSE 0]
     /\ drafted' = IF obligation = None THEN drafted
                   ELSE drafted \cup {<<t, obligation>>}

RecordNothing == UNCHANGED <<store, streak, drafted>>

-----------------------------------------------------------------------------
(* The runner.  Idle: no job; the job of a task in line has yet to enter.   *)

NoJob == [stage |-> "none"]
Job(copy, stage, started, left, ran, on) ==
  [stage |-> stage, of |-> copy, started |-> started, left |-> left, ran |-> ran,
   on |-> on]

(* tick: what is due, from one reading of the table. *)
Tick ==
  /\ turn = None /\ todo["tick"] = {} /\ job["tick"] = NoJob
  /\ \E t \in Triggers : IsDue(t)
  /\ todo' = [todo EXCEPT !["tick"] = {Copy(t) : t \in {u \in Triggers : IsDue(u)}}]
  /\ turn' = "tick"
  /\ UNCHANGED <<store, open, clock, holder, line, job, pressed, history>>

(* POST /triggers/{id}/run: forced, so neither a disabled nor a paused      *)
(* trigger is turned away.                                                  *)
Press(p, t) ==
  /\ turn = None /\ p \notin pressed /\ trig[t].status = "live"
  /\ pressed' = pressed \cup {p}
  /\ todo' = [todo EXCEPT ![p] = {Copy(t)}]
  /\ turn' = p
  /\ UNCHANGED <<store, open, clock, holder, line, job, history>>

Free       == holder = None /\ line = <<>>

(* async with self._running: taken at once when nobody has it and nobody    *)
(* waits, else the task queues and lets the loop go.  The order of a tick's *)
(* triggers is that of their creation, which the identities do not show.    *)
Acquire(a) ==
  /\ turn = a /\ job[a] = NoJob
  /\ \E copy \in todo[a] :
       /\ todo' = [todo EXCEPT ![a] = @ \ {copy}]
       /\ IF Free
          THEN /\ holder' = a
               /\ job' = [job EXCEPT ![a] = Job(copy, "enter", 0, {}, FALSE, None)]
               /\ UNCHANGED <<turn, line>>
          ELSE /\ line' = Append(line, a)
               /\ job' = [job EXCEPT ![a] = Job(copy, "queued", 0, {}, FALSE, None)]
               /\ turn' = None
               /\ UNCHANGED holder
  /\ UNCHANGED <<store, open, clock, pressed, history>>

Wake ==
  /\ turn = None /\ holder = None /\ line # <<>>
  /\ LET a == Head(line) IN
       /\ holder' = a
       /\ turn' = a
       /\ job' = [job EXCEPT ![a].stage = "enter"]
  /\ line' = Tail(line)
  /\ UNCHANGED <<store, open, clock, todo, pressed, history>>

(* Mutant of Owed: the drafts made before are not looked at.                *)
OwedAgain(copy) == IF Kind[copy.id] = "obligations" THEN DueWithin(DaysAhead[copy.id]) ELSE {}
Owed(copy) == IF Kind[copy.id] = "obligations"
              THEN DueWithin(DaysAhead[copy.id]) \ Drafted(copy.id) ELSE {}

(* Inside the lock: ask the question, or find the obligations to draft for. *)
Enter(a) ==
  /\ turn = a /\ job[a].stage = "enter"
  /\ LET copy == job[a].of IN
     IF Kind[copy.id] = "obligations"
     THEN /\ job' = [job EXCEPT ![a] = Job(copy, "drafting", clock, Owed(copy), FALSE, None)]
          /\ UNCHANGED turn
     ELSE /\ job' = [job EXCEPT ![a] = Job(copy, "asking", clock, {}, FALSE, None)]
          /\ turn' = None
  /\ UNCHANGED <<store, open, clock, holder, line, todo, pressed, history>>

(* The next obligation's question. *)
Draft(a) ==
  /\ turn = a /\ job[a].stage = "drafting"
  /\ \E o \in job[a].left :
       job' = [job EXCEPT ![a].stage = "asking", ![a].on = o, ![a].left = @ \ {o}]
  /\ turn' = None
  /\ UNCHANGED <<store, open, clock, holder, line, todo, pressed, history>>

(* The job is over: the lock is free, and the task goes on to its next      *)
(* trigger before anything else runs, or is done.                           *)
Finish(a) ==
  /\ holder' = None
  /\ job' = [job EXCEPT ![a] = NoJob]
  /\ turn' = IF todo[a] = {} THEN None ELSE a
  /\ UNCHANGED <<line, todo>>

(* Which slot an unattended run stood for. *)
Serve(a) ==
  served' = IF a = "tick"
            THEN [served EXCEPT ![job[a].of.id] = Slot(job[a].of.id, job[a].started)]
            ELSE served

(* All drafted; nothing to draft is recorded as a run that happened.        *)
DraftingEnds(a) ==
  /\ turn = a /\ job[a].stage = "drafting" /\ job[a].left = {}
  /\ IF job[a].ran THEN RecordNothing
     ELSE RecordRun(job[a].of, job[a].started, "done", None)
  /\ Serve(a)
  /\ Finish(a)
  /\ UNCHANGED <<open, clock, pressed>>

(* The answer is complete: outcome_of reads how the run ended.              *)
AskEnds(a, outcome) ==
  /\ turn = None /\ job[a].stage = "asking"
  /\ RecordRun(job[a].of, job[a].started, outcome, job[a].on)
  /\ Serve(a)
  /\ IF job[a].on = None THEN Finish(a)
     ELSE /\ job' = [job EXCEPT ![a].stage = "drafting", ![a].ran = TRUE, ![a].on = None]
          /\ turn' = a
          /\ UNCHANGED <<holder, line, todo>>
  /\ UNCHANGED <<open, clock, pressed>>

(* Mutant of AskRaises: the exception leaves the lock taken.                *)
AskRaisesHolding(a) ==
  /\ turn = None /\ job[a].stage = "asking"
  /\ job' = [job EXCEPT ![a] = NoJob]
  /\ turn' = IF todo[a] = {} THEN None ELSE a
  /\ RecordNothing
  /\ UNCHANGED <<open, clock, holder, line, todo, pressed, served>>

(* The question raised.  The tick records a failure and goes on; a press    *)
(* answers with an error.                                                   *)
AskRaises(a) ==
  /\ turn = None /\ job[a].stage = "asking"
  /\ IF a = "tick" THEN RecordRun(job[a].of, clock, "failed", None) ELSE RecordNothing
  /\ Serve(a)
  /\ Finish(a)
  /\ UNCHANGED <<open, clock, pressed>>

-----------------------------------------------------------------------------
(* The person, the world, and the process that stops and starts again.      *)

(* create: a new trigger is owed nothing from before it existed.            *)
Create(t) ==
  /\ turn = None /\ trig[t].status = "unborn"
  /\ trig' = [trig EXCEPT ![t] = [status |-> "live", enabled |-> TRUE, last |-> clock,
                                  held |-> 0, paused |-> FALSE]]
  /\ UNCHANGED <<runs, open, clock, runner, pressed, history>>

Enable(t) ==
  /\ "toggle" \in Events /\ turn = None /\ trig[t].status = "live"
  /\ trig' = [trig EXCEPT ![t].enabled = TRUE, ![t].paused = FALSE, ![t].held = 0]
  /\ streak' = [streak EXCEPT ![t] = 0]
  /\ UNCHANGED <<runs, open, clock, runner, pressed, drafted, served>>

Disable(t) ==
  /\ "toggle" \in Events /\ turn = None /\ trig[t].status = "live"
  /\ trig' = [trig EXCEPT ![t].enabled = FALSE]
  /\ UNCHANGED <<runs, open, clock, runner, pressed, history>>

Delete(t) ==
  /\ "delete" \in Events /\ turn = None /\ trig[t].status = "live"
  /\ trig' = [trig EXCEPT ![t].status = "deleted"]
  /\ runs' = {r \in runs : r.trigger # t}
  /\ UNCHANGED <<open, clock, runner, pressed, history>>

(* An obligation is extracted, or settled. *)
ObligationChanges(o) ==
  /\ turn = None
  /\ open' = IF o \in open THEN open \ {o} ELSE open \cup {o}
  /\ UNCHANGED <<store, clock, runner, pressed, history>>

TimePasses ==
  /\ turn = None /\ clock < MaxTime
  /\ clock' = clock + 1
  /\ UNCHANGED <<store, open, runner, pressed, history>>

Restart ==
  /\ "restart" \in Events /\ turn = None
  /\ runs' = Kept(runs)
  /\ holder' = None
  /\ line' = <<>>
  /\ todo' = [a \in Tasks |-> {}]
  /\ job' = [a \in Tasks |-> NoJob]
  /\ UNCHANGED <<trig, open, clock, turn, pressed, history>>

Init ==
  /\ trig = [t \in Triggers |-> [status |-> "unborn", enabled |-> FALSE, last |-> 0,
                                 held |-> 0, paused |-> FALSE]]
  /\ runs = {}
  /\ open = {}
  /\ clock = 0
  /\ turn = None
  /\ holder = None
  /\ line = <<>>
  /\ todo = [a \in Tasks |-> {}]
  /\ job = [a \in Tasks |-> NoJob]
  /\ pressed = {}
  /\ streak = [t \in Triggers |-> 0]
  /\ drafted = {}
  /\ served = [t \in Triggers |-> -1]

Runs(a) ==
  \/ Acquire(a) \/ Enter(a) \/ Draft(a) \/ DraftingEnds(a) \/ AskRaises(a)
  \/ \E outcome \in Outcome : AskEnds(a, outcome)

Person ==
  \/ \E t \in Triggers : Create(t) \/ Enable(t) \/ Disable(t) \/ Delete(t)
  \/ \E p \in Presses, t \in Triggers : Press(p, t)

Next ==
  \/ Tick \/ Wake \/ Person \/ TimePasses \/ Restart
  \/ \E a \in Tasks : Runs(a)
  \/ \E o \in Obligations : ObligationChanges(o)

Spec == Init /\ [][Next]_vars

(* The loop ticks, runs its tasks, and every question is answered in the    *)
(* end; nothing obliges the person.                                         *)
FairSpec == Spec /\ WF_vars(Tick) /\ WF_vars(Wake) /\ \A a \in Tasks : WF_vars(Runs(a))

-----------------------------------------------------------------------------
(* Properties. *)

TypeOK ==
  /\ trig \in [Triggers -> [status : {"unborn", "live", "deleted"}, enabled : BOOLEAN,
                            last : Nat, held : Nat, paused : BOOLEAN]]
  /\ runs \subseteq [trigger : Triggers, finished : Nat, outcome : Outcome,
                      obligation : Obligations \cup {None}]
  /\ open \subseteq Obligations
  /\ clock \in Nat
  /\ turn \in Tasks \cup {None} /\ holder \in Tasks \cup {None}
  /\ line \in Seq(Tasks)
  /\ \A a \in Tasks :
       /\ todo[a] \subseteq [id : Triggers, last : Nat, held : Nat]
       /\ job[a] # NoJob =>
            /\ job[a].stage \in {"queued", "enter", "drafting", "asking"}
            /\ job[a].of \in [id : Triggers, last : Nat, held : Nat]
            /\ job[a].on \in Obligations \cup {None}
            /\ job[a].left \subseteq Obligations
  /\ pressed \subseteq Presses
  /\ streak \in [Triggers -> Nat]
  /\ served \in [Triggers -> Int]

(* "A run that began at 09:05 satisfies the 09:00 slot": the tick never     *)
(* begins a second run for a slot one of its runs was recorded for, from    *)
(* however old a copy of the trigger that record was written.               *)
OnceASlot ==
  [][Enter("tick") =>
       LET t == job["tick"].of.id IN served[t] < Slot(t, clock)]_vars

(* "A trigger whose last BREAKER_AFTER runs in a row each stopped at a      *)
(* permission is paused", restarts, failures and re-enabling included.      *)
BreakerTrips ==
  \A t \in Triggers :
    trig[t].status = "live" /\ streak[t] >= BREAKER_AFTER => trig[t].paused

(* "A commitment is drafted for once, not every morning": no second draft   *)
(* of an obligation is ever recorded for a trigger that is there.           *)
DraftedOnce ==
  [][\A a \in Tasks, outcome \in Outcome :
       AskEnds(a, outcome) /\ job[a].on # None /\ trig[job[a].of.id].status = "live" =>
         <<job[a].of.id, job[a].on>> \notin drafted]_vars

(* A trigger that is due is run, or turned off, deleted or paused: neither  *)
(* another trigger's failure nor a press leaves it waiting.                 *)
EveryDueTriggerRuns == \A t \in Triggers : IsDue(t) ~> ~IsDue(t)

(* What the comments and tests say and the runs refute. *)

(* "Disabled and paused never run" (the name of a test): an unattended      *)
(* question is asked for a trigger that is on at that moment.               *)
DisabledNeverRuns ==
  [][job["tick"].stage # "asking" /\ job'["tick"].stage = "asking" =>
       LET t == job'["tick"].of.id IN
         trig[t].status = "live" /\ trig[t].enabled /\ ~trig[t].paused]_vars

(* "Paused, with the reason, until the person re-enables it"                *)
(* (triggers.py:41): no run takes the pause back.                           *)
PausedUntilReenabled ==
  [][\A t \in Triggers :
       trig[t].paused /\ ~trig'[t].paused => Enable(t)]_vars

(* "Deleting a trigger takes its runs" (the name of a test). *)
RunsHaveATrigger ==
  \A r \in runs : trig[r.trigger].status = "live"
=============================================================================
