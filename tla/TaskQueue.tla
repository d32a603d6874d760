------------------------------- MODULE TaskQueue -------------------------------
(***************************************************************************)
(* The task queue (core/task_queue.py), the scheduler that fills it        *)
(* (core/scheduler.py) and the retries (core/retry_policy.py).  Workers    *)
(* are coroutines of one loop: what happens between two awaits is one      *)
(* step, and the queue's lock is never held across one.                    *)
(***************************************************************************)
EXTENDS Naturals, FiniteSets

CONSTANTS
  Tasks,        (* 1..n, in the order they are enqueued: a task's counter    *)
  Weight,       (* _PRIORITY_WEIGHTS of its capability: smaller goes first   *)
  DependsOn,    (* the steps before it that it waits for                     *)
  PlanOf,       (* the plan it belongs to                                    *)
  Workers,
  MaxRetries,   (* of the task and of the policy: 3 and 3                    *)
  Idle

ASSUME QueueAssumption ==
  /\ Tasks \subseteq Nat \ {0} /\ IsFiniteSet(Tasks) /\ Weight \in [Tasks -> 0..4]
  /\ DependsOn \in [Tasks -> SUBSET Tasks]
  /\ \A t \in Tasks : \A d \in DependsOn[t] : d < t /\ PlanOf[d] = PlanOf[t]
  /\ MaxRetries \in Nat /\ Idle \notin Tasks

VARIABLES
  heap,         (* tasks waiting in the queue                                *)
  status,       (* a descriptor's status; "unknown" before it is enqueued    *)
  flagged,      (* tasks whose cancellation was asked for                    *)
  attempt,      (* failed attempts so far                                    *)
  worker,       (* a worker's task, or Idle; Stopped when it has ended       *)
  event,        (* tasks whose waiters have been told                        *)
  stopped       (* _stopped                                                  *)

queueVars == <<heap, status, flagged, attempt, worker, event, stopped>>

Ended == {"completed", "failed", "cancelled"}
Off == 0        (* what a worker does after stop, or before start            *)

-----------------------------------------------------------------------------
(* schedule and cancel_plan. *)

Plan(p) == {t \in Tasks : PlanOf[t] = p}

Schedule(p) ==
  /\ \A t \in Plan(p) : status[t] = "unknown"
  /\ heap' = heap \cup Plan(p)
  /\ status' = [t \in Tasks |-> IF t \in Plan(p) THEN "pending" ELSE status[t]]
  /\ UNCHANGED <<flagged, attempt, worker, event, stopped>>

Cancel(t) ==
  /\ status[t] \notin Ended \cup {"unknown"}
  /\ flagged' = flagged \cup {t}
  /\ UNCHANGED <<heap, status, attempt, worker, event, stopped>>

CancelPlan(p) ==
  /\ flagged' = flagged \cup {t \in Plan(p) : status[t] \notin Ended \cup {"unknown"}}
  /\ UNCHANGED <<heap, status, attempt, worker, event, stopped>>

-----------------------------------------------------------------------------
(* The workers. *)

Before(t, u) == Weight[t] < Weight[u] \/ (Weight[t] = Weight[u] /\ t < u)
Foremost(t) == t \in heap /\ \A u \in heap \ {t} : Before(t, u)

(* Mutant of Ready: a dependency that ended at all will do.                 *)
ReadyAfterAny(t) == \A d \in DependsOn[t] : status[d] \in Ended
Ready(t) == \A d \in DependsOn[t] : status[d] = "completed"

(* Mutant of End: a cancelled task is only dropped.                         *)
EndDropped(t, how) ==
  /\ status' = IF how = "cancelled" THEN status ELSE [status EXCEPT ![t] = how]
  /\ event' = IF how = "cancelled" THEN event ELSE event \cup {t}

End(t, how) ==
  /\ status' = [status EXCEPT ![t] = how]
  /\ event' = event \cup {t}

(* _pop takes the head; one that is not ready goes back where it was, and   *)
(* the worker sleeps.  What is cancelled before its first attempt ends here.*)
Take(w, t) ==
  /\ worker[w] = Idle /\ ~stopped /\ Foremost(t) /\ Ready(t)
  /\ heap' = heap \ {t}
  /\ IF t \in flagged
     THEN End(t, "cancelled") /\ UNCHANGED worker
     ELSE /\ status' = [status EXCEPT ![t] = "running"]
          /\ worker' = [worker EXCEPT ![w] = t]
          /\ UNCHANGED event
  /\ UNCHANGED <<flagged, attempt, stopped>>

Running(w, t) == worker[w] = t /\ status[t] = "running"

Completes(w, t) ==
  /\ Running(w, t)
  /\ End(t, "completed")
  /\ worker' = [worker EXCEPT ![w] = Idle]
  /\ UNCHANGED <<heap, flagged, attempt, stopped>>

(* The step notices its cancellation and raises TaskCancelledError.         *)
GivesWay(w, t) ==
  /\ Running(w, t) /\ t \in flagged
  /\ End(t, "cancelled")
  /\ worker' = [worker EXCEPT ![w] = Idle]
  /\ UNCHANGED <<heap, flagged, attempt, stopped>>

(* should_retry, on the number of the attempt that failed.                  *)
MayRetry(t, retryable) == attempt[t] < MaxRetries /\ retryable

Raises(w, t, retryable) ==
  /\ Running(w, t)
  /\ IF MayRetry(t, retryable)
     THEN /\ status' = [status EXCEPT ![t] = "retrying"]
          /\ attempt' = [attempt EXCEPT ![t] = @ + 1]
          /\ UNCHANGED <<worker, event>>
     ELSE /\ End(t, "failed")
          /\ worker' = [worker EXCEPT ![w] = Idle]
          /\ UNCHANGED attempt
  /\ UNCHANGED <<heap, flagged, stopped>>

(* The delay is over.  The status stays "retrying" in the code; here it     *)
(* tells the attempt from the sleep before it.                              *)
TriesAgain(w, t) ==
  /\ worker[w] = t /\ status[t] = "retrying"
  /\ IF t \in flagged
     THEN End(t, "cancelled") /\ worker' = [worker EXCEPT ![w] = Idle]
     ELSE /\ status' = [status EXCEPT ![t] = "running"]
          /\ UNCHANGED <<worker, event>>
  /\ UNCHANGED <<heap, flagged, attempt, stopped>>

(* start, unless there are workers.  After a stop the new ones end at once. *)
Begin ==
  /\ \A w \in Workers : worker[w] = Off
  /\ ~stopped
  /\ worker' = [w \in Workers |-> Idle]
  /\ UNCHANGED <<heap, status, flagged, attempt, event, stopped>>

(* stop cancels every worker where it waits: in an attempt, which fails of  *)
(* it; in the sleep before one, where nothing catches it; or in its idle    *)
(* sleep.                                                                   *)
Stop ==
  /\ stopped' = TRUE
  /\ LET cut == {t \in Tasks : status[t] = "running" /\ \E w \in Workers : worker[w] = t} IN
     /\ status' = [t \in Tasks |-> IF t \in cut THEN "failed" ELSE status[t]]
     /\ event' = event \cup cut
  /\ worker' = [w \in Workers |-> Off]
  /\ UNCHANGED <<heap, flagged, attempt>>

QueueInit ==
  /\ heap = {} /\ status = [t \in Tasks |-> "unknown"]
  /\ flagged = {} /\ attempt = [t \in Tasks |-> 0]
  /\ worker = [w \in Workers |-> Off] /\ event = {} /\ stopped = FALSE

Work(w) ==
  \E t \in Tasks :
    \/ Take(w, t) \/ Completes(w, t) \/ GivesWay(w, t) \/ TriesAgain(w, t)
    \/ \E retryable \in BOOLEAN : Raises(w, t, retryable)

Manages ==
  \/ \E t \in Tasks : Schedule(PlanOf[t]) \/ Cancel(t) \/ CancelPlan(PlanOf[t])
  \/ Begin \/ Stop

QueueNext == Manages \/ \E w \in Workers : Work(w)

(* A step ends, and a sleep; the loop runs every worker.                    *)
QueueFairness == \A w \in Workers : WF_queueVars(Work(w))
QueueSpec == QueueInit /\ [][QueueNext]_queueVars /\ QueueFairness

-----------------------------------------------------------------------------
(* Properties. *)

QueueTypeOK ==
  /\ heap \subseteq {t \in Tasks : status[t] = "pending"}
  /\ status \in [Tasks -> Ended \cup {"unknown", "pending", "running", "retrying"}]
  /\ flagged \subseteq Tasks /\ attempt \in [Tasks -> 0..MaxRetries]
  /\ worker \in [Workers -> Tasks \cup {Idle, Off}]

(* A waiter is told exactly when its task has ended, and a worker holds     *)
(* exactly one that has not.                                                *)
ToldWhenEnded ==
  /\ event = {t \in Tasks : status[t] \in Ended}
  /\ \A w, v \in Workers : worker[w] \in Tasks =>
       status[worker[w]] \in {"running", "retrying"} /\ (worker[v] = worker[w] => v = w)

(* An end is final, and nothing is attempted before what it depends on has  *)
(* completed, however its plan is retried, cancelled or cut off.            *)
DependenciesFirst ==
  [][\A t \in Tasks :
       /\ status[t] \in Ended => status'[t] = status[t]
       /\ status'[t] = "running" =>
            \A d \in DependsOn[t] : status[d] = "completed"]_queueVars

(* While the queue runs and its head only waits for what a worker has, each *)
(* task ends.                                                               *)
ForemostWaitsOnWork ==
  \A t \in heap : Foremost(t) => \A d \in DependsOn[t] : status[d] \in {"completed", "running", "retrying"}

EveryTaskEnds ==
  [](~stopped /\ ForemostWaitsOnWork) /\ <>(\A w \in Workers : worker[w] # Off) =>
    \A t \in Tasks : status[t] = "pending" ~> status[t] \in Ended

(* What the code's own words promise and the runs refute.                   *)

(* "Pop the highest-priority entry, respecting dependencies"                *)
(* (task_queue.py:178): a running queue gets to the end of what it was      *)
(* given.                                                                   *)
QueueDrains ==
  []~stopped /\ <>(\A w \in Workers : worker[w] # Off) =>
    \A t \in Tasks : status[t] = "pending" ~> status[t] \in Ended

(* "Wait for a task to complete": once the queue has stopped, whoever waits *)
(* is told.                                                                 *)
StopTellsWaiters ==
  \A t \in Tasks : stopped /\ status[t] = "retrying" => t \in event
=============================================================================
