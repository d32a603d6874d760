---------------------------- MODULE Triggers_proofs ----------------------------
(***************************************************************************)
(* The scheduler, for any triggers, schedules, obligations and presses:    *)
(* no slot is begun twice; an obligation is drafted for once, where a run  *)
(* is kept longer than a trigger looks ahead; and the breaker trips, where *)
(* a job counts from the row as it is.  What the proofs lean on is the     *)
(* runner's lock, which lets one job at a time ask and record.             *)
(***************************************************************************)
EXTENDS Triggers, TLAPS

TriggerRow == [status : {"unborn", "live", "deleted"}, enabled : BOOLEAN,
               last : Nat, held : Nat, paused : BOOLEAN]
RunRow == [trigger : Triggers, finished : Nat, outcome : Outcome,
           obligation : Obligations \cup {None}]
Copies == [id : Triggers, last : Nat, held : Nat]
Jobs   == [stage : {"queued", "enter", "drafting", "asking"}, of : Copies,
           started : Nat, left : SUBSET Obligations, ran : BOOLEAN,
           on : Obligations \cup {None}]

(* The part of the type that the steps need: the tables, and the runner.    *)
TablesInv ==
  /\ trig \in [Triggers -> TriggerRow]
  /\ runs \subseteq RunRow
  /\ open \subseteq Obligations /\ clock \in Nat
  /\ pressed \subseteq Presses
  /\ streak \in [Triggers -> Nat] /\ served \in [Triggers -> Int]
RunnerInv ==
  /\ turn \in Tasks \cup {None} /\ holder \in Tasks \cup {None}
  /\ line \in Seq(Tasks)
  /\ todo \in [Tasks -> SUBSET Copies]
  /\ job \in [Tasks -> Jobs \cup {NoJob}]

(* Whoever is past the lock is the holder; whoever is in line waits, once.  *)
Inside(a) == job[a].stage \in {"enter", "drafting", "asking"}
LineInv ==
  /\ \A i \in 1..Len(line) : job[line[i]].stage = "queued"
  /\ \A i, j \in 1..Len(line) : line[i] = line[j] => i = j
LockInv == LineInv /\ \A a \in Tasks : Inside(a) => holder = a

(* A task has one copy of a trigger at most, each of one that was created,  *)
(* and a task that nobody has made has none.                                *)
CopiesOf(a) ==
  /\ \A c, d \in todo[a] : c.id = d.id => c = d
  /\ job[a] # NoJob => \A c \in todo[a] : c.id # job[a].of.id
  /\ a \in Presses \ pressed => job[a] = NoJob /\ todo[a] = {}
BornOf(a) ==
  /\ \A c \in todo[a] : trig[c.id].status # "unborn"
  /\ job[a] # NoJob => trig[job[a].of.id].status # "unborn"
CopiesInv == \A a \in Tasks : CopiesOf(a) /\ BornOf(a)

(* Nothing is counted or drafted before there is a trigger.                 *)
BornInv ==
  \A t \in Triggers : trig[t].status = "unborn" =>
    streak[t] = 0 /\ \A o \in Obligations : <<t, o>> \notin drafted

ControlInv == TablesInv /\ RunnerInv /\ LockInv /\ CopiesInv /\ BornInv

(* A slot a tick's run was recorded for is behind the trigger, behind every *)
(* run begun since, and behind the slot of whatever the tick has yet to     *)
(* begin.                                                                   *)
Begun(a) == job[a].stage \in {"drafting", "asking"}
ServedInv ==
  \A t \in Triggers : /\ served[t] <= clock
                      /\ trig[t].status = "live" => served[t] <= trig[t].last
SinceInv ==
  \A a \in Tasks : Begun(a) =>
    job[a].started <= clock /\ \A t \in Triggers : served[t] <= job[a].started
RanInv ==
  Begun("tick") /\ job["tick"].ran /\ trig[job["tick"].of.id].status = "live" =>
    job["tick"].started <= trig[job["tick"].of.id].last
ToBegin(a) == job[a].stage \in {"queued", "enter"}
AheadInv ==
  /\ \A c \in todo["tick"] : served[c.id] < Slot(c.id, clock)
  /\ ToBegin("tick") => served[job["tick"].of.id] < Slot(job["tick"].of.id, clock)
SlotInv == ServedInv /\ SinceInv /\ RanInv /\ AheadInv

(* A run is kept longer than any trigger looks ahead.                       *)
RecordsOutlast == \A t \in Triggers : DaysAhead[t] < RUN_TTL_DAYS

(* What has been drafted for is past, or on record for as long as it is     *)
(* not; and nothing a job is to draft has been.                             *)
Ahead(o, t, when) == Due[o] <= (when \div Day) + DaysAhead[t]
OnRecord(t, o) ==
  \E r \in runs : r.trigger = t /\ r.obligation = o /\ Ahead(o, t, r.finished)
ToDraft(a) == job[a].left \cup ({job[a].on} \ {None})
StillOwed(a) ==
  Begun(a) =>
    /\ job[a].on \notin job[a].left
    /\ \A o \in ToDraft(a) :
         /\ Ahead(o, job[a].of.id, job[a].started)
         /\ trig[job[a].of.id].status = "live" => <<job[a].of.id, o>> \notin drafted
Recorded(t, o) ==
  <<t, o>> \in drafted /\ trig[t].status = "live" => Due[o] < Today \/ OnRecord(t, o)
DraftInv ==
  /\ \A a \in Tasks : StillOwed(a)
  /\ \A t \in Triggers, o \in Obligations : Recorded(t, o)

(* Nobody presses, and a job records once.                                  *)
OneRecordAJob ==
  /\ Presses = {}
  /\ \A t \in Triggers : Kind[t] = "obligations" => \A o, p \in Obligations : o = p

(* A count is no less than the holds in a row, in the row and in every copy *)
(* the tick has yet to record from.                                         *)
ToRecord(a) == job[a].stage \in {"queued", "enter", "drafting", "asking"}
               /\ ~(job[a].stage = "drafting" /\ job[a].ran)
RowsCount ==
  \A t \in Triggers : trig[t].status = "live" =>
    streak[t] <= trig[t].held /\ (trig[t].held >= BREAKER_AFTER => trig[t].paused)
CopiesCount ==
  /\ \A c \in todo["tick"] : streak[c.id] <= c.held
  /\ ToRecord("tick") => streak[job["tick"].of.id] <= job["tick"].of.held
OnceInv ==
  Begun("tick") =>
    /\ job["tick"].left # {} =>
         /\ job["tick"].stage = "drafting" /\ ~job["tick"].ran
         /\ Kind[job["tick"].of.id] = "obligations"
    /\ job["tick"].stage = "asking" => ~job["tick"].ran
CountInv == RowsCount /\ CopiesCount /\ OnceInv

-----------------------------------------------------------------------------
(* The operators. *)

LEMMA MaxOfTwo ==
  ASSUME NEW m \in Nat, NEW n \in Nat
  PROVE  /\ Max({m, n}) \in Nat /\ Max({m, n}) >= m /\ Max({m, n}) >= n
<1>1. \E x \in {m, n} : \A y \in {m, n} : x >= y
  <2>1. CASE m >= n
    BY <2>1
  <2>2. CASE n >= m
    BY <2>2
  <2> QED BY <2>1, <2>2
<1>2. Max({m, n}) \in {m, n} /\ \A y \in {m, n} : Max({m, n}) >= y
  BY <1>1 DEF Max
<1> QED BY <1>2

LEMMA JobIsNoNone == NoJob \notin Jobs /\ ("tick" \in Tasks) /\ None \notin Tasks
BY TriggersAssumption DEF NoJob, Jobs, Tasks

LEMMA CopyType ==
  ASSUME TablesInv, NEW t \in Triggers
  PROVE  Copy(t) \in Copies /\ Copy(t).id = t /\ Copy(t).held = trig[t].held
         /\ Copy(t).last = trig[t].last
BY DEF TablesInv, Copy, Copies, TriggerRow

(* What record_run does to the trigger it is of, and to no other.           *)
LEMMA RecordEffect ==
  ASSUME TablesInv, NEW copy \in Copies, NEW started \in Nat, NEW outcome \in Outcome,
         NEW o \in Obligations \cup {None}, RecordRun(copy, started, outcome, o)
  PROVE  /\ trig' \in [Triggers -> TriggerRow] /\ runs' \subseteq RunRow
         /\ streak' \in [Triggers -> Nat]
         /\ \A t \in Triggers : /\ trig'[t].status = trig[t].status
                                /\ t # copy.id => trig'[t] = trig[t] /\ streak'[t] = streak[t]
         /\ streak'[copy.id] = IF outcome = "held" THEN streak[copy.id] + 1 ELSE 0
         /\ trig[copy.id].status = "live" =>
              /\ trig'[copy.id].last >= started
              /\ trig'[copy.id].held = HeldInARow(copy, outcome)
              /\ trig'[copy.id].paused <=> trig'[copy.id].held >= BREAKER_AFTER
         /\ drafted' = IF o = None THEN drafted ELSE drafted \cup {<<copy.id, o>>}
<1>1. copy.id \in Triggers /\ copy.last \in Nat /\ copy.held \in Nat
  BY DEF Copies
<1>2. HeldInARow(copy, outcome) \in Nat
  BY <1>1 DEF HeldInARow
<1>3. LastRun(copy, started) \in Nat /\ LastRun(copy, started) >= started
  BY <1>1, MaxOfTwo DEF LastRun
<1>4. BREAKER_AFTER \in Nat
  BY TriggersAssumption
<1>5. runs' \subseteq RunRow
  BY <1>1 DEF RecordRun, TablesInv, Kept, RunRow
<1>6. /\ streak' \in [Triggers -> Nat]
      /\ \A t \in Triggers : t # copy.id => streak'[t] = streak[t]
      /\ streak'[copy.id] = IF outcome = "held" THEN streak[copy.id] + 1 ELSE 0
  BY <1>1 DEF RecordRun, TablesInv
<1>7. drafted' = IF o = None THEN drafted ELSE drafted \cup {<<copy.id, o>>}
  BY DEF RecordRun
<1>8. CASE trig[copy.id].status # "live"
  <2>1. trig' = trig
    BY <1>8 DEF RecordRun
  <2> QED BY <1>5, <1>6, <1>7, <1>8, <2>1 DEF TablesInv
<1>9. CASE trig[copy.id].status = "live"
  <2> DEFINE held == HeldInARow(copy, outcome)
             trips == held >= BREAKER_AFTER
             last == LastRun(copy, started)
  <2>1. trig' = [trig EXCEPT ![copy.id].last = last, ![copy.id].held = held,
                             ![copy.id].paused = trips]
    BY <1>9 DEF RecordRun
  <2>2. trips \in BOOLEAN
    OBVIOUS
  <2> HIDE DEF trips
  <2>3. /\ trig' \in [Triggers -> TriggerRow]
        /\ \A t \in Triggers \ {copy.id} : trig'[t] = trig[t]
        /\ trig'[copy.id].status = trig[copy.id].status
        /\ trig'[copy.id].last = last /\ trig'[copy.id].held = held
        /\ trig'[copy.id].paused = trips
    BY <1>1, <1>2, <1>3, <2>1, <2>2 DEF TablesInv, TriggerRow
  <2>4. \A t \in Triggers : /\ trig'[t].status = trig[t].status
                            /\ t # copy.id => trig'[t] = trig[t]
    BY <2>3
  <2>5. trig'[copy.id].last >= started
    BY <1>3, <2>3
  <2>6. trig'[copy.id].paused <=> trig'[copy.id].held >= BREAKER_AFTER
    BY <2>3 DEF trips
  <2> QED BY <1>5, <1>6, <1>7, <2>3, <2>4, <2>5, <2>6
<1> QED BY <1>8, <1>9

-----------------------------------------------------------------------------
(* The runner. *)

(* Nothing that was created is unborn again.                                *)
BornStays ==
  /\ BornInv'
  /\ \A t \in Triggers : trig[t].status # "unborn" => trig'[t].status # "unborn"

LEMMA OfATrigger ==
  ASSUME RunnerInv, NEW a \in Tasks
  PROVE  /\ \A c \in todo[a] : c.id \in Triggers /\ c \in Copies
         /\ job[a] # NoJob => job[a] \in Jobs /\ job[a].of \in Copies
                              /\ job[a].of.id \in Triggers
BY DEF RunnerInv, Jobs, Copies

(* A step of one task: what has to be seen of that task.                    *)
LEMMA OneTaskKeeps ==
  ASSUME ControlInv, NEW a \in Tasks, TablesInv', RunnerInv', BornStays,
         \A b \in Tasks \ {a} : job'[b] = job[b] /\ todo'[b] = todo[b],
         Inside(a)' => holder' = a,
         holder' = holder \/ Inside(a) \/ holder = None,
         LineInv', CopiesOf(a)', BornOf(a)', pressed \subseteq pressed'
  PROVE  ControlInv'
<1>1. \A b \in Tasks : Inside(b)' => holder' = b
  <2> SUFFICES ASSUME NEW b \in Tasks \ {a}, Inside(b)' PROVE holder' = b
    OBVIOUS
  <2>1. Inside(b) /\ holder = b
    BY DEF Inside, ControlInv, LockInv
  <2> QED BY <2>1, JobIsNoNone DEF ControlInv, LockInv
<1>2. ASSUME NEW b \in Tasks \ {a} PROVE CopiesOf(b)' /\ BornOf(b)'
  <2>1. CopiesOf(b)'
    BY DEF ControlInv, CopiesInv, CopiesOf
  <2>2. BornOf(b)'
    BY OfATrigger DEF ControlInv, CopiesInv, BornOf, BornStays
  <2> QED BY <2>1, <2>2
<1>3. CopiesInv'
  BY <1>2 DEF CopiesInv
<1> QED BY <1>1, <1>3 DEF ControlInv, LockInv, BornStays

(* A step that leaves the runner alone.                                     *)
LEMMA RunnerSame ==
  ASSUME ControlInv, UNCHANGED <<holder, line, todo, job, pressed>>,
         turn' \in Tasks \cup {None}, TablesInv', BornStays
  PROVE  ControlInv'
<1>1. RunnerInv'
  BY DEF ControlInv, RunnerInv
<1>2. LockInv'
  BY DEF ControlInv, LockInv, LineInv, Inside
<1>3. ASSUME NEW b \in Tasks PROVE CopiesOf(b)' /\ BornOf(b)'
  BY OfATrigger DEF ControlInv, CopiesInv, CopiesOf, BornOf, BornStays
<1> QED BY <1>1, <1>2, <1>3 DEF ControlInv, CopiesInv, BornStays

LEMMA StoreSame ==
  ASSUME ControlInv, UNCHANGED <<trig, streak, drafted>>
  PROVE  BornStays
BY DEF ControlInv, BornInv, BornStays

(* The line, when its tasks go on waiting.                                  *)
LEMMA LineSame ==
  ASSUME ControlInv, UNCHANGED line,
         NEW a \in Tasks, job[a].stage # "queued",
         \A b \in Tasks \ {a} : job'[b] = job[b]
  PROVE  LineInv'
<1>1. \A i \in 1..Len(line) : line[i] \in Tasks /\ line[i] # a
  BY DEF ControlInv, RunnerInv, LockInv, LineInv
<1> QED BY <1>1 DEF ControlInv, LockInv, LineInv

LEMMA LineJoined ==
  ASSUME NEW a \in Tasks, line \in Seq(Tasks), line' = Append(line, a)
  PROVE  /\ line' \in Seq(Tasks) /\ Len(line') = Len(line) + 1
         /\ \A i \in 1..Len(line) : line'[i] = line[i]
         /\ line'[Len(line) + 1] = a
         /\ \A i \in 1..Len(line') : i \in 1..Len(line) \/ i = Len(line) + 1
OBVIOUS

LEMMA TickKeeps ==
  ASSUME ControlInv, Tick
  PROVE  ControlInv'
<1> DEFINE due == {u \in Triggers : IsDue(u)}
<1>1. /\ todo' = [todo EXCEPT !["tick"] = {Copy(t) : t \in due}]
      /\ turn' = "tick" /\ job["tick"] = NoJob /\ UNCHANGED <<holder, line, job, pressed>>
      /\ TablesInv' /\ BornStays
  BY StoreSame DEF Tick, ControlInv, TablesInv, store, history
<1>2. ASSUME NEW c \in {Copy(t) : t \in due}
      PROVE  c \in Copies /\ c = Copy(c.id) /\ trig[c.id].status = "live"
  BY CopyType DEF ControlInv, IsDue
<1>3. RunnerInv' /\ todo'["tick"] = {Copy(t) : t \in due}
  BY <1>1, <1>2, JobIsNoNone DEF ControlInv, RunnerInv
<1>4. \A b \in Tasks \ {"tick"} : job'[b] = job[b] /\ todo'[b] = todo[b]
  BY <1>1 DEF ControlInv, RunnerInv
<1>5. job'["tick"] = NoJob /\ ~Inside("tick")' /\ job["tick"].stage # "queued"
  BY <1>1 DEF Inside, NoJob
<1> HIDE DEF due
<1>6. CopiesOf("tick")'
  BY <1>2, <1>3, <1>5, TriggersAssumption DEF CopiesOf
<1>7. BornOf("tick")'
  BY <1>1, <1>2, <1>3, <1>5 DEF BornOf, Tick, store
<1>8. LineInv'
  BY <1>1, <1>4, <1>5, LineSame, JobIsNoNone
<1> QED
  BY <1>1, <1>3, <1>4, <1>5, <1>6, <1>7, <1>8, OneTaskKeeps, JobIsNoNone

LEMMA PressKeeps ==
  ASSUME ControlInv, NEW p \in Presses, NEW t \in Triggers, Press(p, t)
  PROVE  ControlInv'
<1>1. /\ todo' = [todo EXCEPT ![p] = {Copy(t)}] /\ trig[t].status = "live"
      /\ turn' = p /\ UNCHANGED <<holder, line, job, trig>>
      /\ p \notin pressed /\ pressed' = pressed \cup {p}
      /\ TablesInv' /\ BornStays /\ p \in Tasks
  BY StoreSame DEF Press, ControlInv, TablesInv, store, history, Tasks
<1>2. Copy(t) \in Copies /\ Copy(t).id = t
  BY CopyType DEF ControlInv
<1>3. RunnerInv' /\ todo'[p] = {Copy(t)}
  BY <1>1, <1>2 DEF ControlInv, RunnerInv
<1>4. \A b \in Tasks \ {p} : job'[b] = job[b] /\ todo'[b] = todo[b]
  BY <1>1 DEF ControlInv, RunnerInv
<1>5. job'[p] = NoJob /\ ~Inside(p)' /\ job[p].stage # "queued"
  BY <1>1 DEF ControlInv, CopiesInv, CopiesOf, Inside, NoJob
<1>6. CopiesOf(p)' /\ BornOf(p)'
  BY <1>1, <1>2, <1>3, <1>5 DEF CopiesOf, BornOf
<1>7. LineInv'
  BY <1>1, <1>4, <1>5, LineSame
<1> QED
  BY <1>1, <1>3, <1>4, <1>5, <1>6, <1>7, OneTaskKeeps

LEMMA AcquireKeeps ==
  ASSUME ControlInv, NEW a \in Tasks, Acquire(a)
  PROVE  ControlInv'
<1> PICK copy \in todo[a] :
       /\ todo' = [todo EXCEPT ![a] = @ \ {copy}]
       /\ \/ /\ holder = None /\ holder' = a /\ UNCHANGED <<turn, line>>
             /\ job' = [job EXCEPT ![a] = Job(copy, "enter", 0, {}, FALSE, None)]
          \/ /\ line' = Append(line, a) /\ turn' = None /\ UNCHANGED holder
             /\ job' = [job EXCEPT ![a] = Job(copy, "queued", 0, {}, FALSE, None)]
  BY DEF Acquire, Free
<1>1. /\ turn = a /\ job[a] = NoJob /\ copy \in Copies /\ job[a].stage # "queued"
      /\ UNCHANGED <<pressed, trig>> /\ TablesInv' /\ BornStays
  BY StoreSame DEF Acquire, ControlInv, TablesInv, RunnerInv, store, history, NoJob
<1>2. /\ Job(copy, "enter", 0, {}, FALSE, None) \in Jobs
      /\ Job(copy, "queued", 0, {}, FALSE, None) \in Jobs
      /\ Job(copy, "enter", 0, {}, FALSE, None).of = copy
      /\ Job(copy, "queued", 0, {}, FALSE, None).of = copy
      /\ Job(copy, "queued", 0, {}, FALSE, None).stage = "queued"
  BY <1>1 DEF Job, Jobs
<1>3. todo'[a] = todo[a] \ {copy} /\ job'[a] \in Jobs /\ job'[a].of = copy
  BY <1>1, <1>2 DEF ControlInv, RunnerInv
<1>4. \A b \in Tasks \ {a} : job'[b] = job[b] /\ todo'[b] = todo[b]
  BY DEF ControlInv, RunnerInv
<1>5. todo' \in [Tasks -> SUBSET Copies] /\ job' \in [Tasks -> Jobs \cup {NoJob}]
  BY <1>1, <1>2 DEF ControlInv, RunnerInv
<1>6. line \in Seq(Tasks) /\ line' \in Seq(Tasks)
  BY LineJoined DEF ControlInv, RunnerInv
<1>7. RunnerInv'
  BY <1>5, <1>6, <1>1 DEF ControlInv, RunnerInv
<1>8. CopiesOf(a)'
  BY <1>1, <1>3 DEF ControlInv, CopiesInv, CopiesOf
<1>9. BornOf(a)'
  BY <1>1, <1>3 DEF ControlInv, CopiesInv, BornOf
<1>10. CASE holder = None /\ holder' = a /\ line' = line
  <2>1. LineInv'
    BY <1>1, <1>4, <1>10, LineSame
  <2> QED BY <1>1, <1>4, <1>7, <1>8, <1>9, <1>10, <2>1, OneTaskKeeps
<1>11. CASE /\ line' = Append(line, a) /\ holder' = holder
            /\ job' = [job EXCEPT ![a] = Job(copy, "queued", 0, {}, FALSE, None)]
  <2>1. job'[a].stage = "queued" /\ ~Inside(a)'
    BY <1>2, <1>11 DEF Inside, ControlInv, RunnerInv
  <2>2. \A i \in 1..Len(line) : line[i] # a /\ line[i] \in Tasks
    BY <1>1, <1>6 DEF ControlInv, LockInv, LineInv
  <2>3. LineInv'
    <3>1. /\ \A i \in 1..Len(line) : line'[i] = line[i]
          /\ line'[Len(line) + 1] = a
          /\ \A i \in 1..Len(line') : i \in 1..Len(line) \/ i = Len(line) + 1
      BY <1>6, <1>11, LineJoined
    <3>2. \A i \in 1..Len(line) : job'[line[i]].stage = "queued"
      BY <1>4, <2>2 DEF ControlInv, LockInv, LineInv
    <3>3. \A i \in 1..Len(line') : job'[line'[i]].stage = "queued"
      BY <2>1, <3>1, <3>2
    <3>4. \A i, j \in 1..Len(line) : line[i] = line[j] => i = j
      BY DEF ControlInv, LockInv, LineInv
    <3>5. \A i, j \in 1..Len(line') : line'[i] = line'[j] => i = j
      BY <2>2, <3>1, <3>4
    <3> QED BY <3>3, <3>5 DEF LineInv
  <2> QED BY <1>1, <1>4, <1>7, <1>8, <1>9, <1>11, <2>1, <2>3, OneTaskKeeps
<1> QED BY <1>10, <1>11

LEMMA WakeKeeps ==
  ASSUME ControlInv, Wake
  PROVE  ControlInv'
<1>0. line \in Seq(Tasks) /\ Head(line) \in Tasks
  BY DEF Wake, ControlInv, RunnerInv
<1> PICK a \in Tasks : a = Head(line)
  BY <1>0
<1>1. /\ line \in Seq(Tasks) /\ a \in Tasks /\ line' = Tail(line) /\ line' \in Seq(Tasks)
      /\ holder = None /\ holder' = a /\ turn' = a /\ UNCHANGED <<todo, pressed, trig>>
      /\ job' = [job EXCEPT ![a].stage = "enter"]
      /\ TablesInv' /\ BornStays
  BY StoreSame DEF Wake, ControlInv, TablesInv, RunnerInv, store, history
<1>2. /\ 1 \in 1..Len(line) /\ line[1] = a /\ Len(line') = Len(line) - 1
      /\ \A i \in 1..Len(line') : line'[i] = line[i + 1] /\ i + 1 \in 1..Len(line)
  BY <1>1 DEF Wake
<1>3. job[a].stage = "queued" /\ job[a] \in Jobs
  <2>1. job[a].stage = "queued"
    BY <1>2 DEF ControlInv, LockInv, LineInv
  <2> QED BY <1>1, <2>1 DEF ControlInv, RunnerInv, NoJob
<1>4. /\ job'[a] \in Jobs /\ job'[a].of = job[a].of
      /\ job' \in [Tasks -> Jobs \cup {NoJob}]
      /\ \A b \in Tasks \ {a} : job'[b] = job[b] /\ todo'[b] = todo[b]
  BY <1>1, <1>3 DEF ControlInv, RunnerInv, Jobs
<1>5. RunnerInv'
  BY <1>1, <1>4 DEF ControlInv, RunnerInv
<1>6. CopiesOf(a)'
  BY <1>1, <1>3, <1>4, JobIsNoNone DEF ControlInv, CopiesInv, CopiesOf
<1>7. BornOf(a)'
  BY <1>1, <1>3, <1>4, JobIsNoNone DEF ControlInv, CopiesInv, BornOf
<1>8. LineInv'
  <2>1. \A i, j \in 1..Len(line) : line[i] = line[j] => i = j
    BY DEF ControlInv, LockInv, LineInv
  <2>2. \A i \in 1..Len(line') : line'[i] \in Tasks \ {a} /\ job[line'[i]].stage = "queued"
    <3> SUFFICES ASSUME NEW i \in 1..Len(line')
                 PROVE  line'[i] \in Tasks \ {a} /\ job[line'[i]].stage = "queued"
      OBVIOUS
    <3>1. i + 1 \in 1..Len(line) /\ line'[i] = line[i + 1] /\ i + 1 # 1
      BY <1>2
    <3>2. line[i + 1] # a /\ line[i + 1] \in Tasks
      BY <1>1, <1>2, <2>1, <3>1
    <3> QED BY <3>1, <3>2 DEF ControlInv, LockInv, LineInv
  <2>3. \A i, j \in 1..Len(line') : line'[i] = line'[j] => i = j
    <3> SUFFICES ASSUME NEW i \in 1..Len(line'), NEW j \in 1..Len(line'), line'[i] = line'[j]
                 PROVE  i = j
      OBVIOUS
    <3>1. i + 1 \in 1..Len(line) /\ j + 1 \in 1..Len(line) /\ line[i + 1] = line[j + 1]
      BY <1>2
    <3>2. i + 1 = j + 1
      BY <2>1, <3>1
    <3> QED BY <3>2
  <2> QED BY <1>4, <2>2, <2>3 DEF LineInv
<1> QED BY <1>1, <1>4, <1>5, <1>6, <1>7, <1>8, OneTaskKeeps

(* The job inside the lock goes on with the same copy.                      *)
LEMMA GoesOn ==
  ASSUME ControlInv, NEW a \in Tasks, Inside(a), NEW next \in Jobs,
         next.of = job[a].of, job' = [job EXCEPT ![a] = next],
         UNCHANGED <<holder, line, todo, pressed>>,
         turn' \in Tasks \cup {None}, TablesInv', BornStays
  PROVE  ControlInv'
<1>1. /\ job[a] # NoJob /\ job[a].stage # "queued" /\ holder = a /\ job[a] \in Jobs
  BY DEF ControlInv, RunnerInv, LockInv, Inside, NoJob
<1>2. /\ job'[a] = next /\ job' \in [Tasks -> Jobs \cup {NoJob}]
      /\ \A b \in Tasks \ {a} : job'[b] = job[b] /\ todo'[b] = todo[b]
  BY DEF ControlInv, RunnerInv
<1>3. RunnerInv'
  BY <1>2 DEF ControlInv, RunnerInv
<1>4. CopiesOf(a)'
  BY <1>1, <1>2, JobIsNoNone DEF ControlInv, CopiesInv, CopiesOf
<1>5. BornOf(a)'
  BY <1>1, <1>2, OfATrigger DEF ControlInv, CopiesInv, BornOf, BornStays
<1>6. LineInv'
  BY <1>1, <1>2, LineSame
<1> QED BY <1>1, <1>2, <1>3, <1>4, <1>5, <1>6, OneTaskKeeps

(* The job inside the lock is over.                                         *)
LEMMA FinishKeeps ==
  ASSUME ControlInv, NEW a \in Tasks, Inside(a), Finish(a), UNCHANGED pressed,
         TablesInv', BornStays
  PROVE  ControlInv'
<1>1. /\ job[a] # NoJob /\ job[a].stage # "queued" /\ job[a] \in Jobs
  BY DEF ControlInv, RunnerInv, Inside, NoJob
<1>2. /\ job'[a] = NoJob /\ job' \in [Tasks -> Jobs \cup {NoJob}] /\ holder' = None
      /\ UNCHANGED <<line, todo>> /\ turn' \in Tasks \cup {None}
      /\ \A b \in Tasks \ {a} : job'[b] = job[b] /\ todo'[b] = todo[b]
  BY DEF Finish, ControlInv, RunnerInv
<1>3. RunnerInv'
  BY <1>2 DEF ControlInv, RunnerInv
<1>4. CopiesOf(a)'
  BY <1>1, <1>2 DEF ControlInv, CopiesInv, CopiesOf
<1>5. BornOf(a)'
  BY <1>1, <1>2, OfATrigger DEF ControlInv, CopiesInv, BornOf, BornStays
<1>6. LineInv'
  BY <1>1, <1>2, LineSame
<1>7. ~Inside(a)'
  BY <1>2 DEF Inside, NoJob
<1> QED BY <1>1, <1>2, <1>3, <1>4, <1>5, <1>6, <1>7, OneTaskKeeps

(* What a record leaves of the tables.                                      *)
LEMMA RecordKeeps ==
  ASSUME ControlInv, NEW a \in Tasks, job[a] # NoJob, NEW started \in Nat,
         NEW outcome \in Outcome, NEW o \in Obligations \cup {None},
         RecordRun(job[a].of, started, outcome, o),
         UNCHANGED <<open, clock, pressed>>, served' \in [Triggers -> Int]
  PROVE  TablesInv' /\ BornStays
<1>1. /\ job[a].of \in Copies /\ job[a].of.id \in Triggers
      /\ trig[job[a].of.id].status # "unborn"
  BY OfATrigger DEF ControlInv, CopiesInv, BornOf
<1>2. /\ trig' \in [Triggers -> TriggerRow] /\ runs' \subseteq RunRow
      /\ streak' \in [Triggers -> Nat]
      /\ \A t \in Triggers : /\ trig'[t].status = trig[t].status
                             /\ t # job[a].of.id => streak'[t] = streak[t]
      /\ drafted' = IF o = None THEN drafted ELSE drafted \cup {<<job[a].of.id, o>>}
  BY <1>1, RecordEffect DEF ControlInv
<1>3. TablesInv'
  BY <1>2 DEF ControlInv, TablesInv
<1>4. BornInv'
  BY <1>1, <1>2 DEF ControlInv, BornInv
<1> QED BY <1>2, <1>3, <1>4 DEF BornStays

LEMMA ServeType ==
  ASSUME ControlInv, NEW a \in Tasks, Begun(a), Serve(a)
  PROVE  served' \in [Triggers -> Int]
<1>1. job[a] \in Jobs /\ job[a].of.id \in Triggers /\ job[a].started \in Int
  BY OfATrigger DEF Begun, NoJob, ControlInv, Jobs
<1>2. At[job[a].of.id] \in Int /\ Day \in Int /\ Day > 0
  BY <1>1, TriggersAssumption
<1>3. Slot(job[a].of.id, job[a].started) \in Int
  BY <1>1, <1>2 DEF Slot, Period
<1> QED BY <1>1, <1>3 DEF Serve, ControlInv, TablesInv

LEMMA EnterKeeps ==
  ASSUME ControlInv, NEW a \in Tasks, Enter(a)
  PROVE  ControlInv'
<1>1. /\ Inside(a) /\ UNCHANGED <<holder, line, todo, pressed>>
      /\ TablesInv' /\ BornStays /\ turn' \in Tasks \cup {None}
  BY StoreSame DEF Enter, Inside, ControlInv, TablesInv, RunnerInv, store, history
<1>2. job[a].of \in Copies /\ clock \in Nat
  BY <1>1, OfATrigger DEF Inside, NoJob, ControlInv, TablesInv
<1>3. /\ \A left \in SUBSET Obligations :
           LET next == Job(job[a].of, "drafting", clock, left, FALSE, None)
           IN  next \in Jobs /\ next.of = job[a].of
      /\ LET next == Job(job[a].of, "asking", clock, {}, FALSE, None)
         IN  next \in Jobs /\ next.of = job[a].of
  BY <1>2 DEF Job, Jobs
<1>4. Owed(job[a].of) \in SUBSET Obligations
  BY DEF Owed, DueWithin, ControlInv, TablesInv
<1>5. PICK next \in Jobs : next.of = job[a].of /\ job' = [job EXCEPT ![a] = next]
  BY <1>3, <1>4 DEF Enter
<1> QED BY <1>1, <1>5, GoesOn

LEMMA DraftKeeps ==
  ASSUME ControlInv, NEW a \in Tasks, Draft(a)
  PROVE  ControlInv'
<1>1. /\ Inside(a) /\ UNCHANGED <<holder, line, todo, pressed>>
      /\ TablesInv' /\ BornStays /\ turn' \in Tasks \cup {None}
  BY StoreSame DEF Draft, Inside, ControlInv, TablesInv, RunnerInv, store, history
<1>2. job[a] \in Jobs
  BY <1>1, OfATrigger DEF Inside, NoJob, ControlInv
<1>3. PICK o \in job[a].left :
        job' = [job EXCEPT ![a].stage = "asking", ![a].on = o, ![a].left = @ \ {o}]
  BY DEF Draft
<1> DEFINE next == [job[a] EXCEPT !.stage = "asking", !.on = o, !.left = @ \ {o}]
<1>4. next \in Jobs /\ next.of = job[a].of
  BY <1>2 DEF Jobs
<1>5. job' = [job EXCEPT ![a] = next]
  BY <1>2, <1>3 DEF ControlInv, RunnerInv
<1>6. PICK new \in Jobs : new.of = job[a].of /\ job' = [job EXCEPT ![a] = new]
  BY <1>4, <1>5
<1> QED BY <1>1, <1>6, GoesOn

LEMMA DraftingEndsKeeps ==
  ASSUME ControlInv, NEW a \in Tasks, DraftingEnds(a)
  PROVE  ControlInv'
<1>1. /\ Inside(a) /\ Begun(a) /\ job[a] # NoJob /\ Finish(a) /\ Serve(a)
      /\ UNCHANGED <<open, clock, pressed>>
  BY DEF DraftingEnds, Inside, Begun, NoJob
<1>2. served' \in [Triggers -> Int] /\ job[a].started \in Nat
  BY <1>1, ServeType, OfATrigger DEF ControlInv, Jobs
<1>3. TablesInv' /\ BornStays
  <2>1. CASE job[a].ran
    <3>1. RecordNothing
      BY <2>1 DEF DraftingEnds
    <3> QED BY <1>1, <1>2, <3>1, StoreSame DEF RecordNothing, ControlInv, TablesInv, store
  <2>2. CASE ~job[a].ran
    <3>1. RecordRun(job[a].of, job[a].started, "done", None)
      BY <2>2 DEF DraftingEnds
    <3>2. "done" \in Outcome
      BY DEF Outcome
    <3> QED BY <1>1, <1>2, <3>1, <3>2, RecordKeeps
  <2> QED BY <2>1, <2>2
<1> QED BY <1>1, <1>3, FinishKeeps

LEMMA AskEndsKeeps ==
  ASSUME ControlInv, NEW a \in Tasks, NEW outcome \in Outcome, AskEnds(a, outcome)
  PROVE  ControlInv'
<1>1. /\ Inside(a) /\ Begun(a) /\ job[a] # NoJob /\ Serve(a)
      /\ RecordRun(job[a].of, job[a].started, outcome, job[a].on)
      /\ UNCHANGED <<open, clock, pressed>>
  BY DEF AskEnds, Inside, Begun, NoJob
<1>2. /\ served' \in [Triggers -> Int] /\ job[a].started \in Nat
      /\ job[a].on \in Obligations \cup {None} /\ job[a] \in Jobs
  BY <1>1, ServeType, OfATrigger DEF ControlInv, Jobs
<1>3. TablesInv' /\ BornStays
  BY <1>1, <1>2, RecordKeeps
<1>4. CASE job[a].on = None
  BY <1>1, <1>3, <1>4, FinishKeeps DEF AskEnds
<1>5. CASE job[a].on # None
  <2> DEFINE next == [job[a] EXCEPT !.stage = "drafting", !.ran = TRUE, !.on = None]
  <2>1. next \in Jobs /\ next.of = job[a].of
    BY <1>2 DEF Jobs
  <2>2. job' = [job EXCEPT ![a] = next] /\ turn' = a /\ UNCHANGED <<holder, line, todo>>
    BY <1>2, <1>5 DEF AskEnds, ControlInv, RunnerInv
  <2>3. PICK new \in Jobs : new.of = job[a].of /\ job' = [job EXCEPT ![a] = new]
    BY <2>1, <2>2
  <2> QED BY <1>1, <1>3, <2>2, <2>3, GoesOn
<1> QED BY <1>4, <1>5

LEMMA AskRaisesKeeps ==
  ASSUME ControlInv, NEW a \in Tasks, AskRaises(a)
  PROVE  ControlInv'
<1>1. /\ Inside(a) /\ Begun(a) /\ job[a] # NoJob /\ Serve(a) /\ Finish(a)
      /\ UNCHANGED <<open, clock, pressed>>
  BY DEF AskRaises, Inside, Begun, NoJob
<1>2. served' \in [Triggers -> Int] /\ clock \in Nat /\ "failed" \in Outcome
  BY <1>1, ServeType DEF ControlInv, TablesInv, Outcome
<1>3. TablesInv' /\ BornStays
  <2>1. CASE a # "tick"
    <3>1. RecordNothing
      BY <2>1 DEF AskRaises
    <3> QED BY <1>1, <1>2, <3>1, StoreSame DEF RecordNothing, ControlInv, TablesInv, store
  <2>2. CASE a = "tick"
    <3>1. RecordRun(job[a].of, clock, "failed", None)
      BY <2>2 DEF AskRaises
    <3> QED BY <1>1, <1>2, <3>1, RecordKeeps
  <2> QED BY <2>1, <2>2
<1> QED BY <1>1, <1>3, FinishKeeps

(* The person's steps leave the runner alone; a restart empties it.         *)
LEMMA TablesKeep ==
  ASSUME ControlInv, NEW t \in Triggers, Create(t) \/ Enable(t) \/ Disable(t) \/ Delete(t)
  PROVE  ControlInv'
<1>1. /\ UNCHANGED <<turn, holder, line, todo, job, pressed>>
      /\ turn \in Tasks \cup {None}
  BY DEF Create, Enable, Disable, Delete, runner, ControlInv, RunnerInv
<1>2. TablesInv' /\ BornStays
  <2>1. CASE Create(t)
    BY <2>1 DEF Create, ControlInv, TablesInv, TriggerRow, BornInv, BornStays, history
  <2>2. CASE Enable(t)
    <3> DEFINE row == [trig[t] EXCEPT !.enabled = TRUE, !.paused = FALSE, !.held = 0]
    <3>1. row \in TriggerRow /\ row.status = trig[t].status
      BY DEF ControlInv, TablesInv, TriggerRow
    <3>2. trig' = [trig EXCEPT ![t] = row] /\ trig[t].status = "live"
      BY <2>2 DEF Enable
    <3> HIDE DEF row
    <3>3. TablesInv'
      BY <2>2, <3>1, <3>2 DEF Enable, ControlInv, TablesInv
    <3>4. BornStays
      BY <2>2, <3>1, <3>2 DEF Enable, ControlInv, TablesInv, BornInv, BornStays
    <3> QED BY <3>3, <3>4
  <2>3. CASE Disable(t)
    BY <2>3 DEF Disable, ControlInv, TablesInv, TriggerRow, BornInv, BornStays, history
  <2>4. CASE Delete(t)
    BY <2>4 DEF Delete, ControlInv, TablesInv, TriggerRow, BornInv, BornStays, history
  <2> QED BY <2>1, <2>2, <2>3, <2>4
<1> QED BY <1>1, <1>2, RunnerSame

LEMMA WorldKeeps ==
  ASSUME ControlInv, TimePasses \/ \E o \in Obligations : ObligationChanges(o)
  PROVE  ControlInv'
<1>1. /\ UNCHANGED <<turn, holder, line, todo, job, pressed>>
      /\ turn \in Tasks \cup {None} /\ UNCHANGED <<trig, streak, drafted>>
  BY DEF TimePasses, ObligationChanges, runner, store, history, ControlInv, RunnerInv
<1>2. TablesInv'
  BY DEF TimePasses, ObligationChanges, store, history, ControlInv, TablesInv
<1> QED BY <1>1, <1>2, RunnerSame, StoreSame

LEMMA RestartKeeps ==
  ASSUME ControlInv, Restart
  PROVE  ControlInv'
<1>1. /\ line' = <<>> /\ holder' = None /\ turn' = None
      /\ todo' = [a \in Tasks |-> {}] /\ job' = [a \in Tasks |-> NoJob]
  BY DEF Restart
<1>2. TablesInv' /\ BornStays
  <2>1. TablesInv'
    BY DEF Restart, ControlInv, TablesInv, Kept, history
  <2> QED BY <2>1, StoreSame DEF Restart, history
<1>3. RunnerInv'
  BY <1>1 DEF RunnerInv
<1>4. LockInv' /\ CopiesInv'
  BY <1>1 DEF LockInv, LineInv, CopiesInv, CopiesOf, BornOf, Inside, NoJob
<1> QED BY <1>2, <1>3, <1>4 DEF ControlInv, BornStays

LEMMA ControlStep ==
  ASSUME ControlInv, [Next]_vars
  PROVE  ControlInv'
<1>1. CASE Tick
  BY <1>1, TickKeeps
<1>2. CASE Wake
  BY <1>2, WakeKeeps
<1>3. CASE Person
  BY <1>3, TablesKeep, PressKeeps DEF Person
<1>4. CASE TimePasses \/ \E o \in Obligations : ObligationChanges(o)
  BY <1>4, WorldKeeps
<1>5. CASE Restart
  BY <1>5, RestartKeeps
<1>6. CASE \E a \in Tasks : Runs(a)
  BY <1>6, AcquireKeeps, EnterKeeps, DraftKeeps, DraftingEndsKeeps, AskRaisesKeeps,
     AskEndsKeeps DEF Runs
<1>7. CASE UNCHANGED vars
  <2>1. /\ UNCHANGED <<holder, line, todo, job, pressed, turn>> /\ TablesInv'
        /\ UNCHANGED <<trig, streak, drafted>>
    BY <1>7 DEF vars, store, runner, history, ControlInv, TablesInv
  <2> QED BY <2>1, RunnerSame, StoreSame DEF ControlInv, RunnerInv
<1> QED BY <1>1, <1>2, <1>3, <1>4, <1>5, <1>6, <1>7 DEF Next

LEMMA InitControl == Init => ControlInv
<1> SUFFICES ASSUME Init PROVE ControlInv
  OBVIOUS
<1>1. TablesInv /\ RunnerInv
  BY DEF Init, TablesInv, RunnerInv, TriggerRow
<1>2. LockInv /\ CopiesInv /\ BornInv
  BY DEF Init, LockInv, LineInv, CopiesInv, CopiesOf, BornOf, BornInv, Inside, NoJob
<1> QED BY <1>1, <1>2 DEF ControlInv

(* The scheduler never leaves its types, and one job is inside the lock.    *)
THEOREM ControlHolds == Spec => []ControlInv
BY InitControl, ControlStep, PTL DEF Spec

THEOREM TypeCorrect == Spec => []TypeOK
<1>1. ControlInv => TypeOK
  <2> SUFFICES ASSUME ControlInv PROVE TypeOK
    OBVIOUS
  <2>1. \A a \in Tasks :
          /\ todo[a] \subseteq Copies
          /\ job[a] # NoJob => job[a] \in Jobs
    BY DEF ControlInv, RunnerInv
  <2> QED BY <2>1 DEF ControlInv, TablesInv, RunnerInv, TypeOK, TriggerRow, RunRow, Copies, Jobs
<1> QED BY <1>1, ControlHolds, PTL

-----------------------------------------------------------------------------
(* A slot is begun once. *)

LEMMA Division ==
  ASSUME NEW x \in Int, NEW n \in Nat \ {0}
  PROVE  /\ x \div n \in Int /\ x % n \in 0..(n - 1)
         /\ x = n * (x \div n) + (x % n)
OBVIOUS

LEMMA DivisionGrows ==
  ASSUME NEW x \in Int, NEW y \in Int, x <= y, NEW n \in Nat \ {0}
  PROVE  x \div n <= y \div n
<1> DEFINE q == x \div n
           r == y \div n
<1>1. q \in Int /\ r \in Int /\ n * q <= x /\ y < n * r + n
  BY Division
<1> HIDE DEF q, r
<1>2. SUFFICES ASSUME r + 1 <= q PROVE FALSE
  BY <1>1 DEF q, r
<1>3. n * (r + 1) <= n * q
  BY <1>1, <1>2
<1>4. n * (r + 1) = n * r + n
  BY <1>1
<1> QED BY <1>1, <1>3, <1>4

LEMMA SlotGrows ==
  ASSUME NEW t \in Triggers, NEW m \in Int, NEW n \in Int, m <= n
  PROVE  /\ Slot(t, m) \in Int /\ Slot(t, n) \in Int /\ Slot(t, n) <= n
         /\ Slot(t, m) <= Slot(t, n)
<1> DEFINE k == Period(t)
           x == m - At[t]
           y == n - At[t]
<1>1. At[t] \in Int /\ k \in Nat \ {0}
  BY TriggersAssumption DEF Period
<1>2. x \in Int /\ y \in Int /\ x <= y
  BY <1>1
<1>3. Slot(t, m) = m - (x % k) /\ Slot(t, n) = n - (y % k)
  BY DEF Slot
<1> HIDE DEF k
<1> DEFINE p == x \div k
           q == y \div k
<1>4. p \in Int /\ q \in Int /\ p <= q
  BY <1>1, <1>2, DivisionGrows, Division
<1>5. /\ x = k * p + (x % k) /\ y = k * q + (y % k)
      /\ x % k \in 0..(k - 1) /\ y % k \in 0..(k - 1)
  BY <1>1, <1>2, Division
<1> DEFINE u == x % k
           v == y % k
<1>6. m = x + At[t] /\ n = y + At[t]
  BY <1>1
<1>7. Slot(t, m) = m - u /\ Slot(t, n) = n - v
  BY <1>3
<1> HIDE DEF x, y
<1>8. /\ x = k * p + u /\ y = k * q + v /\ u \in Int /\ v \in Int /\ 0 <= v
  BY <1>1, <1>5
<1> HIDE DEF p, q, u, v
<1>9. k * p <= k * q /\ k * p \in Int /\ k * q \in Int
  BY <1>1, <1>4
<1> QED BY <1>1, <1>2, <1>6, <1>7, <1>8, <1>9

LEMMA AheadKept ==
  ASSUME ControlInv, AheadInv, UNCHANGED served, clock' \in Nat, clock <= clock',
         todo'["tick"] \subseteq todo["tick"],
         ToBegin("tick")' => \/ ToBegin("tick") /\ job'["tick"].of = job["tick"].of
                             \/ job'["tick"].of \in todo["tick"]
  PROVE  AheadInv'
<1>1. /\ clock \in Nat /\ served \in [Triggers -> Int]
      /\ \A c \in todo["tick"] : c.id \in Triggers
      /\ ToBegin("tick") => job["tick"].of.id \in Triggers
  BY OfATrigger, JobIsNoNone DEF ControlInv, TablesInv, ToBegin, NoJob
<1>2. \A t \in Triggers : Slot(t, clock) <= Slot(t, clock')
                          /\ Slot(t, clock) \in Int /\ Slot(t, clock') \in Int
  BY <1>1, SlotGrows
<1>3. \A t \in Triggers : served[t] < Slot(t, clock) => served'[t] < Slot(t, clock)'
  BY <1>1, <1>2
<1> QED BY <1>1, <1>3 DEF AheadInv

(* A step that records nothing. *)
LEMMA SlotKept ==
  ASSUME ControlInv, ControlInv', SlotInv, UNCHANGED served, clock <= clock', AheadInv',
         \A t \in Triggers : trig'[t].status = "live" =>
           \/ trig[t].status = "live" /\ trig'[t].last >= trig[t].last
           \/ trig'[t].last = clock,
         \A a \in Tasks : Begun(a)' =>
           \/ /\ Begun(a) /\ job'[a].started = job[a].started /\ job'[a].of = job[a].of
              /\ job'[a].ran = job[a].ran
           \/ job'[a].started = clock /\ ~job'[a].ran
  PROVE  SlotInv'
<1>1. /\ clock \in Nat /\ clock' \in Nat /\ served \in [Triggers -> Int]
      /\ \A t \in Triggers : trig[t].last \in Nat /\ trig'[t].last \in Nat
      /\ \A a \in Tasks : Begun(a) => job[a].started \in Nat /\ job[a].of.id \in Triggers
      /\ \A a \in Tasks : Begun(a)' => job'[a].started \in Nat /\ job'[a].of.id \in Triggers
  <2>1. /\ clock \in Nat /\ clock' \in Nat /\ served \in [Triggers -> Int]
        /\ \A t \in Triggers : trig[t].last \in Nat /\ trig'[t].last \in Nat
    BY DEF ControlInv, TablesInv, TriggerRow
  <2>2. /\ \A a \in Tasks : job[a] \in Jobs \cup {NoJob}
        /\ \A a \in Tasks : job'[a] \in Jobs \cup {NoJob}
    BY DEF ControlInv, RunnerInv
  <2>3. \A j \in Jobs : j.started \in Nat /\ j.of.id \in Triggers
    BY DEF Jobs, Copies
  <2>4. NoJob.stage \notin {"drafting", "asking"}
    BY DEF NoJob
  <2> QED BY <2>1, <2>2, <2>3, <2>4 DEF Begun
<1>2. ServedInv'
  BY <1>1 DEF SlotInv, ServedInv
<1>3. SinceInv'
  <2> SUFFICES ASSUME NEW a \in Tasks, Begun(a)'
               PROVE  job'[a].started <= clock'
                      /\ \A t \in Triggers : served[t] <= job'[a].started
    BY DEF SinceInv
  <2>1. \A t \in Triggers : served[t] <= clock /\ served[t] \in Int
    BY <1>1 DEF SlotInv, ServedInv
  <2>2. CASE Begun(a) /\ job'[a].started = job[a].started
    BY <1>1, <2>2 DEF SlotInv, SinceInv
  <2>3. CASE job'[a].started = clock
    BY <1>1, <2>1, <2>3
  <2> QED BY <2>2, <2>3
<1>4. RanInv'
  <2> SUFFICES ASSUME Begun("tick")', job'["tick"].ran,
                      trig'[job'["tick"].of.id].status = "live"
               PROVE  job'["tick"].started <= trig'[job'["tick"].of.id].last
    BY DEF RanInv
  <2>1. /\ Begun("tick") /\ job'["tick"].started = job["tick"].started
        /\ job'["tick"].of = job["tick"].of /\ job["tick"].ran
    BY JobIsNoNone
  <2>2. job["tick"].started <= clock
    BY <2>1, JobIsNoNone DEF SlotInv, SinceInv
  <2> QED BY <1>1, <2>1, <2>2, JobIsNoNone DEF SlotInv, RanInv
<1> QED BY <1>2, <1>3, <1>4 DEF SlotInv

(* A step that records a run, or ends one.                                  *)
LEMMA SlotServed ==
  ASSUME ControlInv, ControlInv', SlotInv, NEW a \in Tasks, Begun(a), Serve(a),
         UNCHANGED <<clock, todo>>,
         \A t \in Triggers : /\ trig'[t].status = trig[t].status
                             /\ t # job[a].of.id => trig'[t] = trig[t],
         trig[job[a].of.id].status = "live" => trig'[job[a].of.id].last >= job[a].started,
         \A b \in Tasks \ {a} : job'[b] = job[b],
         \/ job'[a] = NoJob
         \/ Begun(a)' /\ job'[a].of = job[a].of /\ job'[a].started = job[a].started
  PROVE  SlotInv'
<1> DEFINE id == job[a].of.id
<1>1. /\ clock \in Nat /\ served \in [Triggers -> Int] /\ job[a] # NoJob
      /\ \A t \in Triggers : trig[t].last \in Nat /\ trig'[t].last \in Nat
      /\ job[a].started \in Nat /\ id \in Triggers
  BY OfATrigger DEF ControlInv, TablesInv, TriggerRow, Begun, NoJob, Jobs
<1>2. \A b \in Tasks \ {a} : ~Begun(b) /\ ~Begun(b)'
  BY JobIsNoNone DEF ControlInv, LockInv, Inside, Begun
<1>3. job[a].started <= clock /\ \A t \in Triggers : served[t] <= job[a].started
  BY DEF SlotInv, SinceInv
<1>4. /\ \A t \in Triggers : /\ served'[t] \in Int /\ served'[t] <= job[a].started
                             /\ (t # id \/ a # "tick") => served'[t] = served[t]
  <2>1. Slot(id, job[a].started) \in Int /\ Slot(id, job[a].started) <= job[a].started
    BY <1>1, SlotGrows
  <2> QED BY <1>1, <1>3, <2>1 DEF Serve
<1>5. ServedInv'
  <2> SUFFICES ASSUME NEW t \in Triggers
               PROVE  /\ served'[t] <= clock'
                      /\ trig'[t].status = "live" => served'[t] <= trig'[t].last
    BY DEF ServedInv
  <2>1. served'[t] <= clock'
    BY <1>1, <1>3, <1>4
  <2>2. CASE t # id
    BY <1>1, <1>4, <2>1, <2>2 DEF SlotInv, ServedInv
  <2>3. CASE t = id
    BY <1>1, <1>4, <2>1, <2>3
  <2> QED BY <2>2, <2>3
<1>6. SinceInv'
  BY <1>1, <1>2, <1>3, <1>4 DEF SinceInv, Begun, NoJob
<1>7. RanInv'
  BY <1>1, <1>2, JobIsNoNone DEF RanInv, Begun, NoJob
<1>8. AheadInv'
  <2>1. CASE a = "tick"
    <3>1. \A c \in todo["tick"] : c.id \in Triggers /\ c.id # id
      BY <1>1, <2>1, OfATrigger DEF ControlInv, CopiesInv, CopiesOf
    <3>2. ~ToBegin("tick")'
      BY <2>1 DEF ToBegin, Begun, NoJob
    <3> QED BY <1>4, <3>1, <3>2 DEF SlotInv, AheadInv
  <2>2. CASE a # "tick"
    <3>1. UNCHANGED served
      BY <2>2 DEF Serve
    <3>2. job'["tick"] = job["tick"]
      BY <2>2, JobIsNoNone
    <3> QED BY <1>1, <3>1, <3>2, AheadKept DEF SlotInv, ToBegin
  <2> QED BY <2>1, <2>2
<1> QED BY <1>5, <1>6, <1>7, <1>8 DEF SlotInv

LEMMA TickSlot ==
  ASSUME ControlInv, ControlInv', SlotInv, Tick
  PROVE  SlotInv'
<1>1. /\ UNCHANGED <<served, clock, job, trig>> /\ job["tick"] = NoJob
      /\ todo'["tick"] = {Copy(t) : t \in {u \in Triggers : IsDue(u)}}
  BY JobIsNoNone DEF Tick, store, history, ControlInv, RunnerInv
<1>2. ASSUME NEW t \in Triggers, IsDue(t)
      PROVE  Copy(t).id = t /\ served[t] < Slot(t, clock)
  <2>1. served[t] <= trig[t].last /\ trig[t].last < Slot(t, clock)
    BY <1>2 DEF IsDue, SlotInv, ServedInv
  <2>2. served[t] \in Int /\ trig[t].last \in Int /\ Slot(t, clock) \in Int
    BY SlotGrows DEF ControlInv, TablesInv, TriggerRow
  <2> QED BY <2>1, <2>2, CopyType DEF ControlInv
<1>3. AheadInv'
  <2>1. \A c \in todo'["tick"] : served[c.id] < Slot(c.id, clock)
    BY <1>1, <1>2
  <2> QED BY <1>1, <2>1 DEF AheadInv, ToBegin, NoJob
<1>4. clock <= clock'
  BY <1>1 DEF ControlInv, TablesInv
<1>5. \A t \in Triggers : trig'[t].last >= trig[t].last
  BY <1>1 DEF ControlInv, TablesInv, TriggerRow
<1> QED BY <1>1, <1>3, <1>4, <1>5, SlotKept DEF Begun

LEMMA OutsideSlot ==
  ASSUME ControlInv, ControlInv', SlotInv,
         Person \/ TimePasses \/ Restart \/ (\E o \in Obligations : ObligationChanges(o))
           \/ UNCHANGED vars
  PROVE  SlotInv'
<1>1. /\ UNCHANGED served
      /\ clock' = clock \/ clock' = clock + 1
      /\ todo'["tick"] = todo["tick"] \/ todo'["tick"] = {}
      /\ \A a \in Tasks : job'[a] = job[a] \/ job'[a] = NoJob
  <2>1. CASE Person
    BY <2>1, TriggersAssumption DEF Person, Press, Create, Enable, Disable, Delete, runner,
       history, Tasks, ControlInv, RunnerInv
  <2>2. CASE Restart
    BY <2>2, JobIsNoNone DEF Restart, history
  <2>3. CASE TimePasses \/ (\E o \in Obligations : ObligationChanges(o)) \/ UNCHANGED vars
    BY <2>3 DEF TimePasses, ObligationChanges, history, runner, vars
  <2> QED BY <2>1, <2>2, <2>3
<1>2. clock \in Nat /\ clock' \in Nat /\ clock <= clock'
  BY <1>1 DEF ControlInv, TablesInv
<1>3. \A t \in Triggers : trig'[t].status = "live" =>
        \/ trig[t].status = "live" /\ trig'[t].last = trig[t].last
        \/ trig'[t].last = clock
  <2>1. CASE Person
    <3>1. CASE \E p \in Presses, t \in Triggers : Press(p, t)
      BY <3>1 DEF Press, store
    <3>2. ASSUME NEW u \in Triggers, Create(u) \/ Enable(u) \/ Disable(u) \/ Delete(u)
          PROVE  \A t \in Triggers : trig'[t].status = "live" =>
                   \/ trig[t].status = "live" /\ trig'[t].last = trig[t].last
                   \/ trig'[t].last = clock
      <4>1. \A t \in Triggers \ {u} : trig'[t] = trig[t]
        BY <3>2 DEF Create, Enable, Disable, Delete, ControlInv, TablesInv
      <4>2. CASE Create(u)
        BY <4>1, <4>2 DEF Create, ControlInv, TablesInv
      <4>3. CASE Enable(u) \/ Disable(u) \/ Delete(u)
        BY <4>1, <4>3 DEF Enable, Disable, Delete, ControlInv, TablesInv, TriggerRow
      <4> QED BY <3>2, <4>2, <4>3
    <3> QED BY <2>1, <3>1, <3>2 DEF Person
  <2>2. CASE ~Person
    BY <2>2 DEF TimePasses, Restart, ObligationChanges, store, vars
  <2> QED BY <2>1, <2>2
<1>4. \A t \in Triggers : trig[t].last \in Int /\ trig'[t].last \in Int
  BY DEF ControlInv, TablesInv, TriggerRow
<1>5. AheadInv'
  BY <1>1, <1>2, JobIsNoNone, AheadKept DEF SlotInv, ToBegin, NoJob
<1>6. \A a \in Tasks : Begun(a)' => Begun(a) /\ job'[a] = job[a]
  BY <1>1 DEF Begun, NoJob
<1> QED BY <1>1, <1>2, <1>3, <1>4, <1>5, <1>6, SlotKept

(* A step of a job that records nothing and touches no table.               *)
LEMMA JobSlot ==
  ASSUME ControlInv, ControlInv', SlotInv, NEW a \in Tasks,
         UNCHANGED <<trig, clock, served>>,
         \A b \in Tasks \ {a} : job'[b] = job[b] /\ todo'[b] = todo[b],
         todo'[a] \subseteq todo[a],
         ToBegin(a)' => \/ ToBegin(a) /\ job'[a].of = job[a].of
                        \/ job'[a].of \in todo[a],
         Begun(a)' => \/ /\ Begun(a) /\ job'[a].started = job[a].started
                         /\ job'[a].of = job[a].of /\ job'[a].ran = job[a].ran
                      \/ job'[a].started = clock /\ ~job'[a].ran
  PROVE  SlotInv'
<1>1. clock' \in Nat /\ clock <= clock'
  BY DEF ControlInv, TablesInv
<1>2. AheadInv'
  <2>1. CASE a = "tick"
    BY <1>1, <2>1, AheadKept DEF SlotInv
  <2>2. CASE a # "tick"
    BY <1>1, <2>2, JobIsNoNone, AheadKept DEF SlotInv, ToBegin
  <2> QED BY <2>1, <2>2
<1>3. \A t \in Triggers : trig'[t].last >= trig[t].last
  BY DEF ControlInv, TablesInv, TriggerRow
<1>4. \A t \in Triggers : trig'[t].status = "live" => trig[t].status = "live"
  OBVIOUS
<1>5. \A b \in Tasks \ {a} : Begun(b)' => Begun(b)
  BY DEF Begun
<1> QED BY <1>1, <1>2, <1>3, <1>4, <1>5, SlotKept

LEMMA RunsSlot ==
  ASSUME ControlInv, ControlInv', SlotInv, NEW a \in Tasks,
         Acquire(a) \/ Enter(a) \/ Draft(a)
  PROVE  SlotInv'
<1>1. UNCHANGED <<trig, clock, served>>
  BY DEF Acquire, Enter, Draft, store, history
<1>2. CASE Acquire(a)
  <2>1. PICK copy \in todo[a], stage \in {"enter", "queued"} :
          /\ todo' = [todo EXCEPT ![a] = @ \ {copy}]
          /\ job' = [job EXCEPT ![a] = Job(copy, stage, 0, {}, FALSE, None)]
    BY <1>2 DEF Acquire
  <2>2. /\ job'[a].of = copy /\ job'[a].stage = stage
        /\ \A b \in Tasks \ {a} : job'[b] = job[b] /\ todo'[b] = todo[b]
        /\ todo'[a] \subseteq todo[a]
    BY <2>1 DEF ControlInv, RunnerInv, Job
  <2>3. ~Begun(a)'
    BY <2>2 DEF Begun
  <2> QED BY <1>1, <2>2, <2>3, JobSlot
<1>3. CASE Enter(a)
  <2>1. \/ job' = [job EXCEPT ![a] = Job(job[a].of, "drafting", clock, Owed(job[a].of),
                                         FALSE, None)]
        \/ job' = [job EXCEPT ![a] = Job(job[a].of, "asking", clock, {}, FALSE, None)]
    BY <1>3 DEF Enter
  <2>2. /\ job'[a].stage \in {"drafting", "asking"}
        /\ job'[a].started = clock /\ ~job'[a].ran
        /\ \A b \in Tasks \ {a} : job'[b] = job[b]
        /\ UNCHANGED todo
    BY <1>3, <2>1 DEF Enter, ControlInv, RunnerInv, Job
  <2>3. ~ToBegin(a)'
    BY <2>2 DEF ToBegin
  <2> QED BY <1>1, <2>2, <2>3, JobSlot
<1>4. CASE Draft(a)
  <2>b. job[a].stage = "drafting"
    BY <1>4 DEF Draft
  <2>0. Begun(a) /\ job[a] # NoJob
    BY <2>b DEF Begun, NoJob
  <2>1. job[a] \in Jobs /\ Begun(a)
    BY <2>0 DEF ControlInv, RunnerInv
  <2>a. PICK o \in job[a].left :
          job' = [job EXCEPT ![a].stage = "asking", ![a].on = o, ![a].left = @ \ {o}]
    BY <1>4 DEF Draft
  <2>2. /\ job'[a].stage = "asking" /\ job'[a].started = job[a].started
        /\ job'[a].of = job[a].of /\ job'[a].ran = job[a].ran
        /\ \A b \in Tasks \ {a} : job'[b] = job[b]
        /\ UNCHANGED todo
    BY <1>4, <2>1, <2>a DEF Draft, ControlInv, RunnerInv, Jobs
  <2>3. ~ToBegin(a)'
    BY <2>2 DEF ToBegin
  <2> QED BY <1>1, <2>1, <2>2, <2>3, JobSlot
<1> QED BY <1>2, <1>3, <1>4

LEMMA WakeSlot ==
  ASSUME ControlInv, ControlInv', SlotInv, Wake
  PROVE  SlotInv'
<1>0. line \in Seq(Tasks) /\ Head(line) \in Tasks /\ 1 \in 1..Len(line) /\ Head(line) = line[1]
  BY DEF Wake, ControlInv, RunnerInv
<1> PICK a \in Tasks : a = Head(line)
  BY <1>0
<1>1. job[a].stage = "queued" /\ job[a] \in Jobs
  <2>1. job[a].stage = "queued"
    BY <1>0 DEF ControlInv, LockInv, LineInv
  <2> QED BY <2>1 DEF ControlInv, RunnerInv, NoJob
<1>2. /\ job'[a].stage = "enter" /\ job'[a].of = job[a].of
      /\ \A b \in Tasks \ {a} : job'[b] = job[b]
      /\ UNCHANGED <<todo, trig, clock, served>>
  BY <1>1 DEF Wake, ControlInv, RunnerInv, Jobs, store, history
<1> QED BY <1>1, <1>2, JobSlot DEF ToBegin, Begun

LEMMA RecordsSlot ==
  ASSUME ControlInv, ControlInv', SlotInv, NEW a \in Tasks,
         DraftingEnds(a) \/ AskRaises(a) \/ \E outcome \in Outcome : AskEnds(a, outcome)
  PROVE  SlotInv'
<1>1. Begun(a) /\ Serve(a) /\ UNCHANGED <<clock, todo>>
  BY DEF DraftingEnds, AskRaises, AskEnds, Begun, Finish
<1>2. /\ job[a] \in Jobs /\ job[a].of \in Copies /\ clock \in Nat
      /\ job[a].started \in Nat /\ job[a].on \in Obligations \cup {None}
  BY <1>1, OfATrigger DEF Begun, NoJob, ControlInv, Jobs, TablesInv
<1>3. job[a].started <= clock
  BY <1>1 DEF SlotInv, SinceInv
<1>4. /\ \A b \in Tasks \ {a} : job'[b] = job[b]
      /\ \/ job'[a] = NoJob
         \/ Begun(a)' /\ job'[a].of = job[a].of /\ job'[a].started = job[a].started
  <2>1. CASE Finish(a)
    BY <2>1 DEF Finish, ControlInv, RunnerInv
  <2>2. CASE job' = [job EXCEPT ![a].stage = "drafting", ![a].ran = TRUE, ![a].on = None]
    BY <1>2, <2>2 DEF ControlInv, RunnerInv, Begun, Jobs
  <2> QED BY <2>1, <2>2 DEF DraftingEnds, AskRaises, AskEnds
<1>5. CASE a # "tick" /\ RecordNothing /\ Finish(a)
  <2>1. UNCHANGED <<trig, clock, served>> /\ job'[a] = NoJob
    BY <1>1, <1>5 DEF RecordNothing, store, Serve, Finish, ControlInv, RunnerInv
  <2>2. ~Begun(a)' /\ ~ToBegin(a)'
    BY <2>1 DEF Begun, ToBegin, NoJob
  <2> QED BY <1>1, <1>4, <2>1, <2>2, JobSlot
<1>6. CASE ~(a # "tick" /\ RecordNothing /\ Finish(a))
  <2> DEFINE Counted ==
        /\ \A t \in Triggers : /\ trig'[t].status = trig[t].status
                               /\ t # job[a].of.id => trig'[t] = trig[t]
        /\ trig[job[a].of.id].status = "live" => trig'[job[a].of.id].last >= job[a].started
  <2>0. SUFFICES Counted
    BY <1>1, <1>4, SlotServed DEF Counted
  <2>1. ASSUME NEW started \in Nat, NEW outcome \in Outcome, NEW o \in Obligations \cup {None},
               RecordRun(job[a].of, started, outcome, o), job[a].started <= started
        PROVE  Counted
    <3>1. /\ trig' \in [Triggers -> TriggerRow]
          /\ \A t \in Triggers : /\ trig'[t].status = trig[t].status
                                 /\ t # job[a].of.id => trig'[t] = trig[t]
          /\ trig[job[a].of.id].status = "live" => trig'[job[a].of.id].last >= started
      BY <1>2, <2>1, RecordEffect DEF ControlInv
    <3>2. job[a].of.id \in Triggers
      BY <1>2 DEF Copies
    <3>3. trig'[job[a].of.id].last \in Nat
      BY <3>1, <3>2 DEF TriggerRow
    <3> QED BY <1>2, <2>1, <3>1, <3>3
  <2>2. ASSUME RecordNothing, a = "tick", job["tick"].ran
        PROVE  Counted
    <3>1. trig' = trig
      BY <2>2 DEF RecordNothing, store
    <3>2. /\ job[a].of.id \in Triggers /\ trig[job[a].of.id].last \in Nat
      BY <1>2 DEF Copies, ControlInv, TablesInv, TriggerRow
    <3>3. trig[job[a].of.id].status = "live" => trig[job[a].of.id].last >= job[a].started
      BY <1>1, <1>2, <2>2, <3>2 DEF SlotInv, RanInv
    <3> QED BY <3>1, <3>3
  <2>3. "done" \in Outcome /\ "failed" \in Outcome
    BY DEF Outcome
  <2>4. CASE DraftingEnds(a)
    <3>1. Finish(a)
      BY <2>4 DEF DraftingEnds
    <3>2. CASE job[a].ran
      <4>1. RecordNothing
        BY <2>4, <3>2 DEF DraftingEnds
      <4> QED BY <1>6, <2>2, <3>1, <3>2, <4>1
    <3>3. CASE ~job[a].ran
      <4>1. RecordRun(job[a].of, job[a].started, "done", None)
        BY <2>4, <3>3 DEF DraftingEnds
      <4> QED BY <1>2, <2>1, <2>3, <4>1
    <3> QED BY <3>2, <3>3
  <2>5. CASE AskRaises(a)
    <3>1. RecordRun(job[a].of, clock, "failed", None)
      BY <1>6, <2>5 DEF AskRaises
    <3> QED BY <1>2, <1>3, <2>1, <2>3, <3>1
  <2>6. CASE \E outcome \in Outcome : AskEnds(a, outcome)
    BY <1>2, <2>1, <2>6 DEF AskEnds
  <2> QED BY <2>4, <2>5, <2>6
<1> QED BY <1>5, <1>6

LEMMA SlotStep ==
  ASSUME ControlInv, SlotInv, [Next]_vars
  PROVE  SlotInv'
<1>1. ControlInv'
  BY ControlStep
<1>2. CASE Tick
  BY <1>1, <1>2, TickSlot
<1>3. CASE Wake
  BY <1>1, <1>3, WakeSlot
<1>4. CASE Person \/ TimePasses \/ Restart \/ (\E o \in Obligations : ObligationChanges(o))
             \/ UNCHANGED vars
  BY <1>1, <1>4, OutsideSlot
<1>5. ASSUME NEW a \in Tasks, Runs(a)
      PROVE  SlotInv'
  BY <1>1, <1>5, RunsSlot, RecordsSlot DEF Runs
<1> QED BY <1>2, <1>3, <1>4, <1>5 DEF Next

LEMMA InitSlot == Init => SlotInv
BY TriggersAssumption DEF Init, SlotInv, ServedInv, SinceInv, RanInv, AheadInv, Begun, ToBegin,
   NoJob, Tasks

(* No slot is begun twice by the clock, whatever is pressed, deleted,       *)
(* re-enabled or restarted in between.                                      *)
THEOREM SlotsAreBegunOnce == Spec => OnceASlot
<1>1. Init => ControlInv /\ SlotInv
  BY InitControl, InitSlot
<1>2. ControlInv /\ SlotInv /\ [Next]_vars => (ControlInv /\ SlotInv)'
  BY ControlStep, SlotStep
<1>3. SlotInv => [Enter("tick") =>
        LET t == job["tick"].of.id IN served[t] < Slot(t, clock)]_vars
  BY DEF SlotInv, AheadInv, ToBegin, Enter
<1> QED BY <1>1, <1>2, <1>3, PTL DEF Spec, OnceASlot

-----------------------------------------------------------------------------
(* An obligation is drafted for once. *)

LEMMA DaysApart ==
  ASSUME NEW m \in Nat, NEW n \in Nat, NEW days \in Nat, m + days * Day <= n
  PROVE  (m \div Day) + days <= n \div Day
<1> DEFINE q == m \div Day
           r == n \div Day
<1>1. Day \in Nat /\ Day > 0
  BY TriggersAssumption
<1>2. q \in Int /\ r \in Int /\ Day * q <= m /\ n < Day * r + Day
  BY <1>1, Division
<1> HIDE DEF q, r
<1>3. SUFFICES ASSUME r + 1 <= q + days PROVE FALSE
  BY <1>2 DEF q, r
<1>4. Day * (r + 1) <= Day * (q + days)
  BY <1>1, <1>2, <1>3
<1>5. Day * (r + 1) = Day * r + Day /\ Day * (q + days) = Day * q + days * Day
  BY <1>1, <1>2
<1>6. Day * r \in Int /\ Day * q \in Int /\ days * Day \in Int
  BY <1>1, <1>2
<1> QED BY <1>1, <1>2, <1>4, <1>5, <1>6

LEMMA AheadGrows ==
  ASSUME NEW o \in Obligations, NEW t \in Triggers, NEW m \in Nat, NEW n \in Nat, m <= n,
         Ahead(o, t, m)
  PROVE  Ahead(o, t, n)
<1>0. Day \in Nat \ {0} /\ m \in Int /\ n \in Int
  BY TriggersAssumption
<1>1. m \div Day <= n \div Day /\ m \div Day \in Int /\ n \div Day \in Int
  BY <1>0, DivisionGrows
<1>2. Due[o] \in Int /\ DaysAhead[t] \in Int
  BY TriggersAssumption
<1> QED BY <1>1, <1>2 DEF Ahead

(* A row the prune drops is of an obligation that is past.                  *)
LEMMA PrunedIsPast ==
  ASSUME RecordsOutlast, NEW o \in Obligations, NEW t \in Triggers,
         NEW finished \in Nat, NEW now \in Nat, Ahead(o, t, finished),
         finished < now - RUN_TTL_DAYS * Day
  PROVE  Due[o] < now \div Day
<1>1. /\ Due[o] \in Int /\ DaysAhead[t] \in Int /\ RUN_TTL_DAYS \in Nat
      /\ Day \in Nat \ {0}
  BY TriggersAssumption
<1>2. RUN_TTL_DAYS * Day \in Nat
  BY <1>1
<1>3. finished + RUN_TTL_DAYS * Day <= now
  BY <1>2
<1>4. (finished \div Day) + RUN_TTL_DAYS <= now \div Day
  BY <1>1, <1>3, DaysApart
<1>5. finished \div Day \in Int /\ now \div Day \in Int
  BY <1>1, Division
<1>6. DaysAhead[t] < RUN_TTL_DAYS
  BY DEF RecordsOutlast
<1> QED BY <1>1, <1>4, <1>5, <1>6 DEF Ahead

Older(r, when) == r.finished < when - RUN_TTL_DAYS * Day

(* What was drafted before a step stays on record, or is past.              *)
LEMMA RecordedKept ==
  ASSUME RecordsOutlast, ControlInv, ControlInv', clock <= clock',
         NEW t \in Triggers, NEW o \in Obligations, Recorded(t, o), <<t, o>> \in drafted,
         trig'[t].status = "live" => trig[t].status = "live",
         \A r \in runs : r.trigger = t /\ trig'[t].status = "live" =>
                           r \in runs' \/ Older(r, clock')
  PROVE  Recorded(t, o)'
<1> SUFFICES ASSUME trig'[t].status = "live"
             PROVE  Due[o] < Today' \/ OnRecord(t, o)'
  BY DEF Recorded
<1>1. clock \in Nat /\ clock' \in Nat /\ Due[o] \in Int /\ Day \in Nat \ {0}
  BY TriggersAssumption DEF ControlInv, TablesInv
<1>2. Today <= Today' /\ Today \in Int /\ Today' \in Int
  <2>1. clock \in Int /\ clock' \in Int
    BY <1>1
  <2>2. clock \div Day <= clock' \div Day
    BY <1>1, <2>1, DivisionGrows
  <2>3. clock \div Day \in Int /\ clock' \div Day \in Int
    BY <1>1, <2>1
  <2> QED BY <2>2, <2>3 DEF Today
<1>3. CASE Due[o] < Today
  BY <1>1, <1>2, <1>3
<1>4. CASE OnRecord(t, o)
  <2>1. PICK r \in runs : r.trigger = t /\ r.obligation = o /\ Ahead(o, t, r.finished)
    BY <1>4 DEF OnRecord
  <2>2. CASE r \in runs'
    BY <2>1, <2>2 DEF OnRecord, Ahead
  <2>3. CASE Older(r, clock')
    <3>1. r.finished \in Nat
      BY DEF ControlInv, TablesInv, RunRow
    <3> QED BY <1>1, <2>1, <2>3, <3>1, PrunedIsPast DEF Older, Today
  <2> QED BY <2>1, <2>2, <2>3
<1> QED BY <1>3, <1>4 DEF Recorded

LEMMA KeptOrOlder ==
  ASSUME ControlInv
  PROVE  \A r \in runs : r \in Kept(runs) \/ Older(r, clock)
<1>1. clock \in Nat /\ \A r \in runs : r.finished \in Nat
  BY DEF ControlInv, TablesInv, RunRow
<1>2. RUN_TTL_DAYS * Day \in Nat
  BY TriggersAssumption
<1> QED BY <1>1, <1>2 DEF Kept, Older

(* The rows after a record. *)
LEMMA RecordRows ==
  ASSUME ControlInv, NEW copy \in Copies, NEW started \in Nat, NEW outcome \in Outcome,
         NEW o \in Obligations \cup {None}, RecordRun(copy, started, outcome, o)
  PROVE  /\ \A r \in runs : r \in runs' \/ Older(r, clock)
         /\ \E r \in runs' : r.trigger = copy.id /\ r.obligation = o /\ r.finished = clock
<1> DEFINE new == [trigger |-> copy.id, finished |-> clock, outcome |-> outcome,
                   obligation |-> o]
<1>1. runs' = Kept(runs \cup {new})
  BY DEF RecordRun
<1>2. clock \in Nat /\ RUN_TTL_DAYS * Day \in Nat
  BY TriggersAssumption DEF ControlInv, TablesInv
<1>3. new \in runs' /\ new.trigger = copy.id /\ new.obligation = o /\ new.finished = clock
  BY <1>1, <1>2 DEF Kept
<1>4. \A r \in runs : r \in runs' \/ Older(r, clock)
  BY <1>1, KeptOrOlder DEF Kept
<1> QED BY <1>3, <1>4

(* A trigger that is there was there, or has just been created.             *)
Reborn == \E t \in Triggers : trig'[t].status = "live" /\ trig[t].status = "deleted"

LEMMA OwedKept ==
  ASSUME ControlInv, NEW a \in Tasks, StillOwed(a), ~Reborn, UNCHANGED drafted,
         Begun(a)' => /\ Begun(a) /\ job'[a].started = job[a].started
                      /\ job'[a].of = job[a].of /\ job'[a].on \notin job'[a].left
                      /\ ToDraft(a)' \subseteq ToDraft(a)
  PROVE  StillOwed(a)'
<1> SUFFICES ASSUME Begun(a)', NEW o \in ToDraft(a)'
             PROVE  /\ Ahead(o, job'[a].of.id, job'[a].started)
                    /\ trig'[job'[a].of.id].status = "live" => <<job'[a].of.id, o>> \notin drafted'
  BY DEF StillOwed, Ahead
<1>1. job[a].of.id \in Triggers /\ trig[job[a].of.id].status # "unborn"
  BY OfATrigger DEF Begun, NoJob, ControlInv, CopiesInv, BornOf
<1>2. trig'[job[a].of.id].status = "live" => trig[job[a].of.id].status = "live"
  BY <1>1 DEF Reborn, ControlInv, TablesInv, TriggerRow
<1> QED BY <1>2 DEF StillOwed

(* A step that records nothing. *)
LEMMA DraftKept ==
  ASSUME RecordsOutlast, ControlInv, ControlInv', DraftInv, UNCHANGED drafted,
         clock <= clock', ~Reborn, \A a \in Tasks : StillOwed(a)',
         \A r \in runs : trig'[r.trigger].status = "live" => r \in runs' \/ Older(r, clock')
  PROVE  DraftInv'
<1> SUFFICES ASSUME NEW t \in Triggers, NEW o \in Obligations, <<t, o>> \in drafted
             PROVE  Recorded(t, o)'
  BY DEF DraftInv, Recorded
<1>1. trig[t].status # "unborn"
  BY DEF ControlInv, BornInv
<1>2. trig'[t].status = "live" => trig[t].status = "live"
  BY <1>1 DEF Reborn, ControlInv, TablesInv, TriggerRow
<1> QED BY <1>2, RecordedKept DEF DraftInv

(* A step of a job that records nothing and touches no table.               *)
LEMMA JobDraft ==
  ASSUME RecordsOutlast, ControlInv, ControlInv', DraftInv, NEW a \in Tasks,
         UNCHANGED <<trig, runs, clock, drafted>>,
         \A b \in Tasks \ {a} : job'[b] = job[b],
         StillOwed(a)'
  PROVE  DraftInv'
<1>1. clock <= clock' /\ ~Reborn
  BY DEF ControlInv, TablesInv, Reborn
<1>2. ASSUME NEW b \in Tasks \ {a} PROVE StillOwed(b)'
  BY <1>1, OwedKept DEF DraftInv, Begun, ToDraft, StillOwed
<1> QED BY <1>1, <1>2, DraftKept

LEMMA OutsideDraft ==
  ASSUME RecordsOutlast, ControlInv, ControlInv', DraftInv,
         Person \/ TimePasses \/ Restart \/ (\E o \in Obligations : ObligationChanges(o))
           \/ Tick \/ UNCHANGED vars
  PROVE  DraftInv'
<1>1. /\ UNCHANGED drafted
      /\ clock' = clock \/ clock' = clock + 1
      /\ \A a \in Tasks : job'[a] = job[a] \/ job'[a] = NoJob
  BY DEF Person, Press, Create, Enable, Disable, Delete, Restart, TimePasses,
     ObligationChanges, Tick, history, runner, vars
<1>2. clock \in Nat /\ clock' \in Nat /\ clock <= clock'
  BY <1>1 DEF ControlInv, TablesInv
<1>3. ~Reborn
  BY DEF Reborn, Person, Press, Create, Enable, Disable, Delete, Restart, TimePasses,
     ObligationChanges, Tick, store, vars, ControlInv, TablesInv, TriggerRow
<1>4. \A r \in runs : trig'[r.trigger].status = "live" => r \in runs' \/ Older(r, clock')
  <2>1. CASE Restart
    BY <2>1, KeptOrOlder DEF Restart
  <2>2. ASSUME NEW t \in Triggers, Delete(t)
        PROVE  <1>4!:
    <3>1. trig'[t].status # "live" /\ runs' = {r \in runs : r.trigger # t}
      BY <2>2 DEF Delete, ControlInv, TablesInv, TriggerRow
    <3> QED BY <3>1
  <2>3. CASE UNCHANGED runs
    BY <2>3
  <2> QED BY <2>1, <2>2, <2>3 DEF Person, Press, Create, Enable, Disable, TimePasses,
         ObligationChanges, Tick, store, vars
<1>5. ASSUME NEW a \in Tasks PROVE StillOwed(a)'
  <2>1. Begun(a)' => Begun(a) /\ job'[a] = job[a]
    BY <1>1 DEF Begun, NoJob
  <2> QED BY <1>1, <1>3, <2>1, OwedKept DEF DraftInv, ToDraft, StillOwed
<1> QED BY <1>1, <1>2, <1>3, <1>4, <1>5, DraftKept

LEMMA RunsDraft ==
  ASSUME RecordsOutlast, ControlInv, ControlInv', DraftInv, NEW a \in Tasks,
         Acquire(a) \/ Enter(a) \/ Draft(a)
  PROVE  DraftInv'
<1>1. UNCHANGED <<trig, runs, clock, drafted>>
  BY DEF Acquire, Enter, Draft, store, history
<1>2. CASE Acquire(a)
  <2>1. PICK copy \in todo[a], stage \in {"enter", "queued"} :
          job' = [job EXCEPT ![a] = Job(copy, stage, 0, {}, FALSE, None)]
    BY <1>2 DEF Acquire
  <2>2. ~Begun(a)' /\ \A b \in Tasks \ {a} : job'[b] = job[b]
    BY <2>1 DEF ControlInv, RunnerInv, Job, Begun
  <2> QED BY <1>1, <2>2, JobDraft DEF StillOwed
<1>3. CASE Enter(a)
  <2> DEFINE t == job[a].of.id
  <2>1. job[a] # NoJob /\ t \in Triggers /\ job[a].of \in Copies /\ clock \in Nat
    BY <1>3, OfATrigger DEF Enter, NoJob, ControlInv, TablesInv
  <2>2. \/ job' = [job EXCEPT ![a] = Job(job[a].of, "drafting", clock, Owed(job[a].of),
                                         FALSE, None)]
        \/ job' = [job EXCEPT ![a] = Job(job[a].of, "asking", clock, {}, FALSE, None)]
    BY <1>3 DEF Enter
  <2>3. /\ job'[a].of = job[a].of /\ job'[a].started = clock /\ job'[a].on = None
        /\ job'[a].left = Owed(job[a].of) \/ job'[a].left = {}
        /\ \A b \in Tasks \ {a} : job'[b] = job[b]
    BY <2>2 DEF ControlInv, RunnerInv, Job
  <2>4. ASSUME NEW o \in Owed(job[a].of)
        PROVE  /\ o \in Obligations /\ Ahead(o, t, clock)
               /\ trig[t].status = "live" => <<t, o>> \notin drafted
    <3>1. o \in open /\ Due[o] \in Today..(Today + DaysAhead[t]) /\ o \notin Drafted(t)
      BY <2>4 DEF Owed, DueWithin
    <3>2. o \in Obligations /\ o # None
      BY <3>1, TriggersAssumption DEF ControlInv, TablesInv
    <3>3. Ahead(o, t, clock) /\ ~(Due[o] < Today)
      <4>1. Due[o] \in Int /\ Today \in Int /\ DaysAhead[t] \in Int
        BY <2>1, <3>2, TriggersAssumption DEF Today
      <4> QED BY <3>1, <4>1 DEF Ahead, Today
    <3>4. ~OnRecord(t, o)
      BY <3>1, <3>2 DEF OnRecord, Drafted
    <3> QED BY <2>1, <3>2, <3>3, <3>4 DEF DraftInv, Recorded
  <2>5. None \notin Obligations
    BY TriggersAssumption
  <2>6. StillOwed(a)'
    BY <1>1, <2>3, <2>4, <2>5 DEF StillOwed, ToDraft, Ahead
  <2> QED BY <1>1, <2>3, <2>6, JobDraft
<1>4. CASE Draft(a)
  <2>1. job[a].stage = "drafting"
    BY <1>4 DEF Draft
  <2>2. Begun(a) /\ job[a] # NoJob
    BY <2>1 DEF Begun, NoJob
  <2>3. job[a] \in Jobs
    BY <2>2 DEF ControlInv, RunnerInv
  <2>4. PICK o \in job[a].left :
          job' = [job EXCEPT ![a].stage = "asking", ![a].on = o, ![a].left = @ \ {o}]
    BY <1>4 DEF Draft
  <2>5. /\ job'[a].started = job[a].started /\ job'[a].of = job[a].of
        /\ job'[a].on = o /\ job'[a].left = job[a].left \ {o}
        /\ \A b \in Tasks \ {a} : job'[b] = job[b]
    BY <2>3, <2>4 DEF ControlInv, RunnerInv, Jobs
  <2>6. StillOwed(a)'
    BY <1>1, <2>2, <2>4, <2>5, OwedKept DEF DraftInv, ToDraft, Reborn
  <2> QED BY <1>1, <2>5, <2>6, JobDraft
<1> QED BY <1>2, <1>3, <1>4

LEMMA WakeDraft ==
  ASSUME RecordsOutlast, ControlInv, ControlInv', DraftInv, Wake
  PROVE  DraftInv'
<1>0. line \in Seq(Tasks) /\ Head(line) \in Tasks /\ 1 \in 1..Len(line) /\ Head(line) = line[1]
  BY DEF Wake, ControlInv, RunnerInv
<1> PICK a \in Tasks : a = Head(line)
  BY <1>0
<1>1. /\ job'[a].stage = "enter" /\ \A b \in Tasks \ {a} : job'[b] = job[b]
      /\ UNCHANGED <<trig, runs, clock, drafted>>
  <2>1. job[a].stage = "queued"
    BY <1>0 DEF ControlInv, LockInv, LineInv
  <2>2. job[a] \in Jobs
    BY <2>1 DEF ControlInv, RunnerInv, NoJob
  <2> QED BY <2>2 DEF Wake, ControlInv, RunnerInv, Jobs, store, history
<1>2. StillOwed(a)'
  BY <1>1 DEF StillOwed, Begun
<1> QED BY <1>1, <1>2, JobDraft

LEMMA RecordsDraft ==
  ASSUME RecordsOutlast, ControlInv, ControlInv', SlotInv, DraftInv, NEW a \in Tasks,
         DraftingEnds(a) \/ AskRaises(a) \/ \E outcome \in Outcome : AskEnds(a, outcome)
  PROVE  DraftInv'
<1> DEFINE t == job[a].of.id
           on == job[a].on
<1>1. Begun(a) /\ UNCHANGED clock
  BY DEF DraftingEnds, AskRaises, AskEnds, Begun
<1>2. /\ job[a] # NoJob /\ job[a] \in Jobs /\ job[a].of \in Copies /\ clock \in Nat
      /\ job[a].started \in Nat /\ on \in Obligations \cup {None} /\ t \in Triggers
      /\ job[a].left \subseteq Obligations /\ None \notin Obligations
  BY <1>1, OfATrigger, TriggersAssumption DEF Begun, NoJob, ControlInv, Jobs, TablesInv
<1>3. \A b \in Tasks \ {a} : job'[b] = job[b] /\ ~Begun(b)'
  <2>1. \A b \in Tasks \ {a} : job'[b] = job[b]
    BY DEF DraftingEnds, AskRaises, AskEnds, Finish, ControlInv, RunnerInv
  <2>2. \A b \in Tasks \ {a} : ~Begun(b)
    BY <1>1, JobIsNoNone DEF ControlInv, LockInv, Inside, Begun
  <2> QED BY <2>1, <2>2 DEF Begun
<1>4. CASE RecordNothing /\ Finish(a)
  <2>1. UNCHANGED <<trig, runs, drafted>> /\ ~Begun(a)'
    BY <1>4 DEF RecordNothing, store, Finish, ControlInv, RunnerInv, Begun, NoJob
  <2> QED BY <1>1, <1>3, <2>1, JobDraft DEF StillOwed
<1>5. ASSUME NEW started \in Nat, NEW outcome \in Outcome,
             RecordRun(job[a].of, started, outcome, None), Finish(a)
      PROVE  DraftInv'
  <2>1. /\ \A u \in Triggers : trig'[u].status = trig[u].status
        /\ drafted' = drafted
    BY <1>2, <1>5, RecordEffect DEF ControlInv
  <2>2. \A r \in runs : r \in runs' \/ Older(r, clock)
    BY <1>2, <1>5, RecordRows
  <2>3. ~Begun(a)'
    BY <1>5 DEF Finish, ControlInv, RunnerInv, Begun, NoJob
  <2>4. \A b \in Tasks : StillOwed(b)'
    BY <1>3, <2>3 DEF StillOwed
  <2>5. ~Reborn /\ clock <= clock'
    BY <1>1, <1>2, <2>1 DEF Reborn
  <2> QED BY <1>1, <2>1, <2>2, <2>4, <2>5, DraftKept
<1>6. ASSUME NEW outcome \in Outcome, AskEnds(a, outcome), on # None
      PROVE  DraftInv'
  <2>1. /\ RecordRun(job[a].of, job[a].started, outcome, on)
        /\ job' = [job EXCEPT ![a].stage = "drafting", ![a].ran = TRUE, ![a].on = None]
    BY <1>6 DEF AskEnds
  <2>2. /\ \A u \in Triggers : trig'[u].status = trig[u].status
        /\ drafted' = drafted \cup {<<t, on>>}
    BY <1>2, <1>6, <2>1, RecordEffect DEF ControlInv
  <2>3. /\ \A r \in runs : r \in runs' \/ Older(r, clock)
        /\ \E r \in runs' : r.trigger = t /\ r.obligation = on /\ r.finished = clock
    BY <1>2, <2>1, RecordRows
  <2>4. /\ job'[a].of = job[a].of /\ job'[a].started = job[a].started
        /\ job'[a].left = job[a].left /\ job'[a].on = None
    BY <1>2, <2>1 DEF ControlInv, RunnerInv, Jobs
  <2>5. StillOwed(a)
    BY DEF DraftInv
  <2>6. StillOwed(a)'
    BY <1>1, <1>2, <2>2, <2>4, <2>5 DEF StillOwed, ToDraft, Ahead
  <2>7. ASSUME NEW u \in Triggers, NEW o \in Obligations, <<u, o>> \in drafted'
        PROVE  Recorded(u, o)'
    <3>1. CASE <<u, o>> \in drafted
      <4>1. trig'[u].status = "live" => trig[u].status = "live"
        BY <2>2
      <4>2. clock <= clock'
        BY <1>1, <1>2
      <4> QED BY <1>1, <2>3, <3>1, <4>1, <4>2, RecordedKept DEF DraftInv
    <3>2. CASE u = t /\ o = on
      <4>1. Ahead(on, t, job[a].started)
        BY <1>1, <1>6, <2>5 DEF StillOwed, ToDraft
      <4>2. job[a].started <= clock
        BY <1>1 DEF SlotInv, SinceInv
      <4>3. Ahead(on, t, clock)
        BY <1>2, <1>6, <4>1, <4>2, AheadGrows
      <4> QED BY <2>3, <3>2, <4>3 DEF Recorded, OnRecord, Ahead
    <3> QED BY <2>2, <2>7, <3>1, <3>2
  <2> QED BY <1>3, <2>6, <2>7 DEF DraftInv, Recorded, StillOwed
<1>7. "done" \in Outcome /\ "failed" \in Outcome
  BY DEF Outcome
<1>8. CASE DraftingEnds(a)
  BY <1>2, <1>4, <1>5, <1>7, <1>8 DEF DraftingEnds
<1>9. CASE AskRaises(a)
  BY <1>2, <1>4, <1>5, <1>7, <1>9 DEF AskRaises
<1>10. CASE \E outcome \in Outcome : AskEnds(a, outcome)
  <2>1. PICK outcome \in Outcome : AskEnds(a, outcome)
    BY <1>10
  <2>2. CASE on = None
    <3>1. RecordRun(job[a].of, job[a].started, outcome, None) /\ Finish(a)
      BY <2>1, <2>2 DEF AskEnds
    <3> QED BY <1>2, <1>5, <3>1
  <2> QED BY <1>6, <2>1, <2>2
<1> QED BY <1>8, <1>9, <1>10

LEMMA DraftStep ==
  ASSUME RecordsOutlast, ControlInv, SlotInv, DraftInv, [Next]_vars
  PROVE  DraftInv'
<1>1. ControlInv'
  BY ControlStep
<1>2. CASE Person \/ TimePasses \/ Restart \/ (\E o \in Obligations : ObligationChanges(o))
             \/ Tick \/ UNCHANGED vars
  BY <1>1, <1>2, OutsideDraft
<1>3. CASE Wake
  BY <1>1, <1>3, WakeDraft
<1>4. ASSUME NEW a \in Tasks, Runs(a)
      PROVE  DraftInv'
  BY <1>1, <1>4, RunsDraft, RecordsDraft DEF Runs
<1> QED BY <1>2, <1>3, <1>4 DEF Next

LEMMA InitDraft == Init => DraftInv
BY DEF Init, DraftInv, StillOwed, Recorded, Begun, NoJob

(* Where a run is kept for longer than any trigger looks ahead, an          *)
(* obligation is drafted for once by each trigger that is there.            *)
THEOREM ObligationsAreDraftedOnce == RecordsOutlast /\ Spec => DraftedOnce
<1> SUFFICES ASSUME RecordsOutlast PROVE Spec => DraftedOnce
  OBVIOUS
<1> DEFINE All == ControlInv /\ SlotInv /\ DraftInv
<1>1. Init => All
  BY InitControl, InitSlot, InitDraft
<1>2. All /\ [Next]_vars => All'
  BY ControlStep, SlotStep, DraftStep
<1>3. All => [\A a \in Tasks, outcome \in Outcome :
                AskEnds(a, outcome) /\ job[a].on # None /\ trig[job[a].of.id].status = "live" =>
                  <<job[a].of.id, job[a].on>> \notin drafted]_vars
  <2> SUFFICES ASSUME DraftInv, NEW a \in Tasks, NEW outcome \in Outcome, AskEnds(a, outcome),
                      job[a].on # None, trig[job[a].of.id].status = "live"
               PROVE  <<job[a].of.id, job[a].on>> \notin drafted
    OBVIOUS
  <2>1. Begun(a) /\ job[a].on \in ToDraft(a)
    BY DEF AskEnds, Begun, ToDraft
  <2> QED BY <2>1 DEF DraftInv, StillOwed
<1> HIDE DEF All
<1> QED BY <1>1, <1>2, <1>3, PTL DEF Spec, DraftedOnce

-----------------------------------------------------------------------------
(* The breaker trips. *)

LEMMA TickAlone ==
  ASSUME OneRecordAJob
  PROVE  Tasks = {"tick"}
BY DEF OneRecordAJob, Tasks

(* The counts, where no run is recorded: a streak is only cut.              *)
LEMMA RowsCountKept ==
  ASSUME ControlInv, ControlInv', RowsCount,
         \A t \in Triggers :
           \/ trig'[t].held = trig[t].held /\ trig'[t].paused = trig[t].paused
              /\ (trig'[t].status = "live" => trig[t].status = "live")
              /\ streak'[t] = streak[t]
           \/ trig'[t].held = 0 /\ streak'[t] = 0
  PROVE  RowsCount'
<1>1. BREAKER_AFTER \in Nat \ {0}
  BY TriggersAssumption
<1> QED BY <1>1 DEF RowsCount

LEMMA CopiesCountKept ==
  ASSUME ControlInv, CopiesCount,
         \A t \in Triggers : streak'[t] = streak[t] \/ streak'[t] = 0,
         todo'["tick"] \subseteq todo["tick"],
         ToRecord("tick")' => \/ ToRecord("tick") /\ job'["tick"].of = job["tick"].of
                              \/ job'["tick"].of \in todo["tick"]
  PROVE  CopiesCount'
<1>1. /\ \A c \in todo["tick"] : c.id \in Triggers /\ c.held \in Nat
      /\ ToRecord("tick") => job["tick"].of.id \in Triggers /\ job["tick"].of.held \in Nat
  BY OfATrigger, JobIsNoNone DEF ControlInv, ToRecord, NoJob, Copies
<1>2. \A t \in Triggers, n \in Nat : streak[t] <= n => streak'[t] <= n
  OBVIOUS
<1> QED BY <1>1, <1>2 DEF CopiesCount

LEMMA OutsideCount ==
  ASSUME OneRecordAJob, ControlInv, ControlInv', CountInv,
         Person \/ TimePasses \/ Restart \/ (\E o \in Obligations : ObligationChanges(o))
           \/ UNCHANGED vars
  PROVE  CountInv'
<1>1. /\ todo'["tick"] = todo["tick"] \/ todo'["tick"] = {}
      /\ job'["tick"] = job["tick"] \/ job'["tick"] = NoJob
  <2>1. CASE Person
    BY <2>1 DEF Person, Create, Enable, Disable, Delete, runner, OneRecordAJob
  <2>2. CASE Restart
    BY <2>2, JobIsNoNone DEF Restart
  <2>3. CASE TimePasses \/ (\E o \in Obligations : ObligationChanges(o)) \/ UNCHANGED vars
    BY <2>3 DEF TimePasses, ObligationChanges, runner, vars
  <2> QED BY <2>1, <2>2, <2>3
<1>2. \A t \in Triggers :
        \/ trig'[t].held = trig[t].held /\ trig'[t].paused = trig[t].paused
           /\ (trig'[t].status = "live" => trig[t].status = "live")
           /\ streak'[t] = streak[t]
        \/ trig'[t].held = 0 /\ streak'[t] = 0
  <2>1. ASSUME NEW u \in Triggers, Create(u) \/ Enable(u) \/ Disable(u) \/ Delete(u)
        PROVE  <1>2!:
    <3>1. \A t \in Triggers \ {u} : trig'[t] = trig[t] /\ streak'[t] = streak[t]
      BY <2>1 DEF Create, Enable, Disable, Delete, history, ControlInv, TablesInv
    <3>2. CASE Create(u)
      <4>1. trig'[u].held = 0 /\ streak'[u] = streak[u] /\ trig[u].status = "unborn"
        BY <3>2 DEF Create, history, ControlInv, TablesInv
      <4> QED BY <3>1, <4>1 DEF ControlInv, BornInv
    <3>3. CASE Enable(u)
      <4>1. trig'[u].held = 0 /\ streak'[u] = 0
        BY <3>3 DEF Enable, ControlInv, TablesInv, TriggerRow
      <4> QED BY <3>1, <4>1
    <3>4. CASE Disable(u) \/ Delete(u)
      <4>1. /\ trig'[u].held = trig[u].held /\ trig'[u].paused = trig[u].paused
            /\ trig[u].status = "live" /\ streak'[u] = streak[u]
        BY <3>4 DEF Disable, Delete, history, ControlInv, TablesInv, TriggerRow
      <4> QED BY <3>1, <4>1
    <3> QED BY <2>1, <3>2, <3>3, <3>4
  <2>2. CASE UNCHANGED <<trig, streak>>
    BY <2>2
  <2>3. Person => \E u \in Triggers : Create(u) \/ Enable(u) \/ Disable(u) \/ Delete(u)
    BY DEF Person, OneRecordAJob
  <2> QED BY <2>1, <2>2, <2>3 DEF TimePasses, Restart, ObligationChanges, store, history, vars
<1>3. RowsCount'
  BY <1>2, RowsCountKept DEF CountInv
<1>4. \A t \in Triggers : streak'[t] = streak[t] \/ streak'[t] = 0
  BY <1>2
<1>5. CopiesCount'
  BY <1>1, <1>4, CopiesCountKept DEF CountInv, ToRecord, NoJob
<1>6. OnceInv'
  BY <1>1 DEF CountInv, OnceInv, Begun, NoJob
<1> QED BY <1>3, <1>5, <1>6 DEF CountInv

LEMMA RunsCount ==
  ASSUME OneRecordAJob, ControlInv, ControlInv', CountInv,
         Tick \/ Wake \/ Acquire("tick") \/ Enter("tick") \/ Draft("tick")
  PROVE  CountInv'
<1>1. UNCHANGED <<trig, streak>>
  BY DEF Tick, Wake, Acquire, Enter, Draft, store, history
<1>2. RowsCount'
  BY <1>1, RowsCountKept DEF CountInv
<1>3. CASE Tick
  <2>1. /\ UNCHANGED job /\ job["tick"] = NoJob
        /\ todo'["tick"] = {Copy(t) : t \in {u \in Triggers : IsDue(u)}}
    BY <1>3, JobIsNoNone DEF Tick, ControlInv, RunnerInv
  <2>2. ASSUME NEW t \in Triggers, IsDue(t)
        PROVE  Copy(t).id = t /\ streak[t] <= Copy(t).held
    <3>1. streak[t] <= trig[t].held
      BY <2>2 DEF IsDue, CountInv, RowsCount
    <3> QED BY <3>1, CopyType DEF ControlInv
  <2>3. CopiesCount'
    BY <1>1, <2>1, <2>2 DEF CopiesCount, ToRecord, NoJob
  <2>4. OnceInv'
    BY <2>1 DEF OnceInv, Begun, NoJob
  <2> QED BY <1>2, <2>3, <2>4 DEF CountInv
<1>4. CASE Wake
  <2>1. /\ line \in Seq(Tasks) /\ Head(line) = "tick" /\ 1 \in 1..Len(line) /\ line[1] = "tick"
        /\ UNCHANGED todo
        /\ job' = [job EXCEPT !["tick"].stage = "enter"]
    <3>1. line \in Seq(Tasks) /\ line # <<>> /\ UNCHANGED todo
      BY <1>4 DEF Wake, ControlInv, RunnerInv
    <3>2. Head(line) \in Tasks /\ 1 \in 1..Len(line) /\ line[1] = Head(line)
      BY <3>1
    <3>3. Head(line) = "tick"
      BY <3>2, TickAlone
    <3> QED BY <1>4, <3>1, <3>2, <3>3 DEF Wake
  <2>2. job["tick"].stage = "queued"
    BY <2>1 DEF ControlInv, LockInv, LineInv
  <2>3. job["tick"] \in Jobs
    BY <2>2, JobIsNoNone DEF ControlInv, RunnerInv, NoJob
  <2>4. job'["tick"].stage = "enter" /\ job'["tick"].of = job["tick"].of
    BY <2>1, <2>3, JobIsNoNone DEF ControlInv, RunnerInv, Jobs
  <2>5. CopiesCount'
    BY <1>1, <2>1, <2>2, <2>4, CopiesCountKept DEF CountInv, ToRecord
  <2>6. OnceInv'
    BY <2>4 DEF OnceInv, Begun
  <2> QED BY <1>2, <2>5, <2>6 DEF CountInv
<1>5. CASE Acquire("tick")
  <2>1. PICK copy \in todo["tick"], stage \in {"enter", "queued"} :
          /\ todo' = [todo EXCEPT !["tick"] = @ \ {copy}]
          /\ job' = [job EXCEPT !["tick"] = Job(copy, stage, 0, {}, FALSE, None)]
    BY <1>5 DEF Acquire
  <2>2. /\ job'["tick"].of = copy /\ job'["tick"].stage = stage
        /\ todo'["tick"] \subseteq todo["tick"]
    BY <2>1, JobIsNoNone DEF ControlInv, RunnerInv, Job
  <2>3. CopiesCount'
    BY <1>1, <2>2, CopiesCountKept DEF CountInv
  <2>4. OnceInv'
    BY <2>2 DEF OnceInv, Begun
  <2> QED BY <1>2, <2>3, <2>4 DEF CountInv
<1>6. CASE Enter("tick")
  <2>1. \/ /\ Kind[job["tick"].of.id] = "obligations"
           /\ job' = [job EXCEPT !["tick"] =
                Job(job["tick"].of, "drafting", clock, Owed(job["tick"].of), FALSE, None)]
        \/ job' = [job EXCEPT !["tick"] =
                Job(job["tick"].of, "asking", clock, {}, FALSE, None)]
    BY <1>6 DEF Enter
  <2>2. /\ job'["tick"].of = job["tick"].of /\ ~job'["tick"].ran
        /\ \/ /\ job'["tick"].stage = "drafting"
              /\ Kind[job["tick"].of.id] = "obligations"
           \/ job'["tick"].stage = "asking" /\ job'["tick"].left = {}
        /\ UNCHANGED todo
    BY <1>6, <2>1, JobIsNoNone DEF Enter, ControlInv, RunnerInv, Job
  <2>3. ToRecord("tick")
    BY <1>6 DEF Enter, ToRecord
  <2>4. CopiesCount'
    BY <1>1, <2>2, <2>3, CopiesCountKept DEF CountInv
  <2>5. OnceInv'
    BY <2>2 DEF OnceInv
  <2> QED BY <1>2, <2>4, <2>5 DEF CountInv
<1>7. CASE Draft("tick")
  <2>1. job["tick"].stage = "drafting" /\ UNCHANGED todo
    BY <1>7 DEF Draft
  <2>2. Begun("tick") /\ job["tick"] # NoJob
    BY <2>1 DEF Begun, NoJob
  <2>3. job["tick"] \in Jobs
    BY <2>2, JobIsNoNone DEF ControlInv, RunnerInv
  <2>4. PICK o \in job["tick"].left :
          job' = [job EXCEPT !["tick"].stage = "asking", !["tick"].on = o,
                             !["tick"].left = @ \ {o}]
    BY <1>7 DEF Draft
  <2>5. /\ job'["tick"].of = job["tick"].of /\ job'["tick"].ran = job["tick"].ran
        /\ job'["tick"].left = job["tick"].left \ {o}
    BY <2>3, <2>4, JobIsNoNone DEF ControlInv, RunnerInv, Jobs
  <2>6. ~job["tick"].ran /\ Kind[job["tick"].of.id] = "obligations"
    BY <2>2, <2>4 DEF CountInv, OnceInv
  <2>7. job["tick"].left \ {o} = {}
    BY <2>3, <2>4, <2>6, OfATrigger, JobIsNoNone DEF OneRecordAJob, Jobs, Copies
  <2>8. CopiesCount'
    BY <1>1, <2>1, <2>5, <2>6, CopiesCountKept DEF CountInv, ToRecord
  <2>9. OnceInv'
    BY <2>5, <2>6, <2>7 DEF OnceInv
  <2> QED BY <1>2, <2>8, <2>9 DEF CountInv
<1> QED BY <1>3, <1>4, <1>5, <1>6, <1>7

LEMMA RecordsCount ==
  ASSUME OneRecordAJob, ControlInv, ControlInv', CountInv,
         DraftingEnds("tick") \/ AskRaises("tick")
           \/ \E outcome \in Outcome : AskEnds("tick", outcome)
  PROVE  CountInv'
<1> DEFINE a == "tick"
           t == job[a].of.id
<1>1. Begun(a) /\ UNCHANGED todo /\ a \in Tasks
  BY JobIsNoNone DEF DraftingEnds, AskRaises, AskEnds, Begun, Finish
<1>2. /\ job[a] # NoJob /\ job[a] \in Jobs /\ job[a].of \in Copies /\ clock \in Nat
      /\ job[a].started \in Nat /\ job[a].on \in Obligations \cup {None} /\ t \in Triggers
      /\ job[a].of.held \in Nat
  BY <1>1, OfATrigger DEF Begun, NoJob, ControlInv, Jobs, Copies, TablesInv
<1>3. \A c \in todo[a] : c.id \in Triggers /\ c.id # t
  BY <1>1, <1>2, OfATrigger DEF ControlInv, CopiesInv, CopiesOf
<1>4. \/ job'[a] = NoJob
      \/ job'[a].stage = "drafting" /\ job'[a].ran /\ job'[a].left = {}
  <2>1. CASE Finish(a)
    BY <1>1, <2>1 DEF Finish, ControlInv, RunnerInv
  <2>2. CASE /\ job[a].stage = "asking"
             /\ job' = [job EXCEPT ![a].stage = "drafting", ![a].ran = TRUE, ![a].on = None]
    <3>1. job[a].left = {}
      BY <1>1, <2>2 DEF CountInv, OnceInv
    <3> QED BY <1>1, <1>2, <2>2, <3>1 DEF ControlInv, RunnerInv, Jobs
  <2> QED BY <2>1, <2>2 DEF DraftingEnds, AskRaises, AskEnds
<1>5. OnceInv' /\ ~ToRecord(a)'
  BY <1>4 DEF OnceInv, ToRecord, Begun, NoJob
<1>6. ASSUME \A u \in Triggers \ {t} : streak'[u] = streak[u]
      PROVE  CopiesCount'
  BY <1>1, <1>3, <1>5, <1>6 DEF CountInv, CopiesCount
<1>7. ASSUME NEW started \in Nat, NEW outcome \in Outcome, NEW o \in Obligations \cup {None},
             RecordRun(job[a].of, started, outcome, o),
             outcome = "held" => ToRecord(a)
      PROVE  CountInv'
  <2>1. /\ \A u \in Triggers : /\ trig'[u].status = trig[u].status
                               /\ u # t => trig'[u] = trig[u] /\ streak'[u] = streak[u]
        /\ streak'[t] = IF outcome = "held" THEN streak[t] + 1 ELSE 0
        /\ trig[t].status = "live" =>
             /\ trig'[t].held = HeldInARow(job[a].of, outcome)
             /\ trig'[t].paused <=> trig'[t].held >= BREAKER_AFTER
    BY <1>2, <1>7, RecordEffect DEF ControlInv
  <2>2. streak[t] \in Nat
    BY <1>2 DEF ControlInv, TablesInv
  <2>3. outcome = "held" => streak[t] <= job[a].of.held
    BY <1>7 DEF CountInv, CopiesCount
  <2>4. streak'[t] <= HeldInARow(job[a].of, outcome)
    BY <1>2, <2>1, <2>2, <2>3 DEF HeldInARow
  <2>5. ASSUME NEW u \in Triggers, trig'[u].status = "live"
        PROVE  streak'[u] <= trig'[u].held /\ (trig'[u].held >= BREAKER_AFTER => trig'[u].paused)
    <3>1. CASE u = t
      BY <2>1, <2>4, <2>5, <3>1
    <3>2. CASE u # t
      BY <2>1, <2>5, <3>2 DEF CountInv, RowsCount
    <3> QED BY <3>1, <3>2
  <2>6. RowsCount'
    BY <2>5 DEF RowsCount
  <2> QED BY <1>5, <1>6, <2>1, <2>6 DEF CountInv
<1>8. CASE DraftingEnds(a)
  <2>1. CASE RecordNothing
    <3>1. UNCHANGED <<trig, streak>>
      BY <2>1 DEF RecordNothing, store
    <3>2. RowsCount'
      BY <3>1, RowsCountKept DEF CountInv
    <3> QED BY <1>5, <1>6, <3>1, <3>2 DEF CountInv
  <2>2. CASE RecordRun(job[a].of, job[a].started, "done", None)
    BY <1>2, <1>7, <2>2 DEF Outcome
  <2> QED BY <1>8, <2>1, <2>2 DEF DraftingEnds
<1>9. CASE AskRaises(a)
  <2>1. RecordRun(job[a].of, clock, "failed", None)
    BY <1>9 DEF AskRaises
  <2> QED BY <1>2, <1>7, <2>1 DEF Outcome
<1>10. CASE \E outcome \in Outcome : AskEnds(a, outcome)
  <2>1. PICK outcome \in Outcome : AskEnds(a, outcome)
    BY <1>10
  <2>2. /\ RecordRun(job[a].of, job[a].started, outcome, job[a].on)
        /\ job[a].stage = "asking"
    BY <2>1 DEF AskEnds
  <2> QED BY <1>2, <1>7, <2>2 DEF ToRecord
<1> QED BY <1>8, <1>9, <1>10

LEMMA CountStep ==
  ASSUME OneRecordAJob, ControlInv, CountInv, [Next]_vars
  PROVE  CountInv'
<1>1. ControlInv'
  BY ControlStep
<1>2. CASE Person \/ TimePasses \/ Restart \/ (\E o \in Obligations : ObligationChanges(o))
             \/ UNCHANGED vars
  BY <1>1, <1>2, OutsideCount
<1>3. CASE Tick \/ Wake
  BY <1>1, <1>3, RunsCount
<1>4. CASE \E a \in Tasks : Runs(a)
  <2>1. Runs("tick")
    BY <1>4, TickAlone
  <2> QED BY <1>1, <2>1, RunsCount, RecordsCount DEF Runs
<1> QED BY <1>2, <1>3, <1>4 DEF Next

LEMMA InitCount == Init => CountInv
<1>1. BREAKER_AFTER \in Nat \ {0}
  BY TriggersAssumption
<1> QED BY <1>1, JobIsNoNone DEF Init, CountInv, RowsCount, CopiesCount, OnceInv, Begun,
           ToRecord, NoJob

(* Where nobody presses and a job records once, a trigger whose last        *)
(* BREAKER_AFTER runs were held is paused.                                  *)
THEOREM TheBreakerTrips == OneRecordAJob /\ Spec => []BreakerTrips
<1> SUFFICES ASSUME OneRecordAJob PROVE Spec => []BreakerTrips
  OBVIOUS
<1> DEFINE All == ControlInv /\ CountInv
<1>1. Init => All
  BY InitControl, InitCount
<1>2. All /\ [Next]_vars => All'
  BY ControlStep, CountStep
<1>3. All => BreakerTrips
  <2> SUFFICES ASSUME ControlInv, RowsCount, NEW t \in Triggers, trig[t].status = "live",
                      streak[t] >= BREAKER_AFTER
               PROVE  trig[t].paused
    BY DEF CountInv, BreakerTrips
  <2>1. /\ streak[t] \in Nat /\ trig[t].held \in Nat /\ BREAKER_AFTER \in Nat
    BY TriggersAssumption DEF ControlInv, TablesInv, TriggerRow
  <2> QED BY <2>1 DEF RowsCount
<1> HIDE DEF All
<1> QED BY <1>1, <1>2, <1>3, PTL DEF Spec
=============================================================================
