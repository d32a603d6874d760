------------------------------- MODULE ToolLoop -------------------------------
(***************************************************************************)
(* The loop that answers with tools (core/execution_engine.py, _run_tool_  *)
(* loop and what calls it) and the tasks it writes down when it stops      *)
(* (projects/plans.py).  The model may ask for anything; what is modelled  *)
(* is what the loop makes of it.  A reply runs on a thread of its own and  *)
(* can be cut off at any event, and the person reads, answers, deletes and *)
(* continues tasks meanwhile.                                              *)
(***************************************************************************)
EXTENDS ToolPolicy, FiniteSets

CONSTANTS
  Sessions,
  Calls, Trait, Writes,  (* calls with their arguments, and how they read    *)
  MayAllow,              (* the calls the person ever allows: a bound        *)
  Files,                 (* the calls that write a file of the project       *)
  Check,                 (* the project's own check, run before "done"       *)
  Plans, Items,          (* calls of the plan tool, and how many items       *)
  Ids,                   (* of tasks: bounds how many are ever written       *)
  SavesFail,             (* whether a write to the store can fail            *)
  MAX_TOOL_ROUNDS, MAX_AUTO_CONTINUATIONS, MAX_CHECKS_BEFORE_DONE, PLAN_REVIEW_ITEMS,
  None, Gone

ASSUME LoopAssumption ==
  /\ Trait \in [Calls -> {c \in Call : Coherent(c)}] /\ Writes \in [Calls -> Mode] /\ Check \in Calls
  /\ Files \cup MayAllow \subseteq Calls /\ Plans \cap Calls = {} /\ Items \in [Plans -> Nat]
  /\ SavesFail \in BOOLEAN /\ MAX_TOOL_ROUNDS \in Nat \ {0} /\ PLAN_REVIEW_ITEMS \in Nat \ {0}
  /\ MAX_AUTO_CONTINUATIONS \in Nat /\ MAX_CHECKS_BEFORE_DONE \in Nat
  /\ IsFiniteSet(Ids) /\ IsFiniteSet(Sessions)
  /\ None # Gone /\ {None, Gone} \cap (Calls \cup Plans \cup Ids) = {}

VARIABLES
  approved, uninterrupted,  (* sessions told Go; told not to stop            *)
  checklist,                (* session -> how many items its plan has        *)
  planId,                   (* session -> the task it is on, or None         *)
  granted,                  (* what was allowed, for a conversation          *)
  rows,                     (* the store: None, a task, or Gone              *)
  reply,                    (* session -> the reply being made, or None      *)
  cards                     (* task -> the call the last card on it shows    *)

session == <<approved, uninterrupted, checklist, planId>>
vars == <<session, granted, rows, reply, cards>>

-----------------------------------------------------------------------------
(* The turns of a task, as far as the loop looks back at them: the plans    *)
(* among them, the calls nothing has happened since (the last is always     *)
(* one) and whether a file was written since the last check.                *)

NoTurns == [plans |-> {}, known |-> {}, wrote |-> FALSE]

LooksOnly(c) == c \in Calls /\ LooksReadOnly(Trait[c])

Turn(turns, c) ==
  [plans |-> turns.plans \cup ({c} \cap Plans),
   known |-> {c} \cup IF LooksOnly(c) THEN turns.known ELSE {},
   wrote |-> c # Check /\ (turns.wrote \/ c \in Files)]

(* _turns_that_still_fit: any latest part of them, never none.              *)
Carried(turns) ==
  {[plans |-> p, known |-> k, wrote |-> w] :
     p \in SUBSET turns.plans, k \in SUBSET turns.known \ {{}}, w \in {FALSE, turns.wrote}}

Start(turns, first, once) ==
  [turns |-> turns, rounds |-> 0, made |-> 0, left |-> MAX_AUTO_CONTINUATIONS,
   failed |-> 0, first |-> first, once |-> once, full |-> FALSE, again |-> FALSE]

AllMade == (MAX_AUTO_CONTINUATIONS + 1) * MAX_TOOL_ROUNDS

-----------------------------------------------------------------------------
(* The store. *)

Task(x, turns, held) ==
  [items |-> checklist[x], approved |-> x \in approved, finished |-> FALSE,
   turns |-> turns, held |-> held]

Unused == {id \in Ids : rows[id] = None}

TaskOf(x) == IF planId[x] # None THEN planId[x] ELSE CHOOSE id \in Unused : TRUE

(* _park: under the id the session has, whatever has become of that row.    *)
Park(x, turns, held) ==
  /\ rows' = [rows EXCEPT ![TaskOf(x)] = Task(x, turns, held)]
  /\ planId' = [planId EXCEPT ![x] = TaskOf(x)]

ParkFails == SavesFail /\ UNCHANGED <<rows, planId>>

(* Mutant of NoGo: neither is taken back.                                    *)
GoStays(x) == UNCHANGED <<approved, uninterrupted>>

(* Both are cleared together: they were consent for one plan.               *)
NoGo(x) == approved' = approved \ {x} /\ uninterrupted' = uninterrupted \ {x}

(* _finished: a task that was planned keeps its list, any other is deleted. *)
Finish(x, turns) ==
  /\ rows' = IF checklist[x] > 0
             THEN [rows EXCEPT ![TaskOf(x)] =
                     [Task(x, NoTurns, None) EXCEPT !.finished = TRUE]]
             ELSE IF planId[x] # None /\ rows[planId[x]] # None
                  THEN [rows EXCEPT ![planId[x]] = Gone]
             ELSE rows
  /\ planId' = [planId EXCEPT ![x] = None]
  /\ NoGo(x)
  /\ checklist' = [checklist EXCEPT ![x] = 0]

-----------------------------------------------------------------------------
(* What the person does. *)

(* Mutant of ForgetTask: a question goes on with the task before it.        *)
KeepTask(x) == UNCHANGED planId
ForgetTask(x) == planId' = [planId EXCEPT ![x] = None]

(* execute: a question, as far as the loop's first reading of the answer.   *)
Question(x) ==
  /\ reply[x] = None
  /\ Cardinality(Unused) > Cardinality({y \in Sessions : reply[y] # None})
  /\ NoGo(x)
  /\ checklist' = [checklist EXCEPT ![x] = 0]
  /\ ForgetTask(x)
  /\ reply' = [reply EXCEPT ![x] = Start(NoTurns, None, FALSE)]
  /\ UNCHANGED <<granted, rows, cards>>

GoIsOn(id, go) == go # "no" \/ rows[id].approved

(* continue_task: Continue, Go at either level, or the card's Run this once *)
(* or Allow; on the task named, or the latest.                              *)
Continue(x, id, go, runHeld) ==
  /\ reply[x] = None /\ rows[id] \notin {None, Gone}
  /\ planId' = [planId EXCEPT ![x] = id]
  /\ checklist' = [checklist EXCEPT ![x] = rows[id].items]
  /\ IF GoIsOn(id, go)
     THEN /\ approved' = approved \cup {x}
          /\ uninterrupted' = uninterrupted \cup (IF go = "full" THEN {x} ELSE {})
     ELSE NoGo(x)
  /\ rows' = IF go = "no" THEN rows ELSE [rows EXCEPT ![id].approved = TRUE]
  /\ \E kept \in Carried(rows[id].turns) \cup {rows[id].turns} :
       reply' = [reply EXCEPT ![x] =
                   Start(kept, rows[id].held, runHeld /\ rows[id].held # None)]
  /\ cards' = [cards EXCEPT ![id] = None]
  /\ UNCHANGED granted

(* The stream ends: the person stops it, or the window goes.                *)
Abort(x) ==
  /\ reply[x] # None
  /\ reply' = [reply EXCEPT ![x] = None]
  /\ UNCHANGED <<session, granted, rows, cards>>

Allow(x, c) ==
  /\ granted' = granted \cup {<<x, c>>}
  /\ UNCHANGED <<session, rows, reply, cards>>

(* delete, or prune after seven days.                                       *)
Delete(id) ==
  /\ rows[id] \notin {None, Gone}
  /\ rows' = [rows EXCEPT ![id] = Gone]
  /\ cards' = [cards EXCEPT ![id] = None]
  /\ UNCHANGED <<session, granted, reply>>

Restart ==
  /\ approved' = {} /\ uninterrupted' = {} /\ granted' = {}
  /\ checklist' = [x \in Sessions |-> 0]
  /\ planId' = [x \in Sessions |-> None]
  /\ reply' = [x \in Sessions |-> None]
  /\ UNCHANGED <<rows, cards>>

-----------------------------------------------------------------------------
(* One lap of the loop: what the model asks for, and what is made of it.    *)

Wants(x, c) ==
  /\ reply[x] # None /\ ~reply[x].full
  /\ c = reply[x].first \/ reply[x].first = None

Pressed(x, c) == reply[x].once /\ c = reply[x].first

PlanWantsGo(x, c) ==
  /\ c \in Calls /\ ~LooksOnly(c) /\ ~Pressed(x, c)
  /\ x \notin approved /\ checklist[x] >= PLAN_REVIEW_ITEMS

Resent(x, c) == ~PlanWantsGo(x, c) /\ c \in reply[x].turns.plans

NoProgress(x, c) == ~PlanWantsGo(x, c) /\ ~Resent(x, c) /\ c \in reply[x].turns.known

Confirmed(x, c) == Pressed(x, c) \/ (x \in uninterrupted /\ CoveredByRun(Trait[c]))

Verdicts(x, c) ==
  IF c \in Plans THEN "allow"
  ELSE Gate(Trait[c], Writes[c], <<x, c>> \in granted, Confirmed(x, c))

Reaches(x, c, verdict) ==
  /\ Wants(x, c) /\ ~PlanWantsGo(x, c) /\ ~Resent(x, c) /\ ~NoProgress(x, c)
  /\ Verdicts(x, c) = verdict

Ends(x) == reply' = [reply EXCEPT ![x] = None]

(* Park, answer from what was gathered, and offer to go on.                 *)
Close(x) ==
  /\ Park(x, reply[x].turns, None) \/ ParkFails
  /\ Ends(x)
  /\ UNCHANGED <<approved, uninterrupted, checklist, granted, cards>>

PausesForGo(x, c) == Wants(x, c) /\ PlanWantsGo(x, c) /\ Close(x)

Stalls(x, c) == Wants(x, c) /\ NoProgress(x, c) /\ Close(x)

(* A plan sent again is answered and costs nothing (again: a lap that       *)
(* changes nothing else is still a step).                                   *)
Resend(x, c) ==
  /\ Wants(x, c) /\ Resent(x, c)
  /\ reply' = [reply EXCEPT ![x].turns = Turn(@, c), ![x].again = ~@]
  /\ UNCHANGED <<session, granted, rows, cards>>

Refuses(x, c) ==
  /\ Reaches(x, c, "refuse")
  /\ Ends(x)
  /\ UNCHANGED <<session, granted, rows, cards>>

(* The card shows the call and names the task, if there is one to name.     *)
Holds(x, c) ==
  /\ Reaches(x, c, "confirm")
  /\ Park(x, reply[x].turns, c) \/ ParkFails
  /\ cards' = IF planId'[x] = None THEN cards ELSE [cards EXCEPT ![planId'[x]] = c]
  /\ Ends(x)
  /\ UNCHANGED <<approved, uninterrupted, checklist, granted>>

Made(r) == IF r.made > AllMade THEN r.made ELSE r.made + 1   (* bound on the count *)

(* It runs, well or not; a plan that did replaces the list.                 *)
Runs(x, c, ok, heavy) ==
  /\ Reaches(x, c, "allow")
  /\ LET r == reply[x] IN
     reply' = [reply EXCEPT ![x] =
                 [r EXCEPT !.turns = Turn(r.turns, c), !.rounds = r.rounds + 1,
                           !.made = Made(r), !.first = None, !.once = FALSE,
                           !.full = heavy \/ r.rounds + 1 >= MAX_TOOL_ROUNDS]]
  /\ checklist' = IF ok /\ c \in Plans THEN [checklist EXCEPT ![x] = Items[c]] ELSE checklist
  /\ UNCHANGED <<approved, uninterrupted, planId, granted, rows, cards>>

(* Mutant of HandedOver: the allowance is never spent.                      *)
HandedOverFreely(r, kept) == [r EXCEPT !.turns = kept, !.rounds = 0, !.full = FALSE]
HandedOver(r, kept) ==
  [r EXCEPT !.turns = kept, !.rounds = 0, !.full = FALSE, !.left = r.left - 1]

(* The window is half full, or the calls in it are spent.                   *)
HandsOver(x) ==
  /\ reply[x] # None /\ reply[x].full /\ reply[x].left > 0
  /\ \E kept \in Carried(reply[x].turns) :
       reply' = [reply EXCEPT ![x] = HandedOver(reply[x], kept)]
  /\ UNCHANGED <<session, granted, rows, cards>>

RunsOut(x) == reply[x] # None /\ reply[x].full /\ reply[x].left = 0 /\ Close(x)

(* The model calls it done, and the project's check does not pass: once     *)
(* more.  The check asks for no permission and is made for no session.      *)
CheckFails(x) ==
  /\ reply[x] # None /\ ~reply[x].full /\ reply[x].first = None
  /\ reply[x].failed < MAX_CHECKS_BEFORE_DONE /\ reply[x].turns.wrote
  /\ Gate(Trait[Check], Writes[Check], FALSE, FALSE) = "allow"
  /\ reply' = [reply EXCEPT ![x].turns = Turn(@, Check), ![x].failed = @ + 1]
  /\ UNCHANGED <<session, granted, rows, cards>>

Done(x) ==
  /\ reply[x] # None /\ ~reply[x].full /\ reply[x].first = None
  /\ Finish(x, reply[x].turns)
  /\ Ends(x)
  /\ cards' = IF planId[x] = None THEN cards ELSE [cards EXCEPT ![planId[x]] = None]
  /\ UNCHANGED granted

-----------------------------------------------------------------------------
Init ==
  /\ approved = {} /\ uninterrupted = {} /\ granted = {}
  /\ checklist = [x \in Sessions |-> 0]
  /\ planId = [x \in Sessions |-> None]
  /\ rows = [id \in Ids |-> None]
  /\ reply = [x \in Sessions |-> None]
  /\ cards = [id \in Ids |-> None]

Person ==
  \/ \E x \in Sessions : Question(x) \/ Abort(x) \/ \E c \in MayAllow : Allow(x, c)
  \/ \E x \in Sessions, id \in Ids, go \in {"no", "ask", "full"}, held \in BOOLEAN :
       Continue(x, id, go, held)
  \/ \E id \in Ids : Delete(id)
  \/ Restart

Lap(x) ==
  \/ \E c \in Calls \cup Plans :
       \/ PausesForGo(x, c) \/ Resend(x, c) \/ Stalls(x, c) \/ Refuses(x, c) \/ Holds(x, c)
       \/ \E ok, heavy \in BOOLEAN : Runs(x, c, ok, heavy)
  \/ HandsOver(x) \/ RunsOut(x) \/ CheckFails(x) \/ Done(x)

Next == Person \/ \E x \in Sessions : Lap(x)

(* A generation and a tool call each end, and the stream is read.           *)
Spec == Init /\ [][Next]_vars /\ \A x \in Sessions : WF_vars(Lap(x))

-----------------------------------------------------------------------------
(* Properties. *)

Turns == [plans : SUBSET Plans, known : SUBSET (Calls \cup Plans), wrote : BOOLEAN]
Row == [items : Nat, approved : BOOLEAN, finished : BOOLEAN, turns : Turns,
        held : Calls \cup {None}]
ASSUME RowAssumption == {None, Gone} \cap Row = {}
Reply == [turns : Turns, rounds : 0..MAX_TOOL_ROUNDS, made : 0..AllMade + 1,
          left : 0..MAX_AUTO_CONTINUATIONS, failed : 0..MAX_CHECKS_BEFORE_DONE,
          first : Calls \cup {None}, once : BOOLEAN, full : BOOLEAN, again : BOOLEAN]

LoopTypeOK ==
  /\ approved \subseteq Sessions /\ uninterrupted \subseteq approved
  /\ checklist \in [Sessions -> Nat] /\ planId \in [Sessions -> Ids \cup {None}]
  /\ granted \subseteq Sessions \X Calls
  /\ rows \in [Ids -> Row \cup {None, Gone}]
  /\ reply \in [Sessions -> Reply \cup {None}]
  /\ cards \in [Ids -> Calls \cup {None}]

RanNow(x, c) ==
  /\ reply[x] # None /\ reply'[x] # None
  /\ reply'[x].made > reply[x].made /\ c \in reply'[x].turns.known \ reply[x].turns.known

(* What a name or an argument says removes or sends is run on the person's  *)
(* own press of that one call, whatever plan was let run and whatever was   *)
(* allowed before.                                                          *)
RemovalsAndSendsArePressed ==
  [][\A x \in Sessions, c \in Calls :
       RanNow(x, c) /\ ~Reads(Trait[c])
         /\ ("delete" \in Trait[c].words \/ LooksOutbound(Trait[c]) \/ Trait[c].subject = "removal")
       => Pressed(x, c)]_vars

(* A reply makes no more calls than its windows allow, over every handoff.  *)
WorkIsBounded == \A x \in Sessions : reply[x] # None => reply[x].made <= AllMade

(* The button on a card keeps meaning what it showed: until it is answered, *)
(* deleted or taken up by another conversation, the task holds that call.   *)
CardsKeepTheirCall ==
  \A id \in Ids : cards[id] # None /\ Cardinality({x \in Sessions : planId[x] = id}) <= 1 =>
    rows[id] \notin {None, Gone} /\ rows[id].held = cards[id] /\ ~rows[id].finished

(* Go, once pressed on a task, is not lost while the task is unfinished:    *)
(* a long plan does not stop to be read a second time.                      *)
GoIsKept ==
  [][\A id \in Ids :
       /\ rows[id] \notin {None, Gone} /\ rows'[id] \notin {None, Gone}
       /\ rows[id].approved /\ ~rows'[id].finished
       => rows'[id].approved]_vars

(* "Go was for the last one": what a conversation runs on is the Go written *)
(* on the task it is on, and on no other.                                   *)
GoIsForThisTask ==
  \A x \in approved :
    planId[x] # None /\ rows[planId[x]] # None /\
      (rows[planId[x]] # Gone => rows[planId[x]].approved)

(* Every reply ends, unless the model sends the same plan for ever.         *)
EveryReplyEnds ==
  \A x \in Sessions :
    []<>(reply[x] = None) \/ []<><<\E c \in Plans : Resend(x, c)>>_vars

(* What comments say and the runs refute.                                   *)

(* "It asks every time; a standing yes is never kept" (policy.py): a tool   *)
(* listed as always asking runs only on a press.                            *)
AlwaysAsksIsAsked ==
  [][\A x \in Sessions, c \in Calls :
       RanNow(x, c) /\ AlwaysAsks(Trait[c]) => Pressed(x, c)]_vars

(* "Bounded all the same" (execution_engine.py:1829).                       *)
BoundedAllTheSame == \A x \in Sessions : []<>(reply[x] = None)

(* "A level is chosen at the moment of pressing, for the plan on screen"    *)
(* (execution_engine.py:2793).                                              *)
TheLevelPressedHolds ==
  [][\A x \in Sessions, id \in Ids, held \in BOOLEAN :
       Continue(x, id, "ask", held) => x \notin uninterrupted']_vars

(* "Forget a task ... leave the same amount behind: nothing" (plans.py).    *)
DeletedStaysDeleted == [][\A id \in Ids : rows[id] = Gone => rows'[id] = Gone]_vars
=============================================================================
