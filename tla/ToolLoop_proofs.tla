---------------------------- MODULE ToolLoop_proofs ----------------------------
(***************************************************************************)
(* The loop that answers with tools, for any conversations, calls, plans   *)
(* and tasks, and any bounds: the work of a reply is bounded over every    *)
(* handoff; a removal or a send runs on a press of that very call; and,    *)
(* where no two conversations are on one task, Go is for the task it was   *)
(* pressed on and a card keeps the call it showed.                         *)
(***************************************************************************)
EXTENDS ToolLoop, ToolPolicy_proofs, FiniteSetTheorems

(* The sessions that will need a task of their own to write down.           *)
Waiting == {x \in Sessions : reply[x] # None /\ planId[x] = None}
Replying == {x \in Sessions : reply[x] # None}

(* A task a session is on has been written, and there is one for each that  *)
(* has yet to be.                                                           *)
PlacesInv ==
  /\ \A x \in Sessions : planId[x] # None => rows[planId[x]] # None
  /\ Cardinality(Waiting) <= Cardinality(Unused)

(* What a reply has made fits in the windows it has begun.                  *)
Pace(r) ==
  /\ r.full \/ r.rounds < MAX_TOOL_ROUNDS
  /\ r.made <= (MAX_AUTO_CONTINUATIONS - r.left) * MAX_TOOL_ROUNDS + r.rounds
PaceInv == \A x \in Sessions : reply[x] # None => Pace(reply[x])

LoopInv == LoopTypeOK /\ PlacesInv /\ PaceInv

-----------------------------------------------------------------------------
(* The operators. *)

LEMMA TurnTypes ==
  /\ NoTurns \in Turns
  /\ \A turns \in Turns, c \in Calls \cup Plans : Turn(turns, c) \in Turns
  /\ \A turns \in Turns : Carried(turns) \subseteq Turns
<1>1. NoTurns \in Turns
  BY DEF NoTurns, Turns
<1>2. ASSUME NEW turns \in Turns, NEW c \in Calls \cup Plans
      PROVE  Turn(turns, c) \in Turns
  <2>1. (c # Check /\ (turns.wrote \/ c \in Files)) \in BOOLEAN
    OBVIOUS
  <2>2. {c} \cup (IF LooksOnly(c) THEN turns.known ELSE {}) \subseteq Calls \cup Plans
    BY DEF Turns
  <2>3. turns.plans \cup ({c} \cap Plans) \subseteq Plans
    BY DEF Turns
  <2> QED BY <2>1, <2>2, <2>3 DEF Turn, Turns
<1>3. ASSUME NEW turns \in Turns PROVE Carried(turns) \subseteq Turns
  <2>1. /\ turns.plans \subseteq Plans /\ turns.known \subseteq Calls \cup Plans
        /\ turns.wrote \in BOOLEAN
    BY DEF Turns
  <2>2. ASSUME NEW new \in Carried(turns) PROVE new \in Turns
    <3>1. PICK p \in SUBSET turns.plans, k \in SUBSET turns.known \ {{}},
               w \in {FALSE, turns.wrote} : new = [plans |-> p, known |-> k, wrote |-> w]
      BY DEF Carried
    <3>2. p \in SUBSET Plans /\ k \in SUBSET (Calls \cup Plans) /\ w \in BOOLEAN
      BY <2>1
    <3> QED BY <3>1, <3>2 DEF Turns
  <2> QED BY <2>2
<1> QED BY <1>1, <1>2, <1>3

LEMMA Bounds ==
  /\ MAX_TOOL_ROUNDS \in Nat /\ MAX_TOOL_ROUNDS > 0 /\ MAX_AUTO_CONTINUATIONS \in Nat
  /\ MAX_CHECKS_BEFORE_DONE \in Nat
  /\ AllMade \in Nat /\ AllMade = MAX_AUTO_CONTINUATIONS * MAX_TOOL_ROUNDS + MAX_TOOL_ROUNDS
<1>1. /\ MAX_TOOL_ROUNDS \in Nat /\ MAX_TOOL_ROUNDS > 0 /\ MAX_AUTO_CONTINUATIONS \in Nat
      /\ MAX_CHECKS_BEFORE_DONE \in Nat
  BY LoopAssumption
<1>2. (MAX_AUTO_CONTINUATIONS + 1) * MAX_TOOL_ROUNDS
        = MAX_AUTO_CONTINUATIONS * MAX_TOOL_ROUNDS + MAX_TOOL_ROUNDS
  BY <1>1
<1>3. MAX_AUTO_CONTINUATIONS * MAX_TOOL_ROUNDS \in Nat
  BY <1>1
<1> QED BY <1>1, <1>2, <1>3 DEF AllMade

LEMMA Names ==
  /\ None # Gone /\ None \notin Calls \cup Plans \cup Ids /\ Gone \notin Ids
  /\ None \notin Row /\ Gone \notin Row /\ Calls \cap Plans = {}
BY LoopAssumption, RowAssumption

LEMMA StartType ==
  ASSUME NEW turns \in Turns, NEW first \in Calls \cup {None}, NEW once \in BOOLEAN
  PROVE  Start(turns, first, once) \in Reply /\ Pace(Start(turns, first, once))
<1>1. (MAX_AUTO_CONTINUATIONS - MAX_AUTO_CONTINUATIONS) * MAX_TOOL_ROUNDS + 0 = 0
  BY Bounds
<1>2. Start(turns, first, once) \in Reply
  BY Bounds DEF Start, Reply
<1>3. Pace(Start(turns, first, once))
  BY <1>1, Bounds DEF Start, Pace
<1> QED BY <1>2, <1>3

LEMMA TaskType ==
  ASSUME LoopTypeOK, NEW x \in Sessions, NEW turns \in Turns, NEW held \in Calls \cup {None}
  PROVE  /\ Task(x, turns, held) \in Row
         /\ [Task(x, turns, held) EXCEPT !.finished = TRUE] \in Row
<1> DEFINE go == x \in approved
<1>1. go \in BOOLEAN /\ checklist[x] \in Nat
  BY DEF LoopTypeOK
<1>2. Task(x, turns, held) = [items |-> checklist[x], approved |-> go, finished |-> FALSE,
                              turns |-> turns, held |-> held]
  BY DEF Task
<1> HIDE DEF go
<1>3. Task(x, turns, held) \in Row
  BY <1>1, <1>2 DEF Row
<1>4. ASSUME NEW row \in Row PROVE [row EXCEPT !.finished = TRUE] \in Row
  BY DEF Row
<1> QED BY <1>3, <1>4

(* A task is there to be written when it is written.                        *)
LEMMA TaskIsThere ==
  ASSUME LoopInv, NEW x \in Replying
  PROVE  /\ TaskOf(x) \in Ids
         /\ planId[x] # None => TaskOf(x) = planId[x]
         /\ planId[x] = None => rows[TaskOf(x)] = None
<1>1. CASE planId[x] # None
  BY <1>1 DEF TaskOf, LoopInv, LoopTypeOK, Replying
<1>2. CASE planId[x] = None
  <2>1. x \in Waiting
    BY <1>2 DEF Waiting, Replying
  <2>2. IsFiniteSet(Waiting) /\ IsFiniteSet(Unused)
    BY FS_Subset, LoopAssumption DEF Waiting, Unused
  <2>3. Cardinality(Waiting) # 0
    BY <2>1, <2>2, FS_EmptySet
  <2>4. Cardinality(Unused) # 0
    <3>1. Cardinality(Waiting) \in Nat /\ Cardinality(Unused) \in Nat
      BY <2>2, FS_CardinalityType
    <3> QED BY <2>3, <3>1 DEF LoopInv, PlacesInv
  <2>5. Unused # {}
    BY <2>2, <2>4, FS_EmptySet
  <2>6. TaskOf(x) \in Unused
    BY <1>2, <2>5 DEF TaskOf
  <2> QED BY <1>2, <2>6 DEF Unused
<1> QED BY <1>1, <1>2

-----------------------------------------------------------------------------
(* The places. *)

(* Nobody comes to need a task, and none that is there goes.                *)
LEMMA PlacesKept ==
  ASSUME LoopInv, Waiting' \subseteq Waiting, Unused \subseteq Unused',
         \A x \in Sessions : planId'[x] # None => rows'[planId'[x]] # None
  PROVE  PlacesInv'
<1>1. IsFiniteSet(Waiting) /\ IsFiniteSet(Unused')
  BY FS_Subset, LoopAssumption DEF Waiting, Unused
<1>2. Cardinality(Waiting') <= Cardinality(Waiting) /\ Cardinality(Unused) <= Cardinality(Unused')
  BY <1>1, FS_Subset
<1>3. /\ IsFiniteSet(Waiting') /\ IsFiniteSet(Unused)
  BY <1>1, FS_Subset
<1>4. /\ Cardinality(Waiting') \in Nat /\ Cardinality(Waiting) \in Nat
      /\ Cardinality(Unused') \in Nat /\ Cardinality(Unused) \in Nat
  BY <1>1, <1>3, FS_CardinalityType
<1>5. Cardinality(Waiting') <= Cardinality(Unused')
  BY <1>2, <1>4 DEF LoopInv, PlacesInv
<1> QED BY <1>5 DEF PlacesInv

(* One that needed a task has got one. *)
LEMMA PlacesTaken ==
  ASSUME LoopInv, NEW x \in Waiting, NEW id \in Unused, Waiting' \subseteq Waiting \ {x},
         Unused \ {id} \subseteq Unused',
         \A y \in Sessions : planId'[y] # None => rows'[planId'[y]] # None
  PROVE  PlacesInv'
<1>1. IsFiniteSet(Waiting) /\ IsFiniteSet(Unused) /\ IsFiniteSet(Unused')
  BY FS_Subset, LoopAssumption DEF Waiting, Unused
<1>2. /\ IsFiniteSet(Waiting \ {x}) /\ Cardinality(Waiting \ {x}) = Cardinality(Waiting) - 1
      /\ IsFiniteSet(Unused \ {id}) /\ Cardinality(Unused \ {id}) = Cardinality(Unused) - 1
  BY <1>1, FS_RemoveElement
<1>3. /\ Cardinality(Waiting') <= Cardinality(Waiting \ {x}) /\ IsFiniteSet(Waiting')
      /\ Cardinality(Unused \ {id}) <= Cardinality(Unused')
  BY <1>1, <1>2, FS_Subset
<1>4. /\ Cardinality(Waiting') \in Nat /\ Cardinality(Waiting) \in Nat
      /\ Cardinality(Unused') \in Nat /\ Cardinality(Unused) \in Nat
  BY <1>1, <1>3, FS_CardinalityType
<1>5. Cardinality(Waiting') <= Cardinality(Unused')
  BY <1>2, <1>3, <1>4 DEF LoopInv, PlacesInv
<1> QED BY <1>5 DEF PlacesInv

-----------------------------------------------------------------------------
(* The steps of a reply. *)

LEMMA ReplyType ==
  ASSUME LoopInv, NEW x \in Replying
  PROVE  x \in Sessions /\ reply[x] \in Reply /\ Pace(reply[x]) /\ reply[x].turns \in Turns
         /\ reply[x].first \in Calls \cup {None}
BY DEF LoopInv, LoopTypeOK, PaceInv, Replying, Reply

(* The reply goes on. *)
LEMMA GoesOn ==
  ASSUME LoopInv, NEW x \in Replying, NEW new \in Reply, Pace(new),
         reply' = [reply EXCEPT ![x] = new],
         UNCHANGED <<approved, uninterrupted, planId, granted, rows, cards>>,
         checklist' \in [Sessions -> Nat]
  PROVE  LoopInv'
<1>1. /\ reply' \in [Sessions -> Reply \cup {None}]
      /\ reply'[x] = new /\ \A y \in Sessions \ {x} : reply'[y] = reply[y]
  BY ReplyType DEF LoopInv, LoopTypeOK
<1>2. LoopTypeOK'
  BY <1>1 DEF LoopInv, LoopTypeOK
<1>3. Waiting' \subseteq Waiting /\ Unused' = Unused
  BY <1>1 DEF Waiting, Unused, Replying
<1>4. PlacesInv'
  BY <1>3, PlacesKept DEF LoopInv, PlacesInv
<1>5. PaceInv'
  BY <1>1 DEF LoopInv, PaceInv, Pace
<1> QED BY <1>2, <1>4, <1>5 DEF LoopInv

(* Replies end, and perhaps the task is written, or done with.              *)
LEMMA Over ==
  ASSUME LoopInv, \A x \in Sessions : reply'[x] = reply[x] \/ reply'[x] = None,
         reply' \in [Sessions -> Reply \cup {None}],
         approved' \subseteq Sessions, uninterrupted' \subseteq approved',
         checklist' \in [Sessions -> Nat], planId' \in [Sessions -> Ids \cup {None}],
         granted' \subseteq Sessions \X Calls, rows' \in [Ids -> Row \cup {None, Gone}],
         cards' \in [Ids -> Calls \cup {None}], PlacesInv'
  PROVE  LoopInv'
<1>1. LoopTypeOK'
  BY DEF LoopTypeOK
<1>2. PaceInv'
  BY DEF LoopInv, PaceInv, Pace
<1> QED BY <1>1, <1>2 DEF LoopInv

LEMMA EndsType ==
  ASSUME LoopInv, NEW x \in Replying, Ends(x)
  PROVE  /\ reply' \in [Sessions -> Reply \cup {None}] /\ reply'[x] = None
         /\ \A y \in Sessions : reply'[y] = reply[y] \/ reply'[y] = None
         /\ \A y \in Sessions \ {x} : reply'[y] = reply[y]
BY DEF Ends, LoopInv, LoopTypeOK, Replying

LEMMA ParkType ==
  ASSUME LoopInv, NEW x \in Replying, NEW turns \in Turns, NEW held \in Calls \cup {None},
         Park(x, turns, held), Ends(x)
  PROVE  /\ rows' \in [Ids -> Row \cup {None, Gone}] /\ planId' \in [Sessions -> Ids \cup {None}]
         /\ planId'[x] \in Ids /\ planId'[x] # None
         /\ rows'[planId'[x]] = Task(x, turns, held)
         /\ planId[x] # None => planId'[x] = planId[x]
         /\ planId[x] = None => rows[planId'[x]] = None
         /\ \A y \in Sessions \ {x} : planId'[y] = planId[y]
         /\ \A id \in Ids \ {planId'[x]} : rows'[id] = rows[id]
         /\ PlacesInv'
<1> DEFINE id == TaskOf(x)
<1>1. /\ id \in Ids /\ id # None /\ x \in Sessions
      /\ planId[x] # None => id = planId[x]
      /\ planId[x] = None => rows[id] = None
  BY TaskIsThere, Names, ReplyType
<1>2. Task(x, turns, held) \in Row
  BY <1>1, TaskType DEF LoopInv
<1>3. /\ rows' = [rows EXCEPT ![id] = Task(x, turns, held)] /\ planId' = [planId EXCEPT ![x] = id]
      /\ rows \in [Ids -> Row \cup {None, Gone}] /\ planId \in [Sessions -> Ids \cup {None}]
  BY DEF Park, LoopInv, LoopTypeOK
<1> HIDE DEF id
<1>4. /\ rows' \in [Ids -> Row \cup {None, Gone}] /\ planId' \in [Sessions -> Ids \cup {None}]
      /\ planId'[x] = id /\ rows'[id] = Task(x, turns, held)
      /\ \A y \in Sessions \ {x} : planId'[y] = planId[y]
      /\ \A i \in Ids \ {id} : rows'[i] = rows[i]
  BY <1>1, <1>2, <1>3
<1>5. \A y \in Sessions : planId'[y] # None => rows'[planId'[y]] # None
  BY <1>1, <1>2, <1>4, Names DEF LoopInv, PlacesInv, LoopTypeOK
<1>6. x \notin Waiting' /\ Waiting' \subseteq Waiting
  BY <1>1, <1>4, EndsType DEF Waiting
<1>7. Unused \ {id} \subseteq Unused'
  BY <1>4 DEF Unused
<1>8. PlacesInv'
  <2>1. CASE planId[x] = None
    <3>1. x \in Waiting /\ id \in Unused
      BY <1>1, <2>1 DEF Waiting, Unused, Replying
    <3> QED BY <1>5, <1>6, <1>7, <3>1, PlacesTaken
  <2>2. CASE planId[x] # None
    <3>1. id \notin Unused
      BY <1>1, <2>2 DEF Unused, LoopInv, PlacesInv
    <3> QED BY <1>5, <1>6, <1>7, <3>1, PlacesKept
  <2> QED BY <2>1, <2>2
<1> QED BY <1>1, <1>4, <1>8

LEMMA ParkFailsPlaces ==
  ASSUME LoopInv, NEW x \in Replying, UNCHANGED <<rows, planId>>, Ends(x)
  PROVE  PlacesInv'
<1>1. Waiting' \subseteq Waiting /\ Unused' = Unused
  BY EndsType DEF Waiting, Unused
<1> QED BY <1>1, PlacesKept DEF LoopInv, PlacesInv

LEMMA CloseKeeps ==
  ASSUME LoopInv, NEW x \in Replying, Close(x)
  PROVE  LoopInv'
<1>1. /\ Ends(x) /\ UNCHANGED <<approved, uninterrupted, checklist, granted, cards>>
      /\ Park(x, reply[x].turns, None) \/ UNCHANGED <<rows, planId>>
  BY DEF Close, ParkFails
<1>2. reply[x].turns \in Turns
  BY ReplyType
<1>3. /\ rows' \in [Ids -> Row \cup {None, Gone}] /\ planId' \in [Sessions -> Ids \cup {None}]
      /\ PlacesInv'
  <2>1. CASE Park(x, reply[x].turns, None)
    BY <1>1, <1>2, <2>1, ParkType
  <2>2. CASE UNCHANGED <<rows, planId>>
    BY <1>1, <2>2, ParkFailsPlaces DEF LoopInv, LoopTypeOK
  <2> QED BY <1>1, <2>1, <2>2
<1> QED BY <1>1, <1>3, EndsType, Over DEF LoopInv, LoopTypeOK

LEMMA HoldsKeeps ==
  ASSUME LoopInv, NEW x \in Replying, NEW c \in Calls \cup Plans, Holds(x, c)
  PROVE  LoopInv'
<1>1. /\ Ends(x) /\ UNCHANGED <<approved, uninterrupted, checklist, granted>>
      /\ Park(x, reply[x].turns, c) \/ UNCHANGED <<rows, planId>>
      /\ cards' = IF planId'[x] = None THEN cards ELSE [cards EXCEPT ![planId'[x]] = c]
  BY DEF Holds, ParkFails
<1>2. reply[x].turns \in Turns /\ c \in Calls
  BY ReplyType DEF Holds, Reaches, Verdicts
<1>3. /\ rows' \in [Ids -> Row \cup {None, Gone}] /\ planId' \in [Sessions -> Ids \cup {None}]
      /\ PlacesInv'
  <2>1. CASE Park(x, reply[x].turns, c)
    BY <1>1, <1>2, <2>1, ParkType
  <2>2. CASE UNCHANGED <<rows, planId>>
    BY <1>1, <2>2, ParkFailsPlaces DEF LoopInv, LoopTypeOK
  <2> QED BY <1>1, <2>1, <2>2
<1>4. cards' \in [Ids -> Calls \cup {None}]
  BY <1>1, <1>2 DEF LoopInv, LoopTypeOK
<1> QED BY <1>1, <1>3, <1>4, EndsType, Over DEF LoopInv, LoopTypeOK

LEMMA DoneKeeps ==
  ASSUME LoopInv, NEW x \in Replying, Done(x)
  PROVE  LoopInv'
<1> DEFINE id == TaskOf(x)
           done == [Task(x, NoTurns, None) EXCEPT !.finished = TRUE]
<1>1. /\ Ends(x) /\ NoGo(x) /\ UNCHANGED granted
      /\ planId' = [planId EXCEPT ![x] = None]
      /\ checklist' = [checklist EXCEPT ![x] = 0]
      /\ cards' = IF planId[x] = None THEN cards ELSE [cards EXCEPT ![planId[x]] = None]
      /\ \/ rows' = [rows EXCEPT ![id] = done]
         \/ planId[x] # None /\ rows' = [rows EXCEPT ![planId[x]] = Gone]
         \/ rows' = rows
  BY DEF Done, Finish
<1>2. /\ id \in Ids /\ x \in Sessions
      /\ planId[x] # None => id = planId[x]
      /\ planId[x] = None => rows[id] = None
  BY TaskIsThere, ReplyType
<1>3. done \in Row
  BY <1>2, TaskType, TurnTypes DEF LoopInv
<1> HIDE DEF id, done
<1>4. /\ rows' \in [Ids -> Row \cup {None, Gone}] /\ planId' \in [Sessions -> Ids \cup {None}]
      /\ checklist' \in [Sessions -> Nat] /\ cards' \in [Ids -> Calls \cup {None}]
      /\ approved' \subseteq Sessions /\ uninterrupted' \subseteq approved'
      /\ granted' \subseteq Sessions \X Calls
  BY <1>1, <1>2, <1>3 DEF NoGo, LoopInv, LoopTypeOK
<1>5. /\ planId'[x] = None /\ \A y \in Sessions \ {x} : planId'[y] = planId[y]
      /\ \A i \in Ids : rows'[i] = rows[i] \/ rows'[i] \in Row \cup {Gone}
      /\ \A i \in Ids \ {id} : rows'[i] = None <=> rows[i] = None
  <2>1. planId[x] # None => rows[planId[x]] # None
    BY <1>2 DEF LoopInv, PlacesInv
  <2> QED BY <1>1, <1>2, <1>3, <2>1, Names DEF LoopInv, LoopTypeOK
<1>6. \A y \in Sessions : planId'[y] # None => rows'[planId'[y]] # None
  BY <1>2, <1>5, Names DEF LoopInv, PlacesInv, LoopTypeOK
<1>7. x \notin Waiting' /\ Waiting' \subseteq Waiting
  BY <1>1, <1>2, <1>5, EndsType DEF Waiting
<1>8. Unused \ {id} \subseteq Unused'
  BY <1>5 DEF Unused
<1>9. PlacesInv'
  <2>1. CASE planId[x] = None
    <3>1. x \in Waiting /\ id \in Unused
      BY <1>2, <2>1 DEF Waiting, Unused, Replying
    <3> QED BY <1>6, <1>7, <1>8, <3>1, PlacesTaken
  <2>2. CASE planId[x] # None
    <3>1. id \notin Unused
      BY <1>2, <2>2 DEF Unused, LoopInv, PlacesInv
    <3> QED BY <1>6, <1>7, <1>8, <3>1, PlacesKept
  <2> QED BY <2>1, <2>2
<1> QED BY <1>1, <1>4, <1>9, EndsType, Over

LEMMA RefusesKeeps ==
  ASSUME LoopInv, NEW x \in Replying, Ends(x),
         UNCHANGED <<approved, uninterrupted, checklist, planId, granted, rows, cards>>
  PROVE  LoopInv'
<1>1. PlacesInv'
  BY ParkFailsPlaces
<1> QED BY <1>1, EndsType, Over DEF LoopInv, LoopTypeOK

(* What a lap does to the reply that goes on. *)
LEMMA RunsKeeps ==
  ASSUME LoopInv, NEW x \in Replying, NEW c \in Calls \cup Plans,
         NEW ok \in BOOLEAN, NEW heavy \in BOOLEAN, Runs(x, c, ok, heavy)
  PROVE  LoopInv'
<1> DEFINE r == reply[x]
           full == heavy \/ r.rounds + 1 >= MAX_TOOL_ROUNDS
           new == [r EXCEPT !.turns = Turn(r.turns, c), !.rounds = r.rounds + 1,
                            !.made = Made(r), !.first = None, !.once = FALSE, !.full = full]
<1>1. /\ r \in Reply /\ Pace(r) /\ Turn(r.turns, c) \in Turns /\ ~r.full
  BY ReplyType, TurnTypes DEF Runs, Reaches, Wants
<1>2. /\ reply' = [reply EXCEPT ![x] = new]
      /\ UNCHANGED <<approved, uninterrupted, planId, granted, rows, cards>>
  BY DEF Runs
<1>3. checklist' \in [Sessions -> Nat]
  BY LoopAssumption DEF Runs, LoopInv, LoopTypeOK
<1>4. /\ r.rounds \in Nat /\ r.rounds < MAX_TOOL_ROUNDS /\ r.made \in Nat /\ r.left \in Nat
      /\ r.left <= MAX_AUTO_CONTINUATIONS
      /\ r.made <= (MAX_AUTO_CONTINUATIONS - r.left) * MAX_TOOL_ROUNDS + r.rounds
  BY <1>1, Bounds DEF Pace, Reply
<1>5. (MAX_AUTO_CONTINUATIONS - r.left) * MAX_TOOL_ROUNDS
        <= MAX_AUTO_CONTINUATIONS * MAX_TOOL_ROUNDS
  BY <1>4, Bounds
<1>6. (MAX_AUTO_CONTINUATIONS - r.left) * MAX_TOOL_ROUNDS \in Int
  BY <1>4, Bounds
<1>7. MAX_AUTO_CONTINUATIONS * MAX_TOOL_ROUNDS \in Int
  BY Bounds
<1>8. r.made + 1 <= AllMade /\ Made(r) = r.made + 1
  BY <1>4, <1>5, <1>6, <1>7, Bounds DEF Made
<1>9. full \in BOOLEAN /\ (full \/ r.rounds + 1 < MAX_TOOL_ROUNDS)
  BY <1>4, Bounds
<1> HIDE DEF full
<1>10. new \in Reply
  <2>1. r.rounds + 1 \in 0..MAX_TOOL_ROUNDS /\ Made(r) \in 0..AllMade + 1
    BY <1>4, <1>8, Bounds
  <2> HIDE DEF r
  <2> QED BY <1>1, <1>9, <2>1 DEF Reply
<1>11. Pace(new)
  <2>1. /\ new.rounds = r.rounds + 1 /\ new.made = Made(r) /\ new.left = r.left /\ new.full = full
    BY <1>1 DEF Reply
  <2> HIDE DEF new
  <2> QED BY <1>4, <1>6, <1>8, <1>9, <2>1, Bounds DEF Pace
<1> HIDE DEF new
<1> QED BY <1>2, <1>3, <1>10, <1>11, GoesOn

LEMMA ResendKeeps ==
  ASSUME LoopInv, NEW x \in Replying, NEW c \in Calls \cup Plans, Resend(x, c)
  PROVE  LoopInv'
<1> DEFINE r == reply[x]
           new == [r EXCEPT !.turns = Turn(r.turns, c), !.again = ~r.again]
<1>1. r \in Reply /\ Pace(r) /\ Turn(r.turns, c) \in Turns
  BY ReplyType, TurnTypes
<1>2. /\ reply' = [reply EXCEPT ![x] = new]
      /\ UNCHANGED <<approved, uninterrupted, planId, granted, rows, cards, checklist>>
  BY ReplyType DEF Resend, session, LoopInv, LoopTypeOK
<1>3. new \in Reply /\ Pace(new)
  BY <1>1 DEF Reply, Pace
<1> HIDE DEF new
<1> QED BY <1>2, <1>3, GoesOn DEF LoopInv, LoopTypeOK

LEMMA CheckFailsKeeps ==
  ASSUME LoopInv, NEW x \in Replying, CheckFails(x)
  PROVE  LoopInv'
<1> DEFINE r == reply[x]
           new == [r EXCEPT !.turns = Turn(r.turns, Check), !.failed = r.failed + 1]
<1>1. r \in Reply /\ Pace(r) /\ Turn(r.turns, Check) \in Turns
  BY ReplyType, TurnTypes, LoopAssumption
<1>2. /\ reply' = [reply EXCEPT ![x] = new] /\ r.failed < MAX_CHECKS_BEFORE_DONE
      /\ UNCHANGED <<approved, uninterrupted, planId, granted, rows, cards, checklist>>
  BY ReplyType DEF CheckFails, session, LoopInv, LoopTypeOK
<1>3. r.failed + 1 \in 0..MAX_CHECKS_BEFORE_DONE
  BY <1>1, <1>2, Bounds DEF Reply
<1>4. new \in Reply /\ Pace(new)
  BY <1>1, <1>3 DEF Reply, Pace
<1> HIDE DEF new
<1> QED BY <1>2, <1>4, GoesOn DEF LoopInv, LoopTypeOK

LEMMA HandsOverKeeps ==
  ASSUME LoopInv, NEW x \in Replying, HandsOver(x)
  PROVE  LoopInv'
<1> DEFINE r == reply[x]
<1>1. r \in Reply /\ Pace(r) /\ r.turns \in Turns
  BY ReplyType
<1>2. PICK kept \in Carried(r.turns) : reply' = [reply EXCEPT ![x] = HandedOver(r, kept)]
  BY DEF HandsOver
<1> DEFINE new == HandedOver(r, kept)
<1>3. kept \in Turns
  BY <1>1, TurnTypes
<1>4. /\ r.left \in Nat /\ r.left > 0 /\ r.left <= MAX_AUTO_CONTINUATIONS
      /\ r.rounds \in Nat /\ r.rounds <= MAX_TOOL_ROUNDS /\ r.made \in Nat
      /\ r.made <= (MAX_AUTO_CONTINUATIONS - r.left) * MAX_TOOL_ROUNDS + r.rounds
  BY <1>1, Bounds DEF HandsOver, Reply, Pace
<1>5. (MAX_AUTO_CONTINUATIONS - (r.left - 1)) * MAX_TOOL_ROUNDS
        = (MAX_AUTO_CONTINUATIONS - r.left) * MAX_TOOL_ROUNDS + MAX_TOOL_ROUNDS
  BY <1>4, Bounds
<1>6. (MAX_AUTO_CONTINUATIONS - r.left) * MAX_TOOL_ROUNDS \in Int
  BY <1>4, Bounds
<1>7. r.made <= (MAX_AUTO_CONTINUATIONS - (r.left - 1)) * MAX_TOOL_ROUNDS + 0
  BY <1>4, <1>5, <1>6, Bounds
<1>8. new \in Reply
  <2>1. r.left - 1 \in 0..MAX_AUTO_CONTINUATIONS /\ 0 \in 0..MAX_TOOL_ROUNDS
    BY <1>4, Bounds
  <2> HIDE DEF r
  <2> QED BY <1>1, <1>3, <2>1 DEF HandedOver, Reply
<1>9. Pace(new)
  <2>1. new.rounds = 0 /\ new.made = r.made /\ new.left = r.left - 1
    BY <1>1 DEF HandedOver, Reply
  <2> HIDE DEF new
  <2> QED BY <1>7, <2>1, Bounds DEF Pace
<1>10. /\ UNCHANGED <<approved, uninterrupted, planId, granted, rows, cards>>
       /\ checklist' \in [Sessions -> Nat]
  BY DEF HandsOver, session, LoopInv, LoopTypeOK
<1>11. reply' = [reply EXCEPT ![x] = new]
  BY <1>2
<1> HIDE DEF new
<1> QED BY <1>8, <1>9, <1>10, <1>11, GoesOn

-----------------------------------------------------------------------------
(* The steps of the person. *)

LEMMA QuestionKeeps ==
  ASSUME LoopInv, NEW x \in Sessions, Question(x)
  PROVE  LoopInv'
<1>1. /\ Cardinality(Unused) > Cardinality(Replying) /\ reply[x] = None
      /\ NoGo(x) /\ checklist' = [checklist EXCEPT ![x] = 0]
      /\ planId' = [planId EXCEPT ![x] = None]
      /\ reply' = [reply EXCEPT ![x] = Start(NoTurns, None, FALSE)]
      /\ granted' = granted /\ rows' = rows /\ cards' = cards
  BY DEF Question, ForgetTask, Replying
<1>2. Start(NoTurns, None, FALSE) \in Reply /\ Pace(Start(NoTurns, None, FALSE))
  BY StartType, TurnTypes
<1> DEFINE new == Start(NoTurns, None, FALSE)
<1> HIDE DEF new
<1>3. /\ reply' \in [Sessions -> Reply \cup {None}] /\ reply'[x] = new
      /\ \A y \in Sessions \ {x} : reply'[y] = reply[y]
      /\ planId' \in [Sessions -> Ids \cup {None}] /\ planId'[x] = None
      /\ \A y \in Sessions \ {x} : planId'[y] = planId[y]
  BY <1>1, <1>2 DEF LoopInv, LoopTypeOK, new
<1>4. LoopTypeOK'
  BY <1>1, <1>3 DEF NoGo, LoopInv, LoopTypeOK
<1>5. PaceInv'
  BY <1>2, <1>3 DEF LoopInv, PaceInv, Pace, new
<1>6. PlacesInv'
  <2>1. /\ IsFiniteSet(Replying) /\ IsFiniteSet(Unused)
        /\ x \notin Replying /\ Waiting' \subseteq Replying \cup {x}
    BY <1>1, <1>3, FS_Subset, LoopAssumption DEF Replying, Waiting, Unused
  <2>2. /\ IsFiniteSet(Replying \cup {x})
        /\ Cardinality(Replying \cup {x}) = Cardinality(Replying) + 1
    BY <2>1, FS_AddElement
  <2>3. IsFiniteSet(Waiting') /\ Cardinality(Waiting') <= Cardinality(Replying \cup {x})
    BY <2>1, <2>2, FS_Subset
  <2>4. /\ Cardinality(Waiting') \in Nat /\ Cardinality(Replying) \in Nat
        /\ Cardinality(Unused) \in Nat
    BY <2>1, <2>3, FS_CardinalityType
  <2>5. Unused' = Unused
    BY <1>1 DEF Unused
  <2>6. Cardinality(Waiting') <= Cardinality(Unused')
    BY <1>1, <2>2, <2>3, <2>4, <2>5
  <2>7. \A y \in Sessions : planId'[y] # None => rows'[planId'[y]] # None
    BY <1>1, <1>3 DEF LoopInv, PlacesInv
  <2> QED BY <2>6, <2>7 DEF PlacesInv
<1> QED BY <1>4, <1>5, <1>6 DEF LoopInv

(* Continue sets the conversation on a task that is there.                  *)
LEMMA ContinueIs ==
  ASSUME LoopInv, NEW x \in Sessions, NEW id \in Ids, NEW go \in {"no", "ask", "full"},
         NEW held \in BOOLEAN, Continue(x, id, go, held)
  PROVE  /\ rows[id] \in Row /\ id # None /\ reply[x] = None
         /\ planId'[x] = id /\ \A y \in Sessions \ {x} : planId'[y] = planId[y]
         /\ rows' \in [Ids -> Row \cup {None, Gone}]
         /\ rows'[id] \in Row /\ \A i \in Ids \ {id} : rows'[i] = rows[i]
         /\ rows'[id].finished = rows[id].finished /\ rows'[id].held = rows[id].held
         /\ rows[id].approved => rows'[id].approved
         /\ go # "no" => rows'[id].approved
         /\ reply'[x] \in Reply /\ \A y \in Sessions \ {x} : reply'[y] = reply[y]
         /\ \A c \in Calls : reply'[x].first = c => rows[id].held = c
<1>1. /\ reply[x] = None /\ rows[id] \notin {None, Gone}
      /\ planId' = [planId EXCEPT ![x] = id]
      /\ rows' = IF go = "no" THEN rows ELSE [rows EXCEPT ![id].approved = TRUE]
  BY DEF Continue
<1>2. rows[id] \in Row /\ rows[id].turns \in Turns /\ rows[id].held \in Calls \cup {None} /\ id # None
  BY <1>1, Names DEF LoopInv, LoopTypeOK, Row
<1>3. PICK kept \in Carried(rows[id].turns) \cup {rows[id].turns} :
        reply' = [reply EXCEPT ![x] =
                    Start(kept, rows[id].held, held /\ rows[id].held # None)]
  BY DEF Continue
<1> DEFINE once == held /\ rows[id].held # None
           new == Start(kept, rows[id].held, once)
<1>4. kept \in Turns /\ once \in BOOLEAN
  BY <1>2, <1>3, TurnTypes
<1> HIDE DEF once
<1>5. new \in Reply /\ new.first = rows[id].held
  BY <1>2, <1>4, StartType DEF Start
<1>6. reply' = [reply EXCEPT ![x] = new]
  BY <1>3 DEF once
<1> HIDE DEF new
<1>7. /\ planId'[x] = id /\ \A y \in Sessions \ {x} : planId'[y] = planId[y]
      /\ reply'[x] = new /\ \A y \in Sessions \ {x} : reply'[y] = reply[y]
  BY <1>1, <1>6 DEF LoopInv, LoopTypeOK
<1> DEFINE row == rows[id]
<1>8. /\ [row EXCEPT !.approved = TRUE] \in Row
      /\ [row EXCEPT !.approved = TRUE].finished = row.finished
      /\ [row EXCEPT !.approved = TRUE].held = row.held
      /\ [row EXCEPT !.approved = TRUE].approved
  BY <1>2 DEF Row
<1>9. /\ rows'[id] \in Row /\ \A i \in Ids \ {id} : rows'[i] = rows[i]
      /\ rows'[id].finished = rows[id].finished /\ rows'[id].held = rows[id].held
      /\ rows[id].approved => rows'[id].approved
      /\ go # "no" => rows'[id].approved
      /\ rows' \in [Ids -> Row \cup {None, Gone}]
  BY <1>1, <1>2, <1>8 DEF LoopInv, LoopTypeOK
<1> QED BY <1>1, <1>2, <1>5, <1>7, <1>9

LEMMA ContinueKeeps ==
  ASSUME LoopInv, NEW x \in Sessions, NEW id \in Ids, NEW go \in {"no", "ask", "full"},
         NEW held \in BOOLEAN, Continue(x, id, go, held)
  PROVE  LoopInv'
<1>1. /\ checklist' = [checklist EXCEPT ![x] = rows[id].items] /\ granted' = granted
      /\ cards' = [cards EXCEPT ![id] = None]
      /\ \/ /\ approved' = approved \cup {x}
            /\ uninterrupted' = uninterrupted \cup (IF go = "full" THEN {x} ELSE {})
         \/ NoGo(x)
      /\ planId' = [planId EXCEPT ![x] = id]
  BY DEF Continue
<1>2. PICK kept \in Carried(rows[id].turns) \cup {rows[id].turns} :
        reply' = [reply EXCEPT ![x] =
                    Start(kept, rows[id].held, held /\ rows[id].held # None)]
  BY DEF Continue
<1>3. rows[id] \in Row /\ rows[id].items \in Nat /\ rows[id].turns \in Turns
      /\ rows[id].held \in Calls \cup {None}
  BY ContinueIs DEF Row
<1> DEFINE once == held /\ rows[id].held # None
           new == Start(kept, rows[id].held, once)
<1>4. kept \in Turns /\ once \in BOOLEAN
  BY <1>2, <1>3, TurnTypes
<1> HIDE DEF once
<1>5. new \in Reply /\ Pace(new)
  BY <1>3, <1>4, StartType
<1>6. reply' = [reply EXCEPT ![x] = new]
  BY <1>2 DEF once
<1> HIDE DEF new
<1>7. reply' \in [Sessions -> Reply \cup {None}] /\ reply'[x] = new
      /\ \A y \in Sessions \ {x} : reply'[y] = reply[y]
  BY <1>5, <1>6 DEF LoopInv, LoopTypeOK
<1>8. LoopTypeOK'
  <2>1. approved' \subseteq Sessions /\ uninterrupted' \subseteq approved'
    BY <1>1 DEF NoGo, LoopInv, LoopTypeOK
  <2>2. checklist' \in [Sessions -> Nat] /\ planId' \in [Sessions -> Ids \cup {None}]
    BY <1>1, <1>3 DEF LoopInv, LoopTypeOK
  <2>3. granted' \subseteq Sessions \X Calls /\ cards' \in [Ids -> Calls \cup {None}]
    BY <1>1 DEF LoopInv, LoopTypeOK
  <2>4. rows' \in [Ids -> Row \cup {None, Gone}]
    BY ContinueIs
  <2> QED BY <1>7, <2>1, <2>2, <2>3, <2>4 DEF LoopTypeOK
<1>9. PaceInv'
  BY <1>5, <1>7 DEF LoopInv, PaceInv, Pace
<1>10. PlacesInv'
  <2>1. Waiting' \subseteq Waiting
    BY <1>7, ContinueIs DEF Waiting
  <2>2. Unused \subseteq Unused'
    BY ContinueIs, Names DEF Unused
  <2>3. \A y \in Sessions : planId'[y] # None => rows'[planId'[y]] # None
    BY ContinueIs, Names DEF LoopInv, PlacesInv, LoopTypeOK
  <2> QED BY <2>1, <2>2, <2>3, PlacesKept
<1> QED BY <1>8, <1>9, <1>10 DEF LoopInv

LEMMA DeleteKeeps ==
  ASSUME LoopInv, NEW id \in Ids, Delete(id)
  PROVE  LoopInv'
<1>1. /\ rows' = [rows EXCEPT ![id] = Gone] /\ cards' = [cards EXCEPT ![id] = None]
      /\ rows[id] \notin {None, Gone}
      /\ UNCHANGED <<approved, uninterrupted, checklist, planId, granted, reply>>
  BY DEF Delete, session
<1>2. Waiting' = Waiting /\ Unused \subseteq Unused'
  BY <1>1 DEF Waiting, Unused, LoopInv, LoopTypeOK
<1>3. \A y \in Sessions : planId'[y] # None => rows'[planId'[y]] # None
  BY <1>1, Names DEF LoopInv, PlacesInv, LoopTypeOK
<1>4. PlacesInv'
  BY <1>2, <1>3, PlacesKept
<1> QED BY <1>1, <1>4, Over DEF LoopInv, LoopTypeOK

LEMMA RestartKeeps ==
  ASSUME LoopInv, Restart
  PROVE  LoopInv'
<1>1. Waiting' = {} /\ Unused' = Unused
  BY DEF Restart, Waiting, Unused
<1>2. PlacesInv'
  BY <1>1, PlacesKept DEF Restart
<1> QED BY <1>2, Over DEF Restart, LoopInv, LoopTypeOK

LEMMA InitIsInv == Init => LoopInv
<1> SUFFICES ASSUME Init PROVE LoopInv
  OBVIOUS
<1>1. LoopTypeOK
  BY DEF Init, LoopTypeOK
<1>2. Waiting = {} /\ IsFiniteSet(Unused)
  BY FS_Subset, LoopAssumption DEF Init, Waiting, Unused
<1>3. Cardinality(Waiting) = 0 /\ Cardinality(Unused) \in Nat
  BY <1>2, FS_EmptySet, FS_CardinalityType
<1>4. PlacesInv
  BY <1>3 DEF Init, PlacesInv
<1>5. PaceInv
  BY DEF Init, PaceInv
<1> QED BY <1>1, <1>4, <1>5 DEF LoopInv

LEMMA NextKeeps == LoopInv /\ [Next]_vars => LoopInv'
<1> SUFFICES ASSUME LoopInv, [Next]_vars PROVE LoopInv'
  OBVIOUS
<1>1. CASE UNCHANGED vars
  BY <1>1 DEF vars, session, LoopInv, LoopTypeOK, PlacesInv, PaceInv, Pace, Waiting, Unused
<1>2. ASSUME NEW x \in Sessions, Question(x) PROVE LoopInv'
  BY <1>2, QuestionKeeps
<1>3. ASSUME NEW x \in Sessions, Abort(x) PROVE LoopInv'
  BY <1>3, RefusesKeeps DEF Abort, Ends, session, Replying
<1>4. ASSUME NEW x \in Sessions, NEW c \in MayAllow, Allow(x, c) PROVE LoopInv'
  <2>1. PlacesInv'
    BY <1>4 DEF Allow, session, LoopInv, PlacesInv, Waiting, Unused
  <2> QED BY <1>4, <2>1, LoopAssumption DEF Allow, session, LoopInv, LoopTypeOK, PaceInv, Pace
<1>5. ASSUME NEW x \in Sessions, NEW id \in Ids, NEW go \in {"no", "ask", "full"},
             NEW held \in BOOLEAN, Continue(x, id, go, held)
      PROVE  LoopInv'
  BY <1>5, ContinueKeeps
<1>6. ASSUME NEW id \in Ids, Delete(id) PROVE LoopInv'
  BY <1>6, DeleteKeeps
<1>7. CASE Restart
  BY <1>7, RestartKeeps
<1>8. ASSUME NEW x \in Sessions, Lap(x) PROVE LoopInv'
  <2>1. ASSUME NEW c \in Calls \cup Plans, PausesForGo(x, c) PROVE LoopInv'
    BY <2>1, CloseKeeps DEF PausesForGo, Wants, Replying
  <2>2. ASSUME NEW c \in Calls \cup Plans, Resend(x, c) PROVE LoopInv'
    BY <2>2, ResendKeeps DEF Resend, Wants, Replying
  <2>3. ASSUME NEW c \in Calls \cup Plans, Stalls(x, c) PROVE LoopInv'
    BY <2>3, CloseKeeps DEF Stalls, Wants, Replying
  <2>4. ASSUME NEW c \in Calls \cup Plans, Refuses(x, c) PROVE LoopInv'
    BY <2>4, RefusesKeeps DEF Refuses, Reaches, Wants, Replying, session
  <2>5. ASSUME NEW c \in Calls \cup Plans, Holds(x, c) PROVE LoopInv'
    BY <2>5, HoldsKeeps DEF Holds, Reaches, Wants, Replying
  <2>6. ASSUME NEW c \in Calls \cup Plans, NEW ok \in BOOLEAN, NEW heavy \in BOOLEAN,
               Runs(x, c, ok, heavy)
        PROVE  LoopInv'
    BY <2>6, RunsKeeps DEF Runs, Reaches, Wants, Replying
  <2>7. CASE HandsOver(x)
    BY <2>7, HandsOverKeeps DEF HandsOver, Replying
  <2>8. CASE RunsOut(x)
    BY <2>8, CloseKeeps DEF RunsOut, Replying
  <2>9. CASE CheckFails(x)
    BY <2>9, CheckFailsKeeps DEF CheckFails, Replying
  <2>10. CASE Done(x)
    BY <2>10, DoneKeeps DEF Done, Replying
  <2> QED BY <1>8, <2>1, <2>2, <2>3, <2>4, <2>5, <2>6, <2>7, <2>8, <2>9, <2>10 DEF Lap
<1> QED BY <1>1, <1>2, <1>3, <1>4, <1>5, <1>6, <1>7, <1>8 DEF Next, Person

-----------------------------------------------------------------------------
(* Every state of the loop is of the types, each session that will write a  *)
(* task down has a place for it, and replies keep pace (ToolLoop).          *)
THEOREM LoopHolds == Spec => []LoopInv
BY InitIsInv, NextKeeps, PTL DEF Spec

(* The types of the loop's state hold in every state it reaches.            *)
THEOREM LoopTypes == Spec => []LoopTypeOK
BY LoopHolds, PTL DEF LoopInv

(* However many handoffs there are, a reply makes no more calls than        *)
(* MAX_AUTO_CONTINUATIONS + 1 windows of MAX_TOOL_ROUNDS allow.             *)
THEOREM WorkHasAnEnd == Spec => []WorkIsBounded
<1>1. LoopInv => WorkIsBounded
  <2> SUFFICES ASSUME LoopInv, NEW x \in Sessions, reply[x] # None
               PROVE  reply[x].made <= AllMade
    BY DEF WorkIsBounded
  <2> DEFINE r == reply[x]
  <2>1. r \in Reply /\ Pace(r)
    BY ReplyType DEF Replying
  <2>2. /\ r.rounds \in Nat /\ r.rounds <= MAX_TOOL_ROUNDS /\ r.made \in Nat
        /\ r.left \in Nat /\ r.left <= MAX_AUTO_CONTINUATIONS
        /\ r.made <= (MAX_AUTO_CONTINUATIONS - r.left) * MAX_TOOL_ROUNDS + r.rounds
    BY <2>1, Bounds DEF Pace, Reply
  <2>3. (MAX_AUTO_CONTINUATIONS - r.left) * MAX_TOOL_ROUNDS
          <= MAX_AUTO_CONTINUATIONS * MAX_TOOL_ROUNDS
    BY <2>2, Bounds
  <2>4. (MAX_AUTO_CONTINUATIONS - r.left) * MAX_TOOL_ROUNDS \in Int
    BY <2>2, Bounds
  <2>5. MAX_AUTO_CONTINUATIONS * MAX_TOOL_ROUNDS \in Int
    BY Bounds
  <2> QED BY <2>2, <2>3, <2>4, <2>5, Bounds
<1> QED BY <1>1, LoopHolds, PTL

-----------------------------------------------------------------------------
(* Removals and sends. *)

(* A call that has just been made of a reply was run by that reply's lap.   *)
LEMMA WhatRan ==
  ASSUME LoopInv, [Next]_vars, NEW x \in Sessions, NEW c \in Calls, RanNow(x, c)
  PROVE  \E ok, heavy \in BOOLEAN : Runs(x, c, ok, heavy)
<1> DEFINE r == reply[x]
           Same == reply'[x] = r \/ reply'[x] = None \/ reply'[x].made = r.made
<1>1. /\ r \in Reply /\ r # None /\ reply'[x] # None /\ reply'[x].made > r.made
      /\ c \in reply'[x].turns.known \ r.turns.known
      /\ reply \in [Sessions -> Reply \cup {None}]
  BY DEF RanNow, LoopInv, LoopTypeOK
<1>2. r.made \in Nat /\ ~Same
  BY <1>1 DEF Reply
<1>3. CASE UNCHANGED vars
  BY <1>2, <1>3 DEF vars
<1>4. ASSUME NEW y \in Sessions, Question(y) PROVE Same
  BY <1>1, <1>4 DEF Question
<1>5. ASSUME NEW y \in Sessions, Ends(y) PROVE Same
  BY <1>1, <1>5 DEF Ends
<1>6. ASSUME NEW y \in Sessions, NEW d \in MayAllow, Allow(y, d) PROVE Same
  BY <1>6 DEF Allow
<1>7. ASSUME NEW y \in Sessions, NEW id \in Ids, NEW go \in {"no", "ask", "full"},
             NEW held \in BOOLEAN, Continue(y, id, go, held)
      PROVE  Same
  BY <1>1, <1>7, ContinueIs
<1>8. ASSUME NEW id \in Ids, Delete(id) PROVE Same
  BY <1>8 DEF Delete
<1>9. CASE Restart
  BY <1>1, <1>9 DEF Restart
<1>10. ASSUME NEW y \in Sessions, NEW d \in Calls \cup Plans, Resend(y, d) PROVE Same
  BY <1>1, <1>10 DEF Resend, Reply
<1>11. ASSUME NEW y \in Sessions, HandsOver(y) PROVE Same
  <2>1. PICK kept \in Carried(reply[y].turns) :
          reply' = [reply EXCEPT ![y] = HandedOver(reply[y], kept)]
    BY <1>11 DEF HandsOver
  <2> QED BY <1>1, <2>1 DEF HandedOver, Reply
<1>12. ASSUME NEW y \in Sessions, CheckFails(y) PROVE Same
  BY <1>1, <1>12 DEF CheckFails, Reply
<1>13. ASSUME NEW y \in Sessions, NEW d \in Calls \cup Plans,
              NEW ok \in BOOLEAN, NEW heavy \in BOOLEAN, Runs(y, d, ok, heavy)
       PROVE  y = x /\ d = c
  <2> DEFINE full == heavy \/ reply[y].rounds + 1 >= MAX_TOOL_ROUNDS
             new == [reply[y] EXCEPT !.turns = Turn(reply[y].turns, d),
                                     !.rounds = reply[y].rounds + 1, !.made = Made(reply[y]),
                                     !.first = None, !.once = FALSE, !.full = full]
  <2>1. reply' = [reply EXCEPT ![y] = new]
    BY <1>13 DEF Runs
  <2>2. y = x
    <3> HIDE DEF new
    <3> QED BY <1>1, <1>2, <2>1
  <2>3. new.turns = Turn(r.turns, d)
    <3> HIDE DEF full
    <3> QED BY <1>1, <2>2 DEF Reply
  <2>4. c \in Turn(r.turns, d).known \ r.turns.known
    <3> HIDE DEF new
    <3> QED BY <1>1, <2>1, <2>2, <2>3
  <2> QED BY <2>2, <2>4 DEF Turn
<1>14. CASE Person
  <2>1. ASSUME NEW y \in Sessions, Abort(y) PROVE Same
    BY <1>5, <2>1 DEF Abort, Ends
  <2> QED BY <1>2, <1>4, <1>6, <1>7, <1>8, <1>9, <1>14, <2>1 DEF Person
<1>15. ASSUME NEW y \in Sessions, Lap(y)
       PROVE  \E ok, heavy \in BOOLEAN : Runs(x, c, ok, heavy)
  <2>1. PICK d \in Calls \cup Plans, ok \in BOOLEAN, heavy \in BOOLEAN :
          \/ Ends(y) \/ Resend(y, d) \/ Runs(y, d, ok, heavy)
          \/ HandsOver(y) \/ CheckFails(y)
    BY <1>15, LoopAssumption
       DEF Lap, PausesForGo, Stalls, Refuses, Holds, RunsOut, Done, Close
  <2>2. Runs(y, d, ok, heavy)
    BY <1>2, <1>5, <1>10, <1>11, <1>12, <2>1
  <2> QED BY <1>13, <2>2
<1> QED BY <1>3, <1>14, <1>15 DEF Next

(* Whatever plan was let run without stopping, whatever was allowed before, *)
(* and in whatever order tasks are continued and Go pressed: a call that a  *)
(* name or an argument says removes or sends is run on a press of it.       *)
THEOREM RemovalsAndSendsHold == Spec => RemovalsAndSendsArePressed
<1>1. LoopInv /\ [Next]_vars =>
        [\A x \in Sessions, c \in Calls :
           RanNow(x, c) /\ ~Reads(Trait[c])
             /\ ("delete" \in Trait[c].words \/ LooksOutbound(Trait[c])
                   \/ Trait[c].subject = "removal")
           => Pressed(x, c)]_vars
  <2> SUFFICES ASSUME LoopInv, [Next]_vars, NEW x \in Sessions, NEW c \in Calls,
                      RanNow(x, c), ~Reads(Trait[c]),
                      \/ "delete" \in Trait[c].words \/ LooksOutbound(Trait[c])
                      \/ Trait[c].subject = "removal"
               PROVE  Pressed(x, c)
    OBVIOUS
  <2> DEFINE t == Trait[c]
             g == <<x, c>> \in granted
             p == Confirmed(x, c)
  <2>1. t \in Call /\ Coherent(t) /\ Writes[c] \in Mode /\ c \notin Plans
    BY LoopAssumption, Names
  <2>2. Gate(t, Writes[c], g, p) = "allow"
    BY <2>1, WhatRan DEF Runs, Reaches, Verdicts
  <2>3. ~p => Floor(t) # "confirm" /\ Decide(t, Writes[c], g) # "confirm"
    BY <2>2 DEF Gate
  <2>4. Decide(t, Writes[c], g) # "refuse"
    BY <2>2 DEF Gate
  <2>5. Decide(t, Writes[c], g) \in {"allow", "confirm", "refuse"}
    BY DEF Decide
  <2>6. p
    <3>1. CASE t.subject = "removal"
      BY <2>3, <3>1 DEF Floor
    <3>2. CASE "delete" \in t.words \/ LooksOutbound(t)
      <4> HIDE DEF p
      <4>1. g \in BOOLEAN
        OBVIOUS
      <4> HIDE DEF g
      <4>2. Decide(t, Writes[c], g) # "allow"
        BY <2>1, <3>2, <4>1, GrantsDoNotSettle
      <4> QED BY <2>3, <2>4, <2>5, <4>2
    <3> QED BY <3>1, <3>2
  <2>7. ~CoveredByRun(t)
    BY DEF CoveredByRun, PlanMayCover, Unplaced
  <2> QED BY <2>6, <2>7 DEF Confirmed
<1> QED BY <1>1, LoopHolds, PTL DEF Spec, RemovalsAndSendsArePressed

-----------------------------------------------------------------------------
(* Tasks that one conversation at a time is on. *)

Unshared ==
  \A x, y \in Sessions : planId[x] # None /\ planId[x] = planId[y] => x = y

(* The task as a reply leaves it when it stops. *)
LEMMA Parked ==
  ASSUME LoopInv, Unshared, NEW x \in Replying, NEW turns \in Turns,
         NEW held \in Calls \cup {None}, Park(x, turns, held), Ends(x)
  PROVE  /\ planId'[x] = TaskOf(x) /\ TaskOf(x) \in Ids /\ rows'[TaskOf(x)] \in Row
         /\ rows'[TaskOf(x)].approved = (x \in approved)
         /\ rows'[TaskOf(x)].held = held /\ ~rows'[TaskOf(x)].finished
         /\ \A i \in Ids \ {TaskOf(x)} : rows'[i] = rows[i]
         /\ \A y \in Sessions \ {x} : /\ planId'[y] = planId[y]
                                      /\ planId[y] # None => planId[y] # TaskOf(x)
<1>1. x \in Sessions /\ planId'[x] = TaskOf(x)
  BY ReplyType DEF Park, LoopInv, LoopTypeOK
<1>2. /\ TaskOf(x) \in Ids /\ rows'[TaskOf(x)] = Task(x, turns, held)
      /\ \A y \in Sessions \ {x} : planId'[y] = planId[y]
      /\ \A i \in Ids \ {TaskOf(x)} : rows'[i] = rows[i]
  BY <1>1, ParkType
<1>3. Task(x, turns, held) \in Row
  BY <1>1, TaskType DEF LoopInv
<1>4. \A y \in Sessions \ {x} : planId[y] # None => planId[y] # TaskOf(x)
  BY <1>1, TaskIsThere DEF Unshared, LoopInv, PlacesInv
<1> QED BY <1>1, <1>2, <1>3, <1>4 DEF Task

(* What Done leaves. *)
LEMMA DoneIs ==
  ASSUME LoopInv, Unshared, NEW x \in Replying, Done(x)
  PROVE  /\ planId'[x] = None /\ approved' = approved \ {x} /\ Ends(x)
         /\ \A y \in Sessions \ {x} : /\ planId'[y] = planId[y]
                                      /\ planId[y] # None => planId[y] # TaskOf(x)
         /\ \A i \in Ids \ {TaskOf(x)} : rows'[i] = rows[i]
         /\ cards' = IF planId[x] = None THEN cards ELSE [cards EXCEPT ![planId[x]] = None]
<1>1. /\ Ends(x) /\ approved' = approved \ {x}
      /\ planId' = [planId EXCEPT ![x] = None]
      /\ cards' = IF planId[x] = None THEN cards ELSE [cards EXCEPT ![planId[x]] = None]
      /\ \/ rows' = [rows EXCEPT ![TaskOf(x)] = [Task(x, NoTurns, None) EXCEPT !.finished = TRUE]]
         \/ planId[x] # None /\ rows' = [rows EXCEPT ![planId[x]] = Gone]
         \/ rows' = rows
  BY DEF Done, Finish, NoGo
<1>2. x \in Sessions /\ TaskOf(x) \in Ids /\ (planId[x] # None => TaskOf(x) = planId[x])
  BY TaskIsThere, ReplyType
<1>3. \A i \in Ids \ {TaskOf(x)} : rows'[i] = rows[i]
  BY <1>1, <1>2 DEF LoopInv, LoopTypeOK
<1>4. \A y \in Sessions \ {x} : planId[y] # None => planId[y] # TaskOf(x)
  BY <1>2, TaskIsThere DEF Unshared, LoopInv, PlacesInv
<1> QED BY <1>1, <1>2, <1>3, <1>4 DEF LoopInv, LoopTypeOK

(* A step of a reply, as far as tasks and Go see it.                        *)
LEMMA LapIs ==
  ASSUME LoopInv, NEW x \in Sessions, Lap(x)
  PROVE  /\ x \in Replying
         /\ \/ /\ \A y \in Sessions : reply[y] = None => reply'[y] = None
               /\ UNCHANGED <<approved, planId, rows, cards>>
            \/ /\ Ends(x) /\ UNCHANGED <<approved, planId, rows, cards>>
            \/ /\ Close(x)
            \/ /\ \E c \in Calls : Holds(x, c)
            \/ /\ Done(x)
<1> DEFINE Goal == \/ /\ \A y \in Sessions : reply[y] = None => reply'[y] = None
                      /\ UNCHANGED <<approved, planId, rows, cards>>
                   \/ /\ Ends(x) /\ UNCHANGED <<approved, planId, rows, cards>>
                   \/ /\ Close(x)
                   \/ /\ \E c \in Calls : Holds(x, c)
                   \/ /\ Done(x)
<1>1. x \in Replying
  BY DEF Lap, PausesForGo, Resend, Stalls, Refuses, Holds, Runs, Reaches, Wants, HandsOver,
         RunsOut, CheckFails, Done, Replying
<1>2. /\ reply \in [Sessions -> Reply \cup {None}] /\ reply[x] # None
  BY <1>1 DEF LoopInv, LoopTypeOK, Replying
<1>3. ASSUME \A y \in Sessions \ {x} : reply'[y] = reply[y],
             UNCHANGED <<approved, planId, rows, cards>>
      PROVE  Goal
  BY <1>2, <1>3
<1> SUFFICES Goal
  BY <1>1
<1>4. ASSUME NEW c \in Calls \cup Plans, PausesForGo(x, c) \/ Stalls(x, c) PROVE Goal
  BY <1>4 DEF PausesForGo, Stalls
<1>5. ASSUME NEW c \in Calls \cup Plans, Resend(x, c) PROVE Goal
  BY <1>2, <1>3, <1>5 DEF Resend, session
<1>6. ASSUME NEW c \in Calls \cup Plans, Refuses(x, c) PROVE Goal
  BY <1>6 DEF Refuses, session
<1>7. ASSUME NEW c \in Calls \cup Plans, Holds(x, c) PROVE Goal
  BY <1>7 DEF Holds, Reaches, Verdicts
<1>8. ASSUME NEW c \in Calls \cup Plans, NEW ok \in BOOLEAN, NEW heavy \in BOOLEAN,
             Runs(x, c, ok, heavy)
      PROVE  Goal
  BY <1>2, <1>3, <1>8 DEF Runs
<1>9. CASE HandsOver(x)
  BY <1>2, <1>3, <1>9 DEF HandsOver, session
<1>10. CASE RunsOut(x)
  BY <1>10 DEF RunsOut
<1>11. CASE CheckFails(x)
  BY <1>2, <1>3, <1>11 DEF CheckFails, session
<1>12. CASE Done(x)
  BY <1>12
<1> QED BY <1>4, <1>5, <1>6, <1>7, <1>8, <1>9, <1>10, <1>11, <1>12 DEF Lap

(* Go is for the task it was pressed on, as a fact of one conversation.     *)
GoOf(x) ==
  planId[x] # None /\ rows[planId[x]] # None
    /\ (rows[planId[x]] # Gone => rows[planId[x]].approved)

LEMMA GoOfTaskKept ==
  ASSUME LoopInv, Unshared, GoIsForThisTask, [Next]_vars
  PROVE  GoIsForThisTask'
<1>1. /\ \A x \in approved : x \in Sessions /\ GoOf(x) /\ planId[x] \in Ids
      /\ (GoIsForThisTask' <=> \A x \in approved' : GoOf(x)')
  BY DEF LoopInv, LoopTypeOK, GoIsForThisTask, GoOf
<1> SUFFICES ASSUME NEW z \in approved' PROVE GoOf(z)'
  BY <1>1
<1>2. ASSUME z \in approved, planId'[z] = planId[z], rows'[planId[z]] = rows[planId[z]]
      PROVE  GoOf(z)'
  BY <1>1, <1>2 DEF GoOf
<1>3. CASE UNCHANGED vars
  BY <1>2, <1>3 DEF vars, session
<1>4. ASSUME NEW x \in Sessions, Question(x) PROVE GoOf(z)'
  <2>1. /\ approved' = approved \ {x} /\ rows' = rows /\ planId' = [planId EXCEPT ![x] = None]
    BY <1>4 DEF Question, NoGo, ForgetTask
  <2>2. z \in approved /\ planId'[z] = planId[z]
    BY <1>1, <2>1 DEF LoopInv, LoopTypeOK
  <2> QED BY <1>2, <2>1, <2>2
<1>5. ASSUME NEW x \in Sessions, Abort(x) \/ \E c \in MayAllow : Allow(x, c) PROVE GoOf(z)'
  BY <1>2, <1>5 DEF Abort, Allow, session
<1>6. ASSUME NEW x \in Sessions, NEW id \in Ids, NEW go \in {"no", "ask", "full"},
             NEW held \in BOOLEAN, Continue(x, id, go, held)
      PROVE  GoOf(z)'
  <2>1. /\ planId'[x] = id /\ id # None /\ rows'[id] \in Row
        /\ \A y \in Sessions \ {x} : planId'[y] = planId[y]
        /\ rows[id].approved => rows'[id].approved
        /\ go # "no" => rows'[id].approved
        /\ \A i \in Ids \ {id} : rows'[i] = rows[i]
    BY <1>6, ContinueIs
  <2>2. CASE z = x
    <3>1. GoIsOn(id, go)
      BY <1>6, <2>2 DEF Continue, NoGo
    <3>2. rows'[id].approved
      BY <2>1, <3>1 DEF GoIsOn
    <3> QED BY <2>1, <2>2, <3>2, Names DEF GoOf
  <2>3. CASE z # x
    <3>1. z \in approved
      BY <1>6, <2>3 DEF Continue, NoGo
    <3>2. planId'[z] = planId[z]
      BY <1>1, <2>1, <2>3, <3>1
    <3>3. CASE planId[z] # id
      BY <1>1, <1>2, <2>1, <3>1, <3>2, <3>3
    <3>4. CASE planId[z] = id
      <4>1. rows[id] # Gone
        BY <1>6 DEF Continue
      <4>2. rows'[id].approved
        BY <1>1, <2>1, <3>1, <3>4, <4>1 DEF GoOf
      <4> QED BY <2>1, <3>2, <3>4, <4>2, Names DEF GoOf
    <3> QED BY <3>3, <3>4
  <2> QED BY <2>2, <2>3
<1>7. ASSUME NEW id \in Ids, Delete(id) PROVE GoOf(z)'
  <2>1. rows' = [rows EXCEPT ![id] = Gone] /\ approved' = approved /\ planId' = planId
    BY <1>7 DEF Delete, session
  <2> QED BY <1>1, <2>1, Names DEF GoOf, LoopInv, LoopTypeOK
<1>8. CASE Restart
  BY <1>8 DEF Restart
<1>9. ASSUME NEW x \in Replying, NEW turns \in Turns, NEW held \in Calls \cup {None},
             Park(x, turns, held), Ends(x), approved' = approved
      PROVE  GoOf(z)'
  <2> DEFINE id == TaskOf(x)
  <2>1. /\ planId'[x] = id /\ id \in Ids /\ rows'[id] \in Row
        /\ rows'[id].approved = (x \in approved)
        /\ \A i \in Ids \ {id} : rows'[i] = rows[i]
        /\ \A y \in Sessions \ {x} : /\ planId'[y] = planId[y]
                                     /\ planId[y] # None => planId[y] # id
    BY <1>9, Parked
  <2> HIDE DEF id
  <2>2. z \in approved /\ z \in Sessions /\ planId[z] # None /\ planId[z] \in Ids
    BY <1>1, <1>9 DEF GoOf
  <2>3. CASE z = x
    <3>1. rows'[id].approved
      BY <2>1, <2>2, <2>3
    <3>2. planId'[z] = id /\ id # None /\ rows'[id] # None
      BY <2>1, <2>3, Names
    <3> QED BY <3>1, <3>2 DEF GoOf
  <2>4. CASE z # x
    <3>1. planId'[z] = planId[z] /\ rows'[planId[z]] = rows[planId[z]]
      BY <2>1, <2>2, <2>4
    <3> QED BY <1>2, <2>2, <3>1
  <2> QED BY <2>3, <2>4
<1>10. ASSUME NEW x \in Sessions, Lap(x) PROVE GoOf(z)'
  <2>1. x \in Replying /\ reply[x].turns \in Turns
    BY <1>10, LapIs, ReplyType
  <2>2. CASE UNCHANGED <<approved, planId, rows>>
    BY <1>2, <2>2
  <2>3. CASE Close(x)
    BY <1>2, <1>9, <2>1, <2>3 DEF Close, ParkFails
  <2>4. ASSUME NEW c \in Calls, Holds(x, c) PROVE GoOf(z)'
    BY <1>2, <1>9, <2>1, <2>4 DEF Holds, ParkFails
  <2>5. CASE Done(x)
    <3>1. /\ approved' = approved \ {x}
          /\ \A y \in Sessions \ {x} : /\ planId'[y] = planId[y]
                                       /\ planId[y] # None => planId[y] # TaskOf(x)
          /\ \A i \in Ids \ {TaskOf(x)} : rows'[i] = rows[i]
      BY <2>1, <2>5, DoneIs
    <3>2. z \in approved /\ z \in Sessions \ {x} /\ planId[z] # None /\ planId[z] \in Ids
      BY <1>1, <3>1 DEF GoOf
    <3> QED BY <1>2, <3>1, <3>2
  <2> QED BY <1>10, <2>2, <2>3, <2>4, <2>5, LapIs
<1> QED BY <1>3, <1>4, <1>5, <1>6, <1>7, <1>8, <1>10 DEF Next, Person

(* "Go was for the last one": as long as no two conversations are on one    *)
(* task, what a conversation runs on is the Go written on its own task.     *)
THEOREM GoIsItsOwn == Spec /\ []Unshared => []GoIsForThisTask
<1>1. Init => GoIsForThisTask
  BY DEF Init, GoIsForThisTask
<1>2. LoopInv /\ Unshared /\ GoIsForThisTask /\ [Next]_vars => GoIsForThisTask'
  BY GoOfTaskKept
<1> QED BY <1>1, <1>2, LoopHolds, PTL DEF Spec

-----------------------------------------------------------------------------
(* A card on a task shows what the task holds, and no reply is being made   *)
(* on that task.                                                            *)
CardIs(id) ==
  /\ rows[id] \notin {None, Gone} /\ rows[id].held = cards[id] /\ ~rows[id].finished
  /\ \A x \in Sessions : planId[x] = id => reply[x] = None
CardInv == \A id \in Ids : cards[id] # None => CardIs(id)

LEMMA CardKept ==
  ASSUME LoopInv, Unshared, CardInv, ~SavesFail, [Next]_vars
  PROVE  CardInv'
<1> SUFFICES ASSUME NEW id \in Ids, cards'[id] # None PROVE CardIs(id)'
  BY DEF CardInv
<1>1. /\ cards \in [Ids -> Calls \cup {None}]
      /\ cards[id] # None => CardIs(id)
  BY DEF CardInv, LoopInv, LoopTypeOK
<1>2. ASSUME cards'[id] = cards[id], rows'[id] = rows[id],
             \A x \in Sessions : planId'[x] = id => planId[x] = id /\ (reply[x] = None => reply'[x] = None)
      PROVE  CardIs(id)'
  BY <1>1, <1>2 DEF CardIs
<1>3. CASE UNCHANGED vars
  BY <1>2, <1>3 DEF vars, session
<1>4. ASSUME NEW x \in Sessions, Question(x) PROVE CardIs(id)'
  <2>1. /\ rows' = rows /\ cards' = cards /\ planId' = [planId EXCEPT ![x] = None]
        /\ \A y \in Sessions \ {x} : reply'[y] = reply[y]
    BY <1>4 DEF Question, ForgetTask, LoopInv, LoopTypeOK
  <2>2. \A y \in Sessions : planId'[y] = id => y # x /\ planId[y] = id
    BY <2>1, Names DEF LoopInv, LoopTypeOK
  <2> QED BY <1>2, <2>1, <2>2
<1>5. ASSUME NEW x \in Sessions, Abort(x) PROVE CardIs(id)'
  BY <1>2, <1>5 DEF Abort, session, LoopInv, LoopTypeOK
<1>6. ASSUME NEW x \in Sessions, NEW c \in MayAllow, Allow(x, c) PROVE CardIs(id)'
  BY <1>2, <1>6 DEF Allow, session
<1>7. ASSUME NEW x \in Sessions, NEW i \in Ids, NEW go \in {"no", "ask", "full"},
             NEW held \in BOOLEAN, Continue(x, i, go, held)
      PROVE  CardIs(id)'
  <2>1. cards' = [cards EXCEPT ![i] = None] /\ id # i
    BY <1>1, <1>7 DEF Continue
  <2> QED BY <1>1, <1>2, <1>7, <2>1, ContinueIs
<1>8. ASSUME NEW i \in Ids, Delete(i) PROVE CardIs(id)'
  <2>1. /\ cards' = [cards EXCEPT ![i] = None] /\ rows' = [rows EXCEPT ![i] = Gone]
        /\ reply' = reply /\ planId' = planId
    BY <1>8 DEF Delete, session
  <2>2. id # i
    BY <1>1, <2>1
  <2> QED BY <1>1, <1>2, <2>1, <2>2 DEF LoopInv, LoopTypeOK
<1>9. CASE Restart
  BY <1>2, <1>9, Names DEF Restart
<1>10. ASSUME NEW x \in Replying PROVE cards[TaskOf(x)] = None /\ TaskOf(x) \in Ids
  <2>1. /\ TaskOf(x) \in Ids /\ x \in Sessions /\ reply[x] # None
        /\ (planId[x] # None => TaskOf(x) = planId[x])
        /\ (planId[x] = None => rows[TaskOf(x)] = None)
    BY TaskIsThere DEF Replying
  <2> QED BY <2>1 DEF CardInv, CardIs
<1>11. ASSUME NEW x \in Sessions, Close(x), x \in Replying PROVE CardIs(id)'
  <2>1. /\ Park(x, reply[x].turns, None) /\ Ends(x) /\ cards' = cards
    BY <1>11 DEF Close, ParkFails
  <2>2. id # TaskOf(x)
    BY <1>10, <1>11, <2>1
  <2>3. reply[x].turns \in Turns
    BY <1>11, ReplyType
  <2> QED BY <1>2, <1>11, <2>1, <2>2, <2>3, Parked, EndsType
<1>12. ASSUME NEW x \in Sessions, NEW c \in Calls, Holds(x, c), x \in Replying PROVE CardIs(id)'
  <2>1. /\ Park(x, reply[x].turns, c) /\ Ends(x)
        /\ cards' = IF planId'[x] = None THEN cards ELSE [cards EXCEPT ![planId'[x]] = c]
    BY <1>12 DEF Holds, ParkFails
  <2>2. reply[x].turns \in Turns
    BY <1>12, ReplyType
  <2>3. /\ planId'[x] = TaskOf(x) /\ TaskOf(x) \in Ids /\ rows'[TaskOf(x)] \in Row
        /\ rows'[TaskOf(x)].held = c /\ ~rows'[TaskOf(x)].finished
        /\ \A i \in Ids \ {TaskOf(x)} : rows'[i] = rows[i]
        /\ \A y \in Sessions \ {x} : /\ planId'[y] = planId[y]
                                     /\ planId[y] # None => planId[y] # TaskOf(x)
    BY <1>12, <2>1, <2>2, Parked
  <2>4. cards' = [cards EXCEPT ![TaskOf(x)] = c]
    BY <2>1, <2>3, Names
  <2>5. CASE id = TaskOf(x)
    <3>1. \A y \in Sessions : planId'[y] = id => reply'[y] = None
      BY <1>12, <2>1, <2>3, <2>5, EndsType, Names
    <3> QED BY <1>1, <2>3, <2>4, <2>5, <3>1, Names DEF CardIs
  <2>6. CASE id # TaskOf(x)
    BY <1>1, <1>2, <1>12, <2>1, <2>3, <2>4, <2>6, EndsType
  <2> QED BY <2>5, <2>6
<1>13. ASSUME NEW x \in Sessions, Done(x), x \in Replying PROVE CardIs(id)'
  <2>1. id # TaskOf(x) /\ cards'[id] = cards[id]
    BY <1>1, <1>10, <1>13, DoneIs
  <2> QED BY <1>2, <1>13, <2>1, DoneIs, EndsType, Names
<1>14. ASSUME NEW x \in Sessions, Lap(x) PROVE CardIs(id)'
  <2>1. x \in Replying
    BY <1>14, LapIs
  <2>2. CASE /\ \A y \in Sessions : reply[y] = None => reply'[y] = None
             /\ UNCHANGED <<planId, rows, cards>>
    BY <1>2, <2>2
  <2>3. CASE Ends(x) /\ UNCHANGED <<planId, rows, cards>>
    BY <1>2, <2>1, <2>3, EndsType
  <2> QED BY <1>11, <1>12, <1>13, <1>14, <2>1, <2>2, <2>3, LapIs
<1> QED BY <1>3, <1>4, <1>5, <1>6, <1>7, <1>8, <1>9, <1>14 DEF Next, Person

(* Where the store's writes succeed and no two conversations are on one     *)
(* task, the button on a card runs the call the card showed: the task still *)
(* holds it.                                                                *)
THEOREM CardsHold == ~SavesFail /\ Spec /\ []Unshared => []CardsKeepTheirCall
<1>1. Init => CardInv
  BY DEF Init, CardInv
<1>2. ~SavesFail /\ LoopInv /\ Unshared /\ CardInv /\ [Next]_vars => CardInv'
  BY CardKept
<1>3. CardInv => CardsKeepTheirCall
  BY DEF CardInv, CardIs, CardsKeepTheirCall
<1>4. CASE SavesFail
  BY <1>4, PTL
<1>5. CASE ~SavesFail
  <2>1. LoopInv /\ Unshared /\ CardInv /\ [Next]_vars => CardInv'
    BY <1>2, <1>5
  <2> QED BY <1>1, <1>3, <2>1, LoopHolds, PTL DEF Spec
<1> QED BY <1>4, <1>5
=============================================================================
