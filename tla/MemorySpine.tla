------------------------------ MODULE MemorySpine ------------------------------
(***************************************************************************)
(* The facts Zaram keeps: src/backend/runtimes/memory/runtime.py, the       *)
(* SQLite store (store.py), the index that is rebuilt from it at every      *)
(* start (index.py), what recall makes of the two (retrieval.py), the       *)
(* daily decay (decay.py), and the routes of main.py that call them.        *)
(*                                                                         *)
(* The routes run on one event loop and none of them awaits anything that   *)
(* suspends it, so each is one step, except that a correction writes twice  *)
(* and may stop between.  The repair of old embeddings awaits the embedder  *)
(* for every fact and everything else happens in between.                   *)
(***************************************************************************)
EXTENDS Naturals, FiniteSets

CONSTANTS
  MaxFact,      (* bound on the facts ever stored; they are dated by number  *)
  Projects,     (* the scopes that are not global                            *)
  Global,
  MostFound,    (* max_results of a recall                                   *)
  Events        (* among "halt", "embedder", "old": what goes wrong        *)

ASSUME SpineAssumption == MaxFact \in Nat \ {0} /\ MostFound \in Nat \ {0} /\ Global \notin Projects

VARIABLES
  stored,       (* the rows: fact -> [scope, pinned, by, corrects, successor] *)
  index,        (* _corpus: the facts that a search can find                 *)
  next,         (* the next fact's number                                    *)
  fixing,       (* the correction between its writes: [of, copy], or none    *)
  repair,       (* reembed_stale's list: the rows as it read them            *)
  told,         (* what the person last said: fact -> "stands", "corrected",
                   "forgotten", and the scope and pin they gave it           *)
  spoiled       (* the facts written over, left half corrected, or moved
                   after they were corrected                                 *)

spineVars == <<stored, index, next, fixing, repair, told, spoiled>>

Fact  == 1..MaxFact
Scope == Projects \cup {Global}
FactRow   == [scope : Scope, pinned : BOOLEAN, by : {"this", "other"},
          corrects : Fact \cup {0}, successor : Fact \cup {0}]

NoFix == [of |-> 0]
Nothing == [f \in {} |-> 0]
Stands(f) == f \in DOMAIN stored /\ stored[f].successor = 0
Standing == {f \in DOMAIN stored : Stands(f)}
Put(rows, f, row) == [g \in DOMAIN rows \cup {f} |-> IF g = f THEN row ELSE rows[g]]
Without(rows, fs) == [g \in DOMAIN rows \ fs |-> rows[g]]

(* Whatever runs on the loop waits for the correction that is being made.   *)
Idle == fixing = NoFix
Says(f, what) == told' = Put(told, f, what)
Said(f) == told[f]

-----------------------------------------------------------------------------
(* Routes.                                                                  *)

(* remember, store and store_record: the chat, an ingest, another client.   *)
Remember(scope) ==
  /\ Idle /\ next <= MaxFact
  /\ stored' = Put(stored, next, [scope |-> scope, pinned |-> FALSE, by |-> "this",
                                  corrects |-> 0, successor |-> 0])
  /\ index' = index \cup {next}
  /\ next' = next + 1
  /\ Says(next, [is |-> "stands", scope |-> scope, pinned |-> FALSE])
  /\ UNCHANGED <<fixing, repair, spoiled>>

(* Mutant of Replacement: the defaults of a new record, as before.          *)
ReplacementAnew(f) == [scope |-> Global, pinned |-> FALSE, by |-> "this",
                       corrects |-> f, successor |-> 0]
Replacement(f) == [stored[f] EXCEPT !.corrects = f, !.by = "this", !.successor = 0]

(* correct: the replacement first, and then the original struck through.    *)
Correct(f) ==
  /\ Idle /\ Stands(f) /\ next <= MaxFact
  /\ stored' = Put(stored, next, Replacement(f))
  /\ index' = index \cup {next}
  /\ fixing' = [of |-> f, copy |-> [stored[f] EXCEPT !.successor = next]]
  /\ next' = next + 1
  /\ told' = Put(Put(told, f, [told[f] EXCEPT !.is = "corrected"]), next, told[f])
  /\ spoiled' = IF f \in spoiled THEN spoiled \cup {next} ELSE spoiled
  /\ UNCHANGED <<repair>>

StrikeThrough ==
  /\ ~Idle
  /\ stored' = Put(stored, fixing.of, fixing.copy)
  /\ index' = index \ {fixing.of}
  /\ fixing' = NoFix
  /\ UNCHANGED <<next, repair, told, spoiled>>

(* The second write fails: the route answers an error.                      *)
StrikeFails ==
  /\ "halt" \in Events /\ ~Idle
  /\ fixing' = NoFix
  /\ spoiled' = spoiled \cup {fixing.of}
  /\ UNCHANGED <<stored, index, next, repair, told>>

SetPinned(f, pinned) ==
  /\ Idle /\ f \in DOMAIN stored
  /\ stored' = [stored EXCEPT ![f].pinned = pinned]
  /\ Says(f, [Said(f) EXCEPT !.pinned = pinned])
  /\ UNCHANGED <<index, next, fixing, repair, spoiled>>

(* set_scope adds what it moves to the index.                               *)
SetScope(f, scope) ==
  /\ Idle /\ f \in DOMAIN stored
  /\ Stands(f) \/ "old" \in Events
  /\ stored' = [stored EXCEPT ![f].scope = scope]
  /\ index' = index \cup {f}
  /\ Says(f, [Said(f) EXCEPT !.scope = scope])
  /\ spoiled' = IF Stands(f) THEN spoiled ELSE spoiled \cup {f}
  /\ UNCHANGED <<next, fixing, repair>>

Drop(fs) ==
  /\ stored' = Without(stored, fs)
  /\ index' = index \ fs
  /\ told' = [f \in DOMAIN told |-> IF f \in fs THEN [told[f] EXCEPT !.is = "forgotten"] ELSE told[f]]
  /\ UNCHANGED <<next, fixing, repair>>

Forget(f) ==
  /\ Idle /\ f \in DOMAIN stored
  /\ Drop({f}) /\ UNCHANGED spoiled

(* The wordings a fact had before, followed backwards while they are there. *)
Earlier(fs) ==
  LET back[n \in Nat] ==
        IF n = 0 THEN fs
        ELSE back[n - 1] \cup ({stored[f].corrects : f \in back[n - 1]} \cap DOMAIN stored)
  IN back[MaxFact]

(* Mutant of Purged: the earlier wordings stay.                             *)
PurgedInRange(fs) == fs
Purged(fs) == Earlier(fs)

(* purge, confirmed: by date, by scope, or both.                            *)
Purge(after, before, scopes) ==
  /\ Idle
  /\ LET asked == {f \in DOMAIN stored : after < f /\ f < before /\ stored[f].scope \in scopes} IN
     /\ asked # {}
     /\ Drop(Purged(asked))
  /\ UNCHANGED spoiled

PurgeAny ==
  \E after \in 0..MaxFact, before \in 1..(MaxFact + 1), scopes \in {Scope} \cup {{s} : s \in Scope} :
    Purge(after, before, scopes)

(* delete_project: its facts forgotten, struck-through ones too, or made    *)
(* global.                                                                  *)
ForgetScope(p) ==
  /\ Idle
  /\ Drop({f \in DOMAIN stored : stored[f].scope = p}) /\ UNCHANGED spoiled

RescopeToGlobal(p) ==
  /\ Idle
  /\ LET moved == {f \in Standing : stored[f].scope = p} IN
     /\ stored' = [f \in DOMAIN stored |-> IF f \in moved THEN [stored[f] EXCEPT !.scope = Global]
                                           ELSE stored[f]]
     /\ told' = [f \in DOMAIN told |-> IF f \in moved THEN [told[f] EXCEPT !.scope = Global] ELSE told[f]]
  /\ UNCHANGED <<index, next, fixing, repair, spoiled>>

-----------------------------------------------------------------------------
(* Nobody asked.                                                            *)

MayFade == {f \in Standing : ~stored[f].pinned}

(* apply_decay: those that have faded; the index is not told.               *)
Decay(faded) ==
  /\ Idle /\ faded # {} /\ faded \subseteq MayFade
  /\ stored' = Without(stored, faded)
  /\ UNCHANGED <<index, next, fixing, repair, told, spoiled>>

(* Mutant of Rebuilt: everything that is stored.                            *)
RebuiltWhole == DOMAIN stored
Rebuilt == Standing

(* The process ends and initialize rebuilds the index; under another        *)
(* embedder every vector is another's, and the repair reads what it will do. *)
Restart(otherEmbedder) ==
  /\ "halt" \in Events \/ Idle
  /\ otherEmbedder => "embedder" \in Events
  /\ LET rows == IF otherEmbedder THEN [f \in DOMAIN stored |-> [stored[f] EXCEPT !.by = "other"]]
                 ELSE stored
     IN /\ stored' = rows
        /\ repair' = [f \in {g \in Standing : rows[g].by = "other"} |-> rows[f]]
  /\ index' = Rebuilt
  /\ fixing' = NoFix
  /\ spoiled' = IF Idle THEN spoiled ELSE spoiled \cup {fixing.of}
  /\ UNCHANGED <<next, told>>

(* reembed_stale writes back the row it read, with its new vector.          *)
Reembed(f) ==
  /\ Idle /\ f \in DOMAIN repair
  /\ stored' = Put(stored, f, [repair[f] EXCEPT !.by = "this"])
  /\ index' = index \cup {f}
  /\ repair' = Without(repair, {f})
  /\ spoiled' = IF f \in DOMAIN stored /\ stored[f] = repair[f] THEN spoiled ELSE spoiled \cup {f}
  /\ UNCHANGED <<next, fixing, told>>

-----------------------------------------------------------------------------
(* retrieve: the best matches of the index, whatever their scope; then the  *)
(* rows that are there; then those of the scope.                            *)
Recall(scope, best) ==
  {f \in best \cap DOMAIN stored : stored[f].scope \in {scope, Global}}

SpineInit ==
  /\ stored = Nothing /\ index = {} /\ next = 1 /\ fixing = NoFix
  /\ repair = Nothing /\ told = Nothing /\ spoiled = {}

SpineNext ==
  \/ StrikeThrough \/ StrikeFails
  \/ \E other \in BOOLEAN : Restart(other)
  \/ \E s \in Scope : Remember(s)
  \/ \E p \in Projects : ForgetScope(p) \/ RescopeToGlobal(p)
  \/ \E f \in DOMAIN stored :
       \/ Correct(f) \/ Forget(f)
       \/ \E pinned \in BOOLEAN : SetPinned(f, pinned)
       \/ \E s \in Scope : SetScope(f, s)
  \/ \E f \in DOMAIN repair : Reembed(f)
  \/ PurgeAny
  \/ \E faded \in SUBSET DOMAIN stored : Decay(faded)

SpineSpec == SpineInit /\ [][SpineNext]_spineVars

-----------------------------------------------------------------------------
(* Properties.                                                              *)

SpineTypeOK ==
  /\ DOMAIN stored \subseteq Fact /\ \A f \in DOMAIN stored : stored[f] \in FactRow
  /\ index \subseteq Fact /\ next \in 1..(MaxFact + 1)
  /\ DOMAIN repair \subseteq Fact
  /\ DOMAIN told = 1..(next - 1)
  /\ \A f \in DOMAIN stored : stored[f].corrects < f /\ (stored[f].successor # 0 => stored[f].successor > f)

(* "Excluded from recall, so answers that depended on it will change"       *)
(* (main.py, correct_memory): what the person corrected or forgot is not    *)
(* found by any search, whatever is moved, pinned, decayed or restarted.    *)
(* The three ways in which it is found again are those that spoil a fact.   *)
CorrectedIsNotRecalled ==
  Idle => \A f \in DOMAIN told \ spoiled :
    told[f].is # "stands" => f \notin index \cap DOMAIN stored

(* The same without the exceptions.                                         *)
CorrectedIsNeverRecalled ==
  Idle => \A f \in DOMAIN told :
    told[f].is # "stands" => f \notin index \cap DOMAIN stored

(* A fact that stands is where the person last put it and as they pinned    *)
(* it, in every wording it has had since.                                   *)
StandsAsTold ==
  Idle => \A f \in Standing \ spoiled :
    told[f] = [is |-> "stands", scope |-> stored[f].scope, pinned |-> stored[f].pinned]

(* A purge takes the earlier wordings of what it removes with it.           *)
PurgeTakesEarlierWordings ==
  [][\A f \in DOMAIN stored \ DOMAIN stored' :
       PurgeAny => stored[f].corrects \notin DOMAIN stored']_spineVars

(* Nothing but the person removes a fact they pinned, or the record that    *)
(* they corrected one.                                                      *)
PinsAndHistoryAreKept ==
  [][\A f \in DOMAIN stored \ (DOMAIN stored' \cup spoiled) :
       stored[f].pinned \/ told[f].is = "corrected" => told'[f].is = "forgotten"]_spineVars

(* A question draws on its project and on what is global: matches of other *)
(* projects do not take the places of those.                                *)
ScopeIsNotCrowdedOut ==
  \A scope \in Scope, best \in SUBSET index :
    Cardinality(best) = MostFound /\ Recall(scope, best) = {}
      => Recall(scope, index) = {}
=============================================================================
