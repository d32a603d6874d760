----------------------------- MODULE EgressPolicy -----------------------------
(***************************************************************************)
(* The per-destination policy of src/backend/core/egress/policy.py: what   *)
(* may leave, to which host, carrying which class of data.  The state is   *)
(* the object's four fields, the JSON file every write goes to, and the    *)
(* history the properties speak of (what the person chose, and whether the *)
(* file can still be trusted to hold it).  All writes run under the        *)
(* policy's lock, so each is one step; a write is the change in memory and *)
(* then the save, and the save can fail on its own.                        *)
(***************************************************************************)

CONSTANTS
  Hosts,      (* destinations, lower-cased                                 *)
  DataClass,  (* the classes of cargo a run considers                      *)
  Faults      (* {"save"}: a save may fail.  {"file"}: the file may be     *)
              (* damaged by something other than the program.              *)

ASSUME PolicyAssumption ==
  /\ "prompt" \in DataClass
  /\ DataClass \subseteq {"prompt", "image", "spine", "browse", "repo"}

Mode   == {"deny", "ask", "allow"}
NoRule == "none"
Rule   == Mode \cup {NoRule}

(* Classes a plain host rule speaks for, and classes that may have one      *)
(* standing answer for every host.                                          *)
InheritsEveryClass  == DataClass          (* mutant of InheritsHostRule *)
InheritsHostRule    == {"prompt"}
MayDefaultClassWide == {"browse"}

VARIABLES
  rules,          (* host -> rule                                           *)
  classRules,     (* host -> class -> rule                                  *)
  classDefaults,  (* class -> rule                                          *)
  killSwitch,     (* the master refusal                                     *)
  disk,           (* the policy file, and which part of it is unreadable    *)
  chosen,         (* history: the person's standing choices                 *)
  trusted,        (* history: no save failed and the file was not damaged   *)
  failedLoad      (* history: the last load fell back, nothing set since    *)

policyVars == <<rules, classRules, classDefaults, killSwitch, disk,
                chosen, trusted, failedLoad>>

NoRules        == [h \in Hosts |-> NoRule]
NoClassRules   == [h \in Hosts |-> [c \in DataClass |-> NoRule]]
NoDefaults     == [c \in DataClass |-> NoRule]
Damage         == {"none", "json", "hosts", "classDefaults", "classes"}

File(r, cr, cd, k) ==
  [hosts |-> r, classes |-> cr, classDefaults |-> cd, killSwitch |-> k,
   damage |-> "none"]

-----------------------------------------------------------------------------
(* Decisions: pure reads of the current state. *)

Verdict(m) == [mode |-> m, remember |-> FALSE]

(* Mutant of Shut: a class rule rescues a host the person shut, the bug     *)
(* policy.py:408-420 says was found.                                         *)
ShutUnlessClass(h, c) ==
  killSwitch \/ (rules[h] = "deny" /\ classRules[h][c] = NoRule)

Shut(h, c) == killSwitch \/ rules[h] = "deny"

(* The order of the tests is the order of the code's early returns.         *)
Decide(h, c) ==
  IF Shut(h, c) THEN Verdict("deny")
  ELSE IF classRules[h][c] # NoRule THEN Verdict(classRules[h][c])
  ELSE IF classDefaults[c] # NoRule THEN Verdict(classDefaults[c])
  ELSE IF rules[h] = NoRule THEN Verdict("deny")
  ELSE IF c \notin InheritsHostRule THEN [mode |-> "ask", remember |-> TRUE]
  ELSE Verdict(rules[h])

HasRule(h, c) ==
  \/ classRules[h][c] # NoRule
  \/ c \in InheritsHostRule /\ rules[h] # NoRule

-----------------------------------------------------------------------------
(* Writes. *)

(* _save: a temporary file and os.replace, so the file is whole or          *)
(* unchanged.  A failure leaves the new values in memory and raises.        *)
Saved(r, cr, cd, k) ==
  /\ rules' = r
  /\ classRules' = cr
  /\ classDefaults' = cd
  /\ killSwitch' = k
  /\ failedLoad' = FALSE

SaveDone(r, cr, cd, k) ==
  /\ Saved(r, cr, cd, k)
  /\ disk' = File(r, cr, cd, k)
  /\ UNCHANGED trusted

SaveFailed(r, cr, cd, k) ==
  /\ "save" \in Faults
  /\ Saved(r, cr, cd, k)
  /\ trusted' = FALSE
  /\ UNCHANGED disk

Save(r, cr, cd, k) == SaveDone(r, cr, cd, k) \/ SaveFailed(r, cr, cd, k)

(* Where set() puts a rule: the host's own map for the class that inherits  *)
(* it, the per-class map for every other.                                   *)
RulesWith(h, m, c) ==
  IF c \in InheritsHostRule THEN [rules EXCEPT ![h] = m] ELSE rules
ClassRulesWith(h, m, c) ==
  IF c \in InheritsHostRule THEN classRules ELSE [classRules EXCEPT ![h][c] = m]

SetKillSwitch(on) ==
  /\ Save(rules, classRules, classDefaults, on)
  /\ chosen' = [chosen EXCEPT !.sealed = on]

SetRule(h, m, c) ==
  /\ Save(RulesWith(h, m, c), ClassRulesWith(h, m, c), classDefaults, killSwitch)
  /\ chosen' = [chosen EXCEPT
       !.allowed = IF m = "allow" THEN @ \cup {<<h, c>>} ELSE @,
       !.blocked = IF c \notin InheritsHostRule THEN @
                   ELSE IF m = "deny" THEN @ \cup {h} ELSE @ \ {h}]

(* forget(host): the host's rule and every class rule under it.             *)
ForgetHost(h) ==
  /\ Save([rules EXCEPT ![h] = NoRule],
          [classRules EXCEPT ![h] = [c \in DataClass |-> NoRule]],
          classDefaults, killSwitch)
  /\ chosen' = [chosen EXCEPT !.blocked = @ \ {h}]

(* forget(host, class): one rule. *)
ForgetRule(h, c) ==
  /\ Save(RulesWith(h, NoRule, c), ClassRulesWith(h, NoRule, c),
          classDefaults, killSwitch)
  /\ chosen' = [chosen EXCEPT
       !.blocked = IF c \in InheritsHostRule THEN @ \ {h} ELSE @]

(* PUT /egress/class-default offers allow and nothing; set_class_default    *)
(* refuses a class outside MayDefaultClassWide before it touches anything.  *)
SetClassDefault(c, m) ==
  /\ c \in MayDefaultClassWide
  /\ Save(rules, classRules, [classDefaults EXCEPT ![c] = m], killSwitch)
  /\ chosen' = [chosen EXCEPT
       !.allowed = IF m = "allow" THEN @ \cup (Hosts \X {c}) ELSE @]

-----------------------------------------------------------------------------
(* Restart and damage. *)

(* _load reads hosts, then classDefaults, then classes, then kill_switch.   *)
(* Whatever raises, the handler empties the two rule maps and leaves the    *)
(* other two fields as far as the reading had got.                          *)
Loads(d, part) ==
  CASE part \in {"hosts", "classes"} -> d.damage = "none"
    [] part = "classDefaults"        -> d.damage \in {"none", "classes"}
    [] part = "killSwitch"           -> d.damage = "none"

Load ==
  /\ rules' = IF Loads(disk, "hosts") THEN disk.hosts ELSE NoRules
  /\ classRules' = IF Loads(disk, "classes") THEN disk.classes ELSE NoClassRules
  /\ classDefaults' =
       IF Loads(disk, "classDefaults")
       THEN [c \in DataClass |->
              IF c \in MayDefaultClassWide THEN disk.classDefaults[c] ELSE NoRule]
       ELSE NoDefaults
  /\ killSwitch' = (Loads(disk, "killSwitch") /\ disk.killSwitch)
  /\ failedLoad' = (disk.damage # "none")
  /\ UNCHANGED <<disk, chosen, trusted>>

(* A hand edit, a sync conflict or a disk error makes one part unreadable.  *)
DamageFile(part) ==
  /\ "file" \in Faults
  /\ disk.damage = "none"
  /\ disk' = [disk EXCEPT !.damage = part]
  /\ trusted' = FALSE
  /\ UNCHANGED <<rules, classRules, classDefaults, killSwitch, chosen, failedLoad>>

-----------------------------------------------------------------------------

PolicyInit ==
  /\ rules = NoRules
  /\ classRules = NoClassRules
  /\ classDefaults = NoDefaults
  /\ killSwitch = FALSE
  /\ disk = File(NoRules, NoClassRules, NoDefaults, FALSE)
  /\ chosen = [allowed |-> {}, blocked |-> {}, sealed |-> FALSE]
  /\ trusted = TRUE
  /\ failedLoad = FALSE

(* What the person can do from the privacy pane. *)
PersonEdits ==
  \/ \E on \in BOOLEAN : SetKillSwitch(on)
  \/ \E h \in Hosts, m \in Mode, c \in DataClass : SetRule(h, m, c)
  \/ \E h \in Hosts : ForgetHost(h)
  \/ \E h \in Hosts, c \in DataClass : ForgetRule(h, c)
  \/ \E c \in DataClass, m \in {"allow", NoRule} : SetClassDefault(c, m)

PolicyNext ==
  \/ PersonEdits
  \/ Load
  \/ \E part \in Damage \ {"none"} : DamageFile(part)

PolicySpec == PolicyInit /\ [][PolicyNext]_policyVars

-----------------------------------------------------------------------------
(* Properties. *)

PolicyTypeOK ==
  /\ rules \in [Hosts -> Rule]
  /\ classRules \in [Hosts -> [DataClass -> Rule]]
  /\ classDefaults \in [DataClass -> Rule]
  /\ killSwitch \in BOOLEAN
  /\ disk \in [hosts : [Hosts -> Rule],
               classes : [Hosts -> [DataClass -> Rule]],
               classDefaults : [DataClass -> Rule],
               killSwitch : BOOLEAN, damage : Damage]
  /\ chosen \in [allowed : SUBSET (Hosts \X DataClass),
                 blocked : SUBSET Hosts, sealed : BOOLEAN]
  /\ trusted \in BOOLEAN
  /\ failedLoad \in BOOLEAN

(* "A broader consent must never imply a narrower and more sensitive one":  *)
(* whatever sequence of edits, failed saves, damaged files and restarts, a  *)
(* class reaches a host without a question only if the person allowed that  *)
(* class to that host.                                                      *)
NoConsentIsWidened ==
  \A h \in Hosts, c \in DataClass :
    Decide(h, c).mode = "allow" => <<h, c>> \in chosen.allowed

(* A destination the person blocked is blocked for every class, standing    *)
(* answers and older class grants included, and stays so over restarts.     *)
BlockedStaysBlocked ==
  trusted => \A h \in chosen.blocked, c \in DataClass :
               Decide(h, c).mode = "deny"

(* The kill switch refuses everything and is not forgotten by a restart.    *)
SealSurvives ==
  trusted /\ chosen.sealed =>
    \A h \in Hosts, c \in DataClass : Decide(h, c).mode = "deny"

(* policy.py says of a corrupt file that "every host is unknown, and every  *)
(* unknown host is denied".                                                 *)
CorruptFileFailsClosed ==
  failedLoad => \A h \in Hosts, c \in DataClass : Decide(h, c).mode = "deny"

=============================================================================
