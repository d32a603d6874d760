--------------------------- MODULE EgressGate_proofs ---------------------------
(***************************************************************************)
(* Proofs about EgressPolicy and the EgressGate that decides by it, for    *)
(* any number of requests, hosts, classes and calls and any faults.        *)
(***************************************************************************)
EXTENDS EgressGate, TLAPS

(***************************************************************************)
(* The policy.  The invariant that carries NoConsentIsWidened is Covered:  *)
(* every "allow" in memory and in the file is one the person chose, for    *)
(* that host and class or for that class everywhere.                       *)
(***************************************************************************)

AllowsAreChosen(r, cr, cd) ==
  /\ \A h \in Hosts : r[h] = "allow" => <<h, "prompt">> \in chosen.allowed
  /\ \A h \in Hosts, c \in DataClass :
       cr[h][c] = "allow" => <<h, c>> \in chosen.allowed
  /\ \A h \in Hosts, c \in DataClass :
       cd[c] = "allow" => <<h, c>> \in chosen.allowed

Covered ==
  /\ AllowsAreChosen(rules, classRules, classDefaults)
  /\ AllowsAreChosen(disk.hosts, disk.classes, disk.classDefaults)

PolicyInv == PolicyTypeOK /\ Covered

(* What every policy step does to the person's grants: it adds to them.     *)
GrantsGrow == chosen.allowed \subseteq chosen'.allowed

-----------------------------------------------------------------------------
(* Saving well-typed values leaves the policy well typed, whether or not    *)
(* they reach the file.                                                     *)
LEMMA SaveType ==
  ASSUME PolicyTypeOK,
         NEW r \in [Hosts -> Rule],
         NEW cr \in [Hosts -> [DataClass -> Rule]],
         NEW cd \in [DataClass -> Rule],
         NEW k \in BOOLEAN,
         chosen' \in [allowed : SUBSET (Hosts \X DataClass),
                      blocked : SUBSET Hosts, sealed : BOOLEAN],
         Save(r, cr, cd, k)
  PROVE  PolicyTypeOK'
<1>1. CASE SaveDone(r, cr, cd, k)
  BY <1>1 DEF SaveDone, Saved, File, Damage, PolicyTypeOK
<1>2. CASE SaveFailed(r, cr, cd, k)
  BY <1>2 DEF SaveFailed, Saved, PolicyTypeOK
<1> QED BY <1>1, <1>2 DEF Save

(* Saving values whose grants were all chosen keeps every grant chosen, in  *)
(* memory and in the file, whether or not they reach the file.              *)
LEMMA SaveCovered ==
  ASSUME Covered, GrantsGrow,
         NEW r, NEW cr, NEW cd, NEW k,
         AllowsAreChosen(r, cr, cd)',
         Save(r, cr, cd, k)
  PROVE  Covered'
<1>1. AllowsAreChosen(rules, classRules, classDefaults)'
  BY DEF Save, SaveDone, SaveFailed, Saved, AllowsAreChosen
<1>2. CASE SaveDone(r, cr, cd, k)
  BY <1>1, <1>2 DEF SaveDone, File, Covered, AllowsAreChosen
<1>3. CASE SaveFailed(r, cr, cd, k)
  BY <1>1, <1>3 DEF SaveFailed, Covered, AllowsAreChosen, GrantsGrow
<1> QED BY <1>2, <1>3 DEF Save

(* The rule maps set() and forget() write are well typed. *)
LEMMA WithType ==
  ASSUME PolicyTypeOK, NEW h \in Hosts, NEW c \in DataClass, NEW m \in Rule
  PROVE  /\ RulesWith(h, m, c) \in [Hosts -> Rule]
         /\ ClassRulesWith(h, m, c) \in [Hosts -> [DataClass -> Rule]]
BY DEF PolicyTypeOK, RulesWith, ClassRulesWith

(* Writing one rule adds no grant but the one it names. *)
LEMMA WithCovered ==
  ASSUME PolicyTypeOK, Covered, GrantsGrow,
         NEW h \in Hosts, NEW c \in DataClass, NEW m \in Rule,
         m = "allow" => <<h, c>> \in chosen'.allowed,
         NEW r, NEW cr, NEW cd,
         r = RulesWith(h, m, c), cr = ClassRulesWith(h, m, c), cd = classDefaults
  PROVE  AllowsAreChosen(r, cr, cd)'
BY DEF PolicyTypeOK, Covered, AllowsAreChosen, GrantsGrow, RulesWith,
       ClassRulesWith, InheritsHostRule

(* Every edit of the person's keeps the invariant and only adds grants.     *)
LEMMA EditsKeepInv ==
  ASSUME PolicyInv, PersonEdits
  PROVE  PolicyInv' /\ GrantsGrow
<1> USE PolicyAssumption
<1>1. PolicyTypeOK /\ Covered
  BY DEF PolicyInv
<1>2. ASSUME NEW on \in BOOLEAN, SetKillSwitch(on)
      PROVE  PolicyInv' /\ GrantsGrow
  <2>0. PICK r, cr, cd : r = rules /\ cr = classRules /\ cd = classDefaults
    OBVIOUS
  <2>1. Save(r, cr, cd, on)
    BY <2>0, <1>2 DEF SetKillSwitch
  <2>2. GrantsGrow /\ chosen'.allowed = chosen.allowed
    BY <1>1, <1>2 DEF SetKillSwitch, GrantsGrow, PolicyTypeOK
  <2>3. AllowsAreChosen(r, cr, cd)'
    BY <2>0, <1>1, <2>2 DEF Covered, AllowsAreChosen
  <2>4. PolicyTypeOK'
    <3>1. chosen' \in [allowed : SUBSET (Hosts \X DataClass),
                       blocked : SUBSET Hosts, sealed : BOOLEAN]
      BY <1>1, <1>2 DEF SetKillSwitch, PolicyTypeOK
    <3>3. /\ r \in [Hosts -> Rule] /\ cr \in [Hosts -> [DataClass -> Rule]]
          /\ cd \in [DataClass -> Rule]
      BY <2>0, <1>1 DEF PolicyTypeOK
    <3> QED BY <1>1, <2>1, <3>1, <3>3, SaveType
  <2> QED BY <1>1, <2>1, <2>2, <2>3, <2>4, SaveCovered DEF PolicyInv
<1>3. ASSUME NEW h \in Hosts, NEW m \in Mode, NEW c \in DataClass, SetRule(h, m, c)
      PROVE  PolicyInv' /\ GrantsGrow
  <2>0. PICK r, cr, cd, k : /\ r = RulesWith(h, m, c) /\ cr = ClassRulesWith(h, m, c)
                            /\ cd = classDefaults /\ k = killSwitch
    OBVIOUS
  <2>1. Save(r, cr, cd, k)
    BY <2>0, <1>3 DEF SetRule
  <2>2. GrantsGrow /\ (m = "allow" => <<h, c>> \in chosen'.allowed)
    BY <1>1, <1>3 DEF SetRule, GrantsGrow, PolicyTypeOK
  <2>3. m \in Rule
    BY DEF Rule
  <2>4. AllowsAreChosen(r, cr, cd)'
    BY <2>0, <1>1, <2>2, <2>3, WithCovered
  <2>5. PolicyTypeOK'
    <3>1. chosen' \in [allowed : SUBSET (Hosts \X DataClass),
                       blocked : SUBSET Hosts, sealed : BOOLEAN]
      <4>1. <<h, c>> \in Hosts \X DataClass
        OBVIOUS
      <4> QED BY <1>1, <1>3, <4>1 DEF SetRule, PolicyTypeOK
    <3>3. /\ r \in [Hosts -> Rule] /\ cr \in [Hosts -> [DataClass -> Rule]]
          /\ cd \in [DataClass -> Rule] /\ k \in BOOLEAN
      BY <2>0, <1>1, <2>3, WithType DEF PolicyTypeOK
    <3> QED BY <1>1, <2>1, <3>1, <3>3, SaveType
  <2> QED BY <1>1, <2>1, <2>2, <2>4, <2>5, SaveCovered DEF PolicyInv
<1>4. ASSUME NEW h \in Hosts, ForgetHost(h)
      PROVE  PolicyInv' /\ GrantsGrow
  <2>0. PICK r, cr, cd, k :
          /\ r = [rules EXCEPT ![h] = NoRule]
          /\ cr = [classRules EXCEPT ![h] = [c \in DataClass |-> NoRule]]
          /\ cd = classDefaults /\ k = killSwitch
    OBVIOUS
  <2>1. Save(r, cr, cd, k)
    BY <2>0, <1>4 DEF ForgetHost
  <2>2. GrantsGrow /\ chosen'.allowed = chosen.allowed
    BY <1>1, <1>4 DEF ForgetHost, GrantsGrow, PolicyTypeOK
  <2>3. AllowsAreChosen(r, cr, cd)'
    BY <2>0, <1>1, <2>2 DEF Covered, AllowsAreChosen, PolicyTypeOK, NoRule
  <2>4. PolicyTypeOK'
    <3>1. chosen' \in [allowed : SUBSET (Hosts \X DataClass),
                       blocked : SUBSET Hosts, sealed : BOOLEAN]
      BY <1>1, <1>4 DEF ForgetHost, PolicyTypeOK
    <3>2. r \in [Hosts -> Rule] /\ cr \in [Hosts -> [DataClass -> Rule]]
      BY <2>0, <1>1 DEF PolicyTypeOK, Rule
    <3>3. /\ r \in [Hosts -> Rule] /\ cr \in [Hosts -> [DataClass -> Rule]]
          /\ cd \in [DataClass -> Rule] /\ k \in BOOLEAN
      BY <2>0, <1>1, <3>2 DEF PolicyTypeOK
    <3> QED BY <1>1, <2>1, <3>1, <3>3, SaveType
  <2> QED BY <1>1, <2>1, <2>2, <2>3, <2>4, SaveCovered DEF PolicyInv
<1>5. ASSUME NEW h \in Hosts, NEW c \in DataClass, ForgetRule(h, c)
      PROVE  PolicyInv' /\ GrantsGrow
  <2>0. PICK r, cr, cd, k : /\ r = RulesWith(h, NoRule, c)
                            /\ cr = ClassRulesWith(h, NoRule, c)
                            /\ cd = classDefaults /\ k = killSwitch
    OBVIOUS
  <2>1. Save(r, cr, cd, k)
    BY <2>0, <1>5 DEF ForgetRule
  <2>2. GrantsGrow
    BY <1>1, <1>5 DEF ForgetRule, GrantsGrow, PolicyTypeOK
  <2>3. NoRule \in Rule /\ NoRule # "allow"
    BY DEF Rule, NoRule
  <2>4. AllowsAreChosen(r, cr, cd)'
    BY <2>0, <1>1, <2>2, <2>3, WithCovered
  <2>5. PolicyTypeOK'
    <3>1. chosen' \in [allowed : SUBSET (Hosts \X DataClass),
                       blocked : SUBSET Hosts, sealed : BOOLEAN]
      BY <1>1, <1>5 DEF ForgetRule, PolicyTypeOK
    <3>3. /\ r \in [Hosts -> Rule] /\ cr \in [Hosts -> [DataClass -> Rule]]
          /\ cd \in [DataClass -> Rule] /\ k \in BOOLEAN
      BY <2>0, <1>1, <2>3, WithType DEF PolicyTypeOK
    <3> QED BY <1>1, <2>1, <3>1, <3>3, SaveType
  <2> QED BY <1>1, <2>1, <2>2, <2>4, <2>5, SaveCovered DEF PolicyInv
<1>6. ASSUME NEW c \in DataClass, NEW m \in {"allow", NoRule}, SetClassDefault(c, m)
      PROVE  PolicyInv' /\ GrantsGrow
  <2>0. PICK r, cr, cd, k : /\ r = rules /\ cr = classRules
                            /\ cd = [classDefaults EXCEPT ![c] = m] /\ k = killSwitch
    OBVIOUS
  <2>1. Save(r, cr, cd, k)
    BY <2>0, <1>6 DEF SetClassDefault
  <2>2. GrantsGrow /\ (m = "allow" => Hosts \X {c} \subseteq chosen'.allowed)
    BY <1>1, <1>6 DEF SetClassDefault, GrantsGrow, PolicyTypeOK
  <2>3. AllowsAreChosen(r, cr, cd)'
    BY <2>0, <1>1, <2>2 DEF Covered, AllowsAreChosen, GrantsGrow, PolicyTypeOK, NoRule
  <2>4. PolicyTypeOK'
    <3>1. chosen' \in [allowed : SUBSET (Hosts \X DataClass),
                       blocked : SUBSET Hosts, sealed : BOOLEAN]
      BY <1>1, <1>6 DEF SetClassDefault, PolicyTypeOK
    <3>2. cd \in [DataClass -> Rule]
      BY <2>0, <1>1 DEF PolicyTypeOK, Rule, Mode
    <3>3. /\ r \in [Hosts -> Rule] /\ cr \in [Hosts -> [DataClass -> Rule]]
          /\ cd \in [DataClass -> Rule] /\ k \in BOOLEAN
      BY <2>0, <1>1, <3>2 DEF PolicyTypeOK
    <3> QED BY <1>1, <2>1, <3>1, <3>3, SaveType
  <2> QED BY <1>1, <2>1, <2>2, <2>3, <2>4, SaveCovered DEF PolicyInv
<1> QED BY <1>2, <1>3, <1>4, <1>5, <1>6 DEF PersonEdits

(* A restart reads back no more than was in the file. *)
LEMMA LoadKeepsInv ==
  ASSUME PolicyInv, Load
  PROVE  PolicyInv' /\ GrantsGrow
<1>1. rules' \in {disk.hosts, NoRules} /\ classRules' \in {disk.classes, NoClassRules}
  BY DEF Load
<1>2. /\ classDefaults' \in [DataClass -> Rule]
      /\ \A c \in DataClass : classDefaults'[c] \in {disk.classDefaults[c], NoRule}
  BY DEF Load, NoDefaults, PolicyInv, PolicyTypeOK, Rule
<1>3. killSwitch' \in BOOLEAN /\ failedLoad' \in BOOLEAN
  BY DEF Load, PolicyInv, PolicyTypeOK
<1>4. PolicyTypeOK'
  BY <1>1, <1>2, <1>3
  DEF Load, PolicyInv, PolicyTypeOK, NoRules, NoClassRules, Rule
<1>5. Covered' /\ GrantsGrow
  BY <1>1, <1>2
  DEF Load, PolicyInv, PolicyTypeOK, Covered, AllowsAreChosen, GrantsGrow,
      NoRules, NoClassRules, NoRule
<1> QED BY <1>4, <1>5 DEF PolicyInv

(* Damage takes away and adds nothing. *)
LEMMA DamageKeepsInv ==
  ASSUME PolicyInv, NEW part \in Damage, DamageFile(part)
  PROVE  PolicyInv' /\ GrantsGrow
<1>1. PolicyTypeOK'
  BY DEF DamageFile, PolicyInv, PolicyTypeOK
<1>2. Covered' /\ GrantsGrow
  BY DEF DamageFile, PolicyInv, PolicyTypeOK, Covered, AllowsAreChosen, GrantsGrow
<1> QED BY <1>1, <1>2 DEF PolicyInv

LEMMA PolicyInitInv == PolicyInit => PolicyInv
<1> SUFFICES ASSUME PolicyInit PROVE PolicyInv
  OBVIOUS
<1>1. /\ NoRules \in [Hosts -> Rule]
      /\ NoClassRules \in [Hosts -> [DataClass -> Rule]]
      /\ NoDefaults \in [DataClass -> Rule]
  BY DEF NoRules, NoClassRules, NoDefaults, Rule
<1>2. PolicyTypeOK
  BY <1>1 DEF PolicyInit, PolicyTypeOK, File, Damage
<1>3. AllowsAreChosen(NoRules, NoClassRules, NoDefaults)
  BY DEF AllowsAreChosen, NoRules, NoClassRules, NoDefaults, NoRule
<1>4. Covered
  BY <1>3 DEF PolicyInit, Covered, File
<1> QED BY <1>2, <1>4 DEF PolicyInv

(* A policy that holds only chosen grants allows only what was chosen: the  *)
(* one place the order of decide's early returns matters to consent.        *)
LEMMA DecideAllowsChosen ==
  ASSUME PolicyInv, NEW h \in Hosts, NEW c \in DataClass,
         Decide(h, c).mode = "allow"
  PROVE  <<h, c>> \in chosen.allowed
BY DEF PolicyInv, PolicyTypeOK, Covered, AllowsAreChosen, Decide, Verdict,
       InheritsHostRule, NoRule

(* The invariant of the policy, for any hosts, classes and faults. *)
THEOREM PolicyInvariant == PolicySpec => []PolicyInv
<1>1. PolicyInv /\ [PolicyNext]_policyVars => PolicyInv'
  <2> SUFFICES ASSUME PolicyInv, [PolicyNext]_policyVars PROVE PolicyInv'
    OBVIOUS
  <2>1. CASE PolicyNext
    BY <2>1, EditsKeepInv, LoadKeepsInv, DamageKeepsInv DEF PolicyNext
  <2>2. CASE UNCHANGED policyVars
    BY <2>2 DEF policyVars, PolicyInv, PolicyTypeOK, Covered, AllowsAreChosen
  <2> QED BY <2>1, <2>2
<1> QED BY <1>1, PolicyInitInv, PTL DEF PolicySpec

(* The policy stays well typed. *)
THEOREM PolicyTypeCorrect == PolicySpec => []PolicyTypeOK
BY PolicyInvariant, PTL DEF PolicyInv

(* "A broader consent must never imply a narrower and more sensitive one"   *)
(* (policy.py), for every sequence of edits, failed saves, damaged files    *)
(* and restarts.                                                            *)
THEOREM ConsentNeverWidens == PolicySpec => []NoConsentIsWidened
<1>1. PolicyInv => NoConsentIsWidened
  BY DecideAllowsChosen DEF NoConsentIsWidened
<1> QED BY <1>1, PolicyInvariant, PTL

-----------------------------------------------------------------------------
(* What the person shut stays shut.  While every save has succeeded and     *)
(* nothing else touched the file, memory, file and choice agree on the host *)
(* rules and the switch.                                                    *)

Agrees ==
  /\ disk.damage = "none"
  /\ disk.hosts = rules
  /\ disk.killSwitch = killSwitch
  /\ chosen.sealed = killSwitch
  /\ \A h \in chosen.blocked : rules[h] = "deny"

Faithful == trusted => Agrees

(* A save keeps the three in agreement when the values it writes match the  *)
(* choice being recorded; a save that fails gives up the claim.             *)
LEMMA SaveFaithful ==
  ASSUME Faithful,
         NEW r, NEW cr, NEW cd, NEW k,
         Save(r, cr, cd, k),
         trusted => /\ chosen'.sealed = k
                    /\ \A h \in chosen'.blocked : r[h] = "deny"
  PROVE  Faithful'
<1>1. CASE SaveDone(r, cr, cd, k)
  BY <1>1 DEF SaveDone, Saved, File, Faithful, Agrees
<1>2. CASE SaveFailed(r, cr, cd, k)
  BY <1>2 DEF SaveFailed, Faithful
<1> QED BY <1>1, <1>2 DEF Save

(* Every edit of the person's writes what it records. *)
LEMMA EditsKeepFaithful ==
  ASSUME PolicyTypeOK, Faithful, PersonEdits
  PROVE  Faithful'
<1>1. ASSUME NEW on \in BOOLEAN, SetKillSwitch(on)
      PROVE  Faithful'
  <2>0. PICK r, cr, cd : r = rules /\ cr = classRules /\ cd = classDefaults
    OBVIOUS
  <2>1. Save(r, cr, cd, on)
    BY <2>0, <1>1 DEF SetKillSwitch
  <2>2. chosen'.sealed = on /\ chosen'.blocked = chosen.blocked
    BY <1>1 DEF SetKillSwitch, PolicyTypeOK
  <2> QED BY <2>0, <2>1, <2>2, SaveFaithful DEF Faithful, Agrees
<1>2. ASSUME NEW h \in Hosts, NEW m \in Mode, NEW c \in DataClass, SetRule(h, m, c)
      PROVE  Faithful'
  <2>0. PICK r, cr, cd, k : /\ r = RulesWith(h, m, c) /\ cr = ClassRulesWith(h, m, c)
                            /\ cd = classDefaults /\ k = killSwitch
    OBVIOUS
  <2>1. Save(r, cr, cd, k)
    BY <2>0, <1>2 DEF SetRule
  <2>2. /\ chosen'.sealed = chosen.sealed
        /\ chosen'.blocked = IF c \notin InheritsHostRule THEN chosen.blocked
                             ELSE IF m = "deny" THEN chosen.blocked \cup {h}
                             ELSE chosen.blocked \ {h}
    BY <1>2 DEF SetRule, PolicyTypeOK
  <2>3. trusted => \A g \in chosen'.blocked : r[g] = "deny"
    BY <2>0, <2>2 DEF Faithful, Agrees, RulesWith, PolicyTypeOK
  <2> QED BY <2>0, <2>1, <2>2, <2>3, SaveFaithful DEF Faithful, Agrees
<1>3. ASSUME NEW h \in Hosts, ForgetHost(h)
      PROVE  Faithful'
  <2>0. PICK r, cr, cd, k :
          /\ r = [rules EXCEPT ![h] = NoRule]
          /\ cr = [classRules EXCEPT ![h] = [c \in DataClass |-> NoRule]]
          /\ cd = classDefaults /\ k = killSwitch
    OBVIOUS
  <2>1. Save(r, cr, cd, k)
    BY <2>0, <1>3 DEF ForgetHost
  <2>2. chosen'.sealed = chosen.sealed /\ chosen'.blocked = chosen.blocked \ {h}
    BY <1>3 DEF ForgetHost, PolicyTypeOK
  <2>3. trusted => \A g \in chosen'.blocked : r[g] = "deny"
    BY <2>0, <2>2 DEF Faithful, Agrees, PolicyTypeOK
  <2> QED BY <2>0, <2>1, <2>2, <2>3, SaveFaithful DEF Faithful, Agrees
<1>4. ASSUME NEW h \in Hosts, NEW c \in DataClass, ForgetRule(h, c)
      PROVE  Faithful'
  <2>0. PICK r, cr, cd, k : /\ r = RulesWith(h, NoRule, c)
                            /\ cr = ClassRulesWith(h, NoRule, c)
                            /\ cd = classDefaults /\ k = killSwitch
    OBVIOUS
  <2>1. Save(r, cr, cd, k)
    BY <2>0, <1>4 DEF ForgetRule
  <2>2. /\ chosen'.sealed = chosen.sealed
        /\ chosen'.blocked = IF c \in InheritsHostRule THEN chosen.blocked \ {h}
                             ELSE chosen.blocked
    BY <1>4 DEF ForgetRule, PolicyTypeOK
  <2>3. trusted => \A g \in chosen'.blocked : r[g] = "deny"
    BY <2>0, <2>2 DEF Faithful, Agrees, RulesWith, PolicyTypeOK
  <2> QED BY <2>0, <2>1, <2>2, <2>3, SaveFaithful DEF Faithful, Agrees
<1>5. ASSUME NEW c \in DataClass, NEW m \in {"allow", NoRule}, SetClassDefault(c, m)
      PROVE  Faithful'
  <2>0. PICK r, cr, cd, k : /\ r = rules /\ cr = classRules
                            /\ cd = [classDefaults EXCEPT ![c] = m] /\ k = killSwitch
    OBVIOUS
  <2>1. Save(r, cr, cd, k)
    BY <2>0, <1>5 DEF SetClassDefault
  <2>2. chosen'.sealed = chosen.sealed /\ chosen'.blocked = chosen.blocked
    BY <1>5 DEF SetClassDefault, PolicyTypeOK
  <2> QED BY <2>0, <2>1, <2>2, SaveFaithful DEF Faithful, Agrees
<1> QED BY <1>1, <1>2, <1>3, <1>4, <1>5 DEF PersonEdits

(* While memory, file and choice agree, what the person shut is denied:     *)
(* decide asks about the host and the switch before it asks anything else.  *)
LEMMA FaithfulShuts ==
  ASSUME PolicyTypeOK, Faithful
  PROVE  BlockedStaysBlocked /\ SealSurvives
<1>1. ASSUME NEW h \in Hosts, NEW c \in DataClass, Shut(h, c)
      PROVE  Decide(h, c).mode = "deny"
  BY <1>1 DEF Decide, Verdict
<1>2. BlockedStaysBlocked
  BY <1>1 DEF BlockedStaysBlocked, Shut, Faithful, Agrees, PolicyTypeOK
<1>3. SealSurvives
  BY <1>1 DEF SealSurvives, Shut, Faithful, Agrees
<1> QED BY <1>2, <1>3

(* Memory, file and choice agree in every state of the policy. *)
THEOREM PolicyFaithful == PolicySpec => []Faithful
<1>1. PolicyInit => Faithful
  <2> SUFFICES ASSUME PolicyInit PROVE Agrees
    BY DEF Faithful
  <2>1. disk.killSwitch = FALSE /\ chosen.sealed = FALSE /\ killSwitch = FALSE
    BY DEF PolicyInit, File
  <2>2. disk.damage = "none" /\ disk.hosts = rules /\ chosen.blocked = {}
    BY DEF PolicyInit, File
  <2> QED BY <2>1, <2>2 DEF Agrees
<1>2. PolicyTypeOK /\ Faithful /\ [PolicyNext]_policyVars => Faithful'
  <2> SUFFICES ASSUME PolicyTypeOK, Faithful, [PolicyNext]_policyVars
               PROVE  Faithful'
    OBVIOUS
  <2>1. CASE PersonEdits
    BY <2>1, EditsKeepFaithful
  <2>2. CASE Load
    BY <2>2 DEF Load, Loads, Faithful, Agrees, PolicyTypeOK
  <2>3. ASSUME NEW part \in Damage, DamageFile(part) PROVE Faithful'
    BY <2>3 DEF DamageFile, Faithful
  <2>4. CASE UNCHANGED policyVars
    BY <2>4 DEF policyVars, Faithful, Agrees
  <2> QED BY <2>1, <2>2, <2>3, <2>4 DEF PolicyNext
<1> QED BY <1>1, <1>2, PolicyTypeCorrect, PTL DEF PolicySpec

(* A host the person blocked is denied for every class, over any edits and  *)
(* restarts, as long as saves succeed and nothing else touches the file.    *)
THEOREM BlocksHold == PolicySpec => []BlockedStaysBlocked
BY PolicyTypeCorrect, PolicyFaithful, FaithfulShuts, PTL

(* The kill switch, once set, refuses everything over any number of         *)
(* restarts, under the same proviso.                                        *)
THEOREM SealHolds == PolicySpec => []SealSurvives
BY PolicyTypeCorrect, PolicyFaithful, FaithfulShuts, PTL

(***************************************************************************)
(* The gate.  Inv is the inductive invariant: the policy's own invariant,  *)
(* and for each thread what its place in the code says of its question,    *)
(* its answer and its row in the log.                                      *)
(***************************************************************************)

(* Why a request may go ahead. *)
HandedOver(r) == /\ call[r].granted /\ call[r].method = "GET"
                 /\ call[r].body = "none" /\ Class(r) = "prompt"
Decided(r) == \/ <<Host(r), Class(r)>> \in chosen.allowed
              \/ Url(r) \in saidYes
              \/ HandedOver(r)

(* An approval on a live question is the person's, and is the last word.    *)
AnswerInv(r) ==
  pc[r] \in {"waiting", "woken"} /\ question[r].approved =>
    /\ Url(r) \in saidYes
    /\ verdict[r].remember => <<Host(r), Class(r)>> \in chosen.allowed
    /\ lastWord[r] = IF question[r].edit = NoEdit THEN "yes" ELSE "edit"

LastWordInv(r) ==
  pc[r] \in {"remembering", "allowing", "cleared"} /\ verdict[r].mode = "ask" =>
    /\ lastWord[r] \in {"yes", "edit"}
    /\ lastWord[r] = "edit" <=> call[r].body = "edited"

ThreadInv(r) ==
  /\ Class(r) \in DataClass
  /\ LoggedMethods => call[r].route # "async_post"
  /\ question[r].listed => pc[r] \in {"waiting", "woken"}
  /\ pc[r] \in {"new", "asking", "waiting", "woken"} => call[r].body # "edited"
  /\ pc[r] = "granting" => Class(r) = "prompt" /\ verdict[r].mode = "deny"
  /\ pc[r] = "remembering" => <<Host(r), Class(r)>> \in chosen.allowed
  /\ pc[r] \in {"remembering", "allowing", "cleared"} => Decided(r)
  /\ pc[r] = "cleared" => Asked(r) \in Allowed
  /\ AnswerInv(r)
  /\ LastWordInv(r)

WireInv == /\ NothingLeavesUndecided
           /\ LoggedMethods => WireIsOnRecord

Inv == /\ PolicyInv
       /\ GateTypeOK
       /\ \A r \in Requests : ThreadInv(r)
       /\ WireInv

(* What a step may do to the records the invariant speaks of, and what it   *)
(* leaves alone of a thread that does not take it.                          *)
RecordsGrow == GrantsGrow /\ saidYes \subseteq saidYes' /\ log \subseteq log'

SameThread(q) ==
  /\ call'[q] = call[q] /\ hop'[q] = hop[q] /\ pc'[q] = pc[q]
  /\ verdict'[q] = verdict[q] /\ question'[q] = question[q]
  /\ lastWord'[q] = lastWord[q]

-----------------------------------------------------------------------------
(* A thread that does not move keeps its invariant while records grow.      *)
LEMMA OthersKeepInv ==
  ASSUME NEW q, ThreadInv(q), SameThread(q), RecordsGrow
  PROVE  ThreadInv(q)'
<1>1. /\ Host(q)' = Host(q) /\ Class(q)' = Class(q) /\ Url(q)' = Url(q)
      /\ Asked(q)' = Asked(q)
  BY DEF SameThread, Host, Class, Url, Asked
<1>2. Asked(q) \in Allowed => Asked(q) \in Allowed'
  BY DEF RecordsGrow, Allowed
<1>3. Decided(q) => Decided(q)'
  BY <1>1 DEF Decided, HandedOver, SameThread, RecordsGrow, GrantsGrow
<1>4. AnswerInv(q)'
  BY <1>1 DEF ThreadInv, AnswerInv, SameThread, RecordsGrow, GrantsGrow
<1>5. LastWordInv(q)'
  BY DEF ThreadInv, LastWordInv, SameThread
<1> QED
  BY <1>1, <1>2, <1>3, <1>4, <1>5
  DEF ThreadInv, SameThread, RecordsGrow, GrantsGrow, LoggedMethods

(* What has left stays accounted for while records grow. *)
LEMMA WireKept ==
  ASSUME WireInv, RecordsGrow, wire' = wire
  PROVE  WireInv'
BY DEF WireInv, RecordsGrow, GrantsGrow, NothingLeavesUndecided, WireIsOnRecord,
       Allowed, LoggedMethods

(* A step of one thread that sends nothing. *)
LEMMA OneThread ==
  ASSUME Inv, NEW r \in Requests,
         PolicyInv', GateTypeOK', RecordsGrow, wire' = wire,
         \A q \in Requests \ {r} : SameThread(q),
         ThreadInv(r)'
  PROVE  Inv'
<1>1. \A q \in Requests \ {r} : ThreadInv(q)'
  BY OthersKeepInv DEF Inv
<1>2. WireInv'
  BY WireKept DEF Inv
<1> QED BY <1>1, <1>2 DEF Inv

LEMMA PolicySame ==
  ASSUME PolicyInv, UNCHANGED policyVars
  PROVE  PolicyInv' /\ GrantsGrow
BY DEF policyVars, PolicyInv, PolicyTypeOK, Covered, AllowsAreChosen, GrantsGrow

LEMMA AskedType ==
  ASSUME GateTypeOK, NEW r \in Requests
  PROVE  /\ Asked(r) \in Content /\ Url(r) \in Requests \X Nat
         /\ Host(r) \in Hosts
BY DEF GateTypeOK, Asked, Url, Host, Call, Content, Method, Body

-----------------------------------------------------------------------------
(* The decision. *)

LEMMA ConsultKeepsInv ==
  ASSUME Inv, NEW r \in Requests, Consult(r)
  PROVE  Inv'
<1>1. PolicyInv' /\ RecordsGrow
  BY PolicySame DEF Consult, RecordsGrow, Inv
<1> DEFINE v == Decide(Host(r), Class(r))
<1>2. v \in [mode : Mode, remember : BOOLEAN]
  <2>1. Class(r) \in DataClass /\ Host(r) \in Hosts
    BY AskedType DEF Inv, ThreadInv
  <2> QED
    BY <2>1 DEF Inv, PolicyInv, PolicyTypeOK, Decide, Verdict, Rule, NoRule, Mode
<1>3. /\ verdict' = [verdict EXCEPT ![r] = v]
      /\ pc'[r] \in {"allowing", "asking", "granting", "refusing"}
      /\ pc' = [pc EXCEPT ![r] = pc'[r]]
      /\ pc'[r] = "allowing" => v.mode = "allow"
      /\ pc'[r] = "granting" => Class(r) = "prompt" /\ v.mode = "deny"
      /\ pc[r] = "new"
  BY <1>2 DEF Consult, Goto, Mode, Inv, GateTypeOK
<1>4. GateTypeOK'
  BY <1>2, <1>3 DEF Consult, Inv, GateTypeOK, Stages
<1>5. \A q \in Requests \ {r} : SameThread(q)
  BY <1>3 DEF Consult, SameThread, Inv, GateTypeOK
<1>6. v.mode = "allow" => <<Host(r), Class(r)>> \in chosen.allowed
  <2>1. Class(r) \in DataClass /\ Host(r) \in Hosts
    BY AskedType DEF Inv, ThreadInv
  <2> QED BY <2>1, DecideAllowsChosen DEF Inv
<1>7. ThreadInv(r)'
  BY <1>3, <1>6
  DEF Consult, Inv, ThreadInv, AnswerInv, LastWordInv, Decided, Host, Class, Url,
      GateTypeOK, LoggedMethods, policyVars
<1> QED BY <1>1, <1>4, <1>5, <1>7, OneThread DEF Consult

LEMMA ConsiderGrantKeepsInv ==
  ASSUME Inv, NEW r \in Requests, ConsiderGrant(r)
  PROVE  Inv'
<1>1. PolicyInv' /\ RecordsGrow
  BY PolicySame DEF ConsiderGrant, RecordsGrow, Inv
<1>2. /\ pc[r] = "granting"
      /\ pc'[r] \in {"allowing", "refusing"}
      /\ pc' = [pc EXCEPT ![r] = pc'[r]]
      /\ pc'[r] = "allowing" => Permits(r)
  BY DEF ConsiderGrant, Goto, Inv, GateTypeOK
<1>3. GateTypeOK'
  BY <1>2 DEF ConsiderGrant, Inv, GateTypeOK, Stages
<1>4. \A q \in Requests \ {r} : SameThread(q)
  BY <1>2 DEF ConsiderGrant, SameThread, Inv, GateTypeOK
<1>5. ThreadInv(r)'
  BY <1>2
  DEF ConsiderGrant, Inv, ThreadInv, AnswerInv, LastWordInv, Decided, HandedOver,
      Permits, Host, Class, Url, GateTypeOK, LoggedMethods
<1> QED BY <1>1, <1>3, <1>4, <1>5, OneThread DEF ConsiderGrant

(* Writing a row and moving on; only an allowed row lets a thread send.     *)
LEMMA RecordKeepsInv ==
  ASSUME Inv, NEW r \in Requests,
         NEW from \in Stages, NEW to \in Stages,
         NEW decision \in {"allowed", "denied", "cancelled"},
         Record(r, from, decision, to),
         \/ to = "refused" /\ from \in {"refusing", "cancelling"}
         \/ to = "cleared" /\ from = "allowing" /\ decision = "allowed"
  PROVE  Inv'
<1>1. Entry(r, decision) \in [of : Content, decision : {"allowed", "denied", "cancelled"}]
  BY AskedType DEF Entry, Inv
<1>2. PolicyInv' /\ RecordsGrow
  BY PolicySame DEF Record, RecordsGrow, Inv
<1>3. /\ pc[r] = from
      /\ pc'[r] \in {to, "raised"}
      /\ pc' = [pc EXCEPT ![r] = pc'[r]]
      /\ pc'[r] = to /\ to # "raised" => log' = log \cup {Entry(r, decision)}
      /\ log' \in {log, log \cup {Entry(r, decision)}}
  BY DEF Record, Goto, Inv, GateTypeOK
<1>4. GateTypeOK'
  BY <1>1, <1>3 DEF Record, Inv, GateTypeOK, Stages
<1>5. \A q \in Requests \ {r} : SameThread(q)
  BY <1>3 DEF Record, SameThread, Inv, GateTypeOK
<1>6. pc'[r] = "cleared" => Asked(r) \in Allowed'
  <2> SUFFICES ASSUME pc'[r] = "cleared" PROVE Asked(r) \in Allowed'
    OBVIOUS
  <2>1. Entry(r, "allowed") \in log'
    BY <1>3
  <2>2. Entry(r, "allowed").of = Asked(r) /\ Entry(r, "allowed").decision = "allowed"
    BY DEF Entry
  <2> QED BY <2>1, <2>2 DEF Allowed
<1>7. pc'[r] \in {"cleared", "refused", "raised"}
  BY <1>3
<1>8. pc'[r] = "cleared" => from = "allowing"
  BY <1>3
<1>9. ThreadInv(r)'
  <2>1. /\ chosen' = chosen /\ saidYes' = saidYes /\ call' = call /\ hop' = hop
        /\ verdict' = verdict /\ question' = question /\ lastWord' = lastWord
    BY DEF Record, policyVars
  <2>2. Asked(r)' = Asked(r) /\ Decided(r)' = Decided(r) /\ Class(r)' = Class(r)
    BY <2>1 DEF Asked, Decided, HandedOver, Host, Class, Url
  <2>3. ThreadInv(r) /\ (from = "allowing" => pc[r] = "allowing")
    BY <1>3 DEF Inv
  <2>4. ~question[r].listed
    BY <1>3, <2>3 DEF Record, ThreadInv
  <2>5. AnswerInv(r)' /\ LastWordInv(r)'
    BY <1>7, <1>8, <2>1, <2>3 DEF ThreadInv, AnswerInv, LastWordInv
  <2> QED
    BY <1>6, <1>7, <1>8, <2>1, <2>2, <2>3, <2>4, <2>5 DEF ThreadInv, LoggedMethods
<1> QED BY <1>2, <1>4, <1>5, <1>9, OneThread DEF Record

(* The remembered yes is a grant the person made. *)
LEMMA RememberKeepsInv ==
  ASSUME Inv, NEW r \in Requests, Remember(r)
  PROVE  Inv'
<1>1. Class(r) \in DataClass /\ Host(r) \in Hosts
  BY AskedType DEF Inv, ThreadInv
<1>2. pc[r] = "remembering" /\ <<Host(r), Class(r)>> \in chosen.allowed
  BY DEF Remember, Inv, ThreadInv
<1>3. GrantsGrow /\ chosen' = chosen
  BY DEF Remember, GrantsGrow
<1>4. PolicyInv'
  <2>0. PICK h, c, nr, ncr, cd, k :
          /\ h = Host(r) /\ c = Class(r)
          /\ nr = RulesWith(Host(r), "allow", Class(r))
          /\ ncr = ClassRulesWith(Host(r), "allow", Class(r))
          /\ cd = classDefaults /\ k = killSwitch
    OBVIOUS
  <2>1. Save(nr, ncr, cd, k)
    BY <2>0 DEF Remember, Save
  <2>2. h \in Hosts /\ c \in DataClass /\ "allow" \in Rule
    BY <1>1, <2>0 DEF Rule, Mode
  <2>3. nr = RulesWith(h, "allow", c) /\ ncr = ClassRulesWith(h, "allow", c)
    BY <2>0
  <2>4. /\ nr \in [Hosts -> Rule] /\ ncr \in [Hosts -> [DataClass -> Rule]]
        /\ cd \in [DataClass -> Rule] /\ k \in BOOLEAN
    <3>1. nr \in [Hosts -> Rule] /\ ncr \in [Hosts -> [DataClass -> Rule]]
      BY <2>2, <2>3, WithType DEF Inv, PolicyInv
    <3>2. cd \in [DataClass -> Rule] /\ k \in BOOLEAN
      BY <2>0 DEF Inv, PolicyInv, PolicyTypeOK
    <3> QED BY <3>1, <3>2
  <2>5. AllowsAreChosen(nr, ncr, cd)'
    <3>1. <<h, c>> \in chosen'.allowed
      BY <1>2, <1>3, <2>0
    <3> QED
      BY <1>3, <2>0, <2>2, <2>3, <3>1, WithCovered DEF Inv, PolicyInv
  <2>6. chosen' \in [allowed : SUBSET (Hosts \X DataClass),
                     blocked : SUBSET Hosts, sealed : BOOLEAN]
    BY <1>3 DEF Inv, PolicyInv, PolicyTypeOK
  <2>7. PolicyTypeOK'
    BY <2>1, <2>4, <2>6, SaveType DEF Inv, PolicyInv
  <2>8. Covered'
    BY <1>3, <2>1, <2>5, SaveCovered DEF Inv, PolicyInv
  <2> QED BY <2>7, <2>8 DEF PolicyInv
<1>5. RecordsGrow
  BY <1>3 DEF Remember, RecordsGrow
<1>6. /\ pc'[r] \in {"allowing", "raised"}
      /\ pc' = [pc EXCEPT ![r] = pc'[r]]
  BY DEF Remember, Goto, Inv, GateTypeOK
<1>7. GateTypeOK'
  BY <1>6 DEF Remember, Inv, GateTypeOK, Stages
<1>8. \A q \in Requests \ {r} : SameThread(q)
  BY <1>6 DEF Remember, SameThread, Inv, GateTypeOK
<1>9. ThreadInv(r)'
  BY <1>2, <1>3, <1>6
  DEF Remember, Inv, ThreadInv, AnswerInv, LastWordInv, Decided, HandedOver,
      Host, Class, Url, LoggedMethods
<1> QED BY <1>4, <1>5, <1>7, <1>8, <1>9, OneThread DEF Remember

-----------------------------------------------------------------------------
(* The question. *)

LEMMA AskKeepsInv ==
  ASSUME Inv, NEW r \in Requests, Ask(r)
  PROVE  Inv'
<1>1. PolicyInv' /\ RecordsGrow
  BY PolicySame DEF Ask, RecordsGrow, Inv
<1>2. /\ pc[r] = "asking"
      /\ pc'[r] \in {"waiting", "cancelling"}
      /\ pc' = [pc EXCEPT ![r] = pc'[r]]
      /\ \/ question' = question /\ pc'[r] = "cancelling"
         \/ /\ question' = [question EXCEPT ![r] = [NoQuestion EXCEPT !.listed = TRUE]]
            /\ pc'[r] = "waiting"
  BY DEF Ask, Goto, Inv, GateTypeOK
<1>3. /\ [NoQuestion EXCEPT !.listed = TRUE] \in Question
      /\ [NoQuestion EXCEPT !.listed = TRUE].approved = FALSE
  BY DEF NoQuestion, Question
<1>4. GateTypeOK'
  <2>1. question' \in [Requests -> Question]
    BY <1>2, <1>3 DEF Inv, GateTypeOK
  <2>2. pc' \in [Requests -> Stages]
    BY <1>2 DEF Inv, GateTypeOK, Stages
  <2> QED BY <2>1, <2>2 DEF Ask, Inv, GateTypeOK
<1>5. \A q \in Requests \ {r} : SameThread(q)
  BY <1>2 DEF Ask, SameThread, Inv, GateTypeOK
<1>6. /\ pc'[r] = "waiting" => ~question'[r].approved
      /\ pc'[r] = "cancelling" => ~question'[r].listed
  <2>1. question \in [Requests -> Question] /\ ~question[r].listed
    BY <1>2 DEF Inv, ThreadInv, GateTypeOK
  <2>2. CASE question' = question /\ pc'[r] = "cancelling"
    BY <2>1, <2>2
  <2>3. CASE question'[r] = [NoQuestion EXCEPT !.listed = TRUE] /\ pc'[r] = "waiting"
    BY <1>3, <2>3
  <2> QED BY <1>2, <2>1, <2>2, <2>3
<1>7. ThreadInv(r)'
  BY <1>2, <1>6
  DEF Ask, Inv, ThreadInv, AnswerInv, LastWordInv, Host, Class, Url,
      LoggedMethods, policyVars
<1> QED BY <1>1, <1>4, <1>5, <1>7, OneThread DEF Ask

LEMMA WaitReturnsKeepsInv ==
  ASSUME Inv, NEW r \in Requests, WaitReturns(r)
  PROVE  Inv'
<1>1. PolicyInv' /\ RecordsGrow
  BY PolicySame DEF WaitReturns, RecordsGrow, Inv
<1>2. /\ pc[r] = "waiting" /\ pc'[r] = "woken"
      /\ pc' = [pc EXCEPT ![r] = "woken"]
      /\ question[r] \in Question
      /\ question' = [question EXCEPT ![r].answered = question[r].set]
  BY DEF WaitReturns, Goto, Inv, GateTypeOK
<1>3. GateTypeOK'
  <2>1. question' \in [Requests -> Question]
    BY <1>2 DEF Inv, GateTypeOK, Question
  <2> QED BY <1>2, <2>1 DEF WaitReturns, Inv, GateTypeOK, Stages
<1>4. \A q \in Requests \ {r} : SameThread(q)
  BY <1>2 DEF WaitReturns, SameThread, Inv, GateTypeOK
<1>5. /\ question'[r].approved = question[r].approved
      /\ question'[r].edit = question[r].edit
  BY <1>2 DEF Inv, GateTypeOK, Question
<1>6. ThreadInv(r)'
  BY <1>2, <1>5
  DEF WaitReturns, Inv, ThreadInv, AnswerInv, LastWordInv, Host, Class, Url,
      LoggedMethods, policyVars
<1> QED BY <1>1, <1>3, <1>4, <1>6, OneThread DEF WaitReturns

(* Only a woken thread with an approval goes on, and with the body the      *)
(* approval carries.                                                        *)
LEMMA CollectKeepsInv ==
  ASSUME Inv, NEW r \in Requests, Collect(r)
  PROVE  Inv'
<1>1. PolicyInv' /\ RecordsGrow
  BY PolicySame DEF Collect, RecordsGrow, Inv
<1>2. /\ pc[r] = "woken" /\ question[r] \in Question /\ call[r] \in Call
      /\ pc'[r] \in {"remembering", "allowing", "cancelling"}
      /\ pc' = [pc EXCEPT ![r] = pc'[r]]
      /\ question' = [question EXCEPT ![r].listed = FALSE]
      /\ \/ /\ question[r].approved
            /\ call' = [call EXCEPT ![r].body = AsEdited(call[r].body, question[r])]
            /\ pc'[r] = "remembering" => verdict[r].remember
            /\ pc'[r] # "cancelling"
         \/ call' = call /\ pc'[r] = "cancelling"
  BY DEF Collect, Consented, Goto, Inv, GateTypeOK
<1>3. AsEdited(call[r].body, question[r]) \in Body
  BY <1>2 DEF AsEdited, Question, Call, Body
<1>4. GateTypeOK'
  <2>1. question' \in [Requests -> Question]
    BY <1>2 DEF Inv, GateTypeOK, Question
  <2>2. call' \in [Requests -> Call]
    <3> DEFINE new == [call[r] EXCEPT !.body = AsEdited(call[r].body, question[r])]
    <3>1. call \in [Requests -> Call]
      BY DEF Inv, GateTypeOK
    <3>2. new \in Call
      BY <1>2, <1>3 DEF Call
    <3>3. call' = call \/ call' = [call EXCEPT ![r] = new]
      BY <1>2
    <3> QED BY <3>1, <3>2, <3>3
  <2> QED BY <1>2, <2>1, <2>2 DEF Collect, Inv, GateTypeOK, Stages
<1>5. \A q \in Requests \ {r} : SameThread(q)
  BY <1>2 DEF Collect, SameThread, Inv, GateTypeOK
<1>6. /\ ~question'[r].listed
      /\ call'[r].route = call[r].route /\ call'[r].host = call[r].host
      /\ call'[r].cargo = call[r].cargo
  BY <1>2 DEF Inv, GateTypeOK, Call, Question
<1>7. Host(r)' = Host(r) /\ Class(r)' = Class(r) /\ Url(r)' = Url(r)
  BY <1>6 DEF Host, Class, Url, Collect
<1>8. ThreadInv(r)
  BY DEF Inv
<1>9. ASSUME question[r].approved, pc'[r] # "cancelling"
      PROVE  ThreadInv(r)'
  <2>1. call'[r].body = AsEdited(call[r].body, question[r])
    BY <1>2, <1>9 DEF Inv, GateTypeOK, Call
  <2>2. lastWord'[r] = IF question[r].edit = NoEdit THEN "yes" ELSE "edit"
    BY <1>2, <1>8, <1>9 DEF ThreadInv, AnswerInv, Collect
  <2>3. call[r].body # "edited" /\ question[r].edit \in {NoEdit, "edited"}
    BY <1>2, <1>8 DEF ThreadInv, Question
  <2>4. LastWordInv(r)'
    BY <2>1, <2>2, <2>3 DEF LastWordInv, AsEdited, NoEdit
  <2>5. /\ Url(r) \in saidYes' /\ chosen' = chosen
        /\ verdict[r].remember => <<Host(r), Class(r)>> \in chosen.allowed
    BY <1>2, <1>8, <1>9 DEF ThreadInv, AnswerInv, Collect, policyVars
  <2>6. /\ Decided(r)'
        /\ pc'[r] = "remembering" => <<Host(r)', Class(r)'>> \in chosen'.allowed
    BY <1>2, <1>7, <1>9, <2>5 DEF Decided
  <2>7. pc'[r] \in {"remembering", "allowing"}
    BY <1>2, <1>9
  <2> QED
    BY <1>6, <1>7, <1>8, <2>4, <2>6, <2>7 DEF ThreadInv, AnswerInv, LoggedMethods
<1>10. ASSUME pc'[r] = "cancelling"
       PROVE  ThreadInv(r)'
  BY <1>6, <1>7, <1>8, <1>10 DEF ThreadInv, AnswerInv, LastWordInv, LoggedMethods
<1>11. ThreadInv(r)'
  <2>1. \/ question[r].approved /\ pc'[r] # "cancelling"
        \/ pc'[r] = "cancelling"
    BY <1>2
  <2> QED BY <1>9, <1>10, <2>1
<1> QED BY <1>1, <1>4, <1>5, <1>11, OneThread DEF Collect

(* The interface answers: a grant or a yes of the person's is recorded as   *)
(* the approval is written.                                                 *)
LEMMA AnswerKeepsInv ==
  ASSUME Inv, NEW r \in Requests, NEW yes \in BOOLEAN,
         NEW edit \in {NoEdit, "edited"}, Answer(r, yes, edit)
  PROVE  Inv'
<1>1. /\ Class(r) \in DataClass /\ Host(r) \in Hosts
      /\ Url(r) \in Requests \X Nat /\ question[r] \in Question
  BY AskedType DEF Inv, ThreadInv, GateTypeOK
<1>2. GrantsGrow /\ PolicyTypeOK'
  <2>1. <<Host(r), Class(r)>> \in Hosts \X DataClass
    BY <1>1
  <2>2. /\ chosen' \in [allowed : SUBSET (Hosts \X DataClass),
                         blocked : SUBSET Hosts, sealed : BOOLEAN]
        /\ GrantsGrow
    BY <2>1 DEF Answer, Inv, PolicyInv, PolicyTypeOK, GrantsGrow
  <2> QED BY <2>2 DEF Answer, Inv, PolicyInv, PolicyTypeOK
<1>3. PolicyInv'
  BY <1>2 DEF Answer, Inv, PolicyInv, Covered, AllowsAreChosen, GrantsGrow
<1>4. RecordsGrow
  BY <1>2 DEF Answer, RecordsGrow
<1>5. question' = [question EXCEPT ![r] = [@ EXCEPT !.approved = yes, !.edit = edit, !.set = TRUE]]
  BY DEF Answer
<1>6. /\ question' \in [Requests -> Question]
      /\ question'[r].listed = question[r].listed
      /\ question'[r].approved = yes /\ question'[r].edit = edit
      /\ \A q \in Requests \ {r} : question'[q] = question[q]
  BY <1>1, <1>5 DEF Inv, GateTypeOK, Question
<1>7. /\ lastWord' \in [Requests -> {"none", "yes", "no", "edit"}]
      /\ yes => lastWord'[r] = IF edit = NoEdit THEN "yes" ELSE "edit"
      /\ \A q \in Requests \ {r} : lastWord'[q] = lastWord[q]
  BY DEF Answer, Inv, GateTypeOK
<1>8. GateTypeOK'
  BY <1>1, <1>6, <1>7 DEF Answer, Inv, GateTypeOK
<1>9. \A q \in Requests \ {r} : SameThread(q)
  BY <1>6, <1>7 DEF Answer, SameThread
<1>10. /\ pc[r] \in {"waiting", "woken"}
       /\ yes => Url(r) \in saidYes'
       /\ yes /\ verdict[r].remember => <<Host(r), Class(r)>> \in chosen'.allowed
  BY DEF Answer, Inv, ThreadInv, PolicyInv, PolicyTypeOK
<1>11. ThreadInv(r)'
  BY <1>6, <1>7, <1>10
  DEF Answer, Inv, ThreadInv, AnswerInv, LastWordInv, Host, Class, Url,
      LoggedMethods
<1> QED BY <1>3, <1>4, <1>8, <1>9, <1>11, OneThread DEF Answer

(* Shutdown turns every listed question into a refusal. *)
LEMMA CancelAllKeepsInv ==
  ASSUME Inv, CancelAll
  PROVE  Inv'
<1>1. PolicyInv' /\ RecordsGrow
  BY PolicySame DEF CancelAll, RecordsGrow, Inv
<1>2. ASSUME NEW r \in Requests
      PROVE  /\ question'[r] \in Question
             /\ lastWord'[r] \in {"none", "yes", "no", "edit"}
             /\ ThreadInv(r)'
  <2>1. question[r] \in Question /\ ThreadInv(r)
    BY DEF Inv, GateTypeOK
  <2>2. CASE question[r].listed
    <3>1. /\ question'[r] = [question[r] EXCEPT !.approved = FALSE, !.set = TRUE,
                                               !.listed = FALSE]
          /\ lastWord'[r] = "no"
      BY <2>2 DEF CancelAll
    <3>2. /\ question'[r] \in Question
          /\ ~question'[r].approved /\ ~question'[r].listed
      BY <2>1, <3>1 DEF Question
    <3>3. pc[r] \in {"waiting", "woken"}
      BY <2>1, <2>2 DEF ThreadInv
    <3> QED
      BY <2>1, <3>1, <3>2, <3>3
      DEF CancelAll, ThreadInv, AnswerInv, LastWordInv, Class, LoggedMethods
  <2>3. CASE ~question[r].listed
    <3>1. question'[r] = question[r] /\ lastWord'[r] = lastWord[r]
      BY <2>3 DEF CancelAll
    <3>2. SameThread(r)
      BY <3>1 DEF CancelAll, SameThread
    <3> QED
      BY <1>1, <2>1, <3>1, <3>2, OthersKeepInv DEF Inv, GateTypeOK
  <2> QED BY <2>2, <2>3
<1>3. GateTypeOK'
  <2>1. question' \in [Requests -> Question]
    BY <1>2 DEF CancelAll
  <2>2. lastWord' \in [Requests -> {"none", "yes", "no", "edit"}]
    BY <1>2 DEF CancelAll
  <2> QED BY <2>1, <2>2 DEF CancelAll, Inv, GateTypeOK
<1>4. WireInv'
  BY <1>1, WireKept DEF CancelAll, Inv
<1> QED BY <1>1, <1>2, <1>3, <1>4 DEF Inv

-----------------------------------------------------------------------------
(* The wire. *)

(* What a cleared thread sends was decided and is on record.                *)
LEMMA SendKeepsInv ==
  ASSUME Inv, NEW r \in Requests, Send(r)
  PROVE  Inv'
<1>1. PolicyInv' /\ RecordsGrow
  BY PolicySame DEF Send, RecordsGrow, Inv
<1>2. /\ pc[r] = "cleared" /\ pc'[r] = "sent"
      /\ pc' = [pc EXCEPT ![r] = "sent"] /\ wire' = wire \cup {OnWire(r)}
      /\ ThreadInv(r)
  BY DEF Send, Goto, Inv, GateTypeOK
<1>3. /\ OnWire(r) \in Content
      /\ OnWire(r).host = Host(r) /\ OnWire(r).url = Url(r)
      /\ ClassOf(OnWire(r).cargo) = Class(r)
      /\ HandedOver(r) => /\ OnWire(r).granted /\ OnWire(r).method = "GET"
                          /\ OnWire(r).body = "none"
  BY AskedType
  DEF Inv, OnWire, Asked, Content, Method, Host, Url, Class, HandedOver
<1>4. GateTypeOK'
  BY <1>2, <1>3 DEF Send, Inv, GateTypeOK, Stages
<1>5. \A q \in Requests \ {r} : SameThread(q)
  BY <1>2 DEF Send, SameThread, Inv, GateTypeOK
<1>6. \A q \in Requests \ {r} : ThreadInv(q)'
  BY <1>1, <1>5, OthersKeepInv DEF Inv
<1>7. ThreadInv(r)'
  BY <1>2
  DEF Send, ThreadInv, AnswerInv, LastWordInv, Class, LoggedMethods
<1>8. NothingLeavesUndecided'
  <2>1. Decided(r) /\ chosen' = chosen /\ saidYes' = saidYes
    BY <1>2 DEF ThreadInv, Send, policyVars
  <2>2. ASSUME NEW m \in wire'
        PROVE  \/ <<m.host, ClassOf(m.cargo)>> \in chosen.allowed
               \/ m.url \in saidYes
               \/ /\ m.granted /\ m.method = "GET" /\ m.body = "none"
                  /\ ClassOf(m.cargo) = "prompt"
    <3>1. CASE m \in wire
      BY <3>1 DEF Inv, WireInv, NothingLeavesUndecided
    <3>2. CASE m = OnWire(r)
      BY <1>3, <2>1, <3>2 DEF Decided, HandedOver
    <3> QED BY <1>2, <3>1, <3>2
  <2> QED BY <2>1, <2>2 DEF NothingLeavesUndecided
<1>9. LoggedMethods => WireIsOnRecord'
  <2> SUFFICES ASSUME LoggedMethods PROVE WireIsOnRecord'
    OBVIOUS
  <2>1. OnWire(r) = Asked(r) /\ Asked(r) \in Allowed
    BY <1>2 DEF ThreadInv, OnWire
  <2>2. Allowed' = Allowed
    BY DEF Send, Allowed
  <2> QED BY <1>2, <2>1, <2>2 DEF Inv, WireInv, WireIsOnRecord
<1>10. WireInv'
  BY <1>8, <1>9 DEF WireInv, LoggedMethods
<1> QED BY <1>1, <1>4, <1>6, <1>7, <1>10 DEF Inv

(* A redirected download starts again as a new url, undecided.              *)
LEMMA RedirectedKeepsInv ==
  ASSUME CheckedRedirects, Inv, NEW r \in Requests, NEW h \in Hosts,
         Redirected(r, h)
  PROVE  Inv'
<1>1. PolicyInv' /\ RecordsGrow
  BY PolicySame DEF Redirected, RecordsGrow, Inv
<1>2. /\ call[r].route = "download" /\ wire' = wire
      /\ pc[r] = "sent" /\ pc'[r] = "new" /\ pc' = [pc EXCEPT ![r] = "new"]
      /\ hop[r] \in Nat /\ hop' = [hop EXCEPT ![r] = @ + 1]
      /\ call[r] \in Call
      /\ call' = [call EXCEPT ![r] = [@ EXCEPT !.host = h, !.method = "GET",
                                              !.body = "none"]]
  BY DEF Redirected, Goto, Inv, GateTypeOK, CheckedRedirects
<1>3. /\ call' \in [Requests -> Call]
      /\ call'[r].cargo = call[r].cargo /\ call'[r].route = call[r].route
      /\ call'[r].body = "none"
      /\ \A q \in Requests \ {r} : call'[q] = call[q]
  BY <1>2 DEF Inv, GateTypeOK, Call, Method, Body
<1>4. GateTypeOK'
  BY <1>2, <1>3 DEF Redirected, Inv, GateTypeOK, Stages
<1>5. \A q \in Requests \ {r} : SameThread(q)
  BY <1>2, <1>3 DEF Redirected, SameThread, Inv, GateTypeOK
<1>6. ThreadInv(r)'
  BY <1>2, <1>3
  DEF Redirected, Inv, ThreadInv, AnswerInv, LastWordInv, Class, LoggedMethods
<1> QED BY <1>1, <1>2, <1>4, <1>5, <1>6, OneThread

(* After a restart no thread is past the first line of check. *)
LEMMA RestartKeepsInv ==
  ASSUME Inv, Restart
  PROVE  Inv'
<1>1. PolicyInv' /\ RecordsGrow
  BY LoadKeepsInv DEF Restart, RecordsGrow, Inv
<1>2. NoQuestion \in Question /\ ~NoQuestion.listed
  BY DEF NoQuestion, Question
<1>3. \A r \in Requests :
        /\ pc'[r] \in {"new", "lost"} /\ (pc'[r] = "new" => pc[r] = "new")
        /\ question'[r] = NoQuestion
  BY DEF Restart
<1>4. GateTypeOK'
  BY <1>2 DEF Restart, Inv, GateTypeOK, Stages
<1>5. \A r \in Requests : ThreadInv(r)'
  BY <1>2, <1>3
  DEF Restart, Inv, ThreadInv, AnswerInv, LastWordInv, Class, LoggedMethods
<1>6. WireInv'
  BY <1>1, WireKept DEF Restart, Inv
<1> QED BY <1>1, <1>4, <1>5, <1>6 DEF Inv

LEMMA InitInv == Init => Inv
<1> SUFFICES ASSUME Init PROVE Inv
  OBVIOUS
<1> USE GateAssumption
<1>1. PolicyInv
  BY PolicyInitInv DEF Init
<1>2. NoQuestion \in Question /\ ~NoQuestion.listed
  BY DEF NoQuestion, Question
<1>3. Verdict("deny") \in [mode : Mode, remember : BOOLEAN]
  BY DEF Verdict, Mode
<1>4. GateTypeOK
  BY <1>2, <1>3 DEF Init, GateTypeOK, Stages
<1>5. \A r \in Requests : ThreadInv(r)
  BY <1>2
  DEF Init, ThreadInv, AnswerInv, LastWordInv, Class, LoggedMethods
<1>6. WireInv
  BY DEF Init, WireInv, NothingLeavesUndecided, WireIsOnRecord
<1> QED BY <1>1, <1>4, <1>5, <1>6 DEF Inv

-----------------------------------------------------------------------------
(* The theorems. *)

LEMMA ThreadKeepsInv ==
  ASSUME Inv, NEW r \in Requests, Thread(r)
  PROVE  Inv'
<1>1. CASE RecordDenied(r)
  BY <1>1, RecordKeepsInv DEF RecordDenied, Stages
<1>2. CASE RecordCancelled(r)
  BY <1>2, RecordKeepsInv DEF RecordCancelled, Stages
<1>3. CASE RecordAllowed(r)
  BY <1>3, RecordKeepsInv DEF RecordAllowed, Stages
<1> QED
  BY <1>1, <1>2, <1>3, ConsultKeepsInv, ConsiderGrantKeepsInv, AskKeepsInv,
     WaitReturnsKeepsInv, CollectKeepsInv, RememberKeepsInv, SendKeepsInv
  DEF Thread

(* A step of the policy's own: an edit or a damaged file. *)
LEMMA PolicyStepKeepsInv ==
  ASSUME Inv, PolicyInv', GrantsGrow, UNCHANGED gateVars
  PROVE  Inv'
<1>1. RecordsGrow
  BY DEF gateVars, RecordsGrow
<1>2. GateTypeOK'
  BY DEF gateVars, Inv, GateTypeOK
<1>3. \A r \in Requests : SameThread(r)
  BY DEF gateVars, SameThread
<1>4. \A r \in Requests : ThreadInv(r)'
  BY <1>1, <1>3, OthersKeepInv DEF Inv
<1>5. WireInv'
  BY <1>1, WireKept DEF gateVars, Inv
<1> QED BY <1>2, <1>4, <1>5 DEF Inv

(* The inductive invariant, where only a checked route is redirected.       *)
THEOREM GateInvariant ==
  ASSUME CheckedRedirects
  PROVE  Spec => []Inv
<1>1. Inv /\ [Next]_vars => Inv'
  <2> SUFFICES ASSUME Inv, [Next]_vars PROVE Inv'
    OBVIOUS
  <2>1. CASE \E r \in Requests : Thread(r)
    BY <2>1, ThreadKeepsInv
  <2>2. CASE PersonEdits /\ UNCHANGED gateVars
    BY <2>2, EditsKeepInv, PolicyStepKeepsInv DEF Inv
  <2>3. ASSUME NEW r \in Requests, NEW yes \in BOOLEAN,
               NEW edit \in {NoEdit, "edited"}, Answer(r, yes, edit)
        PROVE  Inv'
    BY <2>3, AnswerKeepsInv
  <2>4. ASSUME NEW r \in Requests, NEW h \in Hosts, Redirected(r, h)
        PROVE  Inv'
    BY <2>4, RedirectedKeepsInv
  <2>5. ASSUME NEW part \in Damage \ {"none"}, DamageFile(part), UNCHANGED gateVars
        PROVE  Inv'
    BY <2>5, DamageKeepsInv, PolicyStepKeepsInv DEF Inv
  <2>6. CASE CancelAll
    BY <2>6, CancelAllKeepsInv
  <2>7. CASE Restart
    BY <2>7, RestartKeepsInv
  <2>8. CASE UNCHANGED vars
    BY <2>8, PolicySame, PolicyStepKeepsInv DEF vars, gateVars, policyVars, Inv
  <2> QED
    BY <2>1, <2>2, <2>3, <2>4, <2>5, <2>6, <2>7, <2>8 DEF Next, Person, World
<1> QED BY <1>1, InitInv, PTL DEF Spec

(* Every state of the gate and the policy is well typed. *)
THEOREM TypeCorrect ==
  ASSUME CheckedRedirects
  PROVE  Spec => []TypeOK
<1>1. Inv => TypeOK
  BY DEF Inv, PolicyInv, TypeOK
<1> QED BY <1>1, GateInvariant, PTL

(* check never lets a request out that the person has not decided on, for   *)
(* any interleaving of threads, edits, answers, failures and restarts.      *)
THEOREM NothingUndecidedLeaves ==
  ASSUME CheckedRedirects
  PROVE  Spec => []NothingLeavesUndecided
<1>1. Inv => NothingLeavesUndecided
  BY DEF Inv, WireInv
<1> QED BY <1>1, GateInvariant, PTL

(* "Logged before the send, never after", wherever the two routes that are  *)
(* known to send something else than was logged are not used.               *)
THEOREM LoggedBeforeSent ==
  ASSUME CheckedRedirects, LoggedMethods
  PROVE  Spec => []WireIsOnRecord
<1>1. Inv => WireIsOnRecord
  BY DEF Inv, WireInv
<1> QED BY <1>1, GateInvariant, PTL

(* A question is followed by a send only if the last answer the interface   *)
(* gave was a yes, and with the body that answer showed.                    *)
THEOREM LastWordIsFinal ==
  ASSUME CheckedRedirects
  PROVE  Spec => []TheLastWordWins
<1>1. Inv => TheLastWordWins
  BY DEF Inv, ThreadInv, LastWordInv, TheLastWordWins
<1> QED BY <1>1, GateInvariant, PTL

(* The gate implements EgressPromise: every step records something new,     *)
(* lets out something recorded, or does neither.                            *)
THEOREM GateKeepsPromise ==
  ASSUME CheckedRedirects, LoggedMethods
  PROVE  Spec => KeepsPromise
<1>1. Init => Promise!Init
  BY DEF Init, Promise!Init, Allowed
<1>2. Inv /\ [Next]_vars => [Promise!Next]_(Promise!promiseVars)
  <2> SUFFICES ASSUME Inv, [Next]_vars
               PROVE  [Promise!Next]_<<Allowed, wire>>
    BY DEF Promise!promiseVars
  <2>1. ASSUME NEW r \in Requests, NEW from, NEW decision, NEW to,
               Record(r, from, decision, to)
        PROVE  [Promise!Next]_<<Allowed, wire>>
    <3>1. wire' = wire
      BY <2>1 DEF Record
    <3>2. Allowed' \in {Allowed, Allowed \cup {Asked(r)}}
      <4>1. CASE log' = log
        BY <4>1 DEF Allowed
      <4>2. CASE log' = log \cup {Entry(r, decision)}
        BY <4>2 DEF Allowed, Entry
      <4> QED BY <2>1, <4>1, <4>2 DEF Record
    <3> QED BY <3>1, <3>2 DEF Promise!Next, Promise!Record
  <2>2. ASSUME NEW r \in Requests, Send(r)
        PROVE  [Promise!Next]_<<Allowed, wire>>
    <3>1. Allowed' = Allowed /\ wire' = wire \cup {OnWire(r)}
      BY <2>2 DEF Send, Allowed
    <3>2. OnWire(r) \in Allowed
      BY <2>2 DEF Send, Inv, ThreadInv, OnWire
    <3> QED BY <3>1, <3>2 DEF Promise!Next, Promise!Leave
  <2>3. ASSUME log' = log, wire' = wire
        PROVE  [Promise!Next]_<<Allowed, wire>>
    BY <2>3 DEF Allowed
  <2>4. ASSUME NEW r \in Requests, Thread(r)
        PROVE  [Promise!Next]_<<Allowed, wire>>
    <3>1. CASE RecordDenied(r) \/ RecordCancelled(r) \/ RecordAllowed(r)
      BY <2>1, <3>1 DEF RecordDenied, RecordCancelled, RecordAllowed
    <3>2. CASE Send(r)
      BY <2>2, <3>2
    <3>3. CASE Consult(r) \/ ConsiderGrant(r) \/ Ask(r) \/ WaitReturns(r)
               \/ Collect(r) \/ Remember(r)
      BY <2>3, <3>3
      DEF Consult, ConsiderGrant, Ask, WaitReturns, Collect, Remember
    <3> QED BY <2>4, <3>1, <3>2, <3>3 DEF Thread
  <2>5. ASSUME NEW r \in Requests, NEW h \in Hosts, Redirected(r, h)
        PROVE  [Promise!Next]_<<Allowed, wire>>
    BY <2>3, <2>5 DEF Redirected, CheckedRedirects
  <2>6. CASE Person \/ CancelAll \/ Restart \/ UNCHANGED vars
             \/ \E part \in Damage \ {"none"} : DamageFile(part) /\ UNCHANGED gateVars
    BY <2>3, <2>6 DEF Person, Answer, CancelAll, Restart, vars, gateVars
  <2> QED BY <2>4, <2>5, <2>6 DEF Next, World
<1> QED BY <1>1, <1>2, GateInvariant, PTL DEF Spec, KeepsPromise, Promise!Spec

-----------------------------------------------------------------------------
(* Refusals.  This needs neither condition: a redirect nobody checks leaves *)
(* as a url that has no row.                                                *)

WasRefused(u) == \E e \in log : e.decision # "allowed" /\ e.of.url = u
HasLeft(u)    == \E m \in wire : m.url = u

(* A url that was refused, or has left, is a hop the request is past, or    *)
(* the one its thread ended on in that way.                                 *)
RefusedInv(r, n) ==
  WasRefused(<<r, n>>) => n < hop[r] \/ (n = hop[r] /\ pc[r] \in {"refused", "lost"})
LeftInv(r, n) ==
  HasLeft(<<r, n>>) => n < hop[r] \/ (n = hop[r] /\ pc[r] \in {"sent", "lost"})

UrlsInv ==
  /\ hop \in [Requests -> Nat] /\ DOMAIN pc = Requests
  /\ \A e \in log : e.of.url \in Requests \X Nat
  /\ \A r \in Requests, n \in Nat :
       /\ RefusedInv(r, n) /\ LeftInv(r, n)
       /\ ~(WasRefused(<<r, n>>) /\ HasLeft(<<r, n>>))

(* A thread moves and neither refuses nor sends anything: it was not at an  *)
(* end, or is at the same one.                                              *)
LEMMA MovingKeepsUrls ==
  ASSUME UrlsInv, UNCHANGED <<hop, wire>>, DOMAIN pc' = Requests,
         \A e \in log' \ log : e.decision = "allowed" /\ e.of.url \in Requests \X Nat,
         \A q \in Requests : pc'[q] = pc[q] \/ pc'[q] = "lost" \/ pc[q] \notin Ended
  PROVE  UrlsInv'
<1>1. \A u : (WasRefused(u)' => WasRefused(u)) /\ (HasLeft(u)' <=> HasLeft(u))
  BY DEF WasRefused, HasLeft
<1>2. \A r \in Requests, n \in Nat : RefusedInv(r, n)' /\ LeftInv(r, n)'
  BY <1>1 DEF UrlsInv, RefusedInv, LeftInv, Ended
<1> QED BY <1>1, <1>2 DEF UrlsInv

(* A row and the thread that writes it.                                     *)
LEMMA RecordKeepsUrls ==
  ASSUME UrlsInv, NEW r \in Requests,
         NEW from \in Stages \ Ended, NEW to \in Stages, NEW decision,
         Record(r, from, decision, to),
         decision # "allowed" => to = "refused"
  PROVE  UrlsInv'
<1>1. /\ UNCHANGED <<hop, wire>> /\ pc[r] = from
      /\ DOMAIN pc' = Requests /\ pc'[r] \in {to, "raised"}
      /\ \A q \in Requests \ {r} : pc'[q] = pc[q]
      /\ log' # log => pc'[r] = to
      /\ log' \in {log, log \cup {Entry(r, decision)}}
  BY DEF Record, Goto, UrlsInv, Stages
<1>2. /\ Entry(r, decision).of.url = <<r, hop[r]>> /\ hop[r] \in Nat
      /\ Entry(r, decision).decision = decision
  BY DEF Entry, Asked, Url, UrlsInv
<1>3. CASE decision = "allowed" \/ log' = log
  BY <1>1, <1>2, <1>3, MovingKeepsUrls
<1>4. CASE decision # "allowed" /\ log' # log
  <2>1. /\ log' = log \cup {Entry(r, decision)} /\ pc'[r] = "refused"
        /\ pc[r] \notin Ended
    BY <1>1, <1>4
  <2>2. \A u : /\ WasRefused(u)' => WasRefused(u) \/ u = <<r, hop[r]>>
               /\ HasLeft(u)' <=> HasLeft(u)
    BY <1>1, <1>2, <2>1 DEF WasRefused, HasLeft
  <2>3. ~HasLeft(<<r, hop[r]>>)
    BY <1>2, <2>1 DEF UrlsInv, LeftInv, Ended
  <2>4. ASSUME NEW q \in Requests, NEW n \in Nat
        PROVE  /\ RefusedInv(q, n)' /\ LeftInv(q, n)'
               /\ ~(WasRefused(<<q, n>>)' /\ HasLeft(<<q, n>>)')
    BY <1>1, <1>2, <2>1, <2>2, <2>3 DEF UrlsInv, RefusedInv, LeftInv, Ended
  <2>5. \A e \in log' : e.of.url \in Requests \X Nat
    <3>1. \A e \in log : e.of.url \in Requests \X Nat
      BY DEF UrlsInv
    <3>2. Entry(r, decision).of.url \in Requests \X Nat
      BY <1>2
    <3> QED BY <2>1, <3>1, <3>2
  <2> QED BY <1>1, <2>4, <2>5 DEF UrlsInv
<1> QED BY <1>3, <1>4

(* A url leaves: the one its thread stands on.                              *)
LEMMA SendKeepsUrls ==
  ASSUME UrlsInv, NEW r \in Requests, Send(r)
  PROVE  UrlsInv'
<1>1. /\ UNCHANGED <<hop, log>> /\ pc[r] = "cleared" /\ pc'[r] = "sent"
      /\ DOMAIN pc' = Requests
      /\ \A q \in Requests \ {r} : pc'[q] = pc[q]
      /\ wire' = wire \cup {OnWire(r)}
  BY DEF Send, Goto, UrlsInv, Stages
<1>2. OnWire(r).url = <<r, hop[r]>> /\ hop[r] \in Nat
  BY DEF OnWire, Asked, Url, UrlsInv
<1>3. \A u : /\ WasRefused(u)' <=> WasRefused(u)
             /\ HasLeft(u)' => HasLeft(u) \/ u = <<r, hop[r]>>
  BY <1>1, <1>2 DEF WasRefused, HasLeft
<1>4. ~WasRefused(<<r, hop[r]>>)
  BY <1>1, <1>2 DEF UrlsInv, RefusedInv
<1>5. ASSUME NEW q \in Requests, NEW n \in Nat
      PROVE  /\ RefusedInv(q, n)' /\ LeftInv(q, n)'
             /\ ~(WasRefused(<<q, n>>)' /\ HasLeft(<<q, n>>)')
  BY <1>1, <1>2, <1>3, <1>4 DEF UrlsInv, RefusedInv, LeftInv
<1> QED BY <1>1, <1>5 DEF UrlsInv

(* A redirect, checked or followed unseen, is to a url that is new.         *)
LEMMA RedirectedKeepsUrls ==
  ASSUME UrlsInv, NEW r \in Requests, NEW h \in Hosts, Redirected(r, h)
  PROVE  UrlsInv'
<1>1. /\ log' = log /\ pc[r] = "sent" /\ DOMAIN pc' = Requests
      /\ \A q \in Requests \ {r} : pc'[q] = pc[q] /\ hop'[q] = hop[q]
      /\ hop[r] \in Nat /\ hop'[r] = hop[r] + 1 /\ hop' \in [Requests -> Nat]
      /\ \/ wire' = wire
         \/ wire' = wire \cup {Asked(r)'} /\ pc' = pc
  BY DEF Redirected, Goto, UrlsInv, Stages
<1>2. (Asked(r)').url = <<r, hop[r] + 1>>
  BY <1>1 DEF Asked, Url
<1>3. ASSUME NEW u
      PROVE  /\ WasRefused(u)' <=> WasRefused(u)
             /\ HasLeft(u)' => HasLeft(u) \/ (u = <<r, hop[r] + 1>> /\ pc' = pc)
  <2>1. WasRefused(u)' <=> WasRefused(u)
    BY <1>1 DEF WasRefused
  <2>2. CASE wire' = wire
    BY <2>1, <2>2 DEF HasLeft
  <2>3. CASE wire' = wire \cup {Asked(r)'} /\ pc' = pc
    BY <1>2, <2>1, <2>3 DEF HasLeft
  <2> QED BY <1>1, <2>2, <2>3
<1>4. ~WasRefused(<<r, hop[r] + 1>>)
  BY <1>1 DEF UrlsInv, RefusedInv
<1>5. ASSUME NEW q \in Requests, NEW n \in Nat
      PROVE  /\ RefusedInv(q, n)' /\ LeftInv(q, n)'
             /\ ~(WasRefused(<<q, n>>)' /\ HasLeft(<<q, n>>)')
  BY <1>1, <1>3, <1>4 DEF UrlsInv, RefusedInv, LeftInv
<1> QED BY <1>1, <1>5 DEF UrlsInv

(* A url that check refused never leaves the machine, whoever redirects.    *)
THEOREM RefusalsHold == Spec => []RefusedNeverLeaves
<1>1. Init => UrlsInv
  BY DEF Init, UrlsInv, RefusedInv, LeftInv, WasRefused, HasLeft, Stages
<1>2. UrlsInv /\ [Next]_vars => UrlsInv'
  <2> SUFFICES ASSUME UrlsInv, [Next]_vars PROVE UrlsInv'
    OBVIOUS
  <2>1. ASSUME NEW r \in Requests, Thread(r) PROVE UrlsInv'
    <3>1. CASE RecordDenied(r) \/ RecordCancelled(r) \/ RecordAllowed(r)
      BY <3>1, RecordKeepsUrls DEF RecordDenied, RecordCancelled, RecordAllowed, Stages, Ended
    <3>2. CASE Send(r)
      BY <3>2, SendKeepsUrls
    <3>3. CASE Consult(r) \/ ConsiderGrant(r) \/ Ask(r) \/ WaitReturns(r) \/ Collect(r)
               \/ Remember(r)
      <4>1. UNCHANGED <<hop, wire, log>> /\ pc[r] \notin Ended
        BY <3>3
        DEF Consult, ConsiderGrant, Ask, WaitReturns, Collect, Remember, Ended
      <4>2. \E stage : Goto(r, stage)
        BY <3>3 DEF Consult, ConsiderGrant, Ask, WaitReturns, Collect, Remember
      <4>3. DOMAIN pc' = Requests /\ \A q \in Requests \ {r} : pc'[q] = pc[q]
        BY <4>2 DEF Goto, UrlsInv
      <4> QED BY <4>1, <4>3, MovingKeepsUrls
    <3> QED BY <2>1, <3>1, <3>2, <3>3 DEF Thread
  <2>2. CASE \E r \in Requests, h \in Hosts : Redirected(r, h)
    BY <2>2, RedirectedKeepsUrls
  <2>3. CASE Restart
    <3>1. UNCHANGED <<hop, wire, log>> /\ DOMAIN pc' = Requests
          /\ \A q \in Requests : pc'[q] = pc[q] \/ pc'[q] = "lost"
      BY <2>3 DEF Restart, Stages
    <3> QED BY <3>1, MovingKeepsUrls
  <2>4. CASE UNCHANGED <<hop, wire, log, pc>>
    BY <2>4, MovingKeepsUrls DEF UrlsInv
  <2>5. CASE Person \/ CancelAll \/ UNCHANGED vars
             \/ \E part \in Damage \ {"none"} : DamageFile(part) /\ UNCHANGED gateVars
    <3>1. UNCHANGED <<hop, wire, log, pc>>
      BY <2>5 DEF Person, Answer, CancelAll, vars, gateVars
    <3> QED BY <2>4, <3>1
  <2> QED BY <2>1, <2>2, <2>3, <2>5 DEF Next, World
<1>3. UrlsInv => RefusedNeverLeaves
  BY DEF UrlsInv, RefusedNeverLeaves, WasRefused, HasLeft
<1> QED BY <1>1, <1>2, <1>3, PTL DEF Spec
=============================================================================
