--------------------------- MODULE ToolPolicy_proofs ---------------------------
(***************************************************************************)
(* What is true of the policy's functions for every call there is, every   *)
(* mode and every grant.                                                   *)
(***************************************************************************)
EXTENDS ToolPolicy, TLAPS

(* A look by name is neither refused nor listed as always asking.           *)
LEMMA AlwaysAsksIsNoLook ==
  ASSUME NEW c \in Call, AlwaysAsks(c)
  PROVE  ~Reads(c)
BY DEF AlwaysAsks, Reads, SettledByName

(* What always asks, removes or sends is settled by no grant.               *)
LEMMA GrantsDoNotSettle ==
  ASSUME NEW c \in Call, Coherent(c), NEW m \in Mode, NEW g \in BOOLEAN,
         \/ AlwaysAsks(c)
         \/ ~Reads(c) /\ ("delete" \in c.words \/ LooksOutbound(c))
  PROVE  Decide(c, m, g) # "allow"
<1>1. ~Reads(c)
  BY AlwaysAsksIsNoLook
<1>2. CASE AlwaysAsks(c)
  BY <1>1, <1>2 DEF Decide, NoGrantSettles
<1>3. CASE ~AlwaysAsks(c) /\ SettledByName(c)
  <2>1. c.named \in {"changes", "refused"}
    BY <1>1, <1>3 DEF SettledByName, Reads, AlwaysAsks, Call
  <2>2. "delete" \in c.words \/ LooksOutbound(c)
    BY <1>3
  <2>3. {"delete", "send", "push"} \cap c.words # {}
    BY <2>2 DEF LooksOutbound
  <2>4. c.named = "refused"
    BY <1>3, <2>1, <2>3 DEF Coherent, SettledByName
  <2>5. QED
    BY <2>4 DEF Decide, Refused
<1>4. CASE ~AlwaysAsks(c) /\ ~SettledByName(c)
  <2>1. "delete" \in c.words \/ LooksOutbound(c)
    BY <1>4
  <2>2. NoGrantSettles(c)
    BY <1>4, <2>1 DEF NoGrantSettles, LooksDestructive
  <2>3. QED
    BY <1>1, <2>2 DEF Decide
<1>5. QED
  BY <1>2, <1>3, <1>4

(* A hint does not turn a change into a look, nor does it let a grant       *)
(* settle what it did not settle before.                                    *)
LEMMA HintNarrows ==
  ASSUME NEW c \in Call, NEW m \in Mode,
         NEW h \in Call, h = [c EXCEPT !.hinted = TRUE]
  PROVE  /\ Reads(h) => Reads(c)
         /\ NoGrantSettles(c) => NoGrantSettles(h)
         /\ Refused(c, m) => Refused(h, m)
         /\ Floor(h) = Floor(c)
<1>1. /\ h.server = c.server /\ h.words = c.words /\ h.named = c.named
      /\ h.subject = c.subject /\ h.mutative = c.mutative /\ h.hinted
  BY DEF Call
<1>2. Reads(h) => Reads(c)
  BY <1>1 DEF Reads, SettledByName, AlwaysAsks, LooksReadOnly
<1>3. NoGrantSettles(c) => NoGrantSettles(h)
  BY <1>1 DEF NoGrantSettles, AlwaysAsks, SettledByName, LooksDestructive, LooksOutbound
<1>4. Refused(c, m) => Refused(h, m)
  BY <1>1, <1>2 DEF Refused, AlwaysAsks, SettledByName
<1>5. QED
  BY <1>1, <1>2, <1>3, <1>4 DEF Floor
=============================================================================
