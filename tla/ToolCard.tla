-------------------------------- MODULE ToolCard --------------------------------
(***************************************************************************)
(* One call to a tool and the card it is asked about on, while what the    *)
(* verdict is made of changes: the server hints at what the tool does      *)
(* (tools/list, runtime.py available_tools), the person changes what the   *)
(* server may do (api.py grant, the servers' file), and presses the card.  *)
(***************************************************************************)
EXTENDS ToolPolicy

VARIABLES
  question, (* what the policy can tell of the call                          *)
  mode,     (* the server's write mode                                       *)
  granted   (* the person has allowed the tool, for good or for the session  *)

cardVars == <<question, mode, granted>>

(* What the gate answers, unconfirmed and confirmed.                        *)
Answer    == Gate(question, mode, granted, FALSE)
Confirmed == Gate(question, mode, granted, TRUE)

Hints ==
  /\ question' = [question EXCEPT !.hinted = TRUE]
  /\ UNCHANGED <<mode, granted>>

Allow ==
  /\ Answer = "confirm" /\ Grantable(question)
  /\ granted' = TRUE
  /\ UNCHANGED <<question, mode>>

SetMode(m) == mode' = m /\ UNCHANGED <<question, granted>>

(* A file of servers may hold a grant for any tool of theirs.               *)
CardInit ==
  /\ question \in {c \in Call : Coherent(c)}
  /\ mode \in Mode /\ granted \in BOOLEAN

CardNext == Hints \/ Allow \/ \E m \in Mode : SetMode(m)

CardSpec == CardInit /\ [][CardNext]_cardVars

-----------------------------------------------------------------------------
(* Properties.                                                              *)

Strictness == [v \in Verdict |-> CASE v = "allow" -> 0 [] v = "confirm" -> 1 [] v = "refuse" -> 2]

(* "Untrusted text may narrow, never widen": nothing a server says of its   *)
(* tool makes the answer about it looser, confirmed or not.                 *)
HintsOnlyTighten ==
  [][Hints => /\ Strictness[Answer'] >= Strictness[Answer]
              /\ Strictness[Confirmed'] >= Strictness[Confirmed]]_cardVars

(* A card offers to allow the tool only when that lets this same call run:  *)
(* no button changes nothing.                                               *)
CardKeepsItsWord == [][Allow => Answer' = "allow"]_cardVars

(* What a floor asks about, what always asks by name, and a delete or a     *)
(* send by name are asked about or refused whatever was allowed and hinted, *)
(* unless the name is one that only looks.                                  *)
NoGrantCovers ==
  \/ Floor(question) # "none"
  \/ AlwaysAsks(question)
  \/ ~Reads(question) /\ ("delete" \in question.words \/ LooksOutbound(question))
  => Answer # "allow"
=============================================================================
