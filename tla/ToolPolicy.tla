------------------------------ MODULE ToolPolicy ------------------------------
(***************************************************************************)
(* Who decides whether a tool call runs: src/backend/runtimes/mcp/policy.py *)
(* and floors.py, and the two places that read them: the gate in           *)
(* runtimes/mcp/runtime.py and the rule for a plan let run without         *)
(* stopping in core/execution_engine.py.  A call is what these functions   *)
(* can tell of it; what they do with it is a function of that, of the      *)
(* server's write mode and of what the person has allowed.                 *)
(***************************************************************************)
EXTENDS Naturals

Mode    == {"read_only", "host_undo", "granted"}
Verdict == {"allow", "confirm", "refuse"}

(* What _words_in finds in a tool's name: a word of _LOOKS_READ_ONLY,       *)
(* _LOOKS_DESTRUCTIVE, _LOOKS_OUTBOUND, _OUTBOUND_UNLESS_A_LOOK.            *)
Word == {"look", "delete", "send", "push"}

(* What a floor sees in the arguments, or in the tool and the server:       *)
(* a file that governs Zaram; a hook, an install, a deploy or a publish;    *)
(* a delete typed in the terminal; a grant asked for by the model; one of   *)
(* cua-driver's sensitive actions.                                          *)
Subject == {"plain", "protected", "runs_later", "removal", "grant", "desktop"}

(* named: how a server Zaram knows by name lists the tool.  hinted: the     *)
(* server's own annotation says that it writes or destroys.  mutative: a    *)
(* built-in says that the tool is not a look.                               *)
Call == [server   : {"stranger", "ours", "self", "github", "cua"},
         words    : SUBSET Word,
         named    : {"no", "looks", "changes", "always", "refused"},
         hinted   : BOOLEAN,
         mutative : BOOLEAN,
         subject  : Subject]

(* The calls there are: only the named servers list tools by name, and      *)
(* each floor that depends on the server names tools of that server.        *)
Coherent(c) ==
  /\ c.server \in {"stranger", "ours"} => c.named = "no"
  /\ c.server \in {"self", "github"} => c.named \in {"no", "always"}
  /\ c.mutative => c.server \in {"ours", "self", "github"}
  /\ c.subject = "grant" => c.server = "self" /\ c.named = "always"
  /\ c.subject = "desktop" => c.server = "cua"
  /\ c.subject \in {"protected", "runs_later", "removal"} => c.server \in {"stranger", "ours"}
  /\ c.server = "cua" /\ c.named = "changes" =>
       {"delete", "send", "push"} \cap c.words = {}

-----------------------------------------------------------------------------
(* looks_read_only, looks_destructive, looks_outbound and always_asks.      *)

LooksDestructive(c) == c.hinted \/ "delete" \in c.words

LooksOutbound(c) ==
  "send" \in c.words \/ ("push" \in c.words /\ "look" \notin c.words)

LooksReadOnly(c) ==
  ~c.hinted /\ "look" \in c.words /\ {"delete", "send"} \cap c.words = {}

AlwaysAsks(c) == c.named = "always"

(* _cua_decision: the exact name settles it, unless the server's own hint   *)
(* contradicts a look.                                                      *)
SettledByName(c) ==
  /\ c.server = "cua" /\ c.named # "no"
  /\ ~(c.named = "looks" /\ c.hinted)

-----------------------------------------------------------------------------
(* decide.                                                                  *)

Reads(c) ==
  IF SettledByName(c) THEN c.named = "looks"
  ELSE ~AlwaysAsks(c) /\ ~c.mutative /\ LooksReadOnly(c)

Refused(c, mode) ==
  \/ c.named = "refused"
  \/ /\ mode = "read_only" /\ ~Reads(c)
     /\ SettledByName(c) \/ ~AlwaysAsks(c)

(* Mutant of NoGrantSettles: a grant for the tool covers a send too.        *)
NoGrantSettlesADelete(c) ==
  AlwaysAsks(c) \/ (~SettledByName(c) /\ LooksDestructive(c))

NoGrantSettles(c) ==
  AlwaysAsks(c) \/ (~SettledByName(c) /\ (LooksDestructive(c) \/ LooksOutbound(c)))

Decide(c, mode, granted) ==
  IF Refused(c, mode) THEN "refuse"
  ELSE IF \/ Reads(c)
          \/ (mode = "granted" \/ granted) /\ ~NoGrantSettles(c)
       THEN "allow" ELSE "confirm"

-----------------------------------------------------------------------------
(* floor_for.                                                               *)

Floor(c) ==
  CASE c.subject = "plain"     -> "none"
    [] c.subject = "protected" -> "refuse"
    [] OTHER                   -> "confirm"

PlanMayCover(c) == c.subject \notin {"removal", "grant"}

(* The floor as it is asked about a call on no server.                      *)
Unplaced(c) == IF c.subject \in {"grant", "desktop"} THEN [c EXCEPT !.subject = "plain"]
               ELSE c

(* Mutant of CoveredByRun: the floors are not asked.                        *)
CoveredUnlessNamed(c) ==
  ~(("delete" \in c.words) \/ LooksOutbound(c))

(* _runs_uninterrupted: what "run without stopping" answers for, of a call  *)
(* it is told the tool and the arguments of.                                *)
CoveredByRun(c) ==
  /\ PlanMayCover(Unplaced(c))
  /\ ~(("delete" \in c.words) \/ LooksOutbound(c))

-----------------------------------------------------------------------------
(* McpRuntime.execute, as far as the call is decided: refused, asked about, *)
(* or run.                                                                  *)

Gate(c, mode, granted, confirmed) ==
  IF Floor(c) = "refuse" \/ Decide(c, mode, granted) = "refuse" THEN "refuse"
  ELSE IF ~confirmed /\ (Floor(c) = "confirm" \/ Decide(c, mode, granted) = "confirm")
       THEN "confirm"
  ELSE "allow"

(* What the question's card offers: to allow the tool.                      *)
(* Mutant of Grantable: only the word lists are read.                       *)
GrantableByWords(c) == Floor(c) = "none" /\ ~(LooksDestructive(c) \/ LooksOutbound(c))
Grantable(c) ==
  Floor(c) = "none" /\ ~(LooksDestructive(c) \/ LooksOutbound(c) \/ AlwaysAsks(c))
=============================================================================
