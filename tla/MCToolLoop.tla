------------------------------ MODULE MCToolLoop ------------------------------
(* Calls of each kind the policy and the loop tell apart, for TLC.           *)
EXTENDS ToolLoop, TLC

CONSTANTS look, edit, shut, rm, admin, check, short, long

Plain == [server |-> "ours", words |-> {}, named |-> "no", hinted |-> FALSE,
          mutative |-> FALSE, subject |-> "plain"]
Kinds ==
  look  :> [Plain EXCEPT !.words = {"look"}]
  @@ edit  :> [Plain EXCEPT !.mutative = TRUE]
  @@ check :> [Plain EXCEPT !.mutative = TRUE]
  @@ shut  :> [Plain EXCEPT !.mutative = TRUE]
  @@ rm    :> [Plain EXCEPT !.subject = "removal"]
  @@ admin :> [Plain EXCEPT !.server = "self", !.named = "always", !.subject = "grant"]

TheTraits == [c \in Calls |-> Kinds[c]]
TheModes  == [c \in Calls |-> IF c = check THEN "granted"
                              ELSE IF c = shut THEN "read_only" ELSE "host_undo"]
TheItems  == [p \in Plans |-> IF p = long THEN 4 ELSE 2]
=============================================================================
