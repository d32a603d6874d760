----------------------------- MODULE MCToolServers -----------------------------
(* Tools and what they are, for TLC.                                         *)
EXTENDS ToolServers, TLC

CONSTANTS ext, code, look, edit

Plain(kind, words) ==
  [server |-> kind, words |-> words, named |-> "no", hinted |-> FALSE,
   mutative |-> FALSE, subject |-> "plain"]

(* A tool that looks, and others that change something, on every server.     *)
LookAndEdit ==
  [s \in Servers |->
     [t \in Tools |-> Plain(IF s = code THEN "ours" ELSE "stranger",
                            IF t = look THEN {"look"} ELSE {})]]
OwnEdits == {<<code, edit>>} \cap (Servers \X Tools)
=============================================================================
