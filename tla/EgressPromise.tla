----------------------------- MODULE EgressPromise -----------------------------
(***************************************************************************)
(* What the egress gate promises, without how: nothing leaves that is not  *)
(* already on the record, as itself, and the record only grows.  This is   *)
(* "Logged before the send, never after" (gate.py:346) and "what is shown, *)
(* what is logged and what goes on the wire are the same bytes"            *)
(* (main.py:3994).                                                         *)
(***************************************************************************)

VARIABLES recorded,    (* contents the log holds as allowed                 *)
          left         (* contents that have left the machine               *)

promiseVars == <<recorded, left>>

Init == recorded = {} /\ left = {}

Record(m) == /\ recorded' = recorded \cup {m}
             /\ UNCHANGED left

Leave(m) == /\ m \in recorded
            /\ left' = left \cup {m}
            /\ UNCHANGED recorded

Next == \/ \E m \in recorded' : Record(m)
        \/ \E m \in recorded : Leave(m)

Spec == Init /\ [][Next]_promiseVars

=============================================================================
