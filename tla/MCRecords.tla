------------------------------- MODULE MCRecords -------------------------------
(***************************************************************************)
(* What the backend keeps, each from its own start: the rules, the log of  *)
(* what left, the facts, and the files that were read for them.  A         *)
(* behaviour is a behaviour of one of them.                                *)
(***************************************************************************)
EXTENDS EgressLog, EgressPolicy, MemorySpine, Knowledge, TLC

(* The call sites the log is appended from.                                  *)
From(sources) == {s \in CallSites : s.source \in sources}

GateAndPurge == {s \in From({"gate", "memory.purge"}) : s.decision # "denied"}
Everyone     == CallSites

(* No stream is told from another.                                           *)
StreamsAlike == Permutations(Streams)

VARIABLE record

recordsVars == <<record, vars, policyVars, spineVars, knowledgeVars>>

RecordsInit ==
  /\ record \in {"log", "policy", "spine", "files", "notices"}
  /\ Init /\ PolicyInit /\ SpineInit /\ KnowledgeInit

(* A reply's notice changes nothing but whether a scan was told of, so it   *)
(* is looked at over one start less.                                        *)
Bounded == IF record = "files" THEN UNCHANGED chat ELSE starts' < MaxStarts

RecordsNext ==
  /\ UNCHANGED record
  /\ \/ record = "log" /\ Next /\ UNCHANGED <<policyVars, spineVars, knowledgeVars>>
     \/ record = "policy" /\ PolicyNext /\ UNCHANGED <<vars, spineVars, knowledgeVars>>
     \/ record = "spine" /\ SpineNext /\ UNCHANGED <<vars, policyVars, knowledgeVars>>
     \/ record \in {"files", "notices"} /\ KnowledgeNext /\ Bounded
        /\ UNCHANGED <<vars, policyVars, spineVars>>

RecordsSpec == RecordsInit /\ [][RecordsNext]_recordsVars
=============================================================================
