------------------------------ MODULE MCTriggers ------------------------------
(* Schedules and dates for TLC.                                              *)
EXTENDS Triggers, TLC

CONSTANTS t1, t2, o1, o2, o3, press1, press2

AllDaily       == [t \in Triggers |-> "daily"]
Replies        == (t1 :> "obligations")
RepliesAndDaily == (t1 :> "obligations") @@ (t2 :> "daily")

AtOnce      == [t \in Triggers |-> 0]
SecondLater == [t \in Triggers |-> IF t = t2 THEN 3 ELSE 0]

OneDay    == [t \in Triggers |-> 1]
FourDays  == [t \in Triggers |-> 4]

NothingDue  == [o \in Obligations |-> 0]
DueDayFive  == [o \in Obligations |-> 5]
DueDayTwo   == [o \in Obligations |-> 2]
DueInTurn   == [o \in Obligations |-> IF o = o1 THEN 1 ELSE 2]
=============================================================================
