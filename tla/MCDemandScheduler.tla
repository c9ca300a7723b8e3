--------------------------- MODULE MCDemandScheduler ----------------------------
(***************************************************************************)
(* Instances of DemandScheduler for TLC: one or two artists, a, b, of whom *)
(* b comes first.  A unit of time is half an interval, or a whole one.     *)
(***************************************************************************)
EXTENDS DemandScheduler

MCPriority == [x \in Artists |-> IF x = "b" THEN 1 ELSE 2]
MCEvery == [t \in RefreshTypes |-> 1]
MCRegistry == {{}, Artists}
MCRetryOften == [UNRESOLVED |-> 1, AMBIGUOUS |-> 2]
MCRetryEvery == [UNRESOLVED |-> 2, AMBIGUOUS |-> 3]
================================================================================
