---------------------------- MODULE MCNodeStorage ----------------------------
(***************************************************************************)
(* Instances of NodeStorage: one endless file shared by two microblocks    *)
(* and a file that expires on the second day.  With days of two time       *)
(* units, a block of day 2 can be on time, late on the last day, and a     *)
(* block of day 4 finds the file expired.                                  *)
(***************************************************************************)
EXTENDS NodeStorage

MCMicroblocks == {"e1", "e2", "d1"}
MCFileOf == [m \in MCMicroblocks |-> IF m = "d1" THEN 2 ELSE 100]
MCSizeOf == [m \in MCMicroblocks |-> IF m = "e2" THEN 1 ELSE 2]

Anywhere == Phases
OutsideFlush == {"idle", "executing", "finalized", "committed"}
Nowhere == {}
==============================================================================
