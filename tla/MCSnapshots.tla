----------------------------- MODULE MCSnapshots -----------------------------
(***************************************************************************)
(* Instances of Snapshots: three blocks, the first and the third in one    *)
(* data file, a snapshot at every block.  With chunks of two units a file  *)
(* starts in one chunk and ends in the next, and ends exactly with one.    *)
(***************************************************************************)
EXTENDS Snapshots

MCFileOfBlock == <<7, 9, 7>>
==============================================================================
