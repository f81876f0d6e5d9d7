-------------------------------- MODULE Hash --------------------------------
(***************************************************************************)
(* A hash stands for exactly one value, so the hash of a value is the      *)
(* value itself wherever a tree stores or compares one.                    *)
(***************************************************************************)

\* Utils.getNullHash(): the hash made of zeros only, which is the hash of no value.
NullHash == [zeros |-> TRUE]
=============================================================================
