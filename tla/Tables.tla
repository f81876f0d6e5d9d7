------------------------------- MODULE Tables -------------------------------
(***************************************************************************)
(* A table of the database, as the cache shows it, is a function from its  *)
(* keys to the values of its rows.                                         *)
(***************************************************************************)

\* putRaw(): the row is added, or replaced.
Put(table, key, value) ==
  [k \in DOMAIN table \cup {key} |-> IF k = key THEN value ELSE table[k]]
=============================================================================
