----------------------------- MODULE MCCachedDb -----------------------------
(* Three keys and two records: every mix of puts, deletions, resets, commits *)
(* and refused batches, from every committed table.                          *)
EXTENDS CachedDb

MCKeys == {"k1", "k2", "k3"}
MCValues == {"v1", "v2"}
==============================================================================
