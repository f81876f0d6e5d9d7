------------------------------- MODULE KVStore -------------------------------
(***************************************************************************)
(* What a cached table promises to the handlers that use it: a working     *)
(* copy of the committed table, which each write changes, which commit     *)
(* makes permanent all at once and which a reset throws away.              *)
(***************************************************************************)
CONSTANTS Keys, Values, NoValue

VARIABLES committed,    \* the table a restart would find
          working       \* the table a block under execution sees

kvVars == <<committed, working>>

KVInit ==
  /\ committed \in [Keys -> Values \cup {NoValue}]
  /\ working = committed

\* Writing NoValue is a deletion.
Write(k, v) ==
  /\ working' = [working EXCEPT ![k] = v]
  /\ UNCHANGED committed

Publish ==
  /\ committed' = working
  /\ UNCHANGED working

Discard ==
  /\ working' = committed
  /\ UNCHANGED committed

KVNext ==
  \/ \E k \in Keys, v \in Values \cup {NoValue} : Write(k, v)
  \/ Publish
  \/ Discard

KVSpec == KVInit /\ [][KVNext]_kvVars
==============================================================================
