----------------------------- MODULE MCRemoteData -----------------------------
(***************************************************************************)
(* A small instance of RemoteData for TLC: two readers on a cache that they *)
(* share with the worker, one in another process with a cache of its own.   *)
(***************************************************************************)
EXTENDS RemoteData, TLC

CONSTANTS r1, r2, r3, redis, local

Readers == {r1, r2, r3}
Caches == {redis, local}
Own == (r1 :> redis) @@ (r2 :> redis) @@ (r3 :> local)
CreatedOnly == {0}
CreatedDeleted == {0, 2}
===============================================================================
