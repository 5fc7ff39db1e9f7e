---------------------------- MODULE MCRedisStreams ----------------------------
(***************************************************************************)
(* Small instances of RedisStreams for TLC.  bad is an event that does not *)
(* load; the workers are alike.                                            *)
(***************************************************************************)
EXTENDS RedisStreams, TLC

CONSTANTS w1, w2, r1, r2, e1, bad

OneWorker == {w1}
TwoWorkers == {w1, w2}
OneReceiver == {r1}
TwoReceivers == {r1, r2}
OneEvent == {e1}
EventAndBad == {e1, bad}
Bad == {bad}
NoEvent == {}

\* Sound for the safety runs only.
Symmetry == Permutations(TwoWorkers)
===============================================================================
