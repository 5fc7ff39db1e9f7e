-------------------------------- MODULE MCKafka --------------------------------
(***************************************************************************)
(* A small instance of Kafka for TLC: two services on the topic, one with  *)
(* two workers that share its partition.  bad does not load.               *)
(***************************************************************************)
EXTENDS Kafka, TLC

CONSTANTS w1, w2, w3, r1, e1, bad, orders, billing

Services == {orders, billing}
Workers == {w1, w2, w3}
Owner == (w1 :> orders) @@ (w2 :> orders) @@ (w3 :> billing)
OneReceiver == {r1}
EventAndBad == {e1, bad}
Bad == {bad}
===============================================================================
