------------------------------ MODULE MCRabbitMQ ------------------------------
(***************************************************************************)
(* Small instances of RabbitMQ for TLC: one service with two workers, or   *)
(* two services with one worker each.  bad does not load.                  *)
(***************************************************************************)
EXTENDS RabbitMQ, TLC

CONSTANTS w1, w2, r1, r2, e1, bad, orders, billing

OneService == {orders}
TwoServices == {orders, billing}
TwoWorkers == {w1, w2}
SameService == [w \in TwoWorkers |-> orders]
OwnService == (w1 :> orders) @@ (w2 :> billing)
OneReceiver == {r1}
TwoReceivers == {r1, r2}
OneEvent == {e1}
EventAndBad == {e1, bad}
Bad == {bad}
NoEvent == {}
===============================================================================
