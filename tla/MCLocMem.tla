------------------------------- MODULE MCLocMem -------------------------------
(***************************************************************************)
(* A small instance of InProcess for TLC: one thread that sends two events *)
(* of one type, two threads that consume for one service, one of them for  *)
(* a second type too, and one that consumes for another service.           *)
(***************************************************************************)
EXTENDS InProcess, TLC

CONSTANTS e1, e2, created, deleted, orders, billing, c1, c2, c3, request

Events2 == {e1, e2}
Emitters == {request}
Kinds == {created, deleted}
KindOf == (e1 :> created) @@ (e2 :> created)
Services == {orders, billing}
Consumers == {c1, c2, c3}
Owner == (c1 :> orders) @@ (c2 :> orders) @@ (c3 :> billing)
Loops == (c1 :> <<deleted, created>>) @@ (c2 :> <<created>>) @@ (c3 :> <<created>>)
===============================================================================
