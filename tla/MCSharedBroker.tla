---------------------------- MODULE MCSharedBroker ----------------------------
(***************************************************************************)
(* A small instance of SharedBroker for TLC.                               *)
(***************************************************************************)
EXTENDS SharedBroker

CONSTANTS t1, t2, t3

Threads == {t1, t2, t3}
===============================================================================
