----------------------------- MODULE MCTransports -----------------------------
(***************************************************************************)
(* A small instance of Transports for TLC.                                 *)
(***************************************************************************)
EXTENDS Transports

CONSTANTS t1, t2, t3, users, broken, unknown

Threads == {t1, t2, t3}
Services == {users, broken, unknown}
WithoutEntry == {unknown}
WithoutTarget == {broken}
OneOther == {f \in [Threads -> Services] : f[t1] = users /\ f[t2] = users /\ f[t3] # users}
===============================================================================
