-------------------------- MODULE MCCustomerMemory --------------------------
(* Small instances of CustomerMemory for TLC.                                *)
EXTENDS CustomerMemory

CONSTANTS a, b, t1, t2, t3

\* Two turns in one thread and one in another, or all in one.
TwoThreads == [t \in Turn |-> IF t = t3 THEN b ELSE a]
OneThread == [t \in Turn |-> a]
=============================================================================
