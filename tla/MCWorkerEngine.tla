--------------------------- MODULE MCWorkerEngine ---------------------------
(***************************************************************************)
(* Small instances of the worker engine: one job of NumItems items.        *)
(***************************************************************************)
EXTENDS WorkerEngine
CONSTANT NumItems

MCItems == 1 .. NumItems
MCJobOf == [i \in MCItems |-> 1]
=============================================================================
