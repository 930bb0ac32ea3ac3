---------------------------- MODULE MCJobQueue ----------------------------
(***************************************************************************)
(* Small instances of the queue: either all items belong to one job, or    *)
(* each item is a job of its own.                                          *)
(***************************************************************************)
EXTENDS JobQueueProps, TLC
CONSTANTS NumItems, OneJob

MCItems == 1 .. NumItems
MCJobs == IF OneJob THEN {1} ELSE MCItems
MCJobOf == [i \in MCItems |-> IF OneJob THEN 1 ELSE i]
Symmetry == Permutations(Workers) \cup Permutations(Creds)
===========================================================================
