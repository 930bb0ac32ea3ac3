--------------------------- MODULE MCPortalAdapters ---------------------------
(***************************************************************************)
(* A small portal: the names of employees and registrations do not matter. *)
(***************************************************************************)
EXTENDS PortalAdapters, TLC

Symmetry == Permutations(Cpfs) \cup Permutations(Regs)
=============================================================================
