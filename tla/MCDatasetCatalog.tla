-------------------------- MODULE MCDatasetCatalog --------------------------
(* A small agreement: two registrations of one person and a second person. *)
EXTENDS DatasetCatalog, TLC

MCRows == {[cpf |-> "x", reg |-> 1], [cpf |-> "x", reg |-> 2]}
Symmetry == Permutations(Handlers)
=============================================================================
