---------------------------- MODULE MCSchedules -----------------------------
(* An agreement whose only classified base is General, with one person. *)
EXTENDS Schedules

MCRows == {[cpf |-> "x", reg |-> 1]}
=============================================================================
