----------------------------- MODULE MCDeployment -----------------------------
(***************************************************************************)
(* Three releases: the second migrates, the third lacks a unit. *)
(***************************************************************************)
EXTENDS Deployment

MCBuilds == 1..3
MCRevision == <<1, 2, 2>>
MCService == <<"backend", "worker">>
MCShips == <<{"backend", "worker"}, {"backend", "worker"}, {"backend"}>>
=============================================================================
