---------------------------- MODULE MCContainers ----------------------------
(* A small instance of Containers on its own. *)
EXTENDS Containers

MCSpec == ContainersSpec

=============================================================================
