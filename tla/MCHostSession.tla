--------------------------- MODULE MCHostSession ---------------------------
(* Instance of HostSession for TLC. *)
EXTENDS HostSession

MCKinds == {"main", "control"}
=============================================================================
