---------------------------- MODULE MCClientData ----------------------------
(* Small instances of ClientData for TLC. *)
EXTENDS ClientData
=============================================================================
