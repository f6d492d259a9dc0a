--------------------------- MODULE MCSessionPing ----------------------------
(* SessionPing for TLC: the modes are given in the cfg files. *)
EXTENDS SessionPing
=============================================================================
