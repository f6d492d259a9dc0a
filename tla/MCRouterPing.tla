---------------------------- MODULE MCRouterPing ----------------------------
(* RouterPing for TLC: the parameters are given in MCRouterPing.cfg. *)
EXTENDS RouterPing
=============================================================================
