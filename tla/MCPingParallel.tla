--------------------------- MODULE MCPingParallel ---------------------------
(* PingParallel for TLC: the parameters are given in MCPingParallel.cfg. *)
EXTENDS PingParallel
=============================================================================
