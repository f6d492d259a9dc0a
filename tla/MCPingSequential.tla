-------------------------- MODULE MCPingSequential --------------------------
(* PingSequential for TLC: the parameters are given in MCPingSequential.cfg. *)
EXTENDS PingSequential
=============================================================================
