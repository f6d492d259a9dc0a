----------------------------- MODULE MCMqttPing -----------------------------
(* MqttPing for TLC: which faults may happen is given in the cfg files. *)
EXTENDS MqttPing
=============================================================================
