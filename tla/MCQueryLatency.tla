--------------------------- MODULE MCQueryLatency ---------------------------
(* QueryLatency for TLC: the parameters are given in MCQueryLatency.cfg. *)
EXTENDS QueryLatency

MCPrograms == {t_query, r_query}
=============================================================================
