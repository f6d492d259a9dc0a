------------------------- MODULE MCQueryThroughput --------------------------
EXTENDS QueryThroughput

MCPrograms ==
  {t_query_thr, r_query_thr, z_query_thr, zn_query_thr, nats_query_thr,
   z_query, zn_query, nats_query, nats_ping}
=============================================================================
