---------------------------- MODULE MCThroughput ----------------------------
EXTENDS Throughput

\* One publisher to two subscribers, two to one, one to one, and a chain.
OneToTwo == [p \in 1..3 |-> IF p = 1 THEN {2, 3} ELSE {}]
TwoToOne == [p \in 1..3 |-> IF p = 3 THEN {} ELSE {3}]
OneToOne == [p \in 1..3 |-> IF p = 1 THEN {2} ELSE {}]
Chain    == [p \in 1..3 |-> IF p = 3 THEN {} ELSE {p + 1}]

With(o, i, topology, n) == [out |-> o, in |-> i, connect |-> topology, rounds |-> n]
NoPrint(o) == [o EXCEPT !.prints = FALSE]

MCSetups ==
  {With(t_pub_thr, t_sub_thr, OneToTwo, 2),
   With(NoPrint(t_pub_thr), t_sub_thr, TwoToOne, 2),
   With(t_pub_thr, t_sub_thr, OneToOne, 2),
   With(NoPrint(t_pubsub_pub), t_pubsub_sub, Chain, 1),
   With(NoPrint(r_pub_thr), r_sub_thr, OneToOne, 2),
   With(z_put_thr, z_sub_thr, OneToOne, 2),
   With(mqtt_pub_thr, mqtt_sub_thr, OneToOne, 2),
   With(nats_pub_thr, nats_sub_thr, OneToTwo, 2),
   With(zmq_pub_thr, zmq_sub_thr, OneToOne, 2)}
=============================================================================
