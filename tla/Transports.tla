----------------------------- MODULE Transports -----------------------------
(***************************************************************************)
(* Unicast transports of zenoh between several programs, as t_router_thr,  *)
(* t_pub_delay, t_sub_delay, t_sub_thr and the sinks use them.             *)
(*                                                                         *)
(* The main function of a program opens its endpoints one after another.   *)
(* The peer that listens makes its end of a transport first; the opener's  *)
(* end is made when the answer of the peer, OpenAck, has come.  A peer of  *)
(* zenoh answers by itself; a sink answers InitSyn and OpenSyn in its own  *)
(* code.  A transport closes when an end is gone, or silent for a lease.   *)
(***************************************************************************)
EXTENDS Integers, Sequences, FiniteSets

CONSTANTS
  Nodes,     \* the programs
  Setups,    \* who they are and what they open
  Capacity,  \* messages on their way over a transport that make a sender block
  MaxMsgs,   \* bound on the messages of a publisher in any setup
  None       \* the value of a hand that holds nothing

ZenohKinds == {"publisher", "subscriber", "router"}
SinkKinds  == {"tcp sink", "udp sink"}

\* kind:    what each node is
\* connect: the endpoints that it opens, in order
\* after:   the nodes whose endpoints are open before each node is started
\* leavers: the nodes that may be stopped at any time
\* count:   bound on the messages of each publisher
\* lock:    whom an RwLock prefers, the readers or a writer that waits: the standard
\*          library leaves that to the platform
AllSetups ==
  [kind : [Nodes -> ZenohKinds \cup SinkKinds \cup {"absent"}],
   connect : [Nodes -> Seq(Nodes)], after : [Nodes -> SUBSET Nodes],
   leavers : SUBSET Nodes, count : [Nodes -> 0..MaxMsgs], lock : {"readers", "writers"}]

\* Programs do not open endpoints of each other, nor one endpoint twice; a
\* publisher has one endpoint and nobody opens it; a sink opens nothing, and
\* stops only by itself.
ASSUME SetupsAssumption ==
  /\ Setups \subseteq AllSetups
  /\ \A s \in Setups, x \in Nodes :
       /\ \A i, j \in DOMAIN s.connect[x] : i # j => s.connect[x][i] # s.connect[x][j]
       /\ \A i \in DOMAIN s.connect[x] :
            LET y == s.connect[x][i] IN
              /\ y # x /\ s.kind[y] \in {"subscriber", "router"} \cup SinkKinds
              /\ \A j \in DOMAIN s.connect[y] : s.connect[y][j] # x
       /\ s.kind[x] = "publisher" => Len(s.connect[x]) = 1
       /\ s.kind[x] \in SinkKinds => s.connect[x] = <<>> /\ x \notin s.leavers
ASSUME BoundsAssumption == Capacity \in Nat \ {0} /\ MaxMsgs \in Nat

VARIABLES
  setup,  \* the setup that runs
  alive,  \* the programs that have not ended
  link,   \* for an opener and its peer, how far their transport is
  queue,  \* from each node to each other, the messages on their way
  sent,   \* for each publisher, the messages it has sent
  got     \* for each node and publisher, the messages it has got from it

netVars == <<setup, alive, link, queue, sent, got>>

Kind(n) == setup.kind[n]
Pairs == Nodes \X Nodes
Opens(x, y) == \E i \in DOMAIN setup.connect[x] : setup.connect[x][i] = y
Peers(x) == {y \in Nodes : Opens(x, y) \/ Opens(y, x)}

Publishers == {n \in Nodes : Kind(n) = "publisher"}
Receivers  == {n \in Nodes : Kind(n) = "subscriber" \/ Kind(n) \in SinkKinds}

Msgs == [src : Nodes, seq : 1..MaxMsgs]

\* dialled:  the opener has connected, and sent InitSyn
\* greeted:  it has been sent InitAck
\* opening:  it has sent OpenSyn
\* accepted: it has been sent OpenAck, and the peer's end is made
\* up:       its own end is made
Connecting == {"dialled", "greeted", "opening", "accepted"}
Stages == Connecting \cup {"none", "up", "closed"}

NetTypeOK ==
  /\ setup \in Setups
  /\ alive \in [Nodes -> BOOLEAN]
  /\ link \in [Pairs -> Stages]
  /\ queue \in [Pairs -> Seq(Msgs)]
  /\ sent \in [Nodes -> 0..MaxMsgs]
  /\ got \in [Nodes -> [Nodes -> Seq(1..MaxMsgs)]]

NetInit ==
  /\ setup \in Setups
  /\ alive = [n \in Nodes |-> TRUE]
  /\ link = [l \in Pairs |-> "none"]
  /\ queue = [l \in Pairs |-> <<>>]
  /\ sent = [n \in Nodes |-> 0]
  /\ got = [n \in Nodes |-> [s \in Nodes |-> <<>>]]

\* x has an end of a transport to y; and the transport has closed.
HasEnd(x, y) == link[<<x, y>>] = "up" \/ link[<<y, x>>] \in {"accepted", "up"}
IsClosed(x, y) == "closed" \in {link[<<x, y>>], link[<<y, x>>]}

\* x hands m to its transport to y, with CongestionControl::Block.
HasRoom(x, y) == Len(queue[<<x, y>>]) < Capacity
Queued(x, y, m) == [queue EXCEPT ![<<x, y>>] = Append(@, m)]

\* n gets m, the first of those on their way from p.
Deliver(n, p, m) ==
  /\ got' = [got EXCEPT ![n][m.src] = Append(@, m.seq)]
  /\ queue' = [queue EXCEPT ![<<p, n>>] = Tail(@)]

Started(x) ==
  \A n \in setup.after[x], y \in Nodes :
    Opens(n, y) => ~alive[n] \/ link[<<n, y>>] \in {"up", "closed"}

\* for e in endpoint { manager.open_transport_unicast(e).await.unwrap() }
Dial(x) ==
  \E i \in DOMAIN setup.connect[x] :
    LET y == setup.connect[x][i] IN
      /\ alive[x] /\ alive[y]
      /\ link[<<x, y>>] = "none" /\ Started(x)
      /\ \A j \in 1..(i - 1) : link[<<x, setup.connect[x][j]>>] \in {"up", "closed"}
      /\ link' = [link EXCEPT ![<<x, y>>] = "dialled"]
      /\ UNCHANGED <<setup, alive, queue, sent, got>>

\* The opener answers InitAck.
SendOpenSyn(x, y) ==
  /\ alive[x]
  /\ link[<<x, y>>] = "greeted"
  /\ link' = [link EXCEPT ![<<x, y>>] = "opening"]
  /\ UNCHANGED <<setup, alive, queue, sent, got>>

\* The unwrap of an open that fails: the peer is gone or silent, or, for a peer
\* on UDP, a datagram of the handshake is lost.
OpenFails(x, y, silent) ==
  /\ alive[x]
  /\ \/ link[<<x, y>>] = "none" /\ Opens(x, y) /\ ~alive[y] /\ Started(x)
     \/ link[<<x, y>>] \in Connecting /\ (silent \/ Kind(y) = "udp sink")
  /\ alive' = [alive EXCEPT ![x] = FALSE]
  /\ link' = [link EXCEPT ![<<x, y>>] = "closed"]
  /\ UNCHANGED <<setup, queue, sent, got>>

\* A transport closes, and what is on its way is lost.
Close(x, y, silent) ==
  /\ link[<<x, y>>] \in {"accepted", "up"}
  /\ ~alive[x] \/ silent
  /\ link' = [link EXCEPT ![<<x, y>>] = "closed"]
  /\ queue' = [queue EXCEPT ![<<x, y>>] = <<>>, ![<<y, x>>] = <<>>]
  /\ UNCHANGED <<setup, alive, sent, got>>

\* A program is stopped.
Leave(x) ==
  /\ x \in setup.leavers
  /\ alive[x]
  /\ alive' = [alive EXCEPT ![x] = FALSE]
  /\ UNCHANGED <<setup, link, queue, sent, got>>
=============================================================================
