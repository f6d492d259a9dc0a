-------------------------------- MODULE Relay --------------------------------
(***************************************************************************)
(* Publishers (t_pub_delay), subscribers (t_sub_delay, or t_sub_thr as it  *)
(* connects), routers (t_router_thr) and sinks (t_sink_tcp, t_sink_udp) on *)
(* the transports between them.                                            *)
(***************************************************************************)
EXTENDS RouterThr, Sinks

vars == <<netVars, routerVars, sinkVars>>

\* Around a ring of routers a message would be sent on for ever: in a setup, any
\* node n is the root of a tree, h[x] being the neighbour of x that is nearer to it.
Neighbours(s, x, y) ==
  \/ \E i \in DOMAIN s.connect[x] : s.connect[x][i] = y
  \/ \E i \in DOMAIN s.connect[y] : s.connect[y][i] = x
IsTree(s, n, h) ==
  /\ h[n] = n
  /\ \A x, y \in Nodes : Neighbours(s, x, y) => h[x] = y \/ h[y] = x
ASSUME TreeAssumption ==
  \A s \in Setups, n \in Nodes : \E h \in [Nodes -> Nodes] : IsTree(s, n, h)

Init == NetInit /\ RouterInit /\ SinkInit

\* A program that listens makes its end of a transport, and calls its handler's
\* new_unicast.
Accept(x, y) ==
  /\ Kind(y) \in ZenohKinds /\ alive[y]
  /\ link[<<x, y>>] = "dialled"
  /\ link' = [link EXCEPT ![<<x, y>>] = "accepted"]
  /\ NewUnicast(y, x)
  /\ UNCHANGED <<setup, alive, queue, sent, got, hand, sinkVars>>

\* So does the program that opened it.
Establish(x, y) ==
  /\ alive[x]
  /\ link[<<x, y>>] = "accepted"
  /\ link' = [link EXCEPT ![<<x, y>>] = "up"]
  /\ NewUnicast(x, y)
  /\ UNCHANGED <<setup, alive, queue, sent, got, hand, sinkVars>>

\* A turn of the loop of t_pub_delay.
Publish(x) ==
  LET y == setup.connect[x][1] IN
    /\ Kind(x) = "publisher" /\ alive[x]
    /\ sent[x] < setup.count[x]
    /\ link[<<x, y>>] = "up"
    /\ HasRoom(x, y)
    /\ sent' = [sent EXCEPT ![x] = @ + 1]
    /\ queue' = Queued(x, y, [src |-> x, seq |-> sent[x] + 1])
    /\ UNCHANGED <<setup, alive, link, got, routerVars, sinkVars>>

\* session.handle_message(..).unwrap() on a transport that has closed
PublishFails(x) ==
  /\ Kind(x) = "publisher" /\ alive[x]
  /\ sent[x] < setup.count[x]
  /\ link[<<x, setup.connect[x][1]>>] = "closed"
  /\ alive' = [alive EXCEPT ![x] = FALSE]
  /\ UNCHANGED <<setup, link, queue, sent, got, routerVars, sinkVars>>

\* The handler of t_sub_delay prints a message, that of t_sub_thr counts it.
Receive(x, p) ==
  /\ Kind(x) = "subscriber" /\ alive[x]
  /\ HasEnd(x, p)
  /\ queue[<<p, x>>] # <<>>
  /\ Deliver(x, p, Head(queue[<<p, x>>]))
  /\ UNCHANGED <<setup, alive, link, sent, routerVars, sinkVars>>

\* y does not answer, nor send KeepAlive.
Silent(y) == ~alive[y] \/ Starved(y)

Handshake(x, y) ==
  \/ Accept(x, y) \/ Establish(x, y)
  \/ AnswerInit(x, y) /\ UNCHANGED routerVars
  \/ SendOpenSyn(x, y) /\ UNCHANGED <<routerVars, sinkVars>>
  \/ AnswerOpen(x, y) /\ UNCHANGED routerVars
  \/ OpenFails(x, y, Silent(y)) /\ y \notin waiting[x] /\ UNCHANGED <<routerVars, sinkVars>>

Serve(x, y) ==
  \/ WaitToWrite(x, y) /\ UNCHANGED sinkVars
  \/ HandleMessage(x, y) /\ UNCHANGED sinkVars
  \/ Forward(x, y) /\ UNCHANGED sinkVars
  \/ Receive(x, y)
  \/ (Read(x, y) \/ Eof(x, y) \/ PrintLine(x, y)) /\ UNCHANGED routerVars
  \/ (FallTcp(x, y) \/ FallUdp(x, y)) /\ UNCHANGED routerVars
  \/ Close(x, y, Silent(y)) /\ y \notin waiting[x] /\ Closed(x, y) /\ UNCHANGED sinkVars

Progress ==
  \/ \E x \in Nodes : Publish(x) \/ PublishFails(x)
  \/ \E x \in Nodes : Dial(x) /\ UNCHANGED <<routerVars, sinkVars>>
  \/ \E x \in Nodes : \E i \in DOMAIN setup.connect[x] :
       LET y == setup.connect[x][i] IN Handshake(x, y) \/ Serve(x, y) \/ Serve(y, x)

Next ==
  \/ Progress
  \/ \E x \in Nodes : Leave(x) /\ UNCHANGED <<routerVars, sinkVars>>

Spec == Init /\ [][Next]_vars

\* Threads, tasks and transports do not stop while any of them can take a step;
\* nobody has to stop a program.
FairSpec == Spec /\ WF_vars(Progress)
-----------------------------------------------------------------------------
TypeOK == NetTypeOK /\ RouterTypeOK /\ SinkTypeOK

\* The index of a handler is that of its transport in the table, for as long as
\* the router runs, whatever has closed.
IndexIsOwn ==
  \A r, p \in Nodes :
    /\ \A i \in DOMAIN table[r] : index[<<r, table[r][i]>>] = i
    /\ index[<<r, p>>] # 0 => index[<<r, p>>] \in DOMAIN table[r] /\ table[r][index[<<r, p>>]] = p
    /\ Kind(r) = "router" /\ HasEnd(r, p) => index[<<r, p>>] # 0

\* Nothing is under way, and no end is made, but of an endpoint that was opened; the
\* indices are of transports that have been made.
Made(r, p) ==
  \/ Opens(p, r) /\ link[<<p, r>>] \in {"accepted", "up", "closed"}
  \/ Opens(r, p) /\ link[<<r, p>>] \in {"up", "closed"}

OpenedOnly ==
  \A x, y \in Nodes :
    /\ link[<<x, y>>] # "none" => Opens(x, y)
    /\ task[<<x, y>>] # "none" => Opens(x, y) /\ Kind(y) \in SinkKinds
    /\ queue[<<x, y>>] # <<>> => y \in Peers(x)
    /\ index[<<x, y>>] # 0 => Made(x, y)

\* A handler holds the read lock for an entry that is in the table.
HandInTable ==
  \A r, p \in Nodes :
    hand[<<r, p>>] # None => index[<<r, p>>] # 0 /\ hand[<<r, p>>].next \in DOMAIN table[r]

\* No message comes back to its publisher.
NoEcho ==
  \A x, y \in Nodes : \A i \in DOMAIN queue[<<x, y>>] : queue[<<x, y>>][i].src # y

\* A worker of a sink is lost to nobody but a client that has departed.
SpinsForDeparted ==
  \A c, s \in Nodes : task[<<c, s>>] = "spin" => Kind(s) = "tcp sink" /\ Departed(c, s)

RelayInv == TypeOK /\ OpenedOnly /\ IndexIsOwn /\ HandInTable /\ NoEcho /\ SpinsForDeparted

\* Whatever is stopped, and however the handlers of a router meet in its table,
\* a receiver gets the messages of a publisher in order, once, with no gap.
Broadcasting ==
  INSTANCE Broadcast WITH
    Publishers <- Nodes, Receivers <- Nodes
ImplementsBroadcast == Broadcasting!Spec

\* A handler of r has no room for q, and a new transport of r waits for its lock.
Stuck(r, q) ==
  /\ alive[r] /\ ~MayRead(r)
  /\ ~IsClosed(r, q) /\ ~HasRoom(r, q)
  /\ \E p \in Nodes \ {q} :
       hand[<<r, p>>] # None /\ table[r][hand[<<r, p>>].next] = q

\* Two routers with messages for each other, neither of which can read.
LockedTogether(r, q) == Stuck(r, q) /\ Stuck(q, r)

\* Two such routers stay as they are, until one of them is stopped.
LockedForEver ==
  [][\A r, q \in Nodes :
       LockedTogether(r, q) /\ alive'[r] /\ alive'[q] => LockedTogether(r, q)']_vars

\* When no program can take a step, nobody waits any more to open a transport, unless
\* two routers lock each other: everybody has got it, or has ended.  No open is left
\* waiting for the write lock of a router whose handlers are sending, nor for a sink
\* that is serving others.
EveryOpenEnds ==
  \/ \A x, y \in Nodes : link[<<x, y>>] \in Connecting => ~alive[x]
  \/ \E r, q \in Nodes : LockedTogether(r, q)
  \/ ENABLED Progress

AllUp ==
  /\ \A n \in Nodes : alive[n]
  /\ \A x \in Nodes : \A i \in DOMAIN setup.connect[x] :
       link[<<x, setup.connect[x][i]>>] = "up"

\* Every receiver has got the messages after the k-th, and a sink has printed them.
Reported(k) ==
  \A r \in Receivers :
    /\ \A p \in Publishers : \A n \in (k + 1)..setup.count[p] :
         \E i \in DOMAIN got[r][p] : got[r][p][i] = n
    /\ \A c \in Nodes : counter[<<c, r>>] = 0

\* What is sent when everybody is connected, nobody having sent more than a first
\* message before, gets to every receiver, and into the lines of a sink, unless
\* somebody departs.
EveryMessageArrives ==
  \A k \in {0, 1} :
    AllUp /\ (\A p \in Publishers : sent[p] <= k) ~> ~AllUp \/ Reported(k)
=============================================================================
