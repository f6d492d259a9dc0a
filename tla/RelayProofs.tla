----------------------------- MODULE RelayProofs -----------------------------
(***************************************************************************)
(* Proofs about Relay, for every set of nodes, every setup of trees, every *)
(* capacity and number of workers: its invariants; from Flow on, that it   *)
(* implements Broadcast; at last, that routers which lock each other do so *)
(* for ever.                                                               *)
(***************************************************************************)
EXTENDS Relay, FiniteSetTheorems, TLAPS

\* What the assumption on the setups says of the one that runs.
LEMMA SetupFacts ==
  ASSUME TypeOK
  PROVE  /\ setup \in AllSetups
         /\ \A x, y \in Nodes : Opens(x, y) => x # y /\ ~Opens(y, x)
         /\ \A x \in Nodes : Kind(x) \in SinkKinds =>
              x \notin setup.leavers /\ \A y \in Nodes : ~Opens(x, y)
         /\ \A x \in Nodes : Kind(x) = "publisher" =>
              setup.connect[x][1] \in Nodes /\ Opens(x, setup.connect[x][1])
<1>1. setup \in Setups /\ setup \in AllSetups
  BY SetupsAssumption DEF TypeOK, NetTypeOK
<1>2. \A x \in Nodes : setup.connect[x] \in Seq(Nodes)
  BY <1>1 DEF AllSetups
<1>3. ASSUME NEW x \in Nodes, NEW y \in Nodes, Opens(x, y)
      PROVE  x # y /\ ~Opens(y, x)
  BY <1>1, <1>3, SetupsAssumption DEF Opens
<1>4. ASSUME NEW x \in Nodes, Kind(x) \in SinkKinds
      PROVE  x \notin setup.leavers /\ \A y \in Nodes : ~Opens(x, y)
  BY <1>1, <1>4, SetupsAssumption DEF Opens, Kind
<1>5. ASSUME NEW x \in Nodes, Kind(x) = "publisher"
      PROVE  setup.connect[x][1] \in Nodes /\ Opens(x, setup.connect[x][1])
  <2>1. Len(setup.connect[x]) = 1
    BY <1>1, <1>5, SetupsAssumption DEF Kind
  <2> QED BY <1>2, <2>1 DEF Opens
<1> QED BY <1>1, <1>3, <1>4, <1>5

\* The steps, by the nodes that take part in them.
LEMMA StepCases ==
  ASSUME TypeOK, [Next]_vars
  PROVE  \/ UNCHANGED vars
         \/ \E x \in Nodes :
              \/ Publish(x) \/ PublishFails(x)
              \/ Dial(x) /\ UNCHANGED <<routerVars, sinkVars>>
              \/ Leave(x) /\ UNCHANGED <<routerVars, sinkVars>>
         \/ \E x \in Nodes : \E y \in Peers(x) : Handshake(x, y) \/ Serve(x, y)
<1>1. ASSUME NEW x \in Nodes, NEW i \in DOMAIN setup.connect[x]
      PROVE  setup.connect[x][i] \in Peers(x) /\ x \in Peers(setup.connect[x][i])
  <2>1. setup.connect[x] \in Seq(Nodes)
    BY SetupFacts DEF AllSetups
  <2>2. setup.connect[x][i] \in Nodes
    BY <2>1
  <2> QED BY <2>2 DEF Opens, Peers
<1>2. CASE Progress
  <2>1. ASSUME NEW x \in Nodes, NEW i \in DOMAIN setup.connect[x],
               LET y == setup.connect[x][i] IN Handshake(x, y) \/ Serve(x, y) \/ Serve(y, x)
        PROVE  \E u \in Nodes : \E v \in Peers(u) : Handshake(u, v) \/ Serve(u, v)
    <3>1. setup.connect[x][i] \in Nodes
      BY <1>1 DEF Peers
    <3> QED BY <1>1, <2>1, <3>1
  <2> QED BY <1>2, <2>1 DEF Progress
<1> QED BY <1>2 DEF Next

\* Every step keeps the types.
LEMMA TypeStep ==
  ASSUME TypeOK, [Next]_vars
  PROVE  TypeOK'
<1>a. \A x \in Nodes : \A y \in Peers(x) : y \in Nodes /\ <<x, y>> \in Pairs /\ <<y, x>> \in Pairs
  BY DEF Peers, Pairs
<1>b. \A x \in Nodes : Kind(x) = "publisher" => <<x, setup.connect[x][1]>> \in Pairs
  BY SetupFacts DEF Pairs
<1>c. /\ \A s \in Nodes, n \in 1..MaxMsgs : [src |-> s, seq |-> n] \in Msgs
      /\ \A m \in Msgs : m.src \in Nodes /\ m.seq \in 1..MaxMsgs
  BY DEF Msgs
<1>d. MaxMsgs \in Nat /\ setup.count \in [Nodes -> 0..MaxMsgs]
  BY SetupFacts, BoundsAssumption DEF AllSetups
<1>e. /\ queue \in [Pairs -> Seq(Msgs)]
      /\ sent \in [Nodes -> 0..MaxMsgs]
      /\ got \in [Nodes -> [Nodes -> Seq(1..MaxMsgs)]]
  BY DEF TypeOK, NetTypeOK
<1>f. /\ table \in [Nodes -> Seq(Nodes)]
      /\ index \in [Pairs -> Nat]
      /\ hand \in [Pairs -> {None} \cup [msg : Msgs, next : Nat \ {0}]]
      /\ waiting \in [Nodes -> SUBSET Nodes]
  BY DEF TypeOK, RouterTypeOK
<1>1. ASSUME UNCHANGED vars
      PROVE  TypeOK'
  BY <1>1, <1>a DEF vars, netVars, routerVars, sinkVars, TypeOK, NetTypeOK,
     RouterTypeOK, SinkTypeOK, Stages, Connecting, TaskStates
<1>2. ASSUME NEW x \in Nodes, Publish(x)
      PROVE  TypeOK'
  <2> DEFINE y == setup.connect[x][1]
             m == [src |-> x, seq |-> sent[x] + 1]
  <2>0. Kind(x) = "publisher" /\ sent[x] < setup.count[x]
    BY <1>2 DEF Publish
  <2>1. <<x, y>> \in Pairs /\ sent[x] + 1 \in 1..MaxMsgs
    BY <2>0, <1>b, <1>d, <1>e
  <2>2. Append(queue[<<x, y>>], m) \in Seq(Msgs)
    BY <2>1, <1>c, <1>e
  <2>3. queue' = [queue EXCEPT ![<<x, y>>] = Append(queue[<<x, y>>], m)]
    BY <1>2 DEF Publish, Queued
  <2>4. queue' \in [Pairs -> Seq(Msgs)]
    BY <2>1, <2>2, <2>3, <1>e
  <2>5. sent' \in [Nodes -> 0..MaxMsgs]
    BY <1>2, <2>1, <1>e DEF Publish
  <2> QED
    BY <1>2, <2>4, <2>5, <1>a DEF Publish, routerVars, sinkVars,
       TypeOK, NetTypeOK, RouterTypeOK, SinkTypeOK, Stages, Connecting, TaskStates
<1>3. ASSUME NEW x \in Nodes, PublishFails(x)
      PROVE  TypeOK'
  BY <1>3 DEF PublishFails, routerVars, sinkVars,
     TypeOK, NetTypeOK, RouterTypeOK, SinkTypeOK, Stages, Connecting, TaskStates
<1>4. ASSUME NEW x \in Nodes, Dial(x), UNCHANGED <<routerVars, sinkVars>>
      PROVE  TypeOK'
  <2>1. PICK i \in DOMAIN setup.connect[x] :
          link' = [link EXCEPT ![<<x, setup.connect[x][i]>>] = "dialled"]
    BY <1>4 DEF Dial
  <2>2. setup.connect[x][i] \in Peers(x)
    BY SetupFacts, <2>1 DEF AllSetups, Opens, Peers
  <2> QED
    BY <1>4, <2>1, <2>2, <1>a DEF Dial, routerVars, sinkVars,
       TypeOK, NetTypeOK, RouterTypeOK, SinkTypeOK, Stages, Connecting, TaskStates
<1>5. ASSUME NEW x \in Nodes, Leave(x), UNCHANGED <<routerVars, sinkVars>>
      PROVE  TypeOK'
  BY <1>5, <1>a DEF Leave, routerVars, sinkVars, TypeOK, NetTypeOK, RouterTypeOK,
     SinkTypeOK, Stages, Connecting, TaskStates
<1>6. ASSUME NEW x \in Nodes, NEW y \in Peers(x), Accept(x, y)
      PROVE  TypeOK'
  <2>1. link' \in [Pairs -> Stages]
    BY <1>6, <1>a DEF Accept, TypeOK, NetTypeOK, Stages, Connecting
  <2>2. Append(table[y], x) \in Seq(Nodes) /\ Len(table[y]) + 1 \in Nat
    <3>1. table[y] \in Seq(Nodes) /\ x \in Nodes
      BY <1>a, <1>f
    <3> QED BY <3>1
  <2>3. \/ UNCHANGED <<table, index>>
        \/ /\ table' = [table EXCEPT ![y] = Append(table[y], x)]
           /\ index' = [index EXCEPT ![<<y, x>>] = Len(table[y]) + 1]
    BY <1>6 DEF Accept, NewUnicast
  <2>5. waiting' \in [Nodes -> SUBSET Nodes]
    <3>1. waiting' = waiting \/ waiting' = [waiting EXCEPT ![y] = waiting[y] \ {x}]
      BY <1>6 DEF Accept, NewUnicast
    <3>2. waiting[y] \ {x} \in SUBSET Nodes
      BY <1>a, <1>f
    <3> QED BY <1>f, <3>1, <3>2
  <2>4. table' \in [Nodes -> Seq(Nodes)] /\ index' \in [Pairs -> Nat]
    <3> DEFINE s == Append(table[y], x)
               k == Len(table[y]) + 1
    <3>1. s \in Seq(Nodes) /\ k \in Nat
      BY <2>2
    <3>2. \/ table' = table /\ index' = index
          \/ table' = [table EXCEPT ![y] = s] /\ index' = [index EXCEPT ![<<y, x>>] = k]
      BY <2>3
    <3> HIDE DEF s, k
    <3>3. table' \in [Nodes -> Seq(Nodes)]
      BY <3>1, <3>2, <1>f
    <3>4. index' \in [Pairs -> Nat]
      BY <3>1, <3>2, <1>f
    <3> QED BY <3>3, <3>4
  <2> QED
    BY <1>6, <2>1, <2>4, <2>5, <1>a DEF Accept, sinkVars,
       TypeOK, NetTypeOK, RouterTypeOK, SinkTypeOK, Stages, Connecting, TaskStates
<1>7. ASSUME NEW x \in Nodes, NEW y \in Peers(x), Establish(x, y)
      PROVE  TypeOK'
  <2>1. link' \in [Pairs -> Stages]
    BY <1>7, <1>a DEF Establish, TypeOK, NetTypeOK, Stages, Connecting
  <2>2. Append(table[x], y) \in Seq(Nodes) /\ Len(table[x]) + 1 \in Nat
    <3>1. table[x] \in Seq(Nodes) /\ y \in Nodes
      BY <1>a, <1>f
    <3> QED BY <3>1
  <2>3. \/ UNCHANGED <<table, index>>
        \/ /\ table' = [table EXCEPT ![x] = Append(table[x], y)]
           /\ index' = [index EXCEPT ![<<x, y>>] = Len(table[x]) + 1]
    BY <1>7 DEF Establish, NewUnicast
  <2>5. waiting' \in [Nodes -> SUBSET Nodes]
    <3>1. waiting' = waiting \/ waiting' = [waiting EXCEPT ![x] = waiting[x] \ {y}]
      BY <1>7 DEF Establish, NewUnicast
    <3>2. waiting[x] \ {y} \in SUBSET Nodes
      BY <1>a, <1>f
    <3> QED BY <1>f, <3>1, <3>2
  <2>4. table' \in [Nodes -> Seq(Nodes)] /\ index' \in [Pairs -> Nat]
    <3> DEFINE s == Append(table[x], y)
               k == Len(table[x]) + 1
    <3>1. s \in Seq(Nodes) /\ k \in Nat
      BY <2>2
    <3>2. \/ table' = table /\ index' = index
          \/ table' = [table EXCEPT ![x] = s] /\ index' = [index EXCEPT ![<<x, y>>] = k]
      BY <2>3
    <3> HIDE DEF s, k
    <3>3. table' \in [Nodes -> Seq(Nodes)]
      BY <3>1, <3>2, <1>f
    <3>4. index' \in [Pairs -> Nat]
      BY <3>1, <3>2, <1>f
    <3> QED BY <3>3, <3>4
  <2> QED
    BY <1>7, <2>1, <2>4, <2>5, <1>a DEF Establish, sinkVars,
       TypeOK, NetTypeOK, RouterTypeOK, SinkTypeOK, Stages, Connecting, TaskStates
<1>8. ASSUME NEW x \in Nodes, NEW y \in Peers(x), AnswerInit(x, y), UNCHANGED routerVars
      PROVE  TypeOK'
  BY <1>8, <1>a DEF AnswerInit, routerVars, TypeOK, NetTypeOK, RouterTypeOK,
     SinkTypeOK, Stages, Connecting, TaskStates
<1>9. ASSUME NEW x \in Nodes, NEW y \in Peers(x), SendOpenSyn(x, y), UNCHANGED <<routerVars, sinkVars>>
      PROVE  TypeOK'
  BY <1>9, <1>a DEF SendOpenSyn, routerVars, sinkVars, TypeOK, NetTypeOK,
     RouterTypeOK, SinkTypeOK, Stages, Connecting, TaskStates
<1>10. ASSUME NEW x \in Nodes, NEW y \in Peers(x), AnswerOpen(x, y), UNCHANGED routerVars
      PROVE  TypeOK'
  BY <1>10, <1>a DEF AnswerOpen, routerVars, TypeOK, NetTypeOK, RouterTypeOK,
     SinkTypeOK, Stages, Connecting, TaskStates
<1>11. ASSUME NEW x \in Nodes, NEW y \in Peers(x), OpenFails(x, y, Silent(y)), UNCHANGED <<routerVars, sinkVars>>
      PROVE  TypeOK'
  BY <1>11, <1>a DEF OpenFails, routerVars, sinkVars, TypeOK, NetTypeOK,
     RouterTypeOK, SinkTypeOK, Stages, Connecting, TaskStates
<1>12. ASSUME NEW x \in Nodes, NEW y \in Peers(x), HandleMessage(x, y), UNCHANGED sinkVars
      PROVE  TypeOK'
  <2> DEFINE q == queue[<<y, x>>]
  <2>1. q \in Seq(Msgs) /\ q # <<>>
    BY <1>12, <1>a, <1>e DEF HandleMessage
  <2>2. Head(q) \in Msgs /\ Tail(q) \in Seq(Msgs)
    BY <2>1
  <2> DEFINE h == [msg |-> Head(q), next |-> 1]
  <2>3. h \in [msg : Msgs, next : Nat \ {0}]
    BY <2>2
  <2>4. hand' = [hand EXCEPT ![<<x, y>>] = h] /\ queue' = [queue EXCEPT ![<<y, x>>] = Tail(q)]
    BY <1>12 DEF HandleMessage
  <2> HIDE DEF h, q
  <2>5. hand' \in [Pairs -> {None} \cup [msg : Msgs, next : Nat \ {0}]]
    BY <2>3, <2>4, <1>f
  <2>6. queue' \in [Pairs -> Seq(Msgs)]
    BY <2>2, <2>4, <1>e
  <2> QED
    BY <1>12, <2>5, <2>6, <1>a DEF HandleMessage, sinkVars,
       TypeOK, NetTypeOK, RouterTypeOK, SinkTypeOK, Stages, Connecting, TaskStates
<1>13. ASSUME NEW x \in Nodes, NEW y \in Peers(x), Forward(x, y), UNCHANGED sinkVars
      PROVE  TypeOK'
  <2> DEFINE m == hand[<<x, y>>].msg
             i == hand[<<x, y>>].next
             q == table[x][i]
             h == IF i = Len(table[x]) THEN None ELSE [msg |-> m, next |-> i + 1]
  <2>1. m \in Msgs /\ i \in Nat \ {0}
    BY <1>13, <1>a, <1>f DEF Forward
  <2>2. h \in {None} \cup [msg : Msgs, next : Nat \ {0}]
    BY <2>1
  <2>3. hand' = [hand EXCEPT ![<<x, y>>] = h]
    BY <1>13 DEF Forward
  <2>4. queue' = queue \/ queue' = [queue EXCEPT ![<<x, q>>] = Append(queue[<<x, q>>], m)]
    BY <1>13 DEF Forward, Queued
  <2> HIDE DEF h, m, i
  <2>5. hand' \in [Pairs -> {None} \cup [msg : Msgs, next : Nat \ {0}]]
    BY <2>2, <2>3, <1>f
  <2>6. <<x, q>> \in Pairs => Append(queue[<<x, q>>], m) \in Seq(Msgs)
    BY <2>1, <1>e
  <2>7. queue' \in [Pairs -> Seq(Msgs)]
    <3>1. CASE <<x, q>> \in Pairs
      <4> DEFINE s == Append(queue[<<x, q>>], m)
      <4>1. s \in Seq(Msgs)
        BY <3>1, <2>6
      <4> HIDE DEF s
      <4> QED BY <2>4, <4>1, <3>1, <1>e DEF s
    <3>2. CASE <<x, q>> \notin Pairs
      BY <2>4, <3>2, <1>e
    <3> QED BY <3>1, <3>2
  <2> QED
    BY <1>13, <2>5, <2>7, <1>a DEF Forward, sinkVars,
       TypeOK, NetTypeOK, RouterTypeOK, SinkTypeOK, Stages, Connecting, TaskStates
<1>14. ASSUME NEW x \in Nodes, NEW y \in Peers(x), Receive(x, y)
      PROVE  TypeOK'
  <2> DEFINE q == queue[<<y, x>>]
  <2>1. q \in Seq(Msgs) /\ q # <<>>
    BY <1>14, <1>a, <1>e DEF Receive
  <2>2. Head(q) \in Msgs /\ Tail(q) \in Seq(Msgs)
    BY <2>1
  <2>3. Head(q).src \in Nodes /\ Head(q).seq \in 1..MaxMsgs
    BY <2>2, <1>c
  <2>4. queue' = [queue EXCEPT ![<<y, x>>] = Tail(q)]
    BY <1>14 DEF Receive, Deliver
  <2> DEFINE s == Append(got[x][Head(q).src], Head(q).seq)
             g == [got[x] EXCEPT ![Head(q).src] = s]
  <2>g. got' = got \/ got' = [got EXCEPT ![x] = g]
    BY <1>14, <1>e DEF Receive, Deliver
  <2>h. /\ got[x] \in [Nodes -> Seq(1..MaxMsgs)]
        /\ got[x][Head(q).src] \in Seq(1..MaxMsgs)
    BY <2>3, <1>a, <1>e
  <2>s. s \in Seq(1..MaxMsgs)
    BY <2>h, <2>3
  <2> HIDE DEF q, s, g
  <2>5. queue' \in [Pairs -> Seq(Msgs)]
    BY <2>2, <2>4, <1>e
  <2>6. got' \in [Nodes -> [Nodes -> Seq(1..MaxMsgs)]]
    <3>1. g \in [Nodes -> Seq(1..MaxMsgs)]
      BY <2>h, <2>s DEF g
    <3> QED BY <3>1, <2>g, <1>e
  <2> QED
    BY <1>14, <2>5, <2>6, <1>a DEF Receive, routerVars, sinkVars,
       TypeOK, NetTypeOK, RouterTypeOK, SinkTypeOK, Stages, Connecting, TaskStates
<1>15. ASSUME NEW x \in Nodes, NEW y \in Peers(x), Read(x, y), UNCHANGED routerVars
      PROVE  TypeOK'
  <2> DEFINE q == queue[<<x, y>>]
  <2>1. q \in Seq(Msgs) /\ q # <<>>
    BY <1>15, <1>a, <1>e DEF Read
  <2>2. Head(q) \in Msgs /\ Tail(q) \in Seq(Msgs)
    BY <2>1
  <2>3. Head(q).src \in Nodes /\ Head(q).seq \in 1..MaxMsgs
    BY <2>2, <1>c
  <2>4. queue' = [queue EXCEPT ![<<x, y>>] = Tail(q)]
    BY <1>15 DEF Read, Deliver
  <2> DEFINE s == Append(got[y][Head(q).src], Head(q).seq)
             g == [got[y] EXCEPT ![Head(q).src] = s]
  <2>g. got' = got \/ got' = [got EXCEPT ![y] = g]
    BY <1>15, <1>e DEF Read, Deliver
  <2>h. /\ got[y] \in [Nodes -> Seq(1..MaxMsgs)]
        /\ got[y][Head(q).src] \in Seq(1..MaxMsgs)
    BY <2>3, <1>a, <1>e
  <2>s. s \in Seq(1..MaxMsgs)
    BY <2>h, <2>3
  <2> HIDE DEF q, s, g
  <2>5. queue' \in [Pairs -> Seq(Msgs)]
    BY <2>2, <2>4, <1>e
  <2>6. got' \in [Nodes -> [Nodes -> Seq(1..MaxMsgs)]]
    <3>1. g \in [Nodes -> Seq(1..MaxMsgs)]
      BY <2>h, <2>s DEF g
    <3> QED BY <3>1, <2>g, <1>e
  <2>7. counter' \in [Pairs -> Nat]
    <3>1. counter \in [Pairs -> Nat] /\ <<x, y>> \in Pairs
      BY <1>a DEF TypeOK, SinkTypeOK
    <3>2. counter' = [counter EXCEPT ![<<x, y>>] = counter[<<x, y>>] + 1]
      BY <1>15 DEF Read
    <3>3. counter[<<x, y>>] + 1 \in Nat
      BY <3>1
    <3> QED BY <3>1, <3>2, <3>3
  <2> QED
    BY <1>15, <2>5, <2>6, <2>7, <1>a DEF Read, routerVars,
       TypeOK, NetTypeOK, RouterTypeOK, SinkTypeOK, Stages, Connecting, TaskStates
<1>16. ASSUME NEW x \in Nodes, NEW y \in Peers(x), Eof(x, y), UNCHANGED routerVars
      PROVE  TypeOK'
  <2>1. PICK t \in {"spin", "done"} : task' = [task EXCEPT ![<<x, y>>] = t]
    BY <1>16 DEF Eof
  <2> QED
    BY <1>16, <2>1, <1>a DEF Eof, netVars, routerVars,
       TypeOK, NetTypeOK, RouterTypeOK, SinkTypeOK, Stages, Connecting, TaskStates
<1>17. ASSUME NEW x \in Nodes, NEW y \in Peers(x), PrintLine(x, y), UNCHANGED routerVars
      PROVE  TypeOK'
  BY <1>17, <1>a DEF PrintLine, netVars, routerVars, TypeOK, NetTypeOK,
     RouterTypeOK, SinkTypeOK, Stages, Connecting, TaskStates
<1>18. ASSUME NEW x \in Nodes, NEW y \in Peers(x), FallTcp(x, y), UNCHANGED routerVars
      PROVE  TypeOK'
  BY <1>18, <1>a DEF FallTcp, routerVars, sinkVars, TypeOK, NetTypeOK, RouterTypeOK,
     SinkTypeOK, Stages, Connecting, TaskStates
<1>19. ASSUME NEW x \in Nodes, NEW y \in Peers(x), FallUdp(x, y), UNCHANGED routerVars
      PROVE  TypeOK'
  BY <1>19, <1>a DEF FallUdp, routerVars, sinkVars, TypeOK, NetTypeOK, RouterTypeOK,
     SinkTypeOK, Stages, Connecting, TaskStates
<1>20. ASSUME NEW x \in Nodes, NEW y \in Peers(x), Close(x, y, Silent(y)), Closed(x, y), UNCHANGED sinkVars
      PROVE  TypeOK'
  <2>1. <<>> \in Seq(Msgs)
    OBVIOUS
  <2> QED
    BY <1>20, <2>1, <1>a DEF Close, Closed, routerVars, sinkVars,
       TypeOK, NetTypeOK, RouterTypeOK, SinkTypeOK, Stages, Connecting, TaskStates
<1>21. ASSUME NEW x \in Nodes, NEW y \in Peers(x), WaitToWrite(x, y), UNCHANGED sinkVars
      PROVE  TypeOK'
  <2>1. waiting' = [waiting EXCEPT ![x] = waiting[x] \cup {y}]
    BY <1>21 DEF WaitToWrite
  <2>2. waiting[x] \cup {y} \in SUBSET Nodes
    BY <1>a, <1>f
  <2>3. waiting' \in [Nodes -> SUBSET Nodes]
    BY <1>f, <2>1, <2>2
  <2> QED
    BY <1>21, <2>3, <1>a DEF WaitToWrite, netVars, sinkVars,
       TypeOK, NetTypeOK, RouterTypeOK, SinkTypeOK, Stages, Connecting, TaskStates
<1> QED
  BY <1>1, <1>2, <1>3, <1>4, <1>5, <1>6, <1>7, <1>8, <1>9, <1>10, <1>11, <1>12,
     <1>13, <1>14, <1>15, <1>16, <1>17, <1>18, <1>19, <1>20, <1>21, StepCases DEF
     Handshake, Serve, Peers

\* What each action leaves alone.
LEMMA Frames ==
  ASSUME NEW x, NEW y
  PROVE  /\ Publish(x) => UNCHANGED <<setup, alive, link, got, table, index, hand, task, counter>>
         /\ PublishFails(x) => UNCHANGED <<setup, link, queue, sent, got, table, index, hand, task, counter>>
         /\ Dial(x) => UNCHANGED <<setup, alive, queue, sent, got>>
         /\ Leave(x) => UNCHANGED <<setup, link, queue, sent, got>>
         /\ Accept(x, y) => UNCHANGED <<setup, alive, queue, sent, got, hand, task, counter>>
         /\ Establish(x, y) => UNCHANGED <<setup, alive, queue, sent, got, hand, task, counter>>
         /\ AnswerInit(x, y) => UNCHANGED <<setup, alive, queue, sent, got, counter>>
         /\ SendOpenSyn(x, y) => UNCHANGED <<setup, alive, queue, sent, got>>
         /\ AnswerOpen(x, y) => UNCHANGED <<setup, alive, queue, sent, got, counter>>
         /\ OpenFails(x, y, Silent(y)) => UNCHANGED <<setup, queue, sent, got>>
         /\ WaitToWrite(x, y) => UNCHANGED <<setup, alive, link, queue, sent, got, table, index, hand>>
         /\ HandleMessage(x, y) => UNCHANGED <<setup, alive, link, sent, got, table, index>>
         /\ Forward(x, y) => UNCHANGED <<setup, alive, link, sent, got, table, index>>
         /\ Receive(x, y) => UNCHANGED <<setup, alive, link, sent, table, index, hand, task, counter>>
         /\ Read(x, y) => UNCHANGED <<setup, alive, link, sent, task>>
         /\ Eof(x, y) => UNCHANGED <<setup, alive, link, queue, sent, got, counter>>
         /\ PrintLine(x, y) => UNCHANGED <<setup, alive, link, queue, sent, got, task>>
         /\ FallTcp(x, y) => UNCHANGED <<setup, link, queue, sent, got, task, counter>>
         /\ FallUdp(x, y) => UNCHANGED <<setup, link, queue, sent, got, task, counter>>
         /\ Close(x, y, Silent(y)) => UNCHANGED <<setup, alive, sent, got>>
<1>1. Publish(x) => UNCHANGED <<setup, alive, link, got, table, index, hand, task, counter>>
  BY DEF Publish, routerVars, sinkVars
<1>2. PublishFails(x) => UNCHANGED <<setup, link, queue, sent, got, table, index, hand, task, counter>>
  BY DEF PublishFails, routerVars, sinkVars
<1>3. Dial(x) => UNCHANGED <<setup, alive, queue, sent, got>>
  BY DEF Dial
<1>4. Leave(x) => UNCHANGED <<setup, link, queue, sent, got>>
  BY DEF Leave
<1>5. Accept(x, y) => UNCHANGED <<setup, alive, queue, sent, got, hand, task, counter>>
  BY DEF Accept, sinkVars
<1>6. Establish(x, y) => UNCHANGED <<setup, alive, queue, sent, got, hand, task, counter>>
  BY DEF Establish, sinkVars
<1>7. AnswerInit(x, y) => UNCHANGED <<setup, alive, queue, sent, got, counter>>
  BY DEF AnswerInit
<1>8. SendOpenSyn(x, y) => UNCHANGED <<setup, alive, queue, sent, got>>
  BY DEF SendOpenSyn
<1>9. AnswerOpen(x, y) => UNCHANGED <<setup, alive, queue, sent, got, counter>>
  BY DEF AnswerOpen
<1>10. OpenFails(x, y, Silent(y)) => UNCHANGED <<setup, queue, sent, got>>
  BY DEF OpenFails
<1>11. HandleMessage(x, y) => UNCHANGED <<setup, alive, link, sent, got, table, index>>
  BY DEF HandleMessage
<1>12. Forward(x, y) => UNCHANGED <<setup, alive, link, sent, got, table, index>>
  BY DEF Forward
<1>13. Receive(x, y) => UNCHANGED <<setup, alive, link, sent, table, index, hand, task, counter>>
  BY DEF Receive, routerVars, sinkVars, Deliver
<1>14. Read(x, y) => UNCHANGED <<setup, alive, link, sent, task>>
  BY DEF Read, Deliver
<1>15. Eof(x, y) => UNCHANGED <<setup, alive, link, queue, sent, got, counter>>
  BY DEF Eof, netVars
<1>16. PrintLine(x, y) => UNCHANGED <<setup, alive, link, queue, sent, got, task>>
  BY DEF PrintLine, netVars
<1>17. FallTcp(x, y) => UNCHANGED <<setup, link, queue, sent, got, task, counter>>
  BY DEF FallTcp, sinkVars
<1>18. FallUdp(x, y) => UNCHANGED <<setup, link, queue, sent, got, task, counter>>
  BY DEF FallUdp, sinkVars
<1>19. Close(x, y, Silent(y)) => UNCHANGED <<setup, alive, sent, got>>
  BY DEF Close
<1>20. WaitToWrite(x, y) => UNCHANGED <<setup, alive, link, queue, sent, got, table, index, hand>>
  BY DEF WaitToWrite, netVars
<1> QED
  BY <1>1, <1>2, <1>3, <1>4, <1>5, <1>6, <1>7, <1>8, <1>9, <1>10, <1>11, <1>12,
     <1>13, <1>14, <1>15, <1>16, <1>17, <1>18, <1>19, <1>20

\* The steps that change a variable.
LEMMA Changes ==
  ASSUME TypeOK, [Next]_vars
  PROVE  /\ setup' = setup
         /\ \/ link' = link
            \/ \E x \in Nodes : Dial(x)
            \/ \E x \in Nodes : \E y \in Peers(x) :
                 \/ Accept(x, y) \/ Establish(x, y) \/ AnswerInit(x, y) \/ SendOpenSyn(x, y)
                 \/ AnswerOpen(x, y) \/ OpenFails(x, y, Silent(y)) \/ Close(x, y, Silent(y))
         /\ \/ UNCHANGED <<table, index>>
            \/ \E x \in Nodes : \E y \in Peers(x) : Accept(x, y) \/ Establish(x, y)
         /\ \/ hand' = hand
            \/ \E x \in Nodes : \E y \in Peers(x) : HandleMessage(x, y) \/ Forward(x, y)
         /\ \/ task' = task
            \/ \E x \in Nodes : \E y \in Peers(x) : AnswerInit(x, y) \/ AnswerOpen(x, y) \/ Eof(x, y)
         /\ \/ alive' = alive
            \/ \E x \in Nodes : PublishFails(x) \/ Leave(x)
            \/ \E x \in Nodes : \E y \in Peers(x) :
                 OpenFails(x, y, Silent(y)) \/ FallTcp(x, y) \/ FallUdp(x, y)
         /\ \/ queue' = queue
            \/ \E x \in Nodes : Publish(x)
            \/ \E x \in Nodes : \E y \in Peers(x) :
                 \/ HandleMessage(x, y) \/ Forward(x, y) \/ Receive(x, y) \/ Read(x, y)
                 \/ Close(x, y, Silent(y))
<1>1. CASE UNCHANGED vars
  BY <1>1 DEF vars, netVars, routerVars, sinkVars
<1>2. ASSUME NEW x \in Nodes,
             \/ Publish(x) \/ PublishFails(x)
             \/ Dial(x) /\ UNCHANGED <<routerVars, sinkVars>>
             \/ Leave(x) /\ UNCHANGED <<routerVars, sinkVars>>
      PROVE  Changes!3
  BY <1>2, Frames DEF routerVars, sinkVars
<1>3. ASSUME NEW x \in Nodes, NEW y \in Peers(x), Handshake(x, y)
      PROVE  Changes!3
  BY <1>3, Frames DEF Handshake, routerVars, sinkVars
<1>4. ASSUME NEW x \in Nodes, NEW y \in Peers(x), Serve(x, y)
      PROVE  Changes!3
  BY <1>4, Frames DEF Serve, Closed, routerVars, sinkVars
<1> QED BY <1>1, <1>2, <1>3, <1>4, StepCases

\* The setup does not change, nor what is defined by it.
LEMMA SetupStays ==
  ASSUME TypeOK, [Next]_vars
  PROVE  /\ \A x, y : Opens(x, y)' <=> Opens(x, y)
         /\ \A x : Kind(x)' = Kind(x)
         /\ \A x : Peers(x)' = Peers(x)
BY Changes DEF Opens, Kind, Peers

LEMMA PairFacts ==
  /\ \A x, y \in Nodes : <<x, y>> \in Pairs
  /\ \A x \in Nodes : \A y \in Peers(x) : y \in Nodes
BY DEF Pairs, Peers

\* A transport is made from its opener to the peer, and does not go back.
LEMMA LinkStep ==
  ASSUME TypeOK, OpenedOnly, [Next]_vars, NEW x \in Nodes, NEW y \in Nodes
  PROVE  /\ link'[<<x, y>>] # "none" => Opens(x, y)
         /\ link[<<x, y>>] \in {"accepted", "up", "closed"} =>
              link'[<<x, y>>] \in {link[<<x, y>>], "up", "closed"}
         /\ link[<<x, y>>] = "up" => link'[<<x, y>>] \in {"up", "closed"}
         /\ link[<<x, y>>] = "closed" => link'[<<x, y>>] = "closed"
<1> DEFINE l == link[<<x, y>>]
           m == link'[<<x, y>>]
           Goal == /\ m # "none" => Opens(x, y)
                   /\ l \in {"accepted", "up", "closed"} => m \in {l, "up", "closed"}
                   /\ l = "up" => m \in {"up", "closed"}
                   /\ l = "closed" => m = "closed"
<1>a. link \in [Pairs -> Stages] /\ <<x, y>> \in Pairs
  BY PairFacts DEF TypeOK, NetTypeOK
<1>b. l # "none" => Opens(x, y)
  BY DEF OpenedOnly
<1>1. CASE link' = link
  BY <1>1, <1>b
<1>2. ASSUME NEW u \in Nodes, Dial(u)
      PROVE  Goal
  <2>1. PICK i \in DOMAIN setup.connect[u] :
          /\ link[<<u, setup.connect[u][i]>>] = "none"
          /\ link' = [link EXCEPT ![<<u, setup.connect[u][i]>>] = "dialled"]
    BY <1>2 DEF Dial
  <2>2. Opens(u, setup.connect[u][i])
    BY DEF Opens
  <2> QED BY <1>a, <1>b, <2>1, <2>2
<1>3. ASSUME NEW u \in Nodes, NEW v \in Peers(u),
             \/ Accept(u, v) \/ Establish(u, v) \/ AnswerInit(u, v) \/ SendOpenSyn(u, v)
             \/ AnswerOpen(u, v)
      PROVE  Goal
  <2>1. PICK s, t \in Stages :
          /\ link[<<u, v>>] = s /\ link' = [link EXCEPT ![<<u, v>>] = t]
          /\ s \notin {"none", "up", "closed"} /\ (s = "accepted" => t = "up")
    BY <1>3 DEF Accept, Establish, AnswerInit, SendOpenSyn, AnswerOpen, Stages, Connecting
  <2> QED BY <1>a, <1>b, <2>1
<1>4. ASSUME NEW u \in Nodes, NEW v \in Peers(u),
             OpenFails(u, v, Silent(v)) \/ Close(u, v, Silent(v))
      PROVE  Goal
  <2>1. link' = [link EXCEPT ![<<u, v>>] = "closed"]
    BY <1>4 DEF OpenFails, Close
  <2>2. Opens(u, v) \/ link[<<u, v>>] # "none"
    BY <1>4 DEF OpenFails, Close, Connecting
  <2> QED BY <1>a, <1>b, <2>1, <2>2
<1>5. Goal
  BY <1>1, <1>2, <1>3, <1>4, Changes
<1> QED BY <1>5

\* Every step keeps to the endpoints that were opened.
LEMMA OpenedStep ==
  ASSUME TypeOK, OpenedOnly, IndexIsOwn, HandInTable, [Next]_vars
  PROVE  OpenedOnly'
<1> SUFFICES ASSUME NEW x \in Nodes, NEW y \in Nodes
    PROVE  /\ link'[<<x, y>>] # "none" => Opens(x, y)
           /\ task'[<<x, y>>] # "none" => Opens(x, y) /\ Kind(y) \in SinkKinds
           /\ queue'[<<x, y>>] # <<>> => y \in Peers(x)
           /\ index'[<<x, y>>] # 0 => Made(x, y)'
  BY SetupStays DEF OpenedOnly
<1>a. <<x, y>> \in Pairs
  BY PairFacts
<1>1. link'[<<x, y>>] # "none" => Opens(x, y)
  BY LinkStep
<1>2. task'[<<x, y>>] # "none" => Opens(x, y) /\ Kind(y) \in SinkKinds
  <2>a. task[<<x, y>>] # "none" => Opens(x, y) /\ Kind(y) \in SinkKinds
    BY DEF OpenedOnly
  <2>b. task \in [Pairs -> TaskStates]
    BY DEF TypeOK, SinkTypeOK
  <2>1. ASSUME NEW u \in Nodes, NEW v \in Peers(u), AnswerInit(u, v)
        PROVE  Opens(u, v) /\ Kind(v) \in SinkKinds /\ task' = [task EXCEPT ![<<u, v>>] = "open"]
    BY <2>1, PairFacts DEF AnswerInit, Runs, OpenedOnly
  <2>2. ASSUME NEW u \in Nodes, NEW v \in Peers(u), AnswerOpen(u, v)
        PROVE  Opens(u, v) /\ Kind(v) \in SinkKinds /\ task' = [task EXCEPT ![<<u, v>>] = "read"]
    BY <2>2, PairFacts DEF AnswerOpen, Runs, OpenedOnly
  <2>3. ASSUME NEW u \in Nodes, NEW v \in Peers(u), Eof(u, v)
        PROVE  /\ Opens(u, v) /\ Kind(v) \in SinkKinds
               /\ \E t \in {"spin", "done"} : task' = [task EXCEPT ![<<u, v>>] = t]
    BY <2>3, PairFacts DEF Eof, Runs, OpenedOnly
  <2> QED BY <1>a, <2>a, <2>b, <2>1, <2>2, <2>3, Changes
<1>3. queue'[<<x, y>>] # <<>> => y \in Peers(x)
  <2>a. queue[<<x, y>>] # <<>> => y \in Peers(x)
    BY DEF OpenedOnly
  <2>b. queue \in [Pairs -> Seq(Msgs)]
    BY DEF TypeOK, NetTypeOK
  <2>1. ASSUME NEW u \in Nodes, Publish(u)
        PROVE  queue'[<<x, y>>] # <<>> => y \in Peers(x)
    <3>1. Kind(u) = "publisher"
      BY <2>1 DEF Publish
    <3>2. \E q \in Peers(u) : \E s : queue' = [queue EXCEPT ![<<u, q>>] = s]
      BY <2>1, <3>1, SetupFacts DEF Publish, Queued, Peers
    <3> QED BY <1>a, <2>a, <2>b, <3>2
  <2>2. ASSUME NEW u \in Nodes, NEW v \in Peers(u), Forward(u, v)
        PROVE  queue'[<<x, y>>] # <<>> => y \in Peers(x)
    <3> DEFINE i == hand[<<u, v>>].next
               q == table[u][i]
    <3>1. \/ queue' = queue
          \/ \E s : queue' = [queue EXCEPT ![<<u, q>>] = s]
      BY <2>2 DEF Forward, Queued
    <3>2. i \in DOMAIN table[u]
      BY <2>2, PairFacts DEF Forward, HandInTable
    <3>3. q \in Nodes
      BY <3>2 DEF TypeOK, RouterTypeOK
    <3>4. index[<<u, q>>] # 0
      BY <3>2 DEF IndexIsOwn, TypeOK, RouterTypeOK
    <3>5. q \in Peers(u)
      BY <3>3, <3>4 DEF OpenedOnly, Made, Peers
    <3> HIDE DEF q
    <3> QED BY <1>a, <2>a, <2>b, <3>1, <3>5
  <2>3. ASSUME NEW u \in Nodes, NEW v \in Peers(u),
               \/ HandleMessage(u, v) \/ Receive(u, v) \/ Read(u, v) \/ Close(u, v, Silent(v))
        PROVE  queue'[<<x, y>>] # <<>> => queue[<<x, y>>] # <<>>
    <3>1. HandleMessage(u, v) \/ Receive(u, v) =>
            queue[<<v, u>>] # <<>> /\ queue' = [queue EXCEPT ![<<v, u>>] = Tail(@)]
      BY DEF HandleMessage, Receive, Deliver
    <3>2. Read(u, v) => queue[<<u, v>>] # <<>> /\ queue' = [queue EXCEPT ![<<u, v>>] = Tail(@)]
      BY DEF Read, Deliver
    <3>3. Close(u, v, Silent(v)) => queue' = [queue EXCEPT ![<<u, v>>] = <<>>, ![<<v, u>>] = <<>>]
      BY DEF Close
    <3> QED BY <1>a, <2>b, <2>3, <3>1, <3>2, <3>3
  <2> QED BY <2>a, <2>1, <2>2, <2>3, Changes
<1>4. index'[<<x, y>>] # 0 => Made(x, y)'
  <2>a. index \in [Pairs -> Nat]
    BY DEF TypeOK, RouterTypeOK
  <2>b. link \in [Pairs -> Stages] /\ <<x, y>> \in Pairs /\ <<y, x>> \in Pairs
    BY PairFacts DEF TypeOK, NetTypeOK
  <2>1. Made(x, y) => Made(x, y)'
    BY LinkStep, SetupStays DEF Made
  <2>2. ASSUME NEW u \in Nodes, NEW v \in Peers(u), Accept(u, v), ~UNCHANGED index
        PROVE  index' = [index EXCEPT ![<<v, u>>] = Len(table[v]) + 1] /\ Made(v, u)'
    <3>1. Opens(u, v) /\ link' = [link EXCEPT ![<<u, v>>] = "accepted"]
      BY <2>2, PairFacts DEF Accept, OpenedOnly
    <3>2. link'[<<u, v>>] = "accepted"
      BY <3>1, PairFacts DEF TypeOK, NetTypeOK
    <3> QED BY <2>2, <3>1, <3>2, SetupStays DEF Accept, NewUnicast, Made
  <2>3. ASSUME NEW u \in Nodes, NEW v \in Peers(u), Establish(u, v), ~UNCHANGED index
        PROVE  index' = [index EXCEPT ![<<u, v>>] = Len(table[u]) + 1] /\ Made(u, v)'
    <3>1. Opens(u, v) /\ link' = [link EXCEPT ![<<u, v>>] = "up"]
      BY <2>3, PairFacts DEF Establish, OpenedOnly
    <3>2. link'[<<u, v>>] = "up"
      BY <3>1, PairFacts DEF TypeOK, NetTypeOK
    <3> QED BY <2>3, <3>1, <3>2, SetupStays DEF Establish, NewUnicast, Made
  <2>4. index[<<x, y>>] # 0 => Made(x, y)
    BY DEF OpenedOnly
  <2> QED BY <1>a, <2>a, <2>1, <2>2, <2>3, <2>4, Changes
<1> QED BY <1>1, <1>2, <1>3, <1>4

\* A transport that has no index yet is inserted at the end, or nothing is.
LEMMA InsertStep ==
  ASSUME TypeOK, OpenedOnly, IndexIsOwn, [Next]_vars
  PROVE  \/ UNCHANGED <<table, index>>
         \/ \E r, p \in Nodes :
              /\ index[<<r, p>>] = 0
              /\ table' = [table EXCEPT ![r] = Append(@, p)]
              /\ index' = [index EXCEPT ![<<r, p>>] = Len(table[r]) + 1]
              /\ ~ReadLocked(r)
<1> DEFINE Inserts(r, p) == /\ index[<<r, p>>] = 0
                            /\ table' = [table EXCEPT ![r] = Append(@, p)]
                            /\ index' = [index EXCEPT ![<<r, p>>] = Len(table[r]) + 1]
                            /\ ~ReadLocked(r)
<1>1. ASSUME NEW u \in Nodes, NEW v \in Peers(u), Accept(u, v), ~UNCHANGED <<table, index>>
      PROVE  Inserts(v, u)
  <2>1. link[<<u, v>>] = "dialled" /\ Opens(u, v) /\ ~Opens(v, u)
    BY <1>1, PairFacts, SetupFacts DEF Accept, OpenedOnly
  <2>2. index[<<v, u>>] = 0
    BY <2>1, PairFacts DEF OpenedOnly, Made
  <2> QED BY <1>1, <2>2 DEF Accept, NewUnicast
<1>2. ASSUME NEW u \in Nodes, NEW v \in Peers(u), Establish(u, v), ~UNCHANGED <<table, index>>
      PROVE  Inserts(u, v)
  <2>1. link[<<u, v>>] = "accepted" /\ Opens(u, v) /\ ~Opens(v, u)
    BY <1>2, PairFacts, SetupFacts DEF Establish, OpenedOnly
  <2>2. index[<<u, v>>] = 0
    BY <2>1, PairFacts DEF OpenedOnly, Made
  <2> QED BY <1>2, <2>2 DEF Establish, NewUnicast
<1> QED BY <1>1, <1>2, Changes, PairFacts

\* The indices of the table and of the handlers go together.
LEMMA IndexStep ==
  ASSUME TypeOK, OpenedOnly, IndexIsOwn, [Next]_vars
  PROVE  IndexIsOwn'
<1>a. table \in [Nodes -> Seq(Nodes)] /\ index \in [Pairs -> Nat] /\ link \in [Pairs -> Stages]
  BY DEF TypeOK, RouterTypeOK, NetTypeOK
<1> DEFINE Own(r, p) == /\ \A i \in DOMAIN table[r] : index[<<r, table[r][i]>>] = i
                        /\ index[<<r, p>>] # 0 =>
                             index[<<r, p>>] \in DOMAIN table[r] /\ table[r][index[<<r, p>>]] = p
                        /\ Kind(r) = "router" /\ HasEnd(r, p) => index[<<r, p>>] # 0
<1> SUFFICES ASSUME NEW x \in Nodes, NEW y \in Nodes
    PROVE  Own(x, y)'
  BY DEF IndexIsOwn
<1>b. <<x, y>> \in Pairs /\ <<y, x>> \in Pairs
  BY PairFacts
<1>c. /\ \A i \in DOMAIN table[x] : index[<<x, table[x][i]>>] = i /\ table[x][i] \in Nodes
      /\ index[<<x, y>>] # 0 =>
           index[<<x, y>>] \in DOMAIN table[x] /\ table[x][index[<<x, y>>]] = y
      /\ Kind(x) = "router" /\ HasEnd(x, y) => index[<<x, y>>] # 0
  BY <1>a DEF IndexIsOwn
<1>1. /\ \A i \in DOMAIN table'[x] : index'[<<x, table'[x][i]>>] = i
      /\ index'[<<x, y>>] # 0 =>
           index'[<<x, y>>] \in DOMAIN table'[x] /\ table'[x][index'[<<x, y>>]] = y
      /\ index[<<x, y>>] # 0 => index'[<<x, y>>] # 0
  <2>1. CASE UNCHANGED <<table, index>>
    BY <1>c, <2>1
  <2>2. ASSUME NEW r \in Nodes, NEW p \in Nodes, index[<<r, p>>] = 0,
               table' = [table EXCEPT ![r] = Append(@, p)],
               index' = [index EXCEPT ![<<r, p>>] = Len(table[r]) + 1]
        PROVE  /\ \A i \in DOMAIN table'[x] : index'[<<x, table'[x][i]>>] = i
               /\ index'[<<x, y>>] # 0 =>
                    index'[<<x, y>>] \in DOMAIN table'[x] /\ table'[x][index'[<<x, y>>]] = y
               /\ index[<<x, y>>] # 0 => index'[<<x, y>>] # 0
    <3>1. CASE x # r
      <4>1. table'[x] = table[x] /\ \A z \in Nodes : index'[<<x, z>>] = index[<<x, z>>]
        BY <1>a, <2>2, <3>1, PairFacts
      <4> QED BY <1>c, <4>1
    <3>2. CASE x = r
      <4> DEFINE n == Len(table[x])
      <4>1. /\ n \in Nat /\ DOMAIN table[x] = 1..n
            /\ table'[x] = Append(table[x], p) /\ DOMAIN table'[x] = 1..(n + 1)
            /\ table'[x][n + 1] = p /\ \A i \in 1..n : table'[x][i] = table[x][i]
        BY <1>a, <2>2, <3>2
      <4>2. /\ index'[<<x, p>>] = n + 1
            /\ \A z \in Nodes : z # p => index'[<<x, z>>] = index[<<x, z>>]
        BY <1>a, <2>2, <3>2, PairFacts
      <4>3. \A i \in 1..n : table[x][i] # p
        <5> SUFFICES ASSUME NEW i \in 1..n, table[x][i] = p PROVE FALSE
          OBVIOUS
        <5>1. index[<<x, table[x][i]>>] = i
          BY <1>c, <4>1
        <5> QED BY <2>2, <3>2, <4>1, <5>1
      <4> HIDE DEF n
      <4>4. \A i \in 1..n : index'[<<x, table'[x][i]>>] = i
        <5> SUFFICES ASSUME NEW i \in 1..n PROVE index'[<<x, table'[x][i]>>] = i
          OBVIOUS
        <5>1. table'[x][i] = table[x][i] /\ table[x][i] \in Nodes /\ index[<<x, table[x][i]>>] = i
          BY <1>c, <4>1
        <5> QED BY <4>2, <4>3, <5>1
      <4>5. \A i \in 1..(n + 1) : i \in 1..n \/ i = n + 1
        BY <4>1
      <4>6. \A i \in DOMAIN table'[x] : index'[<<x, table'[x][i]>>] = i
        BY <4>1, <4>2, <4>4, <4>5
      <4>7. CASE y = p
        BY <2>2, <3>2, <4>1, <4>2, <4>6, <4>7
      <4>8. CASE y # p
        <5>1. index'[<<x, y>>] = index[<<x, y>>]
          BY <4>2, <4>8
        <5>2. \A i \in 1..n : i \in 1..(n + 1)
          BY <4>1
        <5> QED BY <1>c, <4>1, <4>6, <5>1, <5>2
      <4> QED BY <4>7, <4>8
    <3> QED BY <3>1, <3>2
  <2> QED BY <2>1, <2>2, InsertStep
<1>2. Kind(x) = "router" /\ HasEnd(x, y)' => index'[<<x, y>>] # 0
  <2>1. CASE link' = link
    BY <1>1, <1>c, <2>1 DEF HasEnd
  <2>2. ASSUME NEW u \in Nodes, NEW v \in Peers(u), Accept(u, v), Kind(x) = "router", HasEnd(x, y)'
        PROVE  index'[<<x, y>>] # 0
    <3>1. link' = [link EXCEPT ![<<u, v>>] = "accepted"] /\ NewUnicast(v, u)
      BY <2>2 DEF Accept
    <3>2. HasEnd(x, y) \/ (x = v /\ y = u)
      BY <1>a, <1>b, <2>2, <3>1, PairFacts DEF HasEnd
    <3>3. x = v /\ y = u => index'[<<x, y>>] # 0
      <4>1. x = v /\ y = u => index' = [index EXCEPT ![<<x, y>>] = Len(table[x]) + 1]
        BY <2>2, <3>1 DEF NewUnicast
      <4>2. Len(table[x]) \in Nat
        BY <1>a
      <4> QED BY <1>a, <1>b, <4>1, <4>2
    <3> QED BY <1>1, <1>c, <2>2, <3>2, <3>3
  <2>3. ASSUME NEW u \in Nodes, NEW v \in Peers(u), Establish(u, v), Kind(x) = "router", HasEnd(x, y)'
        PROVE  index'[<<x, y>>] # 0
    <3>1. /\ link[<<u, v>>] = "accepted" /\ link' = [link EXCEPT ![<<u, v>>] = "up"]
          /\ NewUnicast(u, v)
      BY <2>3 DEF Establish
    <3>2. HasEnd(x, y) \/ (x = u /\ y = v)
      BY <1>a, <1>b, <2>3, <3>1, PairFacts DEF HasEnd
    <3>3. x = u /\ y = v => index'[<<x, y>>] # 0
      <4>1. x = u /\ y = v => index' = [index EXCEPT ![<<x, y>>] = Len(table[x]) + 1]
        BY <2>3, <3>1 DEF NewUnicast
      <4>2. Len(table[x]) \in Nat
        BY <1>a
      <4> QED BY <1>a, <1>b, <4>1, <4>2
    <3> QED BY <1>1, <1>c, <2>3, <3>2, <3>3
  <2>4. ASSUME NEW u \in Nodes, NEW v \in Peers(u), AnswerOpen(u, v), Kind(x) = "router", HasEnd(x, y)'
        PROVE  HasEnd(x, y)
    <3>1. link' = [link EXCEPT ![<<u, v>>] = "accepted"] /\ Kind(v) \in SinkKinds
      BY <2>4 DEF AnswerOpen, Runs
    <3>2. x # v
      BY <2>4, <3>1 DEF SinkKinds
    <3> QED BY <1>a, <1>b, <2>4, <3>1, <3>2, PairFacts DEF HasEnd
  <2>5. ASSUME NEW u \in Nodes, NEW v \in Peers(u), HasEnd(x, y)',
               \/ AnswerInit(u, v) \/ SendOpenSyn(u, v) \/ OpenFails(u, v, Silent(v))
               \/ Close(u, v, Silent(v))
        PROVE  HasEnd(x, y)
    <3>1. PICK t \in {"greeted", "opening", "closed"} : link' = [link EXCEPT ![<<u, v>>] = t]
      BY <2>5 DEF AnswerInit, SendOpenSyn, OpenFails, Close
    <3> QED BY <1>a, <1>b, <2>5, <3>1, PairFacts DEF HasEnd
  <2>6. ASSUME NEW u \in Nodes, Dial(u), HasEnd(x, y)'
        PROVE  HasEnd(x, y)
    <3>1. PICK l : link' = [link EXCEPT ![l] = "dialled"]
      BY <2>6 DEF Dial
    <3> QED BY <1>a, <1>b, <2>6, <3>1 DEF HasEnd
  <2> QED BY <1>1, <1>c, <2>1, <2>2, <2>3, <2>4, <2>5, <2>6, Changes
<1>3. Kind(x)' = Kind(x)
  BY SetupStays
<1> QED BY <1>1, <1>2, <1>3

\* A handler that sends a message on is in the table, and comes to the end of it.
LEMMA HandStep ==
  ASSUME TypeOK, OpenedOnly, IndexIsOwn, HandInTable, [Next]_vars
  PROVE  HandInTable'
<1> SUFFICES ASSUME NEW x \in Nodes, NEW y \in Nodes, hand'[<<x, y>>] # None
    PROVE  index'[<<x, y>>] # 0 /\ hand'[<<x, y>>].next \in DOMAIN table'[x]
  BY DEF HandInTable
<1>a. /\ table \in [Nodes -> Seq(Nodes)] /\ index \in [Pairs -> Nat]
      /\ hand \in [Pairs -> {None} \cup [msg : Msgs, next : Nat \ {0}]]
  BY DEF TypeOK, RouterTypeOK
<1>b. <<x, y>> \in Pairs
  BY PairFacts
<1>c. hand[<<x, y>>] # None => index[<<x, y>>] # 0 /\ hand[<<x, y>>].next \in DOMAIN table[x]
  BY DEF HandInTable
<1>1. CASE hand' = hand
  <2>1. CASE UNCHANGED <<table, index>>
    BY <1>1, <1>c, <2>1
  <2>2. ASSUME NEW r \in Nodes, NEW p \in Nodes,
               table' = [table EXCEPT ![r] = Append(@, p)],
               index' = [index EXCEPT ![<<r, p>>] = Len(table[r]) + 1]
        PROVE  /\ index[<<x, y>>] # 0 => index'[<<x, y>>] # 0
               /\ \A i \in DOMAIN table[x] : i \in DOMAIN table'[x]
    <3>1. Len(table[r]) \in Nat
      BY <1>a
    <3>2. index[<<x, y>>] # 0 => index'[<<x, y>>] # 0
      BY <1>a, <1>b, <2>2, <3>1
    <3>3. ASSUME NEW i \in DOMAIN table[x]
          PROVE  i \in DOMAIN table'[x]
      <4>1. CASE x = r
        <5>1. table'[x] = Append(table[x], p) /\ table[x] \in Seq(Nodes)
          BY <1>a, <2>2, <4>1
        <5> QED BY <5>1
      <4>2. CASE x # r
        BY <1>a, <2>2, <4>2
      <4> QED BY <4>1, <4>2
    <3> QED BY <3>2, <3>3
  <2> QED BY <1>1, <1>c, <2>1, <2>2, InsertStep
<1>2. ASSUME NEW u \in Nodes, NEW v \in Peers(u), HandleMessage(u, v)
      PROVE  index'[<<x, y>>] # 0 /\ hand'[<<x, y>>].next \in DOMAIN table'[x]
  <2>1. /\ UNCHANGED <<table, index>> /\ Kind(u) = "router" /\ HasEnd(u, v)
        /\ hand' = [hand EXCEPT ![<<u, v>>] = [msg |-> Head(queue[<<v, u>>]), next |-> 1]]
    BY <1>2 DEF HandleMessage
  <2>2. index[<<u, v>>] \in DOMAIN table[u] /\ index[<<u, v>>] # 0
    BY <2>1, PairFacts DEF IndexIsOwn
  <2>3. 1 \in DOMAIN table[u]
    BY <1>a, <2>2
  <2>4. CASE x = u /\ y = v
    BY <1>a, <1>b, <2>1, <2>2, <2>3, <2>4
  <2>5. CASE ~(x = u /\ y = v)
    <3>1. hand'[<<x, y>>] = hand[<<x, y>>]
      BY <1>a, <1>b, <2>1, <2>5
    <3> QED BY <1>c, <2>1, <3>1
  <2> QED BY <2>4, <2>5
<1>3. ASSUME NEW u \in Nodes, NEW v \in Peers(u), Forward(u, v)
      PROVE  index'[<<x, y>>] # 0 /\ hand'[<<x, y>>].next \in DOMAIN table'[x]
  <2> DEFINE i == hand[<<u, v>>].next
             h == IF i = Len(table[u]) THEN None ELSE [msg |-> hand[<<u, v>>].msg, next |-> i + 1]
  <2>1. UNCHANGED <<table, index>> /\ hand[<<u, v>>] # None /\ hand' = [hand EXCEPT ![<<u, v>>] = h]
    BY <1>3 DEF Forward
  <2>2. i \in DOMAIN table[u] /\ index[<<u, v>>] # 0
    BY <2>1, PairFacts DEF HandInTable
  <2>3. h # None => h.next \in DOMAIN table[u]
    BY <1>a, <2>2
  <2> HIDE DEF h
  <2>4. CASE x = u /\ y = v
    BY <1>a, <1>b, <2>1, <2>2, <2>3, <2>4
  <2>5. CASE ~(x = u /\ y = v)
    <3>1. hand'[<<x, y>>] = hand[<<x, y>>]
      BY <1>a, <1>b, <2>1, <2>5
    <3> QED BY <1>c, <2>1, <3>1
  <2> QED BY <2>4, <2>5
<1> QED BY <1>1, <1>2, <1>3, Changes

\* Who has departed does not come back.
LEMMA DepartedStays ==
  ASSUME TypeOK, OpenedOnly, [Next]_vars
  PROVE  /\ \A x \in Nodes : ~alive[x] => ~alive'[x]
         /\ \A x, y \in Nodes : Departed(x, y) => Departed(x, y)'
<1>a. alive \in [Nodes -> BOOLEAN]
  BY DEF TypeOK, NetTypeOK
<1>1. ASSUME NEW x \in Nodes, ~alive[x]
      PROVE  ~alive'[x]
  <2>1. ASSUME NEW u \in Nodes, PublishFails(u) \/ Leave(u)
        PROVE  alive' = [alive EXCEPT ![u] = FALSE]
    BY <2>1 DEF PublishFails, Leave
  <2>2. ASSUME NEW u \in Nodes, NEW v \in Peers(u),
               OpenFails(u, v, Silent(v)) \/ FallTcp(u, v) \/ FallUdp(u, v)
        PROVE  \E z \in Nodes : alive' = [alive EXCEPT ![z] = FALSE]
    BY <2>2, PairFacts DEF OpenFails, FallTcp, FallUdp
  <2> QED BY <1>a, <1>1, <2>1, <2>2, Changes
<1>2. ASSUME NEW x \in Nodes, NEW y \in Nodes, Departed(x, y)
      PROVE  Departed(x, y)'
  BY <1>1, <1>2, LinkStep DEF Departed
<1> QED BY <1>1, <1>2

\* Only the end of a stream makes a task spin.
LEMMA SpinStep ==
  ASSUME TypeOK, OpenedOnly, SpinsForDeparted, [Next]_vars
  PROVE  SpinsForDeparted'
<1> SUFFICES ASSUME NEW x \in Nodes, NEW y \in Nodes, task'[<<x, y>>] = "spin"
    PROVE  Kind(y) = "tcp sink" /\ Departed(x, y)'
  BY SetupStays DEF SpinsForDeparted
<1>a. task \in [Pairs -> TaskStates] /\ <<x, y>> \in Pairs
  BY PairFacts DEF TypeOK, SinkTypeOK
<1>1. CASE task[<<x, y>>] = "spin"
  BY <1>1, DepartedStays DEF SpinsForDeparted
<1>2. CASE task[<<x, y>>] # "spin"
  <2>1. ASSUME NEW u \in Nodes, NEW v \in Peers(u), Eof(u, v)
        PROVE  Kind(y) = "tcp sink" /\ Departed(x, y)
    <3>1. PICK t : task' = [task EXCEPT ![<<u, v>>] = t]
      BY <2>1 DEF Eof
    <3>2. u = x /\ v = y
      BY <1>a, <1>2, <3>1, PairFacts
    <3> QED BY <2>1, <3>2 DEF Eof
  <2>2. ASSUME NEW u \in Nodes, NEW v \in Peers(u), AnswerInit(u, v) \/ AnswerOpen(u, v)
        PROVE  FALSE
    <3>1. PICK t \in {"open", "read"} : task' = [task EXCEPT ![<<u, v>>] = t]
      BY <2>2 DEF AnswerInit, AnswerOpen
    <3> QED BY <1>a, <1>2, <3>1, PairFacts
  <2> QED BY <1>2, <2>1, <2>2, Changes, DepartedStays
<1> QED BY <1>1, <1>2

\* In a tree whose root is its publisher, a message only moves away from the root.
Away(n, h) ==
  /\ \A x, y \in Nodes : \A i \in DOMAIN queue[<<x, y>>] :
       queue[<<x, y>>][i].src = n => h[y] = x
  /\ \A r, p \in Nodes : hand[<<r, p>>] # None /\ hand[<<r, p>>].msg.src = n => h[r] = p

AwayInv ==
  \A n \in Nodes, h \in [Nodes -> Nodes] : IsTree(setup, n, h) => Away(n, h)

LEMMA AwayStep ==
  ASSUME TypeOK, OpenedOnly, IndexIsOwn, HandInTable, [Next]_vars,
         NEW n \in Nodes, NEW h \in [Nodes -> Nodes], IsTree(setup, n, h), Away(n, h)
  PROVE  Away(n, h)'
<1>a. /\ queue \in [Pairs -> Seq(Msgs)]
      /\ hand \in [Pairs -> {None} \cup [msg : Msgs, next : Nat \ {0}]]
      /\ table \in [Nodes -> Seq(Nodes)]
  BY DEF TypeOK, NetTypeOK, RouterTypeOK
<1>b. h[n] = n /\ \A x, y \in Nodes : Opens(x, y) \/ Opens(y, x) => h[x] = y \/ h[y] = x
  BY DEF IsTree, Neighbours, Opens
<1>1. ASSUME NEW x \in Nodes, NEW y \in Nodes, NEW i \in DOMAIN queue'[<<x, y>>],
             queue'[<<x, y>>][i].src = n
      PROVE  h[y] = x
  <2>a. <<x, y>> \in Pairs /\ queue[<<x, y>>] \in Seq(Msgs)
    BY <1>a, PairFacts
  <2>b. \A j \in DOMAIN queue[<<x, y>>] : queue[<<x, y>>][j].src = n => h[y] = x
    BY DEF Away
  <2>1. ASSUME NEW u \in Nodes, Publish(u)
        PROVE  h[y] = x
    <3> DEFINE v == setup.connect[u][1]
               m == [src |-> u, seq |-> sent[u] + 1]
    <3>1. Kind(u) = "publisher" /\ queue' = [queue EXCEPT ![<<u, v>>] = Append(queue[<<u, v>>], m)]
      BY <2>1 DEF Publish, Queued
    <3>2. v \in Nodes /\ Opens(u, v) /\ u # v
      BY <3>1, SetupFacts
    <3>3. h[u] = v \/ h[v] = u
      BY <1>b, <3>2
    <3>4. u = n => h[v] = u
      BY <1>b, <3>2, <3>3
    <3>5. m.src = u
      OBVIOUS
    <3> HIDE DEF v, m
    <3>6. CASE x = u /\ y = v
      <4>1. queue'[<<x, y>>] = Append(queue[<<x, y>>], m)
        BY <1>a, <2>a, <3>1, <3>6
      <4>2. \/ i \in DOMAIN queue[<<x, y>>] /\ queue'[<<x, y>>][i] = queue[<<x, y>>][i]
            \/ queue'[<<x, y>>][i] = m
        BY <2>a, <4>1
      <4> QED BY <1>1, <2>b, <3>4, <3>5, <3>6, <4>2
    <3>7. CASE ~(x = u /\ y = v)
      <4>1. queue'[<<x, y>>] = queue[<<x, y>>]
        BY <1>a, <2>a, <3>1, <3>7
      <4> QED BY <1>1, <2>b, <4>1
    <3> QED BY <3>6, <3>7
  <2>2. ASSUME NEW u \in Nodes, NEW v \in Peers(u), Forward(u, v)
        PROVE  h[y] = x
    <3> DEFINE k == hand[<<u, v>>].next
               m == hand[<<u, v>>].msg
               q == table[u][k]
    <3>1. /\ hand[<<u, v>>] # None
          /\ \/ queue' = queue
             \/ /\ k # index[<<u, v>>]
                /\ queue' = [queue EXCEPT ![<<u, q>>] = Append(queue[<<u, q>>], m)]
      BY <2>2 DEF Forward, Queued
    <3>2. k \in DOMAIN table[u] /\ q \in Nodes /\ k # 0
      <4>1. v \in Nodes
        BY PairFacts
      <4>2. hand[<<u, v>>] # None
        BY <3>1
      <4>3. k \in DOMAIN table[u]
        BY <4>1, <4>2 DEF HandInTable
      <4>4. table[u] \in Seq(Nodes)
        BY <1>a
      <4> HIDE DEF k
      <4> QED BY <4>3, <4>4
    <3>3. index[<<u, q>>] = k
      <4>1. \A j \in DOMAIN table[u] : index[<<u, table[u][j]>>] = j
        BY DEF IndexIsOwn
      <4> QED BY <3>2, <4>1
    <3>4. Opens(u, q) \/ Opens(q, u)
      BY <3>2, <3>3 DEF OpenedOnly, Made
    <3>5. k # index[<<u, v>>] => q # v
      BY <3>3
    <3>6. m.src = n => h[u] = v
      BY <3>1, PairFacts DEF Away
    <3>7. m.src = n /\ q # v => h[q] = u
      BY <1>b, <3>2, <3>4, <3>6
    <3> HIDE DEF k, q, m
    <3>8. CASE queue' = queue
      BY <1>1, <2>b, <3>8
    <3>9. CASE k # index[<<u, v>>] /\ queue' = [queue EXCEPT ![<<u, q>>] = Append(queue[<<u, q>>], m)]
      <4>1. CASE x = u /\ y = q
        <5>1. queue'[<<x, y>>] = Append(queue[<<x, y>>], m)
          BY <1>a, <2>a, <3>9, <4>1
        <5>2. \/ i \in DOMAIN queue[<<x, y>>] /\ queue'[<<x, y>>][i] = queue[<<x, y>>][i]
              \/ queue'[<<x, y>>][i] = m
          BY <2>a, <5>1
        <5> QED BY <1>1, <2>b, <3>5, <3>7, <3>9, <4>1, <5>2
      <4>2. CASE ~(x = u /\ y = q)
        <5>1. queue'[<<x, y>>] = queue[<<x, y>>]
          BY <1>a, <2>a, <3>2, <3>9, <4>2
        <5> QED BY <1>1, <2>b, <5>1
      <4> QED BY <4>1, <4>2
    <3> QED BY <3>1, <3>8, <3>9
  <2>3. ASSUME NEW u \in Nodes, NEW v \in Peers(u),
               \/ HandleMessage(u, v) \/ Receive(u, v) \/ Read(u, v) \/ Close(u, v, Silent(v))
        PROVE  h[y] = x
    <3>1. HandleMessage(u, v) \/ Receive(u, v) =>
            queue[<<v, u>>] # <<>> /\ queue' = [queue EXCEPT ![<<v, u>>] = Tail(@)]
      BY DEF HandleMessage, Receive, Deliver
    <3>2. Read(u, v) => queue[<<u, v>>] # <<>> /\ queue' = [queue EXCEPT ![<<u, v>>] = Tail(@)]
      BY DEF Read, Deliver
    <3>3. Close(u, v, Silent(v)) => queue' = [queue EXCEPT ![<<u, v>>] = <<>>, ![<<v, u>>] = <<>>]
      BY DEF Close
    <3>4. \/ queue'[<<x, y>>] = queue[<<x, y>>] \/ queue'[<<x, y>>] = <<>>
          \/ queue[<<x, y>>] # <<>> /\ queue'[<<x, y>>] = Tail(queue[<<x, y>>])
      BY <1>a, <2>a, <2>3, <3>1, <3>2, <3>3
    <3>5. CASE queue'[<<x, y>>] = queue[<<x, y>>]
      BY <1>1, <2>b, <3>5
    <3>6. CASE queue'[<<x, y>>] = <<>>
      <4>1. i \in DOMAIN <<>>
        BY <3>6
      <4> QED BY <4>1
    <3>7. CASE queue[<<x, y>>] # <<>> /\ queue'[<<x, y>>] = Tail(queue[<<x, y>>])
      <4>1. i \in DOMAIN Tail(queue[<<x, y>>])
        BY <3>7
      <4>2. i + 1 \in DOMAIN queue[<<x, y>>] /\ queue'[<<x, y>>][i] = queue[<<x, y>>][i + 1]
        BY <2>a, <3>7, <4>1
      <4> QED BY <1>1, <2>b, <4>2
    <3> QED BY <3>4, <3>5, <3>6, <3>7
  <2>4. CASE queue' = queue
    BY <1>1, <2>b, <2>4
  <2> QED BY <2>1, <2>2, <2>3, <2>4, Changes
<1>2. ASSUME NEW r \in Nodes, NEW p \in Nodes, hand'[<<r, p>>] # None, hand'[<<r, p>>].msg.src = n
      PROVE  h[r] = p
  <2>a. <<r, p>> \in Pairs
    BY PairFacts
  <2>b. hand[<<r, p>>] # None /\ hand[<<r, p>>].msg.src = n => h[r] = p
    BY DEF Away
  <2>1. ASSUME NEW u \in Nodes, NEW v \in Peers(u), HandleMessage(u, v)
        PROVE  h[r] = p
    <3> DEFINE m == Head(queue[<<v, u>>])
               k == [msg |-> m, next |-> 1]
    <3>1. queue[<<v, u>>] # <<>> /\ hand' = [hand EXCEPT ![<<u, v>>] = k]
      BY <2>1 DEF HandleMessage
    <3>2. <<v, u>> \in Pairs /\ v \in Nodes
      BY PairFacts
    <3>3. 1 \in DOMAIN queue[<<v, u>>] /\ m = queue[<<v, u>>][1]
      BY <1>a, <3>1, <3>2
    <3>4. m.src = n => h[u] = v
      BY <3>2, <3>3 DEF Away
    <3>5. k.msg.src = m.src
      OBVIOUS
    <3> HIDE DEF k, m
    <3>6. hand'[<<r, p>>] = hand[<<r, p>>] \/ (r = u /\ p = v /\ hand'[<<r, p>>] = k)
      BY <1>a, <2>a, <3>1
    <3> QED BY <1>2, <2>b, <3>4, <3>5, <3>6
  <2>2. ASSUME NEW u \in Nodes, NEW v \in Peers(u), Forward(u, v)
        PROVE  h[r] = p
    <3> DEFINE m == hand[<<u, v>>].msg
               k == IF hand[<<u, v>>].next = Len(table[u]) THEN None
                    ELSE [msg |-> m, next |-> hand[<<u, v>>].next + 1]
    <3>1. hand[<<u, v>>] # None /\ hand' = [hand EXCEPT ![<<u, v>>] = k]
      BY <2>2 DEF Forward
    <3>2. k = None \/ k.msg = m
      OBVIOUS
    <3> HIDE DEF k
    <3>3. hand'[<<r, p>>] = hand[<<r, p>>] \/ (r = u /\ p = v /\ hand'[<<r, p>>] = k)
      BY <1>a, <2>a, <3>1
    <3> QED BY <1>2, <2>b, <3>1, <3>2, <3>3
  <2>3. CASE hand' = hand
    BY <1>2, <2>b, <2>3
  <2> QED BY <2>1, <2>2, <2>3, Changes
<1> QED BY <1>1, <1>2 DEF Away
-----------------------------------------------------------------------------
\* What goes with RelayInv to make it inductive: that nothing comes back to its
\* publisher follows from where each message is on its way.
IInv ==
  TypeOK /\ OpenedOnly /\ IndexIsOwn /\ HandInTable /\ SpinsForDeparted /\ AwayInv

LEMMA InitIInv == Init => IInv
<1> SUFFICES ASSUME Init PROVE IInv
  OBVIOUS
<1> USE DEF Init, NetInit, RouterInit, SinkInit
<1>0. \A x, y \in Nodes : <<x, y>> \in Pairs
  BY PairFacts
<1>1. TypeOK
  BY BoundsAssumption DEF TypeOK, NetTypeOK, RouterTypeOK, SinkTypeOK, Stages, TaskStates
<1>2. OpenedOnly
  BY <1>0 DEF OpenedOnly
<1>3. IndexIsOwn
  <2> SUFFICES ASSUME NEW r \in Nodes, NEW p \in Nodes
      PROVE  /\ \A i \in DOMAIN table[r] : index[<<r, table[r][i]>>] = i
             /\ index[<<r, p>>] = 0 /\ ~HasEnd(r, p)
    BY DEF IndexIsOwn
  <2>1. table[r] = <<>> /\ index[<<r, p>>] = 0
    BY <1>0
  <2>2. link[<<r, p>>] = "none" /\ link[<<p, r>>] = "none"
    BY <1>0
  <2> QED BY <2>1, <2>2 DEF HasEnd
<1>4. HandInTable /\ SpinsForDeparted
  BY <1>0 DEF HandInTable, SpinsForDeparted
<1>5. AwayInv
  BY <1>0 DEF AwayInv, Away
<1> QED BY <1>1, <1>2, <1>3, <1>4, <1>5 DEF IInv

LEMMA NextIInv == IInv /\ [Next]_vars => IInv'
<1> SUFFICES ASSUME IInv, [Next]_vars PROVE IInv'
  OBVIOUS
<1> USE DEF IInv
<1>1. TypeOK' /\ OpenedOnly' /\ IndexIsOwn' /\ HandInTable' /\ SpinsForDeparted'
  BY TypeStep, OpenedStep, IndexStep, HandStep, SpinStep
<1>2. AwayInv'
  <2> SUFFICES ASSUME NEW n \in Nodes, NEW h \in [Nodes -> Nodes], IsTree(setup', n, h)
      PROVE  Away(n, h)'
    BY DEF AwayInv
  <2>1. IsTree(setup, n, h)
    BY Changes
  <2>2. Away(n, h)
    BY <2>1 DEF AwayInv
  <2> QED BY <2>1, <2>2, AwayStep
<1> QED BY <1>1, <1>2

LEMMA IInvEcho == IInv => NoEcho
<1> SUFFICES ASSUME IInv, NEW x \in Nodes, NEW y \in Nodes, NEW i \in DOMAIN queue[<<x, y>>],
                    queue[<<x, y>>][i].src = y
    PROVE  FALSE
  BY DEF NoEcho
<1>1. y \in Peers(x) /\ x # y
  <2>1. queue[<<x, y>>] # <<>>
    BY PairFacts DEF IInv, TypeOK, NetTypeOK
  <2>2. y \in Peers(x)
    BY <2>1 DEF IInv, OpenedOnly
  <2> QED BY <2>2, SetupFacts DEF IInv, Peers
<1>2. PICK h \in [Nodes -> Nodes] : IsTree(setup, y, h)
  BY TreeAssumption DEF IInv, TypeOK, NetTypeOK
<1>3. h[y] = x
  BY <1>2 DEF IInv, AwayInv, Away
<1> QED BY <1>1, <1>2, <1>3 DEF IsTree

\* Whatever the trees of programs, and however many of them are stopped: the table of
\* a router goes with the indices of its handlers, nothing comes back to its
\* publisher, and a sink loses workers to clients that have departed only.
THEOREM AlwaysRelayInv == Spec => []RelayInv
<1>1. IInv => RelayInv
  BY IInvEcho DEF IInv, RelayInv
<1> QED BY <1>1, InitIInv, NextIInv, PTL DEF Spec

-----------------------------------------------------------------------------
\* The messages of a node in a queue, and their numbers.
From(n, q) == {i \in DOMAIN q : q[i].src = n}
Numbers(n, q) == {q[i].seq : i \in From(n, q)}
Ascending(n, q) == \A i, j \in From(n, q) : i < j => q[i].seq < q[j].seq

\* The handler of x holds a message of n, and has not come to y.
InHand(n, h, x, y) ==
  /\ hand[<<x, h[x]>>] # None /\ hand[<<x, h[x]>>].msg.src = n
  /\ hand[<<x, h[x]>>].next <= index[<<x, y>>]

\* The last message that x has passed to y, where taken[x] is the last it has taken.
Passed(n, h, taken, x, y) == taken[x] - (IF InHand(n, h, x, y) THEN 1 ELSE 0)

\* What is on its way from x to y follows what y has taken, and leads to what x has
\* passed; at first y may have taken nothing.  Nobody gets anything by way of a publisher.
Follows(n, h, taken, x, y) ==
  \E c \in 0..Passed(n, h, taken, x, y) :
    /\ Numbers(n, queue[<<x, y>>]) = (c + 1)..Passed(n, h, taken, x, y)
    /\ taken[y] \in {0, c}

Edge(n, h, taken, x, y) ==
  \/ IsClosed(x, y) \/ Kind(y) = "publisher"
  \/ taken[y] = 0 /\ Numbers(n, queue[<<x, y>>]) = {}
  \/ /\ (x = n /\ Opens(x, y)) \/ index[<<x, y>>] # 0
     /\ h[x] # y
     /\ Follows(n, h, taken, x, y)

\* Consecutive numbers that end with the last.
EndsRun(s, last) ==
  /\ \A i \in 1..(Len(s) - 1) : s[i + 1] = s[i] + 1
  /\ s # <<>> => s[Len(s)] = last

\* In the tree whose root is n, every node has taken messages of n up to some last one,
\* and has got those it takes for itself.
Flow(n, h, taken) ==
  /\ taken[n] = sent[n]
  /\ \A r, p \in Nodes :
       hand[<<r, p>>] # None /\ hand[<<r, p>>].msg.src = n => hand[<<r, p>>].msg.seq = taken[r]
  /\ \A y \in Nodes : EndsRun(got[y][n], taken[y]) /\ (y \notin Receivers => got[y][n] = <<>>)
  /\ \A y \in Nodes :
       y # n => Ascending(n, queue[<<h[y], y>>]) /\ Edge(n, h, taken, h[y], y)

FlowInv ==
  \A n \in Nodes, h \in [Nodes -> Nodes] :
    IsTree(setup, n, h) => \E taken \in [Nodes -> 0..sent[n]] : Flow(n, h, taken)

\* What is on its way to a sink has an end there, and only routers have handlers with an
\* index.
Supplied ==
  \A x, y \in Nodes :
    /\ Kind(y) \in SinkKinds /\ queue[<<x, y>>] # <<>> => link[<<x, y>>] = "up"
    /\ index[<<x, y>>] # 0 => Kind(x) = "router"

\* A message of somebody else at the end of a queue changes nothing for n.
LEMMA AppendOther ==
  ASSUME NEW n, NEW q \in Seq(Msgs), NEW m \in Msgs, m.src # n
  PROVE  Numbers(n, Append(q, m)) = Numbers(n, q) /\ (Ascending(n, q) => Ascending(n, Append(q, m)))
<1> DEFINE r == Append(q, m)
<1>1. /\ DOMAIN q = 1..Len(q) /\ DOMAIN r = 1..(Len(q) + 1) /\ Len(q) \in Nat
      /\ \A i \in DOMAIN q : r[i] = q[i]
      /\ r[Len(q) + 1] = m
  OBVIOUS
<1> HIDE DEF r
<1>2. From(n, r) = From(n, q) /\ \A i \in From(n, q) : r[i] = q[i]
  BY <1>1 DEF From
<1>3. Numbers(n, r) = Numbers(n, q)
  BY <1>2 DEF Numbers
<1>4. Ascending(n, q) => Ascending(n, r)
  BY <1>2 DEF Ascending
<1> QED BY <1>3, <1>4 DEF r

\* The next message of n goes on where the queue ends.
LEMMA AppendNext ==
  ASSUME NEW n, NEW q \in Seq(Msgs), NEW m \in Msgs, NEW c \in Nat, NEW d \in Nat,
         m.src = n, m.seq = d + 1, c <= d, Numbers(n, q) = (c + 1)..d, Ascending(n, q)
  PROVE  Numbers(n, Append(q, m)) = (c + 1)..(d + 1) /\ Ascending(n, Append(q, m))
<1> DEFINE r == Append(q, m)
           k == Len(q) + 1
<1>1. /\ DOMAIN q = 1..Len(q) /\ DOMAIN r = 1..k /\ Len(q) \in Nat
      /\ \A i \in DOMAIN q : r[i] = q[i]
      /\ r[k] = m
  OBVIOUS
<1> HIDE DEF r
<1>2. From(n, r) = From(n, q) \cup {k} /\ (\A i \in From(n, q) : r[i] = q[i] /\ i < k) /\ k \in Nat
  BY <1>1 DEF From
<1> HIDE DEF k
<1>3. Numbers(n, r) = Numbers(n, q) \cup {d + 1}
  BY <1>1, <1>2 DEF Numbers
<1>4. \A i \in From(n, q) : q[i].seq \in (c + 1)..d
  BY DEF Numbers
<1>5. Ascending(n, r)
  <2> SUFFICES ASSUME NEW i \in From(n, r), NEW j \in From(n, r), i < j
      PROVE  r[i].seq < r[j].seq
    BY DEF Ascending
  <2>1. i \in From(n, q)
    <3>1. i = k => FALSE
      <4>1. j = k \/ j < k
        BY <1>2
      <4>2. j \in Nat
        BY <1>1, <1>2 DEF From
      <4> QED BY <1>2, <4>1, <4>2
    <3> QED BY <1>2, <3>1
  <2>2. CASE j \in From(n, q)
    BY <1>2, <2>1, <2>2 DEF Ascending
  <2>3. CASE j = k
    <3>1. r[i].seq \in (c + 1)..d /\ r[j].seq = d + 1
      BY <1>1, <1>2, <1>4, <2>1, <2>3
    <3> QED BY <3>1
  <2> QED BY <1>2, <2>2, <2>3
<1>6. (c + 1)..(d + 1) = ((c + 1)..d) \cup {d + 1}
  OBVIOUS
<1> QED BY <1>3, <1>5, <1>6 DEF r

\* The head of a queue is either somebody else's, or the first message of n in it.
LEMMA TailFacts ==
  ASSUME NEW q \in Seq(Msgs), q # <<>>
  PROVE  /\ DOMAIN q = 1..Len(q) /\ DOMAIN Tail(q) = 1..(Len(q) - 1) /\ Len(q) \in Nat \ {0}
         /\ Head(q) = q[1] /\ q[1] \in Msgs
         /\ \A i \in 1..(Len(q) - 1) : Tail(q)[i] = q[i + 1]
OBVIOUS

\* The tail of a queue has the messages of n but for its head.
LEMMA TailNumbers ==
  ASSUME NEW n, NEW q \in Seq(Msgs), q # <<>>, Ascending(n, q)
  PROVE  /\ Ascending(n, Tail(q))
         /\ Head(q).src # n => Numbers(n, Tail(q)) = Numbers(n, q)
         /\ Head(q).src = n => /\ Numbers(n, q) = Numbers(n, Tail(q)) \cup {Head(q).seq}
                               /\ \A s \in Numbers(n, Tail(q)) : Head(q).seq < s
<1> DEFINE t == Tail(q)
           k == Len(q)
           m == Head(q)
<1>1. /\ DOMAIN q = 1..k /\ DOMAIN t = 1..(k - 1) /\ k \in Nat \ {0} /\ m = q[1]
      /\ \A i \in 1..(k - 1) : t[i] = q[i + 1]
  BY TailFacts
<1> HIDE DEF t, k, m
<1>2. ASSUME NEW i \in From(n, t)
      PROVE  i \in Nat /\ i + 1 \in From(n, q) /\ t[i] = q[i + 1] /\ 1 < i + 1
  BY <1>1 DEF From
<1>a. ASSUME NEW i \in From(n, q), i # 1
      PROVE  i - 1 \in From(n, t) /\ t[i - 1] = q[i]
  <2>1. i \in 1..k /\ q[i].src = n
    BY <1>1 DEF From
  <2>2. i - 1 \in 1..(k - 1) /\ (i - 1) + 1 = i
    BY <1>1, <1>a, <2>1
  <2>3. t[i - 1] = q[i]
    BY <1>1, <2>2
  <2> QED BY <1>1, <2>1, <2>2, <2>3 DEF From
<1>3. Ascending(n, t)
  <2> SUFFICES ASSUME NEW i \in From(n, t), NEW j \in From(n, t), i < j
      PROVE  t[i].seq < t[j].seq
    BY DEF Ascending
  <2>1. i + 1 < j + 1
    BY <1>2
  <2> QED BY <1>2, <2>1 DEF Ascending
<1>4. ASSUME m.src # n
      PROVE  Numbers(n, t) = Numbers(n, q)
  <2>1. 1 \notin From(n, q)
    BY <1>1, <1>4 DEF From
  <2>2. \A i \in From(n, q) : \E j \in From(n, t) : t[j] = q[i]
    BY <1>a, <2>1
  <2>3. \A j \in From(n, t) : \E i \in From(n, q) : t[j] = q[i]
    BY <1>2
  <2> QED BY <2>2, <2>3 DEF Numbers
<1>5. ASSUME m.src = n
      PROVE  /\ Numbers(n, q) = Numbers(n, t) \cup {m.seq}
             /\ \A s \in Numbers(n, t) : m.seq < s
  <2>1. 1 \in From(n, q) /\ q[1] = m
    BY <1>1, <1>5 DEF From
  <2>2. \A i \in From(n, q) : q[i] = m \/ \E j \in From(n, t) : t[j] = q[i]
    BY <1>a, <2>1
  <2>3. \A j \in From(n, t) : \E i \in From(n, q) : t[j] = q[i] /\ 1 < i
    BY <1>2
  <2>4. Numbers(n, q) = Numbers(n, t) \cup {m.seq}
    BY <2>1, <2>2, <2>3 DEF Numbers
  <2>5. \A s \in Numbers(n, t) : m.seq < s
    BY <2>1, <2>3 DEF Numbers, Ascending
  <2> QED BY <2>4, <2>5
<1> QED BY <1>3, <1>4, <1>5 DEF t, m

\* A head that is of n is the first of the numbers in the queue.
LEMMA TailNext ==
  ASSUME NEW n, NEW q \in Seq(Msgs), q # <<>>, Head(q).src = n, Ascending(n, q),
         NEW c \in Nat, NEW d \in Nat, Numbers(n, q) = (c + 1)..d
  PROVE  Head(q).seq = c + 1 /\ c + 1 <= d /\ Numbers(n, Tail(q)) = (c + 2)..d
<1> DEFINE ns == Numbers(n, Tail(q))
           x == Head(q).seq
<1>1. (c + 1)..d = ns \cup {x} /\ \A s \in ns : x < s
  BY TailNumbers
<1>2. x \in Nat
  <2>1. Head(q) \in Msgs
    BY TailFacts
  <2> QED BY <2>1 DEF Msgs
<1> HIDE DEF ns, x
<1>3. x = c + 1 /\ c + 1 <= d
  <2>1. c + 1 <= x /\ x <= d
    BY <1>1, <1>2
  <2>2. c + 1 \in ns \cup {x}
    BY <1>1, <1>2, <2>1
  <2> QED BY <1>1, <1>2, <2>1, <2>2
<1>4. \A s : s \in ns <=> s \in (c + 2)..d
  BY <1>1, <1>2, <1>3
<1> QED BY <1>3, <1>4 DEF ns, x

\* A handler takes a message from a queue.
Take(u, v) ==
  \/ HandleMessage(u, v) \/ Receive(u, v)
  \/ Read(v, u) /\ UNCHANGED routerVars

\* The steps, by what they do to messages under way.
LEMMA FlowCases ==
  ASSUME TypeOK, [Next]_vars
  PROVE  \/ UNCHANGED <<queue, hand, sent, got>>
         \/ \E u \in Nodes : Publish(u)
         \/ \E u, v \in Nodes :
              /\ v \in Peers(u)
              /\ Take(u, v) \/ Forward(u, v)
                 \/ (Close(u, v, Silent(v)) /\ UNCHANGED <<table, index, hand>>)
<1> DEFINE Goal == \/ UNCHANGED <<queue, hand, sent, got>>
                   \/ \E u \in Nodes : Publish(u)
                   \/ \E u, v \in Nodes :
                        /\ v \in Peers(u)
                        /\ Take(u, v) \/ Forward(u, v)
                           \/ (Close(u, v, Silent(v)) /\ UNCHANGED <<table, index, hand>>)
<1>1. CASE UNCHANGED vars
  BY <1>1 DEF vars, netVars, routerVars
<1>2. ASSUME NEW x \in Nodes,
             \/ Publish(x) \/ PublishFails(x)
             \/ Dial(x) /\ UNCHANGED <<routerVars, sinkVars>>
             \/ Leave(x) /\ UNCHANGED <<routerVars, sinkVars>>
      PROVE  Goal
  BY <1>2, Frames DEF routerVars
<1>3. ASSUME NEW x \in Nodes, NEW y \in Peers(x), Handshake(x, y)
      PROVE  Goal
  BY <1>3, Frames DEF Handshake, routerVars
<1>4. ASSUME NEW x \in Nodes, NEW y \in Peers(x), Serve(x, y)
      PROVE  Goal
  <2>a. y \in Nodes /\ x \in Peers(y)
    BY DEF Peers
  <2>1. CASE HandleMessage(x, y) \/ Forward(x, y) \/ Receive(x, y)
    BY <2>1, <2>a DEF Take
  <2>2. CASE Read(x, y) /\ UNCHANGED routerVars
    BY <2>2, <2>a DEF Take
  <2>3. CASE (Eof(x, y) \/ PrintLine(x, y) \/ FallTcp(x, y) \/ FallUdp(x, y)) /\ UNCHANGED routerVars
    BY <2>3, Frames DEF routerVars
  <2>5. CASE WaitToWrite(x, y)
    BY <2>5, Frames
  <2>4. CASE Close(x, y, Silent(y)) /\ Closed(x, y)
    BY <2>4, <2>a DEF Closed, routerVars
  <2> QED BY <1>4, <2>1, <2>2, <2>3, <2>4, <2>5 DEF Serve
<1>5. Goal
  BY <1>1, <1>2, <1>3, <1>4, StepCases
<1> QED BY <1>5

\* Peers have one transport, and messages are taken while it is open.
LEMMA PeerFacts ==
  ASSUME TypeOK, OpenedOnly, NEW u \in Nodes, NEW v \in Peers(u)
  PROVE  /\ v \in Nodes /\ u # v /\ <<u, v>> \in Pairs /\ <<v, u>> \in Pairs
         /\ <<u, v>> # <<v, u>>
         /\ HasEnd(u, v) => ~IsClosed(u, v) /\ ~IsClosed(v, u)
         /\ link[<<v, u>>] = "up" => ~IsClosed(u, v) /\ ~IsClosed(v, u)
<1>1. v \in Nodes /\ u # v /\ (~Opens(u, v) \/ ~Opens(v, u))
  BY SetupFacts DEF Peers
<1>2. link[<<u, v>>] = "none" \/ link[<<v, u>>] = "none"
  BY <1>1 DEF OpenedOnly
<1>3. IsClosed(u, v) <=> IsClosed(v, u)
  BY DEF IsClosed
<1>4. HasEnd(u, v) \/ link[<<v, u>>] = "up" => ~IsClosed(u, v)
  BY <1>2 DEF HasEnd, IsClosed
<1> QED BY <1>1, <1>3, <1>4, PairFacts

\* What a node takes from a neighbour, it puts into its hand, gets or drops.
LEMMA TakeFacts ==
  ASSUME TypeOK, OpenedOnly, Supplied, NEW u \in Nodes, NEW v \in Nodes, v \in Peers(u), Take(u, v)
  PROVE  /\ queue[<<v, u>>] # <<>> /\ queue' = [queue EXCEPT ![<<v, u>>] = Tail(queue[<<v, u>>])]
         /\ ~IsClosed(v, u) /\ Kind(u) # "publisher" /\ UNCHANGED <<link, sent, table, index>>
         /\ \/ /\ Kind(u) = "router" /\ hand[<<u, v>>] = None /\ got' = got
               /\ hand' = [hand EXCEPT ![<<u, v>>] = [msg |-> Head(queue[<<v, u>>]), next |-> 1]]
            \/ /\ Kind(u) # "router" /\ hand' = hand
               /\ IF u \in Receivers
                    THEN got' = [got EXCEPT ![u][Head(queue[<<v, u>>]).src] =
                                   Append(@, Head(queue[<<v, u>>]).seq)]
                    ELSE got' = got
<1>1. CASE HandleMessage(u, v)
  BY <1>1, PeerFacts DEF HandleMessage
<1>2. CASE Receive(u, v)
  <2>1. u \in Receivers <=> Kind(u) = "subscriber"
    BY <1>2 DEF Receive, Receivers, SinkKinds
  <2> QED BY <1>2, <2>1, PeerFacts DEF Receive, Deliver, routerVars
<1>3. CASE Read(v, u) /\ UNCHANGED routerVars
  <2>1. u \in Receivers /\ Kind(u) \in SinkKinds /\ Kind(u) \notin {"router", "publisher"}
    BY <1>3 DEF Read, Runs, Receivers, SinkKinds
  <2>2. queue[<<v, u>>] # <<>> /\ link[<<v, u>>] = "up"
    BY <1>3, <2>1 DEF Read, Supplied
  <2> QED BY <1>3, <2>1, <2>2, PeerFacts DEF Read, Deliver, routerVars
<1> QED BY <1>1, <1>2, <1>3 DEF Take

\* An index that is given stays.
LEMMA IndexStays ==
  ASSUME TypeOK, OpenedOnly, IndexIsOwn, [Next]_vars, NEW x \in Nodes, NEW y \in Nodes,
         index[<<x, y>>] # 0
  PROVE  index'[<<x, y>>] = index[<<x, y>>]
<1>1. index \in [Pairs -> Nat] /\ <<x, y>> \in Pairs
  BY PairFacts DEF TypeOK, RouterTypeOK
<1> QED BY <1>1, InsertStep

\* No node is its own peer.
LEMMA SelfIdle ==
  ASSUME TypeOK, OpenedOnly, IndexIsOwn, HandInTable, [Next]_vars, NEW x \in Nodes
  PROVE  hand[<<x, x>>] = None /\ hand'[<<x, x>>] = None /\ x \notin Peers(x)
<1>1. ~Opens(x, x) /\ ~Opens(x, x)'
  BY SetupFacts, SetupStays
<1>2. hand[<<x, x>>] = None
  BY <1>1 DEF HandInTable, OpenedOnly, Made
<1>3. HandInTable' /\ OpenedOnly'
  BY HandStep, OpenedStep
<1>4. hand'[<<x, x>>] = None
  BY <1>1, <1>3 DEF HandInTable, OpenedOnly, Made
<1> QED BY <1>1, <1>2, <1>4 DEF Peers

\* Supplied holds from step to step.
LEMMA SuppliedStep ==
  ASSUME TypeOK, OpenedOnly, IndexIsOwn, HandInTable, Supplied, [Next]_vars
  PROVE  Supplied'
<1> SUFFICES ASSUME NEW x \in Nodes, NEW y \in Nodes
    PROVE  /\ Kind(y) \in SinkKinds /\ queue'[<<x, y>>] # <<>> => link'[<<x, y>>] = "up"
           /\ index'[<<x, y>>] # 0 => Kind(x) = "router"
  BY SetupStays DEF Supplied
<1>a. /\ <<x, y>> \in Pairs /\ queue \in [Pairs -> Seq(Msgs)] /\ index \in [Pairs -> Nat]
      /\ link \in [Pairs -> Stages]
  BY PairFacts DEF TypeOK, NetTypeOK, RouterTypeOK
<1>b. /\ Kind(y) \in SinkKinds /\ queue[<<x, y>>] # <<>> => link[<<x, y>>] = "up"
      /\ index[<<x, y>>] # 0 => Kind(x) = "router"
  BY DEF Supplied
<1>1. index'[<<x, y>>] # 0 => Kind(x) = "router"
  <2>1. ASSUME NEW u \in Nodes, NEW v \in Peers(u), Accept(u, v) \/ Establish(u, v), ~UNCHANGED <<table, index>>
        PROVE  \E r, p \in Nodes : Kind(r) = "router" /\ \E k : index' = [index EXCEPT ![<<r, p>>] = k]
    <3>1. v \in Nodes
      BY PairFacts
    <3>2. Accept(u, v) => Kind(v) = "router" /\ index' = [index EXCEPT ![<<v, u>>] = Len(table[v]) + 1]
      BY <2>1 DEF Accept, NewUnicast
    <3>3. Establish(u, v) => Kind(u) = "router" /\ index' = [index EXCEPT ![<<u, v>>] = Len(table[u]) + 1]
      BY <2>1 DEF Establish, NewUnicast
    <3> QED BY <2>1, <3>1, <3>2, <3>3
  <2>2. UNCHANGED <<table, index>> => index'[<<x, y>>] = index[<<x, y>>]
    OBVIOUS
  <2> QED BY <1>a, <1>b, <2>1, <2>2, Changes
<1>2. ASSUME Kind(y) \in SinkKinds, queue'[<<x, y>>] # <<>>
      PROVE  link'[<<x, y>>] = "up"
  <2>1. ASSUME NEW u \in Nodes, Publish(u)
        PROVE  link'[<<x, y>>] = "up"
    <3>1. /\ link' = link /\ link[<<u, setup.connect[u][1]>>] = "up"
          /\ \E s : queue' = [queue EXCEPT ![<<u, setup.connect[u][1]>>] = s]
      BY <2>1 DEF Publish, Queued, routerVars, sinkVars
    <3> QED BY <1>2, <1>a, <1>b, <3>1
  <2>2. ASSUME NEW u \in Nodes, NEW v \in Peers(u), Forward(u, v)
        PROVE  link'[<<x, y>>] = "up"
    <3> DEFINE i == hand[<<u, v>>].next
               q == table[u][i]
    <3>1. /\ link' = link /\ hand[<<u, v>>] # None
          /\ queue' = queue \/ (~IsClosed(u, q) /\ \E s : queue' = [queue EXCEPT ![<<u, q>>] = s])
      BY <2>2 DEF Forward, Queued
    <3>2. i \in DOMAIN table[u]
      BY <3>1, PairFacts DEF HandInTable
    <3>3. q \in Nodes /\ index[<<u, q>>] = i /\ i # 0
      BY <3>2 DEF IndexIsOwn, TypeOK, RouterTypeOK
    <3>4. Made(u, q)
      BY <3>3 DEF OpenedOnly
    <3> HIDE DEF q, i
    <3>5. CASE queue' = queue
      BY <1>2, <1>b, <3>1, <3>5
    <3>6. CASE ~(x = u /\ y = q)
      BY <1>2, <1>a, <1>b, <3>1, <3>6
    <3>7. CASE x = u /\ y = q /\ ~IsClosed(u, q)
      <4>1. Opens(u, q)
        BY <1>2, <3>3, <3>4, <3>7, SetupFacts DEF Made
      <4>2. ~Opens(q, u)
        BY <3>3, <4>1, SetupFacts
      <4> QED BY <3>1, <3>4, <3>7, <4>2 DEF Made, IsClosed
    <3> QED BY <3>1, <3>5, <3>6, <3>7
  <2>3. ASSUME NEW u \in Nodes, NEW v \in Nodes, v \in Peers(u), Take(u, v)
        PROVE  link'[<<x, y>>] = "up"
    BY <1>2, <1>a, <1>b, <2>3, TakeFacts
  <2>4. ASSUME NEW u \in Nodes, NEW v \in Nodes, v \in Peers(u), Close(u, v, Silent(v))
        PROVE  link'[<<x, y>>] = "up"
    <3>1. /\ queue' = [queue EXCEPT ![<<u, v>>] = <<>>, ![<<v, u>>] = <<>>]
          /\ link' = [link EXCEPT ![<<u, v>>] = "closed"]
      BY <2>4 DEF Close
    <3>2. <<x, y>> # <<u, v>>
      BY <1>2, <1>a, <3>1
    <3> QED BY <1>2, <1>a, <1>b, <3>1, <3>2
  <2>5. CASE queue' = queue
    <3>1. link[<<x, y>>] = "up" /\ queue[<<x, y>>] # <<>>
      BY <1>2, <1>b, <2>5
    <3>2. link' = link => link'[<<x, y>>] = "up"
      BY <3>1
    <3>3. ASSUME NEW u \in Nodes, NEW v \in Peers(u), NEW s, link' = [link EXCEPT ![<<u, v>>] = s],
                 link[<<u, v>>] # "up"
          PROVE  link'[<<x, y>>] = "up"
      BY <1>a, <3>1, <3>3
    <3>4. ASSUME NEW u \in Nodes, Dial(u)
          PROVE  link'[<<x, y>>] = "up"
      <4>1. \E i \in DOMAIN setup.connect[u] :
              /\ link[<<u, setup.connect[u][i]>>] = "none"
              /\ link' = [link EXCEPT ![<<u, setup.connect[u][i]>>] = "dialled"]
        BY <3>4 DEF Dial
      <4> QED BY <1>a, <3>1, <4>1
    <3>5. ASSUME NEW u \in Nodes, NEW v \in Peers(u),
                 \/ Accept(u, v) \/ Establish(u, v) \/ AnswerInit(u, v) \/ SendOpenSyn(u, v)
                 \/ AnswerOpen(u, v) \/ OpenFails(u, v, Silent(v))
          PROVE  link'[<<x, y>>] = "up"
      <4>1. link[<<u, v>>] # "up" /\ \E s : link' = [link EXCEPT ![<<u, v>>] = s]
        BY <3>5 DEF Accept, Establish, AnswerInit, SendOpenSyn, AnswerOpen, OpenFails, Connecting
      <4> QED BY <3>3, <4>1
    <3>6. ASSUME NEW u \in Nodes, NEW v \in Peers(u), Close(u, v, Silent(v))
          PROVE  link'[<<x, y>>] = "up"
      BY <2>4, <3>6, PairFacts
    <3> QED BY <3>2, <3>4, <3>5, <3>6, Changes
  <2> QED BY <2>1, <2>2, <2>3, <2>4, <2>5, FlowCases, PairFacts
<1> QED BY <1>1, <1>2
-----------------------------------------------------------------------------
\* The invariants that a step of Flow starts from.
Ground == TypeOK /\ OpenedOnly /\ IndexIsOwn /\ HandInTable /\ Supplied

Rooted(n, h) == IsTree(setup, n, h) /\ Away(n, h)

\* The root is no one's child, and of two neighbours one is the parent of the other.
LEMMA TreeFacts ==
  ASSUME NEW n \in Nodes, NEW h \in [Nodes -> Nodes], Rooted(n, h)
  PROVE  /\ h[n] = n
         /\ \A x \in Nodes : \A y \in Peers(x) : h[x] = y \/ h[y] = x
         /\ \A x, y \in Nodes : \A i \in From(n, queue[<<x, y>>]) : h[y] = x
         /\ \A r, p \in Nodes : hand[<<r, p>>] # None /\ hand[<<r, p>>].msg.src = n => h[r] = p
<1>1. h[n] = n /\ \A x, y \in Nodes : Opens(x, y) \/ Opens(y, x) => h[x] = y \/ h[y] = x
  BY DEF Rooted, IsTree, Neighbours, Opens
<1> QED BY <1>1 DEF Rooted, Away, From, Peers

\* What has been passed is the last that was taken, or the one before.
LEMMA PassedFacts ==
  ASSUME Ground, NEW n \in Nodes, NEW h \in [Nodes -> Nodes], NEW taken \in [Nodes -> Nat],
         \A r, p \in Nodes :
           hand[<<r, p>>] # None /\ hand[<<r, p>>].msg.src = n => hand[<<r, p>>].msg.seq = taken[r],
         NEW x \in Nodes, NEW y \in Nodes
  PROVE  /\ Passed(n, h, taken, x, y) \in 0..taken[x]
         /\ InHand(n, h, x, y) => Passed(n, h, taken, x, y) = taken[x] - 1 /\ taken[x] # 0
         /\ ~InHand(n, h, x, y) => Passed(n, h, taken, x, y) = taken[x]
<1> DEFINE k == hand[<<x, h[x]>>]
<1>1. taken[x] \in Nat /\ h[x] \in Nodes
  OBVIOUS
<1>2. InHand(n, h, x, y) => taken[x] # 0
  <2> SUFFICES ASSUME InHand(n, h, x, y) PROVE taken[x] # 0
    OBVIOUS
  <2>1. k # None /\ k.msg.src = n
    BY DEF InHand
  <2>2. k.msg \in Msgs
    BY <1>1, <2>1, PairFacts DEF Ground, TypeOK, RouterTypeOK
  <2>3. k.msg.seq = taken[x]
    BY <1>1, <2>1
  <2> QED BY <2>2, <2>3 DEF Msgs
<1>3. InHand(n, h, x, y) => Passed(n, h, taken, x, y) = taken[x] - 1
  BY DEF Passed
<1>4. ~InHand(n, h, x, y) => Passed(n, h, taken, x, y) = taken[x]
  BY <1>1 DEF Passed
<1> QED BY <1>1, <1>2, <1>3, <1>4

\* Between neighbours that a step does nothing for, nothing changes.
LEMMA EdgeKept ==
  ASSUME Ground, [Next]_vars, NEW n \in Nodes, NEW h \in [Nodes -> Nodes], Rooted(n, h),
         NEW taken, NEW t, NEW y \in Nodes, Edge(n, h, taken, h[y], y),
         Numbers(n, queue'[<<h[y], y>>]) = Numbers(n, queue[<<h[y], y>>]),
         t[h[y]] = taken[h[y]], t[y] = taken[y],
         h[y] # n /\ index[<<h[y], y>>] # 0 => (InHand(n, h, h[y], y)' <=> InHand(n, h, h[y], y))
  PROVE  Edge(n, h, t, h[y], y)'
<1> DEFINE x == h[y]
<1>a. x \in Nodes
  OBVIOUS
<1> USE DEF Ground
<1>0. CASE Kind(y) = "publisher"
  BY <1>0, SetupStays DEF Edge
<1>1. CASE IsClosed(x, y)
  BY <1>1, <1>a, LinkStep DEF IsClosed, Edge
<1>2. CASE taken[y] = 0 /\ Numbers(n, queue[<<x, y>>]) = {}
  BY <1>2 DEF Edge
<1>3. CASE /\ (x = n /\ Opens(x, y)) \/ index[<<x, y>>] # 0
           /\ h[x] # y
           /\ Follows(n, h, taken, x, y)
  <2>1. (x = n /\ Opens(x, y))' \/ index'[<<x, y>>] # 0
    BY <1>3, <1>a, IndexStays, SetupStays
  <2>2. InHand(n, h, x, y)' <=> InHand(n, h, x, y)
    <3>1. CASE x = n
      <4>1. h[n] = n
        BY TreeFacts
      <4> QED BY <3>1, <4>1, SelfIdle DEF InHand
    <3> QED BY <1>3, <3>1
  <2>3. Passed(n, h, t, x, y)' = Passed(n, h, taken, x, y)
    BY <2>2 DEF Passed
  <2> QED BY <1>3, <2>1, <2>3 DEF Edge, Follows
<1> QED BY <1>0, <1>1, <1>2, <1>3 DEF Edge

\* A step that moves no message of n.
LEMMA FlowStill ==
  ASSUME Ground, [Next]_vars, NEW n \in Nodes, NEW h \in [Nodes -> Nodes], Rooted(n, h),
         NEW taken \in [Nodes -> 0..sent[n]], Flow(n, h, taken),
         sent'[n] = sent[n],
         \A x \in Nodes : got'[x][n] = got[x][n],
         \A x \in Nodes : x # n =>
           /\ \/ Numbers(n, queue'[<<h[x], x>>]) = Numbers(n, queue[<<h[x], x>>])
              \/ IsClosed(h[x], x)'
           /\ Ascending(n, queue'[<<h[x], x>>]),
         \A r, p \in Nodes : hand'[<<r, p>>] # None /\ hand'[<<r, p>>].msg.src = n =>
           hand[<<r, p>>] # None /\ hand[<<r, p>>].msg = hand'[<<r, p>>].msg,
         \A x \in Nodes : h[x] # n /\ index[<<h[x], x>>] # 0 => 
            \/ InHand(n, h, h[x], x)' <=> InHand(n, h, h[x], x)
            \/ IsClosed(h[x], x) \/ Kind(x) = "publisher" \/ h[h[x]] = x
  PROVE  Flow(n, h, taken)'
<1>1. taken[n] = sent'[n]
  BY DEF Flow
<1>2. \A r, p \in Nodes :
        hand'[<<r, p>>] # None /\ hand'[<<r, p>>].msg.src = n => hand'[<<r, p>>].msg.seq = taken[r]
  BY DEF Flow
<1>3. \A y \in Nodes : EndsRun(got'[y][n], taken[y]) /\ (y \notin Receivers' => got'[y][n] = <<>>)
  BY SetupStays DEF Flow, Ground, Receivers
<1>4. ASSUME NEW y \in Nodes, y # n
      PROVE  Edge(n, h, taken, h[y], y)'
  <2>a. Edge(n, h, taken, h[y], y) /\ h[y] \in Nodes
    BY <1>4 DEF Flow
  <2>1. CASE IsClosed(h[y], y)
    BY <2>1, <2>a, LinkStep DEF IsClosed, Edge, Ground
  <2>2. CASE IsClosed(h[y], y)'
    BY <2>2 DEF Edge
  <2>3. CASE ~IsClosed(h[y], y)' /\ taken[y] = 0 /\ Numbers(n, queue[<<h[y], y>>]) = {}
    BY <1>4, <2>3 DEF Edge
  <2>4. CASE ~IsClosed(h[y], y)' /\ h[h[y]] # y /\ ~IsClosed(h[y], y) /\ Kind(y) # "publisher"
    BY <1>4, <2>4, <2>a, EdgeKept
  <2>5. CASE Kind(y) = "publisher"
    BY <2>5, SetupStays DEF Edge, Ground
  <2> QED BY <2>a, <2>1, <2>2, <2>3, <2>4, <2>5 DEF Edge
<1> QED BY <1>1, <1>2, <1>3, <1>4 DEF Flow

\* The queues and the numbers in them.
LEMMA QueueTypes ==
  ASSUME TypeOK
  PROVE  /\ queue \in [Pairs -> Seq(Msgs)]
         /\ \A x, y \in Nodes : <<x, y>> \in Pairs /\ queue[<<x, y>>] \in Seq(Msgs)
         /\ hand \in [Pairs -> {None} \cup [msg : Msgs, next : Nat \ {0}]]
         /\ sent \in [Nodes -> Nat]
         /\ \A m \in Msgs : m.src \in Nodes /\ m.seq \in Nat \ {0} /\ m.seq \in 1..MaxMsgs
<1>1. queue \in [Pairs -> Seq(Msgs)] /\ sent \in [Nodes -> 0..MaxMsgs]
  BY DEF TypeOK, NetTypeOK
<1>2. \A x, y \in Nodes : <<x, y>> \in Pairs /\ queue[<<x, y>>] \in Seq(Msgs)
  BY <1>1, PairFacts
<1>3. hand \in [Pairs -> {None} \cup [msg : Msgs, next : Nat \ {0}]]
  BY DEF TypeOK, RouterTypeOK
<1>4. sent \in [Nodes -> Nat]
  BY <1>1, BoundsAssumption
<1>5. \A m \in Msgs : m.src \in Nodes /\ m.seq \in Nat \ {0} /\ m.seq \in 1..MaxMsgs
  BY BoundsAssumption DEF Msgs
<1> QED BY <1>1, <1>2, <1>3, <1>4, <1>5

\* A transport closes.
LEMMA FlowClose ==
  ASSUME Ground, [Next]_vars, NEW n \in Nodes, NEW h \in [Nodes -> Nodes], Rooted(n, h),
         NEW taken \in [Nodes -> 0..sent[n]], Flow(n, h, taken),
         NEW u \in Nodes, NEW v \in Nodes, v \in Peers(u), Close(u, v, Silent(v)),
         UNCHANGED <<table, index, hand>>
  PROVE  Flow(n, h, taken)'
<1> USE DEF Ground
<1>1. /\ queue' = [queue EXCEPT ![<<u, v>>] = <<>>, ![<<v, u>>] = <<>>]
      /\ link' = [link EXCEPT ![<<u, v>>] = "closed"] /\ UNCHANGED <<sent, got>>
  BY DEF Close
<1>2. IsClosed(u, v)' /\ IsClosed(v, u)'
  <2>1. link \in [Pairs -> Stages] /\ <<u, v>> \in Pairs
    BY PairFacts DEF TypeOK, NetTypeOK
  <2>2. link'[<<u, v>>] = "closed"
    BY <1>1, <2>1
  <2> QED BY <2>2 DEF IsClosed
<1>3. ASSUME NEW x \in Nodes, x # n
      PROVE  /\ \/ Numbers(n, queue'[<<h[x], x>>]) = Numbers(n, queue[<<h[x], x>>])
                \/ IsClosed(h[x], x)'
             /\ Ascending(n, queue'[<<h[x], x>>])
  <2>1. h[x] \in Nodes /\ Ascending(n, queue[<<h[x], x>>])
    BY <1>3 DEF Flow
  <2>2. CASE queue'[<<h[x], x>>] = queue[<<h[x], x>>]
    BY <2>1, <2>2
  <2>3. CASE queue'[<<h[x], x>>] # queue[<<h[x], x>>]
    <3>1. <<h[x], x>> \in {<<u, v>>, <<v, u>>} /\ queue'[<<h[x], x>>] = <<>>
      BY <1>1, <2>1, <2>3, QueueTypes
    <3>2. IsClosed(h[x], x)'
      BY <1>2, <3>1
    <3>3. Ascending(n, <<>>)
      BY DEF Ascending, From
    <3> QED BY <3>1, <3>2, <3>3
  <2> QED BY <2>2, <2>3
<1>4. \A x \in Nodes : InHand(n, h, h[x], x)' <=> InHand(n, h, h[x], x)
  BY DEF InHand
<1> QED BY <1>1, <1>3, <1>4, FlowStill

\* A step of the others.
LEMMA FlowNothing ==
  ASSUME Ground, [Next]_vars, NEW n \in Nodes, NEW h \in [Nodes -> Nodes], Rooted(n, h),
         NEW taken \in [Nodes -> 0..sent[n]], Flow(n, h, taken),
         UNCHANGED <<queue, hand, sent, got>>
  PROVE  Flow(n, h, taken)'
<1> USE DEF Ground
<1>1. \A x \in Nodes : h[x] \in Nodes /\ (x # n => Ascending(n, queue[<<h[x], x>>]))
  BY DEF Flow
<1>2. \A x \in Nodes : index[<<h[x], x>>] # 0 => (InHand(n, h, h[x], x)' <=> InHand(n, h, h[x], x))
  BY <1>1, IndexStays DEF InHand
<1> QED BY <1>1, <1>2, FlowStill

\* A publisher has one endpoint, and no handlers with an index.
LEMMA PublisherFacts ==
  ASSUME Ground, NEW u \in Nodes, Kind(u) = "publisher"
  PROVE  /\ \A y \in Nodes : Opens(u, y) => y = setup.connect[u][1]
         /\ \A y \in Nodes : index[<<u, y>>] = 0
         /\ setup.connect[u][1] \in Peers(u) /\ u \notin Receivers
         /\ Kind(setup.connect[u][1]) # "publisher"
<1> USE DEF Ground
<1>1. setup.connect[u][1] \in Peers(u) /\ u \notin Receivers
  BY SetupFacts DEF Peers, Receivers, SinkKinds
<1>2. \A y \in Nodes : index[<<u, y>>] = 0
  BY DEF Supplied
<1>3. Len(setup.connect[u]) = 1 /\ setup.connect[u] \in Seq(Nodes)
  BY SetupsAssumption, SetupFacts DEF TypeOK, NetTypeOK, Kind, AllSetups
<1>4. \A y \in Nodes : Opens(u, y) => y = setup.connect[u][1]
  BY <1>3 DEF Opens
<1>5. Kind(setup.connect[u][1]) # "publisher"
  <2>1. 1 \in DOMAIN setup.connect[u]
    BY <1>3
  <2>2. setup.kind[setup.connect[u][1]] \in {"subscriber", "router"} \cup SinkKinds
    BY <2>1, SetupsAssumption DEF TypeOK, NetTypeOK
  <2> QED BY <2>2 DEF Kind, SinkKinds
<1> QED BY <1>1, <1>2, <1>4, <1>5

\* A publisher sends the next of its messages.
LEMMA FlowPublish ==
  ASSUME Ground, [Next]_vars, NEW n \in Nodes, NEW h \in [Nodes -> Nodes], Rooted(n, h),
         NEW taken \in [Nodes -> 0..sent[n]], Flow(n, h, taken), NEW u \in Nodes, Publish(u)
  PROVE  \E t \in [Nodes -> 0..sent'[n]] : Flow(n, h, t)'
<1> USE DEF Ground
<1> DEFINE m == [src |-> u, seq |-> sent[u] + 1]
<1>0. PICK v \in Nodes : v = setup.connect[u][1] /\ Kind(u) = "publisher"
  BY SetupFacts DEF Publish
<1>1. /\ Kind(u) = "publisher" /\ link[<<u, v>>] = "up" /\ sent' = [sent EXCEPT ![u] = sent[u] + 1]
      /\ queue' = [queue EXCEPT ![<<u, v>>] = Append(queue[<<u, v>>], m)]
      /\ UNCHANGED <<link, got, table, index, hand>>
  BY <1>0, Frames DEF Publish, Queued
<1>2. /\ v \in Peers(u) /\ v \in Nodes /\ u # v /\ u \notin Receivers /\ ~IsClosed(u, v)
      /\ Kind(v) # "publisher"
  <2>1. v \in Peers(u) /\ u \notin Receivers /\ Kind(v) # "publisher"
    BY <1>0, PublisherFacts
  <2>2. v \in Nodes /\ v \in Peers(u) /\ u \in Peers(v)
    BY <2>1, PairFacts DEF Peers
  <2>3. u # v
    BY <2>2, SelfIdle
  <2>4. ~IsClosed(u, v)
    BY <1>1, <2>2, PeerFacts
  <2> QED BY <2>1, <2>2, <2>3, <2>4
<1>3. m \in Msgs /\ m.src = u /\ m.seq = sent[u] + 1
  <2>1. sent[u] < setup.count[u] /\ setup.count[u] \in 0..MaxMsgs /\ sent[u] \in 0..MaxMsgs
    BY SetupFacts DEF Publish, AllSetups, TypeOK, NetTypeOK
  <2>2. sent[u] + 1 \in 1..MaxMsgs
    BY <2>1, BoundsAssumption
  <2> QED BY <2>2 DEF Msgs
<1> HIDE DEF m
<1>4. \A x \in Nodes : h[x] \in Nodes /\ (x # n => Ascending(n, queue[<<h[x], x>>]))
  BY DEF Flow
<1>5. CASE u # n
  <2>1. sent'[n] = sent[n]
    BY <1>1, <1>5, QueueTypes
  <2>2. ASSUME NEW x \in Nodes, x # n
        PROVE  /\ Numbers(n, queue'[<<h[x], x>>]) = Numbers(n, queue[<<h[x], x>>])
               /\ Ascending(n, queue'[<<h[x], x>>])
    <3>1. CASE <<h[x], x>> = <<u, v>>
      <4>1. PICK q \in Seq(Msgs), e \in Msgs : q = queue[<<u, v>>] /\ e = m
        BY <1>2, <1>3, QueueTypes
      <4>2. queue'[<<h[x], x>>] = Append(q, e) /\ Ascending(n, q)
        BY <1>1, <1>2, <1>4, <2>2, <3>1, <4>1, QueueTypes
      <4>3. e.src # n
        BY <1>3, <1>5, <4>1
      <4>4. Numbers(n, Append(q, e)) = Numbers(n, q) /\ Ascending(n, Append(q, e))
        BY <4>2, <4>3, AppendOther
      <4> QED BY <3>1, <4>1, <4>2, <4>4
    <3>2. CASE <<h[x], x>> # <<u, v>>
      <4>1. queue'[<<h[x], x>>] = queue[<<h[x], x>>]
        BY <1>1, <1>4, <3>2, QueueTypes
      <4> QED BY <1>4, <2>2, <4>1
    <3> QED BY <3>1, <3>2
  <2>3. \A x \in Nodes : InHand(n, h, h[x], x)' <=> InHand(n, h, h[x], x)
    BY <1>1 DEF InHand
  <2>4. Flow(n, h, taken)'
    BY <1>1, <2>1, <2>2, <2>3, FlowStill
  <2> QED BY <2>1, <2>4
<1>6. CASE u = n
  <2> DEFINE t == [taken EXCEPT ![n] = sent[n] + 1]
  <2>1. PICK s \in Nat : s = sent[n]
    BY QueueTypes
  <2>2. sent'[n] = s + 1 /\ taken[n] = s /\ taken \in [Nodes -> 0..s] /\ t \in [Nodes -> 0..(s + 1)]
    <3>1. sent'[n] = s + 1 /\ taken[n] = s /\ taken \in [Nodes -> 0..s]
      BY <1>1, <1>6, <2>1, QueueTypes DEF Flow
    <3>2. \A x \in Nodes : t[x] \in 0..(s + 1)
      BY <2>1, <3>1
    <3> QED BY <3>1, <3>2
  <2>3. t[n] = s + 1 /\ \A x \in Nodes : x # n => t[x] = taken[x]
    BY <2>1
  <2>a. PICK w \in [Nodes -> 0..(s + 1)] : w = t
    BY <2>2
  <2>b. w[n] = s + 1 /\ \A x \in Nodes : x # n => w[x] = taken[x]
    BY <2>3, <2>a
  <2> HIDE DEF t
  <2>4. h[n] = n /\ h[v] = n /\ v # n
    BY <1>2, <1>6, TreeFacts
  <2>5. \A r, p \in Nodes :
          hand'[<<r, p>>] # None /\ hand'[<<r, p>>].msg.src = n => hand'[<<r, p>>].msg.seq = w[r]
    <3> SUFFICES ASSUME NEW r \in Nodes, NEW p \in Nodes, hand[<<r, p>>] # None, hand[<<r, p>>].msg.src = n
        PROVE  hand[<<r, p>>].msg.seq = w[r]
      BY <1>1
    <3>1. h[r] = p
      BY TreeFacts
    <3>2. r # n
      BY <2>4, <3>1, SelfIdle
    <3> QED BY <2>b, <3>2 DEF Flow
  <2>6. ASSUME NEW y \in Nodes
        PROVE  EndsRun(got'[y][n], w[y]) /\ (y \notin Receivers' => got'[y][n] = <<>>)
    <3>1. EndsRun(got[y][n], taken[y]) /\ (y \notin Receivers => got[y][n] = <<>>) /\ Receivers' = Receivers
      BY SetupStays DEF Flow, Receivers
    <3>2. CASE y = n
      <4>1. got'[y][n] = <<>>
        BY <1>1, <1>2, <1>6, <3>1, <3>2
      <4> QED BY <4>1 DEF EndsRun
    <3>3. CASE y # n
      BY <1>1, <2>b, <3>1, <3>3
    <3> QED BY <3>2, <3>3
  <2>7. ASSUME NEW y \in Nodes, y # n
        PROVE  Ascending(n, queue'[<<h[y], y>>]) /\ Edge(n, h, w, h[y], y)'
    <3>a. Edge(n, h, taken, h[y], y) /\ w[y] = taken[y]
      BY <2>7, <2>b DEF Flow
    <3>1. CASE y = v
      <4>1. PICK q \in Seq(Msgs), e \in Msgs : q = queue[<<n, v>>] /\ e = m
        BY <1>2, <1>3, QueueTypes
      <4>2. queue'[<<n, v>>] = Append(q, e) /\ Ascending(n, q) /\ e.src = n /\ e.seq = s + 1
        BY <1>1, <1>2, <1>3, <1>4, <1>6, <2>1, <2>4, <4>1, QueueTypes
      <4>3. ~InHand(n, h, n, v) /\ ~InHand(n, h, n, v)'
        BY <2>4, SelfIdle DEF InHand
      <4>4. Passed(n, h, taken, n, v) = s /\ Passed(n, h, w, n, v)' = s + 1
        BY <2>2, <2>b, <4>3 DEF Passed
      <4>5. PICK c \in 0..s : Numbers(n, q) = (c + 1)..s /\ taken[v] \in {0, c}
        <5>1. CASE taken[v] = 0 /\ Numbers(n, q) = {}
          <6>1. (s + 1)..s = {} /\ s \in 0..s
            OBVIOUS
          <6> QED BY <5>1, <6>1
        <5>2. CASE Follows(n, h, taken, n, v)
          BY <4>1, <4>4, <5>2 DEF Follows
        <5> QED BY <1>2, <1>6, <2>4, <3>1, <3>a, <4>1, <5>1, <5>2 DEF Edge
      <4>6. c \in Nat /\ c <= s /\ c \in 0..(s + 1)
        OBVIOUS
      <4>7. Numbers(n, queue'[<<n, v>>]) = (c + 1)..(s + 1) /\ Ascending(n, queue'[<<n, v>>])
        BY <4>2, <4>5, <4>6, AppendNext
      <4>8. Follows(n, h, w, n, v)'
        BY <3>1, <3>a, <4>4, <4>5, <4>6, <4>7 DEF Follows
      <4>9. Opens(n, v)'
        <5>1. Opens(n, v)
          BY <1>0, <1>6, SetupFacts
        <5> QED BY <5>1, SetupStays
      <4> QED BY <2>4, <3>1, <4>7, <4>8, <4>9 DEF Edge
    <3>2. CASE y # v /\ h[y] = n
      <4>1. queue'[<<n, y>>] = queue[<<n, y>>]
        BY <1>1, <3>2, QueueTypes
      <4>2. ~Opens(n, y) /\ index[<<n, y>>] = 0
        BY <1>0, <1>6, <3>2, PublisherFacts
      <4>3. \/ IsClosed(n, y) \/ Kind(y) = "publisher"
            \/ taken[y] = 0 /\ Numbers(n, queue[<<n, y>>]) = {}
        BY <3>2, <3>a, <4>2 DEF Edge
      <4>4. Edge(n, h, w, n, y)'
        BY <1>1, <3>a, <4>1, <4>3, SetupStays DEF Edge, IsClosed
      <4> QED BY <1>4, <2>7, <3>2, <4>1, <4>4
    <3>3. CASE h[y] # n
      <4>1. queue'[<<h[y], y>>] = queue[<<h[y], y>>] /\ h[y] \in Nodes /\ w[h[y]] = taken[h[y]]
        BY <1>1, <1>4, <1>6, <2>b, <3>3, QueueTypes
      <4>2. InHand(n, h, h[y], y)' <=> InHand(n, h, h[y], y)
        BY <1>1 DEF InHand
      <4>3. Edge(n, h, w, h[y], y)'
        BY <3>a, <4>1, <4>2, EdgeKept
      <4> QED BY <1>4, <2>7, <4>1, <4>3
    <3> QED BY <3>1, <3>2, <3>3
  <2>8. Flow(n, h, w)'
    BY <2>2, <2>b, <2>5, <2>6, <2>7 DEF Flow
  <2> QED BY <2>2, <2>8
<1> QED BY <1>5, <1>6

\* A node that takes a message of somebody else.
LEMMA FlowTakeOther ==
  ASSUME Ground, [Next]_vars, NEW n \in Nodes, NEW h \in [Nodes -> Nodes], Rooted(n, h),
         NEW taken \in [Nodes -> 0..sent[n]], Flow(n, h, taken),
         NEW u \in Nodes, NEW v \in Nodes, v \in Peers(u), Take(u, v),
         Head(queue[<<v, u>>]).src # n
  PROVE  Flow(n, h, taken)'
<1> USE DEF Ground
<1>1. PICK q \in Seq(Msgs) : q = queue[<<v, u>>]
  BY QueueTypes
<1>2. PICK m \in Msgs : m = Head(q) /\ q # <<>>
  BY <1>1, TakeFacts, TailFacts
<1>3. /\ queue' = [queue EXCEPT ![<<v, u>>] = Tail(q)] /\ UNCHANGED <<link, sent, table, index>>
      /\ \/ /\ hand[<<u, v>>] = None /\ got' = got
            /\ hand' = [hand EXCEPT ![<<u, v>>] = [msg |-> m, next |-> 1]]
         \/ hand' = hand /\ got' = [got EXCEPT ![u][m.src] = Append(@, m.seq)]
         \/ hand' = hand /\ got' = got
  BY <1>1, <1>2, TakeFacts
<1>4. m.src \in Nodes /\ m.src # n
  BY <1>1, <1>2, QueueTypes
<1>5. \A x \in Nodes : got'[x][n] = got[x][n]
  <2>1. got \in [Nodes -> [Nodes -> Seq(1..MaxMsgs)]]
    BY DEF TypeOK, NetTypeOK
  <2>2. PICK k \in Nodes : k = m.src /\ k # n
    BY <1>4
  <2>3. got' = got \/ got' = [got EXCEPT ![u][k] = Append(got[u][k], m.seq)]
    BY <1>3, <2>2
  <2>4. ASSUME NEW x \in Nodes, NEW s, got' = [got EXCEPT ![u][k] = s]
        PROVE  got'[x][n] = got[x][n]
    BY <2>1, <2>2, <2>4
  <2> QED BY <2>3, <2>4
<1>6. ASSUME NEW x \in Nodes, x # n
      PROVE  /\ Numbers(n, queue'[<<h[x], x>>]) = Numbers(n, queue[<<h[x], x>>])
             /\ Ascending(n, queue'[<<h[x], x>>])
  <2>1. h[x] \in Nodes /\ Ascending(n, queue[<<h[x], x>>])
    BY <1>6 DEF Flow
  <2>2. CASE <<h[x], x>> = <<v, u>>
    <3>1. queue'[<<h[x], x>>] = Tail(q) /\ Ascending(n, q)
      BY <1>1, <1>3, <2>1, <2>2, QueueTypes
    <3>2. Numbers(n, Tail(q)) = Numbers(n, q) /\ Ascending(n, Tail(q))
      BY <1>2, <1>4, <3>1, TailNumbers
    <3> QED BY <1>1, <2>2, <3>1, <3>2
  <2>3. CASE <<h[x], x>> # <<v, u>>
    <3>1. queue'[<<h[x], x>>] = queue[<<h[x], x>>]
      BY <1>3, <2>1, <2>3, QueueTypes
    <3> QED BY <2>1, <3>1
  <2> QED BY <2>2, <2>3
<1>7. ASSUME NEW r \in Nodes, NEW p \in Nodes
      PROVE  \/ hand'[<<r, p>>] = hand[<<r, p>>]
             \/ hand[<<r, p>>] = None /\ hand'[<<r, p>>].msg.src # n
  <2> DEFINE k == [msg |-> m, next |-> 1]
  <2>1. k.msg.src # n
    BY <1>4
  <2> HIDE DEF k
  <2>2. \/ hand' = hand
        \/ hand' = [hand EXCEPT ![<<u, v>>] = k] /\ hand[<<u, v>>] = None
    BY <1>3 DEF k
  <2> QED BY <2>1, <2>2, QueueTypes
<1>8. ASSUME NEW x \in Nodes
      PROVE  InHand(n, h, h[x], x)' <=> InHand(n, h, h[x], x)
  <2>1. h[x] \in Nodes /\ h[h[x]] \in Nodes
    OBVIOUS
  <2> QED BY <1>3, <1>7, <2>1 DEF InHand
<1> QED BY <1>3, <1>5, <1>6, <1>7, <1>8, FlowStill

\* The run that a receiver has got goes on.
LEMMA RunGoesOn ==
  ASSUME NEW s \in Seq(1..MaxMsgs), NEW c \in Nat, EndsRun(s, 0) \/ EndsRun(s, c)
  PROVE  EndsRun(Append(s, c + 1), c + 1)
<1> DEFINE r == Append(s, c + 1)
           k == Len(s)
<1>1. /\ k \in Nat /\ Len(r) = k + 1 /\ r[k + 1] = c + 1 /\ r # <<>>
      /\ \A i \in 1..k : r[i] = s[i] /\ s[i] \in 1..MaxMsgs
      /\ s # <<>> => k >= 1
  <2>s. PICK S : S = 1..MaxMsgs
    OBVIOUS
  <2>t. s \in Seq(S)
    BY <2>s
  <2>1. k \in Nat /\ (\A i \in 1..k : s[i] \in S) /\ (s # <<>> => k # 0)
    BY <2>t
  <2>a. (\A i \in 1..k : s[i] \in 1..MaxMsgs) /\ (s # <<>> => k >= 1)
    BY <2>s, <2>1
  <2>2. s \in Seq(Nat) /\ c + 1 \in Nat
    BY BoundsAssumption
  <2>3. Len(r) = k + 1 /\ r[k + 1] = c + 1 /\ \A i \in 1..k : r[i] = s[i]
    BY <2>2
  <2>4. r # <<>>
    <3>1. Len(r) # Len(<<>>)
      BY <2>1, <2>3
    <3> QED BY <3>1
  <2> QED BY <2>1, <2>a, <2>3, <2>4
<1> HIDE DEF r, k
<1>2. s # <<>> => s[k] = c
  <2> SUFFICES ASSUME s # <<>> PROVE s[k] = c
    OBVIOUS
  <2>1. s[k] \in 1..MaxMsgs
    BY <1>1
  <2>2. s[k] # 0
    BY <2>1
  <2> QED BY <2>2 DEF EndsRun, k
<1>3. ASSUME NEW i \in 1..k
      PROVE  r[i + 1] = r[i] + 1
  <2>1. CASE i = k
    <3>1. s # <<>>
      BY <1>1, <1>3 DEF k
    <3> QED BY <1>1, <1>2, <2>1, <3>1
  <2>2. CASE i # k
    <3>1. i \in 1..(k - 1) /\ i + 1 \in 1..k
      BY <1>1, <1>3, <2>2
    <3>2. s[i + 1] = s[i] + 1
      BY <3>1 DEF EndsRun, k
    <3> QED BY <1>1, <1>3, <3>1, <3>2
  <2> QED BY <2>1, <2>2
<1>4. 1..(Len(r) - 1) = 1..k /\ r[Len(r)] = c + 1
  BY <1>1
<1> QED BY <1>3, <1>4 DEF EndsRun, r

\* A node that takes a message of n has the one that follows what it has taken.
LEMMA FlowTake ==
  ASSUME Ground, [Next]_vars, NEW n \in Nodes, NEW h \in [Nodes -> Nodes], Rooted(n, h),
         NEW taken \in [Nodes -> 0..sent[n]], Flow(n, h, taken),
         NEW u \in Nodes, NEW v \in Nodes, v \in Peers(u), Take(u, v),
         Head(queue[<<v, u>>]).src = n
  PROVE  \E t \in [Nodes -> 0..sent'[n]] : Flow(n, h, t)'
<1> USE DEF Ground
<1>1. PICK q \in Seq(Msgs) : q = queue[<<v, u>>]
  BY QueueTypes
<1>2. PICK m \in Msgs : m = Head(q) /\ q # <<>>
  BY <1>1, TakeFacts, TailFacts
<1>3. /\ queue' = [queue EXCEPT ![<<v, u>>] = Tail(q)] /\ UNCHANGED <<link, sent, table, index>>
      /\ ~IsClosed(v, u) /\ u # v /\ m.src = n
      /\ \/ /\ Kind(u) = "router" /\ hand[<<u, v>>] = None /\ got' = got
            /\ hand' = [hand EXCEPT ![<<u, v>>] = [msg |-> m, next |-> 1]]
         \/ /\ Kind(u) # "router" /\ hand' = hand
            /\ IF u \in Receivers THEN got' = [got EXCEPT ![u][n] = Append(@, m.seq)] ELSE got' = got
  BY <1>1, <1>2, TakeFacts, PeerFacts
<1>4. h[u] = v /\ u # n /\ h[n] = n
  <2>1. 1 \in From(n, q)
    BY <1>2, <1>3, TailFacts DEF From
  <2>2. 1 \in From(n, queue[<<v, u>>])
    BY <1>1, <2>1
  <2>3. h[u] = v /\ h[n] = n
    <3>1. 1 \in DOMAIN queue[<<v, u>>] /\ queue[<<v, u>>][1].src = n
      BY <2>2 DEF From
    <3>2. h[u] = v
      BY <3>1 DEF Rooted, Away
    <3>3. h[n] = n
      BY DEF Rooted, IsTree
    <3> QED BY <3>2, <3>3
  <2> QED BY <1>3, <2>3
<1>5. Ascending(n, q) /\ Edge(n, h, taken, v, u)
  BY <1>1, <1>4 DEF Flow
<1>6. PICK c \in Nat, d \in Nat :
        /\ d = Passed(n, h, taken, v, u) /\ d <= taken[v] /\ taken[u] \in {0, c}
        /\ Numbers(n, q) = (c + 1)..d
        /\ (v = n /\ Opens(v, u)) \/ index[<<v, u>>] # 0
        /\ h[v] # u
  <2>1. m.seq \in Numbers(n, q)
    BY <1>2, <1>3, TailFacts DEF Numbers, From
  <2>2. Passed(n, h, taken, v, u) \in 0..taken[v] /\ taken[v] \in Nat
    <3>1. taken \in [Nodes -> Nat]
      BY QueueTypes
    <3> QED BY <3>1, PassedFacts DEF Flow
  <2>3. Follows(n, h, taken, v, u) /\ ((v = n /\ Opens(v, u)) \/ index[<<v, u>>] # 0) /\ h[v] # u
    <3>1. Kind(u) # "publisher"
      BY TakeFacts
    <3> QED BY <1>1, <1>3, <1>5, <2>1, <3>1 DEF Edge
  <2>4. PICK d \in Nat : d = Passed(n, h, taken, v, u) /\ d <= taken[v]
    BY <2>2
  <2>5. PICK c \in 0..d : Numbers(n, q) = (c + 1)..d /\ taken[u] \in {0, c}
    BY <1>1, <2>3, <2>4 DEF Follows
  <2> QED BY <2>3, <2>4, <2>5
<1>7. /\ m.seq = c + 1 /\ c + 1 <= d /\ Numbers(n, Tail(q)) = (c + 2)..d /\ Ascending(n, Tail(q))
  <2>1. Head(q).src = n /\ q # <<>> /\ Numbers(n, q) = (c + 1)..d /\ Ascending(n, q)
    BY <1>2, <1>3, <1>5, <1>6
  <2>2. Head(q).seq = c + 1 /\ c + 1 <= d /\ Numbers(n, Tail(q)) = (c + 2)..d
    BY <2>1, TailNext
  <2>3. Ascending(n, Tail(q))
    BY <2>1, TailNumbers
  <2> QED BY <1>2, <2>2, <2>3
<1> DEFINE t == [taken EXCEPT ![u] = c + 1]
<1>8. t[u] = c + 1 /\ \A x \in Nodes : x # u => t[x] = taken[x]
  OBVIOUS
<1>9. t \in [Nodes -> 0..sent'[n]]
  <2>1. PICK s \in Nat : s = sent[n]
    BY QueueTypes
  <2>2. taken \in [Nodes -> 0..s] /\ sent'[n] = s
    BY <1>3, <2>1
  <2>3. taken[v] <= s /\ taken[v] \in Nat
    BY <2>2
  <2>4. c + 1 \in 0..s
    BY <1>6, <1>7, <2>3
  <2> QED BY <2>2, <2>4
<1> HIDE DEF t
<1>10. PICK w \in [Nodes -> 0..sent'[n]] : w = t
  BY <1>9
<1>11. w[u] = c + 1 /\ \A x \in Nodes : x # u => w[x] = taken[x]
  BY <1>8, <1>10
<1>12. w[n] = sent'[n]
  BY <1>3, <1>4, <1>11 DEF Flow
<1>13. ASSUME NEW r \in Nodes, NEW p \in Nodes, hand'[<<r, p>>] # None, hand'[<<r, p>>].msg.src = n
       PROVE  hand'[<<r, p>>].msg.seq = w[r]
  <2> DEFINE k == [msg |-> m, next |-> 1]
  <2>1. k.msg = m
    OBVIOUS
  <2> HIDE DEF k
  <2>2. \/ hand' = hand /\ Kind(u) # "router"
        \/ hand' = [hand EXCEPT ![<<u, v>>] = k]
    BY <1>3 DEF k
  <2>3. CASE <<r, p>> = <<u, v>> /\ hand' # hand
    BY <1>7, <1>11, <2>1, <2>2, <2>3, QueueTypes
  <2>4. CASE hand'[<<r, p>>] = hand[<<r, p>>] /\ r # u
    BY <1>11, <1>13, <2>4 DEF Flow
  <2>5. CASE hand'[<<r, p>>] = hand[<<r, p>>] /\ r = u
    <3>a. hand[<<r, p>>] # None /\ hand[<<r, p>>].msg.src = n
      BY <1>13, <2>5
    <3>b. h[r] = p
      BY <3>a, TreeFacts
    <3>1. p = v /\ hand[<<r, p>>] # None
      BY <1>4, <2>5, <3>a, <3>b
    <3>2. Kind(u) = "router"
      BY <2>5, <3>1 DEF HandInTable, Supplied
    <3>3. hand[<<u, v>>] = None
      BY <1>3, <3>2
    <3> QED BY <2>5, <3>1, <3>3
  <2>6. hand'[<<r, p>>] = hand[<<r, p>>] \/ (<<r, p>> = <<u, v>> /\ hand' # hand)
    BY <2>2, QueueTypes
  <2> QED BY <2>3, <2>4, <2>5, <2>6
<1>14. ASSUME NEW y \in Nodes
       PROVE  EndsRun(got'[y][n], w[y]) /\ (y \notin Receivers' => got'[y][n] = <<>>)
  <2>1. EndsRun(got[y][n], taken[y]) /\ (y \notin Receivers => got[y][n] = <<>>) /\ Receivers' = Receivers
    BY SetupStays DEF Flow, Receivers
  <2>2. got \in [Nodes -> [Nodes -> Seq(1..MaxMsgs)]]
    BY DEF TypeOK, NetTypeOK
  <2>3. CASE y # u
    <3>1. got'[y][n] = got[y][n]
      BY <1>3, <2>2, <2>3
    <3> QED BY <1>11, <2>1, <2>3, <3>1
  <2>4. CASE y = u /\ u \in Receivers
    <3>1. PICK s \in Seq(1..MaxMsgs) : s = got[y][n]
      BY <2>2
    <3>2. got'[y][n] = Append(s, c + 1)
      <4>1. Kind(u) # "router"
        BY <2>4 DEF Receivers, SinkKinds
      <4>2. got' = [got EXCEPT ![u][n] = Append(@, m.seq)]
        BY <1>3, <2>4, <4>1
      <4> QED BY <1>7, <2>2, <2>4, <3>1, <4>2
    <3>3. EndsRun(s, 0) \/ EndsRun(s, c)
      BY <1>6, <2>1, <2>4, <3>1
    <3>4. EndsRun(Append(s, c + 1), c + 1)
      BY <3>3, RunGoesOn
    <3> QED BY <1>11, <2>1, <2>4, <3>2, <3>4
  <2>5. CASE y = u /\ u \notin Receivers
    <3>1. got'[y][n] = <<>>
      BY <1>3, <2>1, <2>5
    <3> QED BY <3>1 DEF EndsRun
  <2> QED BY <2>3, <2>4, <2>5
<1>15. ASSUME NEW y \in Nodes, y # n
       PROVE  Ascending(n, queue'[<<h[y], y>>]) /\ Edge(n, h, w, h[y], y)'
  <2>a. h[y] \in Nodes /\ Ascending(n, queue[<<h[y], y>>]) /\ Edge(n, h, taken, h[y], y)
    BY <1>15 DEF Flow
  <2>1. CASE y = u
    <3>1. queue'[<<v, u>>] = Tail(q)
      BY <1>3, QueueTypes
    <3>2. InHand(n, h, v, u)' <=> InHand(n, h, v, u)
      <4>1. h[v] \in Nodes /\ <<v, h[v]>> # <<u, v>>
        BY <1>3
      <4>2. hand'[<<v, h[v]>>] = hand[<<v, h[v]>>]
        BY <1>3, <4>1, QueueTypes
      <4> QED BY <1>3, <4>2 DEF InHand
    <3>3. Passed(n, h, w, v, u)' = d
      BY <1>3, <1>6, <1>11, <3>2 DEF Passed
    <3>4. Follows(n, h, w, v, u)'
      <4>1. c + 1 \in 0..d /\ (c + 1) + 1 = c + 2
        BY <1>7
      <4> QED BY <1>7, <1>11, <3>1, <3>3, <4>1 DEF Follows
    <3>5. (v = n /\ Opens(v, u))' \/ index'[<<v, u>>] # 0
      BY <1>3, <1>6, SetupStays
    <3> QED BY <1>4, <1>6, <1>7, <2>1, <3>1, <3>4, <3>5 DEF Edge
  <2>2. CASE y # u
    <3>1. queue'[<<h[y], y>>] = queue[<<h[y], y>>] /\ w[y] = taken[y]
      BY <1>3, <1>11, <2>a, <2>2, QueueTypes
    <3>2. CASE h[y] # u
      <4>1. hand'[<<h[y], h[h[y]]>>] = hand[<<h[y], h[h[y]]>>]
        BY <1>3, <2>a, <3>2, QueueTypes
      <4>2. InHand(n, h, h[y], y)' <=> InHand(n, h, h[y], y)
        BY <1>3, <4>1 DEF InHand
      <4>3. w[h[y]] = taken[h[y]]
        BY <1>11, <2>a, <3>2
      <4>4. Edge(n, h, w, h[y], y)'
        BY <2>a, <3>1, <4>2, <4>3, EdgeKept
      <4> QED BY <2>a, <3>1, <4>4
    <3>3. CASE h[y] = u
      <4>1. CASE IsClosed(u, y)
        BY <1>3, <2>a, <3>1, <3>3, <4>1 DEF Edge, IsClosed
      <4>2. CASE taken[y] = 0 /\ Numbers(n, queue[<<u, y>>]) = {}
        BY <2>a, <3>1, <3>3, <4>2 DEF Edge
      <4>3. CASE index[<<u, y>>] # 0 /\ h[u] # y /\ Follows(n, h, taken, u, y)
        <5>1. /\ Kind(u) = "router" /\ hand[<<u, v>>] = None
              /\ hand' = [hand EXCEPT ![<<u, v>>] = [msg |-> m, next |-> 1]]
          BY <1>3, <4>3 DEF Supplied
        <5>2. ~InHand(n, h, u, y) /\ InHand(n, h, u, y)'
          <6> DEFINE k == [msg |-> m, next |-> 1]
          <6>1. hand'[<<u, v>>] = k /\ k \in [msg : Msgs, next : Nat \ {0}]
            BY <5>1, QueueTypes
          <6>2. k.msg.src = n /\ k.next = 1
            BY <1>3
          <6>3. hand'[<<u, v>>] # None
            BY <6>1, NoneAssumption
          <6>4. index[<<u, y>>] \in Nat
            BY PairFacts DEF TypeOK, RouterTypeOK
          <6> HIDE DEF k
          <6> QED BY <1>3, <1>4, <4>3, <5>1, <6>1, <6>2, <6>3, <6>4 DEF InHand
        <5>3. Passed(n, h, taken, u, y) = taken[u] /\ Passed(n, h, w, u, y)' = c
          <6>1. taken[u] - 0 = taken[u] /\ w[u] - 1 = c
            <7>1. taken[u] \in Nat
              BY QueueTypes
            <7>2. w[u] = c + 1
              BY <1>11
            <7> QED BY <7>1, <7>2
          <6>2. Passed(n, h, taken, u, y) = taken[u]
            BY <5>2, <6>1 DEF Passed
          <6>3. Passed(n, h, w, u, y)' = c
            BY <5>2, <6>1 DEF Passed
          <6> QED BY <6>2, <6>3
        <5>4. PICK e \in 0..taken[u] : Numbers(n, queue[<<u, y>>]) = (e + 1)..taken[u] /\ taken[y] \in {0, e}
          BY <4>3, <5>3 DEF Follows
        <5>5. CASE taken[u] = 0
          <6>1. e = 0 /\ (e + 1)..taken[u] = {}
            BY <5>4, <5>5
          <6> QED BY <2>a, <3>1, <3>3, <5>4, <6>1 DEF Edge
        <5>6. CASE taken[u] = c
          <6>1. Follows(n, h, w, u, y)'
            BY <3>1, <3>3, <5>3, <5>4, <5>6 DEF Follows
          <6> QED BY <1>3, <2>a, <3>1, <3>3, <4>3, <6>1 DEF Edge
        <5> QED BY <1>6, <5>5, <5>6
      <4>4. CASE Kind(y) = "publisher"
        BY <2>a, <3>1, <3>3, <4>4, SetupStays DEF Edge
      <4> QED BY <1>4, <2>a, <3>3, <4>1, <4>2, <4>3, <4>4 DEF Edge
    <3> QED BY <3>2, <3>3
  <2> QED BY <2>1, <2>2
<1>16. Flow(n, h, w)'
  BY <1>12, <1>13, <1>14, <1>15 DEF Flow
<1> QED BY <1>16

\* The handler of v in u holds m and has come to q, at k in the table.  It sends m to q
\* if q is not v nor a publisher and has not closed; then it goes on behind q.
Forwards(u, v, m, k, q) ==
  /\ hand[<<u, v>>] = [msg |-> m, next |-> k] /\ hand[<<u, v>>] # None
  /\ index[<<u, q>>] = k /\ q \in Peers(u)
  /\ UNCHANGED <<link, sent, got, table, index>>
  /\ \/ queue' = queue /\ (q = v \/ IsClosed(u, q) \/ Kind(q) = "publisher")
     \/ /\ queue' = [queue EXCEPT ![<<u, q>>] = Append(queue[<<u, q>>], m)]
        /\ q # v /\ ~IsClosed(u, q) /\ Kind(q) # "publisher"
  /\ \/ /\ hand' = [hand EXCEPT ![<<u, v>>] = None]
        /\ \A y \in Nodes : y # q => index[<<u, y>>] < k
     \/ /\ hand' = [hand EXCEPT ![<<u, v>>] = [msg |-> m, next |-> k + 1]]
        /\ \A y \in Nodes : y # q => (k <= index[<<u, y>>] <=> k + 1 <= index[<<u, y>>])

\* That is what Forward does.
LEMMA ForwardFacts ==
  ASSUME Ground, NEW u \in Nodes, NEW v \in Nodes, v \in Peers(u), Forward(u, v)
  PROVE  \E m \in Msgs, k \in Nat \ {0}, q \in Nodes : Forwards(u, v, m, k, q)
<1> USE DEF Ground
<1>1. hand[<<u, v>>] # None /\ hand[<<u, v>>] \in [msg : Msgs, next : Nat \ {0}]
  BY QueueTypes DEF Forward
<1>2. PICK m \in Msgs, k \in Nat \ {0} : hand[<<u, v>>] = [msg |-> m, next |-> k]
  BY <1>1
<1>3. table[u] \in Seq(Nodes) /\ k \in DOMAIN table[u]
  <2>1. hand[<<u, v>>].next = k
    BY <1>2
  <2>2. table[u] \in Seq(Nodes)
    BY DEF TypeOK, RouterTypeOK
  <2>3. hand[<<u, v>>].next \in DOMAIN table[u]
    BY <1>1 DEF HandInTable
  <2> QED BY <2>1, <2>2, <2>3
<1>4. PICK q \in Nodes : q = table[u][k]
  BY <1>3
<1>5. index[<<u, q>>] = k /\ Made(u, q)
  BY <1>3, <1>4 DEF IndexIsOwn, OpenedOnly
<1>6. q \in Peers(u)
  BY <1>5 DEF Made, Peers
<1>7. k = index[<<u, v>>] <=> q = v
  <2>1. index[<<u, v>>] # 0 /\ table[u][index[<<u, v>>]] = v
    BY <1>1 DEF HandInTable, IndexIsOwn
  <2> QED BY <1>4, <1>5, <2>1
<1>8. \A y \in Nodes : /\ index[<<u, y>>] \in Nat /\ index[<<u, y>>] <= Len(table[u])
                       /\ y # q => index[<<u, y>>] # k
  <2>1. \A y \in Nodes : index[<<u, y>>] \in Nat
    BY PairFacts DEF TypeOK, RouterTypeOK
  <2>2. \A y \in Nodes : index[<<u, y>>] # 0 =>
          index[<<u, y>>] \in DOMAIN table[u] /\ table[u][index[<<u, y>>]] = y
    BY DEF IndexIsOwn
  <2>3. DOMAIN table[u] = 1..Len(table[u]) /\ Len(table[u]) \in Nat
    BY <1>3
  <2>4. \A y \in Nodes : index[<<u, y>>] <= Len(table[u])
    BY <2>1, <2>2, <2>3
  <2> QED BY <1>4, <2>1, <2>2, <2>4
<1>9. \/ queue' = queue /\ (q = v \/ IsClosed(u, q) \/ Kind(q) = "publisher")
      \/ /\ queue' = [queue EXCEPT ![<<u, q>>] = Append(queue[<<u, q>>], m)]
         /\ q # v /\ ~IsClosed(u, q) /\ Kind(q) # "publisher"
  <2>1. hand[<<u, v>>].msg = m /\ hand[<<u, v>>].next = k
    BY <1>2
  <2>2. IF k = index[<<u, v>>] \/ IsClosed(u, q) \/ Kind(q) = "publisher"
          THEN UNCHANGED queue
          ELSE queue' = [queue EXCEPT ![<<u, q>>] = Append(queue[<<u, q>>], m)]
    BY <1>4, <2>1 DEF Forward, Queued
  <2> QED BY <1>7, <2>2
<1>10. hand' = [hand EXCEPT ![<<u, v>>] = IF k = Len(table[u]) THEN None ELSE [msg |-> m, next |-> k + 1]]
  BY <1>2 DEF Forward
<1>11. \/ /\ hand' = [hand EXCEPT ![<<u, v>>] = None]
          /\ \A y \in Nodes : y # q => index[<<u, y>>] < k
       \/ /\ hand' = [hand EXCEPT ![<<u, v>>] = [msg |-> m, next |-> k + 1]]
          /\ \A y \in Nodes : y # q => (k <= index[<<u, y>>] <=> k + 1 <= index[<<u, y>>])
  <2>1. CASE k = Len(table[u])
    <3>1. \A y \in Nodes : y # q => index[<<u, y>>] < k
      BY <1>8, <2>1
    <3> QED BY <1>10, <2>1, <3>1
  <2>2. CASE k # Len(table[u])
    <3>1. \A y \in Nodes : y # q => (k <= index[<<u, y>>] <=> k + 1 <= index[<<u, y>>])
      BY <1>8
    <3> QED BY <1>10, <2>2, <3>1
  <2> QED BY <2>1, <2>2
<1>12. UNCHANGED <<link, sent, got, table, index>>
  BY DEF Forward
<1>13. Forwards(u, v, m, k, q)
  BY <1>1, <1>2, <1>5, <1>6, <1>9, <1>11, <1>12 DEF Forwards
<1> QED BY <1>13

\* A router that sends a message on.
LEMMA FlowForward ==
  ASSUME Ground, [Next]_vars, NEW n \in Nodes, NEW h \in [Nodes -> Nodes], Rooted(n, h),
         NEW taken \in [Nodes -> 0..sent[n]], Flow(n, h, taken),
         NEW u \in Nodes, NEW v \in Nodes, v \in Peers(u), Forward(u, v)
  PROVE  Flow(n, h, taken)'
<1>0. PICK m \in Msgs, k \in Nat \ {0}, q \in Nodes : Forwards(u, v, m, k, q)
  BY ForwardFacts
<1>1. /\ hand[<<u, v>>] = [msg |-> m, next |-> k] /\ hand[<<u, v>>] # None
      /\ index[<<u, q>>] = k /\ q \in Peers(u)
      /\ UNCHANGED <<link, sent, got, table, index>>
      /\ \/ queue' = queue /\ (q = v \/ IsClosed(u, q) \/ Kind(q) = "publisher")
         \/ /\ queue' = [queue EXCEPT ![<<u, q>>] = Append(queue[<<u, q>>], m)]
            /\ q # v /\ ~IsClosed(u, q) /\ Kind(q) # "publisher"
      /\ \/ /\ hand' = [hand EXCEPT ![<<u, v>>] = None]
            /\ \A y \in Nodes : y # q => index[<<u, y>>] < k
         \/ /\ hand' = [hand EXCEPT ![<<u, v>>] = [msg |-> m, next |-> k + 1]]
            /\ \A y \in Nodes : y # q => (k <= index[<<u, y>>] <=> k + 1 <= index[<<u, y>>])
  BY <1>0 DEF Forwards
<1> USE DEF Ground
<1> DEFINE one == [msg |-> m, next |-> k]
           two == [msg |-> m, next |-> k + 1]
<1>2. /\ one.msg = m /\ one.next = k /\ two.msg = m /\ two.next = k + 1
      /\ two \in [msg : Msgs, next : Nat \ {0}]
  OBVIOUS
<1>3. hand[<<u, v>>] = one /\ (hand' = [hand EXCEPT ![<<u, v>>] = None] \/ hand' = [hand EXCEPT ![<<u, v>>] = two])
  BY <1>1
<1>a. hand' = [hand EXCEPT ![<<u, v>>] = None] => \A y \in Nodes : y # q => index[<<u, y>>] < k
  <2>1. two # None
    BY <1>2, NoneAssumption
  <2>2. hand' = [hand EXCEPT ![<<u, v>>] = None] => hand' # [hand EXCEPT ![<<u, v>>] = two]
    BY <2>1, QueueTypes
  <2> QED BY <1>1, <2>2
<1>b. hand' = [hand EXCEPT ![<<u, v>>] = two] =>
        \A y \in Nodes : y # q => (k <= index[<<u, y>>] <=> k + 1 <= index[<<u, y>>])
  <2>1. two # None
    BY <1>2, NoneAssumption
  <2>2. hand' = [hand EXCEPT ![<<u, v>>] = two] => hand' # [hand EXCEPT ![<<u, v>>] = None]
    BY <2>1, QueueTypes
  <2> QED BY <1>1, <2>2
<1> HIDE DEF one, two
<1>c. \A y \in Nodes : index[<<u, y>>] \in Nat /\ h[y] \in Nodes
  BY PairFacts DEF TypeOK, RouterTypeOK
<1>4. \A r, p \in Nodes :
        /\ <<r, p>> # <<u, v>> => hand'[<<r, p>>] = hand[<<r, p>>]
        /\ hand'[<<r, p>>] # None => hand[<<r, p>>] # None /\ hand'[<<r, p>>].msg = hand[<<r, p>>].msg
  BY <1>1, <1>2, <1>3, QueueTypes
<1>5. \A x, y \in Nodes : ~(x = u /\ h[u] = v) => (InHand(n, h, x, y)' <=> InHand(n, h, x, y))
  BY <1>1, <1>4, <1>c DEF InHand
<1>6. ASSUME h[u] = v, NEW y \in Nodes, y # q
      PROVE  InHand(n, h, u, y)' <=> InHand(n, h, u, y)
  <2>1. InHand(n, h, u, y) <=> m.src = n /\ k <= index[<<u, y>>]
    BY <1>1, <1>2, <1>3, <1>6 DEF InHand
  <2>2. CASE hand' = [hand EXCEPT ![<<u, v>>] = None]
    <3>1. ~(k <= index[<<u, y>>])
      BY <1>6, <1>a, <1>c, <2>2
    <3>2. hand'[<<u, v>>] = None
      BY <2>2, QueueTypes
    <3>3. ~InHand(n, h, u, y)'
      BY <1>6, <3>2 DEF InHand
    <3> QED BY <2>1, <3>1, <3>3
  <2>3. CASE hand' = [hand EXCEPT ![<<u, v>>] = two]
    <3>1. hand'[<<u, v>>] = two /\ two # None
      BY <1>2, <2>3, QueueTypes, NoneAssumption
    <3>2. InHand(n, h, u, y)' <=> m.src = n /\ k + 1 <= index[<<u, y>>]
      BY <1>1, <1>2, <1>6, <3>1 DEF InHand
    <3> QED BY <1>6, <1>b, <2>1, <2>3, <3>2
  <2> QED BY <1>3, <2>2, <2>3
<1>7. ASSUME h[u] = v, m.src = n
      PROVE  InHand(n, h, u, q) /\ ~InHand(n, h, u, q)'
  <2>1. InHand(n, h, u, q)
    BY <1>1, <1>2, <1>3, <1>7 DEF InHand
  <2>2. CASE hand' = [hand EXCEPT ![<<u, v>>] = None]
    <3>1. hand'[<<u, v>>] = None
      BY <2>2, QueueTypes
    <3> QED BY <1>7, <2>1, <3>1 DEF InHand
  <2>3. CASE hand' = [hand EXCEPT ![<<u, v>>] = two]
    <3>1. hand'[<<u, v>>] = two
      BY <2>3, QueueTypes
    <3>2. index'[<<u, q>>] = k /\ ~(k + 1 <= k)
      BY <1>1
    <3>3. hand'[<<u, v>>].next = k + 1
      BY <1>2, <3>1
    <3> QED BY <1>7, <2>1, <3>2, <3>3 DEF InHand
  <2> QED BY <1>3, <2>2, <2>3
<1>8. ASSUME m.src # n, NEW x \in Nodes, NEW y \in Nodes
      PROVE  InHand(n, h, x, y)' <=> InHand(n, h, x, y)
  <2>1. CASE x = u /\ h[u] = v
    <3>1. hand[<<u, v>>] # None /\ hand[<<u, v>>].msg = m
      BY <1>1, <1>2, <1>3
    <3>2. hand'[<<u, v>>] # None => hand'[<<u, v>>].msg = m
      BY <1>4, <3>1
    <3> QED BY <1>8, <2>1, <3>1, <3>2 DEF InHand
  <2>2. CASE ~(x = u /\ h[u] = v)
    BY <1>5, <2>2
  <2> QED BY <2>1, <2>2
<1>9. \A x \in Nodes : x # n => h[x] \in Nodes /\ Ascending(n, queue[<<h[x], x>>]) /\ Edge(n, h, taken, h[x], x)
  BY DEF Flow
<1>10. CASE queue' = queue
  <2>1. q = v \/ IsClosed(u, q) \/ Kind(q) = "publisher"
    <3>1. ASSUME queue' = [queue EXCEPT ![<<u, q>>] = Append(queue[<<u, q>>], m)]
          PROVE  FALSE
      <4>1. PICK s \in Seq(Msgs) : s = queue[<<u, q>>]
        BY QueueTypes
      <4>2. Append(s, m) = s
        BY <1>10, <3>1, <4>1, QueueTypes
      <4>3. Len(Append(s, m)) = Len(s) + 1 /\ Len(s) \in Nat
        OBVIOUS
      <4> QED BY <4>2, <4>3
    <3> QED BY <1>1, <3>1
  <2>2. ASSUME NEW x \in Nodes
        PROVE  \/ InHand(n, h, h[x], x)' <=> InHand(n, h, h[x], x)
               \/ IsClosed(h[x], x) \/ Kind(x) = "publisher" \/ h[h[x]] = x
    <3>1. CASE h[x] = u /\ h[u] = v
      BY <1>6, <2>1, <3>1
    <3>2. CASE ~(h[x] = u /\ h[u] = v)
      BY <1>5, <1>c, <3>2
    <3> QED BY <3>1, <3>2
  <2>3. sent' = sent /\ got' = got
    BY <1>1
  <2>4. \A x \in Nodes : x # n =>
          /\ Numbers(n, queue'[<<h[x], x>>]) = Numbers(n, queue[<<h[x], x>>])
          /\ Ascending(n, queue'[<<h[x], x>>])
    BY <1>9, <1>10
  <2> QED BY <1>4, <2>2, <2>3, <2>4, FlowStill
<1>11. CASE queue' = [queue EXCEPT ![<<u, q>>] = Append(queue[<<u, q>>], m)] /\ m.src # n
  <2>1. ASSUME NEW x \in Nodes, x # n
        PROVE  /\ Numbers(n, queue'[<<h[x], x>>]) = Numbers(n, queue[<<h[x], x>>])
               /\ Ascending(n, queue'[<<h[x], x>>])
    <3>1. CASE <<h[x], x>> = <<u, q>>
      <4>1. PICK s \in Seq(Msgs) : s = queue[<<u, q>>]
        BY QueueTypes
      <4>2. queue'[<<h[x], x>>] = Append(s, m) /\ Ascending(n, s)
        BY <1>9, <1>11, <2>1, <3>1, <4>1, QueueTypes
      <4>3. Numbers(n, Append(s, m)) = Numbers(n, s) /\ Ascending(n, Append(s, m))
        BY <1>11, <4>2, AppendOther
      <4> QED BY <3>1, <4>1, <4>2, <4>3
    <3>2. CASE <<h[x], x>> # <<u, q>>
      <4>1. queue'[<<h[x], x>>] = queue[<<h[x], x>>]
        BY <1>9, <1>11, <2>1, <3>2, QueueTypes
      <4> QED BY <1>9, <2>1, <4>1
    <3> QED BY <3>1, <3>2
  <2>2. \A x \in Nodes : InHand(n, h, h[x], x)' <=> InHand(n, h, h[x], x)
    BY <1>8, <1>11, <1>c
  <2>3. sent' = sent /\ got' = got
    BY <1>1
  <2> QED BY <1>4, <2>1, <2>2, <2>3, FlowStill
<1>12. CASE /\ queue' = [queue EXCEPT ![<<u, q>>] = Append(queue[<<u, q>>], m)] /\ queue' # queue
            /\ m.src = n
  <2>1. h[u] = v /\ m.seq = taken[u] /\ m.seq \in Nat \ {0}
    <3>1. hand[<<u, v>>] # None /\ hand[<<u, v>>].msg = m
      BY <1>1, <1>2, <1>3
    <3>2. m.seq = taken[u]
      BY <1>12, <3>1 DEF Flow
    <3>3. h[u] = v
      BY <1>12, <3>1, TreeFacts
    <3> QED BY <3>2, <3>3, QueueTypes
  <2>2. q # v /\ ~IsClosed(u, q) /\ Kind(q) # "publisher"
    BY <1>1, <1>12
  <2>3. h[q] = u
    BY <1>1, <2>1, <2>2, TreeFacts
  <2>4. ASSUME NEW y \in Nodes, y # n
        PROVE  Ascending(n, queue'[<<h[y], y>>]) /\ Edge(n, h, taken, h[y], y)'
    <3>1. CASE y = q
      <4>1. PICK s \in Seq(Msgs) : s = queue[<<u, q>>]
        BY QueueTypes
      <4>2. queue'[<<u, q>>] = Append(s, m) /\ Ascending(n, s) /\ Edge(n, h, taken, u, q)
        BY <1>9, <1>12, <2>3, <2>4, <3>1, <4>1, QueueTypes
      <4>3. PICK d \in Nat : m.seq = d + 1 /\ d = taken[u] - 1
        <5>1. m.seq - 1 \in Nat /\ m.seq = (m.seq - 1) + 1
          BY <2>1
        <5> QED BY <2>1, <5>1
      <4>4. Passed(n, h, taken, u, q) = d /\ Passed(n, h, taken, u, q)' = d + 1
        <5>1. Passed(n, h, taken, u, q) = taken[u] - 1
          BY <1>7, <1>12, <2>1 DEF Passed
        <5>2. Passed(n, h, taken, u, q)' = taken[u] - 0
          BY <1>7, <1>12, <2>1 DEF Passed
        <5> QED BY <2>1, <4>3, <5>1, <5>2
      <4>5. PICK c \in 0..d : Numbers(n, s) = (c + 1)..d /\ taken[q] \in {0, c}
        <5>1. CASE taken[q] = 0 /\ Numbers(n, s) = {}
          <6>1. (d + 1)..d = {} /\ d \in 0..d
            OBVIOUS
          <6> QED BY <5>1, <6>1
        <5>2. CASE Follows(n, h, taken, u, q)
          BY <4>1, <4>4, <5>2 DEF Follows
        <5> QED BY <2>2, <4>1, <4>2, <5>1, <5>2 DEF Edge
      <4>6. c \in Nat /\ c <= d /\ c \in 0..(d + 1)
        OBVIOUS
      <4>7. Numbers(n, queue'[<<u, q>>]) = (c + 1)..(d + 1) /\ Ascending(n, queue'[<<u, q>>])
        <5>1. Numbers(n, Append(s, m)) = (c + 1)..(d + 1) /\ Ascending(n, Append(s, m))
          <6>1. m.src = n /\ m.seq = d + 1 /\ Numbers(n, s) = (c + 1)..d /\ Ascending(n, s)
            BY <1>12, <4>2, <4>3, <4>5
          <6> QED BY <4>6, <6>1, AppendNext
        <5> QED BY <4>2, <5>1
      <4>8. Follows(n, h, taken, u, q)'
        BY <4>4, <4>5, <4>6, <4>7 DEF Follows
      <4>9. index'[<<u, q>>] # 0
        BY <1>1
      <4> QED BY <2>1, <2>2, <2>3, <3>1, <4>7, <4>8, <4>9 DEF Edge
    <3>2. CASE y # q
      <4>1. queue'[<<h[y], y>>] = queue[<<h[y], y>>]
        BY <1>9, <1>12, <2>4, <3>2, QueueTypes
      <4>2. InHand(n, h, h[y], y)' <=> InHand(n, h, h[y], y)
        BY <1>5, <1>6, <1>c, <3>2
      <4>3. Edge(n, h, taken, h[y], y)'
        BY <1>9, <2>4, <4>1, <4>2, EdgeKept
      <4> QED BY <1>9, <2>4, <4>1, <4>3
    <3> QED BY <3>1, <3>2
  <2>5. taken[n] = sent'[n]
    BY <1>1 DEF Flow
  <2>6. \A r, p \in Nodes :
          hand'[<<r, p>>] # None /\ hand'[<<r, p>>].msg.src = n => hand'[<<r, p>>].msg.seq = taken[r]
    BY <1>4 DEF Flow
  <2>7. \A y \in Nodes : EndsRun(got'[y][n], taken[y]) /\ (y \notin Receivers' => got'[y][n] = <<>>)
    BY <1>1, SetupStays DEF Flow, Receivers
  <2> QED BY <2>4, <2>5, <2>6, <2>7 DEF Flow
<1> QED BY <1>1, <1>10, <1>11, <1>12

-----------------------------------------------------------------------------
\* At first nothing is on its way.
LEMMA InitFlow == Init => Supplied /\ FlowInv
<1> SUFFICES ASSUME Init PROVE Supplied /\ FlowInv
  OBVIOUS
<1>1. \A x, y \in Nodes : /\ queue[<<x, y>>] = <<>> /\ hand[<<x, y>>] = None /\ index[<<x, y>>] = 0
                          /\ got[x][y] = <<>> /\ sent[x] = 0
  BY PairFacts DEF Init, NetInit, RouterInit
<1>2. Supplied
  BY <1>1 DEF Supplied
<1>3. ASSUME NEW n \in Nodes, NEW h \in [Nodes -> Nodes]
      PROVE  \E taken \in [Nodes -> 0..sent[n]] : Flow(n, h, taken)
  <2> PICK none \in [Nodes -> 0..0] : \A x \in Nodes : none[x] = 0
    <3>1. [x \in Nodes |-> 0] \in [Nodes -> 0..0]
      OBVIOUS
    <3> QED BY <3>1
  <2>1. none \in [Nodes -> 0..sent[n]] /\ none[n] = sent[n]
    BY <1>1
  <2>2. \A y \in Nodes : EndsRun(got[y][n], none[y])
    <3>1. EndsRun(<<>>, 0)
      BY DEF EndsRun
    <3> QED BY <1>1, <3>1
  <2>3. \A y \in Nodes : Ascending(n, queue[<<h[y], y>>]) /\ Edge(n, h, none, h[y], y)
    <3>1. \A y \in Nodes : queue[<<h[y], y>>] = <<>>
      BY <1>1
    <3>2. Ascending(n, <<>>) /\ Numbers(n, <<>>) = {}
      BY DEF Ascending, Numbers, From
    <3> QED BY <3>1, <3>2 DEF Edge
  <2>4. Flow(n, h, none)
    BY <1>1, <2>1, <2>2, <2>3 DEF Flow
  <2> QED BY <2>1, <2>4
<1>4. FlowInv
  BY <1>3 DEF FlowInv
<1> QED BY <1>2, <1>4

\* FlowInv holds from step to step.
LEMMA FlowStep ==
  ASSUME Ground, AwayInv, FlowInv, [Next]_vars
  PROVE  FlowInv'
<1> SUFFICES ASSUME NEW n \in Nodes, NEW h \in [Nodes -> Nodes], IsTree(setup', n, h)
    PROVE  \E t \in [Nodes -> 0..sent'[n]] : Flow(n, h, t)'
  BY DEF FlowInv
<1>1. IsTree(setup, n, h)
  BY Changes DEF Ground
<1>2. Rooted(n, h)
  BY <1>1 DEF Rooted, AwayInv
<1>3. PICK taken \in [Nodes -> 0..sent[n]] : Flow(n, h, taken)
  BY <1>1 DEF FlowInv
<1>4. ASSUME Flow(n, h, taken)', sent' = sent
      PROVE  \E t \in [Nodes -> 0..sent'[n]] : Flow(n, h, t)'
  <2>1. taken \in [Nodes -> 0..sent'[n]]
    BY <1>4
  <2> QED BY <1>4, <2>1
<1>5. CASE UNCHANGED <<queue, hand, sent, got>>
  <2>1. Flow(n, h, taken)'
    BY <1>2, <1>3, <1>5, FlowNothing
  <2> QED BY <1>4, <1>5, <2>1
<1>6. ASSUME NEW u \in Nodes, Publish(u)
      PROVE  \E t \in [Nodes -> 0..sent'[n]] : Flow(n, h, t)'
  BY <1>2, <1>3, <1>6, FlowPublish
<1>7. ASSUME NEW u \in Nodes, NEW v \in Nodes, v \in Peers(u), Take(u, v)
      PROVE  \E t \in [Nodes -> 0..sent'[n]] : Flow(n, h, t)'
  <2>1. CASE Head(queue[<<v, u>>]).src = n
    BY <1>2, <1>3, <1>7, <2>1, FlowTake
  <2>2. CASE Head(queue[<<v, u>>]).src # n
    <3>1. Flow(n, h, taken)'
      BY <1>2, <1>3, <1>7, <2>2, FlowTakeOther
    <3>2. sent' = sent
      BY <1>7, TakeFacts DEF Ground
    <3> QED BY <1>4, <3>1, <3>2
  <2> QED BY <2>1, <2>2
<1>8. ASSUME NEW u \in Nodes, NEW v \in Nodes, v \in Peers(u), Forward(u, v)
      PROVE  \E t \in [Nodes -> 0..sent'[n]] : Flow(n, h, t)'
  <2>1. Flow(n, h, taken)'
    BY <1>2, <1>3, <1>8, FlowForward
  <2>2. sent' = sent
    BY <1>8 DEF Forward
  <2> QED BY <1>4, <2>1, <2>2
<1>9. ASSUME NEW u \in Nodes, NEW v \in Nodes, v \in Peers(u), Close(u, v, Silent(v)),
             UNCHANGED <<table, index, hand>>
      PROVE  \E t \in [Nodes -> 0..sent'[n]] : Flow(n, h, t)'
  <2>1. Flow(n, h, taken)'
    BY <1>2, <1>3, <1>9, FlowClose
  <2>2. sent' = sent
    BY <1>9 DEF Close
  <2> QED BY <1>4, <2>1, <2>2
<1>10. TypeOK
  BY DEF Ground
<1> QED BY <1>5, <1>6, <1>7, <1>8, <1>9, <1>10, FlowCases

\* The first of a sequence that is not empty.
LEMMA FirstOf ==
  ASSUME NEW S, NEW s \in Seq(S), s # <<>>
  PROVE  s[1] \in S
<1>1. Len(s) \in Nat /\ Len(s) # 0
  OBVIOUS
<1>2. 1 \in 1..Len(s)
  BY <1>1
<1> QED BY <1>2

\* A run of consecutive numbers up to one that has been sent.
LEMMA RunOfSent ==
  ASSUME NEW s \in Seq(1..MaxMsgs), NEW last \in Nat, NEW top \in Nat, last <= top,
         EndsRun(s, last)
  PROVE  Broadcasting!IsRun(s, top)
<1>1. s # <<>> => s[1] \in 1..MaxMsgs
  BY FirstOf
<1>2. ASSUME s # <<>>
      PROVE  s[1] >= 1 /\ s[Len(s)] <= top
  <2>1. s[Len(s)] = last
    BY <1>2 DEF EndsRun
  <2>2. s[1] \in 1..MaxMsgs
    BY <1>1, <1>2
  <2> QED BY <2>1, <2>2, BoundsAssumption
<1> QED BY <1>2 DEF EndsRun, Broadcasting!IsRun

\* A sequence that begins as another.
LEMMA Extends ==
  ASSUME NEW S, NEW s \in Seq(S), NEW r \in Seq(S), Len(s) <= Len(r), \A i \in 1..Len(s) : r[i] = s[i]
  PROVE  Broadcasting!IsExtended(s, r)
<1> DEFINE t == SubSeq(r, 1, Len(s))
<1>1. Len(s) \in Nat /\ Len(r) \in Nat
  OBVIOUS
<1>2. Len(t) = Len(s) /\ \A i \in 1..Len(s) : t[i] = r[i]
  BY <1>1
<1>a. t \in Seq(S)
  BY <1>1
<1>3. \A i \in 1..Len(s) : t[i] = s[i]
  BY <1>2
<1> HIDE DEF t
<1>4. t = s
  BY <1>a, <1>2, <1>3
<1> QED BY <1>4 DEF t, Broadcasting!IsExtended

\* What is got is added at the end.
LEMMA AppendExtends ==
  ASSUME NEW S, NEW s \in Seq(S), NEW k \in S
  PROVE  Broadcasting!IsExtended(s, s) /\ Broadcasting!IsExtended(s, Append(s, k))
<1>1. Len(s) \in Nat /\ Append(s, k) \in Seq(S) /\ Len(Append(s, k)) = Len(s) + 1
  OBVIOUS
<1>2. \A i \in 1..Len(s) : Append(s, k)[i] = s[i]
  OBVIOUS
<1>3. Broadcasting!IsExtended(s, Append(s, k))
  <2> PICK r \in Seq(S) : r = Append(s, k)
    BY <1>1
  <2>1. Len(s) <= Len(r) /\ \A i \in 1..Len(s) : r[i] = s[i]
    BY <1>1, <1>2
  <2>2. Broadcasting!IsExtended(s, r)
    BY <2>1, Extends
  <2> QED BY <2>2
<1>4. Broadcasting!IsExtended(s, s)
  BY <1>1, Extends
<1> QED BY <1>3, <1>4

\* The inductive invariant of the refinement.
FInv == IInv /\ Supplied /\ FlowInv

LEMMA NextFInv == FInv /\ [Next]_vars => FInv'
<1> SUFFICES ASSUME FInv, [Next]_vars PROVE FInv'
  OBVIOUS
<1>1. IInv /\ Ground /\ AwayInv /\ FlowInv
  BY DEF FInv, IInv, Ground
<1>2. IInv' /\ FlowInv'
  BY <1>1, NextIInv, FlowStep
<1>3. Supplied'
  BY <1>1, SuppliedStep DEF Ground
<1> QED BY <1>2, <1>3 DEF FInv

\* What a node has got may be got.
GotRuns == \A r, p \in Nodes : Broadcasting!IsRun(got[r][p], sent[p])

\* By FlowInv, whatever has been got is a run.
LEMMA FInvRuns == FInv => GotRuns
<1> SUFFICES ASSUME FInv, NEW r \in Nodes, NEW p \in Nodes
    PROVE  Broadcasting!IsRun(got[r][p], sent[p])
  BY DEF GotRuns
<1>0. TypeOK /\ FlowInv
  BY DEF FInv, IInv
<1>1. PICK h \in [Nodes -> Nodes] : IsTree(setup, p, h)
  BY <1>0, TreeAssumption DEF TypeOK, NetTypeOK
<1>2. PICK taken \in [Nodes -> 0..sent[p]] : Flow(p, h, taken)
  BY <1>0, <1>1 DEF FlowInv
<1>3. EndsRun(got[r][p], taken[r])
  BY <1>2 DEF Flow
<1>4. PICK top \in Nat : top = sent[p]
  BY <1>0, QueueTypes
<1>5. PICK last \in 0..top : last = taken[r]
  BY <1>4
<1>6. PICK s \in Seq(1..MaxMsgs) : s = got[r][p]
  BY <1>0 DEF TypeOK, NetTypeOK
<1> QED BY <1>3, <1>4, <1>5, <1>6, RunOfSent

\* A message that a node gets is the next of its publisher, after the first.
LEMMA TakeGets ==
  ASSUME FInv, GotRuns', NEW u \in Nodes, NEW v \in Nodes, v \in Peers(u), Take(u, v)
  PROVE  UNCHANGED <<sent, got>> \/ Broadcasting!Get(u)
<1>1. TypeOK /\ OpenedOnly /\ Supplied
  BY DEF FInv, IInv
<1>2. PICK m \in Msgs : m = Head(queue[<<v, u>>])
  <2>1. queue[<<v, u>>] # <<>> /\ queue[<<v, u>>] \in Seq(Msgs)
    BY <1>1, TakeFacts, QueueTypes
  <2> QED BY <2>1
<1>3. m.src \in Nodes /\ m.seq \in 1..MaxMsgs
  BY <1>1, QueueTypes
<1>4. got \in [Nodes -> [Nodes -> Seq(1..MaxMsgs)]]
  BY <1>1 DEF TypeOK, NetTypeOK
<1>5. sent' = sent
  BY <1>1, TakeFacts
<1>6. CASE got' = [got EXCEPT ![u][m.src] = Append(got[u][m.src], m.seq)]
  <2>1. got' = [got EXCEPT ![u] = got'[u]]
    BY <1>4, <1>6
  <2>2. ASSUME NEW p \in Nodes
        PROVE  Broadcasting!IsExtended(got[u][p], got'[u][p])
    <3>1. got[u][p] \in Seq(1..MaxMsgs)
      BY <1>4
    <3>2. got'[u][p] \in {got[u][p], Append(got[u][p], m.seq)}
      BY <1>3, <1>4, <1>6
    <3> QED BY <1>3, <3>1, <3>2, AppendExtends
  <2>3. ASSUME NEW p \in Nodes
        PROVE  Broadcasting!IsRun(got'[u][p], sent[p])
    <3>1. Broadcasting!IsRun(got'[u][p], sent'[p])
      BY DEF GotRuns
    <3> QED BY <1>5, <3>1
  <2> QED BY <1>5, <2>1, <2>2, <2>3 DEF Broadcasting!Get
<1>7. CASE got' = got
  BY <1>5, <1>7
<1> QED BY <1>1, <1>2, <1>6, <1>7, TakeFacts

\* Whatever is stopped or closes, and however the handlers of a router meet in its
\* table, a receiver gets the messages of a publisher in order, once, with no gap.
THEOREM RefinesBroadcast == Spec => ImplementsBroadcast
<1>1. Init => FInv /\ Broadcasting!Init
  BY InitIInv, InitFlow DEF FInv, Init, NetInit, Broadcasting!Init
<1>2. FInv /\ GotRuns' /\ [Next]_vars => [Broadcasting!Next]_<<sent, got>>
  <2> SUFFICES ASSUME FInv, GotRuns', [Next]_vars
               PROVE  UNCHANGED <<sent, got>> \/ Broadcasting!Next
    OBVIOUS
  <2>1. ASSUME NEW u \in Nodes, Publish(u)
        PROVE  Broadcasting!Next
    BY <2>1 DEF Publish, Broadcasting!Next, Broadcasting!Send
  <2>2. ASSUME NEW u \in Nodes, NEW v \in Nodes, v \in Peers(u), Take(u, v)
        PROVE  UNCHANGED <<sent, got>> \/ Broadcasting!Next
    BY <2>2, TakeGets DEF Broadcasting!Next
  <2>3. ASSUME NEW u \in Nodes, NEW v \in Nodes, Forward(u, v) \/ Close(u, v, Silent(v))
        PROVE  UNCHANGED <<sent, got>>
    BY <2>3 DEF Forward, Close
  <2>4. TypeOK
    BY DEF FInv, IInv
  <2> QED BY <2>1, <2>2, <2>3, <2>4, FlowCases
<1> QED BY <1>1, <1>2, NextFInv, FInvRuns, PTL DEF Spec, ImplementsBroadcast, Broadcasting!Spec
-----------------------------------------------------------------------------
\* Who has ended does not run again.
LEMMA AliveStays ==
  ASSUME TypeOK, [Next]_vars, NEW n \in Nodes, alive'[n]
  PROVE  alive[n]
<1>1. alive \in [Nodes -> BOOLEAN]
  BY DEF TypeOK, NetTypeOK
<1>2. alive' = alive \/ \E x \in Nodes : alive' = [alive EXCEPT ![x] = FALSE]
  BY Changes, PairFacts DEF PublishFails, Leave, OpenFails, FallTcp, FallUdp
<1> QED BY <1>1, <1>2

\* While a handler of r holds the read lock, who waits for the write lock goes on waiting.
LEMMA WaitingStays ==
  ASSUME TypeOK, [Next]_vars, NEW r \in Nodes, ReadLocked(r)
  PROVE  waiting[r] \subseteq waiting'[r]
<1> DEFINE Goal == waiting[r] \subseteq waiting'[r]
<1>a. waiting \in [Nodes -> SUBSET Nodes]
  BY DEF TypeOK, RouterTypeOK
<1>1. CASE waiting' = waiting
  BY <1>1
<1>2. ASSUME NEW n \in Nodes, NEW p \in Nodes, NewUnicast(n, p)
      PROVE  Goal
  <2>1. \/ waiting' = waiting
        \/ n # r /\ waiting' = [waiting EXCEPT ![n] = waiting[n] \ {p}]
    BY <1>2 DEF NewUnicast
  <2> QED BY <1>a, <2>1
<1>3. ASSUME NEW n \in Nodes, NEW p \in Nodes, WaitToWrite(n, p)
      PROVE  Goal
  <2>1. waiting' = [waiting EXCEPT ![n] = waiting[n] \cup {p}]
    BY <1>3 DEF WaitToWrite
  <2> QED BY <1>a, <2>1
<1>4. ASSUME NEW x \in Nodes,
             \/ Publish(x) \/ PublishFails(x)
             \/ Dial(x) /\ UNCHANGED <<routerVars, sinkVars>>
             \/ Leave(x) /\ UNCHANGED <<routerVars, sinkVars>>
      PROVE  Goal
  BY <1>1, <1>4 DEF Publish, PublishFails, routerVars
<1>5. ASSUME NEW x \in Nodes, NEW y \in Peers(x), Handshake(x, y)
      PROVE  Goal
  <2>1. CASE Accept(x, y) \/ Establish(x, y)
    BY <1>2, <2>1, PairFacts DEF Accept, Establish
  <2>2. CASE UNCHANGED routerVars
    BY <1>1, <2>2 DEF routerVars
  <2> QED BY <1>5, <2>1, <2>2 DEF Handshake
<1>6. ASSUME NEW x \in Nodes, NEW y \in Peers(x), Serve(x, y)
      PROVE  Goal
  <2>1. CASE WaitToWrite(x, y)
    BY <1>3, <2>1, PairFacts
  <2>2. CASE HandleMessage(x, y) \/ Forward(x, y)
    BY <1>1, <2>2 DEF HandleMessage, Forward
  <2>3. CASE Receive(x, y)
    BY <1>1, <2>3 DEF Receive, routerVars
  <2>4. CASE UNCHANGED routerVars
    BY <1>1, <2>4 DEF routerVars
  <2> QED BY <1>6, <2>1, <2>2, <2>3, <2>4 DEF Serve, Closed
<1>7. CASE UNCHANGED vars
  BY <1>1, <1>7 DEF vars, routerVars
<1> QED BY <1>4, <1>5, <1>6, <1>7, StepCases

\* A program that runs and is no sink answers.
LEMMA NotSilent ==
  ASSUME SpinsForDeparted, NEW n \in Nodes, alive[n], Kind(n) = "router"
  PROVE  ~Silent(n)
<1>1. Spinning(n) = {}
  BY DEF SpinsForDeparted, Spinning
<1>2. Cardinality(Spinning(n)) = 0
  BY <1>1, FS_EmptySet
<1> QED BY <1>2, WorkersAssumption DEF Silent, Starved

\* The transport of two routers that run does not close.
LEMMA StaysOpen ==
  ASSUME TypeOK, OpenedOnly, SpinsForDeparted, [Next]_vars, NEW r \in Nodes, NEW q \in Nodes,
         Kind(r) = "router", Kind(q) = "router", ~IsClosed(r, q), alive'[r], alive'[q]
  PROVE  /\ ~IsClosed(r, q)'
         /\ \A x, y \in Nodes : {x, y} = {r, q} => ~Close(x, y, Silent(y))
<1>1. alive[r] /\ alive[q] /\ ~Silent(r) /\ ~Silent(q)
  BY AliveStays, NotSilent
<1>2. \A x, y \in Nodes : {x, y} = {r, q} => ~Close(x, y, Silent(y))
  BY <1>1 DEF Close
<1>3. ASSUME NEW x \in Nodes, NEW y \in Nodes, {x, y} = {r, q}, link[<<x, y>>] # "closed"
      PROVE  link'[<<x, y>>] # "closed"
  <2>a. link \in [Pairs -> Stages] /\ <<x, y>> \in Pairs /\ alive'[x]
    BY <1>3, PairFacts DEF TypeOK, NetTypeOK
  <2>1. CASE link' = link
    BY <1>3, <2>1
  <2>2. ASSUME NEW u \in Nodes, Dial(u)
        PROVE  link'[<<x, y>>] # "closed"
    <3>1. PICK v \in Range(setup.connect[u]) : link' = [link EXCEPT ![<<u, v>>] = "dialled"]
      BY <2>2 DEF Dial, Range
    <3> QED BY <1>3, <2>a, <3>1
  <2>3. ASSUME NEW u \in Nodes, NEW v \in Peers(u),
               \/ Accept(u, v) \/ Establish(u, v) \/ AnswerInit(u, v) \/ SendOpenSyn(u, v)
               \/ AnswerOpen(u, v)
        PROVE  link'[<<x, y>>] # "closed"
    <3>1. PICK t \in Stages : link' = [link EXCEPT ![<<u, v>>] = t] /\ t # "closed"
      BY <2>3 DEF Accept, Establish, AnswerInit, SendOpenSyn, AnswerOpen, Stages, Connecting
    <3> QED BY <1>3, <2>a, <3>1
  <2>4. ASSUME NEW u \in Nodes, NEW v \in Peers(u), OpenFails(u, v, Silent(v))
        PROVE  link'[<<x, y>>] # "closed"
    <3>1. link' = [link EXCEPT ![<<u, v>>] = "closed"] /\ alive' = [alive EXCEPT ![u] = FALSE]
      BY <2>4 DEF OpenFails
    <3>2. u # x
      BY <2>a, <3>1 DEF TypeOK, NetTypeOK
    <3> QED BY <1>3, <2>a, <3>1, <3>2
  <2>5. ASSUME NEW u \in Nodes, NEW v \in Peers(u), Close(u, v, Silent(v))
        PROVE  link'[<<x, y>>] # "closed"
    <3>1. link' = [link EXCEPT ![<<u, v>>] = "closed"]
      BY <2>5 DEF Close
    <3>2. <<u, v>> # <<x, y>>
      BY <1>2, <1>3, <2>5
    <3> QED BY <1>3, <2>a, <3>1, <3>2
  <2> QED BY <2>1, <2>2, <2>3, <2>4, <2>5, Changes
<1>4. link[<<r, q>>] # "closed" /\ link[<<q, r>>] # "closed"
  BY DEF IsClosed
<1>5. link'[<<r, q>>] # "closed" /\ link'[<<q, r>>] # "closed"
  BY <1>3, <1>4
<1> QED BY <1>2, <1>5 DEF IsClosed

\* What has been sent to a router that cannot read stays where it is, and nothing is added
\* to it when there is no room.
LEMMA StaysFull ==
  ASSUME Ground, SpinsForDeparted, [Next]_vars, NEW r \in Nodes, NEW q \in Nodes,
         Kind(r) = "router", Kind(q) = "router", ~IsClosed(r, q), alive'[r], alive'[q],
         ~MayRead(q), ~HasRoom(r, q)
  PROVE  queue'[<<r, q>>] = queue[<<r, q>>]
<1> USE DEF Ground
<1>a. queue \in [Pairs -> Seq(Msgs)] /\ <<r, q>> \in Pairs
  BY QueueTypes
<1>1. ASSUME NEW u \in Nodes, Publish(u)
      PROVE  queue'[<<r, q>>] = queue[<<r, q>>]
  <2>1. u # r
    BY <1>1 DEF Publish
  <2>2. \E v, m : queue' = [queue EXCEPT ![<<u, v>>] = Append(queue[<<u, v>>], m)]
    BY <1>1 DEF Publish, Queued
  <2> QED BY <1>a, <2>1, <2>2
<1>2. ASSUME NEW u \in Nodes, NEW v \in Nodes, v \in Peers(u), Take(u, v)
      PROVE  queue'[<<r, q>>] = queue[<<r, q>>]
  <2>1. <<v, u>> # <<r, q>>
    BY <1>2 DEF Take, HandleMessage, Receive, Read, Runs, SinkKinds
  <2>2. queue' = [queue EXCEPT ![<<v, u>>] = Tail(queue[<<v, u>>])]
    BY <1>2, TakeFacts
  <2> QED BY <1>a, <2>1, <2>2
<1>3. ASSUME NEW u \in Nodes, NEW v \in Nodes, Forward(u, v)
      PROVE  queue'[<<r, q>>] = queue[<<r, q>>]
  <2>1. \/ queue' = queue
        \/ \E y, m : HasRoom(u, y) /\ queue' = [queue EXCEPT ![<<u, y>>] = Append(queue[<<u, y>>], m)]
    BY <1>3 DEF Forward, Queued
  <2>2. ASSUME NEW y, NEW m, HasRoom(u, y),
               queue' = [queue EXCEPT ![<<u, y>>] = Append(queue[<<u, y>>], m)]
        PROVE  queue'[<<r, q>>] = queue[<<r, q>>]
    <3>1. <<u, y>> # <<r, q>>
      BY <2>2
    <3> QED BY <1>a, <2>2, <3>1
  <2> QED BY <2>1, <2>2
<1>4. ASSUME NEW u \in Nodes, NEW v \in Nodes, Close(u, v, Silent(v))
      PROVE  queue'[<<r, q>>] = queue[<<r, q>>]
  <2>1. <<u, v>> # <<r, q>> /\ <<v, u>> # <<r, q>>
    BY <1>4, StaysOpen
  <2>2. queue' = [queue EXCEPT ![<<u, v>>] = <<>>, ![<<v, u>>] = <<>>]
    BY <1>4 DEF Close
  <2> QED BY <1>a, <2>1, <2>2
<1> QED BY <1>1, <1>2, <1>3, <1>4, FlowCases

\* A router that cannot read goes on holding what it holds for another that cannot.
LEMMA StuckStays ==
  ASSUME Ground, SpinsForDeparted, [Next]_vars, NEW r \in Nodes, NEW q \in Nodes,
         Stuck(r, q), Kind(q) = "router", ~MayRead(q), alive'[r], alive'[q]
  PROVE  Stuck(r, q)'
<1> USE DEF Ground
<1>1. PICK p \in Nodes : p # q /\ hand[<<r, p>>] # None /\ table[r][hand[<<r, p>>].next] = q
  BY DEF Stuck
<1>2. Kind(r) = "router" /\ ReadLocked(r)
  BY <1>1 DEF HandInTable, Supplied, ReadLocked
<1>3. ~IsClosed(r, q)' /\ queue'[<<r, q>>] = queue[<<r, q>>]
  BY <1>2, StaysOpen, StaysFull DEF Stuck
<1>4. ~HasRoom(r, q)'
  BY <1>3 DEF Stuck, HasRoom
<1>5. ~MayRead(r)'
  BY <1>2, WaitingStays DEF Stuck, MayRead
<1>6. table'[r] = table[r]
  BY <1>2, InsertStep DEF TypeOK, RouterTypeOK
<1>7. hand'[<<r, p>>] = hand[<<r, p>>]
  <2>a. hand \in [Pairs -> {None} \cup [msg : Msgs, next : Nat \ {0}]] /\ <<r, p>> \in Pairs
    BY QueueTypes
  <2>1. ASSUME NEW u \in Nodes, NEW v \in Peers(u), HandleMessage(u, v)
        PROVE  hand'[<<r, p>>] = hand[<<r, p>>]
    <3>1. <<u, v>> # <<r, p>> /\ \E k : hand' = [hand EXCEPT ![<<u, v>>] = k]
      BY <1>1, <2>1 DEF HandleMessage
    <3> QED BY <2>a, <3>1
  <2>2. ASSUME NEW u \in Nodes, NEW v \in Peers(u), Forward(u, v)
        PROVE  hand'[<<r, p>>] = hand[<<r, p>>]
    <3>1. hand[<<r, p>>].next # index[<<r, p>>]
      <4>1. index[<<r, p>>] # 0 /\ table[r][index[<<r, p>>]] = p
        BY <1>1 DEF HandInTable, IndexIsOwn
      <4> QED BY <1>1, <4>1
    <3>2. <<u, v>> # <<r, p>>
      BY <1>1, <2>2, <3>1 DEF Forward, Stuck
    <3>3. \E k : hand' = [hand EXCEPT ![<<u, v>>] = k]
      BY <2>2 DEF Forward
    <3> QED BY <2>a, <3>2, <3>3
  <2> QED BY <2>1, <2>2, Changes
<1> QED BY <1>1, <1>3, <1>4, <1>5, <1>6, <1>7 DEF Stuck

\* Whatever else the programs do: two routers that cannot read, each of which has a
\* message for the other, stay as they are until one of them is stopped.
THEOREM RoutersLockForEver == Spec => LockedForEver
<1>1. FInv /\ [Next]_vars =>
        [\A r, q \in Nodes :
           LockedTogether(r, q) /\ alive'[r] /\ alive'[q] => LockedTogether(r, q)']_vars
  <2> SUFFICES ASSUME FInv, [Next]_vars, NEW r \in Nodes, NEW q \in Nodes,
                      Stuck(r, q), Stuck(q, r), alive'[r], alive'[q]
               PROVE  Stuck(r, q)' /\ Stuck(q, r)'
    BY DEF LockedTogether
  <2>1. Ground /\ SpinsForDeparted
    BY DEF FInv, IInv, Ground
  <2>2. Kind(r) = "router" /\ Kind(q) = "router"
    BY <2>1 DEF Ground, Stuck, HandInTable, Supplied
  <2>3. Stuck(r, q)'
    BY <2>1, <2>2, StuckStays DEF Stuck
  <2>4. Stuck(q, r)'
    BY <2>1, <2>2, StuckStays DEF Stuck
  <2> QED BY <2>3, <2>4
<1>2. Init => FInv
  BY InitIInv, InitFlow DEF FInv
<1> QED BY <1>1, <1>2, NextFInv, PTL DEF Spec, LockedForEver
=============================================================================
