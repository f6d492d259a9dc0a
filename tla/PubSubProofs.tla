---------------------------- MODULE PubSubProofs ----------------------------
(***************************************************************************)
(* Proofs about RouterPing and SessionPing for every Capacity and every    *)
(* MaxPings: the inductive invariants RouterInv and SessionInv, and what   *)
(* follows from them.  The two share the lemmas about what is on its way   *)
(* to a node.                                                              *)
(***************************************************************************)
EXTENDS RouterPing, SessionPing, SequenceTheorems, TLAPS

USE CapacityAssumption, MaxPingsAssumption, NoPingAssumption

\* A declaration and a sample are messages, and are told apart.
LEMMA MessageFacts ==
  /\ \A k \in Keys : Sub(k) \in Messages /\ Sub(k).kind = "sub" /\ Sub(k).key = k
  /\ \A k \in Keys, c \in Nat :
       Data(k, c) \in Messages /\ Data(k, c).kind = "data" /\ Data(k, c).count = c
  BY DEF Sub, Data, Messages

\* The two nodes, and the keys of the programs.
LEMMA NodeFacts ==
  /\ Nodes = {"ping", "pong"} /\ "ping" \in Nodes /\ "pong" \in Nodes
  /\ Other("ping") = "pong" /\ Other("pong") = "ping"
  /\ \A n \in Nodes : Other(n) \in Nodes /\ Other(n) # n /\ Other(Other(n)) = n
  /\ KEY_EXPR_PING \in Keys /\ KEY_EXPR_PONG \in Keys
<1>1. Nodes = {"ping", "pong"} /\ "ping" \in Nodes /\ "pong" \in Nodes
  BY DEF Nodes
<1>2. Other("ping") = "pong" /\ Other("pong") = "ping"
  BY DEF Other
<1>3. KEY_EXPR_PING \in Keys /\ KEY_EXPR_PONG \in Keys
  BY DEF Keys
<1> QED
  BY <1>1, <1>2, <1>3
-----------------------------------------------------------------------------
\* Nothing is on its way.
LEMMA EmptyWire ==
  <<>> \in Seq(Messages) /\ Counts(<<>>) = {} /\ Subs(<<>>) = {} /\ Ascending(<<>>)
<1>1. DOMAIN <<>> = {}
  OBVIOUS
<1>2. Counts(<<>>) = {} /\ Subs(<<>>) = {}
  BY <1>1 DEF Counts, Subs
<1> QED
  BY <1>1, <1>2 DEF Ascending

\* A message is put behind those on their way.
LEMMA AppendFacts ==
  ASSUME NEW w \in Seq(Messages), NEW x \in Messages
  PROVE  /\ Append(w, x) \in Seq(Messages)
         /\ Len(w) \in Nat /\ DOMAIN w = 1..Len(w) /\ DOMAIN Append(w, x) = 1..(Len(w) + 1)
         /\ \A i \in 1..Len(w) : Append(w, x)[i] = w[i]
         /\ Append(w, x)[Len(w) + 1] = x
<1>1. /\ Append(w, x) \in Seq(Messages) /\ Len(Append(w, x)) = Len(w) + 1
      /\ \A i \in 1..Len(w) : Append(w, x)[i] = w[i]
      /\ Append(w, x)[Len(w) + 1] = x
  BY AppendProperties
<1> QED
  BY <1>1, LenProperties

LEMMA AppendSub ==
  ASSUME NEW w \in Seq(Messages), NEW k \in Keys
  PROVE  /\ Append(w, Sub(k)) \in Seq(Messages)
         /\ Counts(Append(w, Sub(k))) = Counts(w)
         /\ Subs(Append(w, Sub(k))) = Subs(w) \cup {k}
         /\ Ascending(w) => Ascending(Append(w, Sub(k)))
<1> DEFINE v == Append(w, Sub(k))
           n == Len(w)
<1>1. Sub(k) \in Messages /\ Sub(k).kind = "sub" /\ Sub(k).key = k
  BY MessageFacts
<1>2. /\ v \in Seq(Messages) /\ n \in Nat /\ DOMAIN w = 1..n /\ DOMAIN v = 1..(n + 1)
      /\ \A i \in 1..n : v[i] = w[i]
      /\ v[n + 1].kind = "sub" /\ v[n + 1].key = k
  BY <1>1, AppendFacts
<1> HIDE DEF v, n
<1>3. Counts(v) = Counts(w)
  BY <1>2 DEF Counts
<1>4. Subs(v) = Subs(w) \cup {k}
  BY <1>2 DEF Subs
<1>5. ASSUME Ascending(w) PROVE Ascending(v)
  <2>1. Counts(v) \subseteq Nat
    BY <1>3, <1>5 DEF Ascending
  <2>2. ASSUME NEW i \in DOMAIN v, NEW j \in DOMAIN v,
               i < j, v[i].kind = "data", v[j].kind = "data"
        PROVE  v[i].count < v[j].count
    <3>1. i \in DOMAIN w /\ j \in DOMAIN w /\ v[i] = w[i] /\ v[j] = w[j]
      BY <1>2, <2>2
    <3> QED
      BY <1>5, <2>2, <3>1 DEF Ascending
  <2> QED
    BY <2>1, <2>2 DEF Ascending
<1> QED
  BY <1>2, <1>3, <1>4, <1>5 DEF v

LEMMA AppendData ==
  ASSUME NEW w \in Seq(Messages), NEW k \in Keys, NEW c \in Nat,
         Ascending(w), Before(Counts(w), {c})
  PROVE  /\ Append(w, Data(k, c)) \in Seq(Messages)
         /\ Counts(Append(w, Data(k, c))) = Counts(w) \cup {c}
         /\ Subs(Append(w, Data(k, c))) = Subs(w)
         /\ Ascending(Append(w, Data(k, c)))
<1> DEFINE v == Append(w, Data(k, c))
           n == Len(w)
<1>1. Data(k, c) \in Messages /\ Data(k, c).kind = "data" /\ Data(k, c).count = c
  BY MessageFacts
<1>2. /\ v \in Seq(Messages) /\ n \in Nat /\ DOMAIN w = 1..n /\ DOMAIN v = 1..(n + 1)
      /\ \A i \in 1..n : v[i] = w[i]
      /\ v[n + 1].kind = "data" /\ v[n + 1].count = c
  BY <1>1, AppendFacts
<1> HIDE DEF v, n
<1>3. Counts(v) = Counts(w) \cup {c}
  BY <1>2 DEF Counts
<1>4. Subs(v) = Subs(w)
  BY <1>2 DEF Subs
<1>5. Counts(v) \subseteq Nat
  BY <1>3 DEF Ascending
<1>6. ASSUME NEW i \in DOMAIN v, NEW j \in DOMAIN v,
             i < j, v[i].kind = "data", v[j].kind = "data"
      PROVE  v[i].count < v[j].count
  <2>1. i \in DOMAIN w /\ v[i] = w[i]
    BY <1>2, <1>6
  <2>2. CASE j \in DOMAIN w
    <3>1. v[j] = w[j]
      BY <1>2, <2>2
    <3> QED
      BY <1>6, <2>1, <2>2, <3>1 DEF Ascending
  <2>3. CASE j = n + 1
    <3>1. w[i].count \in Counts(w)
      BY <1>6, <2>1 DEF Counts
    <3> QED
      BY <1>2, <2>1, <2>3, <3>1 DEF Before
  <2> QED
    BY <1>2, <2>2, <2>3
<1> QED
  BY <1>2, <1>3, <1>4, <1>5, <1>6 DEF v, Ascending

\* The first message has come: a declaration, or the sample before all the others.
LEMMA TailFacts ==
  ASSUME NEW w \in Seq(Messages), w # <<>>, Ascending(w)
  PROVE  /\ Head(w) \in Messages /\ Tail(w) \in Seq(Messages) /\ Ascending(Tail(w))
         /\ Head(w).kind = "sub" =>
              /\ Head(w).key \in Subs(w)
              /\ Counts(Tail(w)) = Counts(w) /\ Subs(Tail(w)) \subseteq Subs(w)
         /\ Head(w).kind = "data" =>
              /\ Head(w).count \in Nat
              /\ Counts(w) = Counts(Tail(w)) \cup {Head(w).count}
              /\ Before({Head(w).count}, Counts(Tail(w)))
              /\ Subs(Tail(w)) = Subs(w)
<1> DEFINE v == Tail(w)
           n == Len(w)
           h == Head(w)
<1>1. /\ h \in Messages /\ v \in Seq(Messages) /\ n \in Nat \ {0} /\ Len(v) = n - 1
      /\ \A i \in 1..Len(v) : v[i] = w[i + 1]
  BY HeadTailProperties, EmptySeq
<1>2. DOMAIN w = 1..n /\ DOMAIN v = 1..(n - 1) /\ h = w[1]
  BY <1>1, LenProperties
<1> HIDE DEF v, n, h
<1>3. \A i \in 1..(n - 1) : v[i] = w[i + 1] /\ i + 1 \in 1..n
  BY <1>1
<1>4. \A i \in 2..n : w[i] = v[i - 1] /\ i - 1 \in 1..(n - 1)
  BY <1>1, <1>3
<1>5. Counts(v) \subseteq Counts(w) /\ Subs(v) \subseteq Subs(w)
  BY <1>2, <1>3 DEF Counts, Subs
<1>6. /\ h.kind = "data" => h.count \in Counts(w)
      /\ h.kind = "sub" => h.key \in Subs(w)
  BY <1>1, <1>2 DEF Counts, Subs
<1>7. ASSUME NEW c \in Counts(w), c \notin Counts(v)
      PROVE  h.kind = "data" /\ c = h.count
  <2>1. PICK i \in DOMAIN w : w[i].kind = "data" /\ c = w[i].count
    BY DEF Counts
  <2>2. CASE i = 1
    BY <1>2, <2>1, <2>2
  <2>3. CASE i \in 2..n
    BY <1>2, <1>4, <1>7, <2>1, <2>3 DEF Counts
  <2> QED
    BY <1>1, <1>2, <2>2, <2>3
<1>8. ASSUME NEW k \in Subs(w), k \notin Subs(v)
      PROVE  h.kind = "sub"
  <2>1. PICK i \in DOMAIN w : w[i].kind = "sub" /\ k = w[i].key
    BY DEF Subs
  <2>2. CASE i = 1
    BY <1>2, <2>1, <2>2
  <2>3. CASE i \in 2..n
    BY <1>2, <1>4, <1>8, <2>1, <2>3 DEF Subs
  <2> QED
    BY <1>1, <1>2, <2>2, <2>3
<1>9. Ascending(v)
  <2>1. Counts(v) \subseteq Nat
    BY <1>5 DEF Ascending
  <2>2. ASSUME NEW i \in DOMAIN v, NEW j \in DOMAIN v,
               i < j, v[i].kind = "data", v[j].kind = "data"
        PROVE  v[i].count < v[j].count
    <3>1. /\ i + 1 \in DOMAIN w /\ j + 1 \in DOMAIN w /\ i + 1 < j + 1
          /\ v[i] = w[i + 1] /\ v[j] = w[j + 1]
      BY <1>1, <1>2, <1>3, <2>2
    <3> QED
      BY <2>2, <3>1 DEF Ascending
  <2> QED
    BY <2>1, <2>2 DEF Ascending
<1>10. ASSUME h.kind = "data" PROVE Before({h.count}, Counts(v))
  <2>1. SUFFICES ASSUME NEW c \in Counts(v) PROVE h.count < c
    BY DEF Before
  <2>2. PICK j \in DOMAIN v : v[j].kind = "data" /\ c = v[j].count
    BY DEF Counts
  <2>3. 1 \in DOMAIN w /\ j + 1 \in DOMAIN w /\ 1 < j + 1 /\ v[j] = w[j + 1]
    BY <1>1, <1>2, <1>3
  <2> QED
    BY <1>2, <1>10, <2>2, <2>3 DEF Ascending
<1>11. h.kind = "data" => h.count \in Nat
  BY <1>6 DEF Ascending
<1> QED
  BY <1>1, <1>5, <1>6, <1>7, <1>8, <1>9, <1>10, <1>11 DEF v, h
-----------------------------------------------------------------------------
\* What the network keeps are declarations and messages.
LEMMA TypedConnect ==
  ASSUME NetTypeOK, Connect
  PROVE  NetTypeOK'
<1>1. ASSUME NEW s \in Seq(Keys)
      PROVE  [i \in DOMAIN s |-> Sub(s[i])] \in Seq(Messages)
  <2>1. Len(s) \in Nat /\ DOMAIN s = 1..Len(s) /\ \A i \in 1..Len(s) : s[i] \in Keys
    BY LenProperties, ElementOfSeq
  <2>2. [i \in DOMAIN s |-> Sub(s[i])] \in [1..Len(s) -> Messages]
    BY <2>1, MessageFacts
  <2> QED
    BY <2>1, <2>2, SeqDef
<1>2. \A n \in Nodes : declared[Other(n)] \in Seq(Keys)
  BY NodeFacts DEF NetTypeOK
<1>3. wire' \in [Nodes -> Seq(Messages)]
  BY <1>1, <1>2 DEF Connect
<1> QED
  BY <1>3 DEF Connect, NetTypeOK

LEMMA TypedDisconnect ==
  ASSUME NetTypeOK, Disconnect
  PROVE  NetTypeOK'
  BY EmptyWire DEF Disconnect, NetTypeOK

LEMMA TypedDeclare ==
  ASSUME NetTypeOK, NEW n \in Nodes, NEW k \in Keys, Declare(n, k)
  PROVE  NetTypeOK'
<1>1. Append(declared[n], k) \in Seq(Keys)
  BY AppendProperties DEF NetTypeOK
<1>2. declared' \in [Nodes -> Seq(Keys)]
  BY <1>1 DEF Declare, NetTypeOK
<1>3. Other(n) \in Nodes
  BY NodeFacts
<1>4. Append(wire[Other(n)], Sub(k)) \in Seq(Messages)
  BY <1>3, AppendSub DEF NetTypeOK
<1>5. wire' \in [Nodes -> Seq(Messages)]
  BY <1>4 DEF Declare, NetTypeOK
<1> QED
  BY <1>2, <1>5 DEF Declare, NetTypeOK

LEMMA TypedLearn ==
  ASSUME NetTypeOK, NEW n \in Nodes, Learn(n)
  PROVE  NetTypeOK'
<1>1. Head(wire[n]) \in Messages /\ Tail(wire[n]) \in Seq(Messages)
  BY HeadTailProperties DEF Learn, NetTypeOK
<1>2. Head(wire[n]).key \in Keys
  BY <1>1 DEF Messages
<1>3. learnt' \in [Nodes -> SUBSET Keys] /\ wire' \in [Nodes -> Seq(Messages)]
  BY <1>1, <1>2 DEF Learn, NetTypeOK
<1> QED
  BY <1>3 DEF Learn, NetTypeOK
-----------------------------------------------------------------------------
\* Nothing happens on the way to n.
LEMMA SameInbound ==
  ASSUME NEW n, NEW k, Inbound(n, k),
         connected' = connected, declared'[Other(n)] = declared[Other(n)],
         learnt'[n] = learnt[n], wire'[n] = wire[n]
  PROVE  Inbound(n, k)'
  BY DEF Inbound

\* The session opens.
LEMMA ConnectInbound ==
  ASSUME NEW n \in Nodes, NEW k \in Keys, Inbound(n, k), Connect
  PROVE  Inbound(n, k)' /\ Counts(wire[n]) = {} /\ Counts(wire'[n]) = {}
<1>1. /\ wire[n] = <<>> /\ learnt[n] = {} /\ connected'
      /\ declared' = declared /\ learnt' = learnt
      /\ wire'[n] = [i \in DOMAIN declared[Other(n)] |-> Sub(declared[Other(n)][i])]
  BY DEF Connect, Inbound
<1>2. CASE declared[Other(n)] = <<>>
  <2>1. wire'[n] = <<>>
    BY <1>1, <1>2
  <2> QED
    BY <1>1, <1>2, <2>1, EmptyWire DEF Inbound
<1>3. CASE declared[Other(n)] = <<k>>
  <2>1. [i \in DOMAIN <<k>> |-> Sub(<<k>>[i])] = <<Sub(k)>> /\ <<k>> # <<>>
    OBVIOUS
  <2>2. <<Sub(k)>> = Append(<<>>, Sub(k))
    OBVIOUS
  <2>3. wire'[n] = Append(<<>>, Sub(k))
    BY <1>1, <1>3, <2>1, <2>2
  <2>4. Counts(wire'[n]) = {} /\ Subs(wire'[n]) = {k} /\ Ascending(wire'[n])
    BY <2>3, AppendSub, EmptyWire
  <2> QED
    BY <1>1, <1>3, <2>1, <2>4, EmptyWire DEF Inbound
<1> QED
  BY <1>2, <1>3 DEF Inbound

\* The session ends.
LEMMA DisconnectInbound ==
  ASSUME NEW n \in Nodes, NEW k \in Keys, Inbound(n, k), Disconnect
  PROVE  Inbound(n, k)' /\ Counts(wire'[n]) = {}
<1>1. wire'[n] = <<>> /\ learnt'[n] = {} /\ declared' = declared
  BY DEF Disconnect
<1> QED
  BY <1>1, EmptyWire DEF Inbound

\* The other node makes its declaration.
LEMMA DeclareInbound ==
  ASSUME NetTypeOK, NEW n \in Nodes, NEW k \in Keys, Inbound(n, k),
         Declare(Other(n), k), declared[Other(n)] = <<>>
  PROVE  Inbound(n, k)' /\ Counts(wire'[n]) = Counts(wire[n])
<1>1. Other(n) \in Nodes /\ Other(Other(n)) = n
  BY NodeFacts
<1>2. Append(<<>>, k) = <<k>> /\ <<k>> # <<>>
  OBVIOUS
<1>3. /\ declared'[Other(n)] = <<k>> /\ connected' = connected /\ learnt' = learnt
      /\ wire'[n] = IF connected THEN Append(wire[n], Sub(k)) ELSE wire[n]
  BY <1>1, <1>2 DEF Declare, NetTypeOK
<1>4. wire[n] \in Seq(Messages)
  BY DEF NetTypeOK
<1>5. Counts(wire'[n]) = Counts(wire[n]) /\ Subs(wire'[n]) \subseteq Subs(wire[n]) \cup {k}
  BY <1>3, <1>4, AppendSub
<1>6. Ascending(wire'[n])
  BY <1>3, <1>4, AppendSub DEF Inbound
<1> QED
  BY <1>2, <1>3, <1>5, <1>6 DEF Inbound

\* n learns of the declaration.
LEMMA LearnInbound ==
  ASSUME NetTypeOK, NEW n \in Nodes, NEW k \in Keys, Inbound(n, k), Learn(n)
  PROVE  Inbound(n, k)' /\ Counts(wire'[n]) = Counts(wire[n])
<1>1. /\ wire[n] # <<>> /\ Head(wire[n]).kind = "sub" /\ wire[n] \in Seq(Messages)
      /\ wire'[n] = Tail(wire[n]) /\ learnt'[n] = learnt[n] \cup {Head(wire[n]).key}
      /\ connected' = connected /\ declared' = declared
  BY DEF Learn, NetTypeOK
<1>2. Ascending(wire[n])
  BY DEF Inbound
<1>3. /\ Head(wire[n]).key \in Subs(wire[n]) /\ Ascending(wire'[n])
      /\ Counts(wire'[n]) = Counts(wire[n]) /\ Subs(wire'[n]) \subseteq Subs(wire[n])
  BY <1>1, <1>2, TailFacts
<1> QED
  BY <1>1, <1>3, <1>2 DEF Inbound

\* A sample of a larger count is published to n.
LEMMA PublishInbound ==
  ASSUME NetTypeOK, NEW n \in Nodes, NEW k \in Keys, Inbound(n, k),
         NEW j \in Keys, NEW c \in Nat, Before(Counts(wire[n]), {c}), connected,
         connected' = connected, declared' = declared, learnt' = learnt,
         wire'[n] = Append(wire[n], Data(j, c))
  PROVE  Inbound(n, k)' /\ Counts(wire'[n]) = Counts(wire[n]) \cup {c}
<1>1. wire[n] \in Seq(Messages) /\ Ascending(wire[n])
  BY DEF NetTypeOK, Inbound
<1>2. /\ Counts(wire'[n]) = Counts(wire[n]) \cup {c}
      /\ Subs(wire'[n]) = Subs(wire[n]) /\ Ascending(wire'[n])
  BY <1>1, AppendData
<1> QED
  BY <1>2 DEF Inbound

\* n takes the first sample.
LEMMA TakeInbound ==
  ASSUME NetTypeOK, NEW n \in Nodes, NEW k \in Keys, Inbound(n, k), Arrives(n),
         connected' = connected, declared' = declared, learnt' = learnt,
         wire'[n] = Tail(wire[n])
  PROVE  /\ Inbound(n, k)'
         /\ Arrived(n) \in Nat
         /\ Counts(wire[n]) = Counts(wire'[n]) \cup {Arrived(n)}
         /\ Before({Arrived(n)}, Counts(wire'[n]))
<1>1. /\ wire[n] \in Seq(Messages) /\ wire[n] # <<>> /\ Head(wire[n]).kind = "data"
      /\ Ascending(wire[n])
  BY DEF NetTypeOK, Arrives, Inbound
<1>2. /\ Arrived(n) \in Nat /\ Ascending(wire'[n])
      /\ Counts(wire[n]) = Counts(wire'[n]) \cup {Arrived(n)}
      /\ Before({Arrived(n)}, Counts(wire'[n])) /\ Subs(wire'[n]) = Subs(wire[n])
  BY <1>1, TailFacts DEF Arrived
<1>3. connected
  BY <1>1 DEF Inbound
<1> QED
  BY <1>2, <1>3 DEF Inbound

\* The routers open a session, learn of a declaration, or lose what is on its way.
LEMMA RoutingInbound ==
  ASSUME NetTypeOK, NEW n \in Nodes, NEW k \in Keys, Inbound(n, k), Routing
  PROVE  /\ Inbound(n, k)' /\ declared' = declared
         /\ SessionOpens \/ Learning => Counts(wire'[n]) = Counts(wire[n])
         /\ SessionEnds => Counts(wire'[n]) = {}
<1>1. CASE SessionOpens
  BY <1>1, ConnectInbound DEF SessionOpens, Connect
<1>2. CASE Learning
  <2>1. PICK m \in Nodes : Learn(m)
    BY <1>2 DEF Learning
  <2>2. CASE m = n
    BY <1>2, <2>1, <2>2, LearnInbound DEF Learn, SessionEnds, Disconnect
  <2>3. CASE m # n
    <3>1. wire'[n] = wire[n] /\ learnt'[n] = learnt[n] /\ UNCHANGED <<connected, declared>>
      BY <2>1, <2>3 DEF Learn, NetTypeOK
    <3> QED
      BY <1>2, <3>1, SameInbound DEF SessionEnds, Disconnect
  <2> QED
    BY <2>2, <2>3
<1>3. CASE SessionEnds
  BY <1>3, DisconnectInbound DEF SessionEnds, Disconnect, SessionOpens, Connect, Learning, Learn
<1> QED
  BY <1>1, <1>2, <1>3 DEF Routing

LEMMA TypedRouting ==
  ASSUME NetTypeOK, Routing
  PROVE  NetTypeOK'
  BY TypedConnect, TypedDisconnect, TypedLearn DEF Routing, SessionOpens, Learning, SessionEnds
-----------------------------------------------------------------------------
\* The state of a router ping.
LEMMA RouterFacts ==
  ASSUME RouterInv
  PROVE  /\ NetTypeOK /\ count \in Nat /\ Sent \in Nat /\ Sent \in {count, count + 1}
         /\ pending \subseteq Nat /\ dropped \subseteq Nat /\ OnTheWire \subseteq Nat
         /\ Counts(wire["ping"]) \subseteq Nat /\ Counts(wire["pong"]) \subseteq Nat
         /\ reported \in Seq(Nat) /\ Printed \subseteq Nat
         /\ rx = NoPing \/ rx \in Nat
         /\ Inbound("ping", KEY_EXPR_PING) /\ Inbound("pong", KEY_EXPR_PONG)
<1>1. /\ NetTypeOK /\ count \in Nat /\ pending \subseteq Nat /\ dropped \subseteq Nat
      /\ reported \in Seq(Nat) /\ (rx = NoPing \/ rx \in Nat)
  BY DEF RouterInv, RouterTypeOK
<1>2. Inbound("ping", KEY_EXPR_PING) /\ Inbound("pong", KEY_EXPR_PONG)
  BY DEF RouterInv, LoopInOrder
<1>3. Counts(wire["ping"]) \subseteq Nat /\ Counts(wire["pong"]) \subseteq Nat
  BY <1>2 DEF Inbound, Ascending
<1>4. Printed \subseteq Nat
  BY <1>1, LenProperties, ElementOfSeq DEF Printed
<1> QED
  BY <1>1, <1>2, <1>3, <1>4 DEF OnTheWire, Sent

\* A line is printed, of a count above all the others.
LEMMA LineAppend ==
  ASSUME NEW s \in Seq(Nat), NEW c \in Nat, NEW D,
         \A i, j \in DOMAIN s : i < j => s[i] < s[j],
         \A i \in DOMAIN s : s[i] < c,
         \A i \in DOMAIN s : s[i] \notin D, c \notin D
  PROVE  /\ Append(s, c) \in Seq(Nat)
         /\ \A i, j \in DOMAIN Append(s, c) : i < j => Append(s, c)[i] < Append(s, c)[j]
         /\ \A i \in DOMAIN Append(s, c) : Append(s, c)[i] \notin D
         /\ {Append(s, c)[i] : i \in DOMAIN Append(s, c)} = {s[i] : i \in DOMAIN s} \cup {c}
<1> DEFINE t == Append(s, c)
           n == Len(s)
<1>1. /\ t \in Seq(Nat) /\ n \in Nat /\ Len(t) = n + 1
      /\ \A i \in 1..n : t[i] = s[i]
      /\ t[n + 1] = c
  BY AppendProperties, LenProperties
<1>2. DOMAIN s = 1..n /\ DOMAIN t = 1..(n + 1)
  BY <1>1, LenProperties
<1> HIDE DEF t, n
<1>3. ASSUME NEW i \in DOMAIN t, NEW j \in DOMAIN t, i < j
      PROVE  t[i] < t[j]
  <2>1. i \in DOMAIN s /\ t[i] = s[i]
    BY <1>1, <1>2, <1>3
  <2>2. CASE j \in DOMAIN s
    BY <1>1, <1>2, <1>3, <2>1, <2>2
  <2>3. CASE j = n + 1
    BY <1>1, <2>1, <2>3
  <2> QED
    BY <1>1, <1>2, <2>2, <2>3
<1>4. \A i \in DOMAIN t : t[i] \notin D
  BY <1>1, <1>2
<1>5. {t[i] : i \in DOMAIN t} = {s[i] : i \in DOMAIN s} \cup {c}
  BY <1>1, <1>2
<1> QED
  BY <1>1, <1>3, <1>4, <1>5 DEF t

LEMMA PrintNext ==
  ASSUME reported \in Seq(Nat), NEW c \in Nat, reported' = Append(reported, c),
         \A i, j \in DOMAIN reported : i < j => reported[i] < reported[j],
         \A i \in DOMAIN reported : reported[i] < c,
         \A i \in DOMAIN reported : reported[i] \notin dropped, c \notin dropped
  PROVE  /\ reported' \in Seq(Nat) /\ Printed' = Printed \cup {c}
         /\ \A i, j \in DOMAIN reported' : i < j => reported'[i] < reported'[j]
         /\ \A i \in DOMAIN reported' : reported'[i] \notin dropped
<1>a. PICK s \in Seq(Nat) : s = reported
  OBVIOUS
<1>b. PICK D : D = dropped
  OBVIOUS
<1>1. s = reported /\ D = dropped
  BY <1>a, <1>b
<1>2. /\ \A i, j \in DOMAIN s : i < j => s[i] < s[j]
      /\ \A i \in DOMAIN s : s[i] < c
      /\ \A i \in DOMAIN s : s[i] \notin D
      /\ c \notin D
  BY <1>1
<1>3. /\ Append(s, c) \in Seq(Nat)
      /\ \A i, j \in DOMAIN Append(s, c) : i < j => Append(s, c)[i] < Append(s, c)[j]
      /\ \A i \in DOMAIN Append(s, c) : Append(s, c)[i] \notin D
      /\ {Append(s, c)[i] : i \in DOMAIN Append(s, c)} = {s[i] : i \in DOMAIN s} \cup {c}
  BY <1>2, LineAppend
<1>4. Printed = {s[i] : i \in DOMAIN s} /\ reported' = Append(s, c)
  BY <1>1 DEF Printed
<1>5. Printed' = {Append(s, c)[i] : i \in DOMAIN Append(s, c)}
  BY <1>4 DEF Printed
<1> QED
  BY <1>1, <1>3, <1>4, <1>5

-----------------------------------------------------------------------------
LEMMA RouterInitInv == RouterInit => RouterInv
<1> SUFFICES ASSUME RouterInit PROVE RouterInv
  OBVIOUS
<1> USE DEF RouterInit, LoopInit, NetInit
<1>1. /\ wire["ping"] = <<>> /\ wire["pong"] = <<>>
      /\ declared["ping"] = <<>> /\ declared["pong"] = <<>>
      /\ learnt["ping"] = {} /\ learnt["pong"] = {}
  BY NodeFacts
<1>2. OnTheWire = {} /\ Counts(wire["pong"]) = {} /\ Counts(wire["ping"]) = {}
  BY <1>1, EmptyWire DEF OnTheWire
<1>3. Inbound("ping", KEY_EXPR_PING) /\ Inbound("pong", KEY_EXPR_PONG)
  BY <1>1, NodeFacts, EmptyWire DEF Inbound
<1>4. DOMAIN reported = {} /\ Printed = {} /\ Unprinted = {} /\ Held(rx) = {}
  BY DEF Printed, Unprinted, Held
<1>5. RouterTypeOK
  <2>1. <<>> \in Seq(Keys) /\ <<>> \in Seq(Messages) /\ <<>> \in Seq(Nat)
    BY EmptySeq
  <2>2. NetTypeOK
    BY <2>1 DEF NetTypeOK
  <2> QED
    BY <2>1, <2>2 DEF RouterTypeOK
<1>6. RouterDeclared
  BY <1>1, <1>2 DEF RouterDeclared
<1>7. LoopInOrder
  BY <1>2, <1>3, <1>4 DEF LoopInOrder, Before
<1>8. RouterOneAtATime
  BY <1>2, <1>4 DEF RouterOneAtATime
<1>9. LeakIsLoss /\ ReportsInOrder
  BY <1>2, <1>4 DEF LeakIsLoss, ReportsInOrder
<1> QED
  BY <1>5, <1>6, <1>7, <1>8, <1>9 DEF RouterInv

\* The state of the routers and the line of counts when they are left alone.
LEMMA RouterStill ==
  ASSUME RouterInv, UNCHANGED netVars
  PROVE  /\ NetTypeOK' /\ OnTheWire' = OnTheWire
         /\ Counts(wire'["ping"]) = Counts(wire["ping"])
         /\ Counts(wire'["pong"]) = Counts(wire["pong"])
         /\ Inbound("ping", KEY_EXPR_PING)' /\ Inbound("pong", KEY_EXPR_PONG)'
<1>1. UNCHANGED <<connected, declared, learnt, wire>>
  BY DEF netVars
<1> QED
  BY <1>1, RouterFacts DEF NetTypeOK, OnTheWire, Inbound

LEMMA DeclarePongInv == RouterInv /\ DeclarePong => RouterInv'
<1> SUFFICES ASSUME RouterInv, DeclarePong PROVE RouterInv'
  OBVIOUS
<1> USE DEF DeclarePong
<1>1. Declare("ping", KEY_EXPR_PONG) /\ declared["ping"] = <<>> /\ NetTypeOK
  BY RouterFacts DEF RouterInv, RouterDeclared
<1>2. NetTypeOK'
  BY <1>1, NodeFacts, TypedDeclare
<1>3. Inbound("pong", KEY_EXPR_PONG)' /\ Counts(wire'["pong"]) = Counts(wire["pong"])
  BY <1>1, NodeFacts, RouterFacts, DeclareInbound
<1>4. /\ wire'["ping"] = wire["ping"] /\ declared'["pong"] = declared["pong"]
      /\ connected' = connected /\ learnt' = learnt /\ declared'["ping"] # <<>>
  <2>1. Append(<<>>, KEY_EXPR_PONG) # <<>>
    OBVIOUS
  <2> QED
    BY <1>1, <2>1, NodeFacts DEF Declare, NetTypeOK
<1>5. Inbound("ping", KEY_EXPR_PING)'
  BY <1>4, NodeFacts, RouterFacts, SameInbound
<1>6. OnTheWire' = OnTheWire /\ Counts(wire'["ping"]) = Counts(wire["ping"])
  BY <1>3, <1>4 DEF OnTheWire
<1>7. /\ Printed' = Printed /\ Unprinted' = Unprinted /\ Sent' = Sent
  BY DEF Printed, Unprinted, Sent
<1>8. RouterTypeOK'
  BY <1>2 DEF RouterTypeOK, RouterInv
<1>9. RouterDeclared'
  BY <1>3, <1>4 DEF RouterDeclared, RouterInv
<1>10. LoopInOrder'
  BY <1>3, <1>5, <1>6, <1>7 DEF LoopInOrder, RouterInv
<1>11. RouterOneAtATime'
  BY <1>6, <1>7 DEF RouterOneAtATime, RouterInv
<1>12. LeakIsLoss' /\ ReportsInOrder'
  BY <1>6 DEF LeakIsLoss, ReportsInOrder, RouterInv
<1> QED
  BY <1>8, <1>9, <1>10, <1>11, <1>12 DEF RouterInv

LEMMA InsertInv == RouterInv /\ Insert => RouterInv'
<1> SUFFICES ASSUME RouterInv, Insert PROVE RouterInv'
  OBVIOUS
<1> USE DEF Insert
<1>1. /\ NetTypeOK' /\ OnTheWire' = OnTheWire
      /\ Counts(wire'["ping"]) = Counts(wire["ping"])
      /\ Counts(wire'["pong"]) = Counts(wire["pong"])
      /\ Inbound("ping", KEY_EXPR_PING)' /\ Inbound("pong", KEY_EXPR_PONG)'
  BY RouterStill
<1>2. Printed' = Printed /\ Unprinted' = Unprinted /\ Sent' = Sent
  BY DEF Printed, Unprinted, Sent
<1>3. RouterTypeOK'
  BY <1>1 DEF RouterTypeOK, RouterInv
<1>4. RouterDeclared'
  BY <1>1 DEF RouterDeclared, RouterInv, netVars
<1>5. LoopInOrder'
  BY <1>1, <1>2 DEF LoopInOrder, RouterInv
<1>6. RouterOneAtATime'
  BY <1>1, <1>2 DEF RouterOneAtATime, RouterInv
<1>7. LeakIsLoss' /\ ReportsInOrder'
  BY <1>1 DEF LeakIsLoss, ReportsInOrder, RouterInv
<1> QED
  BY <1>3, <1>4, <1>5, <1>6, <1>7 DEF RouterInv

LEMMA RouterSleepInv == RouterInv /\ RouterSleep => RouterInv'
<1> SUFFICES ASSUME RouterInv, RouterSleep PROVE RouterInv'
  OBVIOUS
<1> USE DEF RouterSleep, SleepThen
<1>1. /\ NetTypeOK' /\ OnTheWire' = OnTheWire
      /\ Counts(wire'["ping"]) = Counts(wire["ping"])
      /\ Counts(wire'["pong"]) = Counts(wire["pong"])
      /\ Inbound("ping", KEY_EXPR_PING)' /\ Inbound("pong", KEY_EXPR_PONG)'
  BY RouterStill
<1>2. count \in Nat /\ count < MaxPings /\ count' = count + 1
  BY RouterFacts DEF RouterInv, LoopInOrder
<1>3. Printed' = Printed /\ Unprinted' = Unprinted /\ Sent' = Sent
  BY <1>2 DEF Printed, Unprinted, Sent
<1>4. RouterTypeOK'
  BY <1>1, <1>2 DEF RouterTypeOK, RouterInv
<1>5. RouterDeclared'
  BY <1>1 DEF RouterDeclared, RouterInv, netVars
<1>6. LoopInOrder'
  BY <1>1, <1>3 DEF LoopInOrder, RouterInv
<1>7. RouterOneAtATime'
  BY <1>1, <1>2, <1>3 DEF RouterOneAtATime, RouterInv, Held
<1>8. LeakIsLoss' /\ ReportsInOrder'
  BY <1>1 DEF LeakIsLoss, ReportsInOrder, RouterInv
<1> QED
  BY <1>4, <1>5, <1>6, <1>7, <1>8 DEF RouterInv

LEMMA RxPrintInv == RouterInv /\ RxPrint => RouterInv'
<1> SUFFICES ASSUME RouterInv, RxPrint PROVE RouterInv'
  OBVIOUS
<1> USE DEF RxPrint
<1>1. /\ NetTypeOK' /\ OnTheWire' = OnTheWire
      /\ Counts(wire'["ping"]) = Counts(wire["ping"])
      /\ Counts(wire'["pong"]) = Counts(wire["pong"])
      /\ Inbound("ping", KEY_EXPR_PING)' /\ Inbound("pong", KEY_EXPR_PONG)'
  BY RouterStill
<1>2. rx \in Nat /\ Unprinted = {rx} /\ Unprinted' = {}
  BY RouterFacts DEF Unprinted, Held
<1>3. \A i \in DOMAIN reported : reported[i] \in Printed
  BY DEF Printed
<1>4. \A i \in DOMAIN reported : reported[i] < rx
  BY <1>2, <1>3 DEF RouterInv, LoopInOrder, Before
<1>5. rx \notin dropped
  BY <1>2 DEF RouterInv, LoopInOrder
<1>6. /\ \A i, j \in DOMAIN reported : i < j => reported[i] < reported[j]
      /\ \A i \in DOMAIN reported : reported[i] \notin dropped
      /\ reported \in Seq(Nat)
  BY RouterFacts DEF RouterInv, ReportsInOrder
<1>7. /\ reported' \in Seq(Nat) /\ Printed' = Printed \cup {rx}
      /\ \A i, j \in DOMAIN reported' : i < j => reported'[i] < reported'[j]
      /\ \A i \in DOMAIN reported' : reported'[i] \notin dropped
  BY <1>2, <1>4, <1>5, <1>6, PrintNext
<1>8. Sent' = Sent
  BY DEF Sent
<1>9. RouterTypeOK'
  BY <1>1, <1>7 DEF RouterTypeOK, RouterInv
<1>10. RouterDeclared'
  BY <1>1 DEF RouterDeclared, RouterInv, netVars
<1>11. LoopInOrder'
  BY <1>1, <1>2, <1>7, <1>8 DEF LoopInOrder, RouterInv, Before
<1>12. RouterOneAtATime' /\ LeakIsLoss' /\ ReportsInOrder'
  BY <1>1, <1>7 DEF RouterOneAtATime, LeakIsLoss, ReportsInOrder, RouterInv
<1> QED
  BY <1>9, <1>10, <1>11, <1>12 DEF RouterInv

LEMMA MeetInv == RouterInv /\ Meet => RouterInv'
<1> SUFFICES ASSUME RouterInv, Meet PROVE RouterInv'
  OBVIOUS
<1> USE DEF Meet
<1>1. /\ NetTypeOK' /\ OnTheWire' = OnTheWire
      /\ Counts(wire'["ping"]) = Counts(wire["ping"])
      /\ Counts(wire'["pong"]) = Counts(wire["pong"])
      /\ Inbound("ping", KEY_EXPR_PING)' /\ Inbound("pong", KEY_EXPR_PONG)'
  BY RouterStill
<1>2. /\ rx \in Nat /\ rx # NoPing /\ count \in Nat /\ rx = count
      /\ Unprinted = {count} /\ Unprinted' = {} /\ Held(rx) = {count}
  BY RouterFacts DEF Unprinted, Held
<1>3. \A i \in DOMAIN reported : reported[i] \in Printed
  BY DEF Printed
<1>4. \A i \in DOMAIN reported : reported[i] < count
  BY <1>2, <1>3 DEF RouterInv, LoopInOrder, Before
<1>5. count \notin dropped /\ OnTheWire = {} /\ dropped = {}
  <2>1. count \notin OnTheWire \cup dropped /\ OnTheWire \cup dropped \subseteq {count}
    BY DEF RouterInv, RouterOneAtATime
  <2> QED
    BY <2>1
<1>6. /\ \A i, j \in DOMAIN reported : i < j => reported[i] < reported[j]
      /\ \A i \in DOMAIN reported : reported[i] \notin dropped
      /\ reported \in Seq(Nat)
  BY RouterFacts DEF RouterInv, ReportsInOrder
<1>7. /\ reported' \in Seq(Nat) /\ Printed' = Printed \cup {count}
      /\ \A i, j \in DOMAIN reported' : i < j => reported'[i] < reported'[j]
      /\ \A i \in DOMAIN reported' : reported'[i] \notin dropped
  BY <1>2, <1>4, <1>5, <1>6, PrintNext
<1>8. Sent' = Sent
  BY DEF Sent
<1>9. RouterTypeOK'
  BY <1>1, <1>7 DEF RouterTypeOK, RouterInv
<1>10. RouterDeclared'
  BY <1>1 DEF RouterDeclared, RouterInv, netVars
<1>11. LoopInOrder'
  BY <1>1, <1>2, <1>7, <1>8 DEF LoopInOrder, RouterInv, Before
<1>12. RouterOneAtATime'
  BY <1>1, <1>2, <1>5 DEF RouterOneAtATime, RouterInv
<1>13. LeakIsLoss' /\ ReportsInOrder'
  BY <1>1, <1>7 DEF LeakIsLoss, ReportsInOrder, RouterInv
<1> QED
  BY <1>9, <1>10, <1>11, <1>12, <1>13 DEF RouterInv

LEMMA RxReturnInv == RouterInv /\ RxReturn => RouterInv'
<1> SUFFICES ASSUME RouterInv, RxReturn PROVE RouterInv'
  OBVIOUS
<1> USE DEF RxReturn
<1>1. /\ NetTypeOK' /\ OnTheWire' = OnTheWire
      /\ Counts(wire'["ping"]) = Counts(wire["ping"])
      /\ Counts(wire'["pong"]) = Counts(wire["pong"])
      /\ Inbound("ping", KEY_EXPR_PING)' /\ Inbound("pong", KEY_EXPR_PONG)'
  BY RouterStill
<1>2. rx \in Nat /\ count \in Nat /\ Held(rx') = {} /\ rx' # count
  BY RouterFacts DEF Held
<1>3. Unprinted = {} /\ Unprinted' = {}
  BY <1>2 DEF Unprinted
<1>4. Printed' = Printed /\ Sent' = Sent
  BY DEF Printed, Sent
<1>5. RouterTypeOK'
  BY <1>1 DEF RouterTypeOK, RouterInv
<1>6. RouterDeclared'
  BY <1>1 DEF RouterDeclared, RouterInv, netVars
<1>7. LoopInOrder'
  BY <1>1, <1>3, <1>4 DEF LoopInOrder, RouterInv
<1>8. RouterOneAtATime'
  BY <1>1, <1>2, <1>3 DEF RouterOneAtATime, RouterInv
<1>9. LeakIsLoss' /\ ReportsInOrder'
  BY <1>1 DEF LeakIsLoss, ReportsInOrder, RouterInv
<1> QED
  BY <1>5, <1>6, <1>7, <1>8, <1>9 DEF RouterInv

LEMMA SetTxInv == RouterInv /\ SetTx => RouterInv'
<1> SUFFICES ASSUME RouterInv, SetTx PROVE RouterInv'
  OBVIOUS
<1> USE DEF SetTx, loopVars
<1>1. /\ NetTypeOK' /\ OnTheWire' = OnTheWire
      /\ Counts(wire'["ping"]) = Counts(wire["ping"])
      /\ Counts(wire'["pong"]) = Counts(wire["pong"])
      /\ Inbound("ping", KEY_EXPR_PING)' /\ Inbound("pong", KEY_EXPR_PONG)'
  BY RouterStill
<1>2. Printed' = Printed /\ Unprinted' = Unprinted /\ Sent' = Sent
  BY DEF Printed, Unprinted, Sent
<1>3. RouterTypeOK'
  BY <1>1 DEF RouterTypeOK, RouterInv
<1>4. RouterDeclared'
  BY <1>1 DEF RouterDeclared, RouterInv, netVars
<1>5. LoopInOrder'
  BY <1>1, <1>2 DEF LoopInOrder, RouterInv
<1>6. RouterOneAtATime' /\ LeakIsLoss' /\ ReportsInOrder'
  BY <1>1, <1>2 DEF RouterOneAtATime, LeakIsLoss, ReportsInOrder, RouterInv
<1> QED
  BY <1>3, <1>4, <1>5, <1>6 DEF RouterInv

LEMMA SendInv == RouterInv /\ Send => RouterInv'
<1> SUFFICES ASSUME RouterInv, Send PROVE RouterInv'
  OBVIOUS
<1> USE DEF Send
<1>1. /\ NetTypeOK /\ count \in Nat /\ Sent = count /\ Sent' = count + 1
      /\ Inbound("ping", KEY_EXPR_PING) /\ Inbound("pong", KEY_EXPR_PONG)
  BY RouterFacts DEF Sent
<1>2. Before(Printed \cup Unprinted \cup OnTheWire \cup dropped, {count})
  BY <1>1 DEF RouterInv, LoopInOrder
<1>3. Printed' = Printed /\ Unprinted' = Unprinted
  <2>1. ~parallel => Unprinted = {}
    BY DEF Unprinted
  <2>2. ~parallel => rx # count
    BY DEF RouterInv, RouterOneAtATime
  <2> QED
    BY <2>1, <2>2 DEF Printed, Unprinted
<1>4. /\ NetTypeOK' /\ wire'["ping"] = wire["ping"]
      /\ Inbound("ping", KEY_EXPR_PING)' /\ Inbound("pong", KEY_EXPR_PONG)'
      /\ \/ /\ Counts(wire'["pong"]) = Counts(wire["pong"]) \cup {count} /\ dropped' = dropped
            /\ declared["pong"] # <<>>
         \/ Counts(wire'["pong"]) = Counts(wire["pong"]) /\ dropped' = dropped \cup {count}
  <2>1. CASE Routed("ping", KEY_EXPR_PING)
    <3>1. /\ wire' = [wire EXCEPT !["pong"] = Append(@, Data(KEY_EXPR_PING, count))]
          /\ dropped' = dropped
      BY <2>1, NodeFacts DEF Publish
    <3>2. wire["pong"] \in Seq(Messages) /\ Ascending(wire["pong"])
      BY <1>1, NodeFacts DEF NetTypeOK, Inbound
    <3>3. Before(Counts(wire["pong"]), {count})
      BY <1>2 DEF Before, OnTheWire
    <3>4. Append(wire["pong"], Data(KEY_EXPR_PING, count)) \in Seq(Messages)
      BY <1>1, <3>2, <3>3, NodeFacts, AppendData
    <3>5. NetTypeOK'
      BY <1>1, <3>1, <3>4 DEF NetTypeOK
    <3>6. connected /\ declared["pong"] # <<>>
      BY <1>1, <2>1, NodeFacts DEF Routed, Inbound
    <3>7. /\ wire'["ping"] = wire["ping"]
          /\ wire'["pong"] = Append(wire["pong"], Data(KEY_EXPR_PING, count))
      BY <1>1, <3>1, NodeFacts DEF NetTypeOK
    <3>8. /\ Inbound("pong", KEY_EXPR_PONG)'
          /\ Counts(wire'["pong"]) = Counts(wire["pong"]) \cup {count}
      BY <1>1, <3>3, <3>6, <3>7, NodeFacts, PublishInbound
    <3>9. Inbound("ping", KEY_EXPR_PING)'
      BY <1>1, <3>7, SameInbound
    <3> QED
      BY <3>1, <3>5, <3>6, <3>7, <3>8, <3>9
  <2>2. CASE ~Routed("ping", KEY_EXPR_PING)
    <3>1. wire' = wire /\ dropped' = dropped \cup {count}
      BY <2>2 DEF Publish
    <3>2. UNCHANGED netVars
      BY <3>1 DEF netVars
    <3> QED
      BY <3>1, <3>2, RouterStill
  <2> QED
    BY <2>1, <2>2
<1>5. /\ Counts(wire'["ping"]) = Counts(wire["ping"])
      /\ OnTheWire' \cup dropped' = OnTheWire \cup dropped \cup {count}
      /\ OnTheWire' \subseteq OnTheWire \cup {count}
      /\ dropped' \subseteq dropped \cup {count}
  BY <1>4 DEF OnTheWire
<1>6. count \notin OnTheWire /\ count \notin dropped /\ count \notin Printed /\ count \notin Unprinted
  BY <1>1, <1>2 DEF Before
<1>7. dropped' \cap OnTheWire' = {}
  <2>1. dropped \cap OnTheWire = {}
    BY DEF RouterInv, LoopInOrder
  <2> QED
    BY <1>4, <1>6, <2>1 DEF OnTheWire
<1>8. RouterTypeOK'
  BY <1>1, <1>4 DEF RouterTypeOK, RouterInv
<1>9. RouterDeclared'
  <2>1. Counts(wire'["pong"]) # {} => pongPc = "subscribed"
    BY <1>4 DEF RouterInv, RouterDeclared
  <2> QED
    BY <2>1 DEF RouterInv, RouterDeclared
<1>10. LoopInOrder'
  <2>1. Before(Printed \cup Unprinted, OnTheWire)' /\ Before(Printed, Unprinted)'
    BY <1>2, <1>3, <1>5 DEF RouterInv, LoopInOrder, Before
  <2>2. Before(Counts(wire["ping"]), Counts(wire["pong"]))'
    <3>1. Before(Counts(wire["ping"]), Counts(wire["pong"]) \cup {count})
      BY <1>2 DEF RouterInv, LoopInOrder, Before, OnTheWire
    <3>2. Counts(wire'["pong"]) \subseteq Counts(wire["pong"]) \cup {count}
      BY <1>4
    <3> QED
      BY <1>5, <3>1, <3>2 DEF Before
  <2>3. Before(Printed \cup Unprinted \cup OnTheWire \cup dropped, {Sent})'
    <3>1. ASSUME NEW c \in Printed \cup Unprinted \cup OnTheWire \cup dropped
          PROVE  c < count + 1
      <4>1. c < count /\ c \in Nat
        BY <1>2, <3>1, RouterFacts DEF Before, Unprinted, Held
      <4> QED
        BY <1>1, <4>1
    <3>2. count < count + 1
      BY <1>1
    <3> QED
      BY <1>1, <1>3, <1>5, <3>1, <3>2 DEF Before
  <2>4. dropped' \cap (Unprinted' \cup OnTheWire') = {}
    BY <1>3, <1>5, <1>6, <1>7 DEF RouterInv, LoopInOrder
  <2> QED
    BY <1>4, <2>1, <2>2, <2>3, <2>4 DEF RouterInv, LoopInOrder
<1>11. RouterOneAtATime'
  <2> SUFFICES ASSUME ~parallel PROVE RouterOneAtATime'
    BY DEF RouterOneAtATime
  <2>1. OnTheWire = {} /\ Unprinted = {} /\ dropped = {} /\ rx # count
    BY DEF RouterInv, RouterOneAtATime
  <2> QED
    BY <1>3, <1>5, <2>1 DEF RouterInv, RouterOneAtATime
<1>12. LeakIsLoss' /\ ReportsInOrder'
  <2>1. \A i \in DOMAIN reported : reported[i] \in Printed
    BY DEF Printed
  <2> QED
    BY <1>5, <1>6, <2>1 DEF RouterInv, LeakIsLoss, ReportsInOrder
<1> QED
  BY <1>8, <1>9, <1>10, <1>11, <1>12 DEF RouterInv

LEMMA RxRemoveInv == RouterInv /\ RxRemove => RouterInv' /\ panic' = panic
<1> SUFFICES ASSUME RouterInv, RxRemove PROVE RouterInv' /\ panic' = panic
  OBVIOUS
<1> USE DEF RxRemove
<1>1. /\ NetTypeOK /\ count \in Nat /\ Sent \in {count, count + 1} /\ Arrives("ping")
      /\ OnTheWire \subseteq Nat /\ Counts(wire["pong"]) \subseteq Nat
      /\ Inbound("ping", KEY_EXPR_PING) /\ Inbound("pong", KEY_EXPR_PONG)
  BY RouterFacts
<1>2. PICK a : a = Arrived("ping")
  OBVIOUS
<1>3. wire'["ping"] = Tail(wire["ping"]) /\ wire'["pong"] = wire["pong"]
  BY <1>1, NodeFacts DEF NetTypeOK
<1>4. /\ Inbound("ping", KEY_EXPR_PING)' /\ a \in Nat
      /\ Counts(wire["ping"]) = Counts(wire'["ping"]) \cup {a}
      /\ Before({a}, Counts(wire'["ping"]))
  BY <1>1, <1>2, <1>3, NodeFacts, TakeInbound
<1>5. Inbound("pong", KEY_EXPR_PONG)' /\ Counts(wire'["pong"]) = Counts(wire["pong"])
  BY <1>1, <1>3, SameInbound
<1>6. NetTypeOK'
  <2>1. wire["ping"] \in Seq(Messages) /\ wire["ping"] # <<>>
    BY <1>1, NodeFacts DEF NetTypeOK, Arrives
  <2>2. Tail(wire["ping"]) \in Seq(Messages)
    BY <2>1, HeadTailProperties
  <2> QED
    BY <1>1, <2>2 DEF NetTypeOK
<1>7. OnTheWire = OnTheWire' \cup {a} /\ a \in OnTheWire
  BY <1>4, <1>5 DEF OnTheWire
<1>8. Before({a}, OnTheWire')
  <2>1. Before({a}, Counts(wire["pong"]))
    BY <1>4 DEF RouterInv, LoopInOrder, Before
  <2> QED
    BY <1>4, <1>5, <2>1 DEF OnTheWire, Before
<1>9. a \notin OnTheWire' /\ a \notin dropped
  <2>1. ~(a < a)
    BY <1>4
  <2> QED
    BY <1>7, <1>8, <2>1 DEF Before, RouterInv, LoopInOrder
<1>10. a < Sent
  BY <1>7 DEF RouterInv, LoopInOrder, Before
<1>11. pc = "send" => a # count
  BY <1>1, <1>4, <1>10 DEF Sent
<1>12. a \in pending
  BY <1>7 DEF RouterInv, LeakIsLoss
<1>13. rx' = a /\ panic' = panic /\ pending' = pending \ {a}
  BY <1>2, <1>12
<1>14. Unprinted = {} /\ Held(rx) = {} /\ Unprinted' = {a} /\ Held(rx') = {a}
  <2>1. Unprinted = {} /\ Held(rx) = {}
    BY DEF Unprinted, Held
  <2>2. Held(rx') = {a}
    BY <1>4, <1>13 DEF Held
  <2>3. ~parallel => a = count /\ pc = "wait"
    BY <1>7 DEF RouterInv, RouterOneAtATime
  <2> QED
    BY <1>13, <2>1, <2>2, <2>3 DEF Unprinted
<1>15. Printed' = Printed /\ Sent' = Sent
  BY DEF Printed, Sent
<1>16. RouterTypeOK'
  BY <1>4, <1>6, <1>13 DEF RouterInv, RouterTypeOK
<1>17. RouterDeclared'
  BY <1>5 DEF RouterInv, RouterDeclared
<1>18. LoopInOrder'
  <2>1. Before(Printed, Unprinted)' /\ Before(Printed \cup Unprinted, OnTheWire)'
    BY <1>7, <1>8, <1>14, <1>15 DEF RouterInv, LoopInOrder, Before
  <2>2. Before(Counts(wire["ping"]), Counts(wire["pong"]))'
    BY <1>4, <1>5 DEF RouterInv, LoopInOrder, Before
  <2>3. Before(Printed \cup Unprinted \cup OnTheWire \cup dropped, {Sent})'
    BY <1>7, <1>10, <1>14, <1>15 DEF RouterInv, LoopInOrder, Before
  <2>4. dropped' \cap (Unprinted' \cup OnTheWire') = {}
    BY <1>7, <1>9, <1>14 DEF RouterInv, LoopInOrder
  <2> QED
    BY <1>4, <1>5, <2>1, <2>2, <2>3, <2>4 DEF RouterInv, LoopInOrder
<1>19. RouterOneAtATime'
  BY <1>7, <1>9, <1>13, <1>14 DEF RouterInv, RouterOneAtATime
<1>20. LeakIsLoss'
  BY <1>7, <1>9, <1>11, <1>13 DEF RouterInv, LeakIsLoss
<1>21. ReportsInOrder'
  BY DEF RouterInv, ReportsInOrder
<1> QED
  BY <1>13, <1>16, <1>17, <1>18, <1>19, <1>20, <1>21 DEF RouterInv

LEMMA DeclarePingInv == RouterInv /\ DeclarePing => RouterInv'
<1> SUFFICES ASSUME RouterInv, DeclarePing PROVE RouterInv'
  OBVIOUS
<1> USE DEF DeclarePing, loopVars
<1>1. Declare("pong", KEY_EXPR_PING) /\ declared["pong"] = <<>> /\ NetTypeOK
  BY RouterFacts DEF RouterInv, RouterDeclared
<1>2. NetTypeOK'
  BY <1>1, NodeFacts, TypedDeclare
<1>3. Inbound("ping", KEY_EXPR_PING)' /\ Counts(wire'["ping"]) = Counts(wire["ping"])
  BY <1>1, NodeFacts, RouterFacts, DeclareInbound
<1>4. /\ wire'["pong"] = wire["pong"] /\ declared'["ping"] = declared["ping"]
      /\ connected' = connected /\ learnt' = learnt /\ declared'["pong"] # <<>>
  <2>1. Append(<<>>, KEY_EXPR_PING) # <<>>
    OBVIOUS
  <2> QED
    BY <1>1, <2>1, NodeFacts DEF Declare, NetTypeOK
<1>5. Inbound("pong", KEY_EXPR_PONG)'
  BY <1>4, NodeFacts, RouterFacts, SameInbound
<1>6. OnTheWire' = OnTheWire /\ Counts(wire'["pong"]) = Counts(wire["pong"])
  BY <1>3, <1>4 DEF OnTheWire
<1>7. Printed' = Printed /\ Unprinted' = Unprinted /\ Sent' = Sent
  BY DEF Printed, Unprinted, Sent
<1>8. RouterTypeOK'
  BY <1>2 DEF RouterTypeOK, RouterInv
<1>9. RouterDeclared'
  BY <1>4 DEF RouterDeclared, RouterInv
<1>10. LoopInOrder'
  BY <1>3, <1>5, <1>6, <1>7 DEF LoopInOrder, RouterInv
<1>11. RouterOneAtATime' /\ LeakIsLoss' /\ ReportsInOrder'
  BY <1>6, <1>7 DEF RouterOneAtATime, LeakIsLoss, ReportsInOrder, RouterInv
<1> QED
  BY <1>8, <1>9, <1>10, <1>11 DEF RouterInv

\* Samples that were on their way are lost, or go from one wire to the other: the
\* map and the lines are left as they are.
LEMMA RouterMoves ==
  ASSUME RouterInv, UNCHANGED <<loopVars, rx, pongPc>>, NetTypeOK', panic' \in {"none", "remove", "tx"},
         declared' = declared,
         Inbound("ping", KEY_EXPR_PING)', Inbound("pong", KEY_EXPR_PONG)',
         Counts(wire'["pong"]) \subseteq Counts(wire["pong"]),
         Before(Counts(wire["ping"]), Counts(wire["pong"]))',
         dropped' \cap OnTheWire' = {}, dropped \subseteq dropped',
         dropped' \cup OnTheWire' = dropped \cup OnTheWire
  PROVE  RouterInv'
<1>1. /\ dropped' \subseteq Nat /\ OnTheWire' \subseteq OnTheWire
      /\ dropped' \subseteq dropped \cup OnTheWire
  BY RouterFacts
<1>2. Printed' = Printed /\ Unprinted' = Unprinted /\ Sent' = Sent
  BY DEF Printed, Unprinted, Sent, loopVars
<1>3. RouterTypeOK'
  BY <1>1 DEF RouterInv, RouterTypeOK, loopVars
<1>4. RouterDeclared'
  BY DEF RouterInv, RouterDeclared, loopVars
<1>5. Printed \cap OnTheWire = {} /\ Unprinted \cap OnTheWire = {}
  <2>1. ASSUME NEW c \in Printed \cup Unprinted, c \in OnTheWire PROVE FALSE
    <3>1. c < c /\ c \in Nat
      BY <2>1, RouterFacts DEF RouterInv, LoopInOrder, Before
    <3> QED
      BY <3>1
  <2> QED
    BY <2>1
<1>6. LoopInOrder'
  <2>1. Before(Printed, Unprinted)' /\ Before(Printed \cup Unprinted, OnTheWire)'
    BY <1>1, <1>2 DEF RouterInv, LoopInOrder, Before
  <2>2. Before(Printed \cup Unprinted \cup OnTheWire \cup dropped, {Sent})'
    BY <1>1, <1>2 DEF RouterInv, LoopInOrder, Before
  <2>3. dropped' \cap (Unprinted' \cup OnTheWire') = {}
    BY <1>1, <1>2, <1>5 DEF RouterInv, LoopInOrder
  <2> QED
    BY <2>1, <2>2, <2>3 DEF RouterInv, LoopInOrder, loopVars
<1>7. RouterOneAtATime'
  BY <1>1, <1>2 DEF RouterInv, RouterOneAtATime, loopVars
<1>8. LeakIsLoss'
  BY DEF RouterInv, LeakIsLoss, loopVars
<1>9. ReportsInOrder'
  <2>1. \A i \in DOMAIN reported : reported[i] \in Printed
    BY DEF Printed
  <2> QED
    BY <1>1, <1>5, <2>1 DEF RouterInv, ReportsInOrder, loopVars
<1> QED
  BY <1>3, <1>4, <1>6, <1>7, <1>8, <1>9 DEF RouterInv

LEMMA PongSendDataInv == RouterInv /\ PongSendData => RouterInv' /\ panic' = panic
<1> SUFFICES ASSUME RouterInv, PongSendData PROVE RouterInv' /\ panic' = panic
  OBVIOUS
<1> USE DEF PongSendData
<1>1. /\ NetTypeOK /\ Arrives("pong") /\ wire["pong"] \in Seq(Messages) /\ wire["pong"] # <<>>
      /\ wire["ping"] \in Seq(Messages)
      /\ Inbound("ping", KEY_EXPR_PING) /\ Inbound("pong", KEY_EXPR_PONG)
      /\ dropped \cap OnTheWire = {} /\ Before(Counts(wire["ping"]), Counts(wire["pong"]))
  BY RouterFacts, NodeFacts DEF NetTypeOK, Arrives, RouterInv, LoopInOrder
<1>2. PICK a : a = Arrived("pong")
  OBVIOUS
<1>3. PICK v : v = Tail(wire["pong"])
  OBVIOUS
<1>4. v \in Seq(Messages) /\ Ascending(wire["pong"]) /\ Head(wire["pong"]).kind = "data"
  BY <1>1, <1>3, HeadTailProperties DEF Inbound, Arrives
<1>5. /\ a \in Nat /\ Counts(wire["pong"]) = Counts(v) \cup {a} /\ Before({a}, Counts(v))
      /\ Counts(v) \subseteq Nat
  BY <1>1, <1>2, <1>3, <1>4, TailFacts DEF Arrived, Ascending
<1>6. pongPc # "new"
  BY <1>5 DEF RouterInv, RouterDeclared
<1>7. /\ wire' = [Publish(wire, "pong", KEY_EXPR_PONG, a) EXCEPT !["pong"] = Tail(@)]
      /\ dropped' = IF Routed("pong", KEY_EXPR_PONG) THEN dropped ELSE dropped \cup {a}
      /\ panic' = panic
  BY <1>2, <1>6
<1>8. wire'["pong"] = v
  BY <1>1, <1>3, <1>7, NodeFacts DEF Publish, NetTypeOK
<1>9. Inbound("pong", KEY_EXPR_PONG)'
  BY <1>1, <1>3, <1>8, NodeFacts, TakeInbound
<1>10. a \notin Counts(v) /\ a \notin Counts(wire["ping"]) /\ a \notin dropped
  <2>1. ~(a < a)
    BY <1>5
  <2>2. a \notin Counts(v)
    BY <1>5, <2>1 DEF Before
  <2>3. a \notin Counts(wire["ping"])
    BY <1>1, <1>5, <2>1 DEF Before
  <2> QED
    BY <1>1, <1>5, <2>2, <2>3 DEF OnTheWire
<1>11. /\ Inbound("ping", KEY_EXPR_PING)' /\ NetTypeOK'
       /\ \/ Counts(wire'["ping"]) = Counts(wire["ping"]) \cup {a} /\ dropped' = dropped
          \/ Counts(wire'["ping"]) = Counts(wire["ping"]) /\ dropped' = dropped \cup {a}
  <2>1. CASE Routed("pong", KEY_EXPR_PONG)
    <3>1. wire' = [wire EXCEPT !["ping"] = Append(@, Data(KEY_EXPR_PONG, a)), !["pong"] = v]
      BY <1>1, <1>3, <1>7, <2>1, NodeFacts DEF Publish, NetTypeOK
    <3>2. wire'["ping"] = Append(wire["ping"], Data(KEY_EXPR_PONG, a))
      BY <1>1, <3>1, NodeFacts DEF NetTypeOK
    <3>3. Ascending(wire["ping"]) /\ Before(Counts(wire["ping"]), {a})
      BY <1>1, <1>5 DEF Inbound, Before
    <3>4. Append(wire["ping"], Data(KEY_EXPR_PONG, a)) \in Seq(Messages)
      BY <1>1, <1>5, <3>3, NodeFacts, AppendData
    <3>5. NetTypeOK'
      BY <1>1, <1>4, <3>1, <3>4 DEF NetTypeOK
    <3>6. connected
      BY <1>1, <2>1, NodeFacts DEF Routed, Inbound
    <3>7. /\ Inbound("ping", KEY_EXPR_PING)'
          /\ Counts(wire'["ping"]) = Counts(wire["ping"]) \cup {a}
      BY <1>1, <1>5, <3>2, <3>3, <3>6, NodeFacts, PublishInbound
    <3> QED
      BY <1>7, <2>1, <3>5, <3>7
  <2>2. CASE ~Routed("pong", KEY_EXPR_PONG)
    <3>1. wire' = [wire EXCEPT !["pong"] = v]
      BY <1>1, <1>3, <1>7, <2>2, NodeFacts DEF Publish, NetTypeOK
    <3>2. wire'["ping"] = wire["ping"]
      BY <1>1, <3>1, NodeFacts DEF NetTypeOK
    <3>3. NetTypeOK'
      BY <1>1, <1>4, <3>1 DEF NetTypeOK
    <3>4. Inbound("ping", KEY_EXPR_PING)'
      BY <1>1, <3>2, SameInbound
    <3> QED
      BY <1>7, <2>2, <3>2, <3>3, <3>4
  <2> QED
    BY <2>1, <2>2
<1>12. /\ Counts(wire'["pong"]) = Counts(v) /\ Counts(wire'["pong"]) \subseteq Counts(wire["pong"])
       /\ Before(Counts(wire["ping"]), Counts(wire["pong"]))'
  BY <1>1, <1>5, <1>8, <1>11 DEF Before
<1>13. dropped' \cup OnTheWire' = dropped \cup OnTheWire
  BY <1>5, <1>11, <1>12 DEF OnTheWire
<1>14. dropped' \cap OnTheWire' = {} /\ dropped \subseteq dropped'
  BY <1>1, <1>5, <1>10, <1>11, <1>12 DEF OnTheWire
<1>15. panic' \in {"none", "remove", "tx"}
  BY <1>7 DEF RouterInv, RouterTypeOK
<1>16. RouterInv'
  BY <1>9, <1>11, <1>12, <1>13, <1>14, <1>15, RouterMoves
<1> QED
  BY <1>7, <1>16

LEMMA RouterRoutingInv == RouterInv /\ RouterRouting => RouterInv'
<1> SUFFICES ASSUME RouterInv, RouterRouting PROVE RouterInv'
  OBVIOUS
<1>1. Routing /\ rx' = rx /\ NetTypeOK
  BY RouterFacts DEF RouterRouting
<1>2. UNCHANGED <<loopVars, pongPc, panic>>
  BY <1>1 DEF Routing, SessionOpens, Learning, SessionEnds
<1>3. NetTypeOK' /\ panic' \in {"none", "remove", "tx"}
  BY <1>1, <1>2, TypedRouting DEF RouterInv, RouterTypeOK
<1>4. /\ Inbound("ping", KEY_EXPR_PING)' /\ declared' = declared
      /\ SessionOpens \/ Learning => Counts(wire'["ping"]) = Counts(wire["ping"])
      /\ SessionEnds => Counts(wire'["ping"]) = {}
  BY <1>1, RouterFacts, NodeFacts, RoutingInbound
<1>5. /\ Inbound("pong", KEY_EXPR_PONG)'
      /\ SessionOpens \/ Learning => Counts(wire'["pong"]) = Counts(wire["pong"])
      /\ SessionEnds => Counts(wire'["pong"]) = {}
  BY <1>1, RouterFacts, NodeFacts, RoutingInbound
<1>6. /\ dropped \cap OnTheWire = {} /\ Before(Counts(wire["ping"]), Counts(wire["pong"]))
  BY DEF RouterInv, LoopInOrder
<1>7. CASE SessionOpens \/ Learning
  <2>1. dropped' = dropped
    BY <1>7 DEF SessionOpens, Learning
  <2>2. OnTheWire' = OnTheWire /\ Before(Counts(wire["ping"]), Counts(wire["pong"]))'
    BY <1>4, <1>5, <1>6, <1>7 DEF OnTheWire, Before
  <2> QED
    BY <1>1, <1>2, <1>3, <1>4, <1>5, <1>6, <1>7, <2>1, <2>2, RouterMoves
<1>8. CASE SessionEnds
  <2>1. dropped' = dropped \cup OnTheWire
    BY <1>8 DEF SessionEnds
  <2>2. /\ OnTheWire' = {} /\ Before(Counts(wire["ping"]), Counts(wire["pong"]))'
        /\ Counts(wire'["pong"]) \subseteq Counts(wire["pong"])
    BY <1>4, <1>5, <1>8 DEF OnTheWire, Before
  <2> QED
    BY <1>1, <1>2, <1>3, <1>4, <1>5, <1>6, <2>1, <2>2, RouterMoves
<1> QED
  BY <1>1, <1>7, <1>8 DEF Routing

LEMMA RouterNextInv == RouterInv /\ [RouterNext]_routerVars => RouterInv' /\ (NoPanic => NoPanic')
<1> SUFFICES ASSUME RouterInv, [RouterNext]_routerVars
             PROVE  RouterInv' /\ panic' = panic
  BY DEF NoPanic
<1>1. CASE UNCHANGED routerVars
  <2>1. UNCHANGED netVars /\ UNCHANGED <<loopVars, rx, pongPc, panic, dropped>>
    BY <1>1 DEF routerVars
  <2>2. /\ NetTypeOK' /\ OnTheWire' = OnTheWire
        /\ Counts(wire'["ping"]) = Counts(wire["ping"])
        /\ Counts(wire'["pong"]) = Counts(wire["pong"])
        /\ Inbound("ping", KEY_EXPR_PING)' /\ Inbound("pong", KEY_EXPR_PONG)'
    BY <2>1, RouterStill
  <2>3. /\ dropped \cap OnTheWire = {} /\ Before(Counts(wire["ping"]), Counts(wire["pong"]))
        /\ panic \in {"none", "remove", "tx"}
    BY DEF RouterInv, LoopInOrder, RouterTypeOK
  <2>4. Before(Counts(wire["ping"]), Counts(wire["pong"]))'
    BY <2>2, <2>3 DEF Before
  <2> QED
    BY <2>1, <2>2, <2>3, <2>4, RouterMoves DEF netVars
<1>2. CASE RouterFinished
  BY <1>1, <1>2 DEF RouterFinished
<1>3. CASE DeclarePong
  BY <1>3, DeclarePongInv DEF DeclarePong
<1>4. CASE Insert
  BY <1>4, InsertInv DEF Insert
<1>5. CASE Send
  BY <1>5, SendInv DEF Send
<1>6. CASE RouterSleep
  BY <1>6, RouterSleepInv DEF RouterSleep, SleepThen
<1>7. CASE RxRemove
  BY <1>7, RxRemoveInv
<1>8. CASE RxPrint
  BY <1>8, RxPrintInv DEF RxPrint
<1>9. CASE Meet
  BY <1>9, MeetInv DEF Meet
<1>10. CASE RxReturn
  BY <1>10, RxReturnInv DEF RxReturn
<1>11. CASE SetTx
  BY <1>11, SetTxInv DEF SetTx
<1>12. CASE DeclarePing
  BY <1>12, DeclarePingInv DEF DeclarePing
<1>13. CASE PongSendData
  BY <1>13, PongSendDataInv
<1>14. CASE RouterRouting
  BY <1>14, RouterRoutingInv
     DEF RouterRouting, Routing, SessionOpens, Learning, SessionEnds
<1> QED
  BY <1>1, <1>2, <1>3, <1>4, <1>5, <1>6, <1>7, <1>8, <1>9, <1>10, <1>11, <1>12, <1>13,
     <1>14 DEF RouterNext
-----------------------------------------------------------------------------
\* For every capacity of the links and every number of pings, and however often the
\* session opens and ends: the counts that get through keep their order around the
\* loop, and the map holds those on their way and the lost ones.
THEOREM RouterInvHolds == RouterSpec => []RouterInv
<1> QED
  BY RouterInitInv, RouterNextInv, PTL DEF RouterSpec

\* r_ping has the entry of every pong and r_pong has its tx before the first ping,
\* and again before those of every later session.
THEOREM RouterNoPanic == RouterSpec => []NoPanic
<1>1. RouterInit => NoPanic
  BY DEF RouterInit, LoopInit, NoPanic
<1> QED
  BY <1>1, RouterInitInv, RouterNextInv, PTL DEF RouterSpec

\* In sequential mode a lost ping is the last: main stays at the barrier of it, even
\* when the session opens again and the subscriptions are known again.
THEOREM RouterLostPingHangs == RouterSpec => []LostPingHangs
<1>1. RouterInv => LostPingHangs
  BY DEF RouterInv, RouterOneAtATime, LostPingHangs
<1> QED
  BY <1>1, RouterInvHolds, PTL
-----------------------------------------------------------------------------
\* The state of a session ping.  Nothing is outstanding with --parallel, for the
\* key of the put is not the one that is subscribed to.
LEMMA SessionFacts ==
  ASSUME SessionInv
  PROVE  /\ NetTypeOK /\ count \in Nat /\ count \in 0..MaxPings /\ dropped \subseteq Nat
         /\ hand \in Nat \cup {NoPing} /\ echo \in Nat \cup {NoPing}
         /\ wire["ping"] \in Seq(Messages) /\ wire["pong"] \in Seq(Messages)
         /\ PingKey \in Keys /\ PongKey \in Keys
         /\ Inbound("ping", KEY_EXPR_PING) /\ Inbound("pong", PongKey)
         /\ parallel => ~Routed("ping", PingKey)
<1>1. /\ NetTypeOK /\ count \in Nat /\ count \in 0..MaxPings /\ dropped \subseteq Nat
      /\ hand \in Nat \cup {NoPing} /\ echo \in Nat \cup {NoPing}
  BY DEF SessionInv, SessionTypeOK
<1>2. wire["ping"] \in Seq(Messages) /\ wire["pong"] \in Seq(Messages)
  BY <1>1, NodeFacts DEF NetTypeOK
<1>3. PingKey \in Keys /\ PongKey \in Keys
  BY DEF PingKey, PongKey, Keys, KEY_EXPR_PING, KEY_EXPR_PONG
<1>4. Inbound("ping", KEY_EXPR_PING) /\ Inbound("pong", PongKey)
  BY DEF SessionInv, SessionOneAtATime
<1>5. parallel => ~Routed("ping", PingKey)
  BY <1>4 DEF Inbound, Routed, PingKey, KEY_EXPR_PING
<1> QED
  BY <1>1, <1>2, <1>3, <1>4, <1>5

\* Where the one sample may be: in one place only.
LEMMA OnePlace ==
  ASSUME SessionInv
  PROVE  /\ Held(hand) # {} => OnTheWire \cup Held(echo) = {}
         /\ Held(echo) # {} => OnTheWire \cup Held(hand) = {}
<1>1. /\ \A c \in Outstanding : c = count
      /\ ~(count < count)
  BY SessionFacts DEF SessionInv, SessionOneAtATime
<1>2. Held(hand) \cup Held(echo) \cup Counts(wire["ping"]) \cup Counts(wire["pong"]) \subseteq {count}
  BY <1>1 DEF Outstanding, OnTheWire
<1>3. /\ Before(Held(hand), Counts(wire["ping"]) \cup Held(echo) \cup Counts(wire["pong"]))
      /\ Before(Counts(wire["ping"]), Held(echo) \cup Counts(wire["pong"]))
      /\ Before(Held(echo), Counts(wire["pong"]))
  BY DEF SessionInv, SessionOneAtATime
<1>4. \A S, T : S \subseteq {count} /\ T \subseteq {count} /\ Before(S, T) => S = {} \/ T = {}
  BY <1>1 DEF Before
<1>5. Held(hand) # {} => Counts(wire["ping"]) \cup Held(echo) \cup Counts(wire["pong"]) = {}
  BY <1>2, <1>3, <1>4
<1>6. Held(echo) # {} => Counts(wire["ping"]) = {} /\ Counts(wire["pong"]) = {}
  <2>1. Held(echo) # {} => Counts(wire["pong"]) = {}
    BY <1>2, <1>3, <1>4
  <2>2. Held(echo) \cup Counts(wire["pong"]) # {} => Counts(wire["ping"]) = {}
    BY <1>2, <1>3, <1>4
  <2> QED
    BY <2>1, <2>2
<1> QED
  BY <1>5, <1>6 DEF OnTheWire

LEMMA SessionInitInv == SessionInit => SessionInv /\ PrintedIsTimed
<1> SUFFICES ASSUME SessionInit PROVE SessionInv /\ PrintedIsTimed
  OBVIOUS
<1> USE DEF SessionInit, LoopInit, NetInit
<1>1. /\ wire["ping"] = <<>> /\ wire["pong"] = <<>>
      /\ declared["ping"] = <<>> /\ declared["pong"] = <<>>
      /\ learnt["ping"] = {} /\ learnt["pong"] = {}
  BY NodeFacts
<1>2. /\ Counts(wire["pong"]) = {} /\ Counts(wire["ping"]) = {}
      /\ Held(hand) = {} /\ Held(echo) = {}
  BY <1>1, EmptyWire DEF Held
<1>3. Inbound("ping", KEY_EXPR_PING) /\ Inbound("pong", PongKey)
  BY <1>1, NodeFacts, EmptyWire DEF Inbound
<1>4. SessionTypeOK
  <2>1. <<>> \in Seq(Keys) /\ <<>> \in Seq(Messages)
    BY EmptySeq
  <2>2. <<>> \in Seq([timed : Nat, printed : Nat])
    BY EmptySeq
  <2>3. NetTypeOK
    BY <2>1 DEF NetTypeOK
  <2> QED
    BY <2>2, <2>3 DEF SessionTypeOK
<1>5. SessionDeclared
  BY <1>1 DEF SessionDeclared
<1>6. Outstanding = {}
  BY <1>2 DEF Outstanding, OnTheWire
<1>7. SessionOneAtATime /\ WaitIsAnswered
  BY <1>2, <1>3, <1>6 DEF SessionOneAtATime, WaitIsAnswered, Before
<1>8. DOMAIN reported = {}
  OBVIOUS
<1> QED
  BY <1>4, <1>5, <1>7, <1>8 DEF SessionInv, PrintedIsTimed

\* What is outstanding goes on to its next place, or is lost.
LEMMA SessionMoves ==
  ASSUME SessionInv, UNCHANGED <<parallel, pc, count, pending, reported, panic>>,
         NetTypeOK', SessionDeclared', pongPc' \in {"open", "loop"},
         hand' \in Nat \cup {NoPing}, echo' \in Nat \cup {NoPing},
         Inbound("ping", KEY_EXPR_PING)', Inbound("pong", PongKey)',
         Before(Held(hand'), Counts(wire'["ping"]) \cup Held(echo') \cup Counts(wire'["pong"])),
         Before(Counts(wire'["ping"]), Held(echo') \cup Counts(wire'["pong"])),
         Before(Held(echo'), Counts(wire'["pong"])),
         Outstanding' \subseteq Outstanding, dropped \subseteq dropped',
         Outstanding' \cup dropped' = Outstanding \cup dropped,
         dropped' \cap Outstanding' \subseteq dropped \cap Outstanding
  PROVE  SessionInv'
<1>1. dropped' \subseteq Nat /\ dropped' \subseteq dropped \cup Outstanding
  <2>1. \A c \in Outstanding : c = count
    BY DEF SessionInv, SessionOneAtATime
  <2> QED
    BY <2>1, SessionFacts
<1>2. SessionTypeOK'
  BY <1>1 DEF SessionInv, SessionTypeOK
<1>3. SessionOneAtATime'
  BY DEF SessionInv, SessionOneAtATime
<1>4. WaitIsAnswered'
  BY <1>1 DEF SessionInv, SessionOneAtATime, WaitIsAnswered
<1> QED
  BY <1>2, <1>3, <1>4 DEF SessionInv

\* When the routers are left alone.
LEMMA SessionStill ==
  ASSUME SessionInv, UNCHANGED netVars, parallel' = parallel
  PROVE  /\ NetTypeOK' /\ OnTheWire' = OnTheWire
         /\ Counts(wire'["ping"]) = Counts(wire["ping"])
         /\ Counts(wire'["pong"]) = Counts(wire["pong"])
         /\ Inbound("ping", KEY_EXPR_PING)' /\ Inbound("pong", PongKey)'
<1>1. UNCHANGED <<connected, declared, learnt, wire>>
  BY DEF netVars
<1> QED
  BY <1>1, SessionFacts DEF NetTypeOK, OnTheWire, Inbound, PongKey

LEMMA SubscribeInv == SessionInv /\ Subscribe => SessionInv'
<1> SUFFICES ASSUME SessionInv, Subscribe PROVE SessionInv'
  OBVIOUS
<1> USE DEF Subscribe
<1>1. PICK k \in Keys : k = PongKey
  BY SessionFacts
<1>2. /\ Declare("ping", k) /\ declared["ping"] = <<>> /\ NetTypeOK
      /\ Inbound("ping", KEY_EXPR_PING) /\ Inbound("pong", k) /\ k = PongKey'
  BY <1>1, SessionFacts DEF SessionInv, SessionDeclared, PongKey
<1>3. NetTypeOK'
  BY <1>2, NodeFacts, TypedDeclare
<1>4. Inbound("pong", k)' /\ Counts(wire'["pong"]) = Counts(wire["pong"])
  BY <1>2, NodeFacts, DeclareInbound
<1>5. /\ wire'["ping"] = wire["ping"] /\ declared'["pong"] = declared["pong"]
      /\ connected' = connected /\ learnt' = learnt /\ declared'["ping"] # <<>>
  <2>1. Append(<<>>, k) # <<>>
    OBVIOUS
  <2> QED
    BY <1>2, <2>1, NodeFacts DEF Declare, NetTypeOK
<1>6. Inbound("ping", KEY_EXPR_PING)'
  BY <1>2, <1>5, NodeFacts, SameInbound
<1>7. Outstanding = {} /\ Outstanding' = {} /\ Inbound("pong", PongKey)'
  <2>1. Outstanding = {}
    BY DEF SessionInv, SessionOneAtATime
  <2>2. Inbound("pong", PongKey)'
    BY <1>2, <1>4 DEF Inbound
  <2> QED
    BY <1>4, <1>5, <2>1, <2>2 DEF Outstanding, OnTheWire
<1>8. SessionTypeOK'
  BY <1>3 DEF SessionInv, SessionTypeOK
<1>9. SessionDeclared'
  BY <1>5 DEF SessionInv, SessionDeclared
<1>10. SessionOneAtATime'
  BY <1>4, <1>5, <1>6, <1>7 DEF SessionInv, SessionOneAtATime
<1>11. WaitIsAnswered'
  BY DEF SessionInv, WaitIsAnswered
<1> QED
  BY <1>8, <1>9, <1>10, <1>11 DEF SessionInv

LEMMA PutPingInv == SessionInv /\ PutPing => SessionInv'
<1> SUFFICES ASSUME SessionInv, PutPing PROVE SessionInv'
  OBVIOUS
<1> USE DEF PutPing
<1>1. /\ NetTypeOK /\ count \in Nat /\ count \in 0..MaxPings /\ PingKey \in Keys
      /\ wire["pong"] \in Seq(Messages) /\ Inbound("ping", KEY_EXPR_PING)
      /\ (parallel => ~Routed("ping", PingKey))
      /\ MaxPings \in Nat /\ dropped \subseteq Nat
  BY SessionFacts
<1>2. PICK k \in Keys : k = PongKey /\ k = PongKey' /\ Inbound("pong", k)
  BY SessionFacts DEF PongKey
<1>3. /\ Counts(wire["ping"]) = {} /\ Counts(wire["pong"]) = {}
      /\ Held(hand) = {} /\ Held(echo) = {} /\ (~parallel => dropped = {})
  BY DEF SessionInv, SessionOneAtATime, WaitIsAnswered, Outstanding, OnTheWire
<1>4. /\ NetTypeOK' /\ Inbound("ping", KEY_EXPR_PING)' /\ Inbound("pong", k)'
      /\ Counts(wire'["ping"]) = {}
      /\ \/ Counts(wire'["pong"]) = {count} /\ dropped' = dropped /\ ~parallel
         \/ Counts(wire'["pong"]) = {} /\ dropped' = dropped \cup {count}
  <2>1. CASE Routed("ping", PingKey)
    <3>1. wire' = [wire EXCEPT !["pong"] = Append(@, Data(PingKey, count))]
      BY <2>1, NodeFacts DEF Publish
    <3>2. dropped' = dropped /\ ~parallel
      BY <1>1, <2>1 DEF Put
    <3>3. Ascending(wire["pong"]) /\ Before(Counts(wire["pong"]), {count})
      BY <1>2, <1>3 DEF Inbound, Before
    <3>4. Append(wire["pong"], Data(PingKey, count)) \in Seq(Messages)
      BY <1>1, <3>3, AppendData
    <3>5. NetTypeOK'
      BY <1>1, <3>1, <3>4 DEF NetTypeOK
    <3>6. connected
      BY <1>1, <2>1 DEF Routed, Inbound
    <3>7. /\ wire'["ping"] = wire["ping"]
          /\ wire'["pong"] = Append(wire["pong"], Data(PingKey, count))
      BY <1>1, <3>1, NodeFacts DEF NetTypeOK
    <3>8. Inbound("pong", k)' /\ Counts(wire'["pong"]) = Counts(wire["pong"]) \cup {count}
      BY <1>1, <1>2, <3>3, <3>6, <3>7, NodeFacts, PublishInbound
    <3>9. Inbound("ping", KEY_EXPR_PING)'
      BY <1>1, <3>7, SameInbound
    <3> QED
      BY <1>3, <3>2, <3>5, <3>7, <3>8, <3>9
  <2>2. CASE ~Routed("ping", PingKey)
    <3>1. wire' = wire /\ dropped' = dropped \cup {count}
      BY <2>2 DEF Publish, Put
    <3>2. UNCHANGED netVars
      BY <3>1 DEF netVars
    <3>3. /\ NetTypeOK' /\ Inbound("ping", KEY_EXPR_PING)' /\ Inbound("pong", PongKey)'
          /\ Counts(wire'["ping"]) = Counts(wire["ping"])
          /\ Counts(wire'["pong"]) = Counts(wire["pong"])
      BY <3>2, SessionStill
    <3> QED
      BY <1>2, <1>3, <3>1, <3>3 DEF Inbound
  <2> QED
    BY <2>1, <2>2
<1>5. /\ Held(hand') = {} /\ Held(echo') = {} /\ Inbound("pong", PongKey)'
      /\ Outstanding' = Counts(wire'["pong"])
  BY <1>2, <1>3, <1>4 DEF Outstanding, OnTheWire, Inbound
<1>6. SessionTypeOK'
  BY <1>1, <1>4 DEF SessionInv, SessionTypeOK
<1>7. SessionDeclared'
  BY DEF SessionInv, SessionDeclared
<1>8. SessionOneAtATime'
  <2>1. /\ Outstanding' \subseteq {count'} /\ (Outstanding' # {} => ~parallel' /\ pc' = "next")
        /\ (~parallel' => dropped' \cap Outstanding' = {})
        /\ count' < MaxPings
    BY <1>1, <1>3, <1>4, <1>5
  <2>2. Before(Held(hand'), Counts(wire'["ping"]) \cup Held(echo') \cup Counts(wire'["pong"]))
    BY <1>5 DEF Before
  <2>3. Before(Counts(wire'["ping"]), Held(echo') \cup Counts(wire'["pong"]))
    BY <1>4 DEF Before
  <2>4. Before(Held(echo'), Counts(wire'["pong"]))
    BY <1>5 DEF Before
  <2> QED
    BY <1>4, <1>5, <2>1, <2>2, <2>3, <2>4 DEF SessionOneAtATime
<1>9. WaitIsAnswered'
  BY <1>3, <1>4, <1>5 DEF WaitIsAnswered
<1> QED
  BY <1>6, <1>7, <1>8, <1>9 DEF SessionInv

LEMMA TakePongInv == SessionInv /\ TakePong => SessionInv'
<1> SUFFICES ASSUME SessionInv, TakePong PROVE SessionInv'
  OBVIOUS
<1> USE DEF TakePong
<1>1. /\ NetTypeOK /\ Arrives("ping") /\ Inbound("ping", KEY_EXPR_PING) /\ Inbound("pong", PongKey)
      /\ wire["ping"] \in Seq(Messages) /\ wire["ping"] # <<>> /\ echo \in Nat \cup {NoPing}
  BY SessionFacts DEF Arrives
<1>2. PICK a : a = Arrived("ping")
  OBVIOUS
<1>3. wire'["ping"] = Tail(wire["ping"]) /\ wire'["pong"] = wire["pong"]
  BY <1>1, NodeFacts DEF NetTypeOK
<1>4. /\ Inbound("ping", KEY_EXPR_PING)' /\ a \in Nat
      /\ Counts(wire["ping"]) = Counts(wire'["ping"]) \cup {a}
      /\ Before({a}, Counts(wire'["ping"]))
  BY <1>1, <1>2, <1>3, NodeFacts, TakeInbound
<1>5. Inbound("pong", PongKey)'
  BY <1>1, <1>3, SameInbound DEF Inbound, PongKey
<1>6. NetTypeOK'
  <2>1. Tail(wire["ping"]) \in Seq(Messages)
    BY <1>1, HeadTailProperties
  <2> QED
    BY <1>1, <2>1 DEF NetTypeOK
<1>7. Held(hand) = {} /\ Held(hand') = {a} /\ Held(echo') = Held(echo) /\ hand' = a
  BY <1>2, <1>4 DEF Held
<1>8. Outstanding' = Outstanding
  BY <1>3, <1>4, <1>7 DEF Outstanding, OnTheWire
<1>9. /\ Before(Counts(wire["ping"]), Held(echo) \cup Counts(wire["pong"]))
      /\ Before(Held(echo), Counts(wire["pong"]))
  BY DEF SessionInv, SessionOneAtATime
<1>10. /\ Before(Held(hand'), Counts(wire'["ping"]) \cup Held(echo') \cup Counts(wire'["pong"]))
       /\ Before(Counts(wire'["ping"]), Held(echo') \cup Counts(wire'["pong"]))
       /\ Before(Held(echo'), Counts(wire'["pong"]))
  BY <1>3, <1>4, <1>7, <1>9 DEF Before
<1>11. SessionDeclared' /\ pongPc' \in {"open", "loop"}
  BY DEF SessionInv, SessionDeclared, SessionTypeOK
<1> QED
  BY <1>1, <1>4, <1>5, <1>6, <1>7, <1>8, <1>10, <1>11, SessionMoves

LEMMA TakePingInv == SessionInv /\ TakePing => SessionInv'
<1> SUFFICES ASSUME SessionInv, TakePing PROVE SessionInv'
  OBVIOUS
<1> USE DEF TakePing, loopVars
<1>1. /\ NetTypeOK /\ Arrives("pong") /\ Inbound("ping", KEY_EXPR_PING)
      /\ wire["pong"] \in Seq(Messages) /\ wire["pong"] # <<>> /\ hand \in Nat \cup {NoPing}
  BY SessionFacts DEF Arrives
<1>2. PICK a : a = Arrived("pong")
  OBVIOUS
<1>3. PICK k \in Keys : k = PongKey /\ k = PongKey' /\ Inbound("pong", k)
  BY SessionFacts DEF PongKey
<1>4. wire'["pong"] = Tail(wire["pong"]) /\ wire'["ping"] = wire["ping"]
  BY <1>1, NodeFacts DEF NetTypeOK
<1>5. /\ Inbound("pong", k)' /\ a \in Nat
      /\ Counts(wire["pong"]) = Counts(wire'["pong"]) \cup {a}
      /\ Before({a}, Counts(wire'["pong"]))
  BY <1>1, <1>2, <1>3, <1>4, NodeFacts, TakeInbound
<1>6. Inbound("ping", KEY_EXPR_PING)' /\ Inbound("pong", PongKey)'
  BY <1>1, <1>3, <1>4, <1>5, SameInbound DEF Inbound
<1>7. NetTypeOK'
  <2>1. Tail(wire["pong"]) \in Seq(Messages)
    BY <1>1, HeadTailProperties
  <2> QED
    BY <1>1, <2>1 DEF NetTypeOK
<1>8. Held(echo) = {} /\ Held(echo') = {a} /\ Held(hand') = Held(hand) /\ echo' = a
  BY <1>2, <1>5 DEF Held
<1>9. Outstanding' = Outstanding
  BY <1>4, <1>5, <1>8 DEF Outstanding, OnTheWire
<1>10. /\ Before(Held(hand), Counts(wire["ping"]) \cup Counts(wire["pong"]))
       /\ Before(Counts(wire["ping"]), Counts(wire["pong"]))
  BY DEF SessionInv, SessionOneAtATime, Before
<1>11. /\ Before(Held(hand'), Counts(wire'["ping"]) \cup Held(echo') \cup Counts(wire'["pong"]))
       /\ Before(Counts(wire'["ping"]), Held(echo') \cup Counts(wire'["pong"]))
       /\ Before(Held(echo'), Counts(wire'["pong"]))
  BY <1>4, <1>5, <1>8, <1>10 DEF Before
<1>12. SessionDeclared' /\ pongPc' \in {"open", "loop"}
  BY DEF SessionInv, SessionDeclared, SessionTypeOK
<1> QED
  BY <1>1, <1>5, <1>6, <1>7, <1>8, <1>9, <1>11, <1>12, SessionMoves

\* A line is printed.
LEMMA AppendLine ==
  ASSUME NEW L, NEW s \in Seq(L), NEW r \in L
  PROVE  /\ Append(s, r) \in Seq(L)
         /\ \A i \in DOMAIN Append(s, r) :
              (i \in DOMAIN s /\ Append(s, r)[i] = s[i]) \/ Append(s, r)[i] = r
<1>1. /\ Append(s, r) \in Seq(L) /\ Len(Append(s, r)) = Len(s) + 1
      /\ \A i \in 1..Len(s) : Append(s, r)[i] = s[i]
      /\ Append(s, r)[Len(s) + 1] = r
  BY AppendProperties
<1>2. Len(s) \in Nat /\ DOMAIN s = 1..Len(s) /\ DOMAIN Append(s, r) = 1..(Len(s) + 1)
  BY <1>1, LenProperties
<1> QED
  BY <1>1, <1>2

\* The pong that is timed against the last put is that of the last put.
LEMMA ReportPongInv ==
  SessionInv /\ PrintedIsTimed /\ ReportPong => SessionInv' /\ PrintedIsTimed'
<1> SUFFICES ASSUME SessionInv, PrintedIsTimed, ReportPong PROVE SessionInv' /\ PrintedIsTimed'
  OBVIOUS
<1> USE DEF ReportPong
<1>1. Held(hand) # {} /\ hand \in Outstanding
  BY DEF Held, Outstanding
<1>2. hand = count /\ ~parallel /\ pc = "next" /\ count \in Nat /\ dropped = {}
  <2>1. hand = count /\ ~parallel /\ pc = "next"
    BY <1>1 DEF SessionInv, SessionOneAtATime
  <2>2. \A c \in dropped : c = count /\ c \notin Outstanding
    BY <2>1 DEF SessionInv, SessionOneAtATime, WaitIsAnswered
  <2> QED
    BY <1>1, <2>1, <2>2, SessionFacts
<1>3. OnTheWire = {} /\ Held(echo) = {} /\ Held(hand') = {}
  BY <1>1, <1>2, OnePlace DEF Held
<1>4. /\ pending' = pending \ {hand} /\ hand' = NoPing /\ pc' = "sleep" /\ panic' = panic
      /\ reported' = Append(reported, [timed |-> count, printed |-> count])
  BY <1>2
<1>5. UNCHANGED netVars /\ parallel' = parallel
  OBVIOUS
<1>6. /\ NetTypeOK' /\ OnTheWire' = OnTheWire
      /\ Inbound("ping", KEY_EXPR_PING)' /\ Inbound("pong", PongKey)'
  BY <1>5, SessionStill
<1>7. Counts(wire'["ping"]) = {} /\ Counts(wire'["pong"]) = {} /\ Held(echo') = {}
  BY <1>3, <1>6 DEF OnTheWire
<1>8. Outstanding' = {}
  BY <1>3, <1>7 DEF Outstanding, OnTheWire
<1>9. PICK s \in Seq([timed : Nat, printed : Nat]), r \in [timed : Nat, printed : Nat] :
        s = reported /\ r = [timed |-> count, printed |-> count] /\ r.printed = r.timed
  BY <1>2 DEF SessionInv, SessionTypeOK
<1>10. reported' = Append(s, r)
  BY <1>4, <1>9
<1>11. /\ reported' \in Seq([timed : Nat, printed : Nat])
       /\ \A i \in DOMAIN reported' :
            (i \in DOMAIN s /\ reported'[i] = s[i]) \/ reported'[i] = r
  BY <1>9, <1>10, AppendLine
<1>12. PrintedIsTimed'
  BY <1>9, <1>11 DEF PrintedIsTimed
<1>13. SessionTypeOK'
  BY <1>4, <1>6, <1>11 DEF SessionInv, SessionTypeOK
<1>14. SessionDeclared'
  BY <1>2, <1>4, <1>5 DEF SessionInv, SessionDeclared, netVars
<1>15. SessionOneAtATime'
  BY <1>2, <1>3, <1>4, <1>6, <1>7, <1>8 DEF SessionInv, SessionOneAtATime, Before
<1>16. WaitIsAnswered'
  BY <1>2, <1>4 DEF WaitIsAnswered
<1> QED
  BY <1>12, <1>13, <1>14, <1>15, <1>16 DEF SessionInv

LEMMA SessionSleepInv == SessionInv /\ SessionSleep => SessionInv'
<1> SUFFICES ASSUME SessionInv, SessionSleep PROVE SessionInv'
  OBVIOUS
<1> USE DEF SessionSleep, SleepThen
<1>1. /\ NetTypeOK' /\ OnTheWire' = OnTheWire
      /\ Counts(wire'["ping"]) = Counts(wire["ping"])
      /\ Counts(wire'["pong"]) = Counts(wire["pong"])
      /\ Inbound("ping", KEY_EXPR_PING)' /\ Inbound("pong", PongKey)'
  BY SessionStill
<1>2. Outstanding = {} /\ Outstanding' = {} /\ (~parallel => dropped = {})
  BY <1>1 DEF SessionInv, SessionOneAtATime, WaitIsAnswered, Outstanding
<1>3. count < MaxPings /\ count \in 0..MaxPings /\ MaxPings \in Nat
  BY SessionFacts DEF SessionInv, SessionOneAtATime
<1>4. SessionTypeOK'
  BY <1>1, <1>3 DEF SessionInv, SessionTypeOK
<1>5. SessionDeclared'
  BY DEF SessionInv, SessionDeclared, netVars
<1>6. SessionOneAtATime'
  BY <1>1, <1>2 DEF SessionInv, SessionOneAtATime
<1>7. WaitIsAnswered'
  BY <1>2 DEF WaitIsAnswered
<1> QED
  BY <1>4, <1>5, <1>6, <1>7 DEF SessionInv

LEMMA PongSubscribeInv == SessionInv /\ PongSubscribe => SessionInv'
<1> SUFFICES ASSUME SessionInv, PongSubscribe PROVE SessionInv'
  OBVIOUS
<1> USE DEF PongSubscribe, loopVars
<1>1. PICK k \in Keys : k = PongKey /\ k = PongKey' /\ Inbound("pong", k)
  BY SessionFacts DEF PongKey
<1>2. /\ Declare("pong", KEY_EXPR_PING) /\ declared["pong"] = <<>> /\ NetTypeOK
      /\ Inbound("ping", KEY_EXPR_PING)
  BY SessionFacts DEF SessionInv, SessionDeclared
<1>3. NetTypeOK'
  BY <1>2, NodeFacts, TypedDeclare
<1>4. Inbound("ping", KEY_EXPR_PING)' /\ Counts(wire'["ping"]) = Counts(wire["ping"])
  BY <1>2, NodeFacts, DeclareInbound
<1>5. /\ wire'["pong"] = wire["pong"] /\ declared'["ping"] = declared["ping"]
      /\ connected' = connected /\ learnt' = learnt /\ declared'["pong"] # <<>>
  <2>1. Append(<<>>, KEY_EXPR_PING) # <<>>
    OBVIOUS
  <2> QED
    BY <1>2, <2>1, NodeFacts DEF Declare, NetTypeOK
<1>6. Inbound("pong", PongKey)'
  BY <1>1, <1>5, NodeFacts, SameInbound DEF Inbound
<1>7. Outstanding' = Outstanding
  BY <1>4, <1>5 DEF Outstanding, OnTheWire
<1>8. SessionDeclared'
  BY <1>5 DEF SessionInv, SessionDeclared
<1>9. /\ Before(Held(hand'), Counts(wire'["ping"]) \cup Held(echo') \cup Counts(wire'["pong"]))
      /\ Before(Counts(wire'["ping"]), Held(echo') \cup Counts(wire'["pong"]))
      /\ Before(Held(echo'), Counts(wire'["pong"]))
  BY <1>4, <1>5 DEF SessionInv, SessionOneAtATime
<1>10. hand' \in Nat \cup {NoPing} /\ echo' \in Nat \cup {NoPing}
  BY SessionFacts
<1> QED
  BY <1>3, <1>4, <1>6, <1>7, <1>8, <1>9, <1>10, SessionMoves

LEMMA PutPongInv == SessionInv /\ PutPong => SessionInv'
<1> SUFFICES ASSUME SessionInv, PutPong PROVE SessionInv'
  OBVIOUS
<1> USE DEF PutPong, loopVars
<1>1. /\ NetTypeOK /\ Inbound("ping", KEY_EXPR_PING) /\ Inbound("pong", PongKey)
      /\ wire["ping"] \in Seq(Messages) /\ echo \in Nat /\ hand \in Nat \cup {NoPing}
  BY SessionFacts
<1>2. /\ Held(echo) = {echo} /\ Held(echo') = {} /\ Held(hand) = {} /\ Held(hand') = {}
      /\ Counts(wire["ping"]) = {} /\ Counts(wire["pong"]) = {}
  BY OnePlace DEF Held, OnTheWire
<1>3. Outstanding = {echo}
  BY <1>2 DEF Outstanding, OnTheWire
<1>4. /\ NetTypeOK' /\ Inbound("ping", KEY_EXPR_PING)' /\ Inbound("pong", PongKey)'
      /\ Counts(wire'["pong"]) = {}
      /\ \/ Counts(wire'["ping"]) = {echo} /\ dropped' = dropped
         \/ Counts(wire'["ping"]) = {} /\ dropped' = dropped \cup {echo}
  <2>1. CASE Routed("pong", KEY_EXPR_PONG)
    <3>1. wire' = [wire EXCEPT !["ping"] = Append(@, Data(KEY_EXPR_PONG, echo))]
      BY <2>1, NodeFacts DEF Publish
    <3>2. dropped' = dropped
      BY <2>1 DEF Put
    <3>3. Ascending(wire["ping"]) /\ Before(Counts(wire["ping"]), {echo})
      BY <1>1, <1>2 DEF Inbound, Before
    <3>4. Append(wire["ping"], Data(KEY_EXPR_PONG, echo)) \in Seq(Messages)
      BY <1>1, <3>3, NodeFacts, AppendData
    <3>5. NetTypeOK'
      BY <1>1, <3>1, <3>4 DEF NetTypeOK
    <3>6. connected
      BY <1>1, <2>1 DEF Routed, Inbound
    <3>7. /\ wire'["pong"] = wire["pong"]
          /\ wire'["ping"] = Append(wire["ping"], Data(KEY_EXPR_PONG, echo))
      BY <1>1, <3>1, NodeFacts DEF NetTypeOK
    <3>8. /\ Inbound("ping", KEY_EXPR_PING)'
          /\ Counts(wire'["ping"]) = Counts(wire["ping"]) \cup {echo}
      BY <1>1, <3>3, <3>6, <3>7, NodeFacts, PublishInbound
    <3>9. Inbound("pong", PongKey)'
      BY <1>1, <3>7, SameInbound DEF Inbound, PongKey
    <3> QED
      BY <1>2, <3>2, <3>5, <3>7, <3>8, <3>9
  <2>2. CASE ~Routed("pong", KEY_EXPR_PONG)
    <3>1. wire' = wire /\ dropped' = dropped \cup {echo}
      BY <2>2 DEF Publish, Put
    <3>2. UNCHANGED netVars /\ parallel' = parallel
      BY <3>1 DEF netVars
    <3>3. /\ NetTypeOK' /\ Inbound("ping", KEY_EXPR_PING)' /\ Inbound("pong", PongKey)'
      BY <3>2, SessionStill
    <3> QED
      BY <1>2, <3>1, <3>3
  <2> QED
    BY <2>1, <2>2
<1>5. Outstanding' = Counts(wire'["ping"])
  BY <1>2, <1>4 DEF Outstanding, OnTheWire
<1>6. /\ Outstanding' \subseteq Outstanding /\ dropped \subseteq dropped'
      /\ Outstanding' \cup dropped' = Outstanding \cup dropped
      /\ dropped' \cap Outstanding' \subseteq dropped \cap Outstanding
  BY <1>3, <1>4, <1>5
<1>7. Before(Held(hand'), Counts(wire'["ping"]) \cup Held(echo') \cup Counts(wire'["pong"]))
  BY <1>2 DEF Before
<1>8. Before(Counts(wire'["ping"]), Held(echo') \cup Counts(wire'["pong"]))
  BY <1>2, <1>4 DEF Before
<1>9. Before(Held(echo'), Counts(wire'["pong"]))
  BY <1>2 DEF Before
<1>10. SessionDeclared' /\ pongPc' \in {"open", "loop"}
  BY DEF SessionInv, SessionDeclared, SessionTypeOK
<1> QED
  BY <1>1, <1>4, <1>6, <1>7, <1>8, <1>9, <1>10, SessionMoves

LEMMA SessionRoutingInv == SessionInv /\ SessionRouting => SessionInv'
<1> SUFFICES ASSUME SessionInv, SessionRouting PROVE SessionInv'
  OBVIOUS
<1>1. Routing /\ hand' = hand /\ echo' = echo /\ NetTypeOK
  BY SessionFacts DEF SessionRouting
<1>2. UNCHANGED <<loopVars, pongPc, panic>>
  BY <1>1 DEF Routing, SessionOpens, Learning, SessionEnds
<1>3. NetTypeOK'
  BY <1>1, TypedRouting
<1>4. /\ Inbound("ping", KEY_EXPR_PING)' /\ declared' = declared
      /\ SessionOpens \/ Learning => Counts(wire'["ping"]) = Counts(wire["ping"])
      /\ SessionEnds => Counts(wire'["ping"]) = {}
  BY <1>1, SessionFacts, NodeFacts, RoutingInbound
<1>5. PICK k \in Keys : k = PongKey /\ k = PongKey' /\ Inbound("pong", k)
  BY <1>2, SessionFacts DEF PongKey, loopVars
<1>6. /\ Inbound("pong", k)'
      /\ SessionOpens \/ Learning => Counts(wire'["pong"]) = Counts(wire["pong"])
      /\ SessionEnds => Counts(wire'["pong"]) = {}
  BY <1>1, <1>5, NodeFacts, RoutingInbound
<1>7. Inbound("pong", PongKey)'
  BY <1>5, <1>6 DEF Inbound
<1>8. SessionDeclared' /\ pongPc' \in {"open", "loop"}
  BY <1>2, <1>4 DEF SessionInv, SessionDeclared, SessionTypeOK, loopVars
<1>9. hand' \in Nat \cup {NoPing} /\ echo' \in Nat \cup {NoPing}
  BY <1>1, SessionFacts
<1>10. /\ Before(Held(hand), Counts(wire["ping"]) \cup Held(echo) \cup Counts(wire["pong"]))
       /\ Before(Counts(wire["ping"]), Held(echo) \cup Counts(wire["pong"]))
       /\ Before(Held(echo), Counts(wire["pong"]))
  BY DEF SessionInv, SessionOneAtATime
<1>11. CASE SessionOpens \/ Learning
  <2>1. dropped' = dropped
    BY <1>11 DEF SessionOpens, Learning
  <2>2. Outstanding' = Outstanding
    BY <1>1, <1>4, <1>6, <1>11 DEF Outstanding, OnTheWire
  <2>3. /\ Before(Held(hand'), Counts(wire'["ping"]) \cup Held(echo') \cup Counts(wire'["pong"]))
        /\ Before(Counts(wire'["ping"]), Held(echo') \cup Counts(wire'["pong"]))
        /\ Before(Held(echo'), Counts(wire'["pong"]))
    BY <1>1, <1>4, <1>6, <1>10, <1>11
  <2> QED
    BY <1>2, <1>3, <1>4, <1>7, <1>8, <1>9, <2>1, <2>2, <2>3, SessionMoves DEF loopVars
<1>12. CASE SessionEnds
  <2>1. dropped' = dropped \cup OnTheWire
    BY <1>12 DEF SessionEnds
  <2>2. /\ Counts(wire'["ping"]) = {} /\ Counts(wire'["pong"]) = {}
        /\ Outstanding' = Held(echo) \cup Held(hand)
    BY <1>1, <1>4, <1>6, <1>12 DEF Outstanding, OnTheWire
  <2>3. Outstanding' # {} => OnTheWire = {}
    BY <2>2, OnePlace
  <2>4. /\ Outstanding' \subseteq Outstanding /\ dropped \subseteq dropped'
        /\ Outstanding' \cup dropped' = Outstanding \cup dropped
        /\ dropped' \cap Outstanding' \subseteq dropped \cap Outstanding
    BY <2>1, <2>2, <2>3 DEF Outstanding
  <2>5. /\ Before(Held(hand'), Counts(wire'["ping"]) \cup Held(echo') \cup Counts(wire'["pong"]))
        /\ Before(Counts(wire'["ping"]), Held(echo') \cup Counts(wire'["pong"]))
        /\ Before(Held(echo'), Counts(wire'["pong"]))
    BY <1>1, <1>10, <2>2 DEF Before
  <2> QED
    BY <1>2, <1>3, <1>4, <1>7, <1>8, <1>9, <2>4, <2>5, SessionMoves DEF loopVars
<1> QED
  BY <1>1, <1>11, <1>12 DEF Routing

LEMMA SessionNextInv ==
  SessionInv /\ PrintedIsTimed /\ [SessionNext]_sessionVars => SessionInv' /\ PrintedIsTimed'
<1> SUFFICES ASSUME SessionInv, PrintedIsTimed, [SessionNext]_sessionVars
             PROVE  SessionInv' /\ PrintedIsTimed'
  OBVIOUS
<1>1. reported' = reported => PrintedIsTimed'
  BY DEF PrintedIsTimed
<1>2. CASE UNCHANGED sessionVars
  <2>1. UNCHANGED netVars /\ UNCHANGED <<loopVars, hand, pongPc, echo, panic, dropped>>
    BY <1>2 DEF sessionVars
  <2>2. /\ NetTypeOK' /\ OnTheWire' = OnTheWire
        /\ Counts(wire'["ping"]) = Counts(wire["ping"])
        /\ Counts(wire'["pong"]) = Counts(wire["pong"])
        /\ Inbound("ping", KEY_EXPR_PING)' /\ Inbound("pong", PongKey)'
    BY <2>1, SessionStill DEF loopVars
  <2>3. /\ Before(Held(hand'), Counts(wire'["ping"]) \cup Held(echo') \cup Counts(wire'["pong"]))
        /\ Before(Counts(wire'["ping"]), Held(echo') \cup Counts(wire'["pong"]))
        /\ Before(Held(echo'), Counts(wire'["pong"]))
    BY <2>1, <2>2 DEF SessionInv, SessionOneAtATime
  <2>4. SessionDeclared' /\ pongPc' \in {"open", "loop"}
    BY <2>1 DEF SessionInv, SessionDeclared, SessionTypeOK, loopVars, netVars
  <2>5. Outstanding' = Outstanding /\ hand' \in Nat \cup {NoPing} /\ echo' \in Nat \cup {NoPing}
    BY <2>1, <2>2, SessionFacts DEF Outstanding
  <2>6. SessionInv'
    BY <2>1, <2>2, <2>3, <2>4, <2>5, SessionMoves DEF loopVars
  <2> QED
    BY <1>1, <2>1, <2>6 DEF loopVars
<1>3. CASE SessionFinished
  BY <1>2, <1>3 DEF SessionFinished
<1>4. CASE Subscribe
  BY <1>1, <1>4, SubscribeInv DEF Subscribe
<1>5. CASE PutPing
  BY <1>1, <1>5, PutPingInv DEF PutPing
<1>6. CASE TakePong
  BY <1>1, <1>6, TakePongInv DEF TakePong
<1>7. CASE ReportPong
  BY <1>7, ReportPongInv
<1>8. CASE SessionSleep
  BY <1>1, <1>8, SessionSleepInv DEF SessionSleep, SleepThen
<1>9. CASE PongSubscribe
  BY <1>1, <1>9, PongSubscribeInv DEF PongSubscribe, loopVars
<1>10. CASE TakePing
  BY <1>1, <1>10, TakePingInv DEF TakePing, loopVars
<1>11. CASE PutPong
  BY <1>1, <1>11, PutPongInv DEF PutPong, loopVars
<1>12. CASE SessionRouting
  BY <1>1, <1>12, SessionRoutingInv
     DEF SessionRouting, Routing, SessionOpens, Learning, SessionEnds, loopVars
<1> QED
  BY <1>2, <1>3, <1>4, <1>5, <1>6, <1>7, <1>8, <1>9, <1>10, <1>11, <1>12 DEF SessionNext
-----------------------------------------------------------------------------
\* For every capacity and every number of pings, and however often the session opens
\* and ends: without --parallel one sample at most is outstanding, that of the last
\* put, and the main loop waits for it or for one that was lost.
THEOREM SessionInvHolds == SessionSpec => []SessionInv
<1> QED
  BY SessionInitInv, SessionNextInv, PTL DEF SessionSpec

\* z_ping matches no pong with its ping, and yet prints the count of the put that it
\* measures the time from.
THEOREM SessionPrintedIsTimed == SessionSpec => []PrintedIsTimed
<1> QED
  BY SessionInitInv, SessionNextInv, PTL DEF SessionSpec
=============================================================================
