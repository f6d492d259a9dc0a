------------------------------ MODULE MCRelay -------------------------------
EXTENDS Relay, TLC

CONSTANTS A, B, C, D, E, F  \* the nodes

Nobody == [n \in Nodes |-> "absent"]
Nowhere == [n \in Nodes |-> <<>>]

Upto(n) == [p \in Nodes |-> n]
AtOnce == [n \in Nodes |-> {}]

\* Two publishers, a subscriber and one router, whose lock prefers readers.
Star ==
  [kind |-> A :> "publisher" @@ B :> "publisher" @@ C :> "subscriber"
            @@ D :> "router" @@ Nobody,
   connect |-> A :> <<D>> @@ B :> <<D>> @@ C :> <<D>> @@ Nowhere,
   after |-> AtOnce, leavers |-> {}, count |-> Upto(2), lock |-> "readers"]

\* Two routers, one of which opens the other and then a subscriber that listens;
\* the other may be stopped.
Chain ==
  [kind |-> A :> "publisher" @@ C :> "subscriber" @@ D :> "router" @@ E :> "router"
            @@ Nobody,
   connect |-> A :> <<D>> @@ E :> <<D, C>> @@ Nowhere,
   after |-> AtOnce, leavers |-> {D}, count |-> Upto(MaxMsgs), lock |-> "writers"]

\* A router with a sink on TCP and then a subscriber; another client of the sink, a
\* router that has nothing to send, may be stopped.
Drain ==
  [kind |-> A :> "publisher" @@ B :> "router" @@ C :> "tcp sink"
            @@ D :> "router" @@ E :> "subscriber" @@ Nobody,
   connect |-> A :> <<D>> @@ B :> <<C>> @@ D :> <<C>> @@ E :> <<D>> @@ Nowhere,
   after |-> E :> {D} @@ AtOnce, leavers |-> {B}, count |-> Upto(2), lock |-> "writers"]

\* Two clients of a sink on UDP, the first of which may be stopped.
Datagrams ==
  [kind |-> A :> "publisher" @@ B :> "publisher" @@ C :> "udp sink" @@ Nobody,
   connect |-> A :> <<C>> @@ B :> <<C>> @@ Nowhere,
   after |-> AtOnce, leavers |-> {A}, count |-> Upto(MaxMsgs), lock |-> "writers"]

\* Two routers, each of which sends the other what a publisher publishes, while one
\* more transport is opened to each, by a publisher that has nothing to send yet.
BothWays ==
  [kind |-> A :> "publisher" @@ B :> "publisher" @@ C :> "publisher" @@ F :> "publisher"
            @@ D :> "router" @@ E :> "router",
   connect |-> A :> <<D>> @@ B :> <<E>> @@ C :> <<D>> @@ D :> <<E>> @@ F :> <<E>> @@ Nowhere,
   after |-> A :> {D} @@ B :> {A, D} @@ C :> {A, B} @@ F :> {A, B} @@ AtOnce,
   leavers |-> {}, count |-> A :> 2 @@ B :> 2 @@ Upto(0), lock |-> "writers"]

MCSetups == {Star, Chain, Drain, Datagrams, BothWays}
=============================================================================
