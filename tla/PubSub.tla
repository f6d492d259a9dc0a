------------------------------- MODULE PubSub -------------------------------
(***************************************************************************)
(* The zenoh routing that the programs r_ping and r_pong, z_ping and       *)
(* z_pong publish and subscribe through: code outside this repository,     *)
(* modelled by what they use of it.                                        *)
(*                                                                         *)
(* Each program is a node with a router of its own.  A subscription is     *)
(* declared locally and at once, and travels to the other node, in order   *)
(* with the data, once the two are connected.  Data is sent to the other   *)
(* node if its subscription is known here by then, and otherwise goes      *)
(* nowhere: publishing without a subscriber is not an error.  The session  *)
(* may end at any time, with all that is on its way, and open again.       *)
(***************************************************************************)
EXTENDS Naturals, Sequences

CONSTANTS Capacity,  \* messages on the way to a node that make a publisher block
          MaxPings,  \* bound on the pings of a behaviour
          NoPing     \* the value of a hand that holds no sample

ASSUME CapacityAssumption == Capacity \in Nat \ {0}
ASSUME MaxPingsAssumption == MaxPings \in Nat
ASSUME NoPingAssumption == NoPing \notin Nat

Nodes == {"ping", "pong"}
Other(n) == IF n = "ping" THEN "pong" ELSE "ping"

VARIABLES
  connected,  \* the two nodes have a session
  declared,   \* for each node, the keys it subscribes to
  learnt,     \* for each node, the keys it knows the other subscribes to
  wire        \* for each node, the messages on their way to it

netVars == <<connected, declared, learnt, wire>>

Sub(k)     == [kind |-> "sub", key |-> k, count |-> NoPing]
Data(k, c) == [kind |-> "data", key |-> k, count |-> c]

NetInit ==
  /\ connected = FALSE
  /\ declared = [n \in Nodes |-> <<>>]
  /\ learnt = [n \in Nodes |-> {}]
  /\ wire = [n \in Nodes |-> <<>>]

\* The session opens, and each side is sent what the other has declared.
Connect ==
  /\ ~connected
  /\ connected' = TRUE
  /\ wire' = [n \in Nodes |-> [i \in DOMAIN declared[Other(n)] |->
                                 Sub(declared[Other(n)][i])]]
  /\ UNCHANGED <<declared, learnt>>

\* The session ends, or the other program does: each side forgets what the other
\* has declared, and what is on its way is lost.
Disconnect ==
  /\ connected
  /\ connected' = FALSE
  /\ learnt' = [n \in Nodes |-> {}]
  /\ wire' = [n \in Nodes |-> <<>>]
  /\ UNCHANGED declared

\* decl_subscriber, or subscribe(...).reliable()
Declare(n, k) ==
  /\ declared' = [declared EXCEPT ![n] = Append(@, k)]
  /\ wire' = IF connected THEN [wire EXCEPT ![Other(n)] = Append(@, Sub(k))] ELSE wire
  /\ UNCHANGED <<connected, learnt>>

\* The router of n learns of a subscription of the other node.
Learn(n) ==
  /\ wire[n] # <<>>
  /\ Head(wire[n]).kind = "sub"
  /\ learnt' = [learnt EXCEPT ![n] = @ \cup {Head(wire[n]).key}]
  /\ wire' = [wire EXCEPT ![n] = Tail(@)]
  /\ UNCHANGED <<connected, declared>>

\* n has a sample to hand to its subscriber.
Arrives(n) == wire[n] # <<>> /\ Head(wire[n]).kind = "data"
Arrived(n) == Head(wire[n]).count

\* Publishing with CongestionControl::Block: Routed(n, k) says whether the
\* sample goes anywhere.
Routed(n, k) == k \in learnt[n]
Publishable(n, k) == Routed(n, k) => Len(wire[Other(n)]) < Capacity
Publish(w, n, k, c) ==
  IF Routed(n, k) THEN [w EXCEPT ![Other(n)] = Append(@, Data(k, c))] ELSE w

\* The counts of the samples on their way.
Counts(w) == {w[i].count : i \in {j \in DOMAIN w : w[j].kind = "data"}}
OnTheWire == Counts(wire["ping"]) \cup Counts(wire["pong"])
=============================================================================
