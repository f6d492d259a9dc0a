----------------------------- MODULE PubSubPing -----------------------------
(***************************************************************************)
(* What the latency benchmarks over zenoh's routing have in common, r_ping *)
(* with r_pong and z_ping with z_pong: a main loop that publishes a count, *)
(* sleeps and goes on with the next one, and an echo under two keys.       *)
(***************************************************************************)
EXTENDS PubSub

VARIABLES
  parallel,  \* the --parallel option of the pinger
  pc,        \* its main loop
  count,     \* its count
  pending,   \* the keys of its map
  reported,  \* what it has printed, in order
  pongPc,    \* the main of the echo
  panic,     \* the unwrap() that killed one of the processes, or "none"
  dropped    \* history: the counts that went nowhere, or were lost with a session

loopVars == <<parallel, pc, count, pending, reported>>

\* The keys of r_ping, r_pong and z_pong.
KEY_EXPR_PING == "/test/ping"
KEY_EXPR_PONG == "/test/pong"

\* And those of z_ping --parallel.
Keys == {KEY_EXPR_PING, KEY_EXPR_PONG, "/test/z_ping", "/test/z_pong"}

LoopInit ==
  /\ NetInit
  /\ parallel \in BOOLEAN
  /\ count = 0
  /\ pending = {}
  /\ reported = <<>>
  /\ panic = "none"
  /\ dropped = {}

Running == panic = "none"

\* The main loop sleeps, and counts on.
SleepThen(next) ==
  /\ Running
  /\ pc = "sleep"
  /\ count' = count + 1
  /\ pc' = next
  /\ UNCHANGED <<parallel, netVars, pending, reported, pongPc, panic, dropped>>

\* The routers of the two nodes.  A session may open, or not, and end.
SessionOpens == Connect /\ UNCHANGED <<loopVars, pongPc, panic, dropped>>

Learning == (\E n \in Nodes : Learn(n)) /\ UNCHANGED <<loopVars, pongPc, panic, dropped>>

SessionEnds ==
  /\ Disconnect
  /\ dropped' = dropped \cup OnTheWire
  /\ UNCHANGED <<loopVars, pongPc, panic>>

Routing == SessionOpens \/ Learning \/ SessionEnds
-----------------------------------------------------------------------------
Messages == [kind : {"sub", "data"}, key : Keys, count : Nat \cup {NoPing}]

NetTypeOK ==
  /\ connected \in BOOLEAN
  /\ declared \in [Nodes -> Seq(Keys)]
  /\ learnt \in [Nodes -> SUBSET Keys]
  /\ wire \in [Nodes -> Seq(Messages)]

\* A message that is held, or none.
Held(h) == {h} \ {NoPing}

Before(S, T) == \A s \in S, t \in T : s < t

\* The samples on w have numbers, ascending.
Ascending(w) ==
  /\ Counts(w) \subseteq Nat
  /\ \A i, j \in DOMAIN w :
       i < j /\ w[i].kind = "data" /\ w[j].kind = "data" => w[i].count < w[j].count

\* The declarations on w.
Subs(w) == {w[i].key : i \in {j \in DOMAIN w : w[j].kind = "sub"}}

\* What n hears of the other node is that it subscribes to k, after it does, and
\* nothing is left of that when the session has ended.
Inbound(n, k) ==
  /\ declared[Other(n)] \in {<<>>, <<k>>}
  /\ learnt[n] \cup Subs(wire[n]) \subseteq {k}
  /\ learnt[n] \cup Subs(wire[n]) # {} => declared[Other(n)] # <<>>
  /\ ~connected => learnt[n] = {} /\ wire[n] = <<>>
  /\ Ascending(wire[n])
=============================================================================
