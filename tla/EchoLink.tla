------------------------------ MODULE EchoLink ------------------------------
(***************************************************************************)
(* The echo peer of the latency benchmarks, latency/src/bin/t_pong.rs, and *)
(* the zenoh unicast transport between it and its pinger.                  *)
(*                                                                         *)
(* The transport is code outside this repository.  What the programs use   *)
(* of it: messages sent with Reliability::Reliable and                     *)
(* CongestionControl::Block arrive once and in order, handle_message of a  *)
(* TransportUnicast blocks while the transmission queue is full, one       *)
(* receiving thread calls TransportPeerEventHandler.handle_message for one *)
(* message at a time, and after the transport is closed handle_message     *)
(* returns an error.  Nothing reopens a closed transport.                  *)
(*                                                                         *)
(* A message is the count in the first eight bytes of its payload.         *)
(***************************************************************************)
EXTENDS Integers, Sequences

CONSTANTS Capacity,     \* messages the transport holds in one direction
          MaxPings,     \* bound on the pings of a behaviour
          LinkMayFail,  \* may the transport be closed under the programs?
          NoPing        \* the value of a hand that holds no message

ASSUME CapacityAssumption == Capacity \in Nat \ {0}
ASSUME MaxPingsAssumption == MaxPings \in Nat
ASSUME LinkMayFailAssumption == LinkMayFail \in BOOLEAN
ASSUME NoPingAssumption == NoPing \notin Int

VARIABLES
  toPong,   \* messages travelling from the pinger to t_pong
  toPing,   \* messages travelling back
  echo,     \* the message t_pong's handler has in hand
  up        \* the transport is open

linkVars == <<toPong, toPing, echo, up>>

\* A hand: the one message a callback is handling, or none.
Hand == Nat \cup {NoPing}

LinkTypeOK ==
  /\ toPong \in Seq(Nat)
  /\ toPing \in Seq(Nat)
  /\ echo \in Hand
  /\ up \in BOOLEAN

LinkInit ==
  /\ toPong = <<>>
  /\ toPing = <<>>
  /\ echo = NoPing
  /\ up = TRUE

-----------------------------------------------------------------------------
\* session.handle_message(message) of the pinger: blocks while the queue is
\* full; on an open transport the message is enqueued.
PingSendDrop(c) ==  \* a mutant: CongestionControl::Drop
  /\ up
  /\ toPong' = IF Len(toPong) < Capacity THEN Append(toPong, c) ELSE toPong
  /\ UNCHANGED <<toPing, echo, up>>

PingSendUnbounded(c) ==  \* a mutant: the queue never exerts backpressure
  /\ up
  /\ toPong' = Append(toPong, c)
  /\ UNCHANGED <<toPing, echo, up>>

PingSend(c) ==
  /\ up
  /\ Len(toPong) < Capacity
  /\ toPong' = Append(toPong, c)
  /\ UNCHANGED <<toPing, echo, up>>

\* The receiving thread of t_pong hands the next message to MyMH.
PongReceive ==
  /\ echo = NoPing
  /\ toPong # <<>>
  /\ echo' = Head(toPong)
  /\ toPong' = Tail(toPong)
  /\ UNCHANGED <<toPing, up>>

\* MyMH.handle_message sends the message back on its own transport and so
\* blocks the receiving thread while that direction is full.  The error of a
\* closed transport is returned, not unwrapped: the message is dropped.
PongReply ==
  /\ echo # NoPing
  /\ \/ /\ up
        /\ Len(toPing) < Capacity
        /\ toPing' = Append(toPing, echo)
     \/ ~up /\ UNCHANGED toPing
  /\ echo' = NoPing
  /\ UNCHANGED <<toPong, up>>

\* The transport closes: some suffix of what travels in each direction is lost.
LinkClose ==
  /\ LinkMayFail
  /\ up
  /\ up' = FALSE
  /\ \E i \in 0..Len(toPong) : toPong' = SubSeq(toPong, 1, i)
  /\ \E i \in 0..Len(toPing) : toPing' = SubSeq(toPing, 1, i)
  /\ UNCHANGED echo

LinkEmpty == toPong = <<>> /\ toPing = <<>> /\ echo = NoPing

\* The messages held anywhere between the two programs.
OnTheLink ==
  {toPong[i] : i \in 1..Len(toPong)} \cup {toPing[i] : i \in 1..Len(toPing)}
    \cup ({echo} \ {NoPing})

\* The messages of a queue are consecutive counts, the oldest of them being a.
CountsFrom(s, a) == \A i \in 1..Len(s) : s[i] = a + i - 1

\* The receiving thread of t_pong runs while it has something to do.
PongFairness == WF_linkVars(PongReceive) /\ WF_linkVars(PongReply)
=============================================================================
