---------------------------- MODULE SessionPing -----------------------------
(***************************************************************************)
(* latency/src/bin/z_ping.rs and z_pong.rs: the latency benchmark over     *)
(* zenoh sessions.  z_ping --parallel keeps its pings in a map and spawns  *)
(* a task that receives; without --parallel the main loop itself takes the *)
(* next sample after every put, whatever the count in it.                  *)
(*                                                                         *)
(* A sample that has arrived waits in the stream of the subscriber, which  *)
(* is here part of the way to the node.                                    *)
(***************************************************************************)
EXTENDS PubSubPing

\* pc is that of z_ping's main loop: subscribe, put, next or sleep.  pongPc is
\* z_pong's main: open or loop.  A line is printed as the ping timed and the count.
VARIABLES
  hand,  \* the sample that sub.next() of z_ping has returned, if any
  echo   \* the sample in the hand of z_pong's loop, if any

sessionVars == <<netVars, loopVars, hand, pongPc, echo, panic, dropped>>

\* The keys of z_ping: constants in parallel(), literals in single().
PingKey == IF parallel THEN "/test/z_ping" ELSE "/test/ping"
PongKey == IF parallel THEN "/test/z_pong" ELSE "/test/pong"

SessionTypeOK ==
  /\ NetTypeOK
  /\ parallel \in BOOLEAN
  /\ pc \in {"subscribe", "put", "next", "sleep"}
  /\ count \in 0..MaxPings
  /\ pending \in SUBSET (0..MaxPings)
  /\ {hand, echo} \subseteq Nat \cup {NoPing}
  /\ reported \in Seq([timed : Nat, printed : Nat])
  /\ pongPc \in {"open", "loop"}
  /\ panic \in {"none", "remove"}
  /\ dropped \in SUBSET Nat

SessionInit ==
  /\ LoopInit
  /\ pc = "subscribe"
  /\ hand = NoPing
  /\ pongPc = "open"
  /\ echo = NoPing

\* What n puts under k goes to the other node, or is dropped.
Put(n, k, c) ==
  /\ Publishable(n, k)
  /\ dropped' = IF Routed(n, k) THEN dropped ELSE dropped \cup {c}
-----------------------------------------------------------------------------
\* session.subscribe(key).reliable().await
Subscribe ==
  /\ Running
  /\ pc = "subscribe"
  /\ Declare("ping", PongKey)
  /\ pc' = "put"
  /\ UNCHANGED <<parallel, count, pending, hand, reported, pongPc, echo, panic, dropped>>

\* pending...insert(count, Instant::now()) of parallel(), and the put.
PutPing ==
  /\ Running
  /\ pc = "put"
  /\ count < MaxPings
  /\ Put("ping", PingKey, count)
  /\ wire' = Publish(wire, "ping", PingKey, count)
  /\ pending' = IF parallel THEN pending \cup {count} ELSE pending
  /\ pc' = IF parallel THEN "sleep" ELSE "next"
  /\ UNCHANGED <<parallel, connected, declared, learnt, count, hand, reported,
                  pongPc, echo, panic>>

\* sub.next().await, in the task of parallel() or in the loop of single()
TakePong ==
  /\ Running
  /\ hand = NoPing
  /\ parallel \/ pc = "next"
  /\ Arrives("ping")
  /\ hand' = Arrived("ping")
  /\ wire' = [wire EXCEPT !["ping"] = Tail(@)]
  /\ UNCHANGED <<parallel, connected, declared, learnt, pc, count, pending, reported,
                  pongPc, echo, panic, dropped>>

\* The pong is timed against the entry of its count, remove(&count).unwrap(),
\* or against the last put, and printed.
ReportPong ==
  /\ Running
  /\ hand # NoPing
  /\ IF parallel /\ hand \notin pending
       THEN panic' = "remove" /\ UNCHANGED <<pc, pending, reported, hand>>
       ELSE /\ pending' = pending \ {hand}
            /\ reported' = Append(reported, [timed |-> IF parallel THEN hand ELSE count,
                                             printed |-> hand])
            /\ hand' = NoPing
            /\ pc' = IF parallel THEN pc ELSE "sleep"
            /\ UNCHANGED panic
  /\ UNCHANGED <<parallel, netVars, count, pongPc, echo, dropped>>

SessionSleep == SleepThen("put") /\ UNCHANGED <<hand, echo>>
-----------------------------------------------------------------------------
\* z_pong: session.subscribe(key).reliable().await
PongSubscribeOther ==  \* a mutant: the key of the parallel pinger
  /\ pongPc = "open"
  /\ Declare("pong", "/test/z_ping")
  /\ pongPc' = "loop"
  /\ UNCHANGED <<loopVars, hand, echo, panic, dropped>>

PongSubscribe ==
  /\ pongPc = "open"
  /\ Declare("pong", KEY_EXPR_PING)
  /\ pongPc' = "loop"
  /\ UNCHANGED <<loopVars, hand, echo, panic, dropped>>

\* sub.next().await of its loop
TakePing ==
  /\ pongPc = "loop"
  /\ echo = NoPing
  /\ Arrives("pong")
  /\ echo' = Arrived("pong")
  /\ wire' = [wire EXCEPT !["pong"] = Tail(@)]
  /\ UNCHANGED <<connected, declared, learnt, loopVars, hand, pongPc, panic, dropped>>

\* session.put(key, sample).congestion_control(CongestionControl::Block)
PutPongTwice ==  \* a mutant: the sample is sent back once per session
  /\ echo # NoPing
  /\ Put("pong", KEY_EXPR_PONG, echo)
  /\ wire' = Publish(Publish(wire, "pong", KEY_EXPR_PONG, echo), "pong", KEY_EXPR_PONG, echo)
  /\ echo' = NoPing
  /\ UNCHANGED <<connected, declared, learnt, loopVars, hand, pongPc, panic>>

PutPongNothing ==  \* a mutant: the put is built and never awaited
  /\ echo # NoPing
  /\ echo' = NoPing
  /\ UNCHANGED <<netVars, loopVars, hand, pongPc, panic, dropped>>

PutPong ==
  /\ echo # NoPing
  /\ Put("pong", KEY_EXPR_PONG, echo)
  /\ wire' = Publish(wire, "pong", KEY_EXPR_PONG, echo)
  /\ echo' = NoPing
  /\ UNCHANGED <<connected, declared, learnt, loopVars, hand, pongPc, panic>>

SessionRouting == Routing /\ UNCHANGED <<hand, echo>>

\* z_ping is dead, or the bound on pings is reached and all is drained.
SessionFinished ==
  /\ \/ ~Running
     \/ /\ pc = "put" /\ count = MaxPings /\ hand = NoPing /\ echo = NoPing
        /\ connected /\ wire = [n \in Nodes |-> <<>>] /\ pongPc = "loop"
  /\ UNCHANGED sessionVars

SessionNext ==
  \/ Subscribe \/ PutPing \/ TakePong \/ ReportPong \/ SessionSleep
  \/ PongSubscribe \/ TakePing \/ PutPong \/ SessionRouting \/ SessionFinished

SessionSpec == SessionInit /\ [][SessionNext]_sessionVars

\* Both programs run, and the routers deliver; a session need not open, nor end.
SessionFairness ==
  /\ WF_sessionVars(Subscribe) /\ WF_sessionVars(PutPing) /\ WF_sessionVars(TakePong)
  /\ WF_sessionVars(ReportPong) /\ WF_sessionVars(SessionSleep)
  /\ WF_sessionVars(PongSubscribe) /\ WF_sessionVars(TakePing) /\ WF_sessionVars(PutPong)
  /\ WF_sessionVars(Learning /\ UNCHANGED <<hand, echo>>)

SessionFairSpec == SessionSpec /\ SessionFairness
-----------------------------------------------------------------------------
\* Without --parallel nothing matches a pong with its ping: the count printed
\* is that of the sample, the time that of the last put, and yet they belong
\* together.
PrintedIsTimed == \A i \in DOMAIN reported : reported[i].printed = reported[i].timed

\* What is between a put and the line it gives.
Outstanding == OnTheWire \cup Held(echo) \cup Held(hand)

\* Without --parallel the main loop waits for a sample that is under way, or for
\* one that was lost; and a lost one is the last, whatever opens again later.
WaitIsAnswered ==
  ~parallel =>
    /\ pc = "next" => count \in Outstanding \cup dropped
    /\ \A c \in dropped : c = count /\ pc = "next"

\* What the two programs have declared by now.
SessionDeclared ==
  /\ declared["ping"] = <<>> <=> pc = "subscribe"
  /\ declared["pong"] = <<>> <=> pongPc = "open"

\* There is one at most, in the turn of its put, and without --parallel only.
SessionOneAtATime ==
  /\ Inbound("ping", KEY_EXPR_PING) /\ Inbound("pong", PongKey)
  /\ Outstanding \subseteq {count}
  /\ Outstanding # {} => ~parallel /\ pc = "next"
  /\ Before(Held(hand), Counts(wire["ping"]) \cup Held(echo) \cup Counts(wire["pong"]))
  /\ Before(Counts(wire["ping"]), Held(echo) \cup Counts(wire["pong"]))
  /\ Before(Held(echo), Counts(wire["pong"]))
  /\ ~parallel => dropped \cap Outstanding = {}
  /\ pc \in {"next", "sleep"} => count < MaxPings

SessionInv == SessionTypeOK /\ SessionDeclared /\ SessionOneAtATime /\ WaitIsAnswered

\* Both routers have heard of the subscription on the other node.
Ready == \A n \in Nodes : learnt[n] # {}

Measured(c) == \E i \in DOMAIN reported : reported[i].timed = c

\* A ping that is put when both subscriptions are known is measured, unless the
\* session ends.
ReadyIsMeasured ==
  \A c \in 0..(MaxPings - 1) :
    (pc = "put" /\ count = c /\ Ready) ~> (Measured(c) \/ ~connected)

\* And it is, without --parallel.
SingleIsMeasured ==
  \A c \in 0..(MaxPings - 1) :
    (~parallel /\ pc = "put" /\ count = c /\ Ready) ~> (Measured(c) \/ ~connected)
=============================================================================
