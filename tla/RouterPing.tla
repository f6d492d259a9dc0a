----------------------------- MODULE RouterPing -----------------------------
(***************************************************************************)
(* latency/src/bin/r_ping.rs and r_pong.rs: the latency benchmark over     *)
(* zenoh's routing.  r_ping declares its subscription to the pongs and     *)
(* sends at once, without waiting to hear of the subscription of r_pong.   *)
(* The threads and the map are those of t_ping; the barrier of the         *)
(* sequential mode, modelled step by step in PingSequential, is here the   *)
(* one step in which the second of the two threads reaches it.             *)
(***************************************************************************)
EXTENDS PubSubPing

\* pc is that of r_ping's main loop: declare, insert, send, wait or sleep.  pongPc
\* is r_pong's main: new, tx (set_tx is done) or subscribed.
VARIABLE rx   \* the count whose entry send_data of r_ping has removed, if any

routerVars == <<netVars, loopVars, rx, pongPc, panic, dropped>>

RouterTypeOK ==
  /\ NetTypeOK
  /\ parallel \in BOOLEAN
  /\ pc \in {"declare", "insert", "send", "wait", "sleep"}
  /\ count \in 0..MaxPings
  /\ pending \in SUBSET Nat
  /\ rx \in Nat \cup {NoPing}
  /\ reported \in Seq(Nat)
  /\ pongPc \in {"new", "tx", "subscribed"}
  /\ panic \in {"none", "remove", "tx"}
  /\ dropped \in SUBSET Nat

RouterInit ==
  /\ LoopInit
  /\ pc = "declare"
  /\ rx = NoPing
  /\ pongPc = "new"
-----------------------------------------------------------------------------
\* r_ping: tx_primitives.decl_subscriber(&rid, &sub_info, None)
DeclarePong ==
  /\ Running
  /\ pc = "declare"
  /\ Declare("ping", KEY_EXPR_PONG)
  /\ pc' = "insert"
  /\ UNCHANGED <<parallel, count, pending, rx, reported, pongPc, panic, dropped>>

Insert ==
  /\ Running
  /\ pc = "insert"
  /\ count < MaxPings
  /\ pending' = pending \cup {count}
  /\ pc' = "send"
  /\ UNCHANGED <<parallel, netVars, count, rx, reported, pongPc, panic, dropped>>

\* tx_primitives.send_data(...), and the barrier of the sequential mode next
Send ==
  /\ Running
  /\ pc = "send"
  /\ Publishable("ping", KEY_EXPR_PING)
  /\ wire' = Publish(wire, "ping", KEY_EXPR_PING, count)
  /\ dropped' = IF Routed("ping", KEY_EXPR_PING) THEN dropped ELSE dropped \cup {count}
  /\ pc' = IF parallel THEN "sleep" ELSE "wait"
  /\ UNCHANGED <<parallel, connected, declared, learnt, count, pending, rx, reported,
                  pongPc, panic>>

RouterSleep == SleepThen("insert") /\ UNCHANGED rx

\* send_data of LatencyPrimitivesParallel or LatencyPrimitivesSequential:
\* pending.lock().unwrap().remove(&count).unwrap()
RxKeepEntry ==  \* a mutant: get() instead of remove()
  /\ Running
  /\ rx = NoPing
  /\ Arrives("ping")
  /\ wire' = [wire EXCEPT !["ping"] = Tail(@)]
  /\ rx' = Arrived("ping")
  /\ UNCHANGED <<parallel, connected, declared, learnt, pc, count, pending, reported, pongPc,
                  panic, dropped>>

RxRemove ==
  /\ Running
  /\ rx = NoPing
  /\ Arrives("ping")
  /\ wire' = [wire EXCEPT !["ping"] = Tail(@)]
  /\ IF Arrived("ping") \in pending
       THEN rx' = Arrived("ping") /\ UNCHANGED panic
       ELSE panic' = "remove" /\ UNCHANGED rx
  /\ pending' = pending \ {Arrived("ping")}
  /\ UNCHANGED <<parallel, connected, declared, learnt, pc, count, reported, pongPc, dropped>>

\* println! of the parallel mode
RxPrint ==
  /\ Running
  /\ parallel
  /\ rx # NoPing
  /\ reported' = Append(reported, rx)
  /\ rx' = NoPing
  /\ UNCHANGED <<parallel, netVars, pc, count, pending, pongPc, panic, dropped>>

MeetAny ==  \* a mutant: one barrier for all the pings
  /\ Running
  /\ ~parallel
  /\ pc = "wait"
  /\ rx # NoPing
  /\ reported' = Append(reported, count)
  /\ pc' = "sleep"
  /\ UNCHANGED <<parallel, netVars, count, pending, rx, pongPc, panic, dropped>>

\* The second thread of the sequential mode reaches the barrier of this ping:
\* the main loop goes on, and the handler returns in its own time.
Meet ==
  /\ Running
  /\ ~parallel
  /\ pc = "wait"
  /\ rx = count
  /\ reported' = Append(reported, count)
  /\ pc' = "sleep"
  /\ UNCHANGED <<parallel, netVars, count, pending, rx, pongPc, panic, dropped>>

RxMissesRelease ==  \* a mutant: a barrier that forgets that it was released
  /\ Running
  /\ ~parallel
  /\ rx = count /\ pc = "sleep"
  /\ rx' = NoPing
  /\ UNCHANGED <<parallel, netVars, pc, count, pending, reported, pongPc, panic, dropped>>

RxReturn ==
  /\ Running
  /\ ~parallel
  /\ rx # NoPing
  /\ rx < count \/ pc = "sleep"
  /\ rx' = NoPing
  /\ UNCHANGED <<parallel, netVars, pc, count, pending, reported, pongPc, panic, dropped>>
-----------------------------------------------------------------------------
\* r_pong's main: rx_primitives.set_tx(tx_primitives.clone())
SetTx ==
  /\ Running
  /\ pongPc = "new"
  /\ pongPc' = "tx"
  /\ UNCHANGED <<netVars, loopVars, rx, panic, dropped>>

\* tx_primitives.decl_subscriber(&rid, &sub_info, None)
DeclarePingEarly ==  \* a mutant: the subscription is declared before set_tx
  /\ Running
  /\ pongPc \in {"new", "tx"}
  /\ declared["pong"] = <<>>
  /\ Declare("pong", KEY_EXPR_PING)
  /\ UNCHANGED <<loopVars, rx, pongPc, panic, dropped>>

DeclarePing ==
  /\ Running
  /\ pongPc = "tx"
  /\ Declare("pong", KEY_EXPR_PING)
  /\ pongPc' = "subscribed"
  /\ UNCHANGED <<loopVars, rx, panic, dropped>>

\* r_pong's send_data: tx.lock().unwrap().as_ref().unwrap(), declare the
\* resource and send the payload back under it.
PongSendData ==
  /\ Running
  /\ Arrives("pong")
  /\ IF pongPc = "new"
       THEN panic' = "tx" /\ UNCHANGED <<wire, dropped>>
       ELSE /\ Publishable("pong", KEY_EXPR_PONG)
            /\ wire' = [Publish(wire, "pong", KEY_EXPR_PONG, Arrived("pong"))
                          EXCEPT !["pong"] = Tail(@)]
            /\ dropped' = IF Routed("pong", KEY_EXPR_PONG) THEN dropped
                            ELSE dropped \cup {Arrived("pong")}
            /\ UNCHANGED panic
  /\ UNCHANGED <<connected, declared, learnt, loopVars, rx, pongPc>>

RouterRouting == Routing /\ UNCHANGED rx

\* A process is dead, or the bound on pings is reached and all is drained.
RouterFinished ==
  /\ \/ ~Running
     \/ /\ pc = "insert" /\ count = MaxPings /\ rx = NoPing
        /\ connected /\ wire = [n \in Nodes |-> <<>>] /\ pongPc = "subscribed"
  /\ UNCHANGED routerVars

RouterNext ==
  \/ DeclarePong \/ Insert \/ Send \/ RouterSleep \/ RxRemove \/ RxPrint
  \/ Meet \/ RxReturn
  \/ SetTx \/ DeclarePing \/ PongSendData \/ RouterRouting \/ RouterFinished

RouterSpec == RouterInit /\ [][RouterNext]_routerVars

\* Both programs run, and the routers deliver; a session need not open, nor end.
RouterFairness ==
  /\ WF_routerVars(DeclarePong) /\ WF_routerVars(Insert) /\ WF_routerVars(Send)
  /\ WF_routerVars(RouterSleep)
  /\ WF_routerVars(RxRemove) /\ WF_routerVars(RxPrint) /\ WF_routerVars(Meet)
  /\ WF_routerVars(RxReturn)
  /\ WF_routerVars(SetTx) /\ WF_routerVars(DeclarePing) /\ WF_routerVars(PongSendData)
  /\ WF_routerVars(Learning /\ UNCHANGED rx)

RouterFairSpec == RouterSpec /\ RouterFairness
-----------------------------------------------------------------------------
\* No process dies: r_ping has the entry of every pong, and r_pong, which is
\* handed pings by another thread while main is still running, has its tx by
\* the time the first ping can reach it.
NoPanic == panic = "none"

\* In sequential mode a ping that is lost is the last one: the main loop stays at
\* its barrier, whatever opens again or is learnt later.
LostPingHangs == ~parallel => \A c \in dropped : c = count /\ pc = "wait"

\* The entries of the map are the pings on their way, the ping in the main
\* loop's hand, and for ever those that were lost: nothing else leaks, and
\* nothing removes a lost one.
LeakIsLoss ==
  pending = (OnTheWire \cup dropped \cup (IF pc = "send" THEN {count} ELSE {}))

\* The printed counts are ascending, and none of them was lost.
ReportsInOrder ==
  /\ \A i, j \in DOMAIN reported : i < j => reported[i] < reported[j]
  /\ \A i \in DOMAIN reported : reported[i] \notin dropped

\* The pings sent so far.
Sent == IF pc \in {"wait", "sleep"} THEN count + 1 ELSE count

\* A pong whose entry is removed is still to be printed.
Unprinted == IF parallel \/ (pc = "wait" /\ rx = count) THEN Held(rx) ELSE {}

Printed == {reported[i] : i \in DOMAIN reported}

\* What the two programs have declared by now.
RouterDeclared ==
  /\ declared["ping"] = <<>> <=> pc = "declare"
  /\ declared["pong"] = <<>> <=> pongPc # "subscribed"
  /\ Counts(wire["pong"]) # {} => pongPc = "subscribed"

\* The pings that got through are in the order of their counts around the loop:
\* printed, to be printed, on their way back and on their way out; those that were
\* lost are none of them.
LoopInOrder ==
  /\ Inbound("ping", KEY_EXPR_PING) /\ Inbound("pong", KEY_EXPR_PONG)
  /\ Before(Printed, Unprinted) /\ Before(Printed \cup Unprinted, OnTheWire)
  /\ Before(Counts(wire["ping"]), Counts(wire["pong"]))
  /\ Before(Printed \cup Unprinted \cup OnTheWire \cup dropped, {Sent})
  /\ dropped \cap (Unprinted \cup OnTheWire) = {}
  /\ pc = "declare" => count = 0
  /\ pc \in {"send", "wait", "sleep"} => count < MaxPings

\* In sequential mode the main loop waits for its ping before it sends the next,
\* and the handler may be late in leaving the barrier of the one before.
RouterOneAtATime ==
  ~parallel =>
    /\ OnTheWire \cup Unprinted \cup dropped \subseteq {count}
    /\ OnTheWire \cup Unprinted \cup dropped # {} => pc = "wait"
    /\ Held(rx) \subseteq {count - 1, count}
    /\ rx = count => pc \in {"wait", "sleep"} /\ count \notin OnTheWire \cup dropped
    /\ Held(rx) # {} /\ pc = "sleep" => rx = count

RouterInv ==
  /\ RouterTypeOK /\ RouterDeclared /\ LoopInOrder /\ RouterOneAtATime
  /\ LeakIsLoss /\ ReportsInOrder

\* Every ping is measured, or lost: because a declaration had not arrived, or with
\* the session.  In sequential mode a lost one holds the main loop for ever; there
\* is nothing else that keeps a ping from its line.
EveryPingMeasured ==
  \A c \in 0..(MaxPings - 1) :
    (pc = "send" /\ count = c) ~>
      (c \in dropped \/ \E i \in DOMAIN reported : reported[i] = c)
=============================================================================
