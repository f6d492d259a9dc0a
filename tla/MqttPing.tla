------------------------------ MODULE MqttPing ------------------------------
(***************************************************************************)
(* comparison/mqtt/latency/mqtt_ping.c and mqtt_pong.c: the latency        *)
(* benchmark over an MQTT broker.  The main thread of mqtt_ping publishes  *)
(* and then waits on a condition variable, without a predicate, that the   *)
(* callback thread signals for each pong.                                  *)
(*                                                                         *)
(* The broker and the Paho library are code outside this repository.  What *)
(* the programs use of them: a publication goes to the connected clients   *)
(* subscribed to its topic, in order, at QoS 1 and with a clean start; a   *)
(* client that has lost its connection stays disconnected, and then        *)
(* MQTTAsync_sendMessage fails.                                            *)
(***************************************************************************)
EXTENDS Integers, Sequences

CONSTANTS MaxPings,       \* bound on the pings of a behaviour
          MayDisconnect,  \* may a client lose its connection?
          Spuriously,     \* how often pthread_cond_wait may return by itself
          NoPing          \* the value of a hand that holds no message

ASSUME MaxPingsAssumption == MaxPings \in Nat
ASSUME MayDisconnectAssumption == MayDisconnect \in BOOLEAN
ASSUME SpuriouslyAssumption == Spuriously \in Nat
ASSUME NoPingAssumption == NoPing \notin Int

VARIABLES
  pc,          \* mqtt_ping's main: subscribe, send, lock, wait or print
  seq_num,     \* its local seq_num
  info,        \* ping_info.seq_num, written by the callback
  signalled,   \* a waiting main has been signalled
  reported,    \* what was printed, in order: the own seq_num and the one printed
  pongReady,   \* the broker knows the subscription of mqtt_pong
  echo,        \* the message in the hand of mqtt_pong's callback
  toPong,      \* pings between the two, in the broker or on the way
  toPing,      \* pongs on their way back
  upPing,      \* mqtt_ping is connected to the broker
  upPong,      \* mqtt_pong is
  lost,        \* history: the pings that the broker or a connection lost
  missed,      \* history: the pongs that signalled when nobody was waiting
  spurious     \* history: the spurious wakeups so far

mainVars == <<pc, seq_num, reported>>
brokerVars == <<pongReady, toPong, toPing, upPing, upPong, lost>>
vars == <<mainVars, info, signalled, echo, brokerVars, missed, spurious>>

TypeOK ==
  /\ pc \in {"subscribe", "send", "lock", "wait", "print"}
  /\ seq_num \in 0..MaxPings
  /\ info \in Nat
  /\ reported \in Seq([own : Nat, printed : Nat])
  /\ echo \in Nat \cup {NoPing}
  /\ {signalled, pongReady, upPing, upPong} \subseteq BOOLEAN
  /\ toPong \in Seq(Nat) /\ toPing \in Seq(Nat)
  /\ lost \in SUBSET Nat /\ missed \in SUBSET Nat
  /\ spurious \in 0..Spuriously

Init ==
  /\ pc = "subscribe"
  /\ seq_num = 0
  /\ info = 0
  /\ signalled = FALSE
  /\ reported = <<>>
  /\ pongReady = FALSE
  /\ echo = NoPing
  /\ toPong = <<>> /\ toPing = <<>>
  /\ upPing = TRUE /\ upPong = TRUE
  /\ lost = {} /\ missed = {}
  /\ spurious = 0

Elements(s) == {s[i] : i \in DOMAIN s}
InFlight == Elements(toPong) \cup Elements(toPing) \cup ({echo} \ {NoPing})
-----------------------------------------------------------------------------
\* Connected, subscribed, and the mutex, the condition and the number set up:
\* no pong can come before the first ping.
Subscribe ==
  /\ pc = "subscribe"
  /\ upPing
  /\ info' = 0
  /\ pc' = "send"
  /\ UNCHANGED <<seq_num, reported, signalled, echo, brokerVars, missed, spurious>>

\* MQTTAsync_sendMessage(...) == MQTTASYNC_SUCCESS; when it fails the loop
\* sleeps and tries the same number again.
Send ==
  /\ pc = "send"
  /\ seq_num < MaxPings
  /\ upPing
  /\ IF pongReady /\ upPong
       THEN toPong' = Append(toPong, seq_num) /\ UNCHANGED lost
       ELSE lost' = lost \cup {seq_num} /\ UNCHANGED toPong
  /\ pc' = "lock"
  /\ UNCHANGED <<seq_num, reported, info, signalled, echo, pongReady, toPing,
                  upPing, upPong, missed, spurious>>

\* pthread_mutex_lock, and pthread_cond_wait until it releases the mutex.
Wait ==
  /\ pc = "lock"
  /\ pc' = "wait"
  /\ UNCHANGED <<seq_num, reported, info, signalled, echo, brokerVars, missed, spurious>>

\* pthread_cond_wait returns after a signal, and the mutex is unlocked.
WakeAnyTime ==  \* a mutant: pthread_cond_timedwait, whose result is not looked at
  /\ pc = "wait"
  /\ signalled' = FALSE
  /\ pc' = "print"
  /\ UNCHANGED <<seq_num, reported, info, echo, brokerVars, missed, spurious>>

Wake ==
  /\ pc = "wait"
  /\ signalled
  /\ signalled' = FALSE
  /\ pc' = "print"
  /\ UNCHANGED <<seq_num, reported, info, echo, brokerVars, missed, spurious>>

\* It may also return by itself, and main goes on in the same way.
WakeSpuriously ==
  /\ pc = "wait"
  /\ spurious < Spuriously
  /\ spurious' = spurious + 1
  /\ signalled' = FALSE
  /\ pc' = "print"
  /\ UNCHANGED <<seq_num, reported, info, echo, brokerVars, missed>>

\* printf reads ping_info.seq_num, the mutex released; then seq_num += 1.
Report ==
  /\ pc = "print"
  /\ reported' = Append(reported, [own |-> seq_num, printed |-> info])
  /\ seq_num' = seq_num + 1
  /\ pc' = "send"
  /\ UNCHANGED <<info, signalled, echo, brokerVars, missed, spurious>>

\* msgarrvd of mqtt_ping: its critical section excludes only the main thread
\* between lock and pthread_cond_wait.
MsgarrvdNoSignal ==  \* a mutant: the number is stored and nobody signalled
  /\ toPing # <<>>
  /\ pc # "subscribe"
  /\ info' = Head(toPing)
  /\ toPing' = Tail(toPing)
  /\ UNCHANGED <<mainVars, signalled, missed, spurious, echo, pongReady, toPong, upPing,
                  upPong, lost>>

Msgarrvd ==
  /\ toPing # <<>>
  /\ pc # "subscribe"
  /\ info' = Head(toPing)
  /\ toPing' = Tail(toPing)
  /\ IF pc = "wait" THEN signalled' = TRUE /\ UNCHANGED missed
                    ELSE missed' = missed \cup {Head(toPing)} /\ UNCHANGED signalled
  /\ UNCHANGED <<mainVars, spurious, echo, pongReady, toPong, upPing, upPong, lost>>
-----------------------------------------------------------------------------
\* mqtt_pong's subscription reaches the broker.
PongSubscribe ==
  /\ ~pongReady
  /\ upPong
  /\ pongReady' = TRUE
  /\ UNCHANGED <<mainVars, info, signalled, echo, toPong, toPing, upPing, upPong,
                  lost, missed, spurious>>

\* msgarrvd of mqtt_pong is called,
PongMsgarrvd ==
  /\ echo = NoPing
  /\ toPong # <<>>
  /\ echo' = Head(toPong)
  /\ toPong' = Tail(toPong)
  /\ UNCHANGED <<mainVars, info, signalled, pongReady, toPing, upPing, upPong,
                  lost, missed, spurious>>

\* and returns once MQTTAsync_sendMessage has succeeded: without a connection
\* its loop never ends.
PongGivesUp ==  \* a mutant: one attempt at MQTTAsync_sendMessage, unchecked
  /\ echo # NoPing
  /\ toPing' = IF upPing /\ upPong THEN Append(toPing, echo) ELSE toPing
  /\ echo' = NoPing
  /\ UNCHANGED <<mainVars, info, signalled, pongReady, toPong, upPing, upPong,
                  lost, missed, spurious>>

PongSend ==
  /\ echo # NoPing
  /\ upPong
  /\ IF upPing THEN toPing' = Append(toPing, echo) /\ UNCHANGED lost
               ELSE lost' = lost \cup {echo} /\ UNCHANGED toPing
  /\ echo' = NoPing
  /\ UNCHANGED <<mainVars, info, signalled, pongReady, toPong, upPing, upPong, missed, spurious>>

\* A client loses its connection: what was on its way to it is lost, and some
\* of what it had published and the broker not yet received.
Keep(s, n) == SubSeq(s, 1, n)

PingDisconnects ==
  /\ MayDisconnect /\ upPing
  /\ upPing' = FALSE
  /\ \E n \in 0..Len(toPong) :
       /\ toPong' = Keep(toPong, n)
       /\ lost' = lost \cup Elements(toPing) \cup (Elements(toPong) \ Elements(Keep(toPong, n)))
  /\ toPing' = <<>>
  /\ UNCHANGED <<mainVars, info, signalled, echo, pongReady, upPong, missed, spurious>>

PongDisconnects ==
  /\ MayDisconnect /\ upPong
  /\ upPong' = FALSE
  /\ \E n \in 0..Len(toPing) :
       /\ toPing' = Keep(toPing, n)
       /\ lost' = lost \cup Elements(toPong) \cup (Elements(toPing) \ Elements(Keep(toPing, n)))
  /\ toPong' = <<>>
  /\ UNCHANGED <<mainVars, info, signalled, echo, pongReady, upPing, missed, spurious>>

\* The bound on pings is reached.
Finished == pc = "send" /\ seq_num = MaxPings /\ UNCHANGED vars

Next ==
  \/ Subscribe \/ Send \/ Wait \/ Wake \/ WakeSpuriously \/ Report \/ Msgarrvd
  \/ PongSubscribe \/ PongMsgarrvd \/ PongSend
  \/ PingDisconnects \/ PongDisconnects \/ Finished

Spec == Init /\ [][Next]_vars

\* The threads of both programs run and the broker delivers.
Fairness ==
  /\ WF_vars(Subscribe) /\ WF_vars(Send) /\ WF_vars(Wait) /\ WF_vars(Report)
  /\ WF_vars(Wake) /\ WF_vars(Msgarrvd) /\ WF_vars(PongSubscribe) /\ WF_vars(PongMsgarrvd)
  /\ WF_vars(PongSend)

FairSpec == Spec /\ Fairness
-----------------------------------------------------------------------------
\* printf reads ping_info.seq_num without the lock, and nothing matches a pong
\* with its ping: yet the number printed is that of the ping timed, but for
\* one of delay for each spurious wakeup so far, and it never goes back.
PrintedLags ==
  \A i \in DOMAIN reported :
    /\ reported[i].printed \in (reported[i].own - spurious)..reported[i].own
    /\ \A j \in DOMAIN reported : i <= j => reported[i].printed <= reported[j].printed

\* A waiting main has its pong on the way, has been signalled, has missed the
\* signal because the pong came before the wait, or its ping or pong was lost.
\* (A pong held by a disconnected mqtt_pong is on its way for ever.)
WaitIsExplained ==
  pc = "wait" => signalled \/ seq_num \in InFlight \cup missed \cup lost

\* The pings sent, and the pongs that ended a wait or are about to, at least: for
\* a spurious wakeup there may be none.
Sent == IF pc \in {"lock", "wait", "print"} THEN seq_num + 1 ELSE seq_num
Answered == IF pc = "print" \/ signalled THEN 1 ELSE 0
Received == (seq_num + Answered) - spurious

Ascending(s) == \A i, j \in DOMAIN s : i < j => s[i] < s[j]

\* The numbers ascend around the loop: on their way back, in mqtt_pong's hand, on
\* their way out; and all come after the pongs that have arrived.
LoopInOrder ==
  /\ Ascending(toPing) /\ Ascending(toPong)
  /\ \A x \in Elements(toPing) : \A y \in Elements(toPong) : x < y
  /\ echo # NoPing => (\A x \in Elements(toPing) : x < echo) /\ (\A y \in Elements(toPong) : echo < y)
  /\ \A x \in InFlight : Received <= x /\ info <= x /\ x < Sent
  /\ \A m \in missed : m < Sent /\ \A x \in InFlight : m < x

\* The number of the callback is one of a ping that was sent, and no older than
\* the number of pongs that have ended a wait; a wait that has missed its signal
\* gets no other.
SignalsInOrder ==
  /\ info <= seq_num /\ Received <= info + 1
  /\ \A i \in DOMAIN reported : reported[i].printed <= info
  /\ pc = "subscribe" => info = 0
  /\ signalled => pc = "wait" /\ seq_num \notin missed
  /\ pc = "lock" => seq_num \in InFlight \cup missed \cup lost
  /\ pc \in {"lock", "wait", "print"} => seq_num < MaxPings

MqttInv == TypeOK /\ LoopInOrder /\ SignalsInOrder /\ WaitIsExplained

\* Only a spurious wakeup repairs a missed signal: no later ping is sent, so no
\* later pong can signal.
MissedIsForever ==
  [][pc = "wait" /\ seq_num \in missed /\ spurious' = spurious
       => UNCHANGED <<mainVars, signalled>>]_vars

\* Unless its signal is missed, its messages are lost or mqtt_pong is cut off,
\* every ping is reported.
EveryPingReported ==
  \A c \in 0..(MaxPings - 1) :
    (pc = "wait" /\ seq_num = c) ~> (Len(reported) > c \/ c \in missed \cup lost \/ ~upPong)

\* The reply of a ping that was sent is waited for successfully.
WaitEnds == (pc = "wait" /\ seq_num \notin lost) ~> pc # "wait"
=============================================================================
