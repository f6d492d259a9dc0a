---------------------------- MODULE PingParallel ----------------------------
(***************************************************************************)
(* latency/src/bin/t_ping.rs with --parallel: the main loop of parallel()  *)
(* keeps sending while the receiving thread of the transport calls         *)
(* MyMHParallel.handle_message for every pong.  They share `pending`, the  *)
(* map from a count to the time it was sent, under a mutex that each takes *)
(* for one statement.                                                      *)
(***************************************************************************)
EXTENDS EchoLink, FiniteSets

VARIABLES
  pc,         \* where the main loop is: "insert", "send" or "sleep"
  count,      \* its count
  pending,    \* the keys of the map
  rx,         \* the count whose entry the handler removed, not printed yet
  reported,   \* the counts printed, in order
  panic       \* the unwrap() that killed the process, or "none"

vars == <<linkVars, pc, count, pending, rx, reported, panic>>

TypeOK ==
  /\ LinkTypeOK
  /\ pc \in {"insert", "send", "sleep"}
  /\ count \in 0..MaxPings
  /\ pending \in SUBSET Nat
  /\ rx \in Hand
  /\ reported \in Seq(Nat)
  /\ panic \in {"none", "send", "remove"}

Init ==
  /\ LinkInit
  /\ pc = "insert"
  /\ count = 0
  /\ pending = {}
  /\ rx = NoPing
  /\ reported = <<>>
  /\ panic = "none"

Running == panic = "none"
-----------------------------------------------------------------------------
\* pending.lock().unwrap().insert(count, Instant::now())
Insert ==
  /\ Running
  /\ pc = "insert"
  /\ count < MaxPings
  /\ pending' = pending \cup {count}
  /\ pc' = "send"
  /\ UNCHANGED <<linkVars, count, rx, reported, panic>>

\* session.handle_message(message).unwrap()
Send ==
  /\ Running
  /\ pc = "send"
  /\ \/ PingSend(count) /\ pc' = "sleep" /\ UNCHANGED panic
     \/ ~up /\ panic' = "send" /\ UNCHANGED <<linkVars, pc>>
  /\ UNCHANGED <<count, pending, rx, reported>>

\* task::sleep(sleep).await; count += 1
SleepSameCount ==  \* a mutant: the count is not advanced
  /\ Running
  /\ pc = "sleep"
  /\ pc' = "insert"
  /\ UNCHANGED <<linkVars, count, pending, rx, reported, panic>>

Sleep ==
  /\ Running
  /\ pc = "sleep"
  /\ count' = count + 1
  /\ pc' = "insert"
  /\ UNCHANGED <<linkVars, pending, rx, reported, panic>>

\* handle_message: pending.lock().unwrap().remove(&count).unwrap()
RxKeepEntry ==  \* a mutant: get(&count) where the code has remove(&count)
  /\ Running
  /\ rx = NoPing
  /\ toPing # <<>>
  /\ toPing' = Tail(toPing)
  /\ IF Head(toPing) \in pending
       THEN rx' = Head(toPing) /\ UNCHANGED panic
       ELSE panic' = "remove" /\ UNCHANGED rx
  /\ UNCHANGED <<toPong, echo, up, pc, count, pending, reported>>

RxRemove ==
  /\ Running
  /\ rx = NoPing
  /\ toPing # <<>>
  /\ toPing' = Tail(toPing)
  /\ IF Head(toPing) \in pending
       THEN rx' = Head(toPing) /\ UNCHANGED panic
       ELSE panic' = "remove" /\ UNCHANGED rx
  /\ pending' = pending \ {Head(toPing)}
  /\ UNCHANGED <<toPong, echo, up, pc, count, reported>>

\* println! of the elapsed time; the thread then takes the next message.
RxPrint ==
  /\ Running
  /\ rx # NoPing
  /\ reported' = Append(reported, rx)
  /\ rx' = NoPing
  /\ UNCHANGED <<linkVars, pc, count, pending, panic>>

\* t_pong and the transport.
Link ==
  /\ PongReceive \/ PongReply \/ LinkClose
  /\ UNCHANGED <<pc, count, pending, rx, reported, panic>>

\* The process is dead, or the bound on pings is reached and all is drained.
Finished ==
  /\ ~Running \/ (pc = "insert" /\ count = MaxPings /\ rx = NoPing)
  /\ LinkEmpty \/ ~Running
  /\ UNCHANGED vars

Next == Insert \/ Send \/ Sleep \/ RxRemove \/ RxPrint \/ Link \/ Finished

Spec == Init /\ [][Next]_vars

\* The scheduler runs both threads, t_pong's thread, and the sleep ends.
Fairness ==
  /\ WF_vars(Insert) /\ WF_vars(Send) /\ WF_vars(Sleep)
  /\ WF_vars(RxRemove) /\ WF_vars(RxPrint)
  /\ WF_vars(PongReceive /\ Link) /\ WF_vars(PongReply /\ Link)

FairSpec == Spec /\ Fairness
-----------------------------------------------------------------------------
\* The handler finds every count it receives in the map: remove(&count) is
\* never None, however the sends, the echoes and the closing of the transport
\* interleave, so t_ping.rs:109 never kills the process.
NoPanicOnRemove == panic # "remove"

\* While the transport is open, the entries of the map are exactly the pings
\* that are still to be sent, on their way or being echoed: no entry leaks and
\* no ping travels without one.
PendingIsInFlight ==
  up =>
    pending = OnTheLink \cup (IF pc = "send" THEN {count} ELSE {})

\* Backpressure bounds the map: blocking sends stop the main loop before more
\* than a link full of pings is pending, although nothing in t_ping.rs counts
\* them.
PendingBounded == Cardinality(pending) <= 2 * Capacity + 2

\* Every ping entered in the map is printed, unless the transport closes.
EveryPingMeasured ==
  \A c \in 0..(MaxPings - 1) :
    c \in pending ~> ((\E i \in 1..Len(reported) : reported[i] = c) \/ ~up)

\* The pings outstanding: one in the main loop's hand, a full link in each
\* direction, one in t_pong's hand, one in the handler's.
ParallelWindow == 2 * Capacity + 3

Issued == count + (IF pc = "insert" THEN 0 ELSE 1)

RT == INSTANCE RoundTrip WITH Window <- ParallelWindow, issued <- Issued

\* The parallel pinger implements RoundTrip: pongs are printed once, in the
\* order of the pings, and the outstanding pings are bounded by the link.
ImplementsRoundTrip == RT!Spec
-----------------------------------------------------------------------------
(***************************************************************************)
(* The inductive invariant behind these properties, in terms of the        *)
(* positions of the pings on the loop: the handler holds the oldest count  *)
(* not printed, then come the queue to the pinger, t_pong's hand, the      *)
(* queue to t_pong and the main loop.                                      *)
(***************************************************************************)
Held(hand) == IF hand = NoPing THEN 0 ELSE 1

FirstToPing == Len(reported) + Held(rx)         \* the first count in toPing
EchoCount   == FirstToPing + Len(toPing)        \* the count in t_pong's hand
FirstToPong == EchoCount + Held(echo)           \* the first count in toPong
Sent        == count + (IF pc = "sleep" THEN 1 ELSE 0)

LoopInOrder ==
  /\ CountsFrom(reported, 0)
  /\ rx # NoPing => rx = Len(reported)
  /\ CountsFrom(toPing, FirstToPing)
  /\ up => /\ echo # NoPing => echo = EchoCount
           /\ CountsFrom(toPong, FirstToPong)
           /\ FirstToPong + Len(toPong) = Sent

PendingInOrder ==
  /\ EchoCount <= Sent
  /\ pending = FirstToPing..(Issued - 1)

Bounds ==
  /\ Len(toPong) <= Capacity
  /\ Len(toPing) <= Capacity
  /\ Sent - FirstToPing <= 2 * Capacity + 1
  /\ pc # "insert" => count < MaxPings

PingInv == TypeOK /\ LoopInOrder /\ PendingInOrder /\ Bounds /\ NoPanicOnRemove
=============================================================================
