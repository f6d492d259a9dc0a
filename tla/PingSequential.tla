--------------------------- MODULE PingSequential ---------------------------
(***************************************************************************)
(* latency/src/bin/t_ping.rs without --parallel: single() sends a ping and *)
(* waits on a std::sync::Barrier for two until the receiving thread, in    *)
(* MyMHSequential.handle_message, has found that barrier in `pending`      *)
(* under the count of the pong and waits on it too.                        *)
(*                                                                         *)
(* Every ping has a barrier of its own, so a barrier is named by its count *)
(* and `arrived` counts the threads that reached it; the second to arrive  *)
(* releases both, each of which then leaves in its own time.               *)
(***************************************************************************)
EXTENDS EchoLink, FiniteSets

VARIABLES
  pc,        \* the main loop: insert, send, arrive, leave, print or sleep
  count,     \* its count
  pending,   \* the keys of the map from a count to its barrier
  arrived,   \* for each barrier, the threads that called wait()
  rx,        \* the count whose barrier the handler removed, if any
  rxLeaving, \* the handler is inside that barrier
  reported,  \* the counts printed, in order
  panic      \* the unwrap() that killed the process, or "none"

vars == <<linkVars, pc, count, pending, arrived, rx, rxLeaving, reported, panic>>

Pings == 0..(MaxPings - 1)

TypeOK ==
  /\ LinkTypeOK
  /\ pc \in {"insert", "send", "arrive", "leave", "print", "sleep"}
  /\ count \in 0..MaxPings
  /\ pending \in SUBSET Pings
  /\ arrived \in [Pings -> 0..2]
  /\ rx \in Pings \cup {NoPing}
  /\ rxLeaving \in BOOLEAN
  /\ reported \in Seq(Nat)
  /\ panic \in {"none", "send", "remove"}

Init ==
  /\ LinkInit
  /\ pc = "insert"
  /\ count = 0
  /\ pending = {}
  /\ arrived = [c \in Pings |-> 0]
  /\ rx = NoPing
  /\ rxLeaving = FALSE
  /\ reported = <<>>
  /\ panic = "none"

Running == panic = "none"

\* Barrier::wait(): arrive, and leave once two threads have arrived.
Arrive(b) == arrived' = [arrived EXCEPT ![b] = @ + 1]
Released(b) == arrived[b] = 2
-----------------------------------------------------------------------------
\* let barrier = Arc::new(Barrier::new(2)); pending...insert(count, barrier)
InsertUnrecorded ==  \* a mutant: the barrier is not put in the map
  /\ Running
  /\ pc = "insert"
  /\ count < MaxPings
  /\ pc' = "send"
  /\ UNCHANGED <<linkVars, count, pending, arrived, rx, rxLeaving, reported, panic>>

Insert ==
  /\ Running
  /\ pc = "insert"
  /\ count < MaxPings
  /\ pending' = pending \cup {count}
  /\ pc' = "send"
  /\ UNCHANGED <<linkVars, count, arrived, rx, rxLeaving, reported, panic>>

\* session.handle_message(message).unwrap()
Send ==
  /\ Running
  /\ pc = "send"
  /\ \/ PingSend(count) /\ pc' = "arrive" /\ UNCHANGED panic
     \/ ~up /\ panic' = "send" /\ UNCHANGED <<linkVars, pc>>
  /\ UNCHANGED <<count, pending, arrived, rx, rxLeaving, reported>>

\* barrier.wait() of the main loop
MainArrive ==
  /\ Running
  /\ pc = "arrive"
  /\ Arrive(count)
  /\ pc' = "leave"
  /\ UNCHANGED <<linkVars, count, pending, rx, rxLeaving, reported, panic>>

MainPassThrough ==  \* a mutant: the main loop does not wait for the second
  /\ Running
  /\ pc = "leave"
  /\ pc' = "print"
  /\ UNCHANGED <<linkVars, count, pending, arrived, rx, rxLeaving, reported, panic>>

MainLeave ==
  /\ Running
  /\ pc = "leave"
  /\ Released(count)
  /\ pc' = "print"
  /\ UNCHANGED <<linkVars, count, pending, arrived, rx, rxLeaving, reported, panic>>

PrintLatency ==
  /\ Running
  /\ pc = "print"
  /\ reported' = Append(reported, count)
  /\ pc' = "sleep"
  /\ UNCHANGED <<linkVars, count, pending, arrived, rx, rxLeaving, panic>>

\* task::sleep(sleep).await; count += 1
SleepSameCount ==  \* a mutant: the count is not advanced
  /\ Running
  /\ pc = "sleep"
  /\ pc' = "insert"
  /\ UNCHANGED <<linkVars, count, pending, arrived, rx, rxLeaving, reported, panic>>

Sleep ==
  /\ Running
  /\ pc = "sleep"
  /\ count' = count + 1
  /\ pc' = "insert"
  /\ UNCHANGED <<linkVars, pending, arrived, rx, rxLeaving, reported, panic>>

\* handle_message: pending.lock().unwrap().remove(&count).unwrap()
RxRemove ==
  /\ Running
  /\ rx = NoPing
  /\ toPing # <<>>
  /\ toPing' = Tail(toPing)
  /\ IF Head(toPing) \in pending
       THEN rx' = Head(toPing) /\ UNCHANGED panic
       ELSE panic' = "remove" /\ UNCHANGED rx
  /\ pending' = pending \ {Head(toPing)}
  /\ UNCHANGED <<toPong, echo, up, pc, count, arrived, rxLeaving, reported>>

\* barrier.wait() of the handler, which returns to the transport after it.
RxDropBarrier ==  \* a mutant: the handler returns without waiting
  /\ Running
  /\ rx # NoPing /\ ~rxLeaving
  /\ rx' = NoPing
  /\ UNCHANGED <<linkVars, pc, count, pending, arrived, rxLeaving, reported, panic>>

RxArrive ==
  /\ Running
  /\ rx # NoPing /\ ~rxLeaving
  /\ Arrive(rx)
  /\ rxLeaving' = TRUE
  /\ UNCHANGED <<linkVars, pc, count, pending, rx, reported, panic>>

RxLeave ==
  /\ Running
  /\ rx # NoPing /\ rxLeaving
  /\ Released(rx)
  /\ rx' = NoPing
  /\ rxLeaving' = FALSE
  /\ UNCHANGED <<linkVars, pc, count, pending, arrived, reported, panic>>

\* t_pong and the transport.
Link ==
  /\ PongReceive \/ PongReply \/ LinkClose
  /\ UNCHANGED <<pc, count, pending, arrived, rx, rxLeaving, reported, panic>>

\* The process is dead, or the bound on pings is reached and all is drained.
Finished ==
  /\ ~Running \/ (pc = "insert" /\ count = MaxPings /\ rx = NoPing)
  /\ LinkEmpty \/ ~Running
  /\ UNCHANGED vars

Next ==
  \/ Insert \/ Send \/ MainArrive \/ MainLeave \/ PrintLatency \/ Sleep
  \/ RxRemove \/ RxArrive \/ RxLeave \/ Link \/ Finished

Spec == Init /\ [][Next]_vars

\* The scheduler runs both threads, t_pong's thread, and the sleep ends.
Fairness ==
  /\ WF_vars(Insert) /\ WF_vars(Send) /\ WF_vars(MainArrive)
  /\ WF_vars(MainLeave) /\ WF_vars(PrintLatency) /\ WF_vars(Sleep)
  /\ WF_vars(RxRemove) /\ WF_vars(RxArrive) /\ WF_vars(RxLeave)
  /\ WF_vars(PongReceive /\ Link) /\ WF_vars(PongReply /\ Link)

FairSpec == Spec /\ Fairness
-----------------------------------------------------------------------------
\* The handler finds the barrier of every pong it receives.
NoPanicOnRemove == panic # "remove"

\* The latency of a ping is taken after its pong: when the main loop has left
\* the barrier the handler has removed the entry, even if it is still inside.
MeasuredAfterPong == pc \in {"print", "sleep"} => count \notin pending

\* The two threads never wait for each other at different barriers: a handler
\* that is not yet released is at the barrier of the main loop's count, while
\* a released one may lag behind by a whole ping.
SameBarrier == rx # NoPing /\ ~Released(rx) => rx = count

\* The main loop waits in vain only after the transport has closed: otherwise
\* its pong is on the way, in the handler's hand or has already released it.
WaitIsAnswered ==
  up /\ pc \in {"arrive", "leave"} =>
    count \in OnTheLink \/ rx = count \/ Released(count)

\* A main loop whose pong was lost with the transport never leaves the barrier:
\* closed() is empty and nothing else calls wait().
LostPong ==
  ~up /\ pc = "leave" /\ ~Released(count) /\ count \notin OnTheLink /\ rx # count
LostPongHangs == [](LostPong => []LostPong)

RT == INSTANCE RoundTrip WITH
        Window <- 1, issued <- count + (IF pc = "insert" THEN 0 ELSE 1)

\* The sequential pinger implements RoundTrip with one ping outstanding.
ImplementsRoundTrip == RT!Spec

\* On a transport that stays open it also issues and reports every ping: the
\* two threads never block each other at the barriers or through the queues.
LiveWhileOpen == []up => RT!Fairness
-----------------------------------------------------------------------------
(***************************************************************************)
(* The inductive invariant: the one ping outstanding is at one place of    *)
(* the loop, and the places behind it are empty.                           *)
(***************************************************************************)
\* The ping of this count has been sent and its pong not yet been taken.
Travelling == pc \in {"arrive", "leave"} /\ count \in pending

OneOutstanding ==
  /\ pc # "insert" => count < MaxPings
  /\ pending \subseteq {count}
  /\ count \in pending => pc \in {"send", "arrive", "leave"}
  /\ pc = "send" => count \in pending
  /\ toPong \in {<<>>, <<count>>}
  /\ toPing \in {<<>>, <<count>>}
  /\ echo \in {NoPing, count}
  /\ ~LinkEmpty => Travelling
  /\ toPong # <<>> => toPing = <<>> /\ echo = NoPing
  /\ toPing # <<>> => echo = NoPing
  /\ up /\ Travelling => ~LinkEmpty

\* How many times the handler has called wait() on the barrier of this count,
\* once the ping has been sent.
HandlerArrivals ==
  IF count \in pending \/ (rx = count /\ ~rxLeaving) THEN 0 ELSE 1

BarrierInv ==
  /\ rxLeaving => rx # NoPing
  /\ rx # NoPing => rx = count \/ rx = count - 1
  /\ rx = count => pc \notin {"insert", "send"} /\ count \notin pending
  /\ rx = count - 1 => /\ rxLeaving /\ Released(rx)
                       /\ pc = "insert" \/ count \in pending
  /\ rx # NoPing /\ ~rxLeaving => pc \in {"arrive", "leave"}
  /\ \A c \in Pings : c > count => arrived[c] = 0
  /\ pc \in {"insert", "send"} /\ count < MaxPings => arrived[count] = 0
  /\ pc \in {"print", "sleep"} => Released(count)
  /\ pc = "arrive" => arrived[count] = HandlerArrivals
  /\ pc = "leave" => arrived[count] = 1 + HandlerArrivals
  /\ pc = "arrive" /\ count \notin pending => rx = count

ReportedInv ==
  Len(reported) = count + (IF pc = "sleep" THEN 1 ELSE 0)

PingInv == TypeOK /\ OneOutstanding /\ BarrierInv /\ ReportedInv /\ NoPanicOnRemove
=============================================================================
