---------------------------- MODULE QueryLatency ----------------------------
(***************************************************************************)
(* query/src/bin/t_query.rs against t_eval.rs: the query latency benchmark *)
(* over a transport.  Unlike t_ping, the main loop and the handler meet at *)
(* one barrier for all the queries, and it is the handler that prints.     *)
(* r_query.rs against r_eval.rs is the same loop over routers, which have  *)
(* to know the queryable: a query that is sent before gets no data.        *)
(*                                                                         *)
(* t_eval answers each message on the transport it came from, as t_pong    *)
(* does, so EchoLink carries queries one way and replies the other, a      *)
(* query being its qid.  std::sync::Barrier counts the arrivals of one     *)
(* generation; the last one starts the next, and a thread leaves when the  *)
(* generation it arrived in is over.                                       *)
(***************************************************************************)
EXTENDS EchoLink

CONSTANT Programs  \* the programs that may run

\* routed: the queryable is found by routers, whose sending does not fail
t_query == [routed |-> FALSE]
r_query == [routed |-> TRUE]

ASSUME ProgramsAssumption == Programs \subseteq [routed : BOOLEAN]

VARIABLES
  prog,      \* the program that runs
  pc,        \* the main loop: insert, send, arrive or leave
  count,     \* its count, the qid of the next query
  pending,   \* the keys of the map
  arrivals,  \* the barrier: arrivals of this generation,
  generation,\* and its number
  mainGen,   \* the generation in which the main loop arrived
  rx,        \* the qid whose entry the handler has removed, if any
  rxGen,     \* the generation in which the handler arrived, or NoPing
  reported,  \* the qids printed, in order
  panic      \* the unwrap() that killed the process, or "none"

barrierVars == <<arrivals, generation>>
vars == <<prog, linkVars, pc, count, pending, barrierVars, mainGen, rx, rxGen, reported, panic>>

Queries == 0..(MaxPings - 1)

TypeOK ==
  /\ prog \in Programs
  /\ LinkTypeOK
  /\ pc \in {"insert", "send", "arrive", "leave"}
  /\ count \in 0..MaxPings
  /\ pending \in SUBSET Queries
  /\ arrivals \in 0..1
  /\ generation \in Nat
  /\ mainGen \in Nat
  /\ rx \in Queries \cup {NoPing}
  /\ rxGen \in Nat \cup {NoPing}
  /\ reported \in Seq(Nat)
  /\ panic \in {"none", "send", "remove"}

Init ==
  /\ prog \in Programs
  /\ toPong = <<>> /\ toPing = <<>> /\ echo = NoPing
  /\ up = ~prog.routed
  /\ pc = "insert"
  /\ count = 0
  /\ pending = {}
  /\ arrivals = 0
  /\ generation = 0
  /\ mainGen = 0
  /\ rx = NoPing
  /\ rxGen = NoPing
  /\ reported = <<>>
  /\ panic = "none"

Running == panic = "none"

\* Arc::new(Barrier::new(2)): the second arrival ends the generation.
ArriveAlone ==  \* a mutant: Barrier::new(1)
  /\ arrivals' = 0
  /\ generation' = generation + 1

Arrive ==
  /\ arrivals' = 1 - arrivals
  /\ generation' = generation + arrivals
-----------------------------------------------------------------------------
\* pending.lock().unwrap().insert(count, (Instant::now(), barrier.clone()))
Insert ==
  /\ Running
  /\ pc = "insert"
  /\ count < MaxPings
  /\ pending' = pending \cup {count}
  /\ pc' = "send"
  /\ UNCHANGED <<prog, linkVars, count, barrierVars, mainGen, rx, rxGen, reported, panic>>

\* session.handle_message(message).unwrap(), or tx_primitives.send_query(...)
Send ==
  /\ Running
  /\ pc = "send"
  /\ \/ PingSend(count) /\ pc' = "arrive" /\ UNCHANGED panic
     \/ ~up /\ ~prog.routed /\ panic' = "send" /\ UNCHANGED <<linkVars, pc>>
  /\ UNCHANGED <<prog, count, pending, barrierVars, mainGen, rx, rxGen, reported>>

\* send_query without a way to the queryable: no reply with data will come.
SendUnrouted ==
  /\ Running
  /\ pc = "send"
  /\ ~up /\ prog.routed
  /\ pc' = "arrive"
  /\ UNCHANGED <<prog, linkVars, count, pending, barrierVars, mainGen, rx, rxGen, reported, panic>>

\* barrier.wait(), and count += 1 once it returns
MainArrive ==
  /\ Running
  /\ pc = "arrive"
  /\ Arrive
  /\ mainGen' = generation
  /\ pc' = "leave"
  /\ UNCHANGED <<prog, linkVars, count, pending, rx, rxGen, reported, panic>>

MainLeaveAnyTime ==  \* a mutant: a wait with a timeout, whose result is dropped
  /\ Running
  /\ pc = "leave"
  /\ count' = count + 1
  /\ pc' = "insert"
  /\ UNCHANGED <<prog, linkVars, pending, barrierVars, mainGen, rx, rxGen, reported, panic>>

MainLeave ==
  /\ Running
  /\ pc = "leave"
  /\ mainGen # generation
  /\ count' = count + 1
  /\ pc' = "insert"
  /\ UNCHANGED <<prog, linkVars, pending, barrierVars, mainGen, rx, rxGen, reported, panic>>
-----------------------------------------------------------------------------
\* handle_message: remove(&reply_context.qid).unwrap()
RxKeepEntry ==  \* a mutant: the entry stays in the map
  /\ Running
  /\ rx = NoPing
  /\ toPing # <<>>
  /\ toPing' = Tail(toPing)
  /\ IF Head(toPing) \in pending
       THEN rx' = Head(toPing) /\ UNCHANGED panic
       ELSE panic' = "remove" /\ UNCHANGED rx
  /\ UNCHANGED <<prog, toPong, echo, up, pc, count, pending, barrierVars, mainGen, rxGen, reported>>

RxRemove ==
  /\ Running
  /\ rx = NoPing
  /\ toPing # <<>>
  /\ toPing' = Tail(toPing)
  /\ IF Head(toPing) \in pending
       THEN rx' = Head(toPing) /\ UNCHANGED panic
       ELSE panic' = "remove" /\ UNCHANGED rx
  /\ pending' = pending \ {Head(toPing)}
  /\ UNCHANGED <<prog, toPong, echo, up, pc, count, barrierVars, mainGen, rxGen, reported>>

\* barrier.wait(), and the line printed once it returns
RxArriveLate ==  \* a mutant: the entry is removed, and the wait skipped
  /\ Running
  /\ rx # NoPing /\ rxGen = NoPing
  /\ reported' = Append(reported, rx)
  /\ rx' = NoPing
  /\ UNCHANGED <<prog, linkVars, pc, count, pending, barrierVars, mainGen, rxGen, panic>>

RxArrive ==
  /\ Running
  /\ rx # NoPing /\ rxGen = NoPing
  /\ Arrive
  /\ rxGen' = generation
  /\ UNCHANGED <<prog, linkVars, pc, count, pending, mainGen, rx, reported, panic>>

RxReport ==
  /\ Running
  /\ rxGen # NoPing /\ rxGen # generation
  /\ reported' = Append(reported, rx)
  /\ rx' = NoPing
  /\ rxGen' = NoPing
  /\ UNCHANGED <<prog, linkVars, pc, count, pending, barrierVars, mainGen, panic>>

\* The routers come to know the queryable, for the first time or again.
Learn ==
  /\ prog.routed
  /\ ~up
  /\ up' = TRUE
  /\ UNCHANGED <<toPong, toPing, echo>>

\* t_eval and the transport, or r_eval and the routers
Link ==
  /\ PongReceive \/ PongReply \/ LinkClose \/ Learn
  /\ UNCHANGED <<prog, pc, count, pending, barrierVars, mainGen, rx, rxGen, reported, panic>>

\* The process is dead, or the bound on queries is reached and all is drained.
Finished ==
  /\ ~Running \/ (pc = "insert" /\ count = MaxPings /\ rx = NoPing /\ LinkEmpty)
  /\ UNCHANGED vars

Next ==
  \/ Insert \/ Send \/ SendUnrouted \/ MainArrive \/ MainLeave
  \/ RxRemove \/ RxArrive \/ RxReport \/ Link \/ Finished

Spec == Init /\ [][Next]_vars

\* The scheduler runs the threads of both programs.
Fairness ==
  /\ WF_vars(Insert) /\ WF_vars(Send \/ SendUnrouted)
  /\ WF_vars(MainArrive) /\ WF_vars(MainLeave)
  /\ WF_vars(RxRemove) /\ WF_vars(RxArrive) /\ WF_vars(RxReport)
  /\ WF_vars(PongReceive /\ Link) /\ WF_vars(PongReply /\ Link)

FairSpec == Spec /\ Fairness
-----------------------------------------------------------------------------
\* The handler finds the entry of every reply.
NoPanicOnRemove == panic # "remove"

\* The one barrier never confuses two queries: the threads that end a
\* generation are the main loop of a query and the handler of its reply, even
\* when the handler of the query before has not yet come out of the barrier.
ReleasePairs == [][generation' # generation => pc \in {"arrive", "leave"} /\ rx = count]_vars

\* No thread inside the barrier is overtaken: it has one end of a generation to
\* notice at most, never two.
NotOvertaken ==
  /\ rxGen # NoPing => generation - rxGen \in {0, 1}
  /\ pc = "leave" => generation - mainGen \in {0, 1}

\* The query of this count has been sent and its reply not yet been taken.
Travelling == pc \in {"arrive", "leave"} /\ count \in pending

\* It, or its reply, has been lost.
Lost == Travelling /\ LinkEmpty

\* A lost query is the last: whatever the routers learn and whoever else comes
\* to the barrier, the main loop never leaves it again.
LostQueryHangs == [][Lost => Lost']_vars

RT == INSTANCE RoundTrip WITH
        Window <- 2, issued <- count + (IF pc = "insert" THEN 0 ELSE 1)

\* The program implements RoundTrip with two queries outstanding: the next is
\* issued while the line of the last is still to be printed.
ImplementsRoundTrip == RT!Spec

\* Unless one is lost, or the process ends, it issues and reports every query:
\* nobody is left behind in the barrier that all the queries share.
LiveUnlessLost == [](Running /\ ~Lost) => RT!Fairness

\* Over a transport nothing is lost while it is open.
LostOnlyWhenClosed == Lost /\ ~prog.routed => ~up
-----------------------------------------------------------------------------
(***************************************************************************)
(* The inductive invariant: the one query outstanding is at one place of   *)
(* the loop, the generation of the barrier is the number of queries that   *)
(* were answered, and its arrivals are the threads waiting in it.          *)
(***************************************************************************)
MainReleased == pc = "leave" /\ mainGen # generation
MainWaits == pc = "leave" /\ mainGen = generation
HandlerReleased == rxGen # NoPing /\ rxGen # generation
HandlerWaits == rxGen # NoPing /\ rxGen = generation

OneOutstanding ==
  /\ pc # "insert" => count < MaxPings
  /\ pending \subseteq {count}
  /\ pc = "insert" => count \notin pending
  /\ pc = "send" => count \in pending
  /\ toPong \in {<<>>, <<count>>}
  /\ toPing \in {<<>>, <<count>>}
  /\ echo \in {NoPing, count}
  /\ ~LinkEmpty => Travelling
  /\ toPong # <<>> => toPing = <<>> /\ echo = NoPing
  /\ toPing # <<>> => echo = NoPing
  /\ LostOnlyWhenClosed

BarrierInv ==
  /\ rx = NoPing => rxGen = NoPing
  /\ rxGen # NoPing => rxGen = rx
  /\ pc = "leave" => mainGen = count
  /\ generation = IF MainReleased THEN count + 1 ELSE count
  /\ arrivals = IF MainWaits \/ HandlerWaits THEN 1 ELSE 0
  /\ ~(MainWaits /\ HandlerWaits)

HandlerInv ==
  /\ rx # NoPing => rx = count \/ rx = count - 1
  /\ rx = count => pc \in {"arrive", "leave"} /\ count \notin pending
  /\ rx = count /\ MainReleased => rxGen = rx
  /\ rx = count - 1 => rxGen = rx /\ (pc = "insert" \/ count \in pending)
  /\ MainReleased => count \notin pending
  /\ pc \in {"arrive", "leave"} /\ ~MainReleased /\ count \notin pending => rx = count

ReportedInv == Len(reported) = IF HandlerReleased THEN generation - 1 ELSE generation

QueryInv ==
  TypeOK /\ OneOutstanding /\ BarrierInv /\ HandlerInv /\ ReportedInv /\ NoPanicOnRemove
=============================================================================
