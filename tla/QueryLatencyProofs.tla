------------------------- MODULE QueryLatencyProofs -------------------------
(***************************************************************************)
(* Proofs about QueryLatency for both programs and every value of the      *)
(* bounds: the inductive invariant QueryInv, what follows from it about    *)
(* the shared barrier and a lost query, and that the programs implement    *)
(* RoundTrip with a window of two queries.                                 *)
(***************************************************************************)
EXTENDS QueryLatency, SequenceTheorems, TLAPS

\* A prefix of a queue of at most one count is that queue or empty.
LEMMA SingletonPrefix ==
  ASSUME NEW c \in Nat, NEW s \in {<<>>, <<c>>}, NEW k \in 0..Len(s)
  PROVE  SubSeq(s, 1, k) \in {<<>>, s} /\ SubSeq(s, 1, k) \in Seq(Nat)
<1>1. s \in Seq(Nat) /\ k \in {0, Len(s)}
  <2>1. CASE s = <<>>
    BY <2>1
  <2>2. CASE s = <<c>>
    BY <2>2
  <2> QED
    BY <2>1, <2>2
<1>2. /\ SubSeq(s, 1, k) \in Seq(Nat) /\ Len(SubSeq(s, 1, k)) = k
      /\ \A i \in 1..k : SubSeq(s, 1, k)[i] = s[i]
  BY <1>1, k \in 0..Len(s)
<1> QED
  BY <1>1, <1>2, EmptySeq, SeqEqual

USE CapacityAssumption, MaxPingsAssumption, NoPingAssumption

\* The types the steps below compute with.
LEMMA Counts ==
  ASSUME TypeOK
  PROVE  /\ count \in Nat /\ count <= MaxPings /\ NoPing \notin Int
         /\ generation \in Nat /\ mainGen \in Nat /\ arrivals \in 0..1
         /\ rx \in Queries \cup {NoPing} /\ rxGen \in Nat \cup {NoPing}
         /\ reported \in Seq(Nat) /\ Len(reported) \in Nat
         /\ \A c \in Queries : c \in Nat /\ c < MaxPings
         /\ count < MaxPings => count \in Queries
  BY DEF TypeOK, Queries

\* The queues hold at most the query of this count.
LEMMA Singleton ==
  ASSUME NEW c \in Nat
  PROVE  /\ <<c>> \in Seq(Nat) /\ <<c>> # <<>>
         /\ Head(<<c>>) = c /\ Tail(<<c>>) = <<>>
         /\ Append(<<>>, c) = <<c>>
  OBVIOUS

LEMMA InitInv == Init => QueryInv
<1> SUFFICES ASSUME Init PROVE QueryInv
  OBVIOUS
<1> USE DEF Init
<1>1. TypeOK
  BY DEF TypeOK, LinkTypeOK, Hand
<1>2. OneOutstanding
  BY DEF OneOutstanding, LinkEmpty, Travelling, LostOnlyWhenClosed, Lost
<1>3. BarrierInv /\ HandlerInv
  BY DEF BarrierInv, HandlerInv, MainReleased, MainWaits, HandlerReleased, HandlerWaits
<1>4. ReportedInv
  BY DEF ReportedInv, HandlerReleased
<1> QED
  BY <1>1, <1>2, <1>3, <1>4 DEF QueryInv, NoPanicOnRemove

LEMMA InsertInv == QueryInv /\ Insert => QueryInv'
<1> SUFFICES ASSUME QueryInv, Insert PROVE QueryInv'
  OBVIOUS
<1> USE DEF QueryInv
<1>1. /\ pc = "insert" /\ pc' = "send" /\ count < MaxPings
      /\ pending' = pending \cup {count}
      /\ UNCHANGED <<prog, toPong, toPing, echo, up, count, arrivals, generation, mainGen, rx,
                     rxGen, reported, panic>>
  BY DEF Insert, linkVars, barrierVars
<1>2. TypeOK'
  BY <1>1, Counts DEF TypeOK, LinkTypeOK, OneOutstanding, BarrierInv
<1>3. OneOutstanding'
  BY <1>1, Counts DEF OneOutstanding, LinkEmpty, Travelling, LostOnlyWhenClosed, Lost,
     HandlerInv, MainReleased, MainWaits, HandlerReleased, HandlerWaits
<1>4. BarrierInv'
  BY <1>1, Counts DEF BarrierInv, HandlerInv, MainReleased, MainWaits, HandlerReleased,
     HandlerWaits
<1>5. HandlerInv'
  BY <1>1, Counts DEF BarrierInv, HandlerInv, OneOutstanding, MainReleased, MainWaits,
     HandlerReleased, HandlerWaits
<1>6. ReportedInv'
  BY <1>1, Counts DEF ReportedInv, BarrierInv, HandlerInv, MainReleased, MainWaits,
     HandlerReleased, HandlerWaits
<1> QED
  BY <1>1, <1>2, <1>3, <1>4, <1>5, <1>6 DEF NoPanicOnRemove

LEMMA MainArriveInv == QueryInv /\ MainArrive => QueryInv'
<1> SUFFICES ASSUME QueryInv, MainArrive PROVE QueryInv'
  OBVIOUS
<1> USE DEF QueryInv
<1>1. /\ pc = "arrive" /\ pc' = "leave" /\ mainGen' = generation
      /\ arrivals' = 1 - arrivals /\ generation' = generation + arrivals
      /\ UNCHANGED <<prog, toPong, toPing, echo, up, count, pending, rx, rxGen, reported, panic>>
  BY DEF MainArrive, Arrive, linkVars
<1>2. TypeOK'
  BY <1>1, Counts DEF TypeOK, LinkTypeOK, OneOutstanding, BarrierInv
<1>3. OneOutstanding'
  BY <1>1, Counts DEF OneOutstanding, LinkEmpty, Travelling, LostOnlyWhenClosed, Lost,
     HandlerInv, MainReleased, MainWaits, HandlerReleased, HandlerWaits
<1>4. BarrierInv'
  BY <1>1, Counts DEF BarrierInv, HandlerInv, MainReleased, MainWaits, HandlerReleased,
     HandlerWaits
<1>5. HandlerInv'
  BY <1>1, Counts DEF BarrierInv, HandlerInv, OneOutstanding, MainReleased, MainWaits,
     HandlerReleased, HandlerWaits
<1>6. ReportedInv'
  BY <1>1, Counts DEF ReportedInv, BarrierInv, HandlerInv, MainReleased, MainWaits,
     HandlerReleased, HandlerWaits
<1> QED
  BY <1>1, <1>2, <1>3, <1>4, <1>5, <1>6 DEF NoPanicOnRemove

LEMMA MainLeaveInv == QueryInv /\ MainLeave => QueryInv'
<1> SUFFICES ASSUME QueryInv, MainLeave PROVE QueryInv'
  OBVIOUS
<1> USE DEF QueryInv
<1>1. /\ pc = "leave" /\ mainGen # generation /\ pc' = "insert" /\ count' = count + 1
      /\ UNCHANGED <<prog, toPong, toPing, echo, up, pending, arrivals, generation, mainGen, rx,
                     rxGen, reported, panic>>
  BY DEF MainLeave, linkVars, barrierVars
<1>2. TypeOK'
  BY <1>1, Counts DEF TypeOK, LinkTypeOK, OneOutstanding, BarrierInv
<1>3. OneOutstanding'
  BY <1>1, Counts DEF OneOutstanding, LinkEmpty, Travelling, LostOnlyWhenClosed, Lost,
     HandlerInv, MainReleased, MainWaits, HandlerReleased, HandlerWaits
<1>4. BarrierInv'
  BY <1>1, Counts DEF BarrierInv, HandlerInv, MainReleased, MainWaits, HandlerReleased,
     HandlerWaits
<1>5. HandlerInv'
  BY <1>1, Counts DEF BarrierInv, HandlerInv, OneOutstanding, MainReleased, MainWaits,
     HandlerReleased, HandlerWaits
<1>6. ReportedInv'
  BY <1>1, Counts DEF ReportedInv, BarrierInv, HandlerInv, MainReleased, MainWaits,
     HandlerReleased, HandlerWaits
<1> QED
  BY <1>1, <1>2, <1>3, <1>4, <1>5, <1>6 DEF NoPanicOnRemove

LEMMA RxArriveInv == QueryInv /\ RxArrive => QueryInv'
<1> SUFFICES ASSUME QueryInv, RxArrive PROVE QueryInv'
  OBVIOUS
<1> USE DEF QueryInv
<1>1. /\ rx # NoPing /\ rxGen = NoPing /\ rxGen' = generation
      /\ arrivals' = 1 - arrivals /\ generation' = generation + arrivals
      /\ UNCHANGED <<prog, toPong, toPing, echo, up, pc, count, pending, mainGen, rx, reported,
         panic>>
  BY DEF RxArrive, Arrive, linkVars
<1>2. TypeOK'
  BY <1>1, Counts DEF TypeOK, LinkTypeOK, OneOutstanding, BarrierInv
<1>3. OneOutstanding'
  BY <1>1, Counts DEF OneOutstanding, LinkEmpty, Travelling, LostOnlyWhenClosed, Lost,
     HandlerInv, MainReleased, MainWaits, HandlerReleased, HandlerWaits
<1>4. BarrierInv'
  BY <1>1, Counts DEF BarrierInv, HandlerInv, MainReleased, MainWaits, HandlerReleased,
     HandlerWaits
<1>5. HandlerInv'
  BY <1>1, Counts DEF BarrierInv, HandlerInv, OneOutstanding, MainReleased, MainWaits,
     HandlerReleased, HandlerWaits
<1>6. ReportedInv'
  BY <1>1, Counts DEF ReportedInv, BarrierInv, HandlerInv, MainReleased, MainWaits,
     HandlerReleased, HandlerWaits
<1> QED
  BY <1>1, <1>2, <1>3, <1>4, <1>5, <1>6 DEF NoPanicOnRemove

LEMMA RxReportInv == QueryInv /\ RxReport => QueryInv'
<1> SUFFICES ASSUME QueryInv, RxReport PROVE QueryInv'
  OBVIOUS
<1> USE DEF QueryInv
<1>1. /\ rxGen # NoPing /\ rxGen # generation /\ reported' = Append(reported, rx)
      /\ rx' = NoPing /\ rxGen' = NoPing
      /\ UNCHANGED <<prog, toPong, toPing, echo, up, pc, count, pending, arrivals, generation,
                     mainGen, panic>>
  BY DEF RxReport, linkVars, barrierVars
<1>2. TypeOK'
  BY <1>1, Counts, AppendProperties, LenProperties DEF TypeOK, LinkTypeOK, OneOutstanding, BarrierInv
<1>3. OneOutstanding'
  BY <1>1, Counts DEF OneOutstanding, LinkEmpty, Travelling, LostOnlyWhenClosed, Lost,
     HandlerInv, MainReleased, MainWaits, HandlerReleased, HandlerWaits
<1>4. BarrierInv'
  BY <1>1, Counts DEF BarrierInv, HandlerInv, MainReleased, MainWaits, HandlerReleased,
     HandlerWaits
<1>5. HandlerInv'
  BY <1>1, Counts DEF BarrierInv, HandlerInv, OneOutstanding, MainReleased, MainWaits,
     HandlerReleased, HandlerWaits
<1>6. ReportedInv'
  BY <1>1, Counts, AppendProperties, LenProperties DEF ReportedInv, BarrierInv, HandlerInv, MainReleased, MainWaits,
     HandlerReleased, HandlerWaits
<1> QED
  BY <1>1, <1>2, <1>3, <1>4, <1>5, <1>6 DEF NoPanicOnRemove


LEMMA RxRemoveInv == QueryInv /\ RxRemove => QueryInv'
<1> SUFFICES ASSUME QueryInv, RxRemove PROVE QueryInv'
  OBVIOUS
<1> USE DEF QueryInv
<1>1. /\ rx = NoPing /\ toPing # <<>> /\ toPing' = Tail(toPing)
      /\ pending' = pending \ {Head(toPing)}
      /\ UNCHANGED <<prog, toPong, echo, up, pc, count, arrivals, generation, mainGen, rxGen,
         reported>>
  BY DEF RxRemove, barrierVars
<1>2. toPing = <<count>> /\ count \in pending /\ pc \in {"arrive", "leave"}
  BY <1>1 DEF OneOutstanding, LinkEmpty, Travelling, LostOnlyWhenClosed, Lost
<1>3. Head(toPing) = count /\ toPing' = <<>>
  BY <1>1, <1>2, Counts, Singleton
<1>4. rx' = count /\ panic' = panic
  BY <1>2, <1>3 DEF RxRemove
<1>5. TypeOK'
  BY <1>1, <1>2, <1>3, <1>4, Counts DEF TypeOK, LinkTypeOK, OneOutstanding
<1>6. OneOutstanding'
  BY <1>1, <1>2, <1>3, <1>4, Counts DEF OneOutstanding, LinkEmpty, Travelling,
     LostOnlyWhenClosed, Lost
<1>7. BarrierInv'
  BY <1>1, <1>4, Counts DEF BarrierInv, HandlerInv, MainReleased, MainWaits, HandlerReleased,
     HandlerWaits
<1>8. HandlerInv'
  BY <1>1, <1>2, <1>3, <1>4, Counts DEF BarrierInv, HandlerInv, MainReleased
<1>9. ReportedInv'
  BY <1>1, Counts DEF ReportedInv, HandlerReleased
<1> QED
  BY <1>4, <1>5, <1>6, <1>7, <1>8, <1>9 DEF NoPanicOnRemove

LEMMA SendInv == QueryInv /\ Send => QueryInv'
<1> SUFFICES ASSUME QueryInv, Send PROVE QueryInv'
  OBVIOUS
<1> USE DEF QueryInv
<1>1. /\ pc = "send"
      /\ UNCHANGED <<prog, count, pending, arrivals, generation, mainGen, rx, rxGen, reported>>
  BY DEF Send, barrierVars
<1>2. pc' \in {"send", "arrive"} => BarrierInv' /\ HandlerInv' /\ ReportedInv'
  BY <1>1, Counts DEF BarrierInv, HandlerInv, ReportedInv, OneOutstanding, MainReleased,
     MainWaits, HandlerReleased, HandlerWaits
<1>3. CASE PingSend(count) /\ pc' = "arrive" /\ UNCHANGED panic
  <2>1. /\ toPong' = Append(toPong, count) /\ UNCHANGED <<toPing, echo, up>>
    BY <1>3 DEF PingSend
  <2>2. toPong = <<>> /\ toPing = <<>> /\ echo = NoPing /\ count \in pending
    BY <1>1 DEF OneOutstanding, LinkEmpty, Travelling, LostOnlyWhenClosed, Lost
  <2>3. toPong' = <<count>>
    BY <2>1, <2>2, Counts, Singleton
  <2>4. TypeOK'
    BY <1>1, <1>3, <2>1, <2>3, Counts, Singleton DEF TypeOK, LinkTypeOK
  <2>5. OneOutstanding'
    BY <1>1, <1>3, <2>1, <2>2, <2>3, Counts, Singleton DEF OneOutstanding, LinkEmpty,
       Travelling, LostOnlyWhenClosed, Lost
  <2> QED
    BY <1>2, <1>3, <2>4, <2>5 DEF NoPanicOnRemove
<1>4. CASE ~up /\ ~prog.routed /\ panic' = "send" /\ UNCHANGED <<linkVars, pc>>
  <2>1. UNCHANGED <<toPong, toPing, echo, up, pc>>
    BY <1>4 DEF linkVars
  <2>2. TypeOK' /\ OneOutstanding'
    BY <1>1, <1>4, <2>1 DEF TypeOK, LinkTypeOK, OneOutstanding, LinkEmpty, Travelling,
       LostOnlyWhenClosed, Lost
  <2> QED
    BY <1>1, <1>2, <1>4, <2>1, <2>2 DEF NoPanicOnRemove
<1> QED
  BY <1>3, <1>4 DEF Send

LEMMA SendUnroutedInv == QueryInv /\ SendUnrouted => QueryInv'
<1> SUFFICES ASSUME QueryInv, SendUnrouted PROVE QueryInv'
  OBVIOUS
<1> USE DEF QueryInv
<1>1. /\ pc = "send" /\ pc' = "arrive" /\ ~up
      /\ UNCHANGED <<prog, toPong, toPing, echo, up, count, pending, arrivals, generation,
                     mainGen, rx, rxGen, reported, panic>>
  BY DEF SendUnrouted, linkVars, barrierVars
<1>2. TypeOK' /\ OneOutstanding'
  BY <1>1 DEF TypeOK, LinkTypeOK, OneOutstanding, LinkEmpty, Travelling, LostOnlyWhenClosed, Lost
<1>3. BarrierInv' /\ HandlerInv' /\ ReportedInv'
  BY <1>1, Counts DEF BarrierInv, HandlerInv, ReportedInv, OneOutstanding, MainReleased,
     MainWaits, HandlerReleased, HandlerWaits
<1> QED
  BY <1>1, <1>2, <1>3 DEF NoPanicOnRemove

LEMMA LinkInv == QueryInv /\ Link => QueryInv'
<1> SUFFICES ASSUME QueryInv, Link PROVE QueryInv'
  OBVIOUS
<1> USE DEF QueryInv
<1>1. UNCHANGED <<prog, pc, count, pending, arrivals, generation, mainGen, rx, rxGen, reported,
   panic>>
  BY DEF Link, barrierVars
<1>2. BarrierInv' /\ HandlerInv' /\ ReportedInv' /\ NoPanicOnRemove'
  BY <1>1 DEF BarrierInv, HandlerInv, ReportedInv, NoPanicOnRemove, MainReleased, MainWaits,
     HandlerReleased, HandlerWaits
<1>3. LinkTypeOK' => TypeOK'
  BY <1>1 DEF TypeOK
<1>4. CASE PongReceive
  <2>1. /\ echo = NoPing /\ toPong = <<count>> /\ toPong' = Tail(toPong)
        /\ echo' = Head(toPong) /\ UNCHANGED <<toPing, up>>
    BY <1>4 DEF PongReceive, OneOutstanding
  <2>2. toPong' = <<>> /\ echo' = count /\ toPing = <<>> /\ Travelling
    BY <2>1, Counts, Singleton DEF OneOutstanding, LinkEmpty, LostOnlyWhenClosed, Lost
  <2>3. LinkTypeOK'
    BY <2>1, <2>2, Counts DEF LinkTypeOK, Hand, TypeOK
  <2>4. OneOutstanding'
    BY <1>1, <2>1, <2>2, Counts, Singleton DEF OneOutstanding, LinkEmpty, Travelling,
       LostOnlyWhenClosed, Lost
  <2> QED
    BY <1>2, <1>3, <2>3, <2>4
<1>5. CASE PongReply
  <2>1. /\ echo = count /\ echo' = NoPing /\ UNCHANGED <<toPong, up>>
    BY <1>5 DEF PongReply, OneOutstanding
  <2>2. /\ echo # NoPing /\ toPong = <<>> /\ toPing = <<>> /\ Travelling
    BY <2>1, Counts DEF OneOutstanding, LinkEmpty, LostOnlyWhenClosed, Lost
  <2>3. toPing' = IF up THEN <<count>> ELSE <<>>
    BY <1>5, <2>1, <2>2, Counts, Singleton DEF PongReply
  <2>4. LinkTypeOK'
    BY <2>1, <2>2, <2>3, Counts, Singleton DEF LinkTypeOK, Hand, TypeOK
  <2>5. OneOutstanding'
    BY <1>1, <2>1, <2>2, <2>3, Counts, Singleton DEF OneOutstanding, LinkEmpty, Travelling,
       LostOnlyWhenClosed, Lost
  <2> QED
    BY <1>2, <1>3, <2>4, <2>5
<1>6. CASE LinkClose
  <2>1. PICK k \in 0..Len(toPong) : toPong' = SubSeq(toPong, 1, k)
    BY <1>6 DEF LinkClose
  <2>2. PICK l \in 0..Len(toPing) : toPing' = SubSeq(toPing, 1, l)
    BY <1>6 DEF LinkClose
  <2>3. up' = FALSE /\ echo' = echo
    BY <1>6 DEF LinkClose
  <2>4. toPong \in {<<>>, <<count>>} /\ toPing \in {<<>>, <<count>>}
    BY DEF OneOutstanding
  <2>5. /\ toPong' \in {<<>>, toPong} /\ toPong' \in Seq(Nat)
        /\ toPing' \in {<<>>, toPing} /\ toPing' \in Seq(Nat)
    BY <2>1, <2>2, <2>4, Counts, SingletonPrefix
  <2>6. LinkTypeOK'
    BY <2>3, <2>5 DEF LinkTypeOK, Hand, TypeOK
  <2>7. OneOutstanding'
    BY <1>1, <2>3, <2>5, Counts DEF OneOutstanding, LinkEmpty, Travelling, LostOnlyWhenClosed,
       Lost
  <2> QED
    BY <1>2, <1>3, <2>6, <2>7
<1>7. CASE Learn
  <2>1. prog.routed /\ up' = TRUE /\ UNCHANGED <<toPong, toPing, echo>>
    BY <1>7 DEF Learn
  <2>2. LinkTypeOK'
    BY <2>1 DEF LinkTypeOK, TypeOK
  <2>3. OneOutstanding'
    BY <1>1, <2>1 DEF OneOutstanding, LinkEmpty, Travelling, LostOnlyWhenClosed, Lost
  <2> QED
    BY <1>2, <1>3, <2>2, <2>3
<1> QED
  BY <1>4, <1>5, <1>6, <1>7 DEF Link

LEMMA StutterInv == QueryInv /\ UNCHANGED vars => QueryInv'
<1> SUFFICES ASSUME QueryInv, UNCHANGED vars PROVE QueryInv'
  OBVIOUS
<1> USE DEF QueryInv, vars, linkVars, barrierVars
<1>1. TypeOK'
  BY DEF TypeOK, LinkTypeOK
<1>2. OneOutstanding'
  BY DEF OneOutstanding, LinkEmpty, Travelling, LostOnlyWhenClosed, Lost
<1>3. BarrierInv' /\ HandlerInv' /\ ReportedInv' /\ NoPanicOnRemove'
  BY DEF BarrierInv, HandlerInv, ReportedInv, NoPanicOnRemove, MainReleased, MainWaits,
     HandlerReleased, HandlerWaits
<1> QED
  BY <1>1, <1>2, <1>3

LEMMA NextInv == QueryInv /\ [Next]_vars => QueryInv'
  BY InsertInv, SendInv, SendUnroutedInv, MainArriveInv, MainLeaveInv, RxRemoveInv, RxArriveInv,
     RxReportInv,
     LinkInv, StutterInv DEF Next, Finished

\* Where the one query outstanding is, and who waits in the barrier.
THEOREM InductiveInvariant == Spec => []QueryInv
  BY InitInv, NextInv, PTL DEF Spec

\* The handler of t_query never unwraps a missing entry.
THEOREM NeverPanicsOnRemove == Spec => []NoPanicOnRemove
<1>1. QueryInv => NoPanicOnRemove
  BY DEF QueryInv
<1> QED
  BY <1>1, InductiveInvariant, PTL

\* No thread inside the shared barrier is overtaken by a second generation.
THEOREM NeverOvertaken == Spec => []NotOvertaken
<1>1. QueryInv => NotOvertaken
  BY Counts DEF QueryInv, BarrierInv, HandlerInv, MainReleased, NotOvertaken
<1> QED
  BY <1>1, InductiveInvariant, PTL

\* A generation ends with the main loop of a query and the handler of its
\* own reply in the barrier.
THEOREM AlwaysReleasesPairs == Spec => ReleasePairs
<1>1. QueryInv /\ [Next]_vars =>
        [generation' # generation => pc \in {"arrive", "leave"} /\ rx = count]_vars
  <2> SUFFICES ASSUME QueryInv, [Next]_vars, generation' # generation
               PROVE  pc \in {"arrive", "leave"} /\ rx = count
    OBVIOUS
  <2> USE DEF QueryInv, BarrierInv, HandlerInv, MainReleased, MainWaits, HandlerWaits
  <2>1. CASE MainArrive
    BY <2>1, Counts DEF MainArrive, Arrive
  <2>2. CASE RxArrive
    BY <2>2, Counts DEF RxArrive, Arrive
  <2>3. ~(UNCHANGED vars) /\ ~Finished
    BY DEF Finished, vars, barrierVars
  <2>4. ~Insert /\ ~Send /\ ~SendUnrouted /\ ~MainLeave /\ ~RxRemove /\ ~RxReport /\ ~Link
    BY DEF Insert, Send, SendUnrouted, MainLeave, RxRemove, RxReport, Link, barrierVars
  <2> QED
    BY <2>1, <2>2, <2>3, <2>4 DEF Next
<1> QED
  BY <1>1, InductiveInvariant, PTL DEF Spec, ReleasePairs

\* While the transport of t_query is open, no query is lost.
THEOREM NothingLostWhileOpen == Spec => []LostOnlyWhenClosed
<1>1. QueryInv => LostOnlyWhenClosed
  BY DEF QueryInv, OneOutstanding
<1> QED
  BY <1>1, InductiveInvariant, PTL

\* A lost query keeps the main loop in the barrier for ever.
THEOREM LostHangsForEver == Spec => LostQueryHangs
<1>1. QueryInv /\ [Next]_vars => [Lost => Lost']_vars
  <2> SUFFICES ASSUME QueryInv, [Next]_vars, Lost PROVE Lost'
    OBVIOUS
  <2> USE DEF QueryInv
  <2>1. /\ pc \in {"arrive", "leave"} /\ count \in pending
        /\ toPong = <<>> /\ toPing = <<>> /\ echo = NoPing
    BY DEF Lost, Travelling, LinkEmpty
  <2>2. ~Insert /\ ~Send /\ ~SendUnrouted /\ ~MainLeave /\ ~RxRemove
    BY <2>1 DEF Insert, Send, SendUnrouted, MainLeave, RxRemove, HandlerInv, MainReleased
  <2>3. CASE MainArrive
    BY <2>1, <2>3 DEF MainArrive, linkVars, Lost, Travelling, LinkEmpty
  <2>4. CASE RxArrive \/ RxReport \/ Finished \/ UNCHANGED vars
    BY <2>1, <2>4 DEF RxArrive, RxReport, Finished, vars, linkVars, Lost, Travelling, LinkEmpty
  <2>5. CASE Link
    <3>1. UNCHANGED <<pc, count, pending>> /\ echo' = NoPing
      BY <2>1, <2>5 DEF Link, PongReceive, PongReply, LinkClose, Learn
    <3>2. toPong' = <<>> /\ toPing' = <<>>
      <4>1. CASE LinkClose
        BY <2>1, <4>1, Counts, SingletonPrefix DEF LinkClose
      <4>2. CASE Learn
        BY <2>1, <4>2 DEF Learn
      <4>3. ~PongReceive /\ ~PongReply
        BY <2>1 DEF PongReceive, PongReply
      <4> QED
        BY <2>5, <4>1, <4>2, <4>3 DEF Link
    <3> QED
      BY <2>1, <3>1, <3>2 DEF Lost, Travelling, LinkEmpty
  <2> QED
    BY <2>2, <2>3, <2>4, <2>5 DEF Next
<1> QED
  BY <1>1, InductiveInvariant, PTL DEF Spec, LostQueryHangs

\* Every behaviour of the programs is one of RoundTrip with at most two queries
\* outstanding: an Insert is an Issue, the println! of the handler a Report.
THEOREM RefinesRoundTrip == Spec => ImplementsRoundTrip
<1> DEFINE Issued == count + (IF pc = "insert" THEN 0 ELSE 1)
<1>1. Init => RT!Init
  BY DEF Init, RT!Init
<1>2. QueryInv /\ [Next]_vars => [RT!Next]_<<Issued, reported>>
  <2> SUFFICES ASSUME QueryInv, [Next]_vars
               PROVE  [RT!Next]_<<Issued, reported>>
    OBVIOUS
  <2> USE DEF QueryInv
  <2>1. CASE Insert
    BY <2>1, Counts DEF Insert, ReportedInv, BarrierInv, MainReleased, HandlerReleased,
       RT!Next, RT!Issue
  <2>2. CASE RxReport
    <3>1. /\ reported' = Append(reported, rx) /\ pc' = pc /\ count' = count
          /\ HandlerReleased
      BY <2>2 DEF RxReport, HandlerReleased
    <3>2. Len(reported) = generation - 1 /\ rx \in Nat /\ rxGen = rx
      BY <3>1, Counts DEF ReportedInv, BarrierInv, HandlerReleased
    <3>3. rx = generation - 1 /\ Len(reported) < Issued
      BY <3>1, <3>2, Counts DEF BarrierInv, HandlerInv, MainReleased, HandlerReleased
    <3> QED
      BY <3>1, <3>2, <3>3 DEF RT!Next, RT!Report
  <2>3. CASE MainLeave
    BY <2>3, Counts DEF MainLeave
  <2>4. CASE Send \/ SendUnrouted \/ MainArrive
    BY <2>4 DEF Send, SendUnrouted, MainArrive
  <2>5. CASE RxRemove \/ RxArrive \/ Link \/ Finished \/ UNCHANGED vars
    BY <2>5 DEF RxRemove, RxArrive, Link, Finished, vars
  <2> QED
    BY <2>1, <2>2, <2>3, <2>4, <2>5 DEF Next
<1> QED
  BY <1>1, <1>2, InductiveInvariant, PTL DEF Spec, ImplementsRoundTrip, RT!Spec
=============================================================================
