------------------------ MODULE PingSequentialProofs ------------------------
(***************************************************************************)
(* Proofs about PingSequential for every Capacity, MaxPings and            *)
(* LinkMayFail: the inductive invariant PingInv, the properties of the     *)
(* rendezvous that follow from it, and that the sequential pinger          *)
(* implements RoundTrip with a window of one ping.                         *)
(***************************************************************************)
EXTENDS PingSequential, SequenceTheorems, TLAPS

\* A prefix of a queue of at most one count is that queue or empty.
LEMMA SingletonPrefix ==
  ASSUME NEW c \in Nat, NEW s \in {<<>>, <<c>>}, NEW k \in 0..Len(s)
  PROVE  SubSeq(s, 1, k) \in {<<>>, s} /\ SubSeq(s, 1, k) \in Seq(Nat)
<1>1. s \in Seq(Nat) /\ k \in {0, Len(s)}
  <2>1. CASE s = <<>>
    BY <2>1
  <2>2. CASE s = <<c>>
    BY <2>2
  <2> QED
    BY <2>1, <2>2
<1>2. /\ SubSeq(s, 1, k) \in Seq(Nat) /\ Len(SubSeq(s, 1, k)) = k
      /\ \A i \in 1..k : SubSeq(s, 1, k)[i] = s[i]
  BY <1>1, k \in 0..Len(s)
<1> QED
  BY <1>1, <1>2, EmptySeq, SeqEqual

USE CapacityAssumption, MaxPingsAssumption, NoPingAssumption

\* The types the steps below compute with.
LEMMA Counts ==
  ASSUME TypeOK
  PROVE  /\ count \in Nat /\ count <= MaxPings /\ NoPing \notin Int
         /\ rx \in Pings \cup {NoPing}
         /\ arrived \in [Pings -> 0..2]
         /\ reported \in Seq(Nat) /\ Len(reported) \in Nat
         /\ <<count>> \in Seq(Nat) /\ <<count>> # <<>>
         /\ Head(<<count>>) = count /\ Tail(<<count>>) = <<>>
         /\ Append(<<>>, count) = <<count>>
         /\ \A c \in Pings : c \in Nat /\ c < MaxPings
         /\ count < MaxPings => count \in Pings
  BY DEF TypeOK, Pings

LEMMA InitInv == Init => PingInv
<1> SUFFICES ASSUME Init PROVE PingInv
  OBVIOUS
<1> USE DEF Init, LinkInit
<1>1. TypeOK
  <2>1. arrived \in [Pings -> 0..2]
    OBVIOUS
  <2>2. LinkTypeOK
    BY DEF LinkTypeOK, Hand
  <2>3. count \in 0..MaxPings /\ reported \in Seq(Nat)
    OBVIOUS
  <2> QED
    BY <2>1, <2>2, <2>3 DEF TypeOK
<1>2. OneOutstanding
  BY DEF OneOutstanding, LinkEmpty, Travelling
<1>3. BarrierInv
  BY DEF BarrierInv, HandlerArrivals, Released, Pings
<1>4. ReportedInv
  BY DEF ReportedInv
<1> QED
  BY <1>1, <1>2, <1>3, <1>4 DEF PingInv, NoPanicOnRemove

LEMMA InsertInv == PingInv /\ Insert => PingInv'
<1> SUFFICES ASSUME PingInv, Insert PROVE PingInv'
  OBVIOUS
<1> USE DEF PingInv
<1>1. /\ pc = "insert" /\ pc' = "send" /\ count < MaxPings
      /\ pending' = pending \cup {count}
      /\ UNCHANGED <<toPong, toPing, echo, up, count, arrived, rx, rxLeaving, reported, panic>>
  BY DEF Insert, linkVars
<1>2. TypeOK'
  BY <1>1, Counts DEF TypeOK, LinkTypeOK, Hand, Pings, OneOutstanding
<1>3. OneOutstanding'
  BY <1>1, Counts DEF OneOutstanding, LinkEmpty, Travelling, BarrierInv
<1>4. BarrierInv'
  BY <1>1, Counts DEF BarrierInv, HandlerArrivals, Released, OneOutstanding
<1>5. ReportedInv'
  BY <1>1, Counts DEF ReportedInv
<1> QED
  BY <1>1, <1>2, <1>3, <1>4, <1>5 DEF NoPanicOnRemove

LEMMA MainArriveInv == PingInv /\ MainArrive => PingInv'
<1> SUFFICES ASSUME PingInv, MainArrive PROVE PingInv'
  OBVIOUS
<1> USE DEF PingInv
<1>1. /\ pc = "arrive" /\ pc' = "leave"
      /\ arrived' = [arrived EXCEPT ![count] = @ + 1]
      /\ UNCHANGED <<toPong, toPing, echo, up, count, pending, rx, rxLeaving, reported, panic>>
  BY DEF MainArrive, Arrive, linkVars
<1>2. TypeOK'
  BY <1>1, Counts DEF TypeOK, LinkTypeOK, Hand, Pings, OneOutstanding
<1>3. OneOutstanding'
  BY <1>1, Counts DEF OneOutstanding, LinkEmpty, Travelling, BarrierInv
<1>4. BarrierInv'
  BY <1>1, Counts DEF BarrierInv, HandlerArrivals, Released, OneOutstanding
<1>5. ReportedInv'
  BY <1>1, Counts DEF ReportedInv
<1> QED
  BY <1>1, <1>2, <1>3, <1>4, <1>5 DEF NoPanicOnRemove

LEMMA MainLeaveInv == PingInv /\ MainLeave => PingInv'
<1> SUFFICES ASSUME PingInv, MainLeave PROVE PingInv'
  OBVIOUS
<1> USE DEF PingInv
<1>1. /\ pc = "leave" /\ pc' = "print" /\ arrived[count] = 2
      /\ UNCHANGED <<toPong, toPing, echo, up, count, pending, arrived, rx, rxLeaving, reported, panic>>
  BY DEF MainLeave, Released, linkVars
<1>2. TypeOK'
  BY <1>1, Counts DEF TypeOK, LinkTypeOK, Hand, Pings, OneOutstanding
<1>3. OneOutstanding'
  <2>1. count \notin pending
    BY <1>1, Counts DEF BarrierInv, HandlerArrivals
  <2> QED
    BY <1>1, <2>1, Counts DEF OneOutstanding, LinkEmpty, Travelling, BarrierInv
<1>4. BarrierInv'
  BY <1>1, Counts DEF BarrierInv, HandlerArrivals, Released, OneOutstanding
<1>5. ReportedInv'
  BY <1>1, Counts DEF ReportedInv
<1> QED
  BY <1>1, <1>2, <1>3, <1>4, <1>5 DEF NoPanicOnRemove

LEMMA PrintLatencyInv == PingInv /\ PrintLatency => PingInv'
<1> SUFFICES ASSUME PingInv, PrintLatency PROVE PingInv'
  OBVIOUS
<1> USE DEF PingInv
<1>1. /\ pc = "print" /\ pc' = "sleep"
      /\ reported' = Append(reported, count)
      /\ UNCHANGED <<toPong, toPing, echo, up, count, pending, arrived, rx, rxLeaving, panic>>
  BY DEF PrintLatency, linkVars
<1>2. TypeOK'
  BY <1>1, Counts, AppendProperties, LenProperties DEF TypeOK, LinkTypeOK, Hand, Pings, OneOutstanding
<1>3. OneOutstanding'
  BY <1>1, Counts, AppendProperties, LenProperties DEF OneOutstanding, LinkEmpty, Travelling, BarrierInv
<1>4. BarrierInv'
  BY <1>1, Counts, AppendProperties, LenProperties DEF BarrierInv, HandlerArrivals, Released, OneOutstanding
<1>5. ReportedInv'
  BY <1>1, Counts, AppendProperties, LenProperties DEF ReportedInv
<1> QED
  BY <1>1, <1>2, <1>3, <1>4, <1>5 DEF NoPanicOnRemove

LEMMA SleepInv == PingInv /\ Sleep => PingInv'
<1> SUFFICES ASSUME PingInv, Sleep PROVE PingInv'
  OBVIOUS
<1> USE DEF PingInv
<1>1. /\ pc = "sleep" /\ pc' = "insert" /\ count' = count + 1
      /\ UNCHANGED <<toPong, toPing, echo, up, pending, arrived, rx, rxLeaving, reported, panic>>
  BY DEF Sleep, linkVars
<1>2. TypeOK'
  BY <1>1, Counts DEF TypeOK, LinkTypeOK, Hand, Pings, OneOutstanding
<1>3. OneOutstanding'
  BY <1>1, Counts DEF OneOutstanding, LinkEmpty, Travelling, BarrierInv
<1>4. BarrierInv'
  <2>1. count \notin pending /\ arrived[count] = 2
    BY <1>1 DEF OneOutstanding, BarrierInv, Released
  <2>2. rx # NoPing => rx = count /\ rxLeaving
    BY <1>1, <2>1 DEF BarrierInv
  <2>3. \A c \in Pings : c > count => arrived[c] = 0
    BY DEF BarrierInv
  <2>4. pending = {}
    BY <2>1 DEF OneOutstanding
  <2>5. count' - 1 = count /\ rx \in Pings \cup {NoPing} /\ rx # count'
    BY <1>1, <2>2, Counts
  <2>6. count' < MaxPings => arrived[count'] = 0
    BY <1>1, <2>3, Counts DEF Pings
  <2>7. \A c \in Pings : c > count' => arrived[c] = 0
    BY <1>1, <2>3, Counts
  <2>8. rx # NoPing => rx = count' - 1 /\ arrived[rx] = 2
    BY <2>1, <2>2, <2>5
  <2>9. rx = count' - 1 => rx # NoPing
    BY <2>5, Counts
  <2> QED
    BY <1>1, <2>2, <2>5, <2>6, <2>7, <2>8, <2>9
       DEF BarrierInv, HandlerArrivals, Released
<1>5. ReportedInv'
  BY <1>1, Counts DEF ReportedInv
<1> QED
  BY <1>1, <1>2, <1>3, <1>4, <1>5 DEF NoPanicOnRemove

LEMMA RxRemoveInv == PingInv /\ RxRemove => PingInv'
<1> SUFFICES ASSUME PingInv, RxRemove PROVE PingInv'
  OBVIOUS
<1> USE DEF PingInv
<1>1. /\ rx = NoPing /\ toPing # <<>> /\ toPing' = Tail(toPing)
      /\ pending' = pending \ {Head(toPing)}
      /\ UNCHANGED <<toPong, echo, up, pc, count, arrived, rxLeaving, reported>>
  BY DEF RxRemove
<1>2. toPing = <<count>> /\ count \in pending /\ pc \in {"arrive", "leave"}
  BY <1>1 DEF OneOutstanding, LinkEmpty, Travelling
<1>3. Head(toPing) = count /\ toPing' = <<>>
  BY <1>1, <1>2, Counts
<1>4. rx' = count /\ panic' = panic
  BY <1>2, <1>3 DEF RxRemove
<1>5. TypeOK'
  BY <1>1, <1>2, <1>3, <1>4, Counts DEF TypeOK, LinkTypeOK, Hand, Pings, OneOutstanding
<1>6. OneOutstanding'
  BY <1>1, <1>2, <1>3, <1>4, Counts DEF OneOutstanding, LinkEmpty, Travelling, BarrierInv
<1>7. BarrierInv'
  BY <1>1, <1>2, <1>3, <1>4, Counts DEF BarrierInv, HandlerArrivals, Released, OneOutstanding
<1>8. ReportedInv'
  BY <1>1, <1>2, <1>3, <1>4, Counts DEF ReportedInv
<1> QED
  BY <1>1, <1>2, <1>3, <1>4, <1>5, <1>6, <1>7, <1>8 DEF NoPanicOnRemove

LEMMA RxArriveInv == PingInv /\ RxArrive => PingInv'
<1> SUFFICES ASSUME PingInv, RxArrive PROVE PingInv'
  OBVIOUS
<1> USE DEF PingInv
<1>1. /\ rx # NoPing /\ ~rxLeaving /\ rxLeaving' = TRUE
      /\ arrived' = [arrived EXCEPT ![rx] = @ + 1]
      /\ UNCHANGED <<toPong, toPing, echo, up, pc, count, pending, rx, reported, panic>>
  BY DEF RxArrive, Arrive, linkVars
<1>2. rx = count /\ count \notin pending /\ pc \in {"arrive", "leave"}
  BY <1>1 DEF BarrierInv
<1>3. TypeOK'
  BY <1>1, <1>2, Counts DEF TypeOK, LinkTypeOK, Hand, Pings, OneOutstanding
<1>4. OneOutstanding'
  BY <1>1, <1>2, Counts DEF OneOutstanding, LinkEmpty, Travelling, BarrierInv
<1>5. BarrierInv'
  BY <1>1, <1>2, Counts DEF BarrierInv, HandlerArrivals, Released, OneOutstanding
<1>6. ReportedInv'
  BY <1>1, <1>2, Counts DEF ReportedInv
<1> QED
  BY <1>1, <1>2, <1>3, <1>4, <1>5, <1>6 DEF NoPanicOnRemove

LEMMA RxLeaveInv == PingInv /\ RxLeave => PingInv'
<1> SUFFICES ASSUME PingInv, RxLeave PROVE PingInv'
  OBVIOUS
<1> USE DEF PingInv
<1>1. /\ rx # NoPing /\ rxLeaving /\ arrived[rx] = 2 /\ rx' = NoPing /\ rxLeaving' = FALSE
      /\ UNCHANGED <<toPong, toPing, echo, up, pc, count, pending, arrived, reported, panic>>
  BY DEF RxLeave, Released, linkVars
<1>2. TypeOK'
  BY <1>1, Counts DEF TypeOK, LinkTypeOK, Hand, Pings, OneOutstanding
<1>3. OneOutstanding'
  BY <1>1, Counts DEF OneOutstanding, LinkEmpty, Travelling, BarrierInv
<1>4. BarrierInv'
  BY <1>1, Counts DEF BarrierInv, HandlerArrivals, Released, OneOutstanding
<1>5. ReportedInv'
  BY <1>1, Counts DEF ReportedInv
<1> QED
  BY <1>1, <1>2, <1>3, <1>4, <1>5 DEF NoPanicOnRemove

LEMMA SendInv == PingInv /\ Send => PingInv'
<1> SUFFICES ASSUME PingInv, Send PROVE PingInv'
  OBVIOUS
<1> USE DEF PingInv
<1>1. /\ pc = "send"
      /\ UNCHANGED <<count, pending, arrived, rx, rxLeaving, reported>>
  BY DEF Send
<1>2. CASE PingSend(count) /\ pc' = "arrive" /\ UNCHANGED panic
  <2>1. /\ toPong' = Append(toPong, count) /\ UNCHANGED <<toPing, echo, up>>
    BY <1>2 DEF PingSend
  <2>2. toPong = <<>> /\ toPing = <<>> /\ echo = NoPing /\ count \in pending
    BY <1>1 DEF OneOutstanding, LinkEmpty, Travelling
  <2>3. toPong' = <<count>>
    BY <2>1, <2>2, Counts
  <2>4. TypeOK'
    BY <1>1, <1>2, <2>1, <2>3, Counts DEF TypeOK, LinkTypeOK
  <2>5. OneOutstanding'
    BY <1>1, <1>2, <2>1, <2>2, <2>3, Counts DEF OneOutstanding, LinkEmpty, Travelling
  <2>6. BarrierInv'
    BY <1>1, <1>2, <2>1, <2>2, Counts DEF BarrierInv, HandlerArrivals, Released, OneOutstanding
  <2>7. ReportedInv'
    BY <1>1, <1>2 DEF ReportedInv
  <2> QED
    BY <1>2, <2>4, <2>5, <2>6, <2>7 DEF NoPanicOnRemove
<1>3. CASE ~up /\ panic' = "send" /\ UNCHANGED <<linkVars, pc>>
  <2>1. UNCHANGED <<toPong, toPing, echo, up, pc>>
    BY <1>3 DEF linkVars
  <2> QED
    BY <1>1, <1>3, <2>1 DEF TypeOK, LinkTypeOK, OneOutstanding, LinkEmpty, Travelling,
       BarrierInv, HandlerArrivals, Released, ReportedInv, NoPanicOnRemove
<1> QED
  BY <1>2, <1>3 DEF Send

LEMMA LinkInv == PingInv /\ Link => PingInv'
<1> SUFFICES ASSUME PingInv, Link PROVE PingInv'
  OBVIOUS
<1> USE DEF PingInv
<1>1. UNCHANGED <<pc, count, pending, arrived, rx, rxLeaving, reported, panic>>
  BY DEF Link
<1>2. BarrierInv' /\ ReportedInv' /\ NoPanicOnRemove'
  BY <1>1 DEF BarrierInv, HandlerArrivals, Released, ReportedInv, NoPanicOnRemove
<1>3. LinkTypeOK' => TypeOK'
  BY <1>1 DEF TypeOK
<1>4. CASE PongReceive
  <2>1. /\ echo = NoPing /\ toPong = <<count>> /\ toPong' = Tail(toPong)
        /\ echo' = Head(toPong) /\ UNCHANGED <<toPing, up>>
    BY <1>4 DEF PongReceive, OneOutstanding
  <2>2. toPong' = <<>> /\ echo' = count /\ toPing = <<>> /\ Travelling
    BY <2>1, Counts DEF OneOutstanding, LinkEmpty
  <2>3. LinkTypeOK'
    BY <2>1, <2>2, Counts DEF LinkTypeOK, Hand, TypeOK
  <2>4. OneOutstanding'
    BY <1>1, <2>1, <2>2, Counts DEF OneOutstanding, LinkEmpty, Travelling
  <2> QED
    BY <1>2, <1>3, <2>3, <2>4
<1>5. CASE PongReply
  <2>1. /\ echo = count /\ echo' = NoPing /\ UNCHANGED <<toPong, up>>
    BY <1>5 DEF PongReply, OneOutstanding
  <2>2. /\ echo # NoPing /\ toPong = <<>> /\ toPing = <<>> /\ Travelling
    BY <2>1, Counts DEF OneOutstanding, LinkEmpty
  <2>3. toPing' = IF up THEN <<count>> ELSE <<>>
    BY <1>5, <2>1, <2>2, Counts DEF PongReply
  <2>4. LinkTypeOK'
    BY <2>1, <2>2, <2>3, Counts DEF LinkTypeOK, Hand, TypeOK
  <2>5. OneOutstanding'
    BY <1>1, <2>1, <2>2, <2>3, Counts DEF OneOutstanding, LinkEmpty, Travelling
  <2> QED
    BY <1>2, <1>3, <2>4, <2>5
<1>6. CASE LinkClose
  <2>1. PICK k \in 0..Len(toPong) : toPong' = SubSeq(toPong, 1, k)
    BY <1>6 DEF LinkClose
  <2>2. PICK l \in 0..Len(toPing) : toPing' = SubSeq(toPing, 1, l)
    BY <1>6 DEF LinkClose
  <2>3. up' = FALSE /\ echo' = echo
    BY <1>6 DEF LinkClose
  <2>4. toPong \in {<<>>, <<count>>} /\ toPing \in {<<>>, <<count>>}
    BY DEF OneOutstanding
  <2>5. /\ toPong' \in {<<>>, toPong} /\ toPong' \in Seq(Nat)
        /\ toPing' \in {<<>>, toPing} /\ toPing' \in Seq(Nat)
    BY <2>1, <2>2, <2>4, Counts, SingletonPrefix
  <2>6. LinkTypeOK'
    BY <2>3, <2>5 DEF LinkTypeOK, Hand, TypeOK
  <2>7. OneOutstanding'
    BY <1>1, <2>3, <2>5, Counts DEF OneOutstanding, LinkEmpty, Travelling
  <2> QED
    BY <1>2, <1>3, <2>6, <2>7
<1> QED
  BY <1>4, <1>5, <1>6 DEF Link

LEMMA StutterInv == PingInv /\ UNCHANGED vars => PingInv'
<1> SUFFICES ASSUME PingInv, UNCHANGED vars PROVE PingInv'
  OBVIOUS
<1> USE DEF PingInv, vars, linkVars
<1>1. TypeOK'
  BY DEF TypeOK, LinkTypeOK
<1>2. OneOutstanding'
  BY DEF OneOutstanding, LinkEmpty, Travelling
<1>3. BarrierInv'
  BY DEF BarrierInv, HandlerArrivals, Released
<1>4. ReportedInv' /\ NoPanicOnRemove'
  BY DEF ReportedInv, NoPanicOnRemove
<1> QED
  BY <1>1, <1>2, <1>3, <1>4

LEMMA NextInv == PingInv /\ [Next]_vars => PingInv'
  BY InsertInv, SendInv, MainArriveInv, MainLeaveInv, PrintLatencyInv, SleepInv,
     RxRemoveInv, RxArriveInv, RxLeaveInv, LinkInv, StutterInv DEF Next, Finished

\* Where the one ping outstanding is, and who has reached its barrier.
THEOREM InductiveInvariant == Spec => []PingInv
  BY InitInv, NextInv, PTL DEF Spec

\* The handler of the sequential pinger never unwraps a missing barrier.
THEOREM NeverPanicsOnRemove == Spec => []NoPanicOnRemove
<1>1. PingInv => NoPanicOnRemove
  BY DEF PingInv
<1> QED
  BY <1>1, InductiveInvariant, PTL

\* No latency is taken before the pong it measures.
THEOREM AlwaysMeasuredAfterPong == Spec => []MeasuredAfterPong
<1>1. PingInv => MeasuredAfterPong
  BY DEF PingInv, OneOutstanding, MeasuredAfterPong
<1> QED
  BY <1>1, InductiveInvariant, PTL

\* The two threads never block at different barriers.
THEOREM AlwaysSameBarrier == Spec => []SameBarrier
<1>1. PingInv => SameBarrier
  BY DEF PingInv, BarrierInv, SameBarrier
<1> QED
  BY <1>1, InductiveInvariant, PTL

\* While the transport is open the main loop's pong is on its way to it.
THEOREM AlwaysAnswered == Spec => []WaitIsAnswered
<1>1. PingInv => WaitIsAnswered
  <2> SUFFICES ASSUME PingInv, up, pc \in {"arrive", "leave"},
                      rx # count, ~Released(count)
               PROVE  count \in OnTheLink
    BY DEF WaitIsAnswered
  <2> USE DEF PingInv
  <2>1. count \in pending
    BY DEF BarrierInv, HandlerArrivals, Released
  <2>2. ~LinkEmpty
    BY <2>1 DEF OneOutstanding, Travelling
  <2>3. toPong = <<count>> \/ toPing = <<count>> \/ (echo = count /\ echo # NoPing)
    BY <2>2, Counts DEF OneOutstanding, LinkEmpty
  <2> QED
    BY <2>3, Counts DEF OnTheLink
<1> QED
  BY <1>1, InductiveInvariant, PTL

\* A main loop whose pong is lost stays at its barrier for ever.
THEOREM LostPongStaysLost == Spec => LostPongHangs
<1>1. PingInv /\ LostPong /\ [Next]_vars => LostPong'
  <2> SUFFICES ASSUME PingInv, LostPong, [Next]_vars
               PROVE  LostPong'
    OBVIOUS
  <2> USE DEF PingInv, LostPong
  <2>1. /\ count \in pending /\ arrived[count] = 1
    BY Counts DEF BarrierInv, HandlerArrivals, Released
  <2>2. toPong = <<>> /\ toPing = <<>> /\ echo = NoPing
    BY Counts DEF OneOutstanding, OnTheLink
  <2>3. rx # NoPing => rxLeaving
    BY DEF BarrierInv
  <2>4. CASE RxLeave
    BY <2>2, <2>4, Counts DEF RxLeave, linkVars, Released, OnTheLink
  <2>5. CASE UNCHANGED vars
    BY <2>5 DEF vars, linkVars, Released, OnTheLink
  <2>6. ~RxRemove /\ ~RxArrive /\ ~Link /\ ~MainLeave
    BY <2>2, <2>3 DEF RxRemove, RxArrive, Link, MainLeave, PongReceive, PongReply, LinkClose
  <2>7. ~Insert /\ ~Send /\ ~MainArrive /\ ~PrintLatency /\ ~Sleep
    BY DEF Insert, Send, MainArrive, PrintLatency, Sleep
  <2> QED
    BY <2>4, <2>5, <2>6, <2>7 DEF Next, Finished
<1> QED
  BY <1>1, InductiveInvariant, PTL DEF Spec, LostPongHangs

\* Every behaviour of the sequential pinger is one of RoundTrip with at most
\* one ping outstanding: an Insert is an Issue, a println! is a Report.
THEOREM RefinesRoundTrip == Spec => ImplementsRoundTrip
<1> DEFINE Issued == count + (IF pc = "insert" THEN 0 ELSE 1)
<1>1. Init => RT!Init
  BY DEF Init, RT!Init
<1>2. PingInv /\ [Next]_vars => [RT!Next]_<<Issued, reported>>
  <2> SUFFICES ASSUME PingInv, [Next]_vars
               PROVE  [RT!Next]_<<Issued, reported>>
    OBVIOUS
  <2> USE DEF PingInv
  <2>1. CASE Insert
    BY <2>1, Counts DEF Insert, ReportedInv, RT!Next, RT!Issue
  <2>2. CASE PrintLatency
    BY <2>2, Counts DEF PrintLatency, ReportedInv, RT!Next, RT!Report
  <2>3. CASE Sleep
    BY <2>3, Counts DEF Sleep
  <2>4. CASE Send \/ MainArrive \/ MainLeave
    BY <2>4 DEF Send, MainArrive, MainLeave
  <2>5. CASE RxRemove \/ RxArrive \/ RxLeave \/ Link \/ Finished \/ UNCHANGED vars
    BY <2>5 DEF RxRemove, RxArrive, RxLeave, Link, Finished, vars
  <2> QED
    BY <2>1, <2>2, <2>3, <2>4, <2>5 DEF Next
<1> QED
  BY <1>1, <1>2, InductiveInvariant, PTL DEF Spec, ImplementsRoundTrip, RT!Spec
=============================================================================
