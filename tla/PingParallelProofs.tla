------------------------- MODULE PingParallelProofs -------------------------
(***************************************************************************)
(* Proofs about PingParallel for every Capacity, MaxPings and LinkMayFail: *)
(* the inductive invariant PingInv, what follows from it, and that the     *)
(* parallel pinger implements RoundTrip.                                   *)
(***************************************************************************)
EXTENDS PingParallel, SequenceTheorems, FiniteSetTheorems, TLAPS

\* What Append does to a sequence of counts.
LEMMA AppendFacts ==
  ASSUME NEW s \in Seq(Nat), NEW c \in Nat
  PROVE  /\ Append(s, c) \in Seq(Nat)
         /\ Len(Append(s, c)) = Len(s) + 1
         /\ Len(s) \in Nat
         /\ \A i \in 1..Len(s) : Append(s, c)[i] = s[i]
         /\ Append(s, c)[Len(s) + 1] = c
  OBVIOUS

\* What Head and Tail do to a sequence of counts that is not empty.
LEMMA TailFacts ==
  ASSUME NEW s \in Seq(Nat), s # <<>>
  PROVE  /\ Tail(s) \in Seq(Nat)
         /\ Len(s) \in Nat \ {0}
         /\ Len(Tail(s)) = Len(s) - 1
         /\ Head(s) \in Nat
         /\ Head(s) = s[1]
         /\ \A i \in 1..Len(Tail(s)) : Tail(s)[i] = s[i + 1]
  OBVIOUS

\* What is left of a sequence of counts when a suffix of it is lost.
LEMMA PrefixFacts ==
  ASSUME NEW s \in Seq(Nat), NEW k \in 0..Len(s)
  PROVE  /\ SubSeq(s, 1, k) \in Seq(Nat)
         /\ Len(SubSeq(s, 1, k)) = k
         /\ \A i \in 1..k : SubSeq(s, 1, k)[i] = s[i]
  OBVIOUS

\* Consecutive counts stay consecutive when the next one is appended.
LEMMA CountsAppend ==
  ASSUME NEW s \in Seq(Nat), NEW a \in Nat, CountsFrom(s, a)
  PROVE  CountsFrom(Append(s, a + Len(s)), a)
<1> DEFINE t == Append(s, a + Len(s))
<1>1. Len(s) \in Nat /\ a + Len(s) \in Nat
  OBVIOUS
<1>2. /\ Len(t) = Len(s) + 1
      /\ t[Len(s) + 1] = a + Len(s)
      /\ \A i \in 1..Len(s) : t[i] = s[i]
  BY <1>1, AppendFacts
<1>3. ASSUME NEW i \in 1..Len(t)
      PROVE  t[i] = a + i - 1
  <2>1. CASE i \in 1..Len(s)
    BY <1>2, <2>1 DEF CountsFrom
  <2>2. CASE i = Len(s) + 1
    BY <1>1, <1>2, <2>2
  <2> HIDE DEF t
  <2> QED
    BY <1>1, <1>2, <1>3, <2>1, <2>2
<1> QED
  BY <1>3 DEF CountsFrom

\* The head of consecutive counts is the first, the rest follows it.
LEMMA CountsTail ==
  ASSUME NEW s \in Seq(Nat), NEW a \in Nat, CountsFrom(s, a), s # <<>>
  PROVE  Head(s) = a /\ CountsFrom(Tail(s), a + 1)
<1>1. Head(s) = a
  BY TailFacts DEF CountsFrom
<1>2. CountsFrom(Tail(s), a + 1)
  <2> SUFFICES ASSUME NEW i \in 1..Len(Tail(s))
               PROVE  Tail(s)[i] = (a + 1) + i - 1
    BY DEF CountsFrom
  <2>1. Tail(s)[i] = s[i + 1] /\ i + 1 \in 1..Len(s)
    BY TailFacts
  <2> QED
    BY <2>1 DEF CountsFrom
<1> QED
  BY <1>1, <1>2

\* A prefix of consecutive counts is consecutive.
LEMMA CountsPrefix ==
  ASSUME NEW s \in Seq(Nat), NEW a \in Nat, CountsFrom(s, a), NEW k \in 0..Len(s)
  PROVE  CountsFrom(SubSeq(s, 1, k), a)
  BY PrefixFacts DEF CountsFrom

\* The elements of consecutive counts are an interval.
LEMMA CountsSet ==
  ASSUME NEW s \in Seq(Nat), NEW a \in Nat, CountsFrom(s, a)
  PROVE  {s[i] : i \in 1..Len(s)} = a..(a + Len(s) - 1)
<1>1. Len(s) \in Nat
  OBVIOUS
<1>2. ASSUME NEW x \in a..(a + Len(s) - 1)
      PROVE  \E i \in 1..Len(s) : s[i] = x
  <2>1. x - a + 1 \in 1..Len(s)
    BY <1>1
  <2>2. s[x - a + 1] = x
    BY <1>1, <2>1 DEF CountsFrom
  <2> QED
    BY <2>1, <2>2
<1>3. ASSUME NEW i \in 1..Len(s)
      PROVE  s[i] \in a..(a + Len(s) - 1)
  BY <1>1 DEF CountsFrom
<1> QED
  BY <1>2, <1>3
-----------------------------------------------------------------------------

USE CapacityAssumption, MaxPingsAssumption, NoPingAssumption

\* The queues and the output are sequences of counts.
LEMMA Queues ==
  ASSUME TypeOK
  PROVE  toPong \in Seq(Nat) /\ toPing \in Seq(Nat) /\ reported \in Seq(Nat)
  BY DEF TypeOK, LinkTypeOK

\* The positions on the loop are natural numbers, in the order of the loop.
LEMMA Positions ==
  ASSUME TypeOK
  PROVE  /\ Len(toPong) \in Nat /\ Len(toPing) \in Nat /\ Len(reported) \in Nat
         /\ FirstToPing \in Nat /\ EchoCount \in Nat /\ FirstToPong \in Nat
         /\ count \in Nat /\ Sent \in Nat /\ Issued \in Nat
         /\ EchoCount = FirstToPing + Len(toPing)
         /\ FirstToPong = EchoCount + Held(echo)
         /\ Held(echo) \in 0..1 /\ Held(rx) \in 0..1
         /\ Sent <= Issued /\ Issued <= Sent + 1
<1>1. Len(toPong) \in Nat /\ Len(toPing) \in Nat /\ Len(reported) \in Nat
  BY Queues
<1>2. Held(echo) \in 0..1 /\ Held(rx) \in 0..1
  BY DEF Held
<1>3. FirstToPing \in Nat /\ EchoCount \in Nat /\ FirstToPong \in Nat
  BY <1>1, <1>2 DEF FirstToPing, EchoCount, FirstToPong
<1>4. count \in Nat
  BY DEF TypeOK
<1>5. /\ Sent \in Nat /\ Issued \in Nat
      /\ Sent <= Issued /\ Issued <= Sent + 1
  BY <1>4 DEF TypeOK, Sent, Issued
<1> QED
  BY <1>1, <1>2, <1>3, <1>4, <1>5 DEF EchoCount, FirstToPong

LEMMA InitInv == Init => PingInv
<1> SUFFICES ASSUME Init PROVE PingInv
  OBVIOUS
<1> USE DEF Init, LinkInit
<1>1. TypeOK
  BY DEF TypeOK, LinkTypeOK, Hand
<1>2. LoopInOrder
  BY DEF LoopInOrder, CountsFrom, Held, FirstToPing, EchoCount, FirstToPong, Sent
<1>3. PendingInOrder
  BY DEF PendingInOrder, Held, FirstToPing, EchoCount, Sent, Issued
<1>4. Bounds
  BY DEF Bounds, Held, FirstToPing, Sent
<1>5. NoPanicOnRemove
  BY DEF NoPanicOnRemove
<1> QED
  BY <1>1, <1>2, <1>3, <1>4, <1>5 DEF PingInv

LEMMA InsertInv == PingInv /\ Insert => PingInv'
<1> SUFFICES ASSUME PingInv, Insert PROVE PingInv'
  OBVIOUS
<1> USE DEF PingInv
<1>1. /\ pc = "insert" /\ pc' = "send" /\ count < MaxPings
      /\ pending' = pending \cup {count}
      /\ UNCHANGED <<toPong, toPing, echo, up, count, rx, reported, panic>>
  BY DEF Insert, linkVars
<1>2. TypeOK'
  BY <1>1 DEF TypeOK, LinkTypeOK
<1>3. /\ FirstToPing' = FirstToPing /\ EchoCount' = EchoCount
      /\ FirstToPong' = FirstToPong /\ Sent' = Sent
      /\ Sent = count /\ Issued = count /\ Issued' = count + 1
  BY <1>1, Positions DEF FirstToPing, EchoCount, FirstToPong, Held, Sent, Issued
<1>4. LoopInOrder'
  BY <1>1, <1>3 DEF LoopInOrder, CountsFrom
<1>5. PendingInOrder'
  <2>1. pending' = FirstToPing..count
    BY <1>1, <1>3, Positions DEF PendingInOrder
  <2> QED
    BY <1>3, <2>1, Positions DEF PendingInOrder
<1>6. Bounds'
  BY <1>1, <1>3 DEF Bounds
<1>7. NoPanicOnRemove'
  BY <1>1 DEF NoPanicOnRemove
<1> QED
  BY <1>2, <1>4, <1>5, <1>6, <1>7

LEMMA SendInv == PingInv /\ Send => PingInv'
<1> SUFFICES ASSUME PingInv, Send PROVE PingInv'
  OBVIOUS
<1> USE DEF PingInv
<1>1. pc = "send" /\ UNCHANGED <<count, pending, rx, reported>>
  BY DEF Send
<1>2. CASE PingSend(count) /\ pc' = "sleep" /\ UNCHANGED panic
  <2>1. /\ up /\ Len(toPong) < Capacity
        /\ toPong' = Append(toPong, count)
        /\ UNCHANGED <<toPing, echo, up>>
    BY <1>2 DEF PingSend
  <2>2. /\ toPong' \in Seq(Nat)
        /\ Len(toPong') = Len(toPong) + 1
    BY <2>1, Queues, Positions, AppendFacts
  <2>3. TypeOK'
    BY <1>1, <1>2, <2>1, <2>2 DEF TypeOK, LinkTypeOK
  <2>4. /\ FirstToPing' = FirstToPing /\ EchoCount' = EchoCount
        /\ FirstToPong' = FirstToPong /\ Issued' = Issued
        /\ Sent = count /\ Sent' = count + 1 /\ Issued = count + 1
    BY <1>1, <1>2, <2>1, Positions
       DEF FirstToPing, EchoCount, FirstToPong, Held, Sent, Issued
  <2>5. count = FirstToPong + Len(toPong)
    BY <2>1, <2>4 DEF LoopInOrder
  <2>6. CountsFrom(toPong', FirstToPong)
    BY <2>1, <2>5, Queues, Positions, CountsAppend DEF LoopInOrder
  <2>7. LoopInOrder'
    <3>1. FirstToPong' + Len(toPong') = Sent'
      BY <2>2, <2>4, <2>5, Positions
    <3> QED
      BY <1>1, <2>1, <2>4, <2>6, <3>1 DEF LoopInOrder
  <2>8. PendingInOrder'
    BY <1>1, <2>4, Positions DEF PendingInOrder
  <2>9. Bounds'
    <3>1. Sent' - FirstToPing' <= 2 * Capacity + 1
      <4>1. Len(toPing) <= Capacity
        BY DEF Bounds
      <4>2. /\ FirstToPing \in Nat /\ EchoCount \in Nat /\ FirstToPong \in Nat
            /\ Len(toPing) \in Nat /\ Len(toPong) \in Nat /\ count \in Nat
            /\ EchoCount = FirstToPing + Len(toPing) /\ FirstToPong <= EchoCount + 1
        BY Positions
      <4>3. Capacity \in Nat /\ 2 * Capacity = Capacity + Capacity
        OBVIOUS
      <4>4. count + 1 <= FirstToPing + Capacity + Capacity + 1
        BY <2>1, <2>5, <4>1, <4>2, <4>3
      <4> QED
        BY <2>4, <4>2, <4>3, <4>4
    <3> QED
      BY <1>1, <1>2, <2>1, <2>2, <3>1, Positions DEF Bounds
  <2> QED
    BY <1>2, <2>3, <2>7, <2>8, <2>9 DEF NoPanicOnRemove
<1>3. CASE ~up /\ panic' = "send" /\ UNCHANGED <<linkVars, pc>>
  <2>1. UNCHANGED <<toPong, toPing, echo, up, pc>>
    BY <1>3 DEF linkVars
  <2>2. TypeOK'
    BY <1>1, <1>3, <2>1 DEF TypeOK, LinkTypeOK
  <2>3. LoopInOrder' /\ PendingInOrder' /\ Bounds'
    BY <1>1, <2>1 DEF LoopInOrder, PendingInOrder, Bounds, CountsFrom, Held,
       FirstToPing, EchoCount, FirstToPong, Sent, Issued
  <2> QED
    BY <1>3, <2>2, <2>3 DEF NoPanicOnRemove
<1> QED
  BY <1>2, <1>3 DEF Send

LEMMA SleepInv == PingInv /\ Sleep => PingInv'
<1> SUFFICES ASSUME PingInv, Sleep PROVE PingInv'
  OBVIOUS
<1> USE DEF PingInv
<1>1. /\ pc = "sleep" /\ pc' = "insert" /\ count' = count + 1
      /\ UNCHANGED <<toPong, toPing, echo, up, pending, rx, reported, panic>>
  BY DEF Sleep, linkVars
<1>2. TypeOK'
  BY <1>1 DEF TypeOK, LinkTypeOK, Bounds
<1>3. /\ FirstToPing' = FirstToPing /\ EchoCount' = EchoCount
      /\ FirstToPong' = FirstToPong /\ Sent' = Sent /\ Issued' = Issued
  BY <1>1, Positions DEF FirstToPing, EchoCount, FirstToPong, Held, Sent, Issued
<1>4. LoopInOrder' /\ PendingInOrder' /\ Bounds'
  BY <1>1, <1>3 DEF LoopInOrder, PendingInOrder, Bounds, CountsFrom
<1> QED
  BY <1>1, <1>2, <1>4 DEF NoPanicOnRemove

\* The count at the head of toPing is the oldest one pending: the entry the
\* handler looks for is there.
LEMMA HeadIsPending ==
  ASSUME PingInv, rx = NoPing, toPing # <<>>
  PROVE  Head(toPing) = Len(reported) /\ Head(toPing) \in pending
<1> USE DEF PingInv
<1>1. FirstToPing = Len(reported)
  BY Positions DEF FirstToPing, Held
<1>2. Head(toPing) = FirstToPing
  BY Queues, Positions, CountsTail DEF LoopInOrder
<1>3. FirstToPing <= Issued - 1
  BY Queues, Positions, TailFacts DEF PendingInOrder
<1> QED
  BY <1>1, <1>2, <1>3, Positions DEF PendingInOrder

LEMMA RxRemoveInv == PingInv /\ RxRemove => PingInv'
<1> SUFFICES ASSUME PingInv, RxRemove PROVE PingInv'
  OBVIOUS
<1> USE DEF PingInv
<1>1. /\ toPing # <<>> /\ rx = NoPing
      /\ toPing' = Tail(toPing)
      /\ pending' = pending \ {Head(toPing)}
      /\ UNCHANGED <<toPong, echo, up, pc, count, reported>>
  BY DEF RxRemove
<1>2. rx' = Len(reported) /\ UNCHANGED panic /\ Head(toPing) = Len(reported)
  BY <1>1, HeadIsPending DEF RxRemove
<1>3. /\ toPing' \in Seq(Nat)
      /\ Len(toPing') = Len(toPing) - 1
  BY <1>1, Queues, Positions, TailFacts
<1>4. TypeOK'
  BY <1>1, <1>2, <1>3, Positions DEF TypeOK, LinkTypeOK, Hand
<1>5. /\ FirstToPing = Len(reported) /\ FirstToPing' = FirstToPing + 1
      /\ EchoCount' = EchoCount /\ FirstToPong' = FirstToPong
      /\ Sent' = Sent /\ Issued' = Issued
  <2>1. Held(rx) = 0 /\ Held(rx') = 1
    BY <1>1, <1>2, Positions DEF Held
  <2>2. FirstToPing = Len(reported) /\ FirstToPing' = Len(reported) + 1
    BY <1>1, <2>1, Positions DEF FirstToPing
  <2>3. EchoCount' = EchoCount
    BY <1>3, <2>2, Positions DEF EchoCount
  <2> QED
    BY <1>1, <2>2, <2>3 DEF FirstToPong, Held, Sent, Issued
<1>6. CountsFrom(toPing', FirstToPing')
  BY <1>1, <1>5, Queues, Positions, CountsTail DEF LoopInOrder
<1>7. LoopInOrder'
  BY <1>1, <1>2, <1>5, <1>6 DEF LoopInOrder, CountsFrom
<1>8. PendingInOrder'
  <2>1. pending = FirstToPing..(Issued - 1) /\ pending' = pending \ {FirstToPing}
    BY <1>1, <1>2, <1>5 DEF PendingInOrder
  <2>2. FirstToPing \in Nat /\ Issued \in Nat
    BY Positions
  <2>3. pending' = (FirstToPing + 1)..(Issued - 1)
    BY <2>1, <2>2
  <2>4. EchoCount' <= Sent'
    BY <1>5 DEF PendingInOrder
  <2> QED
    BY <1>5, <2>3, <2>4 DEF PendingInOrder
<1>9. Bounds'
  <2>1. Sent' - FirstToPing' <= 2 * Capacity + 1
    <3>1. Sent - FirstToPing <= 2 * Capacity + 1
      BY DEF Bounds
    <3>2. Sent \in Nat /\ FirstToPing \in Nat /\ 2 * Capacity \in Nat
      BY Positions
    <3> QED
      BY <1>5, <3>1, <3>2
  <2>2. Len(toPing') <= Capacity
    BY <1>3, Positions DEF Bounds
  <2> QED
    BY <1>1, <2>1, <2>2 DEF Bounds
<1> QED
  BY <1>2, <1>4, <1>7, <1>8, <1>9 DEF NoPanicOnRemove

LEMMA RxPrintInv == PingInv /\ RxPrint => PingInv'
<1> SUFFICES ASSUME PingInv, RxPrint PROVE PingInv'
  OBVIOUS
<1> USE DEF PingInv
<1>1. /\ rx # NoPing /\ rx = Len(reported) /\ rx' = NoPing
      /\ reported' = Append(reported, Len(reported))
      /\ UNCHANGED <<toPong, toPing, echo, up, pc, count, pending, panic>>
  BY DEF RxPrint, LoopInOrder, linkVars
<1>2. /\ reported' \in Seq(Nat)
      /\ Len(reported') = Len(reported) + 1
  BY <1>1, Queues, Positions, AppendFacts
<1>3. TypeOK'
  BY <1>1, <1>2 DEF TypeOK, LinkTypeOK, Hand
<1>4. /\ FirstToPing' = FirstToPing /\ EchoCount' = EchoCount
      /\ FirstToPong' = FirstToPong /\ Sent' = Sent /\ Issued' = Issued
  <2>1. Held(rx) = 1 /\ Held(rx') = 0
    BY <1>1 DEF Held
  <2>2. FirstToPing' = FirstToPing
    BY <1>2, <2>1, Positions DEF FirstToPing
  <2> QED
    BY <1>1, <2>2 DEF EchoCount, FirstToPong, Held, Sent, Issued
<1>5. CountsFrom(reported', 0)
  BY <1>1, Queues, Positions, CountsAppend DEF LoopInOrder
<1>6. LoopInOrder' /\ PendingInOrder' /\ Bounds'
  BY <1>1, <1>4, <1>5 DEF LoopInOrder, PendingInOrder, Bounds, CountsFrom
<1> QED
  BY <1>1, <1>3, <1>6 DEF NoPanicOnRemove

LEMMA LinkInv == PingInv /\ Link => PingInv'
<1> SUFFICES ASSUME PingInv, Link PROVE PingInv'
  OBVIOUS
<1> USE DEF PingInv
<1>0. UNCHANGED <<pc, count, pending, rx, reported, panic>>
  BY DEF Link
<1>1. CASE PongReceive
  <2>1. /\ echo = NoPing /\ toPong # <<>>
        /\ echo' = Head(toPong) /\ toPong' = Tail(toPong)
        /\ UNCHANGED <<toPing, up>>
    BY <1>1 DEF PongReceive
  <2>2. /\ toPong' \in Seq(Nat)
        /\ Len(toPong') = Len(toPong) - 1
        /\ echo' \in Nat
    BY <2>1, Queues, Positions, TailFacts
  <2>3. TypeOK'
    BY <1>0, <2>1, <2>2 DEF TypeOK, LinkTypeOK, Hand
  <2>4. /\ FirstToPing' = FirstToPing /\ EchoCount' = EchoCount
        /\ FirstToPong = EchoCount /\ FirstToPong' = FirstToPong + 1
        /\ Sent' = Sent /\ Issued' = Issued
    <3>1. Held(echo) = 0 /\ Held(echo') = 1
      BY <2>1, <2>2 DEF Held
    <3>2. FirstToPing' = FirstToPing /\ EchoCount' = EchoCount
      BY <1>0, <2>1 DEF FirstToPing, EchoCount, Held
    <3>3. FirstToPong = EchoCount /\ FirstToPong' = FirstToPong + 1
      BY <3>1, <3>2, Positions DEF FirstToPong
    <3> QED
      BY <1>0, <3>2, <3>3 DEF Sent, Issued
  <2>5. up => echo' = EchoCount /\ CountsFrom(toPong', FirstToPong')
    BY <2>1, <2>4, Queues, Positions, CountsTail DEF LoopInOrder
  <2>6. LoopInOrder'
    <3>1. up => FirstToPong' + Len(toPong') = Sent'
      <4>1. up => FirstToPong + Len(toPong) = Sent
        BY DEF LoopInOrder
      <4>2. FirstToPong \in Nat /\ Len(toPong) \in Nat /\ Sent \in Nat
        BY Positions
      <4> QED
        BY <2>2, <2>4, <4>1, <4>2
    <3>2. CountsFrom(toPing', FirstToPing') /\ CountsFrom(reported', 0)
      BY <1>0, <2>1, <2>4 DEF LoopInOrder
    <3> QED
      BY <1>0, <2>1, <2>4, <2>5, <3>1, <3>2 DEF LoopInOrder
  <2>7. PendingInOrder' /\ Bounds'
    BY <1>0, <2>1, <2>2, <2>4, Positions DEF PendingInOrder, Bounds
  <2> QED
    BY <1>0, <2>3, <2>6, <2>7 DEF NoPanicOnRemove
<1>2. CASE PongReply
  <2>1. echo \in Nat /\ echo # NoPing /\ echo' = NoPing /\ UNCHANGED <<toPong, up>>
    BY <1>2 DEF PongReply, TypeOK, LinkTypeOK, Hand
  <2>2. CASE up
    <3>1. Len(toPing) < Capacity /\ toPing' = Append(toPing, echo)
      BY <1>2, <2>2 DEF PongReply
    <3>2. toPing' \in Seq(Nat) /\ Len(toPing') = Len(toPing) + 1
      BY <2>1, <3>1, Queues, Positions, AppendFacts
    <3>3. TypeOK'
      BY <1>0, <2>1, <3>2 DEF TypeOK, LinkTypeOK, Hand
    <3>4. /\ FirstToPing' = FirstToPing /\ EchoCount' = EchoCount + 1
          /\ FirstToPong' = FirstToPong /\ FirstToPong = EchoCount + 1
          /\ Sent' = Sent /\ Issued' = Issued
      <4>1. Held(echo) = 1 /\ Held(echo') = 0
        BY <2>1 DEF Held
      <4>2. FirstToPing' = FirstToPing
        BY <1>0 DEF FirstToPing, Held
      <4>3. EchoCount' = EchoCount + 1 /\ FirstToPong = EchoCount + 1
        BY <3>2, <4>1, <4>2, Positions DEF EchoCount
      <4>4. FirstToPong' = FirstToPong
        BY <4>1, <4>3, Positions DEF FirstToPong
      <4> QED
        BY <1>0, <4>2, <4>3, <4>4 DEF Sent, Issued
    <3>5. echo = FirstToPing + Len(toPing)
      BY <2>1, <2>2, Positions DEF LoopInOrder
    <3>6. CountsFrom(toPing', FirstToPing)
      BY <3>1, <3>5, Queues, Positions, CountsAppend DEF LoopInOrder
    <3>7. LoopInOrder'
      BY <1>0, <2>1, <3>4, <3>6 DEF LoopInOrder, CountsFrom
    <3>8. PendingInOrder'
      BY <1>0, <2>2, <3>4, Positions DEF PendingInOrder, LoopInOrder
    <3>9. Bounds'
      BY <1>0, <2>1, <3>1, <3>2, <3>4, Positions DEF Bounds
    <3> QED
      BY <1>0, <3>3, <3>7, <3>8, <3>9 DEF NoPanicOnRemove
  <2>3. CASE ~up
    <3>1. toPing' = toPing
      BY <1>2, <2>3 DEF PongReply
    <3>2. TypeOK'
      BY <1>0, <2>1, <3>1 DEF TypeOK, LinkTypeOK, Hand
    <3>3. LoopInOrder' /\ PendingInOrder' /\ Bounds'
      BY <1>0, <2>1, <2>3, <3>1 DEF LoopInOrder, PendingInOrder, Bounds, CountsFrom,
         Held, FirstToPing, EchoCount, Sent, Issued
    <3> QED
      BY <1>0, <3>2, <3>3 DEF NoPanicOnRemove
  <2> QED
    BY <2>2, <2>3
<1>3. CASE LinkClose
  <2>1. PICK k \in 0..Len(toPong) : toPong' = SubSeq(toPong, 1, k)
    BY <1>3 DEF LinkClose
  <2>2. PICK l \in 0..Len(toPing) : toPing' = SubSeq(toPing, 1, l)
    BY <1>3 DEF LinkClose
  <2>3. up' = FALSE /\ echo' = echo
    BY <1>3 DEF LinkClose
  <2>4. /\ toPong' \in Seq(Nat) /\ Len(toPong') = k
        /\ toPing' \in Seq(Nat) /\ Len(toPing') = l
    BY <2>1, <2>2, Queues, Positions, PrefixFacts
  <2>5. TypeOK'
    BY <1>0, <2>3, <2>4 DEF TypeOK, LinkTypeOK, Hand
  <2>6. /\ FirstToPing' = FirstToPing /\ EchoCount' <= EchoCount
        /\ Sent' = Sent /\ Issued' = Issued
    BY <1>0, <2>2, <2>4, Positions DEF FirstToPing, EchoCount, Held, Sent, Issued
  <2>7. CountsFrom(toPing', FirstToPing)
    BY <2>2, Queues, Positions, CountsPrefix DEF LoopInOrder
  <2>8. LoopInOrder'
    BY <1>0, <2>3, <2>6, <2>7 DEF LoopInOrder, CountsFrom
  <2>9. PendingInOrder'
    <3>1. EchoCount' = FirstToPing + l
      BY <2>4, <2>6, Positions DEF EchoCount
    <3>2. EchoCount' <= Sent'
      <4>1. l \in Nat /\ l <= Len(toPing)
        BY <2>2, Positions
      <4>2. EchoCount <= Sent
        BY DEF PendingInOrder
      <4> QED
        BY <2>6, <3>1, <4>1, <4>2, Positions
    <3> QED
      BY <1>0, <2>6, <3>2 DEF PendingInOrder
  <2>10. Bounds'
    <3>1. Len(toPong') <= Capacity /\ Len(toPing') <= Capacity
      <4>1. Len(toPong) \in Nat /\ Len(toPing) \in Nat
        BY Positions
      <4>2. k <= Len(toPong) /\ l <= Len(toPing) /\ k \in Nat /\ l \in Nat
        BY <4>1
      <4> QED
        BY <2>4, <4>1, <4>2 DEF Bounds
    <3> QED
      BY <1>0, <2>6, <3>1 DEF Bounds
  <2> QED
    BY <1>0, <2>5, <2>8, <2>9, <2>10 DEF NoPanicOnRemove
<1> QED
  BY <1>1, <1>2, <1>3 DEF Link

LEMMA StutterInv == PingInv /\ UNCHANGED vars => PingInv'
<1> SUFFICES ASSUME PingInv, UNCHANGED vars PROVE PingInv'
  OBVIOUS
<1> USE DEF PingInv, vars, linkVars
<1>1. TypeOK'
  BY DEF TypeOK, LinkTypeOK
<1>2. /\ FirstToPing' = FirstToPing /\ EchoCount' = EchoCount
      /\ FirstToPong' = FirstToPong /\ Sent' = Sent /\ Issued' = Issued
  BY DEF FirstToPing, EchoCount, FirstToPong, Held, Sent, Issued
<1>3. LoopInOrder' /\ PendingInOrder' /\ Bounds'
  BY <1>2 DEF LoopInOrder, PendingInOrder, Bounds, CountsFrom
<1> QED
  BY <1>1, <1>3 DEF NoPanicOnRemove

LEMMA NextInv == PingInv /\ [Next]_vars => PingInv'
  BY InsertInv, SendInv, SleepInv, RxRemoveInv, RxPrintInv, LinkInv, StutterInv
     DEF Next, Finished

\* The positions of the pings on the loop, in every behaviour of PingParallel.
THEOREM InductiveInvariant == Spec => []PingInv
  BY InitInv, NextInv, PTL DEF Spec

\* The handler of the parallel pinger never unwraps a missing entry, whatever
\* the sizes of the queues and whenever the transport closes.
THEOREM NeverPanicsOnRemove == Spec => []NoPanicOnRemove
<1>1. PingInv => NoPanicOnRemove
  BY DEF PingInv
<1> QED
  BY <1>1, InductiveInvariant, PTL

\* The map of the parallel pinger never holds more entries than the blocking
\* sends let through.
THEOREM PendingIsBounded == Spec => []PendingBounded
<1>1. PingInv => PendingBounded
  <2> SUFFICES ASSUME PingInv PROVE PendingBounded
    OBVIOUS
  <2> USE DEF PingInv
  <2>1. FirstToPing \in Nat /\ Issued \in Nat /\ Sent \in Nat
    BY Positions
  <2>2. Issued - FirstToPing <= 2 * Capacity + 2
    <3>1. Issued <= Sent + 1 /\ Sent - FirstToPing <= 2 * Capacity + 1
      BY Positions DEF Bounds
    <3> QED
      BY <2>1, <3>1
  <2>3. pending = FirstToPing..(Issued - 1)
    BY DEF PendingInOrder
  <2>4. Cardinality(pending) = IF FirstToPing > Issued - 1 THEN 0
                                 ELSE (Issued - 1) - FirstToPing + 1
    BY <2>1, <2>3, FS_Interval
  <2> QED
    BY <2>1, <2>2, <2>4 DEF PendingBounded
<1> QED
  BY <1>1, InductiveInvariant, PTL

\* While the transport is open the map holds exactly the pings in flight.
THEOREM PendingAlwaysInFlight == Spec => []PendingIsInFlight
<1>1. PingInv => PendingIsInFlight
  <2> SUFFICES ASSUME PingInv, up
               PROVE  pending = OnTheLink \cup (IF pc = "send" THEN {count} ELSE {})
    BY DEF PendingIsInFlight
  <2> USE DEF PingInv
  <2> DEFINE A == {toPing[i] : i \in 1..Len(toPing)}
             B == {echo} \ {NoPing}
             C == {toPong[i] : i \in 1..Len(toPong)}
             D == IF pc = "send" THEN {count} ELSE {}
  <2>0. /\ FirstToPing \in Nat /\ EchoCount \in Nat /\ FirstToPong \in Nat
        /\ Len(toPing) \in Nat /\ Len(toPong) \in Nat /\ Sent \in Nat
        /\ EchoCount = FirstToPing + Len(toPing)
        /\ FirstToPong = EchoCount + Held(echo)
    BY Positions
  <2>1. A = FirstToPing..(EchoCount - 1)
    <3>1. CountsFrom(toPing, FirstToPing) /\ toPing \in Seq(Nat)
      BY Queues DEF LoopInOrder
    <3>2. A = FirstToPing..(FirstToPing + Len(toPing) - 1)
      BY <2>0, <3>1, CountsSet
    <3> HIDE DEF A
    <3> QED
      BY <2>0, <3>2
  <2>2. B = EchoCount..(FirstToPong - 1)
    <3>1. CASE echo = NoPing
      BY <2>0, <3>1 DEF Held
    <3>2. CASE echo # NoPing
      <4>1. echo = EchoCount /\ FirstToPong = EchoCount + 1
        BY <2>0, <3>2 DEF Held, LoopInOrder
      <4> QED
        BY <2>0, <3>2, <4>1
    <3> QED
      BY <3>1, <3>2
  <2>3. FirstToPong + Len(toPong) = Sent
    BY DEF LoopInOrder
  <2>4. C = FirstToPong..(Sent - 1)
    <3>1. CountsFrom(toPong, FirstToPong) /\ toPong \in Seq(Nat)
      BY Queues DEF LoopInOrder
    <3>2. C = FirstToPong..(FirstToPong + Len(toPong) - 1)
      BY <2>0, <3>1, CountsSet
    <3> HIDE DEF C
    <3> QED
      BY <2>0, <2>3, <3>2
  <2>5. D = Sent..(Issued - 1)
    <3>1. count \in Nat /\ pc \in {"insert", "send", "sleep"}
      BY Positions DEF TypeOK
    <3>2. CASE pc = "send"
      BY <3>1, <3>2 DEF Sent, Issued
    <3>3. CASE pc = "insert" \/ pc = "sleep"
      BY <3>1, <3>3 DEF Sent, Issued
    <3> QED
      BY <3>1, <3>2, <3>3
  <2>6. Held(echo) \in 0..1 /\ Issued \in Nat /\ Sent <= Issued
    BY Positions
  <2> HIDE DEF A, B, C, D
  <2>7. A \cup B \cup C \cup D = FirstToPing..(Issued - 1)
    <3>1. FirstToPing <= EchoCount /\ EchoCount <= FirstToPong /\ FirstToPong <= Sent
      BY <2>0, <2>3, <2>6
    <3>2. A \cup B = FirstToPing..(FirstToPong - 1)
      BY <2>0, <2>1, <2>2, <3>1
    <3>3. C \cup D = FirstToPong..(Issued - 1)
      BY <2>0, <2>4, <2>5, <2>6, <3>1
    <3>4. FirstToPong <= Issued
      BY <2>0, <2>6, <3>1
    <3>5. (A \cup B) \cup (C \cup D) = FirstToPing..(Issued - 1)
      <4> HIDE <2>1, <2>2, <2>4, <2>5
      <4> QED
        BY <2>0, <2>6, <3>1, <3>2, <3>3, <3>4
    <3> QED
      BY <3>5
  <2>8. pending = A \cup B \cup C \cup D
    BY <2>7 DEF PendingInOrder
  <2> USE DEF A, B, C, D
  <2> QED
    BY <2>8 DEF OnTheLink
<1> QED
  BY <1>1, InductiveInvariant, PTL

\* Every behaviour of the parallel pinger is one of RoundTrip: an Insert is an
\* Issue, a println! is a Report, and every other step is invisible.
THEOREM RefinesRoundTrip == Spec => ImplementsRoundTrip
<1>1. Init => RT!Init
  BY DEF Init, RT!Init, Issued
<1>2. PingInv /\ [Next]_vars => [RT!Next]_<<Issued, reported>>
  <2> SUFFICES ASSUME PingInv, [Next]_vars
               PROVE  [RT!Next]_<<Issued, reported>>
    OBVIOUS
  <2> USE DEF PingInv
  <2>1. CASE Insert
    <3>1. pc = "insert" /\ pc' = "send" /\ UNCHANGED <<count, reported>> /\ count < MaxPings
      BY <2>1 DEF Insert
    <3>2. Issued = count /\ Issued' = Issued + 1 /\ Sent = count
      BY <3>1, Positions DEF Issued, Sent
    <3>3. Issued - Len(reported) < ParallelWindow
      <4>1. Sent - FirstToPing <= 2 * Capacity + 1
        BY DEF Bounds
      <4>2. FirstToPing <= Len(reported) + 1 /\ Sent \in Nat /\ Len(reported) \in Nat
            /\ FirstToPing \in Nat
        BY Positions DEF FirstToPing
      <4> QED
        BY <3>2, <4>1, <4>2 DEF ParallelWindow
    <3> QED
      BY <3>1, <3>2, <3>3 DEF RT!Next, RT!Issue
  <2>2. CASE RxPrint
    <3>1. rx # NoPing /\ rx = Len(reported) /\ reported' = Append(reported, Len(reported))
      BY <2>2 DEF RxPrint, LoopInOrder
    <3>2. Issued' = Issued
      BY <2>2 DEF RxPrint, Issued
    <3>3. Len(reported) < Issued
      <4>1. FirstToPing = Len(reported) + 1
        BY <3>1, Positions DEF FirstToPing, Held
      <4>2. FirstToPing <= EchoCount /\ EchoCount <= Sent /\ Sent <= Issued
        BY Positions DEF PendingInOrder
      <4>3. /\ Len(reported) \in Nat /\ EchoCount \in Nat
            /\ Sent \in Nat /\ Issued \in Nat
        BY Positions
      <4> QED
        BY <4>1, <4>2, <4>3
    <3> QED
      BY <3>1, <3>2, <3>3 DEF RT!Next, RT!Report
  <2>3. CASE Send \/ Sleep \/ RxRemove \/ Link \/ Finished \/ UNCHANGED vars
    <3>1. reported' = reported
      BY <2>3 DEF Send, Sleep, RxRemove, Link, Finished, vars
    <3>2. Issued' = Issued
      <4>1. CASE Send
        BY <4>1 DEF Send, Issued
      <4>2. CASE Sleep
        BY <4>2, Positions DEF Sleep, Issued
      <4>3. CASE RxRemove \/ Link \/ Finished \/ UNCHANGED vars
        BY <4>3 DEF RxRemove, Link, Finished, vars, Issued
      <4> QED
        BY <2>3, <4>1, <4>2, <4>3
    <3> QED
      BY <3>1, <3>2
  <2> QED
    BY <2>1, <2>2, <2>3 DEF Next
<1> QED
  BY <1>1, <1>2, InductiveInvariant, PTL DEF Spec, ImplementsRoundTrip, RT!Spec
=============================================================================
