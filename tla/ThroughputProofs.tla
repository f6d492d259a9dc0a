-------------------------- MODULE ThroughputProofs --------------------------
(***************************************************************************)
(* Proofs about Throughput for every set of processes, every setup of      *)
(* them, every capacity and every bound: the inductive invariant ThrInv,   *)
(* what follows from it, and that every counter implements Tally.          *)
(***************************************************************************)
EXTENDS Throughput, TLAPS

USE BoundsAssumption, NoLineAssumption

\* The records of a setup.
LEMMA Setup ==
  ASSUME setup \in Setups
  PROVE  /\ setup.out.perLink \in BOOLEAN /\ setup.out.retries \in BOOLEAN
         /\ setup.out.prints \in BOOLEAN /\ setup.in.onTransport = setup.out.perLink
         /\ setup.rounds \in Nat
         /\ \A p \in Procs : setup.connect[p] \in SUBSET Procs
  <1>1. setup \in [out : Publishers, in : Subscribers, connect : [Procs -> SUBSET Procs],
                   rounds : Nat]
    BY SetupsAssumption
  <1> QED
    BY <1>1, PairsAssumption DEF Publishers, Subscribers

LEMMA EndsOf == \A p \in Procs : <<"in", p>> \in Ends /\ <<"out", p>> \in Ends
  BY DEF Ends

LEMMA LinksOf == \A p, s \in Procs : <<p, s>> \in Links
  BY DEF Links

LEMMA EndTypes ==
  ASSUME TypeOK, NEW p \in Procs
  PROVE  /\ counter[<<"in", p>>] \in Nat /\ counter[<<"in", p>>] + 1 \in Nat
         /\ counter[<<"out", p>>] \in Nat /\ counter[<<"out", p>>] + 1 \in Nat
         /\ \A n \in Nat : counter[<<"in", p>>] + n \in Nat
         /\ reporters[<<"in", p>>] \in Nat /\ reporters[<<"in", p>>] + 1 \in Nat
  <1>1. <<"in", p>> \in Ends /\ <<"out", p>> \in Ends
    BY EndsOf
  <1> QED
    BY <1>1 DEF TypeOK

\* What the actions of an exit have in common.
LEMMA Exits ==
  ASSUME NEW p \in Procs, Usage(p) \/ OpenFails(p) \/ SendFails(p) \/ PublishFails(p)
  PROVE  Exit(p)
  BY DEF Usage, OpenFails, SendFails, PublishFails

\* A scaled figure: a natural number, and not below the count.
LEMMA FigureNat ==
  ASSUME NEW n \in Nat, NEW e \in Nat
  PROVE  (n * e) \div Second \in Nat
  <1>1. n * e \in Nat
    OBVIOUS
  <1> QED
    BY <1>1

LEMMA FigureAtLeast ==
  ASSUME NEW n \in Nat, NEW e \in Nat, e >= Second
  PROVE  (n * e) \div Second >= n
  <1> DEFINE q == (n * e) \div Second
  <1>1. n * e \in Nat /\ n * e >= n * Second
    OBVIOUS
  <1>2. q \in Nat /\ n * e < (q + 1) * Second
    BY <1>1
  <1>3. SUFFICES ASSUME q < n PROVE FALSE
    BY <1>2
  <1>4. (q + 1) * Second <= n * Second
    BY <1>2, <1>3
  <1> QED
    BY <1>1, <1>2, <1>4

LEMMA InitInv == Init => ThrInv
<1> SUFFICES ASSUME Init PROVE ThrInv
  OBVIOUS
<1> USE DEF Init
<1>1. TypeOK
  <2>1. todo \in [Procs -> SUBSET Procs]
    BY Setup
  <2> QED
    BY <2>1 DEF TypeOK, Open
<1>2. CountedOnce
  BY EndsOf DEF CountedOnce, Counted, Held, Ends
<1>3. LineInv
  BY DEF LineInv
<1>4. RouteInv
  BY DEF RouteInv
<1>5. ReporterInv
  <2>1. \A s \in Procs : reporters[<<"in", s>>] = 0
    BY EndsOf
  <2> QED
    BY <2>1 DEF ReporterInv
<1>6. LinkInv
  <2> SUFFICES ASSUME NEW p \in Procs, NEW s \in setup.connect[p]
               PROVE  RoundsOnLink(p, s)
    BY DEF LinkInv
  <2>1. <<p, s>> \in Links
    BY LinksOf, Setup
  <2>2. rounds[p] = 0 /\ OnLink(p, s) = 0
    BY <2>1 DEF OnLink
  <2>3. pub[p] # "sending" /\ link[<<p, s>>] \notin Open
    BY <2>1 DEF Open
  <2> QED
    BY <2>2, <2>3 DEF RoundsOnLink
<1> QED
  BY <1>1, <1>2, <1>3, <1>4, <1>5, <1>6 DEF ThrInv

\* Every step keeps the types.
LEMMA TypeStep == TypeOK /\ [Next]_vars => TypeOK'
<1> SUFFICES ASSUME TypeOK, [Next]_vars PROVE TypeOK'
  OBVIOUS
<1> USE DEF TypeOK, pubVars, subVars, linkVars, countVars, lineVars
<1>1. ASSUME NEW s \in Procs, Listen(s) \/ SetCallbacks(s) PROVE TypeOK'
  <2>1. reporters' \in [Ends -> Nat]
    BY <1>1 DEF Listen, SetCallbacks, Report
  <2>2. sub' \in [Procs -> {"off", "new", "subscribed", "ready"}]
    BY <1>1 DEF Listen, SetCallbacks
  <2> QED
    BY <1>1, <2>1, <2>2 DEF Listen, SetCallbacks
<1>2. ASSUME NEW s \in Procs, OtherPrimitive(s) PROVE TypeOK'
  <2>1. counter' \in [Ends -> Nat]
    BY <1>2, EndTypes DEF OtherPrimitive
  <2>2. received' \in [Procs -> Nat] /\ other' \in [Procs -> Nat]
    BY <1>2 DEF OtherPrimitive
  <2> QED
    BY <1>2, <2>1, <2>2 DEF OtherPrimitive
<1>3. ASSUME NEW p \in Procs, Exit(p) PROVE TypeOK'
  BY <1>3 DEF Exit
<1>4. ASSUME NEW p \in Procs, OpenTransport(p) PROVE TypeOK'
  <2>1. PICK s \in Procs : /\ todo' = [todo EXCEPT ![p] = @ \ {s}]
                           /\ link' = [link EXCEPT ![<<p, s>>] = "opened"]
    BY <1>4 DEF OpenTransport
  <2> QED
    BY <1>4, <2>1, LinksOf DEF OpenTransport, Open
<1>5. ASSUME NEW p \in Procs, Begin(p) PROVE TypeOK'
  <2>1. reporters' \in [Ends -> Nat]
    BY <1>5 DEF Begin
  <2>2. todo' \in [Procs -> SUBSET Procs]
    BY <1>5, Setup DEF Begin
  <2> QED
    BY <1>5, <2>1, <2>2 DEF Begin
<1>6. ASSUME NEW p \in Procs, Send(p) PROVE TypeOK'
  <2>1. PICK s \in Procs : /\ queue[<<p, s>>] < Capacity
                           /\ todo' = [todo EXCEPT ![p] = @ \ {s}]
                           /\ queue' = [queue EXCEPT ![<<p, s>>] = @ + 1]
    BY <1>6 DEF Send
  <2>2. queue' \in [Links -> 0..Capacity]
    BY <2>1, LinksOf
  <2> QED
    BY <1>6, <2>1, <2>2 DEF Send
<1>7. ASSUME NEW p \in Procs, Publish(p) PROVE TypeOK'
  <2>1. \A l \in Links : queue'[l] = queue[l] \/ (queue[l] < Capacity /\ queue'[l] = queue[l] + 1)
    BY <1>7 DEF Publish, Links
  <2>2. queue' \in [Links -> 0..Capacity]
    BY <1>7, <2>1 DEF Publish
  <2> QED
    BY <1>7, <2>2 DEF Publish
<1>8. ASSUME NEW p \in Procs, EndRound(p) PROVE TypeOK'
  <2>1. counter' \in [Ends -> Nat]
    BY <1>8, EndTypes DEF EndRound
  <2>2. todo' \in [Procs -> SUBSET Procs] /\ rounds' \in [Procs -> Nat]
    BY <1>8, Setup DEF EndRound
  <2> QED
    BY <1>8, <2>1, <2>2 DEF EndRound
<1>9. ASSUME NEW p \in Procs, NEW s \in Procs, Accept(p, s) PROVE TypeOK'
  <2>1. link' \in [Links -> Open \cup {"none", "closed"}]
    <3>1. PICK t \in Open : link' = [link EXCEPT ![<<p, s>>] = t]
      BY <1>9 DEF Accept, Open
    <3> QED
      BY <3>1
  <2>2. accepting' \in SUBSET Links /\ active' \in [Procs -> BOOLEAN]
    BY <1>9, LinksOf DEF Accept
  <2> QED
    BY <1>9, <2>1, <2>2 DEF Accept
<1>10. ASSUME NEW p \in Procs, NEW s \in Procs, Spawn(p, s) PROVE TypeOK'
  <2>1. link' \in [Links -> Open \cup {"none", "closed"}]
    BY <1>10, LinksOf DEF Spawn, Open
  <2>2. reporters' \in [Ends -> Nat]
    BY <1>10, EndTypes DEF Spawn
  <2> QED
    BY <1>10, <2>1, <2>2 DEF Spawn
<1>11. ASSUME NEW p \in Procs, NEW s \in Procs, Deliver(p, s) PROVE TypeOK'
  <2>1. queue' \in [Links -> 0..Capacity] /\ delivered' \in [Links -> Nat]
    BY <1>11, LinksOf DEF Deliver
  <2>2. counter' \in [Ends -> Nat]
    <3>1. PICK n \in {0, 1} : counter' = [counter EXCEPT ![<<"in", s>>] = @ + n]
      BY <1>11 DEF Deliver
    <3>2. counter[<<"in", s>>] + n \in Nat
      BY EndTypes
    <3> QED
      BY <3>1, <3>2
  <2>3. received' \in [Procs -> Nat]
    BY <1>11 DEF Deliver
  <2> QED
    BY <1>11, <2>1, <2>2, <2>3 DEF Deliver
<1>12. ASSUME NEW p \in Procs, NEW s \in Procs, LearnRoute(p, s) PROVE TypeOK'
  BY <1>12, LinksOf DEF LearnRoute, Open
<1>13. ASSUME NEW p \in Procs, NEW s \in Procs, Close(p, s) PROVE TypeOK'
  BY <1>13, LinksOf DEF Close, Open
<1>14. ASSUME NEW c \in Ends, Swap(c) PROVE TypeOK'
  <2>1. PICK d \in Late(c) : line' = [line EXCEPT ![c] = [count |-> counter[c],
                                                        elapsed |-> Second + d]]
    BY <1>14 DEF Swap
  <2>2. [count |-> counter[c], elapsed |-> Second + d] \in [count : Nat, elapsed : Nat]
    BY <2>1 DEF Late
  <2>3. line' \in [Ends -> [count : Nat, elapsed : Nat] \cup {NoLine}]
    BY <2>1, <2>2
  <2>4. counter' \in [Ends -> Nat]
    BY <1>14 DEF Swap
  <2> QED
    BY <1>14, <2>3, <2>4 DEF Swap
<1>15. ASSUME NEW c \in Ends, PrintLine(c) PROVE TypeOK'
  <2>1. line[c] \in [count : Nat, elapsed : Nat]
    BY <1>15 DEF PrintLine
  <2>2. Figure(c) \in Nat
    BY <2>1, FigureNat DEF Figure
  <2>3. printed' \in [Ends -> Nat]
    BY <1>15, <2>1 DEF PrintLine
  <2>4. claimed' \in [Ends -> Nat]
    BY <1>15, <2>2 DEF PrintLine
  <2>5. line' \in [Ends -> [count : Nat, elapsed : Nat] \cup {NoLine}]
    BY <1>15 DEF PrintLine
  <2> QED
    BY <1>15, <2>3, <2>4, <2>5 DEF PrintLine
<1>16. CASE UNCHANGED vars
  BY <1>16 DEF vars
<1> QED
  BY <1>1, <1>2, <1>3, <1>4, <1>5, <1>6, <1>7, <1>8, <1>9, <1>10, <1>11, <1>12, <1>13,
     <1>14, <1>15, <1>16, Exits DEF Next, Subscriber, Publisher, Link

\* The actions that count or report, and what all the others leave alone.
LEMMA CountingSteps ==
  ASSUME [Next]_vars
  PROVE  \/ \E s \in Procs : OtherPrimitive(s)
         \/ \E p, s \in Procs : Deliver(p, s)
         \/ \E p \in Procs : EndRound(p)
         \/ \E c \in Ends : Swap(c) \/ PrintLine(c)
         \/ UNCHANGED <<setup, rounds, received, counter, line, printed, claimed>>
<1> DEFINE Same == UNCHANGED <<setup, rounds, received, counter, line, printed, claimed>>
<1> USE DEF pubVars, subVars, linkVars, countVars, lineVars
<1>1. ASSUME NEW s \in Procs, Listen(s) \/ SetCallbacks(s) PROVE Same
  BY <1>1 DEF Listen, SetCallbacks
<1>2. ASSUME NEW p \in Procs, Exit(p) PROVE Same
  BY <1>2 DEF Exit
<1>3. ASSUME NEW p \in Procs, OpenTransport(p) \/ Begin(p) \/ Send(p) \/ Publish(p) PROVE Same
  BY <1>3 DEF OpenTransport, Begin, Send, Publish
<1>4. ASSUME NEW p \in Procs, NEW s \in Procs,
             Accept(p, s) \/ Spawn(p, s) \/ LearnRoute(p, s) \/ Close(p, s)
      PROVE  Same
  BY <1>4 DEF Accept, Spawn, LearnRoute, Close
<1>5. UNCHANGED vars => Same
  BY DEF vars
<1> QED
  BY <1>1, <1>2, <1>3, <1>4, <1>5, Exits DEF Next, Subscriber, Publisher, Link

LEMMA CountTypes ==
  ASSUME TypeOK, NEW e \in Ends
  PROVE  /\ e[1] \in {"in", "out"} /\ e[2] \in Procs /\ e = <<e[1], e[2]>>
         /\ Counted(e) \in Nat /\ printed[e] \in Nat /\ counter[e] \in Nat /\ Held(e) \in Nat
         /\ claimed[e] \in Nat
         /\ line[e] # NoLine => line[e].count \in Nat /\ line[e].elapsed \in Nat
<1>1. e[1] \in {"in", "out"} /\ e[2] \in Procs /\ e = <<e[1], e[2]>>
  BY DEF Ends
<1>2. line[e] \in [count : Nat, elapsed : Nat] \cup {NoLine}
  BY DEF TypeOK
<1>3. received[e[2]] \in Nat /\ rounds[e[2]] \in Nat
  BY <1>1 DEF TypeOK
<1> QED
  BY <1>1, <1>2, <1>3 DEF TypeOK, Counted, Held

LEMMA SwapLine ==
  ASSUME TypeOK, NEW c \in Ends, Swap(c)
  PROVE  /\ line'[c].count = counter[c] /\ line'[c].elapsed >= Second
         /\ line'[c] \in [count : Nat, elapsed : Nat]
         /\ line'[c] # NoLine /\ counter[c] > 0 /\ counter'[c] = 0
<1>1. PICK d \in Late(c) : line' = [line EXCEPT ![c] = [count |-> counter[c],
                                                      elapsed |-> Second + d]]
  BY DEF Swap
<1>2. d \in Nat
  BY DEF Late
<1>3. line'[c] = [count |-> counter[c], elapsed |-> Second + d]
  BY <1>1 DEF TypeOK
<1>4. counter[c] \in Nat /\ counter[c] > 0 /\ counter'[c] = 0
  BY DEF Swap, TypeOK
<1> QED
  BY <1>2, <1>3, <1>4

\* A step that counts n events at the end e and does nothing else to the sums.
CountAt(e, n) ==
  /\ counter' = [counter EXCEPT ![e] = @ + n]
  /\ \A x \in Ends : Counted(x)' = Counted(x) + (IF x = e THEN n ELSE 0)
  /\ UNCHANGED <<line, printed, claimed>>

LEMMA ReceiveIsCount ==
  ASSUME TypeOK, NEW s \in Procs, NEW n \in Nat,
         UNCHANGED <<setup, rounds, line, printed, claimed>>,
         counter' = [counter EXCEPT ![<<"in", s>>] = @ + n],
         received' = [received EXCEPT ![s] = @ + n]
  PROVE  CountAt(<<"in", s>>, n)
<1>1. ASSUME NEW x \in Ends
      PROVE  Counted(x)' = Counted(x) + (IF x = <<"in", s>> THEN n ELSE 0)
  <2>1. x[1] \in {"in", "out"} /\ x[2] \in Procs /\ x = <<x[1], x[2]>> /\ Counted(x) \in Nat
    BY CountTypes
  <2>2. CASE x = <<"in", s>>
    BY <2>2 DEF Counted, TypeOK
  <2>3. CASE x[1] = "in" /\ x[2] # s
    BY <2>1, <2>3 DEF Counted, TypeOK
  <2>4. CASE x[1] = "out"
    BY <2>1, <2>4 DEF Counted
  <2> QED
    BY <2>1, <2>2, <2>3, <2>4
<1> QED
  BY <1>1 DEF CountAt

LEMMA EndRoundIsCount ==
  ASSUME TypeOK, NEW p \in Procs, EndRound(p)
  PROVE  \E n \in {0, 1} : CountAt(<<"out", p>>, n)
<1> DEFINE n == IF setup.out.prints THEN 1 ELSE 0
<1>1. /\ UNCHANGED <<setup, line, printed, claimed, received>>
      /\ rounds' = [rounds EXCEPT ![p] = @ + 1]
      /\ counter' = [counter EXCEPT ![<<"out", p>>] = IF setup.out.prints THEN @ + 1 ELSE @]
  BY DEF EndRound, lineVars
<1>2. counter' = [counter EXCEPT ![<<"out", p>>] = @ + n]
  <2>1. \A k \in Nat : k + 0 = k
    OBVIOUS
  <2>2. CASE setup.out.prints
    BY <1>1, <2>2
  <2>3. CASE ~setup.out.prints
    BY <1>1, <2>1, <2>3, EndTypes
  <2> QED
    BY <2>2, <2>3
<1>3. ASSUME NEW x \in Ends
      PROVE  Counted(x)' = Counted(x) + (IF x = <<"out", p>> THEN n ELSE 0)
  <2>1. x[1] \in {"in", "out"} /\ x[2] \in Procs /\ x = <<x[1], x[2]>> /\ Counted(x) \in Nat
    BY CountTypes
  <2>2. CASE x = <<"out", p>>
    BY <1>1, <2>2 DEF Counted, TypeOK
  <2>3. CASE x[1] = "out" /\ x[2] # p
    BY <1>1, <2>1, <2>3 DEF Counted, TypeOK
  <2>4. CASE x[1] = "in"
    BY <1>1, <2>1, <2>4 DEF Counted
  <2> QED
    BY <2>1, <2>2, <2>3, <2>4
<1>4. CountAt(<<"out", p>>, n)
  BY <1>1, <1>2, <1>3 DEF CountAt
<1> QED
  BY <1>4

\* Every step counts at one end, reports at one end, or leaves the sums alone.
LEMMA Steps ==
  ASSUME TypeOK, [Next]_vars
  PROVE  \/ \E e \in Ends : \E n \in {0, 1} : CountAt(e, n)
         \/ \E c \in Ends : Swap(c) \/ PrintLine(c)
         \/ UNCHANGED <<setup, rounds, received, counter, line, printed, claimed>>
<1>1. ASSUME NEW s \in Procs, OtherPrimitive(s) PROVE CountAt(<<"in", s>>, 1)
  BY <1>1, ReceiveIsCount DEF OtherPrimitive, pubVars, lineVars
<1>2. ASSUME NEW p \in Procs, NEW s \in Procs, Deliver(p, s)
      PROVE  \E n \in {0, 1} : CountAt(<<"in", s>>, n)
  <2>1. PICK n \in {0, 1} : /\ counter' = [counter EXCEPT ![<<"in", s>>] = @ + n]
                            /\ received' = [received EXCEPT ![s] = @ + n]
    BY <1>2 DEF Deliver
  <2>2. UNCHANGED <<setup, rounds, line, printed, claimed>>
    BY <1>2 DEF Deliver, pubVars, lineVars
  <2> QED
    BY <2>1, <2>2, ReceiveIsCount
<1> QED
  BY <1>1, <1>2, EndRoundIsCount, CountingSteps, EndsOf

\* A reporter prints exactly what it took out of the counter.
LEMMA CountedStep == ThrInv /\ [Next]_vars => CountedOnce'
<1> SUFFICES ASSUME ThrInv, [Next]_vars, NEW x \in Ends
             PROVE  Counted(x)' = printed'[x] + Held(x)' + counter'[x]
  BY DEF CountedOnce
<1> USE DEF ThrInv, CountedOnce
<1>1. CASE \E e \in Ends : \E n \in {0, 1} : CountAt(e, n)
  <2>1. PICK e \in Ends, n \in {0, 1} : CountAt(e, n)
    BY <1>1
  <2>2. Held(x)' = Held(x) /\ printed' = printed
    BY <2>1 DEF CountAt, Held
  <2>3. counter'[x] = counter[x] + (IF x = e THEN n ELSE 0)
    BY <2>1, CountTypes DEF CountAt, TypeOK
  <2> QED
    BY <2>1, <2>2, <2>3, CountTypes DEF CountAt
<1>2. ASSUME NEW c \in Ends, Swap(c) PROVE Counted(x)' = printed'[x] + Held(x)' + counter'[x]
  <2>1. Counted(x)' = Counted(x) /\ printed' = printed /\ line[c] = NoLine
    BY <1>2 DEF Swap, Counted, pubVars
  <2>2. CASE x = c
    <3>1. line'[c].count = counter[c] /\ line'[c] # NoLine /\ counter'[c] = 0
      BY <1>2, SwapLine DEF TypeOK
    <3> QED
      BY <2>1, <2>2, <3>1, CountTypes DEF Held
  <2>3. CASE x # c
    BY <1>2, <2>1, <2>3, CountTypes DEF Swap, Held, TypeOK
  <2> QED
    BY <2>2, <2>3
<1>3. ASSUME NEW c \in Ends, PrintLine(c) PROVE Counted(x)' = printed'[x] + Held(x)' + counter'[x]
  <2>1. Counted(x)' = Counted(x) /\ counter' = counter
    BY <1>3 DEF PrintLine, Counted, pubVars, countVars
  <2>2. CASE x = c
    BY <1>3, <2>1, <2>2, CountTypes DEF PrintLine, Held, TypeOK
  <2>3. CASE x # c
    BY <1>3, <2>1, <2>3, CountTypes DEF PrintLine, Held, TypeOK
  <2> QED
    BY <2>2, <2>3
<1>4. CASE UNCHANGED <<setup, rounds, received, counter, line, printed, claimed>>
  BY <1>4 DEF Counted, Held
<1> QED
  BY <1>1, <1>2, <1>3, <1>4, Steps

\* A reporter holds a count of at least one, taken after at least a second.
LEMMA LineStep == ThrInv /\ [Next]_vars => LineInv'
<1> SUFFICES ASSUME ThrInv, [Next]_vars, NEW x \in Ends, line'[x] # NoLine
             PROVE  line'[x].count > 0 /\ line'[x].elapsed >= Second
  BY DEF LineInv
<1> USE DEF ThrInv, LineInv
<1>1. ASSUME NEW c \in Ends, Swap(c) PROVE line'[x].count > 0 /\ line'[x].elapsed >= Second
  <2>1. CASE x = c
    BY <1>1, <2>1, SwapLine
  <2>2. CASE x # c
    BY <1>1, <2>2 DEF Swap, TypeOK
  <2> QED
    BY <2>1, <2>2
<1>2. ASSUME NEW c \in Ends, PrintLine(c) PROVE line'[x].count > 0 /\ line'[x].elapsed >= Second
  BY <1>2 DEF PrintLine, TypeOK
<1>3. CASE line' = line
  BY <1>3
<1> QED
  BY <1>1, <1>2, <1>3, Steps DEF CountAt

\* The programs and their options do not change.
LEMMA SetupStep == [Next]_vars => setup' = setup
  BY DEF Next, Subscriber, Publisher, Link, vars, Listen, SetCallbacks, OtherPrimitive, Usage,
     OpenTransport, OpenFails, Exit, Begin, Send, SendFails, Publish, PublishFails, EndRound,
     Accept, Spawn, Deliver, LearnRoute, Close, Swap, PrintLine

\* Programs without transports neither open nor accept one.
LEMMA RouteStep == ThrInv /\ [Next]_vars => RouteInv'
<1> SUFFICES ASSUME ThrInv, [Next]_vars, ~setup.out.perLink, setup' = setup
             PROVE  /\ accepting' = {}
                    /\ \A l \in Links : link'[l] \in {"none", "up", "closed"}
                    /\ \A p \in Procs : pub'[p] = "opening" => todo'[p] = {}
  BY SetupStep DEF RouteInv
<1> DEFINE Goal == /\ accepting' = {}
                   /\ \A l \in Links : link'[l] \in {"none", "up", "closed"}
                   /\ \A p \in Procs : pub'[p] = "opening" => todo'[p] = {}
<1> USE DEF ThrInv, RouteInv
<1>1. \A p, s \in Procs : ~Accept(p, s) /\ ~Spawn(p, s)
  BY LinksOf DEF Accept, Spawn
<1>2. ASSUME NEW p \in Procs, Begin(p) \/ Publish(p) \/ EndRound(p) \/ Exit(p) PROVE Goal
  BY <1>2 DEF Begin, Publish, EndRound, Exit, TypeOK, subVars, linkVars
<1>3. ASSUME NEW p \in Procs, NEW s \in Procs, LearnRoute(p, s) \/ Close(p, s) PROVE Goal
  BY <1>3 DEF LearnRoute, Close, TypeOK, subVars, pubVars
<1>4. CASE UNCHANGED <<accepting, link, pub, todo>>
  BY <1>4
<1>5. ASSUME NEW s \in Procs, Subscriber(s) PROVE UNCHANGED <<accepting, link, pub, todo>>
  BY <1>5 DEF Subscriber, Listen, SetCallbacks, OtherPrimitive, pubVars, subVars, linkVars
<1>6. ASSUME NEW p \in Procs, NEW s \in Procs, Deliver(p, s)
      PROVE  UNCHANGED <<accepting, link, pub, todo>>
  BY <1>6 DEF Deliver, pubVars, subVars
<1>7. ASSUME NEW c \in Ends, Swap(c) \/ PrintLine(c) PROVE UNCHANGED <<accepting, link, pub, todo>>
  BY <1>7 DEF Swap, PrintLine, pubVars, subVars, linkVars
<1>8. \A p \in Procs : ~Send(p) /\ ~OpenTransport(p)
  BY DEF Send, OpenTransport, First
<1>9. UNCHANGED vars => UNCHANGED <<accepting, link, pub, todo>>
  BY DEF vars, pubVars, subVars, linkVars
<1> QED
  BY <1>1, <1>2, <1>3, <1>4, <1>5, <1>6, <1>7, <1>8, <1>9, Exits
  DEF Next, Publisher, Link

\* The swap of active lets one new_unicast, and no other, spawn the reporter.
LEMMA ReporterStep == ThrInv /\ [Next]_vars => ReporterInv'
<1> SUFFICES ASSUME ThrInv, [Next]_vars PROVE ReporterInv'
  OBVIOUS
<1> USE DEF ThrInv
<1> DEFINE n(s) == reporters[<<"in", s>>]
<1>0. \A s \in Procs : n(s) \in Nat /\ n(s) <= 1 /\ <<"in", s>> \in Ends
  BY EndsOf, EndTypes DEF ReporterInv
<1> HIDE DEF n
<1>00. ASSUME NEW s \in Procs, NEW k, reporters' = [reporters EXCEPT ![<<"in", s>>] = k]
       PROVE  \A r \in Procs : reporters'[<<"in", r>>] = IF r = s THEN k ELSE n(r)
  <2> TAKE r \in Procs
  <2>1. <<"in", r>> \in Ends /\ <<"in", s>> \in Ends
    BY EndsOf
  <2> QED
    BY <1>00, <2>1 DEF TypeOK, n
<1>1. ASSUME NEW s \in Procs, Listen(s) \/ SetCallbacks(s) PROVE ReporterInv'
  <2>1. UNCHANGED <<setup, active, accepting>>
    BY <1>1 DEF Listen, SetCallbacks
  <2>2. \/ reporters' = reporters
        \/ ~setup.out.perLink /\ reporters' = [reporters EXCEPT ![<<"in", s>>] = 1]
    BY <1>1, Setup DEF Listen, SetCallbacks, Report, TypeOK
  <2>3. \A r \in Procs : reporters'[<<"in", r>>] <= 1
    <3>1. CASE reporters' = reporters
      BY <1>0, <3>1 DEF n
    <3>2. CASE reporters' = [reporters EXCEPT ![<<"in", s>>] = 1]
      <4>1. \A r \in Procs : reporters'[<<"in", r>>] = IF r = s THEN 1 ELSE n(r)
        BY <1>00, <3>2
      <4> TAKE r \in Procs
      <4>2. reporters'[<<"in", r>>] \in {1, n(r)}
        BY <4>1
      <4>3. n(r) <= 1
        BY <1>0
      <4>4. 1 <= 1
        OBVIOUS
      <4> QED
        BY <4>2, <4>3, <4>4
    <3> QED
      BY <2>2, <3>1, <3>2
  <2> QED
    BY <2>1, <2>2, <2>3 DEF ReporterInv
<1>2. ASSUME NEW p \in Procs, Begin(p) PROVE ReporterInv'
  <2>1. UNCHANGED <<setup, active, accepting>>
    BY <1>2 DEF Begin, subVars
  <2>2. \A r \in Procs : reporters'[<<"in", r>>] = reporters[<<"in", r>>]
    BY <1>0, <1>2 DEF Begin, TypeOK
  <2>3. \A l \in accepting : l[2] \in Procs
    BY DEF TypeOK, Links
  <2> QED
    BY <2>1, <2>2, <2>3 DEF ReporterInv
<1>3. ASSUME NEW p \in Procs, NEW s \in Procs, Accept(p, s) PROVE ReporterInv'
  <2>1. /\ UNCHANGED <<setup, reporters>>
        /\ active' = [active EXCEPT ![s] = TRUE]
        /\ accepting' = IF active[s] THEN accepting ELSE accepting \cup {<<p, s>>}
    BY <1>3 DEF Accept, lineVars
  <2>2. \A r \in Procs : active'[r] = (active[r] \/ r = s)
    BY <2>1 DEF TypeOK
  <2>3. \A l \in accepting : l[2] \in Procs
    BY DEF TypeOK, Links
  <2>4. ASSUME setup.out.perLink, ~active[s]
        PROVE  n(s) = 0 /\ \A l \in accepting : l[2] # s
    BY <1>0, <2>4 DEF ReporterInv, n
  <2>5. CASE active[s]
    BY <2>1, <2>2, <2>3, <2>5 DEF ReporterInv
  <2>6. CASE ~active[s]
    <3>1. \A l \in accepting' : l \in accepting \/ (l = <<p, s>> /\ l[2] = s)
      BY <2>1
    <3>2. setup.out.perLink =>
            \A l \in accepting' : active'[l[2]] /\ reporters'[<<"in", l[2]>>] = 0
      BY <2>1, <2>2, <2>3, <2>4, <2>6, <3>1 DEF ReporterInv, n
    <3>3. setup.out.perLink => \A l, m \in accepting' : l[2] = m[2] => l = m
      BY <2>4, <2>6, <3>1 DEF ReporterInv
    <3>4. \A r \in Procs : active[r] => active'[r]
      BY <2>2
    <3> QED
      BY <2>1, <3>2, <3>3, <3>4 DEF ReporterInv
  <2> QED
    BY <2>5, <2>6
<1>4. ASSUME NEW p \in Procs, NEW s \in Procs, Spawn(p, s) PROVE ReporterInv'
  <2>1. /\ UNCHANGED <<setup, active>>
        /\ <<p, s>> \in accepting /\ accepting' = accepting \ {<<p, s>>}
        /\ reporters' = [reporters EXCEPT ![<<"in", s>>] = @ + 1]
    BY <1>4 DEF Spawn
  <2>2. setup.out.perLink /\ active[s] /\ n(s) = 0
    BY <2>1, Setup DEF RouteInv, ReporterInv, TypeOK, n
  <2>3. \A r \in Procs : reporters'[<<"in", r>>] = IF r = s THEN 1 ELSE n(r)
    <3>1. reporters' = [reporters EXCEPT ![<<"in", s>>] = 1]
      BY <2>1, <2>2 DEF n
    <3> QED
      BY <1>00, <3>1
  <2>4. \A l \in accepting' : l[2] \in Procs /\ l[2] # s
    <3> TAKE l \in accepting'
    <3>1. l \in accepting /\ l # <<p, s>> /\ <<p, s>>[2] = s
      BY <2>1
    <3>2. l[2] \in Procs
      BY <3>1 DEF TypeOK, Links
    <3>3. l[2] # <<p, s>>[2]
      BY <2>1, <2>2, <3>1 DEF ReporterInv
    <3> QED
      BY <3>1, <3>2, <3>3
  <2> QED
    BY <1>0, <2>1, <2>2, <2>3, <2>4 DEF ReporterInv, n
<1>5. CASE UNCHANGED <<setup, reporters, active, accepting>>
  BY <1>5 DEF ReporterInv
<1>6. ASSUME NEW p \in Procs,
             OpenTransport(p) \/ Send(p) \/ Publish(p) \/ EndRound(p) \/ Exit(p)
      PROVE  UNCHANGED <<setup, reporters, active, accepting>>
  BY <1>6 DEF OpenTransport, Send, Publish, EndRound, Exit, subVars, lineVars
<1>7. ASSUME NEW p \in Procs, NEW s \in Procs, Deliver(p, s) \/ LearnRoute(p, s) \/ Close(p, s)
      PROVE  UNCHANGED <<setup, reporters, active, accepting>>
  BY <1>7 DEF Deliver, LearnRoute, Close, subVars, lineVars
<1>8. ASSUME NEW s \in Procs, OtherPrimitive(s) PROVE UNCHANGED <<setup, reporters, active, accepting>>
  BY <1>8 DEF OtherPrimitive, subVars, lineVars
<1>9. ASSUME NEW c \in Ends, Swap(c) \/ PrintLine(c)
      PROVE  UNCHANGED <<setup, reporters, active, accepting>>
  BY <1>9 DEF Swap, PrintLine, subVars, lineVars
<1>10. UNCHANGED vars => UNCHANGED <<setup, reporters, active, accepting>>
  BY DEF vars, subVars, lineVars
<1> QED
  BY <1>1, <1>2, <1>3, <1>4, <1>5, <1>6, <1>7, <1>8, <1>9, <1>10, Exits
  DEF Next, Subscriber, Publisher, Link

\* The end of a new_unicast changes no closed link.
LEMMA SpawnLink ==
  ASSUME NEW p \in Procs, NEW s \in Procs, Spawn(p, s)
  PROVE  \/ link' = [link EXCEPT ![<<p, s>>] = "up"] /\ link[<<p, s>>] = "accepted"
         \/ link' = [link EXCEPT ![<<p, s>>] = @]
  BY DEF Spawn

\* A round puts one message on each link of the publisher, in order.
LEMMA LinkStep == ThrInv /\ [Next]_vars => LinkInv'
<1> SUFFICES ASSUME ThrInv, [Next]_vars, setup.out.perLink, setup' = setup,
                    NEW p \in Procs, NEW s \in setup.connect[p]
             PROVE  RoundsOnLink(p, s)'
  BY SetupStep DEF LinkInv
<1> USE DEF ThrInv
<1> DEFINE l == <<p, s>>
<1>1. RoundsOnLink(p, s)
  BY DEF LinkInv
<1>2. /\ s \in Procs /\ l \in Links
      /\ rounds[p] \in Nat /\ queue[l] \in 0..Capacity /\ delivered[l] \in Nat
      /\ OnLink(p, s) \in Nat
  BY Setup, LinksOf DEF TypeOK, OnLink
<1>3. \A q, r \in Procs : <<q, r>> = l <=> q = p /\ r = s
  OBVIOUS
<1> HIDE DEF l
<1> USE DEF RoundsOnLink, SentTo
<1>4. ASSUME NEW q \in Procs, Begin(q) PROVE RoundsOnLink(p, s)'
  <2>1. OnLink(p, s)' = OnLink(p, s) /\ rounds' = rounds /\ link' = link
    BY <1>4 DEF Begin, OnLink, linkVars
  <2>2. CASE q = p
    <3>1. pub[p] = "opening" /\ pub'[p] = "sending" /\ s \in todo'[p]
      BY <1>4, <2>2 DEF Begin, TypeOK
    <3> QED
      BY <1>1, <1>2, <2>1, <3>1
  <2>3. CASE q # p
    <3>1. pub'[p] = pub[p] /\ todo'[p] = todo[p]
      BY <1>4, <2>3 DEF Begin, TypeOK
    <3> QED
      BY <1>1, <2>1, <3>1
  <2> QED
    BY <2>2, <2>3
<1>5. ASSUME NEW q \in Procs, Send(q) PROVE RoundsOnLink(p, s)'
  <2>1. PICK r \in Procs : /\ r \in todo[q] /\ link[<<q, r>>] \in Open
                           /\ todo' = [todo EXCEPT ![q] = @ \ {r}]
                           /\ queue' = [queue EXCEPT ![<<q, r>>] = @ + 1]
    BY <1>5 DEF Send, First
  <2>2. UNCHANGED <<pub, rounds, link, delivered>> /\ pub[q] = "sending"
    BY <1>5 DEF Send
  <2>3. CASE <<q, r>> = l
    <3>1. q = p /\ r = s
      BY <1>3, <2>3
    <3>2. OnLink(p, s)' = OnLink(p, s) + 1
      BY <1>2, <2>1, <2>2, <2>3 DEF OnLink, TypeOK, l
    <3>3. s \in todo[p] /\ s \notin todo'[p]
      BY <2>1, <3>1 DEF TypeOK
    <3> QED
      BY <1>1, <1>2, <2>1, <2>2, <3>1, <3>2, <3>3
  <2>4. CASE <<q, r>> # l
    <3>1. OnLink(p, s)' = OnLink(p, s)
      BY <1>2, <2>1, <2>2, <2>4 DEF OnLink, TypeOK, l
    <3>2. s \in todo'[p] <=> s \in todo[p]
      BY <1>3, <2>1, <2>4 DEF TypeOK
    <3> QED
      BY <1>1, <2>2, <3>1, <3>2
  <2> QED
    BY <2>3, <2>4
<1>6. ASSUME NEW q \in Procs, EndRound(q) PROVE RoundsOnLink(p, s)'
  <2>1. UNCHANGED <<pub, link>> /\ OnLink(p, s)' = OnLink(p, s)
    BY <1>6 DEF EndRound, OnLink, linkVars
  <2>2. CASE q = p
    <3>1. /\ pub[p] = "sending" /\ s \notin todo[p] /\ s \in todo'[p]
          /\ rounds'[p] = rounds[p] + 1
      BY <1>6, <2>2 DEF EndRound, TypeOK
    <3> QED
      BY <1>1, <1>2, <2>1, <3>1
  <2>3. CASE q # p
    <3>1. todo'[p] = todo[p] /\ rounds'[p] = rounds[p]
      BY <1>6, <2>3 DEF EndRound, TypeOK
    <3> QED
      BY <1>1, <2>1, <3>1
  <2> QED
    BY <2>2, <2>3
<1>7. ASSUME NEW q \in Procs, Exit(q) PROVE RoundsOnLink(p, s)'
  <2>1. pub'[p] \in {pub[p], "exited"}
    BY <1>7 DEF Exit, TypeOK
  <2>2. UNCHANGED <<todo, rounds, link>> /\ OnLink(p, s)' = OnLink(p, s)
    BY <1>7 DEF Exit, OnLink, linkVars
  <2> QED
    BY <1>1, <2>1, <2>2
<1>8. ASSUME NEW q \in Procs, OpenTransport(q) PROVE RoundsOnLink(p, s)'
  <2>1. PICK r \in Procs : /\ todo' = [todo EXCEPT ![q] = @ \ {r}]
                           /\ link' = [link EXCEPT ![<<q, r>>] = "opened"]
    BY <1>8 DEF OpenTransport
  <2>2. pub[q] = "opening" /\ UNCHANGED <<pub, rounds>> /\ OnLink(p, s)' = OnLink(p, s)
    BY <1>8 DEF OpenTransport, OnLink
  <2>3. CASE q = p
    BY <1>1, <1>2, <2>2, <2>3
  <2>4. CASE q # p
    <3>1. todo'[p] = todo[p] /\ link'[l] = link[l]
      BY <1>2, <1>3, <2>1, <2>4 DEF TypeOK
    <3> QED
      BY <1>1, <2>2, <3>1 DEF l
  <2> QED
    BY <2>3, <2>4
<1>9. ASSUME NEW q \in Procs, NEW r \in Procs, Accept(q, r) \/ Spawn(q, r)
      PROVE  RoundsOnLink(p, s)'
  <2>1. UNCHANGED <<pub, todo, rounds>> /\ OnLink(p, s)' = OnLink(p, s)
    BY <1>9 DEF Accept, Spawn, OnLink, pubVars
  <2>2. link'[l] \in Open => link[l] \in Open
    <3>1. \/ link' = link
          \/ link[<<q, r>>] \in Open /\ \E t \in Open : link' = [link EXCEPT ![<<q, r>>] = t]
      <4>1. CASE Accept(q, r)
        BY <4>1 DEF Accept, Open
      <4>2. CASE Spawn(q, r)
        <5>1. link' = [link EXCEPT ![<<q, r>>] = @] => link' = link
          BY DEF TypeOK
        <5> QED
          BY <4>2, <5>1, SpawnLink DEF Open
      <4> QED
        BY <1>9, <4>1, <4>2
    <3> QED
      BY <1>2, <3>1 DEF TypeOK
  <2> QED
    BY <1>1, <2>1, <2>2 DEF l
<1>10. ASSUME NEW q \in Procs, NEW r \in Procs, Deliver(q, r) PROVE RoundsOnLink(p, s)'
  <2>1. UNCHANGED <<pub, todo, rounds, link>>
    BY <1>10 DEF Deliver, pubVars
  <2>2. OnLink(p, s)' = OnLink(p, s)
    <3>1. CASE <<q, r>> = l
      BY <1>2, <1>10, <3>1 DEF Deliver, OnLink, TypeOK, l
    <3>2. CASE <<q, r>> # l
      BY <1>2, <1>10, <3>2 DEF Deliver, OnLink, TypeOK, l
    <3> QED
      BY <3>1, <3>2
  <2> QED
    BY <1>1, <2>1, <2>2
<1>11. ASSUME NEW q \in Procs, NEW r \in Procs, Close(q, r) PROVE RoundsOnLink(p, s)'
  <2>1. UNCHANGED <<pub, todo, rounds, delivered>>
    BY <1>11 DEF Close, pubVars
  <2>2. CASE <<q, r>> = l
    <3>1. link'[l] = "closed" /\ queue'[l] \in 0..queue[l]
      <4>1. PICK k \in 0..queue[l] : queue' = [queue EXCEPT ![l] = k]
        <5>1. 0 \in 0..queue[l]
          BY <1>2
        <5> QED
          BY <1>11, <2>2, <5>1 DEF Close
      <4>2. link' = [link EXCEPT ![l] = "closed"]
        BY <1>11, <2>2 DEF Close
      <4> QED
        BY <1>2, <4>1, <4>2 DEF TypeOK
    <3>2. OnLink(p, s)' \in Nat /\ OnLink(p, s)' <= OnLink(p, s)
      BY <1>2, <2>1, <3>1 DEF OnLink, l
    <3> QED
      BY <1>1, <1>2, <2>1, <3>1, <3>2 DEF Open, l
  <2>3. CASE <<q, r>> # l
    <3>1. link'[l] = link[l] /\ queue'[l] = queue[l]
      BY <1>2, <1>11, <2>3 DEF Close, TypeOK
    <3> QED
      BY <1>1, <2>1, <3>1 DEF OnLink, l
  <2> QED
    BY <2>2, <2>3
<1>12. CASE UNCHANGED <<pub, todo, rounds, link, queue, delivered>>
  BY <1>1, <1>12 DEF OnLink
<1>13. ASSUME NEW r \in Procs, Subscriber(r)
       PROVE  UNCHANGED <<pub, todo, rounds, link, queue, delivered>>
  BY <1>13 DEF Subscriber, Listen, SetCallbacks, OtherPrimitive, pubVars, linkVars
<1>14. ASSUME NEW c \in Ends, Swap(c) \/ PrintLine(c)
       PROVE  UNCHANGED <<pub, todo, rounds, link, queue, delivered>>
  BY <1>14 DEF Swap, PrintLine, pubVars, linkVars
<1>15. UNCHANGED vars => UNCHANGED <<pub, todo, rounds, link, queue, delivered>>
  BY DEF vars, pubVars, linkVars
<1>16. \A q, r \in Procs : ~Publish(q) /\ ~LearnRoute(q, r)
  BY DEF Publish, LearnRoute
<1> QED
  BY <1>4, <1>5, <1>6, <1>7, <1>8, <1>9, <1>10, <1>11, <1>12, <1>13, <1>14, <1>15, <1>16,
     Exits DEF Next, Publisher, Link

\* Each count is in one place, each message of a round on its links.
THEOREM InductiveInvariant == Spec => []ThrInv
<1>1. ThrInv /\ [Next]_vars => ThrInv'
  BY TypeStep, CountedStep, LineStep, RouteStep, ReporterStep, LinkStep DEF ThrInv
<1> QED
  BY <1>1, InitInv, PTL DEF Spec

\* No subscriber has two reporters, however many transports are opened to it.
THEOREM AlwaysOneReporter == Spec => []OneReporter
<1>1. ThrInv => OneReporter
  BY DEF ThrInv, ReporterInv, OneReporter
<1> QED
  BY <1>1, InductiveInvariant, PTL

\* No subscriber of a t_pub_thr gets more than Capacity + 1 messages ahead of
\* another whose transport is open.
THEOREM SlowestAlwaysSetsThePace == Spec => []SlowestSetsThePace
<1>1. ThrInv => SlowestSetsThePace
  <2> SUFFICES ASSUME ThrInv, setup.out.perLink, NEW p \in Procs,
                      NEW s1 \in setup.connect[p], NEW s2 \in setup.connect[p],
                      link[<<p, s2>>] \in Open
               PROVE  delivered[<<p, s1>>] <= delivered[<<p, s2>>] + Capacity + 1
    BY DEF SlowestSetsThePace
  <2>1. <<p, s1>> \in Links /\ <<p, s2>> \in Links
    BY Setup, LinksOf DEF ThrInv, TypeOK
  <2>2. /\ delivered[<<p, s1>>] \in Nat /\ delivered[<<p, s2>>] \in Nat
        /\ queue[<<p, s1>>] \in 0..Capacity /\ queue[<<p, s2>>] \in 0..Capacity
        /\ rounds[p] \in Nat
    BY <2>1 DEF ThrInv, TypeOK
  <2>3. /\ delivered[<<p, s1>>] + queue[<<p, s1>>] <= rounds[p] + 1
        /\ delivered[<<p, s2>>] + queue[<<p, s2>>] >= rounds[p]
    BY DEF ThrInv, LinkInv, RoundsOnLink, OnLink
  <2> QED
    BY <2>2, <2>3
<1> QED
  BY <1>1, InductiveInvariant, PTL

\* A figure is never less than the count it stands for.
THEOREM NeverUnderstated == Spec => []NeverUnderstates
<1>1. Init => NeverUnderstates
  BY DEF Init, NeverUnderstates
<1>2. ThrInv /\ NeverUnderstates /\ [Next]_vars => NeverUnderstates'
  <2> SUFFICES ASSUME ThrInv, NeverUnderstates, [Next]_vars, NEW x \in Ends
               PROVE  claimed'[x] >= printed'[x]
    BY DEF NeverUnderstates
  <2> USE DEF ThrInv, NeverUnderstates
  <2>1. ASSUME NEW c \in Ends, PrintLine(c) PROVE claimed'[x] >= printed'[x]
    <3>1. /\ line[c].count \in Nat /\ line[c].elapsed \in Nat /\ line[c].elapsed >= Second
      BY <2>1, CountTypes DEF PrintLine, LineInv
    <3>2. Figure(c) \in Nat /\ Figure(c) >= line[c].count
      BY <3>1, FigureNat, FigureAtLeast DEF Figure
    <3>3. /\ printed' = [printed EXCEPT ![c] = @ + line[c].count]
          /\ claimed' = [claimed EXCEPT ![c] = @ + Figure(c)]
      BY <2>1 DEF PrintLine
    <3>4. CASE x = c
      BY <3>1, <3>2, <3>3, <3>4, CountTypes DEF TypeOK
    <3>5. CASE x # c
      BY <3>3, <3>5 DEF TypeOK
    <3> QED
      BY <3>4, <3>5
  <2>2. CASE UNCHANGED <<printed, claimed>>
    BY <2>2
  <2>3. ASSUME NEW c \in Ends, Swap(c) PROVE UNCHANGED <<printed, claimed>>
    BY <2>3 DEF Swap
  <2> QED
    BY <2>1, <2>2, <2>3, Steps DEF CountAt
<1> QED
  BY <1>1, <1>2, InductiveInvariant, PTL DEF Spec

\* Every counter of every program implements Tally: the only step that prints
\* is PrintLine, and it prints what its swap took, all of it and once.
THEOREM RefinesTally == Spec => ImplementsTally
<1> DEFINE sums == [c \in Ends |-> Counted(c)]
<1>1. Init => T!Init
  <2> SUFFICES ASSUME Init PROVE \A c \in Ends : Counted(c) = 0
    BY DEF Init, T!Init
  <2> QED
    BY DEF Init, Counted, Ends
<1>2. ThrInv /\ [Next]_vars => [T!Next]_<<sums, printed>>
  <2> SUFFICES ASSUME ThrInv, [Next]_vars PROVE [T!Next]_<<sums, printed>>
    OBVIOUS
  <2> USE DEF ThrInv
  <2>1. CASE \E e \in Ends : \E n \in {0, 1} : CountAt(e, n)
    <3>1. PICK e \in Ends, n \in {0, 1} : CountAt(e, n)
      BY <2>1
    <3>2. \A x \in Ends : Counted(x) \in Nat
      BY CountTypes
    <3>3. CASE n = 0
      BY <3>1, <3>2, <3>3 DEF CountAt
    <3>4. CASE n = 1
      <4>1. sums' = [sums EXCEPT ![e] = @ + 1] /\ printed' = printed
        <5>1. \A x \in Ends : Counted(x)' = IF x = e THEN Counted(x) + 1 ELSE Counted(x)
          BY <3>1, <3>2, <3>4 DEF CountAt
        <5>2. sums' = [x \in Ends |-> IF x = e THEN Counted(x) + 1 ELSE Counted(x)]
          BY <5>1
        <5> QED
          BY <3>1, <5>2 DEF CountAt
      <4> QED
        BY <4>1 DEF T!Next, T!Count
    <3> QED
      BY <3>3, <3>4
  <2>2. ASSUME NEW c \in Ends, Swap(c) PROVE UNCHANGED <<sums, printed>>
    BY <2>2 DEF Swap, Counted, pubVars
  <2>3. ASSUME NEW c \in Ends, PrintLine(c) PROVE T!Next
    <3>1. sums' = sums
      BY <2>3 DEF PrintLine, Counted, pubVars, countVars
    <3>2. printed' = [printed EXCEPT ![c] = printed[c] + line[c].count]
      BY <2>3 DEF PrintLine
    <3>3. line[c] # NoLine /\ Held(c) = line[c].count /\ line[c].count > 0
      BY <2>3 DEF PrintLine, Held, LineInv
    <3>4. printed[c] + line[c].count \in (printed[c] + 1)..sums[c]
      BY <3>3, CountTypes DEF CountedOnce
    <3> QED
      BY <3>1, <3>2, <3>4 DEF T!Next, T!PrintLine
  <2>4. CASE UNCHANGED <<setup, rounds, received, counter, line, printed, claimed>>
    BY <2>4 DEF Counted
  <2> QED
    BY <2>1, <2>2, <2>3, <2>4, Steps
<1> QED
  BY <1>1, <1>2, InductiveInvariant, PTL DEF Spec, ImplementsTally, T!Spec
=============================================================================
