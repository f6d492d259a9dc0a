----------------------- MODULE QueryThroughputProofs ------------------------
(***************************************************************************)
(* Proofs about QueryThroughput for every set of programs and every bound: *)
(* the inductive invariant QthrInv, how far the two atomics may be apart   *)
(* in a line, and that the counter implements Tally.                       *)
(***************************************************************************)
EXTENDS QueryThroughput, TLAPS

USE BoundsAssumption, ProgramsAssumption, NoneAssumption, EachAssumption

\* The types the steps below compute with.
LEMMA Types ==
  ASSUME TypeOK
  PROVE  /\ count \in Nat /\ count <= MaxQueries /\ MaxQueries \in Nat
         /\ rtt \in Nat /\ counter \in Nat /\ line \in Nat
         /\ timesTaken \in Nat /\ printed \in Nat
         /\ \A c \in Queries : c \in Nat /\ c < MaxQueries
         /\ count < MaxQueries => count \in Queries
  BY DEF TypeOK, Queries

\* One field of place at a time.
LEMMA PlaceOf ==
  ASSUME TypeOK, NEW d \in Queries, NEW w, place' = [place EXCEPT ![d] = w]
  PROVE  /\ place'[d] = w
         /\ \A c \in Queries : c # d => place'[c] = place[c]
  BY DEF TypeOK

LEMMA InitInv == Init => QthrInv /\ MeansKeepUp
<1> SUFFICES ASSUME Init PROVE QthrInv /\ MeansKeepUp
  OBVIOUS
<1> USE DEF Init
<1>1. TypeOK
  BY DEF TypeOK, Start
<1>2. CountedOnce /\ TimedOnce /\ LineInv /\ MeansKeepUp
  BY DEF CountedOnce, TimedOnce, LineInv, MeansKeepUp, Start
<1>3. AskedInv
  BY Types, <1>1 DEF AskedInv, Start, Asking, InFlight, Alive
<1>4. EvalInv
  BY SetsTxAssumption DEF EvalInv
<1>5. BarrierInv
  BY Types, <1>1 DEF BarrierInv, Start, InFlight
<1> QED
  BY <1>1, <1>2, <1>3, <1>4, <1>5 DEF QthrInv
-----------------------------------------------------------------------------
\* The steps of the loop, as far as the numbers see them.
LEMMA Quiet ==
  ASSUME TypeOK,
         \/ Insert \/ Send \/ SendFails \/ MainArrive \/ MainLeave \/ Collect \/ Expire
         \/ Handler \/ Queryable \/ LearnRoute \/ Close \/ UNCHANGED vars
  PROVE  UNCHANGED <<prog, count, rtt, counter, taken, line, timesTaken, printed>>
  BY DEF Handler, Queryable, Insert, Send, SendFails, MainArrive, MainLeave, Collect, Expire,
     RxRemove, RxArrive, RxLeave, SetTx, DeclQueryable, EvalTake, EvalReply, LearnRoute, Close,
     vars, loopVars, handlerVars, reportVars, wayVars, Exit

LEMMA NumbersStep ==
  QthrInv /\ MeansKeepUp /\ [Next]_vars =>
    CountedOnce' /\ TimedOnce' /\ LineInv' /\ MeansKeepUp'
<1> SUFFICES ASSUME QthrInv, MeansKeepUp, [Next]_vars
             PROVE  CountedOnce' /\ TimedOnce' /\ LineInv' /\ MeansKeepUp'
  OBVIOUS
<1> USE DEF QthrInv, CountedOnce, TimedOnce, LineInv, MeansKeepUp
<1>1. CASE \/ Insert \/ Send \/ SendFails \/ MainArrive \/ MainLeave \/ Collect \/ Expire
           \/ Handler \/ Queryable \/ LearnRoute \/ Close \/ UNCHANGED vars
  <2>1. UNCHANGED <<prog, count, rtt, counter, taken, line, timesTaken, printed>>
    BY <1>1, Quiet
  <2>2. Alive' => Alive /\ (pc' = "timed" <=> pc = "timed")
    BY <1>1 DEF Handler, Queryable, Insert, Send, SendFails, MainArrive, MainLeave, Collect,
       Expire, RxRemove, RxArrive, RxLeave, SetTx, DeclQueryable, EvalTake, EvalReply,
       LearnRoute, Close, vars, loopVars, Exit, Alive
  <2> QED
    BY <2>1, <2>2 DEF Alive
<1>2. CASE Finish
  BY <1>2, Types DEF Finish, AddTime, AddCount, Start, Alive, reportVars
<1>3. CASE SwapTime
  BY <1>3, Types DEF SwapTime, loopVars, Alive
<1>4. CASE SwapCount
  <2>1. /\ line = 0 /\ taken # None /\ line' = counter /\ counter' = 0
        /\ taken' = IF counter = 0 THEN None ELSE taken
        /\ UNCHANGED <<prog, pc, count, rtt, timesTaken, printed>> /\ Alive
    BY <1>4 DEF SwapCount, loopVars
  <2>2. prog.times => timesTaken <= count + 1
    BY <2>1, Types
  <2> QED
    BY <2>1, <2>2, Types DEF Alive
<1>5. CASE PrintLine
  BY <1>5, Types DEF PrintLine, loopVars, Alive
<1>6. CASE Report
  <2>1. ~prog.times
    BY <1>6 DEF Report, TypeOK
  <2> QED
    BY <1>6, <2>1, Types DEF Report, Start
<1> QED
  BY <1>1, <1>2, <1>3, <1>4, <1>5, <1>6 DEF Next, Loop, Reporter
-----------------------------------------------------------------------------
LEMMA TypeStep == QthrInv /\ [Next]_vars => TypeOK'
<1> SUFFICES ASSUME QthrInv, [Next]_vars PROVE TypeOK'
  OBVIOUS
<1> USE DEF QthrInv, TypeOK
<1>1. CASE Insert
  BY <1>1, Types DEF Insert, wayVars, handlerVars, reportVars
<1>2. CASE Send
  <2>1. PICK w \in {"query", "empty", "lost"} : place' = [place EXCEPT ![count] = w]
    BY <1>2 DEF Send, NoData
  <2> QED
    BY <1>2, <2>1, Types DEF Send, handlerVars, reportVars, Travelling, Answered
<1>3. CASE SendFails \/ Expire
  BY <1>3 DEF SendFails, Expire, Exit, wayVars, handlerVars, reportVars
<1>4. CASE MainArrive
  BY <1>4, Types DEF MainArrive, wayVars, handlerVars, reportVars, AskedInv, Asking, Alive
<1>5. CASE MainLeave
  BY <1>5 DEF MainLeave, wayVars, handlerVars, reportVars
<1>6. CASE Collect
  BY <1>6 DEF Collect, handlerVars, reportVars, Travelling, Answered
<1>7. CASE Finish
  BY <1>7, Types DEF Finish, AddTime, AddCount, Start, AskedInv, Asking, Alive, wayVars,
     handlerVars, reportVars
<1>8. ASSUME NEW c \in Queries, RxRemove(c) PROVE TypeOK'
  BY <1>8 DEF RxRemove, Travelling, Answered, reportVars
<1>9. CASE RxArrive \/ RxLeave
  BY <1>9 DEF RxArrive, RxLeave, wayVars, loopVars, reportVars
<1>10. CASE SetTx \/ DeclQueryable \/ LearnRoute
  BY <1>10 DEF SetTx, DeclQueryable, LearnRoute, loopVars, handlerVars, reportVars
<1>11. ASSUME NEW c \in Queries, EvalTake(c) \/ EvalReply(c) PROVE TypeOK'
  <2>1. PICK w \in {"eval", "data", "empty", "lost"} : place' = [place EXCEPT ![c] = w]
    BY <1>11 DEF EvalTake, EvalReply, NoData
  <2> QED
    BY <1>11, <2>1 DEF EvalTake, EvalReply, loopVars, handlerVars, reportVars, Travelling, Answered
<1>12. CASE Close
  <2>1. PICK S \in SUBSET Queries, w \in {"empty", "lost"} :
          place' = [c \in Queries |-> IF c \in S THEN w ELSE place[c]]
    BY <1>12 DEF Close, NoData
  <2> QED
    BY <1>12, <2>1 DEF Close, loopVars, handlerVars, reportVars, Travelling, Answered
<1>13. CASE SwapTime
  BY <1>13, Types DEF SwapTime, wayVars, loopVars, handlerVars
<1>14. CASE SwapCount
  BY <1>14, Types DEF SwapCount, wayVars, loopVars, handlerVars
<1>15. CASE PrintLine
  BY <1>15, Types DEF PrintLine, wayVars, loopVars, handlerVars
<1>16. CASE UNCHANGED vars
  BY <1>16 DEF vars, wayVars, loopVars, handlerVars, reportVars
<1>17. CASE Report
  BY <1>17, Types DEF Report, Start, AskedInv, Asking, Alive, wayVars, handlerVars
<1> QED
  BY <1>1, <1>2, <1>3, <1>4, <1>5, <1>6, <1>7, <1>8, <1>9, <1>10, <1>11, <1>12, <1>13, <1>14,
     <1>15, <1>16, <1>17 DEF Next, Loop, Handler, Queryable, Reporter

LEMMA EvalStep == QthrInv /\ [Next]_vars => EvalInv'
<1> SUFFICES ASSUME QthrInv, [Next]_vars PROVE EvalInv'
  OBVIOUS
<1> USE DEF QthrInv, EvalInv
<1>1. CASE Send
  <2>1. PICK w : /\ place' = [place EXCEPT ![count] = w]
                 /\ path = "up" \/ w \notin {"query", "eval", "data"}
    BY <1>1 DEF Send, NoData
  <2> QED
    BY <1>1, <2>1, Types DEF Send, TypeOK
<1>2. CASE Collect
  BY <1>2, PlaceOf, Types DEF Collect, TypeOK
<1>3. ASSUME NEW c \in Queries, RxRemove(c) PROVE EvalInv'
  BY <1>3, PlaceOf DEF RxRemove
<1>4. ASSUME NEW c \in Queries, EvalTake(c) PROVE EvalInv'
  BY <1>4, PlaceOf DEF EvalTake
<1>5. ASSUME NEW c \in Queries, EvalReply(c) PROVE EvalInv'
  BY <1>5, PlaceOf DEF EvalReply
<1>6. CASE SetTx \/ DeclQueryable \/ LearnRoute
  BY <1>6 DEF SetTx, DeclQueryable, LearnRoute
<1>7. CASE Close
  <2>1. PICK S \in SUBSET Queries, w \in {"empty", "lost"} :
          place' = [c \in Queries |-> IF c \in S THEN w ELSE place[c]]
    BY <1>7 DEF Close, NoData
  <2> QED
    BY <1>7, <2>1 DEF Close
<1>8. CASE UNCHANGED wayVars
  BY <1>8 DEF wayVars
<1>9. \/ Insert \/ SendFails \/ MainArrive \/ MainLeave \/ Expire \/ Finish \/ Report
      \/ RxArrive \/ RxLeave \/ Reporter \/ UNCHANGED vars
      => UNCHANGED wayVars
  BY DEF Insert, SendFails, MainArrive, MainLeave, Expire, Finish, Report, RxArrive, RxLeave,
     Reporter, SwapTime, SwapCount, PrintLine, vars
<1> QED
  BY <1>1, <1>2, <1>3, <1>4, <1>5, <1>6, <1>7, <1>8, <1>9 DEF Next, Loop, Handler, Queryable

\* The steps that leave each query where it is, and the loop where it is.
StillHere == UNCHANGED <<prog, place, pc, count>>

LEMMA Still ==
  ASSUME \/ RxArrive \/ RxLeave \/ SetTx \/ DeclQueryable \/ LearnRoute \/ Reporter
         \/ UNCHANGED vars
  PROVE  StillHere
  BY DEF RxArrive, RxLeave, SetTx, DeclQueryable, LearnRoute, Reporter, SwapTime, SwapCount,
     PrintLine, vars, wayVars, loopVars, StillHere

\* The queryable and the way to it only ever move a query that is under way.
LEMMA WaySteps ==
  ASSUME TypeOK, (\E c \in Queries : EvalTake(c) \/ EvalReply(c)) \/ Close
  PROVE  /\ UNCHANGED <<prog, loopVars, handlerVars>>
         /\ \A c \in Queries :
              \/ place'[c] = place[c]
              \/ /\ place[c] \notin Answered /\ place[c] # "unsent"
                 /\ place'[c] \notin Answered /\ place'[c] # "unsent"
<1>1. ASSUME NEW c \in Queries, EvalTake(c) \/ EvalReply(c)
      PROVE  \E w \in {"eval", "data", "empty", "lost"} : place' = [place EXCEPT ![c] = w]
  BY <1>1 DEF EvalTake, EvalReply, NoData
<1>2. ASSUME NEW c \in Queries, EvalTake(c) \/ EvalReply(c)
      PROVE  /\ UNCHANGED <<prog, loopVars, handlerVars>> /\ place[c] \in {"query", "eval"}
  BY <1>2 DEF EvalTake, EvalReply
<1>3. CASE Close
  <2>1. PICK S \in SUBSET {c \in Queries : place[c] \in Travelling}, w \in {"empty", "lost"} :
          place' = [c \in Queries |-> IF c \in S THEN w ELSE place[c]]
    BY <1>3 DEF Close, NoData
  <2> QED
    BY <1>3, <2>1 DEF Close, Travelling, Answered
<1>4. CASE \E c \in Queries : EvalTake(c) \/ EvalReply(c)
  <2>1. PICK c \in Queries : EvalTake(c) \/ EvalReply(c)
    BY <1>4
  <2>2. PICK w \in {"eval", "data", "empty", "lost"} : place' = [place EXCEPT ![c] = w]
    BY <1>1, <2>1
  <2> QED
    BY <1>2, <2>1, <2>2, PlaceOf DEF Answered
<1> QED
  BY <1>3, <1>4

LEMMA AskedStep == QthrInv /\ [Next]_vars => AskedInv'
<1> SUFFICES ASSUME QthrInv, [Next]_vars PROVE AskedInv'
  OBVIOUS
<1> USE DEF QthrInv, AskedInv, Asking, InFlight, Alive
<1>1. CASE Insert
  BY <1>1 DEF Insert, wayVars
<1>2. CASE Send
  <2>1. PICK w \in {"query", "empty", "lost"} : place' = [place EXCEPT ![count] = w]
    BY <1>2 DEF Send, NoData
  <2>2. /\ count \in Queries /\ place'[count] = w
        /\ \A c \in Queries : c # count => place'[c] = place[c]
    <3>1. count \in Queries
      BY <1>2, Types DEF Send
    <3> QED
      BY <2>1, <3>1, PlaceOf
  <2>3. /\ pc' = IF prog.barrier THEN "arrive" ELSE "collect"
        /\ UNCHANGED <<prog, count>> /\ count < MaxQueries
    BY <1>2 DEF Send
  <2> QED
    BY <2>2, <2>3, Types DEF Answered
<1>3. CASE SendFails \/ Expire
  BY <1>3 DEF SendFails, Expire, Exit, wayVars
<1>4. CASE MainArrive
  BY <1>4 DEF MainArrive, wayVars
<1>5. CASE MainLeave
  BY <1>5 DEF MainLeave, wayVars, Released, BarrierInv, Answered
<1>6. CASE Collect
  <2>1. count \in Queries /\ ~prog.barrier
    BY <1>6, Types DEF Collect
  <2>2. PICK w \in Answered : /\ place' = [place EXCEPT ![count] = w]
                              /\ w = "ended" => prog.ends
    BY <1>6 DEF Collect, Answered
  <2>3. /\ pc' = "answered" /\ UNCHANGED <<prog, count>>
        /\ place'[count] = w /\ \A c \in Queries : c # count => place'[c] = place[c]
    BY <1>6, <2>1, <2>2, PlaceOf DEF Collect
  <2> QED
    BY <2>1, <2>2, <2>3, Types
<1>7. CASE Finish
  <2>1. UNCHANGED <<prog, place>>
    BY <1>7 DEF Finish, wayVars
  <2>2. CASE pc = "answered" /\ pc' = "timed" /\ AddTime
    BY <2>1, <2>2 DEF AddTime
  <2>3. CASE pc = "timed" /\ pc' = Start /\ AddCount
    <3>1. count' = count + 1 /\ place[count] \in Answered
      BY <2>3, Types DEF AddCount
    <3>2. /\ pc' \in {"insert", "send"}
          /\ pc' = "insert" => prog.barrier
      BY <2>3 DEF Start
    <3>3. \A c \in Queries :
            /\ c < count' => place'[c] \in Answered
            /\ c > count' => place'[c] = "unsent"
            /\ place'[c] = "ended" => prog'.ends /\ ~prog'.barrier
      BY <2>1, <3>1, Types
    <3>4. count' < MaxQueries => place'[count'] = "unsent"
      BY <2>1, <3>1, Types DEF Queries
    <3> QED
      BY <2>1, <3>1, <3>2, <3>3, <3>4
  <2> QED
    BY <1>7, <2>2, <2>3 DEF Finish
<1>11. CASE Report
  <2>1. /\ count' = count + 1 /\ place[count] \in Answered
        /\ pc' \in {"insert", "send"} /\ (pc' = "insert" => prog.barrier)
        /\ UNCHANGED <<prog, place>>
    BY <1>11, Types DEF Report, Start, wayVars
  <2>2. \A c \in Queries :
          /\ c < count' => place'[c] \in Answered
          /\ c > count' => place'[c] = "unsent"
          /\ place'[c] = "ended" => prog'.ends /\ ~prog'.barrier
    BY <2>1, Types
  <2>3. count' < MaxQueries => place'[count'] = "unsent"
    BY <2>1, Types DEF Queries
  <2> QED
    BY <2>1, <2>2, <2>3
<1>8. ASSUME NEW c \in Queries, RxRemove(c) PROVE AskedInv'
  <2>1. /\ place[c] = "data" /\ pc' \in {pc, "exited"} /\ UNCHANGED <<prog, count>>
        /\ prog.barrier /\ pc # "exited"
    BY <1>8 DEF RxRemove
  <2>2. place'[c] = "taken" /\ \A d \in Queries : d # c => place'[d] = place[d]
    BY <1>8, PlaceOf DEF RxRemove
  <2>3. c = count /\ InFlight
    BY <2>1, Types DEF TypeOK, Answered
  <2> QED
    BY <2>1, <2>2, <2>3, Types DEF Answered
<1>9. CASE StillHere
  BY <1>9 DEF StillHere
<1>10. CASE (\E c \in Queries : EvalTake(c) \/ EvalReply(c)) \/ Close
  <2>1. /\ UNCHANGED <<prog, pc, count>>
        /\ \A c \in Queries :
              \/ place'[c] = place[c]
              \/ /\ place[c] \notin Answered /\ place[c] # "unsent"
                 /\ place'[c] \notin Answered /\ place'[c] # "unsent"
    BY <1>10, WaySteps DEF loopVars
  <2> QED
    BY <2>1, Types DEF Answered
<1> QED
  BY <1>1, <1>2, <1>3, <1>4, <1>5, <1>6, <1>7, <1>8, <1>9, <1>10, <1>11, Still
     DEF Next, Loop, Handler, Queryable

LEMMA BarrierStep == QthrInv /\ [Next]_vars => BarrierInv'
<1> SUFFICES ASSUME QthrInv, [Next]_vars PROVE BarrierInv'
  OBVIOUS
<1> USE DEF QthrInv, BarrierInv, InFlight, Alive
<1>1. CASE Insert
  BY <1>1, Types DEF Insert, wayVars, handlerVars, AskedInv, Asking
<1>2. CASE Send
  <2>1. PICK w \in {"query", "empty", "lost"} : place' = [place EXCEPT ![count] = w]
    BY <1>2 DEF Send, NoData
  <2>2. count \in Queries /\ place[count] = "unsent"
    BY <1>2, Types DEF Send, AskedInv, Asking
  <2>3. place'[count] = w /\ \A c \in Queries : c # count => place'[c] = place[c]
    BY <2>1, <2>2, PlaceOf
  <2>4. /\ pc = "send" /\ pc' = IF prog.barrier THEN "arrive" ELSE "collect"
        /\ UNCHANGED <<prog, count, pending, mainIn, rxIn, rx>>
    BY <1>2 DEF Send, handlerVars
  <2>5. \A c \in rxIn : c # count /\ place'[c] = "taken"
    BY <2>2, <2>3 DEF TypeOK
  <2>6. rx # None => rx # count /\ place'[rx] = "taken"
    BY <2>2, <2>3 DEF TypeOK
  <2> QED
    BY <2>2, <2>3, <2>4, <2>5, <2>6 DEF Answered
<1>3. CASE SendFails \/ Expire
  BY <1>3 DEF SendFails, Expire, Exit, wayVars, handlerVars
<1>4. CASE MainArrive
  BY <1>4, Types DEF MainArrive, wayVars, handlerVars, AskedInv, Asking
<1>5. CASE MainLeave
  BY <1>5 DEF MainLeave, wayVars, handlerVars, Released
<1>6. CASE Collect
  <2>1. count \in Queries /\ ~prog.barrier /\ place[count] # "taken"
    BY <1>6, Types DEF Collect, AskedInv, Asking, Answered
  <2>2. PICK w : place' = [place EXCEPT ![count] = w]
    BY <1>6 DEF Collect
  <2>3. /\ UNCHANGED <<prog, count, rxIn, rx>>
        /\ \A c \in Queries : c # count => place'[c] = place[c]
    BY <1>6, <2>1, <2>2, PlaceOf DEF Collect, handlerVars
  <2> QED
    BY <2>1, <2>3 DEF TypeOK
<1>7. CASE Finish
  <2>1. UNCHANGED <<prog, place, pending, mainIn, rxIn, rx>>
    BY <1>7 DEF Finish, wayVars, handlerVars
  <2>2. CASE pc = "answered" /\ pc' = "timed" /\ AddTime
    BY <2>1, <2>2 DEF AddTime
  <2>3. CASE pc = "timed" /\ pc' = Start /\ AddCount
    <3>1. count' = count + 1 /\ pc' = IF prog.barrier THEN "insert" ELSE "send"
      BY <2>3 DEF AddCount, Start
    <3>2. rx' # None => rx' <= count'
      BY <2>1, <3>1, Types DEF TypeOK
    <3>3. prog.barrier =>
            /\ \A c \in Queries : c \in mainIn' <=> c < count'
            /\ \A c \in Queries : c < count' => c \in rxIn'
      BY <2>1, <2>3, <3>1, Types
    <3> QED
      BY <2>1, <3>1, <3>2, <3>3
  <2> QED
    BY <1>7, <2>2, <2>3 DEF Finish
<1>13. CASE Report
  <2>1. /\ UNCHANGED <<prog, place, rxIn, rx>> /\ count' = count + 1
        /\ ~prog.barrier
    BY <1>13 DEF Report, wayVars, handlerVars, TypeOK
  <2> QED
    BY <2>1, Types
<1>8. ASSUME NEW c \in Queries, RxRemove(c) PROVE BarrierInv'
  <2>1. /\ place[c] = "data" /\ prog.barrier /\ pc # "exited" /\ rx = None
        /\ pending' = pending \ {c} /\ UNCHANGED <<prog, count, mainIn, rxIn>>
    BY <1>8 DEF RxRemove
  <2>2. place'[c] = "taken" /\ \A d \in Queries : d # c => place'[d] = place[d]
    BY <1>8, PlaceOf DEF RxRemove
  <2>3. c = count /\ InFlight
    BY <2>1, Types DEF TypeOK, Answered, AskedInv, Asking
  <2>4. rx' = c /\ pc' = pc
    BY <1>8, <2>1, <2>3 DEF RxRemove, Answered
  <2>5. \A d \in rxIn : place'[d] = "taken"
    BY <2>2 DEF TypeOK
  <2> QED
    BY <2>1, <2>2, <2>3, <2>4, <2>5, Types DEF Answered
<1>9. CASE RxArrive
  BY <1>9, Types DEF RxArrive, wayVars, loopVars, TypeOK
<1>10. CASE RxLeave
  BY <1>10, Types DEF RxLeave, wayVars, loopVars, Released
<1>11. CASE SetTx \/ DeclQueryable \/ LearnRoute \/ Reporter \/ UNCHANGED vars
  BY <1>11 DEF SetTx, DeclQueryable, LearnRoute, Reporter, SwapTime, SwapCount, PrintLine,
     vars, wayVars, loopVars, handlerVars
<1>12. CASE (\E c \in Queries : EvalTake(c) \/ EvalReply(c)) \/ Close
  <2>1. /\ UNCHANGED <<prog, pc, count, pending, mainIn, rxIn, rx>>
        /\ \A c \in Queries :
              \/ place'[c] = place[c]
              \/ place[c] \notin Answered /\ place'[c] \notin Answered
    BY <1>12, WaySteps DEF loopVars, handlerVars
  <2>2. InFlight => count \in Queries
    BY Types DEF AskedInv, Asking
  <2>3. \A c \in rxIn : place'[c] = "taken"
    BY <2>1 DEF Answered, TypeOK
  <2>4. rx # None => place'[rx] = "taken"
    BY <2>1 DEF Answered, TypeOK
  <2>5. InFlight => (place'[count] = "taken" => place[count] = "taken")
                    /\ (place'[count] \notin Answered => place[count] \notin Answered)
    BY <2>1, <2>2 DEF Answered
  <2> QED
    BY <2>1, <2>3, <2>4, <2>5
<1> QED
  BY <1>1, <1>2, <1>3, <1>4, <1>5, <1>6, <1>7, <1>8, <1>9, <1>10, <1>11, <1>12, <1>13
     DEF Next, Loop, Handler, Queryable
-----------------------------------------------------------------------------
LEMMA NextInv == QthrInv /\ MeansKeepUp /\ [Next]_vars => QthrInv' /\ MeansKeepUp'
  BY NumbersStep, TypeStep, AskedStep, EvalStep, BarrierStep DEF QthrInv

\* Each query is counted in one place and its time in one, it is asked when
\* those before it are answered, and each thread is at the barrier it should be.
THEOREM InductiveInvariant == Spec => []QthrInv
  BY InitInv, NextInv, PTL DEF Spec

\* A time is at most one line later than its query, or one query earlier.
THEOREM MeansAlwaysKeepUp == Spec => []MeansKeepUp
  BY InitInv, NextInv, PTL DEF Spec

\* The unwrap() of the handler never fails: the process ends in the loop only.
THEOREM HandlerNeverPanics == Spec => [][Handler => Alive']_vars
<1>1. QthrInv /\ [Next]_vars => [Handler => Alive']_vars
  <2> SUFFICES ASSUME QthrInv, Handler PROVE Alive'
    OBVIOUS
  <2>1. ASSUME NEW c \in Queries, RxRemove(c) PROVE Alive'
    <3>1. place[c] = "data" /\ prog.barrier /\ Alive
      BY <2>1 DEF RxRemove
    <3>2. c = count /\ InFlight
      BY <3>1, Types DEF QthrInv, TypeOK, Answered, AskedInv, Asking, Alive, InFlight
    <3>3. c \in pending
      BY <3>1, <3>2 DEF QthrInv, BarrierInv, Answered
    <3> QED
      BY <2>1, <3>1, <3>3 DEF RxRemove, Alive
  <2>2. CASE RxArrive \/ RxLeave
    BY <2>2 DEF RxArrive, RxLeave, loopVars, Alive
  <2> QED
    BY <2>1, <2>2 DEF Handler
<1> QED
  BY <1>1, InductiveInvariant, PTL DEF Spec

\* A loop whose query got no data stays in the barrier, with its process alive, and
\* counts no other query: only the lines that were due are left.
THEOREM HungForEver == Spec => [][Hung => Hung' /\ count' = count]_vars
<1>1. QthrInv /\ [Next]_vars => [Hung => Hung' /\ count' = count]_vars
  <2> SUFFICES ASSUME QthrInv, [Next]_vars, Hung PROVE Hung' /\ count' = count
    OBVIOUS
  <2> USE DEF QthrInv
  <2>1. /\ prog.barrier /\ pc = "leave" /\ place[count] \in {"empty", "lost"}
        /\ Alive /\ InFlight /\ count \in Queries
    BY Types DEF Hung, Alive, InFlight, Asking, AskedInv, Queries
  <2>2. count \notin rxIn
    BY <2>1 DEF BarrierInv
  <2>3. ~MainLeave
    BY <2>2 DEF MainLeave, Released
  <2>4. ~Insert /\ ~Send /\ ~SendFails /\ ~MainArrive /\ ~Collect /\ ~Expire /\ ~Finish /\ ~Report
    BY <2>1 DEF Insert, Send, SendFails, MainArrive, Collect, Expire, Finish, Report
  <2>5. ASSUME NEW c \in Queries, RxRemove(c) PROVE FALSE
    <3>1. place[c] = "data" /\ c # count
      BY <2>1, <2>5 DEF RxRemove
    <3> QED
      BY <3>1, Types DEF AskedInv, Answered
  <2>6. CASE Queryable \/ Close
    <3>1. UNCHANGED <<prog, pc, count>>
      BY <2>6 DEF Queryable, SetTx, DeclQueryable, EvalTake, EvalReply, Close, loopVars
    <3>2. place'[count] \in {"empty", "lost"}
      <4>1. CASE SetTx \/ DeclQueryable
        BY <2>1, <4>1 DEF SetTx, DeclQueryable
      <4>2. ASSUME NEW c \in Queries, EvalTake(c) \/ EvalReply(c)
            PROVE  place'[count] = place[count]
        <5>1. c # count
          BY <2>1, <4>2 DEF EvalTake, EvalReply
        <5>2. PICK w : place' = [place EXCEPT ![c] = w]
          BY <4>2 DEF EvalTake, EvalReply
        <5> QED
          BY <2>1, <5>1, <5>2, PlaceOf
      <4>3. CASE Close
        BY <2>1, <4>3 DEF Close, NoData
      <4> QED
        BY <2>1, <2>6, <4>1, <4>2, <4>3 DEF Queryable
    <3> QED
      BY <2>1, <3>1, <3>2 DEF Hung
  <2>7. CASE RxArrive \/ RxLeave \/ LearnRoute \/ Reporter \/ UNCHANGED vars
    BY <2>1, <2>7 DEF RxArrive, RxLeave, LearnRoute, Reporter, SwapTime, SwapCount, PrintLine,
       vars, wayVars, loopVars, Hung
  <2> QED
    BY <2>3, <2>4, <2>5, <2>6, <2>7 DEF Next, Loop, Handler
<1> QED
  BY <1>1, InductiveInvariant, PTL DEF Spec

\* The counter implements Tally: whatever is completed between the two swaps or
\* before the line is printed, a query is in one line.
THEOREM RefinesTally == Spec => ImplementsTally
<1> DEFINE counts == [e \in {"queries"} |-> count]
           sums == [e \in {"queries"} |-> printed]
<1>1. Init => T!Init
  BY DEF Init, T!Init
<1>2. QthrInv /\ [Next]_vars => [T!Next]_<<counts, sums>>
  <2> SUFFICES ASSUME QthrInv, [Next]_vars PROVE [T!Next]_<<counts, sums>>
    OBVIOUS
  <2> USE DEF QthrInv
  <2>1. CASE Finish
    <3>1. printed' = printed /\ count' \in {count, count + 1}
      BY <2>1 DEF Finish, AddTime, AddCount, reportVars
    <3> QED
      BY <3>1 DEF T!Next, T!Count
  <2>2. CASE PrintLine
    <3>1. printed' = printed + line /\ count' = count /\ line > 0
      BY <2>2 DEF PrintLine, loopVars
    <3>2. printed + line \in (printed + 1)..count
      BY <3>1, Types DEF CountedOnce
    <3> QED
      BY <3>1, <3>2 DEF T!Next, T!PrintLine
  <2>3. CASE SwapTime \/ SwapCount
    BY <2>3 DEF SwapTime, SwapCount, loopVars
  <2>4. CASE \/ Insert \/ Send \/ SendFails \/ MainArrive \/ MainLeave \/ Collect \/ Expire
             \/ Handler \/ Queryable \/ LearnRoute \/ Close \/ UNCHANGED vars
    BY <2>4, Quiet
  <2>5. CASE Report
    <3>1. printed' = printed + 1 /\ count' = count + 1 /\ printed = count
      BY <2>5, Types DEF Report, CountedOnce, LineInv
    <3> QED
      BY <3>1 DEF T!Next, T!CountAndPrint
  <2> QED
    BY <2>1, <2>2, <2>3, <2>4, <2>5 DEF Next, Loop, Reporter
<1> QED
  BY <1>1, <1>2, InductiveInvariant, PTL DEF Spec, ImplementsTally, T!Spec
=============================================================================
