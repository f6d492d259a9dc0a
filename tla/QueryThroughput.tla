-------------------------- MODULE QueryThroughput ---------------------------
(***************************************************************************)
(* The query throughput benchmarks: one loop that asks and waits for the   *)
(* answer, and a reporter that every second swaps two atomics with zero,   *)
(* rtt, the sum of the times, and counter, the number of queries, and      *)
(* prints their quotient.  Time is abstracted to one unit for each query,  *)
(* so that rtt holds the number of queries whose time is in it.  The query *)
(* latency benchmarks over sessions and NATS, and nats_ping against        *)
(* nats_pong, are the same loop without a reporter: it prints a line for   *)
(* each query itself.                                                      *)
(*                                                                         *)
(* t_query_thr asks over a transport.  The other programs ask routers or a *)
(* broker, which know the queryable only while its declaration is with     *)
(* them, and which otherwise let a query end without data, or get lost.    *)
(***************************************************************************)
EXTENDS Integers

CONSTANTS
  Programs,    \* the programs that may run
  MaxQueries,  \* bound on the queries of a behaviour
  PathMayFail, \* may the way to the queryable be lost under the programs?
  None         \* the value of a hand that holds nothing

\* barrier: a handler takes the answer and meets the loop at the query's barrier;
\*          otherwise the loop takes the answer itself
\* routed:  the queryable is found by routers or by a broker
\* aborts:  the error of a failed query is unwrapped, or a panic
\* expires: a query without an answer is such an error too, after a minute
\* ends:    an answer without data is the end of the query, like any other
\* times:   there is an rtt beside the counter
\* each:    there are neither, and the loop prints a line for each query
\* setsTx:  its queryable is r_eval, which is given its way back by set_tx
t_query_thr ==
  [barrier |-> TRUE, routed |-> FALSE, aborts |-> TRUE, expires |-> FALSE,
   ends |-> FALSE, times |-> TRUE, each |-> FALSE, setsTx |-> FALSE]
r_query_thr    == [t_query_thr EXCEPT !.routed = TRUE, !.aborts = FALSE, !.setsTx = TRUE]
z_query_thr    == [t_query_thr EXCEPT !.routed = TRUE, !.barrier = FALSE, !.ends = TRUE]
zn_query_thr   == z_query_thr   \* over an older interface
nats_query_thr == [z_query_thr EXCEPT !.ends = FALSE, !.expires = TRUE, !.times = FALSE]
z_query    == [z_query_thr EXCEPT !.times = FALSE, !.each = TRUE]
zn_query   == z_query           \* over an older interface
nats_query == [nats_query_thr EXCEPT !.each = TRUE]
nats_ping  == nats_query        \* Publish and NextMsg in place of Request

AllPrograms ==
  [barrier : BOOLEAN, routed : BOOLEAN, aborts : BOOLEAN, expires : BOOLEAN,
   ends : BOOLEAN, times : BOOLEAN, each : BOOLEAN, setsTx : BOOLEAN]

ASSUME ProgramsAssumption == Programs \subseteq AllPrograms
\* r_eval is reached through routers.
ASSUME SetsTxAssumption == \A p \in Programs : p.setsTx => p.routed
\* Who prints each query does so in the loop, and sums no times.
ASSUME EachAssumption == \A p \in Programs : p.each => ~p.barrier /\ ~p.times
ASSUME BoundsAssumption == MaxQueries \in Nat /\ PathMayFail \in BOOLEAN
ASSUME NoneAssumption == None \notin Nat

Queries == 0..(MaxQueries - 1)

VARIABLES
  prog,      \* the program that runs
  eval,      \* its queryable: new, bound (tx is set) or declared
  path,      \* the way to it: none, up, or closed for ever
  place,     \* where each query is
  pc,        \* the loop: insert, send, arrive, leave, collect, answered, timed, exited
  count,     \* the queries it has completed, the qid of the next
  pending,   \* the keys of the map
  mainIn,    \* the queries at whose barrier the loop has arrived,
  rxIn,      \* and those at whose barrier the handler has
  rx,        \* the qid whose barrier the handler has taken from the map
  rtt,       \* the atomics
  counter,
  taken,     \* the times a reporter has swapped out,
  line,      \* and the count, while it has a line to print
  timesTaken,\* the sum of the times swapped out
  printed    \* the sum of the counts printed

wayVars == <<eval, path, place>>
loopVars == <<pc, count, pending, mainIn>>
handlerVars == <<rxIn, rx>>
reportVars == <<taken, line, timesTaken, printed>>
vars == <<prog, wayVars, loopVars, handlerVars, rtt, counter, reportVars>>

Travelling == {"query", "data", "empty"}
Answered   == {"taken", "ended"}

TypeOK ==
  /\ prog \in Programs
  /\ eval \in {"new", "bound", "declared"}
  /\ path \in {"none", "up", "closed"}
  /\ place \in [Queries -> {"unsent", "eval", "lost"} \cup Travelling \cup Answered]
  /\ pc \in {"insert", "send", "arrive", "leave", "collect", "answered", "timed", "exited"}
  /\ count \in 0..MaxQueries
  /\ pending \in SUBSET Queries
  /\ mainIn \in SUBSET Queries
  /\ rxIn \in SUBSET Queries
  /\ rx \in Queries \cup {None}
  /\ rtt \in Nat
  /\ counter \in Nat
  /\ taken \in Nat \cup {None}
  /\ line \in Nat
  /\ timesTaken \in Nat
  /\ printed \in Nat

\* Where a round of the loop begins.
Start == IF prog.barrier THEN "insert" ELSE "send"

Init ==
  /\ prog \in Programs
  /\ eval = IF prog.setsTx THEN "new" ELSE IF prog.routed THEN "bound" ELSE "declared"
  /\ path = IF prog.routed THEN "none" ELSE "up"
  /\ place = [c \in Queries |-> "unsent"]
  /\ pc = Start
  /\ count = 0
  /\ pending = {} /\ mainIn = {} /\ rxIn = {} /\ rx = None
  /\ rtt = 0 /\ counter = 0
  /\ taken = None /\ line = 0
  /\ timesTaken = 0 /\ printed = 0

Alive == pc # "exited"
Exit == pc' = "exited" /\ UNCHANGED <<count, pending, mainIn>>
-----------------------------------------------------------------------------
\* pending.lock().unwrap().insert(count, barrier.clone())
Insert ==
  /\ pc = "insert"
  /\ count < MaxQueries
  /\ pending' = pending \cup {count}
  /\ pc' = "send"
  /\ UNCHANGED <<prog, wayVars, count, mainIn, handlerVars, rtt, counter, reportVars>>

\* What becomes of a query that gets no data: over routers it may still end.
NoData == IF prog.routed THEN {"empty", "lost"} ELSE {"lost"}

\* session.handle_message(message).unwrap(), send_query, get, query or Request
Send ==
  /\ pc = "send"
  /\ count < MaxQueries
  /\ path = "closed" => prog.routed
  /\ \E w \in IF path = "up" THEN {"query"} ELSE NoData :
       place' = [place EXCEPT ![count] = w]
  /\ pc' = IF prog.barrier THEN "arrive" ELSE "collect"
  /\ UNCHANGED <<prog, eval, path, count, pending, mainIn, handlerVars, rtt, counter, reportVars>>

SendFails ==
  /\ pc = "send"
  /\ count < MaxQueries
  /\ path = "closed" /\ prog.aborts
  /\ Exit
  /\ UNCHANGED <<prog, wayVars, handlerVars, rtt, counter, reportVars>>

\* barrier.wait(): a barrier of the query's own, for the loop and the handler
Released(c) == c \in mainIn /\ c \in rxIn

MainArrive ==
  /\ pc = "arrive"
  /\ mainIn' = mainIn \cup {count}
  /\ pc' = "leave"
  /\ UNCHANGED <<prog, wayVars, count, pending, handlerVars, rtt, counter, reportVars>>

MainLeave ==
  /\ pc = "leave"
  /\ Released(count)
  /\ pc' = "answered"
  /\ UNCHANGED <<prog, wayVars, count, pending, mainIn, handlerVars, rtt, counter, reportVars>>

\* while data_stream.next().await.is_some() {}, or the answer of the request
Collect ==
  /\ pc = "collect"
  /\ \/ place[count] = "data" /\ place' = [place EXCEPT ![count] = "taken"]
     \/ place[count] = "empty" /\ prog.ends /\ place' = [place EXCEPT ![count] = "ended"]
  /\ pc' = "answered"
  /\ UNCHANGED <<prog, eval, path, count, pending, mainIn, handlerVars, rtt, counter, reportVars>>

\* The minute of the request is over, or the broker knows nobody to ask.
Expire ==
  /\ pc = "collect"
  /\ prog.expires
  /\ Exit
  /\ UNCHANGED <<prog, wayVars, handlerVars, rtt, counter, reportVars>>

\* rtt.fetch_add(now.elapsed()), counter.fetch_add(1), and the next round
AddTime ==
  /\ rtt' = IF prog.times THEN rtt + 1 ELSE rtt
  /\ UNCHANGED <<count, counter>>

AddCount ==
  /\ counter' = counter + 1
  /\ count' = count + 1
  /\ UNCHANGED rtt

FinishSwapped ==  \* a mutant: the counter first
  /\ ~prog.each
  /\ \/ pc = "answered" /\ pc' = "timed" /\ AddCount
     \/ pc = "timed" /\ pc' = Start /\ AddTime
  /\ UNCHANGED <<prog, wayVars, pending, mainIn, handlerVars, reportVars>>

Finish ==
  /\ ~prog.each
  /\ \/ pc = "answered" /\ pc' = "timed" /\ AddTime
     \/ pc = "timed" /\ pc' = Start /\ AddCount
  /\ UNCHANGED <<prog, wayVars, pending, mainIn, handlerVars, reportVars>>
\* println!(..., count, now.elapsed().as_micros()); count += 1
Report ==
  /\ pc = "answered"
  /\ prog.each
  /\ printed' = printed + 1
  /\ count' = count + 1
  /\ pc' = Start
  /\ UNCHANGED <<prog, wayVars, pending, mainIn, handlerVars, rtt, counter, taken, line,
                 timesTaken>>
-----------------------------------------------------------------------------
\* handle_message, or send_reply_data: remove(&qid).unwrap().  The reply that is
\* final and has no data, send_reply_final, does nothing.
RxRemoveFinal(c) ==  \* a mutant: send_reply_final releases the loop too
  /\ Alive /\ prog.barrier
  /\ rx = None
  /\ place[c] \in {"data", "empty"}
  /\ place' = [place EXCEPT ![c] = "taken"]
  /\ rx' = c
  /\ pending' = pending \ {c}
  /\ UNCHANGED <<prog, eval, path, pc, count, mainIn, rxIn, rtt, counter, reportVars>>

RxRemove(c) ==
  /\ Alive /\ prog.barrier
  /\ rx = None
  /\ place[c] = "data"
  /\ place' = [place EXCEPT ![c] = "taken"]
  /\ IF c \in pending THEN rx' = c /\ UNCHANGED pc ELSE pc' = "exited" /\ UNCHANGED rx
  /\ pending' = pending \ {c}
  /\ UNCHANGED <<prog, eval, path, count, mainIn, rxIn, rtt, counter, reportVars>>

RxArrive ==
  /\ Alive
  /\ rx # None
  /\ rxIn' = rxIn \cup {rx}
  /\ rx \notin rxIn
  /\ UNCHANGED <<prog, wayVars, loopVars, rx, rtt, counter, reportVars>>

RxLeave ==
  /\ Alive
  /\ rx # None /\ Released(rx)
  /\ rx' = None
  /\ UNCHANGED <<prog, wayVars, loopVars, rxIn, rtt, counter, reportVars>>
-----------------------------------------------------------------------------
\* rx_primitives.set_tx(tx_primitives.clone()) of r_eval
SetTx ==
  /\ eval = "new"
  /\ eval' = "bound"
  /\ UNCHANGED <<prog, path, place, loopVars, handlerVars, rtt, counter, reportVars>>

\* decl_queryable, queryable or QueueSubscribe
DeclQueryable ==
  /\ eval = "bound"
  /\ eval' = "declared"
  /\ UNCHANGED <<prog, path, place, loopVars, handlerVars, rtt, counter, reportVars>>

\* The queryable is handed the query.  That r_eval's send_query finds tx set,
\* and its unwrap does not fail, is EvalInv.
EvalTake(c) ==
  /\ place[c] = "query"
  /\ place' = [place EXCEPT ![c] = "eval"]
  /\ UNCHANGED <<prog, eval, path, loopVars, handlerVars, rtt, counter, reportVars>>

\* send_reply_data, of a task that r_eval spawns and by the others at once
EvalReply(c) ==
  /\ place[c] = "eval"
  /\ \E w \in IF path = "up" THEN {"data"} ELSE NoData : place' = [place EXCEPT ![c] = w]
  /\ UNCHANGED <<prog, eval, path, loopVars, handlerVars, rtt, counter, reportVars>>

\* The declaration reaches the router or broker of the program that asks.
LearnRoute ==
  /\ path = "none"
  /\ eval = "declared"
  /\ path' = "up"
  /\ UNCHANGED <<prog, eval, place, loopVars, handlerVars, rtt, counter, reportVars>>

\* The way is lost, and some of what travels on it; a transport for ever.
Close ==
  /\ PathMayFail
  /\ path = "up"
  /\ path' \in IF prog.routed THEN {"none", "closed"} ELSE {"closed"}
  /\ \E S \in SUBSET {c \in Queries : place[c] \in Travelling} : \E w \in NoData :
       place' = [c \in Queries |-> IF c \in S THEN w ELSE place[c]]
  /\ UNCHANGED <<prog, eval, loopVars, handlerVars, rtt, counter, reportVars>>
-----------------------------------------------------------------------------
\* The second is over: c_rtt.swap(0), then c_counter.swap(0), and a line if that
\* is not zero.  When it is zero, the times are gone.
SwapTimeLoad ==  \* a mutant: load in place of swap
  /\ Alive /\ ~prog.each
  /\ taken = None
  /\ taken' = rtt
  /\ timesTaken' = timesTaken + rtt
  /\ UNCHANGED <<prog, wayVars, loopVars, handlerVars, rtt, counter, line, printed>>

SwapTime ==
  /\ Alive /\ ~prog.each
  /\ taken = None
  /\ taken' = rtt
  /\ rtt' = 0
  /\ timesTaken' = timesTaken + rtt
  /\ UNCHANGED <<prog, wayVars, loopVars, handlerVars, counter, line, printed>>

SwapCountOfOne ==  \* a mutant: if c > 1
  /\ Alive
  /\ taken # None /\ line = 0
  /\ line' = IF counter > 1 THEN counter ELSE 0
  /\ taken' = IF counter > 1 THEN taken ELSE None
  /\ counter' = 0
  /\ UNCHANGED <<prog, wayVars, loopVars, handlerVars, rtt, timesTaken, printed>>

SwapCountKeep ==  \* a mutant: load in place of swap
  /\ Alive
  /\ taken # None /\ line = 0
  /\ line' = counter
  /\ taken' = IF counter = 0 THEN None ELSE taken
  /\ UNCHANGED <<prog, wayVars, loopVars, handlerVars, rtt, counter, timesTaken, printed>>

SwapCount ==
  /\ Alive
  /\ taken # None /\ line = 0
  /\ line' = counter
  /\ taken' = IF counter = 0 THEN None ELSE taken
  /\ counter' = 0
  /\ UNCHANGED <<prog, wayVars, loopVars, handlerVars, rtt, timesTaken, printed>>

PrintLine ==
  /\ Alive
  /\ line > 0
  /\ printed' = printed + line
  /\ line' = 0
  /\ taken' = None
  /\ UNCHANGED <<prog, wayVars, loopVars, handlerVars, rtt, counter, timesTaken>>
-----------------------------------------------------------------------------
Loop ==
  \/ Insert \/ Send \/ SendFails \/ MainArrive \/ MainLeave \/ Collect \/ Expire
  \/ Finish \/ Report
Handler == (\E c \in Queries : RxRemove(c)) \/ RxArrive \/ RxLeave
Queryable == SetTx \/ DeclQueryable \/ \E c \in Queries : EvalTake(c) \/ EvalReply(c)
Reporter == SwapTime \/ SwapCount \/ PrintLine

Next == Loop \/ Handler \/ Queryable \/ LearnRoute \/ Close \/ Reporter

Spec == Init /\ [][Next]_vars

\* The scheduler runs the loop, the handler, the reporter and the queryable once
\* it is declared; nobody has to start it, and nothing has to fail.
Fairness ==
  /\ WF_vars(Loop) /\ WF_vars(Handler)
  /\ WF_vars(SwapTime) /\ WF_vars(SwapCount) /\ WF_vars(PrintLine)
  /\ WF_vars(\E c \in Queries : EvalTake(c) \/ EvalReply(c))

FairSpec == Spec /\ Fairness
-----------------------------------------------------------------------------
\* A line says r / c with r of one swap and c of another, and queries are
\* completed between the two.  What r has by then are the times of all queries
\* of earlier lines, so that a time is at most one line late, or dropped if that
\* line would have no count; and all but one of the times taken belong to queries
\* counted: none is more than one query early.
MeansKeepUp ==
  prog.times =>
    /\ taken # None => timesTaken >= printed
    /\ taken = None \/ line > 0 => timesTaken <= printed + line + 1

T == INSTANCE Tally WITH
       Ends <- {"queries"}, counted <- [e \in {"queries"} |-> count],
       printed <- [e \in {"queries"} |-> printed]

\* Whatever the two swaps meet, a query is counted in one line.
ImplementsTally == T!Spec

\* A query that got no data: the loop is in the barrier for good.
Hung == prog.barrier /\ pc = "leave" /\ place[count] \in {"empty", "lost"}

\* One query without data, such as any that r_query_thr sends before r_eval is
\* known, silences the program for ever: it neither ends nor prints another line
\* than the one that was due.
LostQuerySilences == Hung ~> [](Hung /\ counter = 0 /\ line = 0)

\* Otherwise all queries are asked, answered and printed, although the loop and
\* the handler of the query before may be at two barriers at a time.
Unlucky == ~Alive \/ \E c \in Queries : place[c] \in {"empty", "lost"}
EveryQueryPrinted == []~Unlucky => <>(printed = MaxQueries)
-----------------------------------------------------------------------------
(***************************************************************************)
(* The inductive invariant: where the one query outstanding is, who has    *)
(* arrived at its barrier, and in which of the two atomics, hands and      *)
(* lines it has been added up.                                             *)
(***************************************************************************)
CountedOnce == count = printed + line + counter

TimedOnce ==
  prog.times /\ Alive => timesTaken + rtt = count + (IF pc = "timed" THEN 1 ELSE 0)

LineInv ==
  /\ line > 0 => taken # None
  /\ prog.each => taken = None /\ line = 0 /\ counter = 0 /\ pc # "timed"

\* A query is asked when those before it have been answered, and with data
\* unless the program takes an end without data for an answer.
Asking == pc \in {"insert", "send"}
InFlight == pc \in {"arrive", "leave", "collect"}

AskedInv ==
  /\ pc \in {"insert", "arrive", "leave"} => prog.barrier
  /\ pc = "collect" => ~prog.barrier
  /\ ~Asking /\ Alive => count < MaxQueries
  /\ \A c \in Queries :
       /\ c < count => place[c] \in Answered
       /\ c > count => place[c] = "unsent"
       /\ place[c] = "ended" => prog.ends /\ ~prog.barrier
  /\ count < MaxQueries =>
       /\ Asking => place[count] = "unsent"
       /\ InFlight => place[count] # "unsent"
       /\ pc = "collect" => place[count] \notin Answered
       /\ pc \in {"answered", "timed"} => place[count] \in Answered

EvalInv ==
  /\ path = "up" => eval = "declared"
  /\ \A c \in Queries : place[c] \in {"query", "eval", "data"} => eval = "declared"

\* The loop and the handler at the barriers; the handler may still be in that of
\* the query before, but has then been released.
BarrierInv ==
  /\ ~prog.barrier => rx = None
  /\ rx # None => rx <= count /\ place[rx] = "taken"
  /\ \A c \in rxIn : place[c] = "taken"
  /\ prog.barrier /\ Alive =>
       /\ \A c \in Queries : c \in mainIn <=>
            c < count \/ (c = count /\ pc \in {"leave", "answered", "timed"})
       /\ \A c \in Queries : c < count => c \in rxIn
       /\ pc \in {"answered", "timed"} => count \in rxIn
       /\ InFlight /\ place[count] = "taken" => count \in rxIn \/ rx = count
       /\ pc = "send" \/ (InFlight /\ place[count] \notin Answered) => count \in pending

QthrInv ==
  TypeOK /\ CountedOnce /\ TimedOnce /\ LineInv /\ AskedInv /\ EvalInv /\ BarrierInv
=============================================================================
