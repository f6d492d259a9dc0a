----------------------------- MODULE Throughput -----------------------------
(***************************************************************************)
(* The throughput benchmarks: publishers that send as fast as they can,    *)
(* subscribers that count what they receive, and in both a reporter that   *)
(* every second swaps an atomic counter with zero and prints what was in   *)
(* it.  The programs of throughput/src/bin and of comparison/ that do this *)
(* differ in a few traits, kept in one record for each of them.            *)
(*                                                                         *)
(* A process publishes, subscribes or (t_pubsub_thr) does both.  What lies *)
(* between two of them is a link: a zenoh transport opened by the          *)
(* publisher, or a path through routers or a broker that exists once the   *)
(* subscription is known at the other end.  A message is only counted, so  *)
(* a queue is the number of messages in it.                                *)
(***************************************************************************)
EXTENDS Naturals, FiniteSets

CONSTANTS
  Procs,       \* the processes, numbers
  Setups,      \* who runs what: records of an out, an in and a connect, with a
               \* bound, rounds, on the rounds of a publisher
  Capacity,    \* messages a link holds
  LinkMayFail, \* may a link be closed under the programs?
  Second,      \* what task::sleep(Duration::from_secs(1)) asks for, in ticks
  MaxLate,     \* bound on the ticks by which such a sleep is late
  MaxOther,    \* bound on the declarations a router sends a subscriber
  NoLine       \* the value of the hand of a reporter that holds no count

\* perLink:  it sends a copy on every transport itself, one after another
\* retries:  it opens a transport again and again until the peer listens, and
\*           listens before it opens one
\* blocks:   it waits while a link is full; otherwise the message is lost there
\* aborts:   the error of a failed send is unwrapped
\* prints:   it counts its rounds for a reporter of its own (with --print)
\* starts:   there are options with which it starts
t_pub_thr ==
  [perLink |-> TRUE, retries |-> FALSE, blocks |-> TRUE, aborts |-> TRUE,
   prints |-> TRUE, starts |-> TRUE]
t_pubsub_pub == [t_pub_thr EXCEPT !.retries = TRUE]
z_put_thr    == [t_pub_thr EXCEPT !.perLink = FALSE]
r_pub_thr    == [z_put_thr EXCEPT !.aborts = FALSE]
mqtt_pub_thr == [r_pub_thr EXCEPT !.blocks = FALSE]
nats_pub_thr == [z_put_thr EXCEPT !.blocks = FALSE, !.prints = FALSE]
zmq_pub_thr  == [z_put_thr EXCEPT !.prints = FALSE, !.starts = FALSE]

\* onTransport: the reporter is spawned by the first new_unicast, not by main
\* scales:      the count is divided by 1_000_000 / elapsed before it is printed
\* allKinds:    every primitive is counted, declarations too
\* late:        the callback is installed after the subscription
t_sub_thr    == [onTransport |-> TRUE, scales |-> TRUE, allKinds |-> FALSE, late |-> FALSE]
t_pubsub_sub == [t_sub_thr EXCEPT !.scales = FALSE]
z_sub_thr    == [t_sub_thr EXCEPT !.onTransport = FALSE]
r_sub_thr    == [z_sub_thr EXCEPT !.allKinds = TRUE]
nats_sub_thr == [z_sub_thr EXCEPT !.scales = FALSE]
mqtt_sub_thr == [nats_sub_thr EXCEPT !.late = TRUE]
zmq_sub_thr  == [z_sub_thr EXCEPT !.scales = FALSE]

Publishers  == [perLink : BOOLEAN, retries : BOOLEAN, blocks : BOOLEAN,
                aborts : BOOLEAN, prints : BOOLEAN, starts : BOOLEAN]
Subscribers == [onTransport : BOOLEAN, scales : BOOLEAN, allKinds : BOOLEAN, late : BOOLEAN]

ASSUME ProcsAssumption == Procs \subseteq Nat
ASSUME SetupsAssumption ==
  Setups \subseteq [out : Publishers, in : Subscribers, connect : [Procs -> SUBSET Procs],
                    rounds : Nat]
\* The programs that open transports go with those that accept them.
ASSUME PairsAssumption == \A x \in Setups : x.in.onTransport <=> x.out.perLink
ASSUME BoundsAssumption ==
  /\ Capacity \in Nat \ {0} /\ Second \in Nat \ {0}
  /\ MaxLate \in Nat /\ MaxOther \in Nat
  /\ LinkMayFail \in BOOLEAN
ASSUME NoLineAssumption == NoLine \notin [count : Nat, elapsed : Nat]

Ends  == {"out", "in"} \X Procs   \* a counter: of what a process sent or received
Links == Procs \X Procs           \* from a publisher to a subscriber

VARIABLES
  setup,      \* the programs, and for each publisher whom it sends to
  pub,        \* a publisher: opening, sending or exited, or off
  todo,       \* the peers it has still to open, or to send this round to
  rounds,     \* its completed rounds
  sub,        \* a subscriber: new, subscribed or ready
  active,     \* its AtomicBool: some new_unicast has been called
  accepting,  \* the links whose new_unicast is about to spawn the reporter
  link,       \* a link: none, opened, accepted, up or closed
  queue,      \* messages on their way on it
  delivered,  \* messages the subscriber has taken from it
  received,   \* what a subscriber has counted
  other,      \* the declarations among these
  counter,    \* the AtomicUsize of an end
  reporters,  \* the tasks that report it
  line,       \* what a reporter has swapped out and not yet printed
  printed,    \* the sum of the counts printed
  claimed     \* the sum of the figures printed

pubVars == <<pub, todo, rounds>>
subVars == <<sub, active, accepting>>
linkVars == <<link, queue, delivered>>
countVars == <<received, other, counter>>
lineVars == <<reporters, line, printed, claimed>>
vars == <<setup, pubVars, subVars, linkVars, countVars, lineVars>>

Open == {"opened", "accepted", "up"}

TypeOK ==
  /\ setup \in Setups
  /\ pub \in [Procs -> {"off", "opening", "sending", "exited"}]
  /\ todo \in [Procs -> SUBSET Procs]
  /\ rounds \in [Procs -> Nat]
  /\ sub \in [Procs -> {"off", "new", "subscribed", "ready"}]
  /\ active \in [Procs -> BOOLEAN]
  /\ accepting \in SUBSET Links
  /\ link \in [Links -> Open \cup {"none", "closed"}]
  /\ queue \in [Links -> 0..Capacity]
  /\ delivered \in [Links -> Nat]
  /\ received \in [Procs -> Nat]
  /\ other \in [Procs -> Nat]
  /\ counter \in [Ends -> Nat]
  /\ reporters \in [Ends -> Nat]
  /\ line \in [Ends -> [count : Nat, elapsed : Nat] \cup {NoLine}]
  /\ printed \in [Ends -> Nat]
  /\ claimed \in [Ends -> Nat]

Publishes(p)  == setup.out.retries \/ setup.connect[p] # {}
Subscribes(s) == setup.out.retries \/ setup.connect[s] = {}

Init ==
  /\ setup \in Setups
  /\ pub = [p \in Procs |-> IF Publishes(p) THEN "opening" ELSE "off"]
  /\ todo = [p \in Procs |-> IF setup.out.perLink THEN setup.connect[p] ELSE {}]
  /\ rounds = [p \in Procs |-> 0]
  /\ sub = [s \in Procs |-> IF Subscribes(s) THEN "new" ELSE "off"]
  /\ active = [s \in Procs |-> FALSE]
  /\ accepting = {}
  /\ link = [l \in Links |-> "none"]
  /\ queue = [l \in Links |-> 0]
  /\ delivered = [l \in Links |-> 0]
  /\ received = [s \in Procs |-> 0]
  /\ other = [s \in Procs |-> 0]
  /\ counter = [c \in Ends |-> 0]
  /\ reporters = [c \in Ends |-> 0]
  /\ line = [c \in Ends |-> NoLine]
  /\ printed = [c \in Ends |-> 0]
  /\ claimed = [c \in Ends |-> 0]

Alive(p) == pub[p] # "exited"
-----------------------------------------------------------------------------
\* A subscriber adds its listeners, or declares its subscription, and its main
\* goes on to report unless that is left to new_unicast.
Report(s) == IF setup.in.onTransport THEN reporters ELSE [reporters EXCEPT ![<<"in", s>>] = 1]

Listen(s) ==
  /\ Alive(s)
  /\ sub[s] = "new"
  /\ IF setup.in.late
       THEN sub' = [sub EXCEPT ![s] = "subscribed"] /\ UNCHANGED reporters
       ELSE sub' = [sub EXCEPT ![s] = "ready"] /\ reporters' = Report(s)
  /\ UNCHANGED <<setup, pubVars, active, accepting, linkVars, countVars, line, printed, claimed>>

\* MQTTAsync_setCallbacks, after MQTTAsync_subscribe
SetCallbacks(s) ==
  /\ sub[s] = "subscribed"
  /\ sub' = [sub EXCEPT ![s] = "ready"]
  /\ reporters' = Report(s)
  /\ UNCHANGED <<setup, pubVars, active, accepting, linkVars, countVars, line, printed, claimed>>

\* new_unicast: if !self.active.swap(true, Ordering::Acquire) { task::spawn ... }
AcceptLoad(p, s) ==  \* a mutant: load, and no store
  /\ Alive(s)
  /\ link[<<p, s>>] = "opened"
  /\ link' = [link EXCEPT ![<<p, s>>] = "accepted"]
  /\ accepting' = accepting \cup {<<p, s>>}
  /\ UNCHANGED <<setup, pubVars, sub, active, queue, delivered, countVars, lineVars>>

AcceptNegated(p, s) ==  \* a mutant: if self.active.swap(true, ...), without the !
  /\ Alive(s)
  /\ link[<<p, s>>] = "opened"
  /\ active' = [active EXCEPT ![s] = TRUE]
  /\ IF ~active[s]
       THEN link' = [link EXCEPT ![<<p, s>>] = "up"] /\ UNCHANGED accepting
       ELSE /\ link' = [link EXCEPT ![<<p, s>>] = "accepted"]
            /\ accepting' = accepting \cup {<<p, s>>}
  /\ UNCHANGED <<setup, pubVars, sub, queue, delivered, countVars, lineVars>>

Accept(p, s) ==
  /\ Alive(s)
  /\ link[<<p, s>>] = "opened"
  /\ active' = [active EXCEPT ![s] = TRUE]
  /\ IF active[s]
       THEN link' = [link EXCEPT ![<<p, s>>] = "up"] /\ UNCHANGED accepting
       ELSE /\ link' = [link EXCEPT ![<<p, s>>] = "accepted"]
            /\ accepting' = accepting \cup {<<p, s>>}
  /\ UNCHANGED <<setup, pubVars, sub, queue, delivered, countVars, lineVars>>

Spawn(p, s) ==
  /\ Alive(s)
  /\ <<p, s>> \in accepting
  /\ accepting' = accepting \ {<<p, s>>}
  /\ reporters' = [reporters EXCEPT ![<<"in", s>>] = @ + 1]
  /\ link' = [link EXCEPT ![<<p, s>>] = IF @ = "accepted" THEN "up" ELSE @]
  /\ UNCHANGED <<setup, pubVars, sub, active, queue, delivered, countVars, line, printed, claimed>>

\* handle_message, or the callback of the subscription: fetch_add(1).  What
\* comes before the callback is installed may be dropped or wait for it.
Deliver(p, s) ==
  LET counts == IF sub[s] = "ready" THEN 1 ELSE 0 IN
  /\ Alive(s)
  /\ link[<<p, s>>] \in {"up", "closed"}
  /\ queue[<<p, s>>] > 0
  /\ queue' = [queue EXCEPT ![<<p, s>>] = @ - 1]
  /\ delivered' = [delivered EXCEPT ![<<p, s>>] = @ + 1]
  /\ counter' = [counter EXCEPT ![<<"in", s>>] = @ + counts]
  /\ received' = [received EXCEPT ![s] = @ + counts]
  /\ UNCHANGED <<setup, pubVars, subVars, link, other, lineVars>>

\* Another program's declaration, which the router passes on to r_sub_thr and
\* which any of the other methods of ThroughputPrimitives counts.
OtherPrimitive(s) ==
  /\ setup.in.allKinds
  /\ sub[s] = "ready"
  /\ other[s] < MaxOther
  /\ other' = [other EXCEPT ![s] = @ + 1]
  /\ counter' = [counter EXCEPT ![<<"in", s>>] = @ + 1]
  /\ received' = [received EXCEPT ![s] = @ + 1]
  /\ UNCHANGED <<setup, pubVars, subVars, linkVars, lineVars>>
-----------------------------------------------------------------------------
\* The next of the peers, in the order of the endpoints.
First(s, S) == s \in S /\ \A t \in S : s <= t

Exit(p) ==
  /\ pub' = [pub EXCEPT ![p] = "exited"]
  /\ UNCHANGED <<setup, todo, rounds, subVars, linkVars, countVars, lineVars>>

\* zmq_pub_thr prints its usage whatever its options: getopt is not told of -l.
Usage(p) == pub[p] = "opening" /\ ~setup.out.starts /\ Exit(p)

\* open_transport_unicast(e).await
OpenTransport(p) ==
  /\ pub[p] = "opening"
  /\ setup.out.retries => sub[p] = "ready"
  /\ \E s \in Procs :
       /\ First(s, todo[p])
       /\ sub[s] = "ready"
       /\ todo' = [todo EXCEPT ![p] = @ \ {s}]
       /\ link' = [link EXCEPT ![<<p, s>>] = "opened"]
  /\ UNCHANGED <<setup, pub, rounds, subVars, queue, delivered, countVars, lineVars>>

\* Its unwrap(), when nobody listens there yet.
OpenFails(p) ==
  /\ pub[p] = "opening"
  /\ ~setup.out.retries
  /\ \E s \in Procs : First(s, todo[p]) /\ sub[s] = "new"
  /\ Exit(p)

Begin(p) ==
  /\ pub[p] = "opening"
  /\ setup.out.starts
  /\ setup.out.retries => sub[p] = "ready"
  /\ todo[p] = {}
  /\ pub' = [pub EXCEPT ![p] = "sending"]
  /\ todo' = [todo EXCEPT ![p] = setup.connect[p]]
  /\ reporters' = [reporters EXCEPT ![<<"out", p>>] = IF setup.out.prints THEN 1 ELSE 0]
  /\ UNCHANGED <<setup, rounds, subVars, linkVars, countVars, line, printed, claimed>>

\* t.handle_message(message).unwrap(), on the next transport
SendSkip(p) ==  \* a mutant: CongestionControl::Drop
  /\ pub[p] = "sending" /\ setup.out.perLink
  /\ \E s \in Procs :
       /\ First(s, todo[p])
       /\ link[<<p, s>>] \in Open
       /\ todo' = [todo EXCEPT ![p] = @ \ {s}]
       /\ queue' = [queue EXCEPT ![<<p, s>>] = IF @ < Capacity THEN @ + 1 ELSE @]
  /\ UNCHANGED <<setup, pub, rounds, subVars, link, delivered, countVars, lineVars>>

Send(p) ==
  /\ pub[p] = "sending" /\ setup.out.perLink
  /\ \E s \in Procs :
       /\ First(s, todo[p])
       /\ link[<<p, s>>] \in Open
       /\ queue[<<p, s>>] < Capacity
       /\ todo' = [todo EXCEPT ![p] = @ \ {s}]
       /\ queue' = [queue EXCEPT ![<<p, s>>] = @ + 1]
  /\ UNCHANGED <<setup, pub, rounds, subVars, link, delivered, countVars, lineVars>>

SendFails(p) ==
  /\ pub[p] = "sending" /\ setup.out.perLink
  /\ \E s \in Procs : First(s, todo[p]) /\ link[<<p, s>>] = "closed"
  /\ Exit(p)

\* send_data, put, MQTTAsync_sendMessage or Publish: one call, after which the
\* message is on every path there is.
Publish(p) ==
  LET Room(s) == link[<<p, s>>] = "up" /\ queue[<<p, s>>] < Capacity IN
  /\ pub[p] = "sending" /\ ~setup.out.perLink
  /\ todo[p] # {}
  /\ setup.out.blocks => \A s \in todo[p] : link[<<p, s>>] = "up" => Room(s)
  /\ queue' = [l \in Links |->
                 IF l[1] = p /\ l[2] \in todo[p] /\ Room(l[2]) THEN queue[l] + 1 ELSE queue[l]]
  /\ todo' = [todo EXCEPT ![p] = {}]
  /\ UNCHANGED <<setup, pub, rounds, subVars, link, delivered, countVars, lineVars>>

\* Its error, which may come once the connection is lost.
PublishFails(p) ==
  /\ pub[p] = "sending" /\ ~setup.out.perLink /\ setup.out.aborts
  /\ todo[p] # {}
  /\ \E s \in todo[p] : link[<<p, s>>] = "closed"
  /\ Exit(p)

\* count.fetch_add(1), and the next round: a message more for every peer, and
\* one more in the count.
EndRoundPerMessage(p) ==  \* a mutant: fetch_add for every message of the round
  /\ pub[p] = "sending"
  /\ todo[p] = {}
  /\ rounds[p] < setup.rounds
  /\ rounds' = [rounds EXCEPT ![p] = @ + 1]
  /\ counter' = [counter EXCEPT ![<<"out", p>>] =
                   IF setup.out.prints THEN @ + Cardinality(setup.connect[p]) ELSE @]
  /\ todo' = [todo EXCEPT ![p] = setup.connect[p]]
  /\ UNCHANGED <<setup, pub, subVars, linkVars, received, other, lineVars>>

EndRound(p) ==
  /\ pub[p] = "sending"
  /\ todo[p] = {}
  /\ rounds[p] < setup.rounds
  /\ rounds' = [rounds EXCEPT ![p] = @ + 1]
  /\ counter' = [counter EXCEPT ![<<"out", p>>] = IF setup.out.prints THEN @ + 1 ELSE @]
  /\ todo' = [todo EXCEPT ![p] = setup.connect[p]]
  /\ UNCHANGED <<setup, pub, subVars, linkVars, received, other, lineVars>>
-----------------------------------------------------------------------------
\* A subscription becomes known where the publisher sends to.
LearnRoute(p, s) ==
  /\ ~setup.out.perLink
  /\ Alive(p)
  /\ s \in setup.connect[p]
  /\ sub[s] # "new"
  /\ link[<<p, s>>] = "none"
  /\ link' = [link EXCEPT ![<<p, s>>] = "up"]
  /\ UNCHANGED <<setup, pubVars, subVars, queue, delivered, countVars, lineVars>>

\* A link is lost, and some of what travels on it; a transport also when the
\* process at either end has died.
Close(p, s) ==
  /\ link[<<p, s>>] \in Open
  /\ LinkMayFail \/ ~Alive(p) \/ ~Alive(s)
  /\ link' = [link EXCEPT ![<<p, s>>] = "closed"]
  /\ \E n \in IF link[<<p, s>>] = "up" THEN 0..queue[<<p, s>>] ELSE {0} :
       queue' = [queue EXCEPT ![<<p, s>>] = n]
  /\ UNCHANGED <<setup, pubVars, subVars, delivered, countVars, lineVars>>
-----------------------------------------------------------------------------
\* The second is over, a little late: count.swap(0, Ordering::Relaxed).  A swap
\* that finds nothing changes nothing, whether or not a line says so.
Scaled(c) == c[1] = "in" /\ setup.in.scales
Late(c) == IF Scaled(c) THEN 0..MaxLate ELSE {0}

SwapKeep(c) ==  \* a mutant: load in place of swap
  /\ Alive(c[2])
  /\ reporters[c] > 0
  /\ line[c] = NoLine
  /\ counter[c] > 0
  /\ \E d \in Late(c) :
       line' = [line EXCEPT ![c] = [count |-> counter[c], elapsed |-> Second + d]]
  /\ UNCHANGED <<setup, pubVars, subVars, linkVars, countVars, reporters, printed, claimed>>

Swap(c) ==
  /\ Alive(c[2])
  /\ reporters[c] > 0
  /\ line[c] = NoLine
  /\ counter[c] > 0
  /\ \E d \in Late(c) :
       line' = [line EXCEPT ![c] = [count |-> counter[c], elapsed |-> Second + d]]
  /\ counter' = [counter EXCEPT ![c] = 0]
  /\ UNCHANGED <<setup, pubVars, subVars, linkVars, received, other, reporters, printed, claimed>>

\* (c as f64 / interval).floor() with interval = 1_000_000.0 / elapsed
Figure(c) ==
  IF Scaled(c) THEN (line[c].count * line[c].elapsed) \div Second ELSE line[c].count

PrintLine(c) ==
  /\ Alive(c[2])
  /\ line[c] # NoLine
  /\ printed' = [printed EXCEPT ![c] = @ + line[c].count]
  /\ claimed' = [claimed EXCEPT ![c] = @ + Figure(c)]
  /\ line' = [line EXCEPT ![c] = NoLine]
  /\ UNCHANGED <<setup, pubVars, subVars, linkVars, countVars, reporters>>
-----------------------------------------------------------------------------
Subscriber(s) ==
  Listen(s) \/ SetCallbacks(s) \/ OtherPrimitive(s)

Publisher(p) ==
  \/ Usage(p) \/ OpenTransport(p) \/ OpenFails(p) \/ Begin(p)
  \/ Send(p) \/ SendFails(p) \/ Publish(p) \/ PublishFails(p) \/ EndRound(p)

Link(p, s) ==
  Accept(p, s) \/ Spawn(p, s) \/ Deliver(p, s) \/ LearnRoute(p, s) \/ Close(p, s)

Next ==
  \/ \E s \in Procs : Subscriber(s)
  \/ \E p \in Procs : Publisher(p)
  \/ \E p, s \in Procs : Link(p, s)
  \/ \E c \in Ends : Swap(c) \/ PrintLine(c)

Spec == Init /\ [][Next]_vars

\* The executor runs a task that was spawned, and a sleep of one second ends.
Fairness ==
  /\ \A p, s \in Procs : WF_vars(Spawn(p, s))
  /\ \A c \in Ends : WF_vars(Swap(c)) /\ WF_vars(PrintLine(c))

FairSpec == Spec /\ Fairness
-----------------------------------------------------------------------------
\* A subscriber never has two reporters, however many transports are opened to
\* it at once: each would print a part of a second as if it were the whole.
OneReporter == \A s \in Procs : reporters[<<"in", s>>] <= 1

\* The slowest subscriber sets the pace of all those of one t_pub_thr: no other
\* one is given more than a full link and a message ahead of it.
SlowestSetsThePace ==
  \A p \in Procs : setup.out.perLink =>
    \A s1, s2 \in setup.connect[p] :
      link[<<p, s2>>] \in Open =>
        delivered[<<p, s1>>] <= delivered[<<p, s2>>] + Capacity + 1

\* What an end prints is never less than what it counted: where the figure is
\* scaled, a late reporter makes it larger, not smaller.
NeverUnderstates == \A c \in Ends : claimed[c] >= printed[c]

\* What the word throughput in a line says of its figure: messages counted in
\* more than a second are no more messages per second than their number.
NeverOverstates == \A c \in Ends : claimed[c] <= printed[c]

\* What a counter stands for.
Counted(c) ==
  IF c[1] = "in" THEN received[c[2]] ELSE IF setup.out.prints THEN rounds[c[2]] ELSE 0

T == INSTANCE Tally WITH counted <- [c \in Ends |-> Counted(c)]

\* Every program implements Tally: a message that is counted goes into one line
\* and into no other, whatever arrives between the swap and the line.
ImplementsTally == T!Spec

\* A subscriber that is not killed prints all it counts, although its reporter
\* is spawned by whichever new_unicast comes first, while messages of another
\* transport may be arriving.
CountsArePrinted == \A s \in Procs : []Alive(s) => T!Fairness(<<"in", s>>)
-----------------------------------------------------------------------------
(***************************************************************************)
(* The inductive invariant: each count is in the lines printed, in the     *)
(* reporter's hand or in the counter, and each message of a round is on    *)
(* the links the round has passed.                                         *)
(***************************************************************************)
Held(c) == IF line[c] = NoLine THEN 0 ELSE line[c].count

CountedOnce == \A c \in Ends : Counted(c) = printed[c] + Held(c) + counter[c]

LineInv ==
  \A c \in Ends : line[c] # NoLine => line[c].count > 0 /\ line[c].elapsed >= Second

\* Only the programs of transports open and accept them.
RouteInv ==
  ~setup.out.perLink =>
    /\ accepting = {}
    /\ \A l \in Links : link[l] \in {"none", "up", "closed"}
    /\ \A p \in Procs : pub[p] = "opening" => todo[p] = {}

\* A reporter exists, or is about to be spawned, only once active is set.
ReporterInv ==
  /\ \A s \in Procs : reporters[<<"in", s>>] <= 1
  /\ setup.out.perLink =>
       /\ \A l \in accepting : active[l[2]] /\ reporters[<<"in", l[2]>>] = 0
       /\ \A l, m \in accepting : l[2] = m[2] => l = m
       /\ \A s \in Procs : reporters[<<"in", s>>] > 0 => active[s]

\* On a link of t_pub_thr the messages of the completed rounds, and that of this
\* round once it has passed.
SentTo(p, s) == rounds[p] + (IF s \in todo[p] THEN 0 ELSE 1)

OnLink(p, s) == delivered[<<p, s>>] + queue[<<p, s>>]

RoundsOnLink(p, s) ==
  /\ pub[p] = "opening" => rounds[p] = 0 /\ OnLink(p, s) = 0
  /\ pub[p] = "sending" => OnLink(p, s) <= SentTo(p, s)
  /\ OnLink(p, s) <= rounds[p] + 1
  /\ link[<<p, s>>] \in Open =>
       /\ OnLink(p, s) >= rounds[p]
       /\ pub[p] = "sending" => OnLink(p, s) = SentTo(p, s)

LinkInv ==
  setup.out.perLink => \A p \in Procs : \A s \in setup.connect[p] : RoundsOnLink(p, s)

ThrInv == TypeOK /\ CountedOnce /\ LineInv /\ RouteInv /\ ReporterInv /\ LinkInv
=============================================================================
