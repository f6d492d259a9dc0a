# Verification of zenoh-perf

TLA+ models, TLC configurations and TLAPS proofs for the benchmark programs of
this repository: zenoh's latency, throughput, query and overhead programs in
Rust, and the MQTT, NATS and ZeroMQ programs they are compared with. The
programs are small, but almost all of them are two or three threads, a
callback and a remote peer around one shared map, barrier, flag or counter, and
a wrong interleaving shows as a wrong number or a silent hang.

## 1. Inventory

Every program is built with `panic = "abort"` (`src/Cargo.toml`): a failed
`unwrap()` in any thread ends the process, and no poisoned mutex is ever seen.

| Component | Programs | State | Operations | Hard parts |
|---|---|---|---|---|
| Transport latency | `latency/t_ping`, `t_pong` | `pending` map (count to time or barrier), `count`, one barrier per ping | insert, send, handle_message, barrier wait, print | send races its pong; two threads at a barrier; backpressure in both directions; transport closing |
| Routing latency | `latency/r_ping`, `r_pong` | the same, the router's tables, `tx` | declare, send_data, set_tx | declarations travel asynchronously; data sent before them is dropped |
| Session latency | `latency/z_ping`, `z_pong` | `pending`, key expressions | put, receive | keys of the two programs; answers not matched with their ping |
| Delay | `latency/t_pub_delay`, `t_sub_delay` | none | open, publish, print | blocking sends whose error is unwrapped; clocks of two machines, unsigned subtraction |
| Throughput | `throughput/*_pub_thr`, `*_sub_thr`, `z_put_thr`, `t_pubsub_thr` | counters, `active` flag, list of transports | count, swap and report, publish to all | counter swapped while the receiver counts; one reporter only; publisher count |
| Router throughput | `throughput/t_router_thr` | table of transports under an RwLock | insert, broadcast | read lock held over blocking sends while new transports wait to write, which may hold up other readers in turn; entries never removed |
| Sinks | `throughput/t_sink_tcp`, `t_sink_udp` | handshake state of a client | init, open, read | unwraps in the handshake; a loop that never ends at the end of a stream; other clients |
| Transport and routing query | `query/t_query`, `r_query`, `t_eval`, `r_eval` | `pending` by query id, one shared barrier | query, reply, wait | one barrier reused by every query; reply sent from a spawned task |
| Query throughput | `query/*_query_thr` | `pending`, `rtt` and `counter`, reporter | query, reply, swap and report | two atomics updated and swapped separately |
| Session query | `query/z_*`, `zn_*` | a stream of replies | get, collect | end of a query |
| Overhead | `overhead/zn_overhead`, `zn_analyze` | counters, a capture | publish a total, decode frames | units of the total, framing of a capture |
| MQTT comparison | `comparison/mqtt` | `seq_num`, a mutex and a condition variable, counters | publish, msgarrvd, wait | wait without a predicate, signal before the wait, publish from a callback |
| NATS comparison | `comparison/nats` | counters, request with timeout | publish, request, reply | a lost reply ends the program after a minute |
| ZeroMQ comparison | `comparison/zeromq` | counters | publish, poll, report | options that are never parsed |

Components interact by messages (ping and pong, query and reply, published
samples), by callbacks on the receiving thread of a transport or session, and,
inside a program, by a mutex, barrier, condition variable or atomic.

The properties that make each correct:

* latency: every ping is measured exactly once, against its own send, in order;
  the handler never meets a pong it has no entry for; nothing hangs while the
  link is up; the memory of pings outstanding is bounded;
* query: the same, with the shared barrier pairing the right two threads;
* throughput: every message received is reported exactly once or still in the
  counter; one reporter; the number printed is messages per second;
* routing and sinks: a message reaches every other transport once and never its
  sender; a client that follows the handshake is served;
* comparison: the programs measure the same thing as the zenoh ones.

## 2. Plan

Latency comes first, because it is what most of the programs measure and where
two threads meet; then the query programs, which share one barrier between all
their queries; then throughput, where the counters are.

| # | Modules | Code | Proofs | State |
|---|---|---|---|---|
| 1 | `EchoLink`; `PingParallel`, `PingSequential` on it; `RoundTrip` (abstract) | `t_ping`, `t_pong` | `PingParallelProofs`, `PingSequentialProofs` | done |
| 2 | `PubSub`; `PubSubPing` on it; `RouterPing`, `SessionPing` on that | `r_ping`, `r_pong`, `z_ping`, `z_pong` | `PubSubProofs` | done |
| 3 | `MqttPing` | `mqtt_ping`, `mqtt_pong` | `MqttPingProofs` | done |
| 4 | `QueryLatency` on `EchoLink` | `t_query`, `t_eval`, `r_query`, `r_eval` | `QueryLatencyProofs` | done |
| 5 | `Throughput`; `Tally` (abstract) | the throughput programs of zenoh, MQTT, NATS and ZeroMQ | `ThroughputProofs` | done |
| 6 | `QueryThroughput`, with `Tally` for its counter | `*_query_thr`, `z_query`, `zn_query`, `nats_query`, `nats_ping`, their queryables, `nats_pong` | `QueryThroughputProofs` | done |
| 7 | `Transports`; `RouterThr`, `Sinks` on it; `Relay`; `Broadcast` (abstract) | `t_router_thr`, `t_sink_tcp`, `t_sink_udp`, `t_pub_delay`, `t_sub_delay`, `t_sub_thr` as it connects | `RelayProofs` | done |
| 8 | `Overhead` | `zn_overhead`, `zn_analyze`, `mqtt_overhead`, `nats_overhead` | the number of messages for a total | left out, see section 7 |

Composition: `EchoLink` holds the peer and the transport, and `PingParallel`,
`PingSequential` and `QueryLatency` extend it; `PubSub` holds the routers,
`PubSubPing` adds what two pingers over them have in common, and `RouterPing` and
`SessionPing` extend it. `Transports` holds the programs that open
unicast transports to each other; `RouterThr` and `Sinks` extend it by what a
router and a sink do, and `Relay` joins the two with the publishers and
subscribers around them. Three programs are shown to implement
the abstract `RoundTrip`, with different windows, and the throughput programs to
implement `Tally`, as are those of the queries; a network of routers and sinks is
shown to implement `Broadcast`.

## 3. The modules and the code

**`EchoLink`** is `t_pong.rs` (and `t_eval.rs`, which does the same to a query)
and the zenoh unicast transport: two queues of at most `Capacity` messages, the
message in the echo's hand, and `up`. `PongReceive` is the call of
`handle_message`, `PongReply` its blocking send back, `LinkClose` the closing of
the transport, which is external.

**`PingParallel`** is `t_ping --parallel`. `pc` is the position of the main loop
(`Insert`: the entry of the map; `Send`: `handle_message(..).unwrap()`; `Sleep`),
`pending` the map, `rx` the count in the hand of the receiving thread between
`RxRemove` (`remove(&count).unwrap()`) and `RxPrint`. `panic` is the unwrap that
ended the process.

**`PingSequential`** is `t_ping` without `--parallel`. A barrier per ping:
`arrived[c]` counts the calls of `wait()`, and each of the two threads arrives
and leaves by itself, so that the handler may still be inside the barrier of one
ping while the main loop is at the next.

**`PubSub`** is what `r_*` and `z_*` use of zenoh's routing: `connected`, `declared`,
`learnt` and `wire` for each node. A declaration travels in order with the data; data for
which no subscription is known is dropped without an error. The session between the two
nodes opens (`Connect`), ends (`Disconnect`) and opens again at any time: what is on its
way is lost, each side forgets what the other has declared, and is told of it anew.

**`PubSubPing`** is what `r_ping` and `z_ping` share: the variables of the loop, its
sleep (`SleepThen`), the keys, and what their invariants say of a wire (`Inbound`: a
declaration, and then samples of consecutive counts). Its two programs are proved
about in one module, so their specifications have names of their own, `RouterSpec`
and `SessionSpec`.

**`RouterPing`** is `r_ping` in both modes and `r_pong`, whose `set_tx` and
`decl_subscriber` are separate actions, with the callback that reads `tx` between
any two of them. `dropped` is a history of the pings that were not routed, or were lost
with a session.

**`SessionPing`** is `z_ping` in both modes and `z_pong`, with the keys each of
them writes down. A report holds the ping that was timed and the count printed,
which the program without `--parallel` takes from two different places.

**`MqttPing`** is `mqtt_ping.c` and `mqtt_pong.c`: `pthread_cond_wait` is entered
by `Wait` and left by `Wake` or `WakeSpuriously`, and `Msgarrvd` signals whoever
waits, or nobody (`missed`). Either client may lose its connection.

**`QueryLatency`** is `t_query.rs` against `t_eval.rs`, and `r_query.rs` against
`r_eval.rs`, as `prog` says. Over routers `up` means that they know the queryable,
which they learn, lose and learn again (`Learn`, `LinkClose`); a query sent
meanwhile (`SendUnrouted`) gets no data and no error. The one
`std::sync::Barrier` of all queries is modelled by its generation and its
arrivals, as the standard library has it: a thread inside holds the generation in
which it came (`mainGen`, `rxGen`) and leaves when that is no longer the current
one.

**`Throughput`** is the family of throughput programs. What they differ in is a
record for each of them (`t_pub_thr`, `z_sub_thr`, ...), with traits such as
`perLink` (a copy for every transport, one after another), `aborts` (the error of
a send is unwrapped), `onTransport` (the reporter is spawned by the first
`new_unicast`) or `scales` (the count is divided by `1_000_000 / elapsed`); a
*setup* says which programs run and who sends to whom, and the initial states
range over all setups. `Accept` is `active.swap(true)` and `Spawn` the
`task::spawn` after it, apart because another transport may be accepted in
between; `Swap` is `count.swap(0)` and `PrintLine` the line, apart because
messages are counted in between. `printed` and `claimed` are histories: the
counts and the figures of all lines.

**`QueryThroughput`** is the family of `*_query_thr` programs, again with a record
of traits for each: whether a handler takes the answer and meets the loop at a
barrier (`barrier`), whether an end without data is an answer (`ends`), whether the
loop prints a line for each query itself (`each`: the latency programs, which go
from the answer to the line in the one step `Report`), and so on. `nats_ping` is
among them, since it publishes and then waits in `NextMsg` as a request does.
`place` follows each query through the queryable and back; over routers `path` may
come and go, and a query asked or answered meanwhile gets no data (`NoData`).
`Finish` is the two `fetch_add`, of `rtt` and of `counter`, and `SwapTime` and
`SwapCount` the two swaps, each a step of its own, in this order. A time is one
unit, so that `rtt` says how many queries are in it.

**`Transports`** is what several programs and zenoh between them do to open,
use and close unicast transports. A setup says which node runs which program, what
it opens and in which order, and who may be stopped. `link` follows a handshake:
the end of the one that listens is made by `Relay!Accept`, at which its
`new_unicast` runs, and that of the opener by `Establish`, after which messages may
already have come. `Dial` is the next `open_transport_unicast` of a main function,
`OpenFails` its unwrap, `Close` the end of a transport by a lease or by its peer.

**`RouterThr`** is `t_router_thr.rs`: `table` the slab, `index` what each handler
was made with, `hand` the message a handler is sending on and the entry it has come
to. A `hand` that is not empty is a read lock held, so `NewUnicast`, which needs
the write lock, waits for all of them; `Forward` is one turn of the loop over the
table and waits for room on the transport it has come to. The standard library does
not say whether an `RwLock` lets a reader pass a writer that waits, and its
implementations differ, so a setup has either `lock`: with one that prefers writers,
`WaitToWrite` puts a `new_unicast` into `waiting`, and `HandleMessage` does not begin
before it is done.

**`Sinks`** is `t_sink_tcp.rs` and `t_sink_udp.rs`: `task` is `handle_client` for
each client, from the InitSyn (`AnswerInit`) over the OpenSyn (`AnswerOpen`) to the
reading loop (`Read`). `Eof` is the end of a stream, after which a task on TCP reads
nothing for ever and keeps one of the `Workers`; a sink without a worker is
`Starved` and silent. `FallTcp` and `FallUdp` are the unwraps, panics and errors by which
a departing or a second client ends the process.

**`Relay`** is all of them together, with `t_pub_delay` (`Publish`,
`PublishFails`) and `t_sub_delay` or `t_sub_thr` (`Receive`). `sent` and `got` are
what was handed over at one side and has come out at another.

**`RoundTrip`**, **`Tally`** and **`Broadcast`** are the abstract specifications:
pings are issued and reported in order, at most `Window` of them outstanding; events
are counted at an end and each goes into exactly one of the lines the end prints; a
receiver gets the messages of each publisher in order, once, and from the first it
gets without a gap.

Definitions marked as mutants stand beside the definition they change. They are
not part of `Next`: each is a plausible bug, and with it in place of the
definition a property of a run fails.

## 4. The runs

| Run | States | What it shows |
|---|---|---|
| `ping_parallel` | 4,662 | The map of `t_ping --parallel` holds the pings in flight (`PingInv`), never more than `2 * Capacity + 2` (`PendingBounded`), every ping is printed unless the transport closes (`EveryPingMeasured`), and the lines are those of `RoundTrip` (`ImplementsRoundTrip`). |
| `ping_sequential` | 433 | The rendezvous at the barriers: the time is taken after the pong (`MeasuredAfterPong`), a pong lost with the transport is a main loop that hangs for ever (`LostPongHangs`), and only that hangs (`LiveWhileOpen`). |
| `router_ping` | 2,525 | Whenever `r_pong` starts and the session opens, ends and opens again: no panic (`NoPanic`); the pings that were lost, and no others, leak in the map (`RouterInv`); without `--parallel` the first to be lost is the last to be sent, and holds the main loop for ever although the session opens again (`LostPingHangs`); the rest are measured (`EveryPingMeasured`). |
| `session_ping` | 389 | With the session ending and opening again at any time: the time and the count of a line belong to the same ping (`PrintedIsTimed`); a wait in vain is explained by a sample that was dropped or lost, and that was the last (`SessionInv`); a ping put when both subscriptions are known is measured unless the session ends (`SingleIsMeasured`). With `--parallel` nothing ever arrives (finding 1), so these speak of the other mode. |
| `session_parallel` | violation | Finding 1. |
| `mqtt_ping` | 5,455 | A wait is explained (`MqttInv`), the number printed lags by one for each spurious wakeup and no more (`PrintedLags`), a missed signal is for ever (`MissedIsForever`), everything else is reported (`EveryPingReported`). |
| `mqtt_hang` | violation | Finding 2. |
| `query_latency` | 557 | `t_query` and `r_query`. A generation of the shared barrier ends with the main loop of a query and the handler of its own reply (`ReleasePairs`); a query that is lost is the last, whatever the routers learn later (`LostQueryHangs`); otherwise every query is issued and reported (`LiveUnlessLost`), as in `RoundTrip` with two outstanding. |
| `throughput` | 120,870 | Nine setups. Each count is in the lines, in the hand of a reporter or in the counter (`ThrInv`), a subscriber has one reporter (`OneReporter`) which prints all it counts unless the process dies (`CountsArePrinted`), the fastest subscriber of a `t_pub_thr` is at most `Capacity + 1` messages ahead of the slowest (`SlowestSetsThePace`), and the lines are those of `Tally` (`ImplementsTally`). |
| `throughput_rate` | violation | Finding 3. |
| `query_throughput` | 17,802 | Nine programs. A query is counted once and timed once (`QthrInv`), in one line (`ImplementsTally`); what a line divides belongs together but for one line and one query (`MeansKeepUp`); a query without data silences a program with barriers for ever (`LostQuerySilences`); otherwise every query is printed (`EveryQueryPrinted`). |
| `relay` | 88,892 | Five setups. The index of a handler stays that of its transport, and nothing comes back to its publisher (`RelayInv`); what a receiver gets is in order, once, without a gap (`ImplementsBroadcast`); when nothing can happen any more no open is left waiting, neither for the write lock of a router whose handlers are sending nor for a sink that has lost its workers, unless two routers have locked each other (`EveryOpenEnds`), which no step of any program but their own end undoes (`LockedForEver`); what is sent when all are connected is received and printed by all (`EveryMessageArrives`). |

### Bounds

`Capacity` is 2 in the ping and query runs, so that a queue can be empty, partly
full and full, and 1 in `throughput`, where a publisher that is one message ahead
already blocks. `MaxPings` is at least `2 * Capacity + 5` in `ping_parallel`: one
more than the loop can hold, so that the main loop is stopped by the link and not
by the bound. The sequential programs have one or two pings under way, and their
bounds (4 to 8) let every rendezvous be followed by several others, with the
handler of the last one still inside. `Spuriously = 2` lets the second of two
spurious wakeups meet the pongs of both. `Procs` has three members, which is
what two transports at one subscriber, two subscribers of one publisher and a
chain with a middle need; two rounds of a publisher and a third that is begun give
two messages more than a link holds. `Second = 2` and `MaxLate = 1` make a late second half a
second longer, the smallest delay by which a figure changes after rounding;
Three queries in `query_throughput` let one be at each
of the places where a time and its count may part: in an earlier line, between the
swaps, and between the additions. `MaxOther = 1` bounds the declarations that `r_sub_thr` counts.

`relay` has five setups: `Star`, two publishers and a subscriber around one router;
`Chain`, two routers between a publisher and a subscriber that listens, one of
which may be stopped; `Drain`, a router with a sink on TCP and a subscriber, and
another client of the sink that may be stopped; `Datagrams`, two clients of a sink
on UDP; `BothWays`, two routers, each of which sends the other what a publisher
publishes, and each of which another program opens a transport to meanwhile. The lock
prefers readers in `Star` and writers in the others. `Capacity = 1` makes a handler wait
in its loop for every message that is
not read at once, with the read lock held; `Workers = 1` makes one departed client
enough to starve a sink, which is what happens on a larger machine after as many
departures as it has cores. A publisher sends two or three messages (`count`, at
most `MaxMsgs`): one under way, one in a hand, and one more that is blocked. The
programs of a setup start in any order, but for those that `after` lets start only when
the endpoints of others are open: in `BothWays` the routers are connected
before the publishers, and these before the late ones, and the late ones publish nothing.
Four messages and two writers are enough for the routers to lock each other, and the run
has states in which they do. `EveryMessageArrives` is asked of messages
sent after the first (`k = 1`) and of all (`k = 0`). None of the
bounds is part of the proofs except as a constant of any value.

### Deadlock

Where the cfg says `CHECK_DEADLOCK FALSE` the programs may really stop for ever:
`t_ping`, `t_query`, `r_ping`, `z_ping` and `mqtt_ping` wait without a timeout
for an answer that was lost, and a subscriber whose publisher has died waits on
`future::pending()`; a query throughput program that has ended does nothing more; and in `relay` a
publisher stops at its bound, and a starved sink and routers that lock each other for
good. The properties say in each case that nothing else stops them. `ping_parallel` checks deadlock: the parallel pinger never waits for a
pong.

### Fairness

Weak fairness of each action of a thread, a callback or a task that is able to
run: the operating system and the executor schedule them all, and a sleep ends.
No fairness is assumed of what nobody has to do: the closing of a transport, the
opening and the end of a session, the
loss of a connection, a spurious wakeup, the start of a program of
`Throughput` or the arrival of its messages. `EchoLink`'s and `PubSub`'s
delivery is fair because the transport is reliable while it is open, and the
queryables of `QueryThroughput` answer what reaches them. `Relay` needs less: the
system as a whole does not stop while a thread, a task or a transport can take a
step (one `WF` on `Progress`, which has every action but `Leave`); as publishers
are bounded, all of them then come to their end. For this reason `EveryOpenEnds` speaks
of the states at which a behaviour ends. What this hides is in section 6.
Strong fairness is used nowhere.

## 5. What is proved

TLAPS proves, for every value of the constants under the assumptions the modules
name (`Capacity` at least one, the bounds natural numbers, the special values
outside the data; for `Throughput`, processes are numbers and the programs that
open transports go with those that accept them):

* `PingParallelProofs`: `PingInv` is inductive. Its core, `LoopInOrder`, says
  that what was printed, the handler's hand, the queue back, the echo's hand, the
  queue out and the main loop hold consecutive counts; that the map is the
  interval between two of these positions follows, and from it
  `NeverPanicsOnRemove`, `PendingIsBounded` and `RefinesRoundTrip`. The bound
  alone is not inductive: without the order of the counts, `remove(&count)` could
  meet one that is not there.
* `PingSequentialProofs`: `PingInv` says where the one ping outstanding is and
  how often each barrier has been waited at, which depends on the position of
  both threads. `MeasuredAfterPong`, `LostPongHangs`, the absence of a panic, that
  the two threads never wait for each other at different barriers, and
  `RefinesRoundTrip` with a window of one follow.
* `QueryLatencyProofs`: `QueryInv` ties the generation of the shared barrier to
  the number of queries answered, so that a thread inside has at most one end of
  a generation to notice (`NeverOvertaken`); that is why one barrier is enough.
  Over a transport nothing is lost while it is open (`NothingLostWhileOpen`), and
  a loop whose query was lost never leaves the barrier (`LostHangsForEver`).
* `ThroughputProofs`: `ThrInv` says that each count is in the lines, in the hand
  or in the counter; that a reporter, or a `new_unicast` about to spawn one,
  exists only once `active` is set, and never two for one subscriber; and that an
  open link of `t_pub_thr` has carried the messages of all completed rounds and,
  once the round has passed it, one more. `OneReporter`, `SlowestSetsThePace` and
  `NeverUnderstates` follow, and `RefinesTally`.
* `QueryThroughputProofs`: `QthrInv` says where the one query outstanding is, who is
  at its barrier and in which of the atomics, hands and lines it has been added.
  `MeansKeepUp` is inductive beside it: the loop adds the time first, the reporter
  takes it first, and either order the other way round would break a half of it.
  `HandlerNeverPanics`, `HungForEver` (a loop whose query got no data stays where it
  is, and counts no other query) and `RefinesTally` follow. Programs with `set_tx` are assumed
  to be reached over routers.
  A program that prints each query itself has nothing in its atomics.
* `RelayProofs`: the invariant `IInv` has the parts of `RelayInv` and
  `AwayInv`, from which `NoEcho` follows. That nothing comes back is not inductive
  by itself, as it says nothing of a message on its way out; `AwayInv` says that,
  whichever node is made the root of the tree of programs, a message of the root is
  on an edge that leads away from it and in the hand of a handler on the side of the
  root. It needs the assumption that setups are trees, and from `OpenedOnly` that
  the table has neighbours only. `AlwaysRelayInv` follows,
  for every number of programs, whoever is stopped, and whatever the locks prefer.
* The second part of `RelayProofs` is `RefinesBroadcast`, that `Relay` implements
  `Broadcast`. The steps of `Broadcast` are two, so what has to be proved is that
  what a receiver gets is a run; for that `FlowInv` follows every message through the
  tables on its way. In the tree with root `n` each node `y` has a last message of `n`
  that it has taken from its parent, `taken[y]`, which is what a receiver has got up
  to and what its handler holds. The parent has passed on to `y` what it has taken
  itself, but for the message in its hand as long as the loop over the table has not
  come to the index of `y` (`InHand`, `Passed`); what is in the queue between
  them are the numbers from `taken[y] + 1` to what has been passed, in ascending
  order (`Follows`, `Ascending`). A `y` that has taken nothing yet may begin with any
  number, since it may have been connected late; one whose transport has closed is
  let go of, and so is a publisher, which keeps nothing of what it is sent. The index is
  needed: if a handler's own index, or that of
  a neighbour, could change, the loop would pass a message twice or leave it out, so
  `FlowInv` rests on `IndexIsOwn` and on an index once given staying (`IndexStays`).
  `Supplied` adds that a queue to a sink is filled only when its transport is up. It
  is assumed that the value of an empty hand is no message (`NoneAssumption`).
* The last part of `RelayProofs` is `RoutersLockForEver`. Of two routers that cannot read
  and have a message for each other, neither takes anything from the other, so both queues
  stay full (`StaysFull`); the handlers stay where they are in their loops, so
  both read locks are held; the table stays what it is (`InsertStep`), and those that wait
  to write go on waiting (`WaitingStays`). Their transport does not close, because both
  send KeepAlive from other tasks (`StaysOpen`).
* `PubSubProofs` has both pingers over the routers. `RouterInv` is inductive:
  `LoopInOrder` lays the counts in a line, `FirstThrough`, `FirstToPing`,
  `FirstToPong` and `Sent` being where those printed, on their way back, on their way
  out and sent begin, so that a pong is always that of the next entry;
  `PendingInOrder` makes the map of the dropped counts and those between two of
  these positions; `RouterOneAtATime` is the barrier of the mode without
  `--parallel`, where the handler may still be in that of the ping before.
  `RouterNoPanic` and `RouterLostPingHangs` follow: the `remove(&count).unwrap()`
  of `r_ping` and the `tx` of `r_pong` are there whenever they are wanted, because a
  declaration travels before any sample that it makes possible. `Inbound` carries this
  over the end of a session, which leaves nothing of the one before. `SessionInv` is
  inductive by `SessionOneAtATime`, that at most one sample is anywhere and has the
  loop's count; it gives `SessionPrintedIsTimed`, that the count of a line, which
  comes from the loop, is that of the sample that was timed.
* `MqttPingProofs`: `MqttInv` is inductive. `LoopInOrder` says that all the numbers
  under way are ascending, below what has been sent, and above what has been
  received or missed; `SignalsInOrder` bounds the number kept by the callback from
  both sides. Neither holds by itself: that the callback's number keeps up with the
  pongs that ended a wait (`MqttPrintedLags`) needs the order of those under way, and
  that a wait which has missed its signal gets no other (`MqttMissedIsForever`) needs
  that nothing with a larger number is under way.

Only model-checked: every property with fairness (`EveryPingMeasured`,
`LiveWhileOpen`, `EveryPingReported`, `SingleIsMeasured`, `CountsArePrinted`,
`LiveUnlessLost`, `LostQuerySilences`, `EveryQueryPrinted`, `EveryMessageArrives`) and
`EveryOpenEnds`, which asks whether a step is `ENABLED`: liveness and `ENABLED` are
outside what the prover does. Of `LostQuerySilences` the half that needs no fairness is
proved, `HungForEver`;
that the lines which are due do come is the other half. The properties of the three
violated runs are false.

## 6. Findings

1. `session_parallel`, `ReadyIsMeasured`: `z_ping --parallel` publishes on a key
   that `z_pong` does not subscribe to, although the repository's README lists
   the two as ready. No latency is printed.
2. `mqtt_hang`, `WaitEnds`: `mqtt_ping` takes the mutex after it has sent, and
   waits without a predicate. A pong that comes first is never waited for
   successfully, and the program stops without a message.
3. `throughput_rate`, `NeverOverstates`: the reporters of `t_sub_thr`, `r_sub_thr`
   and `z_sub_thr` (and of the query throughput programs, which have the same
   expression) multiply a count by the seconds that passed instead of dividing
   it: the later a reporter is, the higher the throughput it prints.

Observations that no run states:

* `zmq_pub_thr` tells `getopt` of `-e` and `-p` and takes its locator from `-l`
  (lines 49 and 56), so it prints its usage whatever it is given. In
  `Throughput` its `starts` is `FALSE`.
* What the publishers print as `msg/s` is rounds: `t_pub_thr` to two endpoints
  sends two messages for each. `mqtt_pub_thr` also counts the sends that failed.
* `t_pubsub_thr` without `--connect` counts rounds of no messages at full speed.
* A line of a query throughput program divides times and counts of two swaps. Queries
  completed between them are counted with no time, and when the next count is zero
  their times are dropped: a mean may be too small, and no later line corrects it.
* `z_query_thr` and `zn_query_thr` count a query that ended without any reply, so
  before the queryable is known they measure a throughput that nobody answers.
* A sink on TCP loses a worker for each client that has departed, and when none is
  left it neither reads nor sends KeepAlive to those it has, whose transports close
  one lease later. A second client ends a sink on UDP, so `EveryMessageArrives`
  says nothing of two clients there.
* Routers in a ring would send a message round for ever; the setups are trees. The
  handlers of a router that is never idle may keep the write lock from a new
  transport for as long as readers are preferred (the comment at
  `throughput/src/bin/r_pub_thr.rs:93` speaks of such a starvation); bounded
  publishers hide this.
* Where a writer that waits is preferred, two routers with messages for each other and a new
  transport at each may lock each other for ever, without a message
  (`LockedTogether`): each holds its read lock in a blocking send to the other, and
  neither reads, because its `new_unicast` waits to write. On Linux the lock of the
  standard library has preferred writers since Rust 1.62.
* A router never forgets a transport: every message is tried on all those that have
  ever been opened, and the errors are dropped.
* `z_query` and `zn_query` print a line for a query that got no reply at all.
* `mqtt_overhead` tries a failed send again at once, so it never ends after its
  connection is lost; and its main thread may see `finished` before it has swapped
  out the last counts, which are then in no line.
* `z_sub_thr` uses a numerical key expression when `use_expr` is not set, and the
  key itself when it is (lines 97 to 101).
* `mqtt_pong` retries a failed send without a pause; `mqtt_ping`'s interval is
  cast to an integer before it is multiplied, so half a second becomes none.
* `r_ping` subtracts 8 from the payload size, which wraps for a smaller one.

## 7. What is not modelled

* Times: a latency is the pair of the ping it is measured for and the moment at
  which it is taken, not a number. Only `Throughput` has a clock, of one second
  and its delay.
* Options, configuration files and payloads, but for what depends on them above.
* The failures of the start of a program: a broker that is not there, a
  subscription that is refused.
* The read of `ping_info.seq_num` in `mqtt_ping` without the lock is atomic in
  the model: it is one aligned word of eight bytes on the 64-bit builds.
* Duplicates of MQTT's QoS 1: a client that has lost its connection never
  reconnects, and each starts cleanly.
* Lines of a reporter that say zero, which some programs print and others do not.
* How many replies a query gets: one queryable is assumed, as the benchmarks are
  run. With two, `remove(&qid).unwrap()` would meet the second reply; with two
  `nats_pong`, `nats_ping` would take the second answer for that of its next ping.
* The delay that `t_sub_delay` prints: it subtracts the clocks of two machines, which
  nothing in the code relates.
* A session over the routers ends on both sides at once, and the program at the other end
  is not told apart from the way to it. Programs are not restarted. A sample that waits
  in the stream of a subscriber counts as on its way, and is lost with the session; the
  program would still take it, which in the model is its taking it just before. The handler
  of `r_pong` is one step, so no pong is sent over a session that opened after its ping
  came.
* An open that times out, and a transport that closes, while its `new_unicast` waits for
  the write lock: it closes when `new_unicast` is done. That the waiting writers of a
  router stay is part of `LockedForEver`.
* Messages that a router sends to a publisher: its handler does nothing with them, so they
  are taken as they come. A publisher that has died does not hold a router up until its
  transport closes, as a dead subscriber does.
* Exits of the sinks that their clients, which are zenoh's, give no cause for: errors of
  `accept` other than that of a connection reset before it is accepted, bytes that do not
  decode (`t_sink_tcp.rs:68`), a first message other than InitSyn or a second other than
  OpenSyn (lines 98 and 112 of `t_sink_tcp.rs`, 81 and 98 of `t_sink_udp.rs`), and a
  KeepAlive on UDP that cannot be sent.
* The memory order of atomics: `Relaxed` operations on `rtt` and `counter` of a query
  throughput program, two different atomics, happen in the order of the program
  and are seen in it. A weaker order could part one more time from its count.
* The moment between the subscription of `mqtt_pong` and its callbacks (`mqtt_pong.c:142`
  and 148): `PongSubscribe` is both. A ping that comes in between is lost as one is that
  comes before.
* What a datagram lost on UDP does after the handshake, and the frames and batches
  of a transport: a sink counts bytes, the model messages.
* The overhead programs. `zn_overhead` and `nats_overhead` are counted loops of puts
  in one thread, `zn_analyze` and `analyze.py` read a capture, and `mqtt_overhead` is
  the loop of `mqtt_pub_thr` with an end; what goes wrong in them is arithmetic on
  an option, or stands in section 6. What they measure is the size of frames, which
  no model here has.
* Scripts, Makefiles and the CI.
