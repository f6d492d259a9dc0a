-------------------------------- MODULE Sinks --------------------------------
(***************************************************************************)
(* t_sink_tcp and t_sink_udp: programs that answer the handshake of a      *)
(* transport by themselves and then read and count whatever comes, while a *)
(* task prints the counter every second and another sends KeepAlive.       *)
(*                                                                         *)
(* t_sink_tcp spawns a task for each connection.  The tasks share Workers  *)
(* threads, which they give up only where they wait.  At the end of a      *)
(* stream read answers 0 at once, and the reading loop never ends or waits *)
(* again: it keeps a worker for ever.  t_sink_udp has one socket and one   *)
(* client, the sender of the first datagram.                               *)
(***************************************************************************)
EXTENDS Transports

CONSTANT Workers  \* the threads that run the tasks of a program
ASSUME WorkersAssumption == Workers \in Nat \ {0}

VARIABLES
  task,     \* for a client and its sink, handle_client: none, open (it awaits
            \* OpenSyn), read, spin (the stream has ended), or done
  counter   \* the messages that it has read since its last line

sinkVars == <<task, counter>>

TaskStates == {"none", "open", "read", "spin", "done"}

SinkTypeOK ==
  /\ task \in [Pairs -> TaskStates]
  /\ counter \in [Pairs -> Nat]

SinkInit ==
  /\ task = [l \in Pairs |-> "none"]
  /\ counter = [l \in Pairs |-> 0]

Spinning(s) == {c \in Nodes : task[<<c, s>>] = "spin"}
\* No worker of s is left.
Starved(s) == Cardinality(Spinning(s)) >= Workers
Runs(s) == Kind(s) \in SinkKinds /\ alive[s] /\ ~Starved(s)
Known(s) == {c \in Nodes : task[<<c, s>>] # "none"}

\* a mutant: a connection is served before the next is accepted
AnswerInitMut(c, s) ==
  /\ Runs(s)
  /\ link[<<c, s>>] = "dialled"
  /\ task[<<c, s>>] = "none" /\ Known(s) = {}
  /\ link' = [link EXCEPT ![<<c, s>>] = "greeted"]
  /\ task' = [task EXCEPT ![<<c, s>>] = "open"]
  /\ UNCHANGED <<setup, alive, queue, sent, got, counter>>

\* The InitSyn of c is read and InitAck sent.
AnswerInit(c, s) ==
  /\ Runs(s)
  /\ link[<<c, s>>] = "dialled"
  /\ task[<<c, s>>] = "none"
  /\ Kind(s) = "udp sink" => Known(s) = {}
  /\ link' = [link EXCEPT ![<<c, s>>] = "greeted"]
  /\ task' = [task EXCEPT ![<<c, s>>] = "open"]
  /\ UNCHANGED <<setup, alive, queue, sent, got, counter>>

\* The OpenSyn of c is read and OpenAck sent.
AnswerOpen(c, s) ==
  /\ Runs(s)
  /\ task[<<c, s>>] = "open"
  /\ link[<<c, s>>] = "opening"
  /\ link' = [link EXCEPT ![<<c, s>>] = "accepted"]
  /\ task' = [task EXCEPT ![<<c, s>>] = "read"]
  /\ UNCHANGED <<setup, alive, queue, sent, got, counter>>

\* A read may take as little as it likes of what has come.
Read(c, s) ==
  /\ Runs(s)
  /\ task[<<c, s>>] = "read"
  /\ queue[<<c, s>>] # <<>>
  /\ counter' = [counter EXCEPT ![<<c, s>>] = @ + 1]
  /\ Deliver(s, c, Head(queue[<<c, s>>]))
  /\ UNCHANGED <<setup, alive, link, sent, task>>

Departed(c, s) == ~alive[c] \/ link[<<c, s>>] = "closed"

\* The stream of c has ended: read answers 0 for ever, or an error once.
Eof(c, s) ==
  /\ Runs(s) /\ Kind(s) = "tcp sink"
  /\ task[<<c, s>>] = "read"
  /\ queue[<<c, s>>] = <<>>
  /\ Departed(c, s)
  /\ \E t \in {"spin", "done"} : task' = [task EXCEPT ![<<c, s>>] = t]
  /\ UNCHANGED <<netVars, counter>>

\* The stream of c ends before its OpenSyn is answered: a read_exact, or the
\* sending of an answer, is unwrapped.  If it was reset before it was accepted,
\* stream? ends run, and main after it, all the same.
FallTcp(c, s) ==
  /\ Runs(s) /\ Kind(s) = "tcp sink"
  /\ Departed(c, s) /\ link[<<c, s>>] # "none"
  /\ task[<<c, s>>] \in {"none", "open"}
  /\ alive' = [alive EXCEPT ![s] = FALSE]
  /\ UNCHANGED <<setup, link, queue, sent, got, sinkVars>>

\* A datagram of c, who is not the client of s, is read: whatever s waits for, the
\* sender is not the one that it expects.
FallUdp(c, s) ==
  /\ Runs(s) /\ Kind(s) = "udp sink"
  /\ link[<<c, s>>] = "dialled"
  /\ Known(s) \ {c} # {}
  /\ alive' = [alive EXCEPT ![s] = FALSE]
  /\ UNCHANGED <<setup, link, queue, sent, got, sinkVars>>

\* Every second: the counter is swapped with zero, and printed if it was more.
PrintLine(c, s) ==
  /\ Runs(s)
  /\ counter[<<c, s>>] > 0
  /\ counter' = [counter EXCEPT ![<<c, s>>] = 0]
  /\ UNCHANGED <<netVars, task>>
=============================================================================
