------------------------------ MODULE RouterThr ------------------------------
(***************************************************************************)
(* t_router_thr: a table of transports under an RwLock.  new_unicast takes *)
(* the write lock and inserts the transport at the next index of a slab    *)
(* (nothing is ever removed).  The handler of each transport takes the     *)
(* read lock for one message and sends it, one blocking send after the     *)
(* other, to all the transports in the table but its own, whose index it   *)
(* knows.  The errors of transports that have closed are ignored.          *)
(*                                                                         *)
(* While a new_unicast waits for the write lock, a lock that prefers       *)
(* writers gives the read lock to nobody else; one that prefers readers    *)
(* gives it to all of them.                                                *)
(***************************************************************************)
EXTENDS Transports

\* A hand that holds nothing holds no message.
ASSUME NoneAssumption == None \notin [msg : Msgs, next : Nat \ {0}]

VARIABLES
  table,  \* for each router, the peers of its transports, by index
  index,  \* for each router and peer, the index its handler was made with
  hand,   \* for each router and peer, the message its handler is sending on,
          \* and the index it has come to: it holds the read lock meanwhile
  waiting \* for each router, the peers whose new_unicast waits for the write lock, if
          \* the lock prefers writers

routerVars == <<table, index, hand, waiting>>

RouterTypeOK ==
  /\ table \in [Nodes -> Seq(Nodes)]
  /\ index \in [Pairs -> Nat]
  /\ hand \in [Pairs -> {None} \cup [msg : Msgs, next : Nat \ {0}]]
  /\ waiting \in [Nodes -> SUBSET Nodes]

RouterInit ==
  /\ table = [r \in Nodes |-> <<>>]
  /\ index = [l \in Pairs |-> 0]
  /\ hand = [l \in Pairs |-> None]
  /\ waiting = [r \in Nodes |-> {}]

ReadLocked(r) == \E p \in Nodes : hand[<<r, p>>] # None
MayRead(r) == waiting[r] = {}

\* new_unicast: the peer p of n has a transport.
NewUnicast(n, p) ==
  IF Kind(n) = "router"
    THEN /\ ~ReadLocked(n)
         /\ table' = [table EXCEPT ![n] = Append(@, p)]
         /\ index' = [index EXCEPT ![<<n, p>>] = Len(table[n]) + 1]
         /\ waiting' = [waiting EXCEPT ![n] = @ \ {p}]
    ELSE UNCHANGED <<table, index, waiting>>

\* self.table.write(), while handlers hold the read lock; a lock that prefers readers
\* takes no notice.
WaitToWrite(n, p) ==
  /\ Kind(n) = "router" /\ alive[n] /\ setup.lock = "writers"
  /\ link[<<p, n>>] = "dialled" \/ link[<<n, p>>] = "accepted"
  /\ ReadLocked(n)
  /\ p \notin waiting[n]
  /\ waiting' = [waiting EXCEPT ![n] = @ \cup {p}]
  /\ UNCHANGED <<netVars, table, index, hand>>

\* a mutant: the entry is removed from a Vec
ClosedMut(x, y) ==
  /\ table' = [n \in Nodes |-> SelectSeq(table[n], LAMBDA p : {n, p} # {x, y})]
  /\ UNCHANGED <<index, hand, waiting>>

\* closed: nothing is done.
Closed(x, y) == UNCHANGED routerVars

\* handle_message, up to the loop.
HandleMessage(r, p) ==
  /\ Kind(r) = "router" /\ alive[r]
  /\ HasEnd(r, p)
  /\ queue[<<p, r>>] # <<>>
  /\ hand[<<r, p>>] = None
  /\ MayRead(r)
  /\ hand' = [hand EXCEPT ![<<r, p>>] = [msg |-> Head(queue[<<p, r>>]), next |-> 1]]
  /\ queue' = [queue EXCEPT ![<<p, r>>] = Tail(@)]
  /\ UNCHANGED <<setup, alive, link, sent, got, table, index, waiting>>

\* a mutant: a transport that has no room is left out
ForwardMut(r, p) ==
  /\ Kind(r) = "router" /\ alive[r]
  /\ hand[<<r, p>>] # None
  /\ LET m == hand[<<r, p>>].msg
         i == hand[<<r, p>>].next
         q == table[r][i]
     IN  /\ IF i = index[<<r, p>>] \/ IsClosed(r, q) \/ Kind(q) = "publisher" \/ ~HasRoom(r, q)
              THEN UNCHANGED queue
              ELSE queue' = Queued(r, q, m)
         /\ hand' = [hand EXCEPT ![<<r, p>>] =
                       IF i = Len(table[r]) THEN None ELSE [msg |-> m, next |-> i + 1]]
  /\ UNCHANGED <<setup, alive, link, sent, got, table, index, waiting>>

\* a mutant: the loop ends at the handler's own transport
ForwardMut2(r, p) ==
  /\ Kind(r) = "router" /\ alive[r]
  /\ hand[<<r, p>>] # None
  /\ LET m == hand[<<r, p>>].msg
         i == hand[<<r, p>>].next
         q == table[r][i]
     IN  /\ IF i = index[<<r, p>>] \/ IsClosed(r, q) \/ Kind(q) = "publisher"
              THEN UNCHANGED queue
              ELSE HasRoom(r, q) /\ queue' = Queued(r, q, m)
         /\ hand' = [hand EXCEPT ![<<r, p>>] =
                       IF i \in {index[<<r, p>>], Len(table[r])} THEN None
                       ELSE [msg |-> m, next |-> i + 1]]
  /\ UNCHANGED <<setup, alive, link, sent, got, table, index, waiting>>

\* for (i, e) in read_table { if i != self.index { let _ = e.handle_message(..); } }
\* The read lock is released after the last.  A publisher takes what it is sent as it
\* comes: its handler does nothing with it.
Forward(r, p) ==
  /\ Kind(r) = "router" /\ alive[r]
  /\ hand[<<r, p>>] # None
  /\ LET m == hand[<<r, p>>].msg
         i == hand[<<r, p>>].next
         q == table[r][i]
     IN  /\ IF i = index[<<r, p>>] \/ IsClosed(r, q) \/ Kind(q) = "publisher"
              THEN UNCHANGED queue
              ELSE HasRoom(r, q) /\ queue' = Queued(r, q, m)
         /\ hand' = [hand EXCEPT ![<<r, p>>] =
                       IF i = Len(table[r]) THEN None ELSE [msg |-> m, next |-> i + 1]]
  /\ UNCHANGED <<setup, alive, link, sent, got, table, index, waiting>>
=============================================================================
