----------------------------- MODULE Broadcast ------------------------------
(***************************************************************************)
(* What a network of routers promises: whoever is connected to it gets the *)
(* messages of each publisher in the order of sending, each of them once,  *)
(* and none is left out after the first that it gets.  A receiver on UDP   *)
(* is promised no less here, where datagrams of a transport are not lost.  *)
(***************************************************************************)
EXTENDS Integers, Sequences

CONSTANTS Publishers, Receivers

VARIABLES
  sent,  \* for each publisher, the messages it has sent
  got    \* for each receiver and publisher, the messages it has got

Init ==
  /\ sent = [p \in Publishers |-> 0]
  /\ got = [r \in Receivers |-> [p \in Publishers |-> <<>>]]

Send(p) ==
  /\ sent' = [sent EXCEPT ![p] = @ + 1]
  /\ UNCHANGED got

\* A run of the messages of a publisher, up to the last it has sent at most.
IsRun(ms, last) ==
  /\ \A i \in 1..(Len(ms) - 1) : ms[i + 1] = ms[i] + 1
  /\ ms # <<>> => ms[1] >= 1 /\ ms[Len(ms)] <= last

IsExtended(old, new) == Len(old) <= Len(new) /\ SubSeq(new, 1, Len(old)) = old

\* A receiver gets messages, of one publisher or of several.
Get(r) ==
  /\ \A p \in Publishers :
       /\ IsExtended(got[r][p], got'[r][p])
       /\ IsRun(got'[r][p], sent[p])
  /\ got' = [got EXCEPT ![r] = got'[r]]
  /\ UNCHANGED sent

Next ==
  \/ \E p \in Publishers : Send(p)
  \/ \E r \in Receivers : Get(r)

Spec == Init /\ [][Next]_<<sent, got>>
=============================================================================
