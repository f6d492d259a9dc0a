------------------------------- MODULE Tally --------------------------------
(***************************************************************************)
(* What the throughput benchmarks promise of their figures: events are     *)
(* counted at the ends as they happen, and each of them goes into exactly  *)
(* one of the lines that its end prints.                                   *)
(***************************************************************************)
EXTENDS Naturals

CONSTANT Ends       \* where events are counted

VARIABLES counted,  \* for each end, the events that have happened there
          printed   \* and those in the lines it has printed

Init ==
  /\ counted = [c \in Ends |-> 0]
  /\ printed = [c \in Ends |-> 0]

Count(c) ==
  /\ counted' = [counted EXCEPT ![c] = @ + 1]
  /\ UNCHANGED printed

PrintLine(c) ==
  /\ \E n \in (printed[c] + 1)..counted[c] : printed' = [printed EXCEPT ![c] = n]
  /\ UNCHANGED counted

\* A line for the event itself, by an end that has nothing else to print.
CountAndPrint(c) ==
  /\ printed[c] = counted[c]
  /\ counted' = [counted EXCEPT ![c] = @ + 1]
  /\ printed' = [printed EXCEPT ![c] = @ + 1]

Next == \E c \in Ends : Count(c) \/ PrintLine(c) \/ CountAndPrint(c)

Spec == Init /\ [][Next]_<<counted, printed>>

\* What an end also promises as long as it lives: nothing stays unprinted.
Fairness(c) == WF_<<counted, printed>>(PrintLine(c))
=============================================================================
