----------------------------- MODULE RoundTrip ------------------------------
(***************************************************************************)
(* What a latency benchmark promises: pings are issued one after another,  *)
(* each is reported at most once and in the order of issue, none is        *)
(* reported that was not issued, and never more than Window of them are    *)
(* issued and not yet reported.                                            *)
(***************************************************************************)
EXTENDS Naturals, Sequences

CONSTANTS Window,    \* how many pings may be outstanding at once
          MaxPings   \* bound on the pings of a behaviour

VARIABLES issued,    \* pings recorded as sent
          reported   \* counts whose latency has been printed, in order

Init == issued = 0 /\ reported = <<>>

Issue ==
  /\ issued < MaxPings
  /\ issued - Len(reported) < Window
  /\ issued' = issued + 1
  /\ UNCHANGED reported

Report ==
  /\ Len(reported) < issued
  /\ reported' = Append(reported, Len(reported))
  /\ UNCHANGED issued

Next == Issue \/ Report

Spec == Init /\ [][Next]_<<issued, reported>>

\* What it also promises as long as no message is lost: the next ping is always
\* issued, and every ping is reported.
Fairness == WF_<<issued, reported>>(Issue) /\ WF_<<issued, reported>>(Report)
=============================================================================
