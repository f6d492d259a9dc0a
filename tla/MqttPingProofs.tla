--------------------------- MODULE MqttPingProofs ---------------------------
(***************************************************************************)
(* Proofs about MqttPing for every number of pings and of spurious         *)
(* wakeups, with and without lost connections: the inductive invariant     *)
(* MqttInv, what mqtt_ping prints, and that a missed signal is missed for  *)
(* ever.                                                                   *)
(***************************************************************************)
EXTENDS MqttPing, SequenceTheorems, TLAPS

USE MaxPingsAssumption, MayDisconnectAssumption, SpuriouslyAssumption, NoPingAssumption

\* The numbers of a queue.
LEMMA ElementsNat ==
  /\ \A s \in Seq(Nat) : Elements(s) \subseteq Nat
  /\ Elements(<<>>) = {} /\ Ascending(<<>>)
<1>1. ASSUME NEW s \in Seq(Nat) PROVE Elements(s) \subseteq Nat
  BY LenProperties DEF Elements
<1>2. DOMAIN <<>> = {}
  OBVIOUS
<1> QED
  BY <1>1, <1>2 DEF Elements, Ascending

\* A number is published to a queue.
LEMMA ElementsAppend ==
  ASSUME NEW s \in Seq(Nat), NEW c \in Nat
  PROVE  /\ Append(s, c) \in Seq(Nat) /\ Elements(Append(s, c)) = Elements(s) \cup {c}
         /\ Ascending(s) /\ (\A x \in Elements(s) : x < c) => Ascending(Append(s, c))
<1> DEFINE t == Append(s, c)
<1>1. /\ t \in Seq(Nat) /\ Len(s) \in Nat /\ Len(t) = Len(s) + 1 /\ t[Len(s) + 1] = c
      /\ \A i \in 1..Len(s) : t[i] = s[i]
      /\ DOMAIN s = 1..Len(s)
  BY AppendProperties, LenProperties
<1> HIDE DEF t
<1>2. DOMAIN t = 1..(Len(s) + 1)
  BY <1>1, LenProperties
<1>3. Elements(t) = Elements(s) \cup {c}
  <2>1. \A i \in DOMAIN t : i \in DOMAIN s \/ i = Len(s) + 1
    BY <1>1, <1>2
  <2>2. \A i \in DOMAIN s : i \in DOMAIN t /\ t[i] = s[i]
    BY <1>1, <1>2
  <2>3. Len(s) + 1 \in DOMAIN t
    BY <1>1, <1>2
  <2> QED
    BY <1>1, <2>1, <2>2, <2>3 DEF Elements
<1>4. ASSUME Ascending(s), \A x \in Elements(s) : x < c,
             NEW i \in DOMAIN t, NEW j \in DOMAIN t, i < j
      PROVE  t[i] < t[j]
  <2>1. i \in DOMAIN s /\ t[i] = s[i]
    BY <1>1, <1>2, <1>4
  <2>2. CASE j \in DOMAIN s
    BY <1>1, <1>4, <2>1, <2>2 DEF Ascending
  <2>3. CASE j = Len(s) + 1
    BY <1>1, <1>4, <2>1, <2>3 DEF Elements
  <2> QED
    BY <1>1, <1>2, <2>2, <2>3
<1> QED
  BY <1>1, <1>3, <1>4 DEF t, Ascending

\* The first number of a queue is delivered.
LEMMA ElementsTail ==
  ASSUME NEW s \in Seq(Nat), s # <<>>
  PROVE  /\ Tail(s) \in Seq(Nat) /\ Head(s) \in Nat
         /\ Elements(s) = Elements(Tail(s)) \cup {Head(s)}
         /\ Ascending(s) => Ascending(Tail(s)) /\ \A x \in Elements(Tail(s)) : Head(s) < x
<1> DEFINE t == Tail(s)
<1>1. /\ t \in Seq(Nat) /\ Len(s) \in Nat \ {0} /\ Len(t) = Len(s) - 1 /\ Head(s) \in Nat
      /\ \A i \in 1..Len(t) : t[i] = s[i + 1]
      /\ DOMAIN s = 1..Len(s)
  BY HeadTailProperties, EmptySeq, LenProperties
<1>2. Head(s) = s[1]
  OBVIOUS
<1> HIDE DEF t
<1>3. DOMAIN t = 1..(Len(s) - 1)
  BY <1>1, LenProperties
<1>4. \A i \in DOMAIN t : i + 1 \in DOMAIN s /\ t[i] = s[i + 1]
  BY <1>1, <1>3
<1>5. \A i \in DOMAIN s : i = 1 \/ (i - 1 \in DOMAIN t /\ s[i] = t[i - 1])
  <2> TAKE i \in DOMAIN s
  <2>1. i # 1 => i - 1 \in DOMAIN t /\ (i - 1) + 1 = i
    BY <1>1, <1>3
  <2> QED
    BY <1>4, <2>1
<1>6. Elements(s) = Elements(t) \cup {Head(s)}
  <2>1. 1 \in DOMAIN s
    BY <1>1
  <2> QED
    BY <1>2, <1>4, <1>5, <2>1 DEF Elements
<1>7. ASSUME Ascending(s)
      PROVE  Ascending(t) /\ \A x \in Elements(t) : Head(s) < x
  <2>1. \A i, j \in DOMAIN t : i < j => i + 1 < j + 1
    BY <1>3
  <2>2. Ascending(t)
    BY <1>4, <1>7, <2>1 DEF Ascending
  <2>3. \A i \in DOMAIN t : 1 < i + 1 /\ 1 \in DOMAIN s
    BY <1>1, <1>3
  <2>4. \A i \in DOMAIN t : s[1] < s[i + 1]
    BY <1>4, <1>7, <2>3 DEF Ascending
  <2> QED
    BY <1>2, <1>4, <2>2, <2>4 DEF Elements
<1> QED
  BY <1>1, <1>6, <1>7 DEF t

\* A suffix of a queue is lost with a connection.
LEMMA ElementsKeep ==
  ASSUME NEW s \in Seq(Nat), NEW n \in 0..Len(s)
  PROVE  /\ Keep(s, n) \in Seq(Nat) /\ Elements(Keep(s, n)) \subseteq Elements(s)
         /\ Ascending(s) => Ascending(Keep(s, n))
<1> DEFINE t == SubSeq(s, 1, n)
<1>1. /\ t \in Seq(Nat) /\ Len(t) = n /\ \A i \in 1..n : t[i] = s[i]
  OBVIOUS
<1>2. DOMAIN s = 1..Len(s) /\ Len(s) \in Nat
  BY LenProperties
<1> HIDE DEF t
<1>3. DOMAIN t = 1..n
  BY <1>1, LenProperties
<1>4. \A i \in DOMAIN t : i \in DOMAIN s /\ t[i] = s[i]
  BY <1>1, <1>2, <1>3
<1> QED
  BY <1>1, <1>4 DEF t, Keep, Elements, Ascending
-----------------------------------------------------------------------------
\* The types the steps below compute with.
LEMMA Counts ==
  ASSUME MqttInv
  PROVE  /\ seq_num \in Nat /\ seq_num <= MaxPings /\ info \in Nat
         /\ spurious \in Nat /\ Sent \in Nat /\ Received \in Int
         /\ toPing \in Seq(Nat) /\ toPong \in Seq(Nat) /\ echo \in Nat \cup {NoPing}
         /\ NoPing \notin Nat /\ InFlight \subseteq Nat /\ missed \subseteq Nat
         /\ reported \in Seq([own : Nat, printed : Nat])
         /\ \A i \in DOMAIN reported : reported[i].own \in Nat /\ reported[i].printed \in Nat
<1> USE DEF MqttInv
<1>1. /\ seq_num \in Nat /\ seq_num <= MaxPings /\ info \in Nat /\ spurious \in Nat
      /\ toPing \in Seq(Nat) /\ toPong \in Seq(Nat) /\ echo \in Nat \cup {NoPing}
      /\ reported \in Seq([own : Nat, printed : Nat]) /\ missed \subseteq Nat
  BY DEF TypeOK
<1>2. Sent \in Nat /\ Received \in Int
  BY <1>1 DEF Sent, Received, Answered
<1>3. InFlight \subseteq Nat
  BY <1>1, ElementsNat DEF InFlight
<1>4. ASSUME NEW i \in DOMAIN reported
      PROVE  reported[i].own \in Nat /\ reported[i].printed \in Nat
  <2>1. reported \in [1..Len(reported) -> [own : Nat, printed : Nat]]
    BY <1>1, LenProperties
  <2>2. reported[i] \in [own : Nat, printed : Nat]
    BY <2>1
  <2> QED
    BY <2>2
<1> QED
  BY <1>1, <1>2, <1>3, <1>4

LEMMA InitInv == Init => MqttInv /\ PrintedLags
<1> SUFFICES ASSUME Init PROVE MqttInv /\ PrintedLags
  OBVIOUS
<1> USE DEF Init
<1>1. Elements(toPing) = {} /\ Elements(toPong) = {} /\ InFlight = {}
  BY ElementsNat DEF InFlight
<1>2. DOMAIN reported = {}
  OBVIOUS
<1>3. Sent = 0 /\ Received = 0
  BY DEF Sent, Received, Answered
<1>4. TypeOK
  <2>1. <<>> \in Seq(Nat) /\ <<>> \in Seq([own : Nat, printed : Nat])
    OBVIOUS
  <2>2. 0 \in 0..MaxPings /\ 0 \in 0..Spuriously
    OBVIOUS
  <2> QED
    BY <2>1, <2>2 DEF TypeOK
<1>5. LoopInOrder
  BY <1>1, ElementsNat DEF LoopInOrder
<1>6. SignalsInOrder
  BY <1>2, <1>3 DEF SignalsInOrder
<1> QED
  BY <1>2, <1>4, <1>5, <1>6 DEF MqttInv, WaitIsExplained, PrintedLags

\* A step that changes no queue, and neither what has arrived nor what was missed.
LEMMA StillInOrder ==
  ASSUME MqttInv, UNCHANGED <<toPing, toPong, echo, info, missed>>,
         Received' \in Int, Sent' \in Nat, Received' <= Received, Sent <= Sent'
  PROVE  LoopInOrder' /\ InFlight' = InFlight
<1>1. InFlight' = InFlight
  BY DEF InFlight
<1>2. \A x \in InFlight : Received' <= x /\ x < Sent'
  BY Counts DEF MqttInv, LoopInOrder
<1>3. \A m \in missed : m < Sent'
  BY Counts DEF MqttInv, LoopInOrder
<1> QED
  BY <1>1, <1>2, <1>3 DEF MqttInv, LoopInOrder

\* A step that leaves the two threads of mqtt_ping alone and loses some of the
\* messages, or none.
LEMMA FewerInOrder ==
  ASSUME MqttInv, UNCHANGED <<mainVars, info, signalled, missed, spurious>>,
         InFlight' \subseteq InFlight, InFlight \ InFlight' \subseteq lost', lost \subseteq lost'
  PROVE  /\ SignalsInOrder' /\ WaitIsExplained'
         /\ \A x \in InFlight' : Received' <= x /\ info' <= x /\ x < Sent'
         /\ \A m \in missed' : m < Sent' /\ \A x \in InFlight' : m < x
<1> USE DEF MqttInv, mainVars
<1>1. Received' = Received /\ Sent' = Sent
  BY DEF Received, Answered, Sent
<1>2. SignalsInOrder'
  BY <1>1 DEF SignalsInOrder
<1>3. WaitIsExplained'
  BY DEF WaitIsExplained
<1> QED
  BY <1>1, <1>2, <1>3 DEF LoopInOrder

LEMMA SubscribeInv == MqttInv /\ Subscribe => MqttInv'
<1> SUFFICES ASSUME MqttInv, Subscribe PROVE MqttInv'
  OBVIOUS
<1> USE DEF MqttInv
<1>1. /\ pc = "subscribe" /\ pc' = "send" /\ info' = info
      /\ UNCHANGED <<seq_num, reported, signalled, echo, toPong, toPing, lost, missed, spurious,
                     pongReady, upPing, upPong>>
  BY DEF Subscribe, brokerVars, SignalsInOrder
<1>2. Received' = Received /\ Sent' = Sent
  BY <1>1 DEF Received, Answered, Sent
<1>3. TypeOK'
  BY <1>1 DEF TypeOK
<1>4. LoopInOrder'
  BY <1>1, <1>2, Counts, StillInOrder
<1>5. SignalsInOrder'
  BY <1>1, <1>2 DEF SignalsInOrder
<1>6. WaitIsExplained'
  BY <1>1 DEF WaitIsExplained
<1> QED
  BY <1>3, <1>4, <1>5, <1>6

LEMMA SendInv == MqttInv /\ Send => MqttInv'
<1> SUFFICES ASSUME MqttInv, Send PROVE MqttInv'
  OBVIOUS
<1> USE DEF MqttInv
<1>1. /\ pc = "send" /\ pc' = "lock" /\ seq_num < MaxPings
      /\ \/ toPong' = Append(toPong, seq_num) /\ lost' = lost
         \/ lost' = lost \cup {seq_num} /\ toPong' = toPong
      /\ UNCHANGED <<seq_num, reported, info, signalled, echo, pongReady, toPing,
                     upPing, upPong, missed, spurious>>
  BY DEF Send
<1>2. Received' = Received /\ Sent = seq_num /\ Sent' = seq_num + 1 /\ ~signalled
  BY <1>1 DEF Received, Answered, Sent, SignalsInOrder
<1>3. Received <= seq_num
  <2>1. Answered = 0
    BY <1>1, <1>2 DEF Answered
  <2> QED
    BY <2>1, Counts DEF Received
<1>4. WaitIsExplained'
  BY <1>1 DEF WaitIsExplained
<1>5. CASE toPong' = Append(toPong, seq_num) /\ lost' = lost
  <2>1. \A x \in Elements(toPong) : x < seq_num
    BY <1>2 DEF LoopInOrder, InFlight
  <2>2. /\ toPong' \in Seq(Nat) /\ Elements(toPong') = Elements(toPong) \cup {seq_num}
        /\ Ascending(toPong')
    BY <1>5, <2>1, Counts, ElementsAppend DEF LoopInOrder
  <2>3. InFlight' = InFlight \cup {seq_num}
    BY <1>1, <2>2 DEF InFlight
  <2>4. TypeOK'
    BY <1>1, <1>5, <2>2 DEF TypeOK
  <2>5. LoopInOrder'
    <3>1. \A x \in Elements(toPing) : \A y \in Elements(toPong') : x < y
      BY <1>2, <2>2 DEF LoopInOrder, InFlight
    <3>2. echo # NoPing => \A y \in Elements(toPong') : echo < y
      BY <1>2, <2>2 DEF LoopInOrder, InFlight
    <3>3. \A x \in InFlight : Received <= x /\ info <= x /\ x < seq_num + 1
      BY <1>2, Counts DEF LoopInOrder
    <3>4. info <= seq_num /\ seq_num < seq_num + 1
      BY Counts DEF SignalsInOrder
    <3>5. \A m \in missed : m < seq_num /\ m < seq_num + 1
      BY <1>2, Counts DEF LoopInOrder
    <3> QED
      BY <1>1, <1>2, <1>3, <2>2, <2>3, <3>1, <3>2, <3>3, <3>4, <3>5 DEF LoopInOrder
  <2>6. SignalsInOrder'
    BY <1>1, <1>2, <2>3 DEF SignalsInOrder
  <2> QED
    BY <1>4, <2>4, <2>5, <2>6
<1>6. CASE lost' = lost \cup {seq_num} /\ toPong' = toPong
  <2>1. TypeOK'
    BY <1>1, <1>6, Counts DEF TypeOK
  <2>2. LoopInOrder'
    BY <1>1, <1>2, <1>6, Counts, StillInOrder
  <2>3. SignalsInOrder'
    BY <1>1, <1>2, <1>6 DEF SignalsInOrder
  <2> QED
    BY <1>4, <2>1, <2>2, <2>3
<1> QED
  BY <1>1, <1>5, <1>6

LEMMA WaitInv == MqttInv /\ Wait => MqttInv'
<1> SUFFICES ASSUME MqttInv, Wait PROVE MqttInv'
  OBVIOUS
<1> USE DEF MqttInv
<1>1. /\ pc = "lock" /\ pc' = "wait"
      /\ UNCHANGED <<seq_num, reported, info, signalled, echo, toPong, toPing, lost, missed,
                     spurious, pongReady, upPing, upPong>>
  BY DEF Wait, brokerVars
<1>2. Received' = Received /\ Sent' = Sent /\ ~signalled
  BY <1>1 DEF Received, Answered, Sent, SignalsInOrder
<1>3. TypeOK'
  BY <1>1 DEF TypeOK
<1>4. LoopInOrder' /\ InFlight' = InFlight
  BY <1>1, <1>2, Counts, StillInOrder
<1>5. SignalsInOrder'
  BY <1>1, <1>2 DEF SignalsInOrder
<1>6. WaitIsExplained'
  BY <1>1, <1>4 DEF WaitIsExplained, SignalsInOrder
<1> QED
  BY <1>3, <1>4, <1>5, <1>6

LEMMA WakeInv == MqttInv /\ Wake => MqttInv'
<1> SUFFICES ASSUME MqttInv, Wake PROVE MqttInv'
  OBVIOUS
<1> USE DEF MqttInv
<1>1. /\ pc = "wait" /\ signalled /\ signalled' = FALSE /\ pc' = "print"
      /\ UNCHANGED <<seq_num, reported, info, echo, toPong, toPing, lost, missed, spurious,
                     pongReady, upPing, upPong>>
  BY DEF Wake, brokerVars
<1>2. Received' = Received /\ Sent' = Sent
  BY <1>1 DEF Received, Answered, Sent
<1>3. TypeOK'
  BY <1>1 DEF TypeOK
<1>4. LoopInOrder'
  BY <1>1, <1>2, Counts, StillInOrder
<1>5. SignalsInOrder'
  BY <1>1, <1>2 DEF SignalsInOrder
<1>6. WaitIsExplained'
  BY <1>1 DEF WaitIsExplained
<1> QED
  BY <1>3, <1>4, <1>5, <1>6

LEMMA WakeSpuriouslyInv == MqttInv /\ WakeSpuriously => MqttInv'
<1> SUFFICES ASSUME MqttInv, WakeSpuriously PROVE MqttInv'
  OBVIOUS
<1> USE DEF MqttInv
<1>1. /\ pc = "wait" /\ signalled' = FALSE /\ pc' = "print"
      /\ spurious < Spuriously /\ spurious' = spurious + 1
      /\ UNCHANGED <<seq_num, reported, info, echo, toPong, toPing, lost, missed,
                     pongReady, upPing, upPong>>
  BY DEF WakeSpuriously, brokerVars
<1>2. Sent' = Sent
  BY <1>1 DEF Sent
<1>3. Received' \in Int /\ Received' <= Received
  <2>1. Answered' = 1 /\ Answered \in {0, 1}
    BY <1>1 DEF Answered
  <2>2. Received' = (seq_num + 1) - (spurious + 1)
    BY <1>1, <2>1 DEF Received
  <2>3. Received' = seq_num - spurious
    BY <2>2, Counts
  <2>4. Received = (seq_num + Answered) - spurious
    BY DEF Received
  <2> QED
    BY <2>1, <2>3, <2>4, Counts
<1>4. TypeOK'
  <2>1. spurious + 1 \in 0..Spuriously
    BY <1>1, Counts
  <2> QED
    BY <1>1, <2>1 DEF TypeOK
<1>5. LoopInOrder'
  BY <1>1, <1>2, <1>3, Counts, StillInOrder
<1>6. SignalsInOrder'
  <2>1. Received' <= info + 1
    BY <1>3, Counts DEF SignalsInOrder
  <2> QED
    BY <1>1, <1>2, <2>1 DEF SignalsInOrder
<1>7. WaitIsExplained'
  BY <1>1 DEF WaitIsExplained
<1> QED
  BY <1>4, <1>5, <1>6, <1>7

\* What is printed, and kept of what was.
LEMMA Printed ==
  ASSUME MqttInv, Report
  PROVE  /\ reported' \in Seq([own : Nat, printed : Nat])
         /\ Len(reported) \in Nat /\ DOMAIN reported = 1..Len(reported)
         /\ DOMAIN reported' = 1..(Len(reported) + 1)
         /\ \A i \in 1..Len(reported) : reported'[i] = reported[i]
         /\ reported'[Len(reported) + 1].own = seq_num
         /\ reported'[Len(reported) + 1].printed = info
<1> DEFINE line == [own |-> seq_num, printed |-> info]
<1>1. /\ line \in [own : Nat, printed : Nat] /\ line.own = seq_num /\ line.printed = info
      /\ reported \in Seq([own : Nat, printed : Nat]) /\ reported' = Append(reported, line)
  BY Counts DEF Report
<1> HIDE DEF line
<1>2. /\ reported' \in Seq([own : Nat, printed : Nat]) /\ Len(reported') = Len(reported) + 1
      /\ \A i \in 1..Len(reported) : reported'[i] = reported[i]
      /\ reported'[Len(reported) + 1] = line
  BY <1>1, AppendProperties
<1>3. /\ Len(reported) \in Nat /\ DOMAIN reported = 1..Len(reported)
      /\ DOMAIN reported' = 1..Len(reported')
  BY <1>1, <1>2, LenProperties
<1> QED
  BY <1>1, <1>2, <1>3

LEMMA ReportInv == MqttInv /\ Report => MqttInv'
<1> SUFFICES ASSUME MqttInv, Report PROVE MqttInv'
  OBVIOUS
<1> USE DEF MqttInv
<1>1. /\ pc = "print" /\ pc' = "send" /\ seq_num' = seq_num + 1
      /\ UNCHANGED <<signalled, info, echo, toPong, toPing, lost, missed, spurious,
                     pongReady, upPing, upPong>>
  BY DEF Report, brokerVars
<1>2. ~signalled /\ seq_num < MaxPings
  BY <1>1 DEF SignalsInOrder
<1>3. Sent' = Sent
  BY <1>1 DEF Sent
<1>4. Received' = Received
  <2>1. Answered' = 0 /\ Answered = 1
    BY <1>1, <1>2 DEF Answered
  <2>2. Received' = ((seq_num + 1) + 0) - spurious
    BY <1>1, <2>1 DEF Received
  <2>3. Received = (seq_num + 1) - spurious
    BY <2>1 DEF Received
  <2> QED
    BY <2>2, <2>3, Counts
<1>5. TypeOK'
  BY <1>1, <1>2, Counts, Printed DEF TypeOK
<1>6. LoopInOrder'
  BY <1>1, <1>3, <1>4, Counts, StillInOrder
<1>7. SignalsInOrder'
  <2>1. info <= seq_num + 1
    BY Counts DEF SignalsInOrder
  <2>2. ASSUME NEW i \in DOMAIN reported'
        PROVE  reported'[i].printed <= info
    <3>1. i \in 1..Len(reported) \/ i = Len(reported) + 1
      BY Printed
    <3>2. CASE i \in 1..Len(reported)
      BY <3>2, Printed DEF SignalsInOrder
    <3> QED
      BY <3>1, <3>2, Printed, Counts
  <2> QED
    BY <1>1, <1>2, <1>4, <2>1, <2>2 DEF SignalsInOrder
<1>8. WaitIsExplained'
  BY <1>1 DEF WaitIsExplained
<1> QED
  BY <1>5, <1>6, <1>7, <1>8

LEMMA MsgarrvdInv == MqttInv /\ Msgarrvd => MqttInv'
<1> SUFFICES ASSUME MqttInv, Msgarrvd PROVE MqttInv'
  OBVIOUS
<1> USE DEF MqttInv
<1> DEFINE x == Head(toPing)
<1>1. /\ toPing # <<>> /\ pc # "subscribe" /\ info' = x /\ toPing' = Tail(toPing)
      /\ pc = "wait" => signalled' = TRUE /\ missed' = missed
      /\ pc # "wait" => signalled' = signalled /\ missed' = missed \cup {x}
      /\ UNCHANGED <<pc, seq_num, reported, spurious, echo, pongReady, toPong, upPing, upPong, lost>>
  BY DEF Msgarrvd, mainVars
<1>2. /\ toPing' \in Seq(Nat) /\ x \in Nat /\ Elements(toPing) = Elements(toPing') \cup {x}
      /\ Ascending(toPing') /\ \A y \in Elements(toPing') : x < y
  BY <1>1, Counts, ElementsTail DEF LoopInOrder
<1> HIDE DEF x
<1>3. InFlight = InFlight' \cup {x}
  BY <1>1, <1>2 DEF InFlight
<1>4. \A y \in InFlight' : x < y
  <2>1. \A y \in Elements(toPong) : x < y
    BY <1>2 DEF LoopInOrder
  <2>2. echo # NoPing => x < echo
    BY <1>2 DEF LoopInOrder
  <2> QED
    BY <1>1, <1>2, <2>1, <2>2 DEF InFlight
<1>5. Received <= x /\ info <= x /\ x < Sent /\ \A m \in missed : m < x
  BY <1>3 DEF LoopInOrder
<1>6. Sent' = Sent
  BY <1>1 DEF Sent
<1>7. Received' \in Int /\ Received' <= x + 1
  <2>1. CASE signalled \/ pc # "wait"
    <3>1. Answered' = Answered
      BY <1>1, <2>1 DEF Answered
    <3>2. Received' = Received
      BY <1>1, <3>1 DEF Received
    <3> QED
      BY <1>2, <1>5, <3>2, Counts
  <2>2. CASE ~signalled /\ pc = "wait"
    <3>1. Answered' = 1 /\ Answered = 0
      BY <1>1, <2>2 DEF Answered
    <3>2. Received' = (seq_num + 1) - spurious
      BY <1>1, <3>1 DEF Received
    <3>3. Received = (seq_num + 0) - spurious
      BY <3>1 DEF Received
    <3>4. Received' = Received + 1
      BY <3>2, <3>3, Counts
    <3> QED
      BY <1>2, <1>5, <3>4, Counts
  <2> QED
    BY <2>1, <2>2
<1>8. x <= seq_num
  <2>1. Sent = seq_num + 1 \/ Sent = seq_num
    BY DEF Sent
  <2> QED
    BY <1>2, <1>5, <2>1, Counts
<1>9. TypeOK'
  BY <1>1, <1>2 DEF TypeOK
<1>10. LoopInOrder'
  <2>1. /\ \A y \in Elements(toPing') : \A z \in Elements(toPong) : y < z
        /\ echo # NoPing => \A y \in Elements(toPing') : y < echo
    BY <1>2 DEF LoopInOrder
  <2>2. \A y \in InFlight' : Received' <= y /\ x <= y /\ y < Sent
    <3> TAKE y \in InFlight'
    <3>1. x < y /\ y < Sent /\ y \in Nat
      BY <1>3, <1>4, Counts DEF LoopInOrder
    <3> QED
      BY <1>2, <1>7, <3>1
  <2>3. \A m \in missed' : m < Sent /\ \A y \in InFlight' : m < y
    <3>1. \A m \in missed : m < Sent /\ \A y \in InFlight' : m < y
      BY <1>3 DEF LoopInOrder
    <3> QED
      BY <1>1, <1>4, <1>5, <3>1
  <2> QED
    BY <1>1, <1>2, <1>6, <2>1, <2>2, <2>3 DEF LoopInOrder
<1>11. SignalsInOrder'
  <2>1. ASSUME NEW i \in DOMAIN reported'
        PROVE  reported'[i].printed <= x
    <3>1. reported[i].printed <= info /\ reported[i].printed \in Nat
      BY <1>1, <2>1, Counts DEF SignalsInOrder
    <3>a. info \in Nat /\ x \in Nat /\ info <= x
      BY <1>2, <1>5, Counts
    <3> DEFINE p == reported[i].printed
    <3>b. p <= info /\ p \in Nat
      BY <3>1
    <3> HIDE DEF p
    <3>c. p <= x
      BY <3>a, <3>b
    <3>2. reported[i].printed <= x
      BY <3>c DEF p
    <3> QED
      BY <1>1, <3>2
  <2>2. pc = "wait" => seq_num \notin missed
    <3> SUFFICES ASSUME pc = "wait", seq_num \in missed PROVE FALSE
      OBVIOUS
    <3>1. seq_num < x /\ x < seq_num + 1
      BY <1>5 DEF Sent
    <3> QED
      BY <1>2, <3>1, Counts
  <2>3. signalled' => pc' = "wait" /\ seq_num' \notin missed'
    BY <1>1, <2>2 DEF SignalsInOrder
  <2>4. pc' = "lock" => seq_num' \in InFlight' \cup missed' \cup lost'
    BY <1>1, <1>3 DEF SignalsInOrder
  <2> QED
    BY <1>1, <1>7, <1>8, <2>1, <2>3, <2>4 DEF SignalsInOrder
<1>12. WaitIsExplained'
  BY <1>1 DEF WaitIsExplained
<1> QED
  BY <1>9, <1>10, <1>11, <1>12

LEMMA PongSubscribeInv == MqttInv /\ PongSubscribe => MqttInv'
<1> SUFFICES ASSUME MqttInv, PongSubscribe PROVE MqttInv'
  OBVIOUS
<1>1. /\ UNCHANGED <<mainVars, info, signalled, echo, toPong, toPing, missed, spurious, lost,
                     upPing, upPong>>
      /\ pongReady' = TRUE
  BY DEF PongSubscribe
<1>2. Received' = Received /\ Sent' = Sent
  BY <1>1 DEF Received, Answered, Sent, mainVars
<1>3. LoopInOrder' /\ InFlight' = InFlight
  BY <1>1, <1>2, Counts, StillInOrder
<1>4. SignalsInOrder' /\ WaitIsExplained'
  BY <1>1, <1>3, FewerInOrder
<1>5. TypeOK'
  BY <1>1 DEF MqttInv, TypeOK, mainVars
<1> QED
  BY <1>3, <1>4, <1>5 DEF MqttInv

LEMMA PongMsgarrvdInv == MqttInv /\ PongMsgarrvd => MqttInv'
<1> SUFFICES ASSUME MqttInv, PongMsgarrvd PROVE MqttInv'
  OBVIOUS
<1> DEFINE x == Head(toPong)
<1>1. /\ echo = NoPing /\ toPong # <<>> /\ echo' = x /\ toPong' = Tail(toPong)
      /\ UNCHANGED <<mainVars, info, signalled, pongReady, toPing, upPing, upPong, lost, missed,
                     spurious>>
  BY DEF PongMsgarrvd
<1>2. /\ toPong' \in Seq(Nat) /\ x \in Nat /\ Elements(toPong) = Elements(toPong') \cup {x}
      /\ Ascending(toPong') /\ \A y \in Elements(toPong') : x < y
  BY <1>1, Counts, ElementsTail DEF MqttInv, LoopInOrder
<1> HIDE DEF x
<1>3. InFlight' = InFlight
  BY <1>1, <1>2, Counts DEF InFlight
<1>4. /\ SignalsInOrder' /\ WaitIsExplained'
      /\ \A y \in InFlight' : Received' <= y /\ info' <= y /\ y < Sent'
      /\ \A m \in missed' : m < Sent' /\ \A y \in InFlight' : m < y
  BY <1>1, <1>3, FewerInOrder
<1>5. TypeOK'
  BY <1>1, <1>2 DEF MqttInv, TypeOK, mainVars
<1>6. LoopInOrder'
  <2>1. /\ \A y \in Elements(toPing) : \A z \in Elements(toPong') : y < z
        /\ \A y \in Elements(toPing) : y < x
    BY <1>2 DEF MqttInv, LoopInOrder
  <2>2. Ascending(toPing')
    BY <1>1 DEF MqttInv, LoopInOrder
  <2> QED
    BY <1>1, <1>2, <1>4, <2>1, <2>2 DEF LoopInOrder
<1> QED
  BY <1>4, <1>5, <1>6 DEF MqttInv

LEMMA PongSendInv == MqttInv /\ PongSend => MqttInv'
<1> SUFFICES ASSUME MqttInv, PongSend PROVE MqttInv'
  OBVIOUS
<1>1. /\ echo # NoPing /\ echo' = NoPing
      /\ \/ toPing' = Append(toPing, echo) /\ lost' = lost
         \/ lost' = lost \cup {echo} /\ toPing' = toPing
      /\ UNCHANGED <<mainVars, info, signalled, pongReady, toPong, upPing, upPong, missed, spurious>>
  BY DEF PongSend
<1>2. echo \in Nat
  BY <1>1, Counts
<1>3. /\ toPing' \in Seq(Nat) /\ Ascending(toPing')
      /\ \/ Elements(toPing') = Elements(toPing) \cup {echo} /\ lost' = lost
         \/ Elements(toPing') = Elements(toPing) /\ lost' = lost \cup {echo}
  <2>1. Ascending(toPing) /\ \A x \in Elements(toPing) : x < echo
    BY <1>1 DEF MqttInv, LoopInOrder
  <2>2. CASE toPing' = Append(toPing, echo) /\ lost' = lost
    BY <1>2, <2>1, <2>2, Counts, ElementsAppend
  <2>3. CASE toPing' = toPing /\ lost' = lost \cup {echo}
    BY <2>1, <2>3, Counts
  <2> QED
    BY <1>1, <2>2, <2>3
<1>4. InFlight' \subseteq InFlight /\ InFlight \ InFlight' \subseteq lost' /\ lost \subseteq lost'
  <2>1. InFlight' = Elements(toPong) \cup Elements(toPing')
    BY <1>1 DEF InFlight
  <2>2. InFlight = Elements(toPong) \cup Elements(toPing) \cup {echo}
    BY <1>1 DEF InFlight
  <2> QED
    BY <1>3, <2>1, <2>2
<1>5. /\ SignalsInOrder' /\ WaitIsExplained'
      /\ \A y \in InFlight' : Received' <= y /\ info' <= y /\ y < Sent'
      /\ \A m \in missed' : m < Sent' /\ \A y \in InFlight' : m < y
  BY <1>1, <1>4, FewerInOrder
<1>6. TypeOK'
  <2>1. lost' \in SUBSET Nat
    BY <1>2, <1>3 DEF MqttInv, TypeOK
  <2> QED
    BY <1>1, <1>3, <2>1 DEF MqttInv, TypeOK, mainVars
<1>7. LoopInOrder'
  <2>1. \A y \in Elements(toPing') : \A z \in Elements(toPong) : y < z
    BY <1>1, <1>3 DEF MqttInv, LoopInOrder
  <2>2. Ascending(toPong')
    BY <1>1 DEF MqttInv, LoopInOrder
  <2> QED
    BY <1>1, <1>3, <1>5, <2>1, <2>2 DEF LoopInOrder
<1> QED
  BY <1>5, <1>6, <1>7 DEF MqttInv

LEMMA PingDisconnectsInv == MqttInv /\ PingDisconnects => MqttInv'
<1> SUFFICES ASSUME MqttInv, PingDisconnects PROVE MqttInv'
  OBVIOUS
<1>1. PICK n \in 0..Len(toPong) :
         /\ toPong' = Keep(toPong, n)
         /\ lost' = lost \cup Elements(toPing) \cup (Elements(toPong) \ Elements(Keep(toPong, n)))
  BY DEF PingDisconnects
<1>2. /\ toPing' = <<>> /\ upPing' = FALSE
      /\ UNCHANGED <<mainVars, info, signalled, echo, pongReady, upPong, missed, spurious>>
  BY DEF PingDisconnects
<1>3. /\ toPong' \in Seq(Nat) /\ Elements(toPong') \subseteq Elements(toPong) /\ Ascending(toPong')
      /\ lost' = lost \cup Elements(toPing) \cup (Elements(toPong) \ Elements(toPong'))
  BY <1>1, Counts, ElementsKeep DEF MqttInv, LoopInOrder
<1>4. toPing' \in Seq(Nat) /\ Elements(toPing') = {} /\ Ascending(toPing')
  BY <1>2, ElementsNat
<1>5. InFlight' \subseteq InFlight /\ InFlight \ InFlight' \subseteq lost' /\ lost \subseteq lost'
  BY <1>2, <1>3, <1>4 DEF InFlight
<1>6. /\ SignalsInOrder' /\ WaitIsExplained'
      /\ \A y \in InFlight' : Received' <= y /\ info' <= y /\ y < Sent'
      /\ \A m \in missed' : m < Sent' /\ \A y \in InFlight' : m < y
  BY <1>2, <1>5, FewerInOrder
<1>7. TypeOK'
  <2>1. lost' \in SUBSET Nat
    BY <1>3, Counts, ElementsNat DEF MqttInv, TypeOK
  <2> QED
    BY <1>2, <1>3, <1>4, <2>1 DEF MqttInv, TypeOK, mainVars
<1>8. LoopInOrder'
  <2>1. echo # NoPing => \A z \in Elements(toPong') : echo < z
    BY <1>3 DEF MqttInv, LoopInOrder
  <2> QED
    BY <1>2, <1>3, <1>4, <1>6, <2>1 DEF LoopInOrder
<1> QED
  BY <1>6, <1>7, <1>8 DEF MqttInv

LEMMA PongDisconnectsInv == MqttInv /\ PongDisconnects => MqttInv'
<1> SUFFICES ASSUME MqttInv, PongDisconnects PROVE MqttInv'
  OBVIOUS
<1>1. PICK n \in 0..Len(toPing) :
         /\ toPing' = Keep(toPing, n)
         /\ lost' = lost \cup Elements(toPong) \cup (Elements(toPing) \ Elements(Keep(toPing, n)))
  BY DEF PongDisconnects
<1>2. /\ toPong' = <<>> /\ upPong' = FALSE
      /\ UNCHANGED <<mainVars, info, signalled, echo, pongReady, upPing, missed, spurious>>
  BY DEF PongDisconnects
<1>3. /\ toPing' \in Seq(Nat) /\ Elements(toPing') \subseteq Elements(toPing) /\ Ascending(toPing')
      /\ lost' = lost \cup Elements(toPong) \cup (Elements(toPing) \ Elements(toPing'))
  BY <1>1, Counts, ElementsKeep DEF MqttInv, LoopInOrder
<1>4. toPong' \in Seq(Nat) /\ Elements(toPong') = {} /\ Ascending(toPong')
  BY <1>2, ElementsNat
<1>5. InFlight' \subseteq InFlight /\ InFlight \ InFlight' \subseteq lost' /\ lost \subseteq lost'
  BY <1>2, <1>3, <1>4 DEF InFlight
<1>6. /\ SignalsInOrder' /\ WaitIsExplained'
      /\ \A y \in InFlight' : Received' <= y /\ info' <= y /\ y < Sent'
      /\ \A m \in missed' : m < Sent' /\ \A y \in InFlight' : m < y
  BY <1>2, <1>5, FewerInOrder
<1>7. TypeOK'
  <2>1. lost' \in SUBSET Nat
    BY <1>3, Counts, ElementsNat DEF MqttInv, TypeOK
  <2> QED
    BY <1>2, <1>3, <1>4, <2>1 DEF MqttInv, TypeOK, mainVars
<1>8. LoopInOrder'
  <2>1. echo # NoPing => \A z \in Elements(toPing') : z < echo
    BY <1>3 DEF MqttInv, LoopInOrder
  <2> QED
    BY <1>2, <1>3, <1>4, <1>6, <2>1 DEF LoopInOrder
<1> QED
  BY <1>6, <1>7, <1>8 DEF MqttInv

LEMMA StutterInv == MqttInv /\ UNCHANGED vars => MqttInv'
<1> SUFFICES ASSUME MqttInv, UNCHANGED vars PROVE MqttInv'
  OBVIOUS
<1> USE DEF vars, mainVars, brokerVars
<1>1. Received' = Received /\ Sent' = Sent
  BY DEF Received, Answered, Sent
<1>2. LoopInOrder' /\ InFlight' = InFlight
  BY <1>1, Counts, StillInOrder
<1>3. SignalsInOrder' /\ WaitIsExplained'
  BY <1>2, FewerInOrder
<1>4. TypeOK'
  BY DEF MqttInv, TypeOK
<1> QED
  BY <1>2, <1>3, <1>4 DEF MqttInv

LEMMA NextInv == MqttInv /\ [Next]_vars => MqttInv'
<1> SUFFICES ASSUME MqttInv, [Next]_vars PROVE MqttInv'
  OBVIOUS
<1>1. CASE Subscribe \/ Send \/ Wait \/ Wake \/ WakeSpuriously \/ Report \/ Msgarrvd
  BY <1>1, SubscribeInv, SendInv, WaitInv, WakeInv, WakeSpuriouslyInv, ReportInv, MsgarrvdInv
<1>2. CASE PongSubscribe \/ PongMsgarrvd \/ PongSend \/ PingDisconnects \/ PongDisconnects
  BY <1>2, PongSubscribeInv, PongMsgarrvdInv, PongSendInv, PingDisconnectsInv, PongDisconnectsInv
<1>3. CASE Finished \/ UNCHANGED vars
  BY <1>3, StutterInv DEF Finished
<1> QED
  BY <1>1, <1>2, <1>3 DEF Next

\* A range that begins earlier holds no less.
LEMMA WiderRange ==
  \A o, p, s, t \in Nat : s <= t /\ p \in (o - s)..o => p \in (o - t)..o
OBVIOUS

\* Each line that is printed lags no more than the spurious wakeups, and none goes
\* back.
LEMMA NextPrinted == MqttInv /\ PrintedLags /\ [Next]_vars => PrintedLags'
<1> SUFFICES ASSUME MqttInv, PrintedLags, [Next]_vars PROVE PrintedLags'
  OBVIOUS
<1>1. CASE Report
  <2>1. spurious' = spurious /\ pc = "print"
    BY <1>1 DEF Report
  <2>2. info \in (seq_num - spurious)..seq_num
    <3>1. Received = (seq_num + 1) - spurious
      BY <2>1 DEF Received, Answered
    <3>2. Received <= info + 1 /\ info <= seq_num
      BY DEF MqttInv, SignalsInOrder
    <3> QED
      BY <3>1, <3>2, Counts
  <2> SUFFICES ASSUME NEW i \in DOMAIN reported'
               PROVE  /\ reported'[i].printed \in (reported'[i].own - spurious)..reported'[i].own
                      /\ \A j \in DOMAIN reported' :
                           i <= j => reported'[i].printed <= reported'[j].printed
    BY <2>1 DEF PrintedLags
  <2>3. i \in 1..Len(reported) \/ i = Len(reported) + 1
    BY <1>1, Printed
  <2>4. reported'[i].printed \in (reported'[i].own - spurious)..reported'[i].own
    <3>1. CASE i \in 1..Len(reported)
      BY <1>1, <3>1, Printed DEF PrintedLags
    <3>2. CASE i = Len(reported) + 1
      BY <1>1, <2>2, <3>2, Printed
    <3> QED
      BY <2>3, <3>1, <3>2
  <2>5. ASSUME NEW j \in DOMAIN reported', i <= j
        PROVE  reported'[i].printed <= reported'[j].printed
    <3>1. j \in 1..Len(reported) \/ j = Len(reported) + 1
      BY <1>1, Printed
    <3>2. CASE j \in 1..Len(reported)
      <4>1. i \in 1..Len(reported)
        BY <1>1, <2>3, <2>5, <3>2, Printed
      <4> QED
        BY <1>1, <2>5, <3>2, <4>1, Printed DEF PrintedLags
    <3>3. CASE j = Len(reported) + 1
      <4>1. CASE i \in 1..Len(reported)
        BY <1>1, <3>3, <4>1, Printed DEF MqttInv, SignalsInOrder
      <4>2. CASE i = Len(reported) + 1
        BY <1>1, <3>3, <4>2, Printed, Counts
      <4> QED
        BY <2>3, <4>1, <4>2
    <3> QED
      BY <3>1, <3>2, <3>3
  <2> QED
    BY <2>4, <2>5
<1>2. CASE reported' = reported /\ spurious' \in {spurious, spurious + 1}
  <2> SUFFICES ASSUME NEW i \in DOMAIN reported
               PROVE  reported[i].printed \in (reported[i].own - spurious')..reported[i].own
    BY <1>2 DEF PrintedLags
  <2> DEFINE p == reported[i].printed
             o == reported[i].own
  <2>1. o \in Nat /\ p \in Nat
    BY Counts
  <2>2. p \in (o - spurious)..o
    BY DEF PrintedLags
  <2> HIDE DEF p, o
  <2>a. spurious \in Nat
    BY Counts
  <2>b. spurious' = spurious \/ spurious' = spurious + 1
    BY <1>2
  <2>3. p \in (o - spurious')..o
    <3>1. spurious' \in Nat /\ spurious <= spurious'
      BY <2>a, <2>b
    <3> QED
      BY <2>1, <2>2, <2>a, <3>1, WiderRange
  <2> QED
    BY <2>3 DEF p, o
<1>3. ~Report => reported' = reported /\ spurious' \in {spurious, spurious + 1}
  BY DEF Next, Subscribe, Send, Wait, Wake, WakeSpuriously, Msgarrvd, PongSubscribe, PongMsgarrvd,
         PongSend, PingDisconnects, PongDisconnects, Finished, vars, mainVars
<1> QED
  BY <1>1, <1>2, <1>3
-----------------------------------------------------------------------------
\* For every number of pings and of spurious wakeups, and whatever connection is
\* lost when: the numbers under way ascend, and a main that waits has its pong on
\* the way, has been signalled, or will never be, for a reason that is known.
THEOREM MqttInvHolds == Spec => []MqttInv
<1>1. Init => MqttInv
  BY InitInv
<1> QED
  BY <1>1, NextInv, PTL DEF Spec

\* The number printed is that of the ping timed, but for one of delay for each
\* spurious wakeup, and it never goes back.
THEOREM MqttPrintedLags == Spec => []PrintedLags
<1>1. MqttInv /\ PrintedLags /\ [Next]_vars => (MqttInv /\ PrintedLags)'
  BY NextInv, NextPrinted
<1> QED
  BY <1>1, InitInv, PTL DEF Spec

\* Only a spurious wakeup ends a wait that has missed its signal.
THEOREM MqttMissedIsForever == Spec => MissedIsForever
<1>1. MqttInv /\ [Next]_vars =>
        [pc = "wait" /\ seq_num \in missed /\ spurious' = spurious
           => UNCHANGED <<mainVars, signalled>>]_vars
  <2> SUFFICES ASSUME MqttInv, [Next]_vars, pc = "wait", seq_num \in missed, spurious' = spurious
               PROVE  UNCHANGED <<mainVars, signalled>>
    OBVIOUS
  <2>1. ~signalled
    BY DEF MqttInv, SignalsInOrder
  <2>2. InFlight = {}
    <3> SUFFICES ASSUME NEW x \in InFlight PROVE FALSE
      OBVIOUS
    <3>1. seq_num < x /\ x < seq_num + 1
      BY DEF MqttInv, LoopInOrder, Sent
    <3> QED
      BY <3>1, Counts
  <2>3. toPing = <<>>
    <3> SUFFICES ASSUME toPing # <<>> PROVE FALSE
      OBVIOUS
    <3>1. Head(toPing) \in InFlight
      BY Counts, ElementsTail DEF InFlight
    <3> QED
      BY <2>2, <3>1
  <2>4. ~Wake /\ ~WakeSpuriously /\ ~Msgarrvd
    <3>1. spurious + 1 # spurious
      BY Counts
    <3> QED
      BY <2>1, <2>3, <3>1 DEF Wake, WakeSpuriously, Msgarrvd
  <2> QED
    BY <2>4 DEF Next, Subscribe, Send, Wait, Report, PongSubscribe, PongMsgarrvd, PongSend,
                PingDisconnects, PongDisconnects, Finished, vars
<1> QED
  BY <1>1, MqttInvHolds, PTL DEF Spec, MissedIsForever
=============================================================================
