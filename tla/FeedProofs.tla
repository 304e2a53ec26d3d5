------------------------------ MODULE FeedProofs ------------------------------
(***************************************************************************)
(* Proofs about AlertFeed for every set of programs, every size of the     *)
(* ring and of the buffer, and every schedule of receivers and senders.    *)
(*                                                                         *)
(* The recorder and the client share nothing but the channels: each has    *)
(* an inductive invariant of its own.                                      *)
(***************************************************************************)
EXTENDS AlertFeed, SequenceTheorems, TLAPS

LEMMA MinOfTwo ==
    ASSUME NEW a \in Int, NEW b \in Int
    PROVE  Min({a, b}) = IF a <= b THEN a ELSE b
<1>1. CASE a <= b
    <2>1. \A x \in {a, b} : (\A y \in {a, b} : x <= y) <=> x = a
        BY <1>1
    <2> QED
        BY <1>1, <2>1 DEF Min
<1>2. CASE ~(a <= b)
    <2>1. \A x \in {a, b} : (\A y \in {a, b} : x <= y) <=> x = b
        BY <1>2
    <2> QED
        BY <1>2, <2>1 DEF Min
<1> QED
    BY <1>1, <1>2

LEMMA MaxOfTwo ==
    ASSUME NEW a \in Int, NEW b \in Int
    PROVE  Max({a, b}) = IF a >= b THEN a ELSE b
<1>1. CASE a >= b
    <2>1. \A x \in {a, b} : (\A y \in {a, b} : x >= y) <=> x = a
        BY <1>1
    <2> QED
        BY <1>1, <2>1 DEF Max
<1>2. CASE ~(a >= b)
    <2>1. \A x \in {a, b} : (\A y \in {a, b} : x >= y) <=> x = b
        BY <1>2
    <2> QED
        BY <1>2, <2>1 DEF Max
<1> QED
    BY <1>1, <1>2

-----------------------------------------------------------------------------
(* The recorder *)

Types ==
    /\ sent \in [Channels -> Seq(Programs)]
    /\ recorder \in [pc : {"unstarted", "recv", "store"}, next : Nat, event : Nat]
    /\ start \in [Receivers -> Nat]

\* Where the recorder stands.
InPlace ==
    /\ recorder.pc = "unstarted" => recent = << >>
    /\ recorder.pc = "store" => recorder.event = recorder.next - 1
    /\ "recorder" \notin lagged /\ recorder.pc # "unstarted" =>
          recorder.next >= start["recorder"] + (IF recorder.pc = "store" THEN 1 ELSE 0)

RecorderInv == Types /\ InPlace /\ RecentIsTheTail

\* The buffer takes one more, and lets its oldest go when it is full.
LEMMA TailMovesOn ==
    ASSUME NEW cap \in Nat \ {0}, NEW from \in Nat, NEW e \in Nat, from <= e
    PROVE  LET longer == Append(LastOf(cap, from, e - 1), e)
           IN  SubSeq(longer, Max({1, Len(longer) - cap + 1}), Len(longer))
                  = LastOf(cap, from, e)
<1> DEFINE before == LastOf(cap, from, e - 1)
           n == IF cap <= e - from THEN cap ELSE e - from
           longer == Append(before, e)
           first == Max({1, Len(longer) - cap + 1})
           after == SubSeq(longer, first, Len(longer))
<1>1. n \in Nat /\ n <= cap /\ n <= e - from
    OBVIOUS
<1>2. before = [i \in 1 .. n |-> e - 1 - n + i]
    <2>1. e - 1 - from + 1 = e - from /\ e - from \in Int /\ cap \in Int
        OBVIOUS
    <2>2. Min({cap, e - from}) = n
        BY <2>1, MinOfTwo
    <2> HIDE DEF n
    <2> QED
        BY <2>1, <2>2 DEF LastOf
<1> HIDE DEF before
<1>3. before \in Seq(Int) /\ Len(before) = n
    <2>1. \A i \in 1 .. n : e - 1 - n + i \in Int
        BY <1>1
    <2> HIDE DEF n
    <2> QED
        BY <1>1, <1>2, <2>1
<1>4. /\ longer \in Seq(Int) /\ Len(longer) = n + 1
      /\ \A i \in 1 .. n + 1 : longer[i] = e - 1 - n + i
    <2>1. e \in Int
        OBVIOUS
    <2>2. /\ longer \in Seq(Int) /\ Len(longer) = n + 1
          /\ \A i \in 1 .. n : longer[i] = before[i]
          /\ longer[n + 1] = e
        BY <1>3, <2>1, AppendProperties
    <2> HIDE DEF longer
    <2>3. ASSUME NEW i \in 1 .. n + 1
          PROVE  longer[i] = e - 1 - n + i
        <3>1. CASE i \in 1 .. n
            BY <1>2, <2>2, <3>1
        <3>2. CASE i = n + 1
            BY <1>1, <2>2, <3>2
        <3> QED
            BY <1>1, <3>1, <3>2
    <2> QED
        BY <2>2, <2>3
<1>5. first = IF n < cap THEN 1 ELSE 2
    <2>1. 1 \in Int /\ (n + 1) - cap + 1 \in Int
        BY <1>1
    <2>2. first = IF 1 >= (n + 1) - cap + 1 THEN 1 ELSE (n + 1) - cap + 1
        BY <1>4, <2>1, MaxOfTwo
    <2> HIDE DEF first, n
    <2> QED
        BY <1>1, <2>2
<1> DEFINE k == IF cap <= e - from + 1 THEN cap ELSE e - from + 1
<1>6. LastOf(cap, from, e) = [i \in 1 .. k |-> e - k + i]
    <2>1. e - from + 1 \in Int /\ cap \in Int
        OBVIOUS
    <2>2. Min({cap, e - from + 1}) = k
        BY <2>1, MinOfTwo
    <2> HIDE DEF k
    <2> QED
        BY <2>2 DEF LastOf
<1>7. k \in Nat /\ k = (n + 1) - first + 1 /\ first \in 1 .. 2 /\ first <= n + 1
    BY <1>1, <1>5
<1> HIDE DEF longer, first
<1>8. /\ after \in Seq(Int) /\ Len(after) = k
      /\ \A i \in 1 .. k : after[i] = e - k + i
    <2>1. first \in Int /\ n + 1 \in Int /\ \A i \in first .. n + 1 : longer[i] \in Int
        BY <1>1, <1>4, <1>7
    <2> HIDE DEF n, k
    <2> DEFINE s == SubSeq(longer, first, n + 1)
    <2>0. after = s
        BY <1>4
    <2> HIDE DEF after
    <2>5. /\ s \in Seq(Int)
          /\ Len(s) = IF first <= n + 1 THEN (n + 1) - first + 1 ELSE 0
          /\ \A i \in 1 .. (n + 1) - first + 1 : s[i] = longer[first + i - 1]
        BY <2>1, SubSeqProperties
    <2> HIDE DEF s
    <2>2. /\ after \in Seq(Int)
          /\ Len(after) = (n + 1) - first + 1
          /\ \A i \in 1 .. (n + 1) - first + 1 : after[i] = longer[first + i - 1]
        BY <2>0, <2>5, <1>7
    <2>3. ASSUME NEW i \in 1 .. k
          PROVE  after[i] = e - k + i
        <3>1. first + i - 1 \in 1 .. n + 1 /\ n \in Nat /\ first \in Int
            BY <1>1, <1>7
        <3>2. after[i] = e - 1 - n + (first + i - 1)
            BY <1>4, <1>7, <2>2, <3>1
        <3> QED
            BY <1>7, <3>1, <3>2
    <2> QED
        BY <1>7, <2>2, <2>3
<1>9. after = LastOf(cap, from, e)
    <2> HIDE DEF k, after, n
    <2> QED
        BY <1>6, <1>7, <1>8
<1> QED
    BY <1>9 DEF longer, first, before

LEMMA RecorderInit == Init => RecorderInv
<1> SUFFICES ASSUME Init
             PROVE  RecorderInv
    OBVIOUS
<1>1. Types
    BY DEF Init, Types, Unstarted, Channels, Receivers
<1>2. InPlace
    BY DEF Init, InPlace, Unstarted
<1>3. RecentIsTheTail
    BY DEF Init, RecentIsTheTail, Unstarted
<1> QED
    BY <1>1, <1>2, <1>3 DEF RecorderInv

\* A step of anybody else.
LEMMA RecorderIsLeftAlone ==
    ASSUME RecorderInv, recorder' = recorder, recent' = recent,
           sent' \in [Channels -> Seq(Programs)], start' \in [Receivers -> Nat],
           start'["recorder"] = start["recorder"],
           "recorder" \in lagged => "recorder" \in lagged'
    PROVE  RecorderInv'
<1>1. Types'
    BY DEF RecorderInv, Types
<1>2. InPlace'
    BY Zenon DEF RecorderInv, InPlace
<1>3. RecentIsTheTail'
    BY Zenon DEF RecorderInv, RecentIsTheTail, LastOf
<1> QED
    BY <1>1, <1>2, <1>3 DEF RecorderInv

LEMMA StartRecorderStep ==
    ASSUME RecorderInv, StartRecorder
    PROVE  RecorderInv'
<1>1. /\ recorder' = [recorder EXCEPT !.pc = "recv", !.next = Tail1("alert")]
      /\ start' = [start EXCEPT !["recorder"] = Tail1("alert")]
      /\ sent' = sent /\ recent' = recent /\ recorder.pc = "unstarted" /\ recent = << >>
    BY DEF StartRecorder, RecorderInv, InPlace
<1>2. Types /\ Tail1("alert") \in Nat
    BY DEF RecorderInv, Types, Tail1, Channels
<1>3. /\ recorder'.pc = "recv" /\ recorder'.next = Tail1("alert")
      /\ start'["recorder"] = Tail1("alert")
    BY <1>1, <1>2 DEF Types, Receivers
<1>4. Types'
    BY <1>1, <1>2 DEF Types
<1>5. InPlace'
    BY <1>2, <1>3 DEF InPlace
<1>6. RecentIsTheTail'
    <2> DEFINE s == Tail1("alert")
    <2>1. s - 1 - s + 1 = 0 /\ 0 \in Int /\ Capacity \in Int /\ Capacity > 0
        BY <1>2, SizesArePositive
    <2>2. Min({Capacity, s - 1 - s + 1}) = 0
        BY <2>1, MinOfTwo
    <2> HIDE DEF s
    <2>3. LastOf(Capacity, s, s - 1) = << >>
        <3>1. LastOf(Capacity, s, s - 1) = [i \in 1 .. 0 |-> s - 1 - 0 + i]
            BY <2>2, Zenon DEF LastOf
        <3>2. [i \in 1 .. 0 |-> s - 1 - 0 + i] = << >>
            OBVIOUS
        <3> QED
            BY <3>1, <3>2, Zenon
    <2> QED
        BY <1>1, <1>3, <2>3 DEF RecentIsTheTail, s
<1> QED
    BY <1>4, <1>5, <1>6 DEF RecorderInv

LEMMA RecvAlertStep ==
    ASSUME RecorderInv, RecvAlert
    PROVE  RecorderInv'
<1>1. /\ recorder.pc = "recv"
      /\ recorder' = [pc |-> "store", next |-> recorder.next + 1, event |-> recorder.next]
      /\ UNCHANGED <<sent, recent, start, lagged>>
    BY DEF RecvAlert, history
<1>2. Types /\ recorder.next \in Nat /\ start["recorder"] \in Nat
    BY DEF RecorderInv, Types, Receivers
<1>3. Types'
    BY <1>1, <1>2 DEF Types
<1>4. InPlace'
    BY <1>1, <1>2 DEF RecorderInv, InPlace
<1>5. RecentIsTheTail'
    <2>1. recorder'.next - 2 = recorder.next - 1 /\ recorder'.pc = "store"
        BY <1>1, <1>2
    <2>2. "recorder" \notin lagged =>
              recent = LastOf(Capacity, start["recorder"], recorder.next - 1)
        BY <1>1 DEF RecorderInv, RecentIsTheTail
    <2> QED
        BY <1>1, <2>1, <2>2, Zenon DEF RecentIsTheTail, LastOf
<1> QED
    BY <1>3, <1>4, <1>5 DEF RecorderInv

LEMMA RecorderLagsStep ==
    ASSUME RecorderInv, RecorderLags
    PROVE  RecorderInv'
<1>1. /\ recorder.pc = "recv" /\ "recorder" \in lagged'
      /\ recorder' = [recorder EXCEPT !.next = Oldest("alert")]
      /\ UNCHANGED <<sent, recent, start>>
    BY DEF RecorderLags
<1>2. Types /\ Oldest("alert") \in Nat
    BY SizesArePositive DEF RecorderInv, Types, Oldest, Channels
<1>3. Types'
    BY <1>1, <1>2 DEF Types
<1>4. recorder'.pc = "recv"
    BY <1>1, <1>2 DEF Types
<1>5. InPlace' /\ RecentIsTheTail'
    BY <1>1, <1>4 DEF InPlace, RecentIsTheTail
<1> QED
    BY <1>3, <1>5 DEF RecorderInv

LEMMA StoreAlertStep ==
    ASSUME RecorderInv, StoreAlert
    PROVE  RecorderInv'
<1>1. /\ recorder.pc = "store"
      /\ recent' = LET longer == Append(recent, recorder.event)
                   IN  SubSeq(longer, Max({1, Len(longer) - Capacity + 1}), Len(longer))
      /\ recorder' = [recorder EXCEPT !.pc = "recv", !.event = 0]
      /\ UNCHANGED <<sent, start, lagged>>
    BY DEF StoreAlert, history
<1>2. /\ Types /\ recorder.next \in Nat /\ recorder.event \in Nat
      /\ recorder.event = recorder.next - 1 /\ start["recorder"] \in Nat
    BY <1>1 DEF RecorderInv, Types, InPlace, Receivers
<1>3. recorder'.pc = "recv" /\ recorder'.next = recorder.next
    BY <1>1, <1>2 DEF Types
<1>4. Types'
    BY <1>1, <1>2 DEF Types
<1>5. "recorder" \notin lagged => recorder.next >= start["recorder"] + 1
    BY <1>1 DEF RecorderInv, InPlace
<1>6. InPlace'
    BY <1>1, <1>2, <1>3, <1>5 DEF InPlace
<1>7. RecentIsTheTail'
    <2> SUFFICES ASSUME "recorder" \notin lagged
                 PROVE  recent' = LastOf(Capacity, start["recorder"], recorder.event)
        BY <1>1, <1>2, <1>3, Zenon DEF RecentIsTheTail, LastOf
    <2>1. recent = LastOf(Capacity, start["recorder"], recorder.event - 1)
        <3>1. recorder.next - 2 = recorder.event - 1
            BY <1>2
        <3> QED
            BY <1>1, <3>1 DEF RecorderInv, RecentIsTheTail
    <2>2. start["recorder"] <= recorder.event /\ Capacity \in Nat \ {0}
        BY <1>2, <1>5, SizesArePositive
    <2> QED
        BY <1>1, <1>2, <2>1, <2>2, TailMovesOn
<1> QED
    BY <1>4, <1>6, <1>7 DEF RecorderInv

-----------------------------------------------------------------------------
(* The client *)

States == {"away", "select", "send", "gone"}
Connected == client.pc \in {"select", "send"}

ClientTypes ==
    /\ sent \in [Channels -> Seq(Programs)]
    /\ start \in [Receivers -> Nat \ {0}]
    /\ client \in [pc : States, next : [Channels -> Nat \ {0}], all : BOOLEAN,
                   programs : SUBSET Programs,
                   event : (Channels \X (Nat \ {0})) \cup {NoEvent}]
    /\ delivered \in [Channels -> Seq(Nat)]

\* What was delivered comes before the event in hand, and that before the next.
ServedInTurn(ch) ==
    /\ client.next[ch] <= Len(sent[ch]) + 1
    /\ \A n \in ToSet(delivered[ch]) \cup InHand(ch) : n < client.next[ch]
    /\ \A n \in ToSet(delivered[ch]), m \in InHand(ch) : n < m

Served ==
    /\ client.pc = "away" => client.all = TRUE /\ delivered = [ch \in Channels |-> << >>]
    /\ client.pc = "send" <=> client.event # NoEvent
    /\ Connected =>
          /\ \A ch \in Channels : ServedInTurn(ch)
          /\ \A p \in Programs : Wants(p) \/ p \in unwanted

ClientInv == ClientTypes /\ Served /\ WantedAreDelivered

\* The two parts of WantedAreDelivered, for one channel.
Ordered(ch) ==
    \A i, j \in DOMAIN delivered[ch] : i < j => delivered[ch][i] < delivered[ch][j]

Complete(ch) ==
    \A i \in start[ch] .. client.next[ch] - 1 :
        Program(ch, i) \notin unwanted => i \in ToSet(delivered[ch]) \cup InHand(ch)

LEMMA WantedByChannel ==
    WantedAreDelivered <=>
        /\ \A ch \in Channels : Ordered(ch)
        /\ Connected => \A ch \in Channels \ lagged : Complete(ch)
BY Zenon DEF WantedAreDelivered, Ordered, Complete, Connected

LEMMA ClientInit == Init => ClientInv
<1> SUFFICES ASSUME Init
             PROVE  ClientInv
    OBVIOUS
<1>1. ClientTypes
    BY DEF Init, ClientTypes, Away, Channels, Receivers, States
<1>2. Served
    BY DEF Init, Served, Away, Connected
<1>3. \A ch \in Channels : Ordered(ch)
    BY DEF Init, Ordered
<1>4. ~Connected
    BY DEF Init, Away, Connected
<1> QED
    BY <1>1, <1>2, <1>3, <1>4, WantedByChannel DEF ClientInv

\* An event is sent on a channel.
LEMMA SendStepForClient ==
    ASSUME ClientInv, NEW c \in Channels, NEW p \in Programs, Send(c, p)
    PROVE  ClientInv'
<1>1. /\ sent' = [sent EXCEPT ![c] = Append(@, p)]
      /\ UNCHANGED <<client, start, delivered, unwanted, lagged>>
    BY DEF Send, history
<1>2. ClientTypes
    BY DEF ClientInv
<1>3. ASSUME NEW ch \in Channels
      PROVE  /\ Len(sent'[ch]) >= Len(sent[ch]) /\ Len(sent[ch]) \in Nat
             /\ Len(sent'[ch]) \in Nat
             /\ \A i \in 1 .. Len(sent[ch]) : sent'[ch][i] = sent[ch][i]
    <2>1. sent[ch] \in Seq(Programs)
        BY <1>2 DEF ClientTypes
    <2>2. CASE ch = c
        <3>1. sent'[ch] = Append(sent[ch], p)
            BY <1>1, <1>2, <2>2 DEF ClientTypes
        <3> QED
            BY <2>1, <3>1, AppendProperties
    <2>3. CASE ch # c
        <3>1. sent'[ch] = sent[ch]
            BY <1>1, <1>2, <2>3 DEF ClientTypes
        <3> QED
            BY <2>1, <3>1
    <2> QED
        BY <2>2, <2>3
<1>4. ClientTypes'
    BY <1>1, <1>2 DEF ClientTypes
<1>5. Connected' = Connected
    BY <1>1 DEF Connected
<1>6. Served'
    <2>1. ASSUME Connected, NEW ch \in Channels
          PROVE  ServedInTurn(ch)'
        <3>1. ServedInTurn(ch) /\ client.next[ch] \in Nat
            BY <1>2, <2>1 DEF ClientInv, Served, ClientTypes
        <3>2. client.next[ch] <= Len(sent'[ch]) + 1
            BY <1>3, <3>1 DEF ServedInTurn
        <3> QED
            BY <1>1, <3>1, <3>2, Zenon DEF ServedInTurn, InHand
    <2>2. Served
        BY DEF ClientInv
    <2> QED
        BY <1>1, <1>5, <2>1, <2>2, Zenon DEF Served, Wants
<1>7. \A ch \in Channels : Ordered(ch)'
    BY <1>1, WantedByChannel, Zenon DEF Ordered, ClientInv
<1>8. ASSUME Connected, NEW ch \in Channels \ lagged
      PROVE  Complete(ch)'
    <2>1. Complete(ch) /\ ServedInTurn(ch)
        BY <1>8, WantedByChannel DEF ClientInv, Served
    <2>2. start[ch] \in Nat \ {0} /\ client.next[ch] \in Nat
        BY <1>2 DEF ClientTypes, Receivers
    <2>3. ASSUME NEW i \in start[ch] .. client.next[ch] - 1
          PROVE  sent'[ch][i] = sent[ch][i]
        <3>1. i \in 1 .. Len(sent[ch])
            BY <1>3, <2>1, <2>2 DEF ServedInTurn
        <3> QED
            BY <1>3, <3>1
    <2>4. ASSUME NEW i \in start[ch] .. client.next[ch] - 1, sent'[ch][i] \notin unwanted
          PROVE  i \in ToSet(delivered[ch]) \cup InHand(ch)
        BY <2>1, <2>3, <2>4 DEF Complete, Program
    <2> QED
        BY <1>1, <2>4 DEF Complete, Program, InHand
<1>9. WantedAreDelivered'
    <2>1. Connected' => \A ch \in Channels \ lagged' : Complete(ch)'
        BY <1>1, <1>5, <1>8
    <2> QED
        BY <1>7, <2>1, Zenon DEF WantedAreDelivered, Ordered, Complete, Connected
<1> QED
    BY <1>4, <1>6, <1>9 DEF ClientInv

\* A step of the recorder or of the client's subscriptions: what the client has and
\* what is still to come stay, and at most more is unwanted.
LEMMA ClientStays ==
    ASSUME ClientInv, UNCHANGED <<sent, delivered>>,
           start' \in [Receivers -> Nat \ {0}],
           \A ch \in Channels : start'[ch] = start[ch] /\ (ch \in lagged => ch \in lagged'),
           ClientTypes',
           client'.pc = client.pc, client'.next = client.next, client'.event = client.event,
           client.pc = "away" => client'.all = client.all,
           unwanted \subseteq unwanted',
           Connected => \A p \in Programs : Wants(p)' \/ p \in unwanted'
    PROVE  ClientInv'
<1>1. Connected' = Connected
    BY DEF Connected
<1>2. \A ch : InHand(ch)' = InHand(ch)
    BY DEF InHand
<1>3. Served'
    <2>1. Served
        BY DEF ClientInv
    <2>2. Connected => \A ch \in Channels : ServedInTurn(ch)'
        BY <1>2, <2>1, Zenon DEF Served, ServedInTurn
    <2> QED
        BY <1>1, <2>1, <2>2, Zenon DEF Served
<1>4. \A ch \in Channels : Ordered(ch)'
    BY WantedByChannel, Zenon DEF Ordered, ClientInv
<1>5. Connected' => \A ch \in Channels \ lagged' : Complete(ch)'
    <2> SUFFICES ASSUME Connected, NEW ch \in Channels \ lagged'
                 PROVE  Complete(ch)'
        BY <1>1
    <2>1. Complete(ch)
        BY WantedByChannel DEF ClientInv
    <2> QED
        BY <1>2, <2>1 DEF Complete, Program
<1>6. WantedAreDelivered'
    BY <1>4, <1>5, Zenon DEF WantedAreDelivered, Ordered, Complete, Connected
<1> QED
    BY <1>3, <1>6 DEF ClientInv

\* What holds while the client is connected and nothing is in hand.
LEMMA NothingInHand ==
    ASSUME ClientInv, client.pc = "select", NEW ch \in Channels
    PROVE  /\ client.event = NoEvent /\ InHand(ch) = {} /\ ServedInTurn(ch)
           /\ client.next[ch] \in Nat \ {0} /\ sent[ch] \in Seq(Programs)
           /\ start[ch] \in Nat \ {0} /\ delivered[ch] \in Seq(Nat)
           /\ \A n \in ToSet(delivered[ch]) : n \in Nat /\ n < client.next[ch]
           /\ Ordered(ch) /\ (ch \notin lagged => Complete(ch))
<1>1. client.event = NoEvent /\ ServedInTurn(ch)
    BY DEF ClientInv, Served, Connected
<1>2. InHand(ch) = {}
    BY <1>1 DEF InHand, NoEvent, Channels
<1>3. /\ client.next[ch] \in Nat \ {0} /\ sent[ch] \in Seq(Programs)
      /\ start[ch] \in Nat \ {0} /\ delivered[ch] \in Seq(Nat)
    BY DEF ClientInv, ClientTypes, Receivers
<1>4. \A n \in ToSet(delivered[ch]) : n \in Nat
    BY <1>3, ElementOfSeq DEF ToSet
<1>5. Ordered(ch) /\ (ch \notin lagged => Complete(ch))
    BY WantedByChannel DEF ClientInv, Connected
<1> QED
    BY <1>1, <1>2, <1>3, <1>4, <1>5 DEF ServedInTurn

\* The client's receiver of channel c moves on to x, and takes the event it leaves in
\* hand if the client wants it; what it passes over without is lost to a lag or unwanted.
LEMMA ReceiverMoves ==
    ASSUME ClientInv, client.pc = "select", NEW c \in Channels, NEW x \in Nat,
           client.next[c] < x, x <= Len(sent[c]) + 1,
           UNCHANGED <<sent, start, delivered, unwanted>>,
           ClientTypes',
           client'.next = [client.next EXCEPT ![c] = x],
           client'.all = client.all, client'.programs = client.programs,
           \/ client'.pc = "select" /\ client'.event = NoEvent
           \/ client'.pc = "send" /\ client'.event = <<c, client.next[c]>> /\ x = client.next[c] + 1,
           lagged \subseteq lagged',
           c \notin lagged' =>
               /\ x = client.next[c] + 1
               /\ client'.pc = "select" => Program(c, client.next[c]) \in unwanted
    PROVE  ClientInv'
<1>1. /\ client.next \in [Channels -> Nat \ {0}] /\ Connected /\ Connected'
    BY DEF ClientInv, ClientTypes, Connected
<1>2. client'.next[c] = x /\ \A ch \in Channels : ch # c => client'.next[ch] = client.next[ch]
    BY <1>1
<1>3. ASSUME NEW ch \in Channels
      PROVE  InHand(ch)' = IF client'.pc = "send" /\ ch = c THEN {client.next[c]} ELSE {}
    <2>1. CASE client'.pc = "select" /\ client'.event = NoEvent
        BY <2>1 DEF InHand, NoEvent, Channels
    <2>2. CASE client'.pc = "send" /\ client'.event = <<c, client.next[c]>>
        <3>1. client'.event[1] = c /\ client'.event[2] = client.next[c]
            BY <2>2
        <3> QED
            BY <2>2, <3>1, Zenon DEF InHand
    <2> QED
        BY <2>1, <2>2
<1>4. ASSUME NEW ch \in Channels
      PROVE  ServedInTurn(ch)'
    <2>1. /\ ServedInTurn(ch) /\ client.next[ch] \in Nat
          /\ \A n \in ToSet(delivered[ch]) : n \in Nat /\ n < client.next[ch]
        BY NothingInHand
    <2>2. CASE ch = c
        <3>1. client'.next[ch] <= Len(sent[ch]) + 1
            BY <1>2, <2>2
        <3>2. \A n \in ToSet(delivered[ch]) \cup InHand(ch)' : n < x
            BY <1>3, <2>1, <2>2
        <3>3. \A n \in ToSet(delivered[ch]), m \in InHand(ch)' : n < m
            BY <1>3, <2>1, <2>2
        <3> QED
            BY <1>2, <2>2, <3>1, <3>2, <3>3 DEF ServedInTurn
    <2>3. CASE ch # c
        <3>1. InHand(ch)' = {}
            BY <1>3, <2>3
        <3>2. client'.next[ch] = client.next[ch]
            BY <1>2, <2>3
        <3> QED
            BY <2>1, <3>1, <3>2 DEF ServedInTurn
    <2> QED
        BY <2>2, <2>3
<1>5. Served'
    <2>1. client'.pc # "away" /\ (client'.pc = "send" <=> client'.event # NoEvent)
        BY DEF NoEvent, Channels
    <2>2. \A p \in Programs : Wants(p)' \/ p \in unwanted'
        BY <1>1 DEF ClientInv, Served, Wants
    <2> QED
        BY <1>4, <2>1, <2>2, Zenon DEF Served
<1>6. ASSUME NEW ch \in Channels \ lagged'
      PROVE  Complete(ch)'
    <2>1. /\ Complete(ch) /\ InHand(ch) = {} /\ client.next[ch] \in Nat
          /\ start[ch] \in Nat
        BY <1>6, NothingInHand
    <2>2. CASE ch = c
        <3> SUFFICES ASSUME NEW i \in start[c] .. x - 1, Program(c, i) \notin unwanted
                     PROVE  i \in ToSet(delivered[c]) \cup InHand(c)'
            BY <1>2, <2>2 DEF Complete, Program
        <3>1. x = client.next[c] + 1
            BY <1>6, <2>2
        <3>2. CASE i = client.next[c]
            <4>1. client'.pc = "send"
                BY <1>6, <2>2, <3>2
            <4> QED
                BY <1>3, <3>2, <4>1
        <3>3. CASE i # client.next[c]
            <4>1. i \in start[c] .. client.next[c] - 1
                BY <2>1, <2>2, <3>1, <3>3
            <4> QED
                BY <2>1, <2>2, <4>1 DEF Complete
        <3> QED
            BY <3>2, <3>3
    <2>3. CASE ch # c
        <3>1. InHand(ch)' = {} /\ client'.next[ch] = client.next[ch]
            BY <1>2, <1>3, <2>3
        <3> QED
            BY <2>1, <3>1 DEF Complete, Program
    <2> QED
        BY <2>2, <2>3
<1>7. \A ch \in Channels : Ordered(ch)'
    BY WantedByChannel, Zenon DEF Ordered, ClientInv
<1>8. WantedAreDelivered'
    BY <1>6, <1>7, Zenon DEF WantedAreDelivered, Ordered, Complete, Connected
<1> QED
    BY <1>5, <1>8 DEF ClientInv

LEMMA ForwardStep ==
    ASSUME ClientInv, NEW c \in Channels, Forward(c)
    PROVE  ClientInv'
<1> DEFINE taken == [client EXCEPT !.pc = "send", !.next[c] = @ + 1,
                                   !.event = <<c, client.next[c]>>]
           passed == [client EXCEPT !.next[c] = @ + 1]
           x == client.next[c] + 1
<1>1. /\ client.pc = "select" /\ client.next[c] \in Oldest(c) .. Len(sent[c])
      /\ UNCHANGED <<sent, start, delivered, unwanted, lagged>>
      /\ client' = IF Wants(Program(c, client.next[c])) THEN taken ELSE passed
    BY DEF Forward, history
<1>2. ClientTypes /\ client.next[c] \in Nat \ {0} /\ client.next \in [Channels -> Nat \ {0}]
    BY DEF ClientInv, ClientTypes
<1>3. /\ taken.pc = "send" /\ taken.event = <<c, client.next[c]>>
      /\ taken.next = [client.next EXCEPT ![c] = x]
      /\ taken.all = client.all /\ taken.programs = client.programs
    BY <1>2 DEF ClientTypes
<1>4. /\ passed.pc = client.pc /\ passed.event = client.event
      /\ passed.next = [client.next EXCEPT ![c] = x]
      /\ passed.all = client.all /\ passed.programs = client.programs
    BY <1>2 DEF ClientTypes
<1>5. [client.next EXCEPT ![c] = x] \in [Channels -> Nat \ {0}]
    BY <1>2
<1>6. ClientTypes'
    <2>1. <<c, client.next[c]>> \in Channels \X (Nat \ {0})
        BY <1>2
    <2>2. CASE client' = taken
        BY <1>1, <1>2, <1>5, <2>1, <2>2 DEF ClientTypes, States
    <2>3. CASE client' = passed
        BY <1>1, <1>2, <1>5, <2>3 DEF ClientTypes, States
    <2> QED
        BY <1>1, <2>2, <2>3
<1>7. Program(c, client.next[c]) \in Programs
    <2>1. sent[c] \in Seq(Programs) /\ client.next[c] \in 1 .. Len(sent[c])
        BY <1>1, <1>2 DEF ClientTypes
    <2> QED
        BY <2>1, ElementOfSeq DEF Program
<1>8. ~Wants(Program(c, client.next[c])) => Program(c, client.next[c]) \in unwanted
    BY <1>1, <1>7 DEF ClientInv, Served, Connected
<1>9. x \in Nat /\ client.next[c] < x /\ x <= Len(sent[c]) + 1
    BY <1>1, <1>2
<1>10. client.event = NoEvent
    BY <1>1, NothingInHand
<1> HIDE DEF taken, passed, x
<1>11. CASE Wants(Program(c, client.next[c]))
    <2>1. client' = taken
        BY <1>1, <1>11
    <2>2. x = client.next[c] + 1
        BY DEF x
    <2>3. client'.pc = "send"
        BY <1>3, <2>1
    <2> QED
        BY <1>1, <1>3, <1>6, <1>9, <2>1, <2>2, <2>3, ReceiverMoves
<1>12. CASE ~Wants(Program(c, client.next[c]))
    <2>1. client' = passed
        BY <1>1, <1>12
    <2>2. x = client.next[c] + 1
        BY DEF x
    <2> QED
        BY <1>1, <1>4, <1>6, <1>8, <1>9, <1>10, <1>12, <2>1, <2>2, ReceiverMoves
<1> QED
    BY <1>11, <1>12

LEMMA ClientLagsStep ==
    ASSUME ClientInv, NEW c \in Channels, ClientLags(c)
    PROVE  ClientInv'
<1>1. /\ client.pc = "select" /\ client.next[c] < Oldest(c)
      /\ client' = [client EXCEPT !.next[c] = Oldest(c)]
      /\ lagged' = lagged \cup {c}
      /\ UNCHANGED <<sent, start, delivered, unwanted>>
    BY DEF ClientLags
<1>2. /\ ClientTypes /\ client.next \in [Channels -> Nat \ {0}]
      /\ Oldest(c) \in Nat \ {0} /\ Oldest(c) <= Len(sent[c]) + 1
    BY SizesArePositive DEF ClientInv, ClientTypes, Oldest
<1>3. /\ client'.pc = "select" /\ client'.event = client.event
      /\ client'.next = [client.next EXCEPT ![c] = Oldest(c)]
      /\ client'.all = client.all /\ client'.programs = client.programs
    BY <1>1, <1>2 DEF ClientTypes
<1>4. [client.next EXCEPT ![c] = Oldest(c)] \in [Channels -> Nat \ {0}]
    BY <1>2
<1>5. ClientTypes'
    BY <1>1, <1>2, <1>4 DEF ClientTypes, States
<1>6. client'.event = NoEvent
    BY <1>1, <1>3, NothingInHand
<1>7. c \in lagged' /\ lagged \subseteq lagged'
    BY <1>1
<1> QED
    BY <1>1, <1>2, <1>3, <1>5, <1>6, <1>7, ReceiverMoves

LEMMA SendToClientStep ==
    ASSUME ClientInv, SendToClient
    PROVE  ClientInv'
<1>1. /\ client.pc = "send"
      /\ delivered' = [delivered EXCEPT ![client.event[1]] = Append(@, client.event[2])]
      /\ client' = [client EXCEPT !.pc = "select", !.event = NoEvent]
      /\ UNCHANGED <<sent, start, unwanted, lagged>>
    BY DEF SendToClient
<1>2. ClientTypes /\ client.event # NoEvent
    BY <1>1 DEF ClientInv, Served
<1>3. PICK c \in Channels, n \in Nat \ {0} : client.event = <<c, n>>
    BY <1>2 DEF ClientTypes
<1>4. /\ client'.pc = "select" /\ client'.event = NoEvent /\ client'.next = client.next
      /\ client'.all = client.all /\ client'.programs = client.programs
    BY <1>1, <1>2 DEF ClientTypes
<1>5. /\ delivered'[c] = Append(delivered[c], n) /\ delivered[c] \in Seq(Nat)
      /\ \A ch \in Channels : ch # c => delivered'[ch] = delivered[ch]
      /\ delivered' \in [Channels -> Seq(Nat)]
    <2>1. delivered' = [delivered EXCEPT ![c] = Append(@, n)]
        BY <1>1, <1>3
    <2> QED
        BY <1>2, <2>1 DEF ClientTypes
<1>6. ToSet(delivered'[c]) = ToSet(delivered[c]) \cup {n}
    <2>1. /\ DOMAIN delivered'[c] = 1 .. Len(delivered[c]) + 1
          /\ DOMAIN delivered[c] = 1 .. Len(delivered[c]) /\ Len(delivered[c]) \in Nat
          /\ \A i \in 1 .. Len(delivered[c]) : delivered'[c][i] = delivered[c][i]
          /\ delivered'[c][Len(delivered[c]) + 1] = n
        BY <1>5
    <2>2. ASSUME NEW m \in ToSet(delivered'[c])
          PROVE  m \in ToSet(delivered[c]) \cup {n}
        <3>1. PICK i \in 1 .. Len(delivered[c]) + 1 : m = delivered'[c][i]
            BY <2>1 DEF ToSet
        <3>2. CASE i = Len(delivered[c]) + 1
            BY <2>1, <3>1, <3>2
        <3>3. CASE i # Len(delivered[c]) + 1
            <4>1. i \in DOMAIN delivered[c] /\ m = delivered[c][i]
                BY <2>1, <3>1, <3>3
            <4> QED
                BY <4>1 DEF ToSet
        <3> QED
            BY <3>2, <3>3
    <2>3. ASSUME NEW m \in ToSet(delivered[c])
          PROVE  m \in ToSet(delivered'[c])
        <3>1. PICK i \in DOMAIN delivered[c] : m = delivered[c][i]
            BY DEF ToSet
        <3>2. i \in DOMAIN delivered'[c] /\ m = delivered'[c][i]
            BY <2>1, <3>1
        <3> QED
            BY <3>2 DEF ToSet
    <2>4. n \in ToSet(delivered'[c])
        <3>1. Len(delivered[c]) + 1 \in DOMAIN delivered'[c]
            BY <2>1
        <3> QED
            BY <2>1, <3>1 DEF ToSet
    <2> QED
        BY <2>2, <2>3, <2>4
<1>7. InHand(c) = {n} /\ \A ch \in Channels : ch # c => InHand(ch) = {}
    BY <1>3 DEF InHand
<1>8. \A ch \in Channels : InHand(ch)' = {}
    BY <1>4 DEF InHand, NoEvent, Channels
<1>9. \A ch \in Channels : ToSet(delivered'[ch]) = ToSet(delivered[ch]) \cup InHand(ch)
    BY <1>5, <1>6, <1>7
<1>10. Connected /\ Connected'
    BY <1>1, <1>4 DEF Connected
<1>11. ClientTypes'
    BY <1>1, <1>2, <1>5 DEF ClientTypes, States
<1>12. Served'
    <2>1. \A ch \in Channels : ServedInTurn(ch)'
        <3>1. \A ch \in Channels : ServedInTurn(ch)
            BY <1>10 DEF ClientInv, Served
        <3> QED
            BY <1>1, <1>4, <1>8, <1>9, <3>1 DEF ServedInTurn
    <2>2. \A p \in Programs : Wants(p)' \/ p \in unwanted'
        BY <1>1, <1>4, <1>10 DEF ClientInv, Served, Wants
    <2> QED
        BY <1>4, <2>1, <2>2, Zenon DEF Served
<1>13. ASSUME NEW ch \in Channels
       PROVE  Ordered(ch)'
    <2>1. Ordered(ch)
        BY WantedByChannel DEF ClientInv
    <2>2. CASE ch # c
        BY <1>5, <2>1, <2>2 DEF Ordered
    <2>3. CASE ch = c
        <3> DEFINE k == Len(delivered[c])
        <3>1. /\ DOMAIN delivered'[c] = 1 .. k + 1 /\ k \in Nat /\ DOMAIN delivered[c] = 1 .. k
              /\ \A i \in 1 .. k : delivered'[c][i] = delivered[c][i]
              /\ delivered'[c][k + 1] = n
            BY <1>5
        <3>2. \A i \in 1 .. k : delivered[c][i] < n
            <4>1. \A m \in ToSet(delivered[c]) : m < n
                BY <1>7, <1>10 DEF ClientInv, Served, ServedInTurn
            <4> QED
                BY <3>1, <4>1 DEF ToSet
        <3> HIDE DEF k
        <3> SUFFICES ASSUME NEW i \in 1 .. k + 1, NEW j \in 1 .. k + 1, i < j
                     PROVE  delivered'[c][i] < delivered'[c][j]
            BY <2>3, <3>1 DEF Ordered
        <3>3. i \in 1 .. k
            BY <3>1
        <3>4. CASE j = k + 1
            BY <3>1, <3>2, <3>3, <3>4
        <3>5. CASE j # k + 1
            <4>1. j \in 1 .. k
                BY <3>1, <3>5
            <4> QED
                BY <2>1, <2>3, <3>1, <3>3, <4>1 DEF Ordered
        <3> QED
            BY <3>4, <3>5
    <2> QED
        BY <2>2, <2>3
<1>14. ASSUME NEW ch \in Channels \ lagged'
       PROVE  Complete(ch)'
    <2>1. Complete(ch)
        BY <1>1, <1>10, <1>14, WantedByChannel DEF ClientInv
    <2> QED
        BY <1>1, <1>4, <1>9, <2>1 DEF Complete, Program
<1>15. WantedAreDelivered'
    BY <1>13, <1>14, Zenon DEF WantedAreDelivered, Ordered, Complete, Connected
<1> QED
    BY <1>11, <1>12, <1>15 DEF ClientInv

LEMMA ConnectStep ==
    ASSUME ClientInv, Connect
    PROVE  ClientInv'
<1>1. /\ client.pc = "away"
      /\ client' = [client EXCEPT !.pc = "select", !.next = [ch \in Channels |-> Tail1(ch)]]
      /\ start' = [r \in Receivers |-> IF r \in Channels THEN Tail1(r) ELSE start[r]]
      /\ UNCHANGED <<sent, lagged, delivered, unwanted>>
    BY DEF Connect
<1>2. ClientTypes
    BY DEF ClientInv
<1>3. \A ch \in Channels : Tail1(ch) \in Nat \ {0} /\ Tail1(ch) = Len(sent[ch]) + 1
    BY <1>2 DEF ClientTypes, Tail1
<1>4. /\ client'.pc = "select" /\ client'.event = client.event
      /\ client'.next = [ch \in Channels |-> Tail1(ch)]
      /\ client'.all = client.all /\ client'.programs = client.programs
    BY <1>1, <1>2 DEF ClientTypes
<1>5. /\ client.event = NoEvent /\ delivered = [ch \in Channels |-> << >>]
    BY <1>1 DEF ClientInv, Served
<1>6. \A ch \in Channels : InHand(ch)' = {} /\ delivered'[ch] = << >> /\ ToSet(delivered'[ch]) = {}
    BY <1>1, <1>4, <1>5 DEF InHand, NoEvent, Channels, ToSet
<1>7. ClientTypes'
    <2>1. [ch \in Channels |-> Tail1(ch)] \in [Channels -> Nat \ {0}]
        BY <1>3
    <2>2. start' \in [Receivers -> Nat \ {0}]
        BY <1>1, <1>2, <1>3 DEF ClientTypes
    <2> QED
        BY <1>1, <1>2, <2>1, <2>2 DEF ClientTypes, States
<1>8. Served'
    <2>1. \A ch \in Channels : ServedInTurn(ch)'
        <3>1. \A ch \in Channels : client'.next[ch] <= Len(sent'[ch]) + 1
            BY <1>1, <1>3, <1>4
        <3> QED
            BY <1>6, <3>1 DEF ServedInTurn
    <2>2. \A p \in Programs : Wants(p)'
        BY <1>1, <1>4 DEF ClientInv, Served, Wants
    <2> QED
        BY <1>4, <1>5, <2>1, <2>2, Zenon DEF Served
<1>9. \A ch \in Channels : Ordered(ch)'
    BY <1>6 DEF Ordered
<1>10. ASSUME NEW ch \in Channels \ lagged'
       PROVE  Complete(ch)'
    <2>1. start'[ch] = Tail1(ch) /\ client'.next[ch] = Tail1(ch) /\ Tail1(ch) \in Nat
        BY <1>1, <1>3, <1>4 DEF Receivers
    <2>2. start'[ch] .. client'.next[ch] - 1 = {}
        BY <2>1
    <2> QED
        BY <2>2 DEF Complete
<1>11. WantedAreDelivered'
    BY <1>9, <1>10, Zenon DEF WantedAreDelivered, Ordered, Complete, Connected
<1> QED
    BY <1>7, <1>8, <1>11 DEF ClientInv

LEMMA DisconnectStep ==
    ASSUME ClientInv, Disconnect
    PROVE  ClientInv'
<1>1. client' = [Away EXCEPT !.pc = "gone"] /\ UNCHANGED <<sent, start, delivered>>
    BY DEF Disconnect, history
<1>2. client'.pc = "gone" /\ client'.event = NoEvent
    BY <1>1 DEF Away
<1>3. ClientTypes'
    <2>1. ClientTypes
        BY DEF ClientInv
    <2>2. client' = [pc |-> "gone", next |-> [ch \in Channels |-> 1], all |-> TRUE,
                     programs |-> {}, event |-> NoEvent]
        BY <1>1 DEF Away
    <2>3. [ch \in Channels |-> 1] \in [Channels -> Nat \ {0}]
        OBVIOUS
    <2>4. /\ client'.pc \in States /\ client'.next \in [Channels -> Nat \ {0}]
          /\ client'.all \in BOOLEAN /\ client'.programs \in SUBSET Programs
          /\ client'.event \in (Channels \X (Nat \ {0})) \cup {NoEvent}
        BY <2>2, <2>3 DEF States
    <2>5. client' \in [pc : States, next : [Channels -> Nat \ {0}], all : BOOLEAN,
                      programs : SUBSET Programs,
                      event : (Channels \X (Nat \ {0})) \cup {NoEvent}]
        BY <2>2, <2>4
    <2> QED
        BY <1>1, <2>1, <2>5 DEF ClientTypes
<1>4. Served' /\ ~Connected'
    BY <1>2 DEF Served, Connected
<1>5. \A ch \in Channels : Ordered(ch)'
    BY <1>1, WantedByChannel, Zenon DEF Ordered, ClientInv
<1>6. WantedAreDelivered'
    BY <1>4, <1>5, Zenon DEF WantedAreDelivered, Ordered, Connected
<1> QED
    BY <1>3, <1>4, <1>6 DEF ClientInv

LEMMA CommandStep ==
    ASSUME ClientInv, NEW all \in BOOLEAN, NEW programs \in SUBSET Programs,
           Command(all, programs)
    PROVE  ClientInv'
<1>1. /\ client.pc = "select"
      /\ client' = [client EXCEPT !.all = all, !.programs = programs]
      /\ unwanted' = unwanted \cup {p \in Programs : ~all /\ p \notin programs}
      /\ UNCHANGED <<sent, lagged, start, delivered>>
    BY DEF Command
<1>2. ClientTypes
    BY DEF ClientInv
<1>3. /\ client'.pc = client.pc /\ client'.next = client.next /\ client'.event = client.event
      /\ client'.all = all /\ client'.programs = programs
    BY <1>1, <1>2 DEF ClientTypes
<1>4. ClientTypes'
    BY <1>1, <1>2 DEF ClientTypes
<1>5. \A p \in Programs : Wants(p)' \/ p \in unwanted'
    BY <1>1, <1>3 DEF Wants
<1>6. start' \in [Receivers -> Nat \ {0}] /\ unwanted \subseteq unwanted'
    BY <1>1, <1>4 DEF ClientTypes
<1> QED
    BY <1>1, <1>3, <1>4, <1>5, <1>6, ClientStays

\* The recorder's steps, and steps of nobody.
LEMMA ClientIsLeftAlone ==
    ASSUME ClientInv, UNCHANGED <<sent, client, delivered, unwanted>>,
           lagged \subseteq lagged',
           start' \in [Receivers -> Nat \ {0}],
           \A ch \in Channels : start'[ch] = start[ch]
    PROVE  ClientInv'
<1>1. ClientTypes'
    BY DEF ClientInv, ClientTypes
<1>2. Connected => \A p \in Programs : Wants(p)' \/ p \in unwanted'
    BY DEF ClientInv, Served, Wants
<1> QED
    BY <1>1, <1>2, ClientStays

-----------------------------------------------------------------------------
(* The results *)

FeedInv == RecorderInv /\ ClientInv

LEMMA FeedNext == FeedInv /\ [Next]_vars => FeedInv'
<1> SUFFICES ASSUME FeedInv, [Next]_vars
             PROVE  FeedInv'
    OBVIOUS
<1>1. /\ RecorderInv /\ ClientInv
      /\ sent \in [Channels -> Seq(Programs)] /\ start \in [Receivers -> Nat \ {0}]
      /\ start \in [Receivers -> Nat]
    BY DEF FeedInv, ClientInv, ClientTypes, RecorderInv, Types
<1>2. "recorder" \in Receivers /\ "recorder" \notin Channels /\ Channels \subseteq Receivers
    BY DEF Receivers, Channels
<1>3. ASSUME NEW c \in Channels, NEW p \in Programs, Send(c, p)
      PROVE  FeedInv'
    <2>1. ClientInv' /\ sent' \in [Channels -> Seq(Programs)]
        BY <1>1, <1>3, SendStepForClient DEF ClientInv, ClientTypes
    <2>2. recorder' = recorder /\ recent' = recent /\ start' = start /\ lagged' = lagged
        BY <1>3 DEF Send, history
    <2> QED
        BY <1>1, <2>1, <2>2, RecorderIsLeftAlone DEF FeedInv
<1>4. ASSUME NEW c \in Channels, Forward(c) \/ ClientLags(c)
      PROVE  FeedInv'
    <2>1. ClientInv'
        BY <1>1, <1>4, ForwardStep, ClientLagsStep
    <2>2. /\ UNCHANGED <<sent, recorder, recent, start>>
          /\ "recorder" \in lagged => "recorder" \in lagged'
        BY <1>4 DEF Forward, ClientLags, history
    <2> QED
        BY <1>1, <2>1, <2>2, RecorderIsLeftAlone DEF FeedInv
<1>5. CASE SendToClient \/ Disconnect
    <2>1. ClientInv'
        BY <1>1, <1>5, SendToClientStep, DisconnectStep
    <2>2. UNCHANGED <<sent, recorder, recent, start, lagged>>
        BY <1>5 DEF SendToClient, Disconnect, history
    <2> QED
        BY <1>1, <2>1, <2>2, RecorderIsLeftAlone DEF FeedInv
<1>6. CASE Connect
    <2>1. ClientInv'
        BY <1>1, <1>6, ConnectStep
    <2>2. UNCHANGED <<sent, recorder, recent, lagged>>
        BY <1>6 DEF Connect
    <2>3. start' \in [Receivers -> Nat \ {0}]
        BY <2>1 DEF ClientInv, ClientTypes
    <2>4. start'["recorder"] = start["recorder"] /\ start' \in [Receivers -> Nat]
        BY <1>2, <1>6, <2>3 DEF Connect
    <2> QED
        BY <1>1, <2>1, <2>2, <2>4, RecorderIsLeftAlone DEF FeedInv
<1>7. ASSUME NEW ps \in SUBSET Programs, Subscribe(ps) \/ Unsubscribe(ps)
      PROVE  FeedInv'
    <2>1. client.programs \in SUBSET Programs /\ client.all \in BOOLEAN
        BY <1>1 DEF ClientInv, ClientTypes
    <2>2. PICK all \in BOOLEAN, programs \in SUBSET Programs : Command(all, programs)
        <3>1. CASE Subscribe(ps)
            BY <2>1, <3>1 DEF Subscribe
        <3>2. CASE Unsubscribe(ps)
            <4>1. /\ client.programs \ ps \in SUBSET Programs
                  /\ (client.all \/ client.programs \ ps = {}) \in BOOLEAN
                BY <2>1
            <4> QED
                BY <3>2, <4>1, Zenon DEF Unsubscribe
        <3> QED
            BY <1>7, <3>1, <3>2
    <2>3. ClientInv'
        BY <1>1, <2>2, CommandStep
    <2>4. UNCHANGED <<sent, recorder, recent, start, lagged>>
        BY <2>2 DEF Command
    <2> QED
        BY <1>1, <2>3, <2>4, RecorderIsLeftAlone DEF FeedInv
<1>8. CASE StartRecorder
    <2>1. RecorderInv'
        BY <1>1, <1>8, StartRecorderStep
    <2>2. /\ start' = [start EXCEPT !["recorder"] = Tail1("alert")]
          /\ UNCHANGED <<sent, client, delivered, unwanted, lagged>>
        BY <1>8 DEF StartRecorder
    <2>3. Tail1("alert") \in Nat \ {0}
        BY <1>1 DEF Tail1, Channels
    <2>4. /\ start' \in [Receivers -> Nat \ {0}]
          /\ \A ch \in Channels : start'[ch] = start[ch]
        BY <1>1, <1>2, <2>2, <2>3
    <2> QED
        BY <1>1, <2>1, <2>2, <2>4, ClientIsLeftAlone DEF FeedInv
<1>9. CASE Recorder
    <2>1. RecorderInv'
        BY <1>1, <1>9, RecvAlertStep, RecorderLagsStep, StoreAlertStep DEF Recorder
    <2>2. /\ UNCHANGED <<sent, client, delivered, unwanted, start>>
          /\ lagged \subseteq lagged'
        BY <1>9 DEF Recorder, RecvAlert, RecorderLags, StoreAlert, history
    <2> QED
        BY <1>1, <2>1, <2>2, ClientIsLeftAlone DEF FeedInv
<1>10. CASE UNCHANGED vars
    BY <1>1, <1>10, ClientIsLeftAlone, RecorderIsLeftAlone DEF FeedInv, vars, history
<1> QED
    BY <1>3, <1>4, <1>5, <1>6, <1>7, <1>8, <1>9, <1>10 DEF Next

\* The recorder holds the newest of what it has received (run_alert_recorder), and
\* what a client has got of a channel ends where its receiver stands (handle_ws).
THEOREM FeedInvariant == Spec => []FeedInv
<1>1. Init => FeedInv
    BY RecorderInit, ClientInit DEF FeedInv
<1> QED
    BY <1>1, FeedNext, PTL DEF Spec

\* A recorder that has not lagged keeps exactly the newest alerts, in order, whatever
\* was sent while it waited for the lock of its buffer (run_alert_recorder).
THEOREM RecorderKeepsTheTail == Spec => []RecentIsTheTail
<1>1. FeedInv => RecentIsTheTail
    BY DEF FeedInv, RecorderInv
<1> QED
    BY <1>1, FeedInvariant, PTL

\* handle_ws delivers the events of a channel in order and none twice, and without a lag
\* misses none of a program that the client has wanted all along.
THEOREM WantedArrive == Spec => []WantedAreDelivered
<1>1. FeedInv => WantedAreDelivered
    BY DEF FeedInv, ClientInv
<1> QED
    BY <1>1, FeedInvariant, PTL
=============================================================================
