----------------------------- MODULE IngestProofs -----------------------------
(***************************************************************************)
(* IngestClient implements Delivery, accounts for every notification, and  *)
(* attributes each transaction to one program, for any programs, any size  *)
(* of the channel, and any troubles of the socket and of the node.         *)
(***************************************************************************)
EXTENDS IngestClient, SequenceTheorems, FiniteSetTheorems, WellFoundedInduction, TLAPS

-----------------------------------------------------------------------------
(* The invariant *)

Messages == [kind : {"log", "other", "close", "error"}, n : Nat]
Hands == [pc : {"idle", "fetch", "send"}, n : Nat, attempts : Nat]
Notices == [tx : Nat, via : Nat]

Types ==
    /\ subs \in 0 .. Len(ProgramIds)
    /\ inbox \in Seq(Messages)
    /\ hand \in Hands
    /\ landed \in Seq(Shapes)
    /\ notices \in Seq(Notices)
    /\ handed \in Seq(Nat)

Logs(q) == {i \in DOMAIN q : q[i].kind = "log"}

\* The notifications of the queue are in their order, all above low and up to high.
Between(q, low, high) ==
    /\ \A i \in Logs(q) : low < q[i].n /\ q[i].n <= high
    /\ \A i, j \in Logs(q) : i < j => q[i].n < q[j].n

\* What is handed on comes before what is in hand, and that before what waits.
InTurn ==
    /\ Promise!Newest \in 0 .. Len(notices)
    /\ Between(inbox, Promise!Newest, Len(notices))
    /\ hand.pc # "idle" =>
          /\ hand.n \in Promise!Newest + 1 .. Len(notices)
          /\ Between(inbox, hand.n, Len(notices))

IngestInv == Types /\ InTurn

-----------------------------------------------------------------------------
(* Queues *)

LEMMA NothingIsBetween ==
    ASSUME NEW low, NEW high
    PROVE  Between(<< >>, low, high)
BY DEF Between, Logs

LEMMA LogsAreNumbered ==
    ASSUME NEW q \in Seq(Messages), NEW i \in Logs(q)
    PROVE  q[i].n \in Nat
<1>1. q[i] \in Messages
    BY ElementOfSeq DEF Logs
<1> QED
    BY <1>1 DEF Messages

LEMMA TailIsBetween ==
    ASSUME NEW q \in Seq(Messages), NEW low \in Nat, NEW high \in Nat,
           Between(q, low, high), q # << >>
    PROVE  /\ Tail(q) \in Seq(Messages) /\ Head(q) \in Messages
           /\ Between(Tail(q), low, high)
           /\ Head(q).kind = "log" =>
                 /\ Head(q).n \in low + 1 .. high
                 /\ Between(Tail(q), Head(q).n, high)
<1>1. /\ Tail(q) \in Seq(Messages) /\ Head(q) \in Messages /\ Head(q) = q[1]
      /\ Len(q) \in Nat /\ 1 \in DOMAIN q /\ DOMAIN q = 1 .. Len(q)
      /\ DOMAIN Tail(q) = 1 .. Len(q) - 1
      /\ \A i \in 1 .. Len(q) - 1 : Tail(q)[i] = q[i + 1]
    BY HeadTailProperties
<1>2. \A i \in Logs(Tail(q)) : i + 1 \in Logs(q) /\ Tail(q)[i] = q[i + 1] /\ i \in Nat
    BY <1>1 DEF Logs
<1>3. \A i \in Logs(q) : q[i].n \in Nat
    BY LogsAreNumbered
<1>4. Between(Tail(q), low, high)
    <2>1. \A i \in Logs(Tail(q)) : low < Tail(q)[i].n /\ Tail(q)[i].n <= high
        BY <1>2, Zenon DEF Between
    <2>2. \A i, j \in Logs(Tail(q)) : i < j => i + 1 < j + 1
        BY <1>2
    <2>3. \A i, j \in Logs(Tail(q)) : i < j => Tail(q)[i].n < Tail(q)[j].n
        BY <1>2, <2>2, Zenon DEF Between
    <2> QED
        BY <2>1, <2>3, Zenon DEF Between
<1>5. ASSUME q[1].kind = "log"
      PROVE  q[1].n \in low + 1 .. high /\ Between(Tail(q), q[1].n, high)
    <2>1. 1 \in Logs(q)
        BY <1>1, <1>5 DEF Logs
    <2>2. q[1].n \in low + 1 .. high
        BY <1>3, <2>1 DEF Between
    <2>3. \A i \in Logs(Tail(q)) : 1 < i + 1
        BY <1>1 DEF Logs
    <2>4. \A i \in Logs(Tail(q)) : q[1].n < Tail(q)[i].n
        BY <1>2, <2>1, <2>3 DEF Between
    <2>5. Between(Tail(q), q[1].n, high)
        BY <1>4, <2>4 DEF Between
    <2> QED
        BY <2>2, <2>5
<1> QED
    BY <1>1, <1>4, <1>5

\* A break of the socket keeps a prefix, and adds no notification.
LEMMA CutIsBetween ==
    ASSUME NEW q \in Seq(Messages), NEW low, NEW high, Between(q, low, high),
           NEW kept \in 0 .. Len(q), NEW m \in Messages, m.kind # "log"
    PROVE  /\ Append(SubSeq(q, 1, kept), m) \in Seq(Messages)
           /\ Between(Append(SubSeq(q, 1, kept), m), low, high)
<1> DEFINE r == Append(SubSeq(q, 1, kept), m)
<1>1. /\ SubSeq(q, 1, kept) \in Seq(Messages) /\ Len(SubSeq(q, 1, kept)) = kept
      /\ \A i \in 1 .. kept : SubSeq(q, 1, kept)[i] = q[i]
    <2>1. 1 \in Int /\ kept \in Int /\ \A i \in 1 .. kept : q[i] \in Messages
        BY ElementOfSeq
    <2>2. /\ SubSeq(q, 1, kept) \in Seq(Messages)
          /\ Len(SubSeq(q, 1, kept)) = IF 1 <= kept THEN kept - 1 + 1 ELSE 0
          /\ \A i \in 1 .. kept - 1 + 1 : SubSeq(q, 1, kept)[i] = q[1 + i - 1]
        BY <2>1, SubSeqProperties
    <2> QED
        BY <2>2
<1>2. /\ r \in Seq(Messages) /\ DOMAIN r = 1 .. kept + 1
      /\ \A i \in 1 .. kept : r[i] = q[i]
      /\ r[kept + 1] = m
    BY <1>1
<1> HIDE DEF r
<1>3. \A i \in Logs(r) : i \in Logs(q) /\ r[i] = q[i]
    <2> SUFFICES ASSUME NEW i \in Logs(r)
                 PROVE  i \in Logs(q) /\ r[i] = q[i]
        OBVIOUS
    <2>1. i \in 1 .. kept + 1 /\ r[i].kind = "log"
        BY <1>2 DEF Logs
    <2>2. i # kept + 1
        BY <1>2, <2>1
    <2>3. i \in 1 .. kept /\ i \in DOMAIN q
        BY <2>1, <2>2
    <2> QED
        BY <1>2, <2>1, <2>3 DEF Logs
<1>4. Between(r, low, high)
    BY <1>3 DEF Between
<1> QED
    BY <1>2, <1>4 DEF r

\* New notifications are numbered on from the last.
LEMMA NewIsBetween ==
    ASSUME NEW q \in Seq(Messages), NEW low \in Nat, NEW high \in Nat, low <= high,
           Between(q, low, high), NEW r \in Seq(Messages),
           \A k \in 1 .. Len(r) : r[k].n = high + k
    PROVE  /\ q \o r \in Seq(Messages)
           /\ Between(q \o r, low, high + Len(r))
<1>1. /\ q \o r \in Seq(Messages) /\ Len(q) \in Nat /\ Len(r) \in Nat
      /\ DOMAIN (q \o r) = 1 .. Len(q) + Len(r)
      /\ \A i \in 1 .. Len(q) + Len(r) :
            (q \o r)[i] = IF i <= Len(q) THEN q[i] ELSE r[i - Len(q)]
    BY ConcatProperties
<1>2. ASSUME NEW i \in Logs(q \o r)
      PROVE  \/ i \in Logs(q) /\ (q \o r)[i] = q[i] /\ i <= Len(q)
             \/ i > Len(q) /\ (q \o r)[i].n = high + (i - Len(q)) /\ i - Len(q) \in 1 .. Len(r)
    <2>1. i \in 1 .. Len(q) + Len(r) /\ (q \o r)[i].kind = "log"
        BY <1>1 DEF Logs
    <2>2. CASE i <= Len(q)
        <3>1. i \in DOMAIN q /\ (q \o r)[i] = q[i]
            BY <1>1, <2>1, <2>2
        <3> QED
            BY <2>1, <2>2, <3>1 DEF Logs
    <2>3. CASE i > Len(q)
        <3>1. i - Len(q) \in 1 .. Len(r) /\ (q \o r)[i] = r[i - Len(q)]
            BY <1>1, <2>1, <2>3
        <3> QED
            BY <2>3, <3>1
    <2> QED
        BY <1>1, <2>1, <2>2, <2>3
<1>3. \A i \in Logs(q) : q[i].n \in Nat
    BY LogsAreNumbered
<1> DEFINE s == q \o r
<1>4. \A i \in Logs(s) : i \in 1 .. Len(q) + Len(r)
    BY <1>1 DEF Logs
<1> HIDE DEF s
<1>5. ASSUME NEW i \in Logs(s)
      PROVE  low < s[i].n /\ s[i].n <= high + Len(r)
    <2>1. CASE i \in Logs(q) /\ s[i] = q[i]
        BY <1>1, <1>3, <2>1 DEF Between
    <2>2. CASE s[i].n = high + (i - Len(q)) /\ i - Len(q) \in 1 .. Len(r)
        BY <1>1, <1>4, <2>2
    <2> QED
        BY <1>2, <2>1, <2>2 DEF s
<1>6. ASSUME NEW i \in Logs(s), NEW j \in Logs(s), i < j
      PROVE  s[i].n < s[j].n
    <2>1. CASE i \in Logs(q) /\ s[i] = q[i] /\ j \in Logs(q) /\ s[j] = q[j]
        BY <1>6, <2>1 DEF Between
    <2>2. CASE i \in Logs(q) /\ s[i] = q[i] /\ s[j].n = high + (j - Len(q))
                 /\ j - Len(q) \in 1 .. Len(r)
        BY <1>1, <1>3, <1>4, <2>2 DEF Between
    <2>3. CASE s[i].n = high + (i - Len(q)) /\ s[j].n = high + (j - Len(q))
        BY <1>1, <1>4, <1>6, <2>3
    <2>4. i > Len(q) => j > Len(q)
        BY <1>1, <1>4, <1>6
    <2>5. j > Len(q) => ~(j <= Len(q))
        BY <1>1, <1>4
    <2> QED
        BY <1>2, <2>1, <2>2, <2>3, <2>4, <2>5 DEF s
<1> QED
    BY <1>1, <1>5, <1>6 DEF Between, s

-----------------------------------------------------------------------------
(* The steps *)

LEMMA IngestInit == Init => IngestInv /\ Promise!Init
<1> SUFFICES ASSUME Init
             PROVE  IngestInv /\ Promise!Init
    OBVIOUS
<1>1. Types
    BY ConfiguredArePrograms DEF Init, Types, Hands, Idle
<1>2. /\ Promise!Newest = 0 /\ Len(notices) = 0
      /\ inbox = << >> /\ hand.pc = "idle"
    BY DEF Init, Idle, Promise!Newest
<1>3. InTurn
    BY <1>2, NothingIsBetween DEF InTurn
<1>4. Promise!Init
    BY DEF Init, Promise!Init
<1> QED
    BY <1>1, <1>3, <1>4 DEF IngestInv

\* A step that reads nothing from the socket, but may lose it.
LEMMA QuietStep ==
    ASSUME IngestInv, UNCHANGED <<landed, notices, handed>>,
           subs' \in 0 .. Len(ProgramIds),
           inbox' = inbox \/ inbox' = << >>,
           \/ hand' = hand
           \/ hand' = Idle
           \/ hand.pc # "idle" /\ hand' \in Hands /\ hand'.n = hand.n
    PROVE  IngestInv' /\ UNCHANGED Promise!vars
<1>1. Types'
    <2>1. Types
        BY DEF IngestInv
    <2>2. inbox' \in Seq(Messages)
        <3>1. inbox \in Seq(Messages)
            BY <2>1 DEF Types
        <3> QED
            BY <3>1, EmptySeq, Zenon
    <2>3. Idle \in Hands
        BY DEF Idle, Hands
    <2>4. hand' \in Hands
        BY <2>1, <2>3 DEF Types
    <2> QED
        BY <2>1, <2>2, <2>4 DEF Types
<1>2. Promise!Newest' = Promise!Newest /\ Len(notices') = Len(notices)
    BY DEF Promise!Newest
<1>3. \A x, y : Between(inbox, x, y) => Between(inbox', x, y)
    BY NothingIsBetween
<1>4. Promise!Newest \in 0 .. Len(notices) /\ Between(inbox', Promise!Newest, Len(notices))
    BY <1>3 DEF IngestInv, InTurn
<1>5. hand'.pc # "idle" => hand.pc # "idle" /\ hand'.n = hand.n
    BY DEF Idle
<1>6. hand.pc # "idle" => /\ hand.n \in Promise!Newest + 1 .. Len(notices)
                          /\ Between(inbox', hand.n, Len(notices))
    BY <1>3 DEF IngestInv, InTurn
<1>7. InTurn'
    BY <1>2, <1>4, <1>5, <1>6, Zenon DEF InTurn, Between, Logs
<1> QED
    BY <1>1, <1>7 DEF IngestInv, Promise!vars

\* Whom the node tells of a transaction: each subscription at most once, and only
\* those whose program it mentions.
TellsOf(t, m) ==
    \E told \in [1 .. m -> 1 .. subs] :
        /\ \A k \in 1 .. m : ProgramIds[told[k]] \in Mentioned(t)
        /\ \A k, l \in 1 .. m : told[k] = told[l] => k = l
        /\ notices' = notices \o [k \in 1 .. m |-> [tx |-> Len(landed) + 1, via |-> told[k]]]
        /\ fate' = fate \o [k \in 1 .. m |-> "pending"]
        /\ inbox' = inbox \o [k \in 1 .. m |-> [kind |-> "log", n |-> Len(notices) + k]]
        /\ m # 0 => live

LEMMA LandTells ==
    ASSUME IngestInv, NEW t \in Shapes, Land(t)
    PROVE  \E m \in Nat : TellsOf(t, m)
<1>1. PICK told \in IF live THEN Notify(t) ELSE {<< >>} :
          /\ notices' = notices \o
                 [k \in DOMAIN told |-> [tx |-> Len(landed) + 1, via |-> told[k]]]
          /\ fate' = fate \o [k \in DOMAIN told |-> "pending"]
          /\ inbox' = inbox \o [k \in DOMAIN told |-> [kind |-> "log", n |-> Len(notices) + k]]
    BY DEF Land
<1>2. subs \in Nat
    BY ConfiguredArePrograms DEF IngestInv, Types
<1>3. CASE live
    <2> DEFINE S == {k \in 1 .. subs : ProgramIds[k] \in Mentioned(t)}
               m == Cardinality(S)
    <2>1. IsFiniteSet(1 .. subs) /\ S \in SUBSET (1 .. subs)
        <3>1. 1 \in Int /\ subs \in Int
            BY <1>2
        <3> QED
            BY <3>1, FS_Interval
    <2>2. m \in Nat
        BY <2>1, FS_Subset, FS_CardinalityType
    <2>3. told \in [1 .. m -> S] /\ \A k, l \in 1 .. m : k # l => told[k] # told[l]
        BY <1>1, <1>3 DEF Notify, SetToSeqs
    <2>4. \A k \in S : ProgramIds[k] \in Mentioned(t)
        OBVIOUS
    <2> HIDE DEF S, m
    <2>5. told \in [1 .. m -> 1 .. subs] /\ DOMAIN told = 1 .. m
        BY <2>1, <2>3
    <2>6. \A k \in 1 .. m : ProgramIds[told[k]] \in Mentioned(t)
        BY <2>3, <2>4
    <2>7. \A k, l \in 1 .. m : told[k] = told[l] => k = l
        BY <2>3
    <2>8. /\ notices' = notices \o [k \in 1 .. m |-> [tx |-> Len(landed) + 1, via |-> told[k]]]
          /\ fate' = fate \o [k \in 1 .. m |-> "pending"]
          /\ inbox' = inbox \o [k \in 1 .. m |-> [kind |-> "log", n |-> Len(notices) + k]]
        BY <1>1, <2>5, Zenon
    <2>9. TellsOf(t, m)
        BY <1>3, <2>5, <2>6, <2>7, <2>8, Zenon DEF TellsOf
    <2> QED
        BY <2>2, <2>9
<1>4. CASE ~live
    <2>1. told = << >>
        BY <1>1, <1>4
    <2>2. told \in [1 .. 0 -> 1 .. subs] /\ DOMAIN told = 1 .. 0 /\ 0 \in Nat
        BY <2>1
    <2>3. \A k \in 1 .. 0 : FALSE
        OBVIOUS
    <2> QED
        BY <1>1, <2>2, <2>3 DEF TellsOf
<1> QED
    BY <1>3, <1>4

\* The node lands a transaction and notifies the subscriptions of its programs.
LEMMA LandStep ==
    ASSUME IngestInv, NEW t \in Shapes, Land(t)
    PROVE  IngestInv' /\ [Promise!Next]_(Promise!vars)
<1>0. PICK m \in Nat : TellsOf(t, m)
    BY LandTells
<1>1. PICK told \in [1 .. m -> 1 .. subs] :
          /\ notices' = notices \o [k \in 1 .. m |-> [tx |-> Len(landed) + 1, via |-> told[k]]]
          /\ inbox' = inbox \o [k \in 1 .. m |-> [kind |-> "log", n |-> Len(notices) + k]]
    BY <1>0, Zenon DEF TellsOf
<1>2. /\ landed' = Append(landed, t) /\ hand' = hand /\ subs' = subs /\ handed' = handed
      /\ subs \in 0 .. Len(ProgramIds) /\ ProgramIds \in Seq(Programs)
      /\ landed \in Seq(Shapes) /\ notices \in Seq(Notices) /\ inbox \in Seq(Messages)
      /\ handed \in Seq(Nat) /\ hand \in Hands
    BY ConfiguredArePrograms DEF Land, client, IngestInv, Types
<1> DEFINE new == [k \in 1 .. m |-> [tx |-> Len(landed) + 1, via |-> told[k]]]
           logs == [k \in 1 .. m |-> [kind |-> "log", n |-> Len(notices) + k]]
<1>4. notices' = notices \o new /\ inbox' = inbox \o logs
    BY <1>1
<1>5. new \in Seq(Notices) /\ Len(new) = m
    <2>1. \A k \in 1 .. m : told[k] \in Nat
        BY <1>1, <1>2
    <2>2. Len(landed) + 1 \in Nat
        BY <1>2
    <2>3. new \in [1 .. m -> Notices]
        BY <2>1, <2>2 DEF Notices
    <2> HIDE DEF new
    <2> QED
        BY <2>3, LenProperties, IsASeq DEF new
<1>6. /\ logs \in Seq(Messages) /\ Len(logs) = m
      /\ \A k \in 1 .. Len(logs) : logs[k].n = Len(notices) + k
    <2>1. Len(notices) \in Nat
        BY <1>2
    <2>2. logs \in [1 .. m -> Messages] /\ \A k \in 1 .. m : logs[k].n = Len(notices) + k
        BY <2>1 DEF Messages
    <2> HIDE DEF logs
    <2>3. logs \in Seq(Messages) /\ Len(logs) = m
        BY <2>2
    <2> QED
        BY <2>2, <2>3
<1> HIDE DEF new, logs
<1>7. Len(notices') = Len(notices) + m /\ notices' \in Seq(Notices) /\ Len(notices) \in Nat
    <2>1. notices \in Seq(Notices) /\ new \in Seq(Notices) /\ Len(new) = m
        BY <1>2, <1>5
    <2>2. notices \o new \in Seq(Notices) /\ Len(notices \o new) = Len(notices) + Len(new)
        BY <2>1, ConcatProperties
    <2> QED
        BY <1>4, <2>1, <2>2
<1>8. ASSUME NEW low \in Nat, low <= Len(notices), Between(inbox, low, Len(notices))
      PROVE  inbox' \in Seq(Messages) /\ Between(inbox', low, Len(notices'))
    <2>1. Len(notices') = Len(notices) + Len(logs)
        BY <1>6, <1>7
    <2>2. inbox \in Seq(Messages) /\ inbox' = inbox \o logs
        BY <1>2, <1>4
    <2>3. \A k \in 1 .. Len(logs) : logs[k].n = Len(notices) + k
        BY <1>6
    <2>4. /\ inbox \o logs \in Seq(Messages)
          /\ Between(inbox \o logs, low, Len(notices) + Len(logs))
        BY <1>6, <1>7, <1>8, <2>2, <2>3, NewIsBetween
    <2> QED
        BY <2>1, <2>2, <2>4, Zenon
<1>9. Promise!Newest' = Promise!Newest
    BY <1>2 DEF Promise!Newest
<1>10. Promise!Newest \in 0 .. Len(notices) /\ Between(inbox, Promise!Newest, Len(notices))
    BY DEF IngestInv, InTurn
<1>11. hand.pc # "idle" => /\ hand.n \in Promise!Newest + 1 .. Len(notices)
                           /\ Between(inbox, hand.n, Len(notices))
    BY DEF IngestInv, InTurn
<1>12. inbox' \in Seq(Messages) /\ Between(inbox', Promise!Newest, Len(notices'))
    BY <1>7, <1>8, <1>10
<1>13. hand.pc # "idle" => /\ hand.n \in Promise!Newest + 1 .. Len(notices')
                           /\ Between(inbox', hand.n, Len(notices'))
    BY <1>7, <1>8, <1>10, <1>11
<1>14. Types'
    BY <1>2, <1>7, <1>12 DEF Types
<1>15. Promise!Newest \in 0 .. Len(notices')
    BY <1>7, <1>10
<1>16. InTurn'
    BY <1>2, <1>9, <1>12, <1>13, <1>15, Zenon DEF InTurn, Between, Logs
<1>17. [Promise!Next]_(Promise!vars)
    <2>1. CASE m = 0
        <3>1. notices' = notices
            BY <1>2, <1>4, <1>5, <2>1
        <3> QED
            BY <3>1, <1>2 DEF Promise!vars
    <2>2. CASE m # 0
        <3>1. Len(notices') \in Nat /\ Len(notices') > Len(notices)
            BY <1>7, <2>2
        <3> QED
            BY <3>1, <1>2 DEF Promise!Next, Promise!Offer
    <2> QED
        BY <2>1, <2>2
<1> QED
    BY <1>14, <1>16, <1>17 DEF IngestInv

\* The client reads a notification, and has nothing else in hand.
LEMMA ReadNoticeStep ==
    ASSUME IngestInv, ReadNotice
    PROVE  IngestInv' /\ UNCHANGED Promise!vars
<1>1. /\ inbox # << >> /\ Head(inbox).kind = "log" /\ inbox' = Tail(inbox)
      /\ hand' = [pc |-> "fetch", n |-> Head(inbox).n, attempts |-> 0]
      /\ subs' = subs /\ landed' = landed /\ notices' = notices /\ handed' = handed
    BY DEF ReadNotice, Reading, outside
<1>2. /\ inbox \in Seq(Messages) /\ Len(notices) \in Nat
      /\ Promise!Newest \in 0 .. Len(notices)
      /\ Between(inbox, Promise!Newest, Len(notices))
    BY DEF IngestInv, Types, InTurn
<1>3. /\ Tail(inbox) \in Seq(Messages) /\ Head(inbox) \in Messages
      /\ Between(Tail(inbox), Promise!Newest, Len(notices))
      /\ Head(inbox).n \in Promise!Newest + 1 .. Len(notices)
      /\ Between(Tail(inbox), Head(inbox).n, Len(notices))
    <2>1. Promise!Newest \in Nat
        BY <1>2
    <2> QED
        BY <1>1, <1>2, <2>1, TailIsBetween
<1>4. Promise!Newest' = Promise!Newest /\ hand'.n = Head(inbox).n
    BY <1>1 DEF Promise!Newest
<1>5. Types'
    <2>1. Head(inbox).n \in Nat
        BY <1>3 DEF Messages
    <2>2. hand' \in Hands
        BY <1>1, <2>1 DEF Hands
    <2> QED
        BY <1>1, <1>3, <2>2 DEF IngestInv, Types
<1>6. InTurn'
    BY <1>1, <1>2, <1>3, <1>4, Zenon DEF InTurn, Between, Logs
<1> QED
    BY <1>1, <1>5, <1>6 DEF IngestInv, Promise!vars

\* The queue of messages changes while nothing is in hand.
LEMMA QueueStep ==
    ASSUME IngestInv, UNCHANGED <<subs, hand, landed, notices, handed>>,
           inbox' \in Seq(Messages),
           \A low \in Nat : Between(inbox, low, Len(notices))
                                => Between(inbox', low, Len(notices))
    PROVE  IngestInv' /\ UNCHANGED Promise!vars
<1>1. Types'
    BY DEF IngestInv, Types
<1>2. Promise!Newest' = Promise!Newest
    BY DEF Promise!Newest
<1>3. /\ Promise!Newest \in 0 .. Len(notices)
      /\ Between(inbox, Promise!Newest, Len(notices))
      /\ hand.pc # "idle" => /\ hand.n \in Promise!Newest + 1 .. Len(notices)
                             /\ Between(inbox, hand.n, Len(notices))
      /\ Promise!Newest \in Nat
    BY DEF IngestInv, InTurn
<1>4. hand.n \in Nat
    BY DEF IngestInv, Types, Hands
<1>5. InTurn'
    BY <1>2, <1>3, <1>4, Zenon DEF InTurn, Between, Logs
<1> QED
    BY <1>1, <1>5 DEF IngestInv, Promise!vars

LEMMA ReadOtherStep ==
    ASSUME IngestInv, ReadOther
    PROVE  IngestInv' /\ UNCHANGED Promise!vars
<1>1. /\ inbox # << >> /\ inbox' = Tail(inbox)
      /\ UNCHANGED <<subs, hand, landed, notices, handed>>
    BY DEF ReadOther, Reading, client, outside
<1>2. inbox \in Seq(Messages) /\ Len(notices) \in Nat
    BY DEF IngestInv, Types
<1>3. inbox' \in Seq(Messages)
    BY <1>1, <1>2, HeadTailProperties
<1>4. \A low \in Nat : Between(inbox, low, Len(notices))
                          => Between(inbox', low, Len(notices))
    BY <1>1, <1>2, TailIsBetween
<1> QED
    BY <1>1, <1>3, <1>4, QueueStep

LEMMA ChatterStep ==
    ASSUME IngestInv, Chatter
    PROVE  IngestInv' /\ UNCHANGED Promise!vars
<1>1. /\ inbox' = <<[kind |-> "other", n |-> 0]>>
      /\ UNCHANGED <<subs, hand, landed, notices, handed>>
    BY DEF Chatter, client, outside
<1>2. inbox' \in Seq(Messages)
    BY <1>1 DEF Messages
<1>3. Logs(inbox') = {}
    <2>1. \A i \in DOMAIN inbox' : inbox'[i] = [kind |-> "other", n |-> 0]
        BY <1>1
    <2> QED
        BY <2>1 DEF Logs
<1>4. \A low, high : Between(inbox', low, high)
    BY <1>3 DEF Between
<1> QED
    BY <1>1, <1>2, <1>4, QueueStep

LEMMA HangStep ==
    ASSUME IngestInv, NEW kind \in {"close", "error"}, Hang(kind)
    PROVE  IngestInv' /\ UNCHANGED Promise!vars
<1>1. UNCHANGED <<subs, hand, landed, notices, handed>>
    BY DEF Hang, client, outside
<1>2. PICK kept \in 0 .. Len(inbox) :
          inbox' = Append(SubSeq(inbox, 1, kept), [kind |-> kind, n |-> 0])
    BY DEF Hang
<1> DEFINE m == [kind |-> kind, n |-> 0]
<1>3. inbox \in Seq(Messages) /\ m \in Messages /\ m.kind # "log"
    BY DEF IngestInv, Types, Messages
<1> HIDE DEF m
<1>4. inbox' = Append(SubSeq(inbox, 1, kept), m)
    BY <1>2 DEF m
<1>5. \A low, high : Between(inbox, low, high) => Between(inbox', low, high)
    BY <1>3, <1>4, CutIsBetween
<1>6. inbox' \in Seq(Messages)
    <2>1. \A i \in 1 .. kept : inbox[i] \in Messages
        BY <1>3
    <2>2. 1 \in Int /\ kept \in Int
        OBVIOUS
    <2>3. SubSeq(inbox, 1, kept) \in Seq(Messages)
        BY <2>1, <2>2, SubSeqProperties
    <2> QED
        BY <1>3, <1>4, <2>3, AppendProperties
<1> QED
    BY <1>1, <1>5, <1>6, QueueStep

\* What is in hand is handed on, after all that was, and before all that waits.
LEMMA SendStep ==
    ASSUME IngestInv, Send
    PROVE  IngestInv' /\ Promise!HandOn
<1>1. /\ hand.pc = "send" /\ hand' = Idle /\ handed' = Append(handed, hand.n)
      /\ UNCHANGED <<subs, inbox, landed, notices>>
    BY DEF Send, Settle, outside
<1>2. /\ hand.n \in Promise!Newest + 1 .. Len(notices) /\ Promise!Newest \in Nat
      /\ Between(inbox, hand.n, Len(notices)) /\ hand.n \in Nat
      /\ handed \in Seq(Nat) /\ Len(notices) \in Nat
    BY <1>1 DEF IngestInv, Types, InTurn, Hands
<1>3. Promise!HandOn
    BY <1>1, <1>2 DEF Promise!HandOn
<1>4. handed' \in Seq(Nat) /\ Promise!Newest' = hand.n
    BY <1>1, <1>2 DEF Promise!Newest
<1>5. Types'
    <2>1. Idle \in Hands
        BY DEF Idle, Hands
    <2> QED
        BY <1>1, <1>4, <2>1 DEF IngestInv, Types
<1>6. InTurn'
    <2>1. hand.n \in 0 .. Len(notices)
        BY <1>2
    <2>2. hand'.pc = "idle"
        BY <1>1 DEF Idle
    <2> QED
        BY <1>1, <1>2, <1>4, <2>1, <2>2, Zenon DEF InTurn, Between, Logs
<1> QED
    BY <1>3, <1>5, <1>6 DEF IngestInv

LEMMA IngestNext ==
    ASSUME IngestInv, [Next]_vars
    PROVE  IngestInv' /\ [Promise!Next]_(Promise!vars)
<1> DEFINE Goal == IngestInv' /\ [Promise!Next]_(Promise!vars)
<1>0. IngestInv' /\ UNCHANGED Promise!vars => Goal
    OBVIOUS
<1> SUFFICES Goal
    OBVIOUS
<1>1. subs \in 0 .. Len(ProgramIds) /\ Len(ProgramIds) \in Nat /\ hand \in Hands
    BY ConfiguredArePrograms DEF IngestInv, Types
<1>2. ASSUME NEW t \in Shapes, Land(t)
      PROVE  Goal
    BY <1>2, LandStep
<1>3. ASSUME NEW kind \in {"close", "error"}, Hang(kind)
      PROVE  Goal
    BY <1>3, <1>0, HangStep
<1>4. CASE Chatter
    BY <1>4, <1>0, ChatterStep
<1>5. CASE ReadNotice
    BY <1>5, <1>0, ReadNoticeStep
<1>6. CASE ReadOther
    BY <1>6, <1>0, ReadOtherStep
<1>7. CASE Send
    BY <1>7, SendStep DEF Promise!Next
<1> HIDE DEF Goal
<1>8. CASE Connect
    BY <1>0, <1>1, <1>8, QuietStep DEF Connect, outside
<1>9. CASE ConnectFails
    BY <1>0, <1>1, <1>9, QuietStep DEF ConnectFails, End, outside
<1>10. CASE Subscribe
    <2>1. subs' \in 0 .. Len(ProgramIds)
        BY <1>1, <1>10 DEF Subscribe
    <2> QED
        BY <1>0, <1>10, <2>1, QuietStep DEF Subscribe, outside
<1>11. CASE SubscribeFails
    BY <1>0, <1>1, <1>11, QuietStep DEF SubscribeFails, End, outside
<1>12. CASE PongFails
    BY <1>0, <1>1, <1>12, QuietStep DEF PongFails, End, outside
<1>13. CASE ReadEnd
    BY <1>0, <1>1, <1>13, QuietStep DEF ReadEnd, End, outside
<1>14. CASE Wake
    BY <1>0, <1>1, <1>14, QuietStep DEF Wake, outside
<1>15. CASE FetchNull
    <2>1. /\ UNCHANGED <<subs, inbox, landed, notices, handed>>
          /\ hand.pc = "fetch"
          /\ hand' = Idle \/ hand' = [hand EXCEPT !.attempts = @ + 1]
        BY <1>15 DEF FetchNull, Settle, outside
    <2>2. hand' = Idle \/ (hand' \in Hands /\ hand'.n = hand.n)
        BY <1>1, <2>1 DEF Hands
    <2> QED
        BY <1>0, <1>1, <2>1, <2>2, QuietStep
<1>16. CASE FetchFails
    BY <1>0, <1>1, <1>16, QuietStep DEF FetchFails, Settle, outside
<1>17. CASE Fetched
    <2>1. /\ UNCHANGED <<subs, inbox, landed, notices, handed>>
          /\ hand.pc = "fetch" /\ hand' = [hand EXCEPT !.pc = "send"]
        BY <1>17 DEF Fetched, outside
    <2>2. hand' \in Hands /\ hand'.n = hand.n
        BY <1>1, <2>1 DEF Hands
    <2> QED
        BY <1>0, <1>1, <2>1, <2>2, QuietStep
<1>18. CASE SendFails
    BY <1>0, <1>1, <1>18, QuietStep DEF SendFails, Settle, outside
<1>19. CASE Take
    BY <1>0, <1>1, <1>19, QuietStep DEF Take, client, outside
<1>20. CASE WorkerPanics
    BY <1>0, <1>1, <1>20, QuietStep DEF WorkerPanics, client
<1>21. ASSUME NEW p \in Programs, EditPrograms(p)
       PROVE  Goal
    BY <1>0, <1>1, <1>21, QuietStep DEF EditPrograms, client
<1>22. CASE UNCHANGED vars
    BY <1>0, <1>1, <1>22, QuietStep DEF vars
<1>23. CASE Progress
    BY <1>5, <1>6, <1>7, <1>10, <1>11, <1>12, <1>13, <1>14, <1>18, <1>23 DEF Progress
<1>24. CASE Next
    BY <1>2, <1>3, <1>4, <1>8, <1>9, <1>15, <1>16, <1>17, <1>19, <1>20, <1>21,
       <1>23, <1>24 DEF Next
<1> QED
    BY <1>22, <1>24

-----------------------------------------------------------------------------
(* What becomes of each notification *)

Fates == {"pending", "sent", "lost", "stored", "dead"}

\* The notifications in the socket or in hand.
Waiting == Numbers(inbox) \cup (IF hand.pc = "idle" THEN {} ELSE {hand.n})

LedgerTypes ==
    /\ fate \in Seq(Fates) /\ Len(fate) = Len(notices)
    /\ hand.pc = "idle" => hand = Idle
    /\ conn \in {"connect", "sleep"} => ~live /\ inbox = << >>

Rising(q, high) ==
    /\ q \in Seq(Nat)
    /\ \A i \in DOMAIN q : q[i] \in 1 .. high
    /\ \A i, j \in DOMAIN q : i < j => q[i] < q[j]

Queued == Rising(channel, Promise!Newest) /\ Rising(handed, Promise!Newest)

FatesMatch ==
    \A n \in DOMAIN notices :
        /\ fate[n] = "pending" <=> n \in Waiting
        /\ fate[n] = "sent" <=> n \in ToSet(channel)

\* Of a transaction, each subscription whose program it mentions is notified once.
NotifiedOnce ==
    /\ \A n \in DOMAIN notices :
          /\ notices[n].tx \in DOMAIN landed /\ notices[n].via \in DOMAIN ProgramIds
          /\ ProgramIds[notices[n].via] \in Mentioned(landed[notices[n].tx])
    /\ \A m, n \in DOMAIN notices : notices[m] = notices[n] => m = n

LedgerInv == IngestInv /\ LedgerTypes /\ Queued /\ FatesMatch /\ NotifiedOnce

LEMMA RisingGrows ==
    ASSUME NEW high \in Nat, NEW q, Rising(q, high), NEW n \in Nat, n > high
    PROVE  Rising(Append(q, n), n) /\ ToSet(Append(q, n)) = ToSet(q) \cup {n}
<1> DEFINE r == Append(q, n)
<1>1. /\ r \in Seq(Nat) /\ DOMAIN r = 1 .. Len(q) + 1 /\ DOMAIN q = 1 .. Len(q) /\ Len(q) \in Nat
      /\ \A i \in 1 .. Len(q) : r[i] = q[i]
      /\ r[Len(q) + 1] = n
    BY DEF Rising
<1> HIDE DEF r
<1>2. DOMAIN r = DOMAIN q \cup {Len(q) + 1}
    BY <1>1
<1>3. \A i \in DOMAIN q : q[i] \in 1 .. high
    BY DEF Rising
<1>4. \A i \in DOMAIN r : r[i] \in 1 .. n
    BY <1>1, <1>2, <1>3
<1>5. ASSUME NEW i \in DOMAIN r, NEW j \in DOMAIN r, i < j
      PROVE  r[i] < r[j]
    <2>1. i \in DOMAIN q /\ r[i] = q[i]
        BY <1>1, <1>5
    <2>2. CASE j \in DOMAIN q
        BY <1>1, <1>5, <2>1, <2>2 DEF Rising
    <2>3. CASE j = Len(q) + 1
        BY <1>1, <1>3, <2>1, <2>3
    <2> QED
        BY <1>2, <2>2, <2>3
<1>6. ToSet(r) = ToSet(q) \cup {n}
    BY <1>1, <1>2 DEF ToSet
<1> QED
    BY <1>1, <1>4, <1>5, <1>6 DEF Rising, r

LEMMA RisingLosesItsHead ==
    ASSUME NEW high, NEW q, Rising(q, high), q # << >>
    PROVE  Rising(Tail(q), high) /\ Head(q) \in ToSet(q) /\ ToSet(Tail(q)) = ToSet(q) \ {Head(q)}
<1>1. /\ Tail(q) \in Seq(Nat) /\ Head(q) = q[1]
      /\ Len(q) \in Nat /\ 1 \in DOMAIN q /\ DOMAIN q = 1 .. Len(q)
      /\ DOMAIN Tail(q) = 1 .. Len(q) - 1
      /\ \A i \in 1 .. Len(q) - 1 : Tail(q)[i] = q[i + 1]
    BY HeadTailProperties DEF Rising
<1>2. \A i \in DOMAIN Tail(q) : i \in Int /\ i + 1 \in DOMAIN q /\ 1 < i + 1 /\ Tail(q)[i] = q[i + 1]
    BY <1>1
<1>3. \A i \in DOMAIN q : i # 1 => i - 1 \in DOMAIN Tail(q) /\ Tail(q)[i - 1] = q[i]
    <2>1. \A i \in DOMAIN q : i # 1 => i - 1 \in 1 .. Len(q) - 1 /\ (i - 1) + 1 = i
        BY <1>1
    <2> QED
        BY <1>1, <2>1
<1>4. \A i \in DOMAIN Tail(q) : Tail(q)[i] \in 1 .. high /\ q[1] < Tail(q)[i]
    BY <1>1, <1>2 DEF Rising
<1>5. \A i, j \in DOMAIN Tail(q) : i < j => Tail(q)[i] < Tail(q)[j]
    <2>1. \A i, j \in DOMAIN Tail(q) : i < j => i + 1 < j + 1
        BY <1>2
    <2> QED
        BY <1>2, <2>1, Zenon DEF Rising
<1>6. q[1] \in Nat
    BY <1>1 DEF Rising
<1>7. ToSet(Tail(q)) = ToSet(q) \ {q[1]}
    <2>1. \A i \in DOMAIN Tail(q) : Tail(q)[i] \in ToSet(q) /\ Tail(q)[i] # q[1]
        BY <1>2, <1>4, <1>6 DEF ToSet
    <2>2. \A i \in DOMAIN q : q[i] # q[1] => q[i] \in ToSet(Tail(q))
        BY <1>3 DEF ToSet
    <2> QED
        BY <2>1, <2>2 DEF ToSet
<1> QED
    BY <1>1, <1>4, <1>5, <1>7 DEF Rising, ToSet

LEMMA NumbersOfNone == Numbers(<< >>) = {}
BY DEF Numbers

LEMMA NumbersOfTail ==
    ASSUME NEW q \in Seq(Messages), q # << >>
    PROVE  Numbers(q) = Numbers(Tail(q)) \cup (IF Head(q).kind = "log" THEN {Head(q).n} ELSE {})
<1>1. /\ Head(q) = q[1] /\ Len(q) \in Nat /\ 1 \in DOMAIN q /\ DOMAIN q = 1 .. Len(q)
      /\ DOMAIN Tail(q) = 1 .. Len(q) - 1
      /\ \A i \in 1 .. Len(q) - 1 : Tail(q)[i] = q[i + 1]
    BY HeadTailProperties
<1>2. \A i \in DOMAIN Tail(q) : i + 1 \in DOMAIN q /\ Tail(q)[i] = q[i + 1]
    BY <1>1
<1>3. \A i \in DOMAIN q : i # 1 => i - 1 \in DOMAIN Tail(q) /\ Tail(q)[i - 1] = q[i]
    <2>1. \A i \in DOMAIN q : i # 1 => i - 1 \in 1 .. Len(q) - 1 /\ (i - 1) + 1 = i
        BY <1>1
    <2> QED
        BY <1>1, <2>1
<1>4. Numbers(Tail(q)) \subseteq Numbers(q)
    BY <1>2 DEF Numbers
<1>5. \A i \in DOMAIN q : i # 1 /\ q[i].kind = "log" => q[i].n \in Numbers(Tail(q))
    BY <1>3 DEF Numbers
<1>6. q[1].kind = "log" => q[1].n \in Numbers(q)
    BY <1>1 DEF Numbers
<1>7. Numbers(q) \subseteq Numbers(Tail(q)) \cup (IF q[1].kind = "log" THEN {q[1].n} ELSE {})
    BY <1>5 DEF Numbers
<1> QED
    BY <1>1, <1>4, <1>6, <1>7

\* What a broken socket takes with it is the rest.
LEMMA NumbersOfCut ==
    ASSUME NEW q \in Seq(Messages), NEW low, NEW high, Between(q, low, high),
           NEW kept \in 0 .. Len(q), NEW m \in Messages, m.kind # "log"
    PROVE  LET cut == Numbers(SubSeq(q, kept + 1, Len(q)))
           IN  /\ cut \subseteq Numbers(q)
               /\ Numbers(Append(SubSeq(q, 1, kept), m)) = Numbers(q) \ cut
<1> DEFINE a == SubSeq(q, 1, kept)
           r == Append(a, m)
           b == SubSeq(q, kept + 1, Len(q))
<1>1. Len(q) \in Nat /\ kept \in Nat /\ kept <= Len(q) /\ DOMAIN q = 1 .. Len(q)
    OBVIOUS
<1>2. /\ a \in Seq(Messages) /\ Len(a) = kept /\ \A i \in 1 .. kept : a[i] = q[i]
    OBVIOUS
<1>3. /\ DOMAIN b = 1 .. Len(q) - kept
      /\ \A i \in 1 .. Len(q) - kept : b[i] = q[kept + i]
    <2>1. b = [i \in 1 .. (Len(q) - (kept + 1) + 1) |-> q[kept + 1 + i - 1]]
        OBVIOUS
    <2>2. Len(q) - (kept + 1) + 1 = Len(q) - kept
        BY <1>1
    <2>3. \A i \in 1 .. Len(q) - kept : kept + 1 + i - 1 = kept + i
        BY <1>1
    <2> HIDE DEF b
    <2> QED
        BY <2>1, <2>2, <2>3
<1>4. /\ DOMAIN r = 1 .. kept + 1 /\ r[kept + 1] = m
      /\ \A i \in 1 .. kept : r[i] = q[i]
    BY <1>2
<1> HIDE DEF a, b, r
<1>5. Logs(r) = {i \in Logs(q) : i <= kept}
    BY <1>1, <1>4 DEF Logs
<1>6. \A i \in Logs(r) : r[i] = q[i]
    BY <1>1, <1>4, <1>5 DEF Logs
<1>7. \A i \in Logs(b) : kept + i \in Logs(q) /\ kept + i > kept /\ b[i] = q[kept + i]
    BY <1>1, <1>3 DEF Logs
<1>8. \A i \in Logs(q) : i > kept => i - kept \in Logs(b) /\ b[i - kept] = q[i]
    <2>1. \A i \in DOMAIN q : i > kept => i - kept \in 1 .. Len(q) - kept /\ kept + (i - kept) = i
        BY <1>1
    <2> QED
        BY <1>3, <2>1 DEF Logs
<1>9. \A k \in Logs(q) : k \in Int
    BY <1>1 DEF Logs
<1>10. \A s : Numbers(s) = {s[i].n : i \in Logs(s)}
    BY DEF Numbers, Logs
<1>11. \A k \in Logs(q) : q[k].n \in Nat
    BY LogsAreNumbered
<1>12. \A n : n \in Numbers(b) <=> \E k \in Logs(q) : k > kept /\ n = q[k].n
    BY <1>7, <1>8, <1>10
<1>13. \A n : n \in Numbers(r) <=> \E k \in Logs(q) : k <= kept /\ n = q[k].n
    BY <1>5, <1>6, <1>10
<1>14. ASSUME NEW k \in Logs(q), NEW l \in Logs(q), k <= kept, l > kept
       PROVE  q[k].n # q[l].n
    <2>1. k < l
        BY <1>1, <1>9, <1>14
    <2>2. q[k].n < q[l].n
        BY <2>1 DEF Between
    <2> QED
        BY <1>11, <2>2
<1>15. \A n : n \in Numbers(q) <=> \E k \in Logs(q) : n = q[k].n
    BY <1>10
<1>16. \A k \in Logs(q) : k <= kept \/ k > kept
    BY <1>1, <1>9
<1>17. Numbers(b) \subseteq Numbers(q)
    BY <1>12, <1>15
<1>18. \A n \in Numbers(r) : n \in Numbers(q) /\ n \notin Numbers(b)
    BY <1>12, <1>13, <1>14, <1>15
<1>19. \A n \in Numbers(q) : n \in Numbers(r) \/ n \in Numbers(b)
    BY <1>12, <1>13, <1>15, <1>16
<1>20. Numbers(r) = Numbers(q) \ Numbers(b)
    BY <1>18, <1>19
<1> QED
    BY <1>17, <1>20 DEF r, a, b

LEMMA BothInARow ==
    ASSUME NEW S, NEW q \in Seq(S), NEW r \in Seq(S)
    PROVE  /\ q \o r \in Seq(S) /\ Len(q \o r) = Len(q) + Len(r)
           /\ \A i \in 1 .. Len(q) : (q \o r)[i] = q[i]
           /\ \A i \in 1 .. Len(r) : (q \o r)[Len(q) + i] = r[i]
OBVIOUS

LEMMA NumbersOfBoth ==
    ASSUME NEW q \in Seq(Messages), NEW r \in Seq(Messages)
    PROVE  Numbers(q \o r) = Numbers(q) \cup Numbers(r)
<1> DEFINE s == q \o r
<1>1. /\ DOMAIN s = 1 .. Len(q) + Len(r) /\ Len(q) \in Nat /\ Len(r) \in Nat
      /\ DOMAIN q = 1 .. Len(q) /\ DOMAIN r = 1 .. Len(r)
      /\ \A i \in 1 .. Len(q) : s[i] = q[i]
      /\ \A i \in 1 .. Len(r) : s[Len(q) + i] = r[i]
    OBVIOUS
<1> HIDE DEF s
<1>2. \A i \in DOMAIN q : i \in DOMAIN s /\ s[i] = q[i]
    BY <1>1
<1>3. \A i \in DOMAIN r : Len(q) + i \in DOMAIN s /\ s[Len(q) + i] = r[i]
    BY <1>1
<1>4. ASSUME NEW i \in DOMAIN s
      PROVE  i \in DOMAIN q \/ (i - Len(q) \in DOMAIN r /\ s[i] = r[i - Len(q)])
    <2>1. i \in DOMAIN q \/ (i - Len(q) \in DOMAIN r /\ i = Len(q) + (i - Len(q)))
        BY <1>1
    <2> QED
        BY <1>3, <2>1
<1>5. Numbers(q) \subseteq Numbers(s)
    BY <1>2 DEF Numbers
<1>6. Numbers(r) \subseteq Numbers(s)
    BY <1>3 DEF Numbers
<1>7. \A i \in DOMAIN s : s[i].kind = "log" => s[i].n \in Numbers(q) \cup Numbers(r)
    BY <1>2, <1>4 DEF Numbers
<1>8. Numbers(s) \subseteq Numbers(q) \cup Numbers(r)
    BY <1>7 DEF Numbers
<1> QED
    BY <1>5, <1>6, <1>8 DEF s

\* What waits is newer than what is handed on, and is not in two places.
LEMMA WaitingIsNewer ==
    ASSUME IngestInv
    PROVE  /\ Promise!Newest \in Nat /\ Len(notices) \in Nat /\ inbox \in Seq(Messages)
           /\ \A n \in Waiting : n \in Promise!Newest + 1 .. Len(notices)
           /\ hand.pc # "idle" => hand.n \notin Numbers(inbox) /\ hand.n \in Waiting
<1>1. /\ Promise!Newest \in Nat /\ Len(notices) \in Nat /\ inbox \in Seq(Messages)
      /\ Between(inbox, Promise!Newest, Len(notices))
      /\ hand.pc # "idle" => /\ hand.n \in Promise!Newest + 1 .. Len(notices)
                             /\ Between(inbox, hand.n, Len(notices))
    BY DEF IngestInv, Types, InTurn
<1>2. \A i \in Logs(inbox) : inbox[i].n \in Nat
    BY <1>1, LogsAreNumbered
<1>3. \A n \in Numbers(inbox) : \E i \in Logs(inbox) : n = inbox[i].n
    BY DEF Numbers, Logs
<1>4. \A n \in Numbers(inbox) : n \in Promise!Newest + 1 .. Len(notices)
    BY <1>1, <1>2, <1>3 DEF Between
<1>5. hand.pc # "idle" => hand.n \notin Numbers(inbox)
    BY <1>1, <1>2, <1>3 DEF Between
<1> QED
    BY <1>1, <1>4, <1>5 DEF Waiting

LEMMA LedgerInit == Init => LedgerInv
<1> SUFFICES ASSUME Init
             PROVE  LedgerInv
    OBVIOUS
<1>1. /\ fate = << >> /\ notices = << >> /\ channel = << >> /\ handed = << >>
      /\ inbox = << >> /\ hand = Idle /\ live = FALSE
    BY DEF Init
<1>2. LedgerTypes
    BY <1>1 DEF LedgerTypes
<1>3. \A high : Rising(<< >>, high)
    BY DEF Rising
<1>4. Queued
    BY <1>1, <1>3 DEF Queued
<1>5. FatesMatch /\ NotifiedOnce
    BY <1>1 DEF FatesMatch, NotifiedOnce
<1> QED
    BY <1>2, <1>4, <1>5, IngestInit DEF LedgerInv

\* Some notifications get their fate, and leave where they were.
LEMMA FatesFollow ==
    ASSUME LedgerTypes, FatesMatch, UNCHANGED notices,
           NEW gone, NEW outcome \in Fates \ {"pending"},
           fate' = [n \in DOMAIN fate |-> IF n \in gone THEN outcome ELSE fate[n]],
           Waiting' = Waiting \ gone,
           ToSet(channel') = IF outcome = "sent" THEN ToSet(channel) \cup gone
                             ELSE ToSet(channel) \ gone
    PROVE  FatesMatch' /\ fate' \in Seq(Fates) /\ Len(fate') = Len(notices')
<1>1. DOMAIN fate = DOMAIN notices' /\ DOMAIN notices = DOMAIN notices' /\ fate \in Seq(Fates)
      /\ Len(fate) = Len(notices) /\ DOMAIN fate = 1 .. Len(fate) /\ Len(fate) \in Nat
    <2>1. fate \in Seq(Fates) /\ Len(fate) = Len(notices) /\ DOMAIN notices = 1 .. Len(notices)
        BY DEF LedgerTypes, IngestInv, Types
    <2> QED
        BY <2>1
<1>2. ASSUME NEW n \in DOMAIN notices'
      PROVE  /\ fate'[n] = "pending" <=> n \in Waiting'
             /\ fate'[n] = "sent" <=> n \in ToSet(channel')
    <2>1. /\ fate'[n] = IF n \in gone THEN outcome ELSE fate[n]
          /\ fate[n] = "pending" <=> n \in Waiting
          /\ fate[n] = "sent" <=> n \in ToSet(channel)
        BY <1>1, <1>2 DEF FatesMatch
    <2> QED
        BY <2>1 DEF Fates
<1>3. FatesMatch'
    BY <1>2 DEF FatesMatch
<1>4. fate' \in [1 .. Len(fate) -> Fates]
    BY <1>1
<1>5. fate' \in Seq(Fates) /\ Len(fate') = Len(fate)
    BY <1>1, <1>4
<1> QED
    BY <1>1, <1>3, <1>5

LEMMA OthersAreKept ==
    ASSUME Queued, NotifiedOnce, UNCHANGED <<landed, notices, channel, handed>>
    PROVE  Queued' /\ NotifiedOnce'
BY DEF Queued, NotifiedOnce, Rising, Promise!Newest

\* What the client loses of what waits, possibly nothing, gets its fate.
LEMMA LosingStep ==
    ASSUME LedgerInv, IngestInv', UNCHANGED <<landed, notices, channel, handed>>,
           NEW gone \in SUBSET Waiting,
           fate' = [n \in DOMAIN fate |-> IF n \in gone THEN "lost" ELSE fate[n]],
           Waiting' = Waiting \ gone,
           hand'.pc = "idle" => hand' = Idle,
           conn' \in {"connect", "sleep"} => ~live' /\ inbox' = << >>
    PROVE  LedgerInv'
<1> USE DEF LedgerInv
<1>1. Queued' /\ NotifiedOnce'
    BY OthersAreKept
<1>2. \A n \in ToSet(channel) : n \notin Waiting
    <2>1. \A n \in ToSet(channel) : n \in 1 .. Promise!Newest
        BY DEF Queued, Rising, ToSet
    <2> QED
        BY <2>1, WaitingIsNewer
<1>3. ToSet(channel') = ToSet(channel) \ gone
    BY <1>2
<1>4. "lost" \in Fates \ {"pending"} /\ "lost" # "sent"
    BY DEF Fates
<1>5. FatesMatch' /\ fate' \in Seq(Fates) /\ Len(fate') = Len(notices')
    BY <1>3, <1>4, FatesFollow
<1>6. LedgerTypes'
    BY <1>5 DEF LedgerTypes
<1> QED
    BY <1>1, <1>5, <1>6

LEMMA KeepingStep ==
    ASSUME LedgerInv, IngestInv', UNCHANGED <<landed, notices, channel, handed, fate>>,
           Waiting' = Waiting,
           hand'.pc = "idle" => hand' = Idle,
           conn' \in {"connect", "sleep"} => ~live' /\ inbox' = << >>
    PROVE  LedgerInv'
<1>1. fate \in Seq(Fates)
    BY DEF LedgerInv, LedgerTypes
<1>2. fate' = [n \in DOMAIN fate |-> IF n \in {} THEN "lost" ELSE fate[n]]
    BY <1>1
<1>3. Waiting' = Waiting \ {} /\ {} \in SUBSET Waiting
    OBVIOUS
<1> QED
    BY <1>2, <1>3, LosingStep, Zenon

\* The rest of the socket is lost with the connection.
LEMMA EndStep ==
    ASSUME LedgerInv, IngestInv', NEW clean, End(clean),
           UNCHANGED <<landed, notices, channel, handed, hand>>,
           Lose(Numbers(inbox))
    PROVE  LedgerInv'
<1>1. /\ inbox' = << >> /\ live' = FALSE
      /\ fate' = [n \in DOMAIN fate |-> IF n \in Numbers(inbox) THEN "lost" ELSE fate[n]]
    BY DEF End, Lose
<1>2. hand.pc # "idle" => hand.n \notin Numbers(inbox)
    BY WaitingIsNewer DEF LedgerInv
<1>3. Numbers(inbox') = {}
    BY <1>1, NumbersOfNone
<1>4. Waiting' = Waiting \ Numbers(inbox) /\ Numbers(inbox) \in SUBSET Waiting
    BY <1>2, <1>3 DEF Waiting
<1>5. hand'.pc = "idle" => hand' = Idle
    BY DEF LedgerInv, LedgerTypes
<1> QED
    BY <1>1, <1>4, <1>5, LosingStep

\* What is in hand is given up.
LEMMA GiveUpStep ==
    ASSUME LedgerInv, IngestInv', hand.pc # "idle", Settle("lost"),
           UNCHANGED <<landed, notices, channel, handed, inbox, conn, live>>
    PROVE  LedgerInv'
<1>1. hand' = Idle /\ fate' = [fate EXCEPT ![hand.n] = "lost"] /\ fate \in Seq(Fates)
    BY DEF Settle, LedgerInv, LedgerTypes
<1>2. hand.n \notin Numbers(inbox) /\ hand.n \in Waiting
    BY WaitingIsNewer DEF LedgerInv
<1>3. Waiting' = Waiting \ {hand.n} /\ {hand.n} \in SUBSET Waiting
    BY <1>1, <1>2 DEF Waiting, Idle, Numbers
<1>4. fate' = [n \in DOMAIN fate |-> IF n \in {hand.n} THEN "lost" ELSE fate[n]]
    BY <1>1
<1>5. conn' \in {"connect", "sleep"} => ~live' /\ inbox' = << >>
    BY DEF LedgerInv, LedgerTypes
<1> QED
    BY <1>1, <1>3, <1>4, <1>5, LosingStep, Zenon

\* The socket breaks, and takes the end of what was sent with it.
LEMMA LedgerHang ==
    ASSUME LedgerInv, IngestInv', NEW kind \in {"close", "error"}, Hang(kind)
    PROVE  LedgerInv'
<1>1. /\ UNCHANGED <<conn, hand, landed, notices, handed, channel>> /\ live
    BY DEF Hang, client, outside
<1> DEFINE m == [kind |-> kind, n |-> 0]
<1>2. PICK kept \in 0 .. Len(inbox) :
          /\ inbox' = Append(SubSeq(inbox, 1, kept), m)
          /\ Lose(Numbers(SubSeq(inbox, kept + 1, Len(inbox))))
    BY DEF Hang
<1>3. m \in Messages /\ m.kind # "log"
    BY DEF Messages
<1> HIDE DEF m
<1> DEFINE cut == Numbers(SubSeq(inbox, kept + 1, Len(inbox)))
<1>4. inbox \in Seq(Messages) /\ Between(inbox, Promise!Newest, Len(notices))
    BY DEF LedgerInv, IngestInv, Types, InTurn
<1>5. cut \subseteq Numbers(inbox) /\ Numbers(inbox') = Numbers(inbox) \ cut
    BY <1>2, <1>3, <1>4, NumbersOfCut
<1>6. fate' = [n \in DOMAIN fate |-> IF n \in cut THEN "lost" ELSE fate[n]]
    BY <1>2 DEF Lose
<1> HIDE DEF cut
<1>7. hand.pc # "idle" => hand.n \notin Numbers(inbox)
    BY WaitingIsNewer DEF LedgerInv
<1>8. Waiting' = Waiting \ cut /\ cut \in SUBSET Waiting
    BY <1>1, <1>5, <1>7 DEF Waiting
<1>9. hand'.pc = "idle" => hand' = Idle
    BY <1>1 DEF LedgerInv, LedgerTypes
<1>10. conn' \notin {"connect", "sleep"}
    BY <1>1 DEF LedgerInv, LedgerTypes
<1> QED
    BY <1>1, <1>6, <1>8, <1>9, <1>10, LosingStep

LEMMA LedgerSend ==
    ASSUME LedgerInv, IngestInv', Send
    PROVE  LedgerInv'
<1> USE DEF LedgerInv
<1>1. /\ hand.pc = "send" /\ hand' = Idle /\ handed' = Append(handed, hand.n)
      /\ channel' = Append(channel, hand.n)
      /\ fate' = [fate EXCEPT ![hand.n] = "sent"]
      /\ UNCHANGED <<inbox, landed, notices, conn, live>>
    BY DEF Send, Settle, outside
<1>2. /\ Promise!Newest \in Nat /\ hand.n \in Nat /\ hand.n > Promise!Newest
      /\ hand.n \notin Numbers(inbox) /\ hand.n \in Waiting
    <2>1. /\ hand.n \notin Numbers(inbox) /\ hand.n \in Waiting /\ Promise!Newest \in Nat
          /\ hand.n \in Promise!Newest + 1 .. Len(notices)
        BY <1>1, WaitingIsNewer
    <2> QED
        BY <2>1
<1>3. /\ Rising(channel', hand.n) /\ Rising(handed', hand.n)
      /\ ToSet(channel') = ToSet(channel) \cup {hand.n}
    BY <1>1, <1>2, RisingGrows DEF Queued
<1>4. Promise!Newest' = hand.n
    <2>1. handed \in Seq(Nat)
        BY DEF Queued, Rising
    <2> QED
        BY <1>1, <1>2, <2>1 DEF Promise!Newest
<1>5. Queued'
    BY <1>3, <1>4, Zenon DEF Queued, Rising
<1>6. Waiting' = Waiting \ {hand.n}
    BY <1>1, <1>2 DEF Waiting, Idle, Numbers
<1>7. fate' = [n \in DOMAIN fate |-> IF n \in {hand.n} THEN "sent" ELSE fate[n]]
    BY <1>1 DEF LedgerTypes
<1>8. "sent" \in Fates \ {"pending"}
    BY DEF Fates
<1>9. FatesMatch' /\ fate' \in Seq(Fates) /\ Len(fate') = Len(notices')
    <2>1. ToSet(channel') = IF "sent" = "sent" THEN ToSet(channel) \cup {hand.n}
                            ELSE ToSet(channel) \ {hand.n}
        BY <1>3
    <2> QED
        BY <1>1, <1>6, <1>7, <1>8, <2>1, FatesFollow, Zenon
<1>10. LedgerTypes'
    BY <1>1, <1>9 DEF LedgerTypes
<1>11. NotifiedOnce'
    BY <1>1 DEF NotifiedOnce
<1> QED
    BY <1>5, <1>9, <1>10, <1>11

\* The worker takes some of what is in the channel, and its fate is decided.
LEMMA TakingStep ==
    ASSUME LedgerInv, IngestInv', UNCHANGED <<landed, notices, handed, conn, hand, inbox, live>>,
           NEW gone \in SUBSET ToSet(channel), NEW outcome \in {"lost", "stored", "dead"},
           fate' = [n \in DOMAIN fate |-> IF n \in gone THEN outcome ELSE fate[n]],
           Rising(channel', Promise!Newest), ToSet(channel') = ToSet(channel) \ gone
    PROVE  LedgerInv'
<1> USE DEF LedgerInv
<1>1. \A n \in gone : n \notin Waiting
    <2>1. \A n \in ToSet(channel) : n \in 1 .. Promise!Newest
        BY DEF Queued, Rising, ToSet
    <2> QED
        BY <2>1, WaitingIsNewer
<1>2. Waiting' = Waiting \ gone
    <2>1. Waiting' = Waiting
        BY DEF Waiting, Numbers
    <2> QED
        BY <1>1, <2>1
<1>3. outcome \in Fates \ {"pending"} /\ outcome # "sent"
    BY DEF Fates
<1>4. FatesMatch' /\ fate' \in Seq(Fates) /\ Len(fate') = Len(notices')
    BY <1>2, <1>3, FatesFollow
<1>5. LedgerTypes'
    BY <1>4 DEF LedgerTypes
<1>6. Promise!Newest' = Promise!Newest
    BY DEF Promise!Newest
<1>7. Queued'
    <2>1. Rising(handed', Promise!Newest)
        BY DEF Queued, Rising
    <2> QED
        BY <1>6, <2>1, Zenon DEF Queued, Rising
<1>8. NotifiedOnce'
    BY DEF NotifiedOnce
<1> QED
    BY <1>4, <1>5, <1>7, <1>8

LEMMA LedgerTake ==
    ASSUME LedgerInv, IngestInv', Take
    PROVE  LedgerInv'
<1> DEFINE n == Head(channel)
           outcome == IF ProgramOf(n) \in monitored THEN "stored" ELSE "dead"
<1>1. /\ channel # << >> /\ channel' = Tail(channel)
      /\ fate' = [fate EXCEPT ![n] = outcome]
      /\ UNCHANGED <<landed, notices, handed, conn, hand, inbox, live>>
    BY DEF Take, client, outside
<1>2. outcome \in {"lost", "stored", "dead"}
    OBVIOUS
<1> HIDE DEF outcome
<1>3. /\ Rising(Tail(channel), Promise!Newest) /\ n \in ToSet(channel)
      /\ ToSet(Tail(channel)) = ToSet(channel) \ {n}
    BY <1>1, RisingLosesItsHead DEF LedgerInv, Queued
<1>4. fate' = [k \in DOMAIN fate |-> IF k \in {n} THEN outcome ELSE fate[k]]
    BY <1>1 DEF LedgerInv, LedgerTypes
<1>5. {n} \in SUBSET ToSet(channel)
    BY <1>3
<1> HIDE DEF n
<1> QED
    BY <1>1, <1>2, <1>3, <1>4, <1>5, TakingStep

LEMMA LedgerPanic ==
    ASSUME LedgerInv, IngestInv', WorkerPanics
    PROVE  LedgerInv'
<1>1. /\ channel' = << >>
      /\ fate' = [n \in DOMAIN fate |-> IF n \in ToSet(channel) THEN "lost" ELSE fate[n]]
      /\ UNCHANGED <<landed, notices, handed, conn, hand, inbox, live>>
    BY DEF WorkerPanics, client, Lose
<1>2. Rising(channel', Promise!Newest)
    BY <1>1 DEF Rising
<1>3. ToSet(channel') = ToSet(channel) \ ToSet(channel)
    BY <1>1 DEF ToSet
<1> QED
    BY <1>1, <1>2, <1>3, TakingStep

LEMMA LedgerLand ==
    ASSUME LedgerInv, IngestInv', NEW t \in Shapes, Land(t)
    PROVE  LedgerInv'
<1> USE DEF LedgerInv
<1>0. PICK m \in Nat : TellsOf(t, m)
    BY LandTells
<1>1. PICK told \in [1 .. m -> 1 .. subs] :
          /\ \A k \in 1 .. m : ProgramIds[told[k]] \in Mentioned(t)
          /\ \A k, l \in 1 .. m : told[k] = told[l] => k = l
          /\ notices' = notices \o [k \in 1 .. m |-> [tx |-> Len(landed) + 1, via |-> told[k]]]
          /\ fate' = fate \o [k \in 1 .. m |-> "pending"]
          /\ inbox' = inbox \o [k \in 1 .. m |-> [kind |-> "log", n |-> Len(notices) + k]]
          /\ m # 0 => live
    BY <1>0, Zenon DEF TellsOf
<1>2. /\ landed' = Append(landed, t)
      /\ UNCHANGED <<conn, subs, hand, live, channel, handed>>
    BY DEF Land, client
<1> DEFINE L == Len(notices)
           tx == Len(landed) + 1
           new == [k \in 1 .. m |-> [tx |-> tx, via |-> told[k]]]
           waits == [k \in 1 .. m |-> "pending"]
           logs == [k \in 1 .. m |-> [kind |-> "log", n |-> L + k]]
<1>3. /\ L \in Nat /\ notices \in Seq(Notices) /\ landed \in Seq(Shapes) /\ inbox \in Seq(Messages)
      /\ fate \in Seq(Fates) /\ Len(fate) = L /\ tx \in Nat
      /\ subs \in 0 .. Len(ProgramIds) /\ DOMAIN notices = 1 .. L /\ DOMAIN fate = 1 .. L
    BY DEF IngestInv, Types, LedgerTypes
<1>4. /\ DOMAIN notices' = 1 .. L + m /\ Len(notices') = L + m
      /\ \A n \in 1 .. L : notices'[n] = notices[n]
      /\ \A k \in 1 .. m : notices'[L + k] = [tx |-> tx, via |-> told[k]]
    <2>1. \A k \in 1 .. m : told[k] \in Nat
        BY <1>1
    <2>2. new \in [1 .. m -> Notices]
        BY <1>3, <2>1 DEF Notices
    <2>3. \A k \in 1 .. m : new[k] = [tx |-> tx, via |-> told[k]]
        OBVIOUS
    <2> HIDE DEF new
    <2>4. new \in Seq(Notices) /\ Len(new) = m
        BY <2>2
    <2>5. notices' = notices \o new
        BY <1>1 DEF new
    <2>6. /\ notices \o new \in Seq(Notices) /\ Len(notices \o new) = Len(notices) + Len(new)
          /\ \A n \in 1 .. Len(notices) : (notices \o new)[n] = notices[n]
          /\ \A k \in 1 .. Len(new) : (notices \o new)[Len(notices) + k] = new[k]
        <3>1. notices \in Seq(Notices) /\ new \in Seq(Notices)
            BY <1>3, <2>4
        <3> QED
            BY <3>1, BothInARow, SMT
    <2>7. /\ notices' \in Seq(Notices) /\ Len(notices') = L + m
          /\ \A n \in 1 .. L : notices'[n] = notices[n]
          /\ \A k \in 1 .. m : notices'[L + k] = new[k]
        BY <2>4, <2>5, <2>6, Zenon
    <2>8. DOMAIN notices' = 1 .. L + m
        BY <2>7
    <2> QED
        BY <2>3, <2>7, <2>8
<1>5. /\ fate' \in Seq(Fates) /\ Len(fate') = L + m
      /\ \A n \in 1 .. L : fate'[n] = fate[n]
      /\ \A k \in 1 .. m : fate'[L + k] = "pending"
    <2>1. waits \in [1 .. m -> Fates] /\ \A k \in 1 .. m : waits[k] = "pending"
        BY DEF Fates
    <2> HIDE DEF waits
    <2>2. waits \in Seq(Fates) /\ Len(waits) = m
        BY <2>1
    <2>3. fate' = fate \o waits
        BY <1>1 DEF waits
    <2>4. /\ Len(fate') = L + m /\ fate' \in Seq(Fates)
          /\ \A n \in 1 .. L : fate'[n] = fate[n]
          /\ \A k \in 1 .. m : fate'[L + k] = waits[k]
        <3>1. /\ fate \o waits \in Seq(Fates) /\ Len(fate \o waits) = Len(fate) + Len(waits)
              /\ \A n \in 1 .. Len(fate) : (fate \o waits)[n] = fate[n]
              /\ \A k \in 1 .. Len(waits) : (fate \o waits)[Len(fate) + k] = waits[k]
            <4>1. fate \in Seq(Fates) /\ waits \in Seq(Fates)
                BY <1>3, <2>2
            <4> QED
                BY <4>1, BothInARow, SMT
        <3>2. Len(fate) = L
            BY <1>3
        <3> QED
            BY <2>2, <2>3, <3>1, <3>2, Zenon
    <2> QED
        BY <2>1, <2>4
<1>6. Numbers(inbox') = Numbers(inbox) \cup {L + k : k \in 1 .. m}
    <2>1. logs \in [1 .. m -> Messages]
        BY <1>3 DEF Messages
    <2>2. \A k \in 1 .. m : logs[k].kind = "log" /\ logs[k].n = L + k
        OBVIOUS
    <2>3. inbox' = inbox \o logs
        BY <1>1
    <2> HIDE DEF logs
    <2>4. logs \in Seq(Messages) /\ DOMAIN logs = 1 .. m
        BY <2>1
    <2>5. Numbers(logs) = {L + k : k \in 1 .. m}
        BY <2>2, <2>4 DEF Numbers
    <2> QED
        BY <1>3, <2>3, <2>4, <2>5, NumbersOfBoth
<1> HIDE DEF new, waits, logs, tx
<1>7. Waiting' = Waiting \cup {L + k : k \in 1 .. m}
    BY <1>2, <1>6 DEF Waiting
<1>8. \A n \in 1 .. L + m : n \in 1 .. L \/ (n - L \in 1 .. m /\ L + (n - L) = n /\ n > L)
    BY <1>3
<1>a. ASSUME NEW n \in 1 .. L + m
      PROVE  \/ n \in 1 .. L /\ notices'[n] = notices[n]
             \/ /\ n - L \in 1 .. m /\ L + (n - L) = n
                /\ notices'[n].tx = tx /\ notices'[n].via = told[n - L]
    <2>1. CASE n \in 1 .. L
        BY <1>4, <2>1
    <2>2. CASE n - L \in 1 .. m /\ L + (n - L) = n
        <3>1. notices'[L + (n - L)] = [tx |-> tx, via |-> told[n - L]]
            BY <1>4, <2>2
        <3>2. notices'[n] = [tx |-> tx, via |-> told[n - L]]
            BY <2>2, <3>1
        <3> QED
            BY <2>2, <3>2
    <2> QED
        BY <1>8, <2>1, <2>2
<1>9. /\ \A n \in Waiting : n \in 1 .. L
      /\ \A n \in ToSet(channel) : n \in 1 .. L
    <2>1. Promise!Newest \in 0 .. L
        BY DEF IngestInv, InTurn
    <2>2. \A n \in ToSet(channel) : n \in 1 .. Promise!Newest
        BY DEF Queued, Rising, ToSet
    <2> QED
        BY <1>3, <2>1, <2>2, WaitingIsNewer
<1>10. FatesMatch'
    <2>1. ASSUME NEW n \in 1 .. L
          PROVE  /\ fate'[n] = "pending" <=> n \in Waiting'
                 /\ fate'[n] = "sent" <=> n \in ToSet(channel')
        <3>1. n \notin {L + k : k \in 1 .. m}
            BY <1>3
        <3> QED
            BY <1>2, <1>3, <1>5, <1>7, <3>1 DEF FatesMatch
    <2>2. ASSUME NEW k \in 1 .. m
          PROVE  /\ fate'[L + k] = "pending" <=> L + k \in Waiting'
                 /\ fate'[L + k] = "sent" <=> L + k \in ToSet(channel')
        <3>1. L + k \notin 1 .. L
            BY <1>3
        <3> QED
            BY <1>2, <1>5, <1>7, <1>9, <3>1
    <2>3. ASSUME NEW n \in 1 .. L + m
          PROVE  /\ fate'[n] = "pending" <=> n \in Waiting'
                 /\ fate'[n] = "sent" <=> n \in ToSet(channel')
        <3>1. CASE n \in 1 .. L
            BY <2>1, <3>1
        <3>2. CASE n - L \in 1 .. m /\ L + (n - L) = n
            BY <2>2, <3>2
        <3> QED
            BY <1>8, <3>1, <3>2
    <2> QED
        BY <1>4, <2>3 DEF FatesMatch
<1>11. LedgerTypes'
    <2>1. m = 0 \/ conn' \notin {"connect", "sleep"}
        BY <1>1, <1>2 DEF LedgerTypes
    <2>2. m = 0 => inbox' = inbox
        <3>1. ASSUME m = 0
              PROVE  inbox' = inbox \o << >>
            BY <1>1, <3>1
        <3> QED
            BY <1>3, <3>1
    <2> QED
        BY <1>2, <1>4, <1>5, <2>1, <2>2 DEF LedgerTypes
<1>12. Queued'
    BY <1>2 DEF Queued, Rising, Promise!Newest
<1>13. /\ tx \in DOMAIN landed' /\ tx \notin DOMAIN landed /\ landed'[tx] = t
       /\ \A x \in DOMAIN landed : x \in DOMAIN landed' /\ landed'[x] = landed[x]
    BY <1>2, <1>3 DEF tx
<1>14. \A n \in 1 .. L : notices[n].tx \in DOMAIN landed
    BY <1>3 DEF NotifiedOnce
<1>15. NotifiedOnce'
    <2>1. ASSUME NEW n \in 1 .. L + m
          PROVE  /\ notices'[n].tx \in DOMAIN landed' /\ notices'[n].via \in DOMAIN ProgramIds
                 /\ ProgramIds[notices'[n].via] \in Mentioned(landed'[notices'[n].tx])
        <3>1. CASE n \in 1 .. L /\ notices'[n] = notices[n]
            BY <1>3, <1>13, <3>1 DEF NotifiedOnce
        <3>2. CASE n - L \in 1 .. m /\ notices'[n].tx = tx /\ notices'[n].via = told[n - L]
            <4>1. told[n - L] \in 1 .. subs /\ ProgramIds[told[n - L]] \in Mentioned(t)
                BY <1>1, <3>2
            <4>2. told[n - L] \in DOMAIN ProgramIds
                BY <1>3, <4>1, ConfiguredArePrograms
            <4> QED
                BY <1>13, <3>2, <4>1, <4>2
        <3> QED
            BY <1>a, <3>1, <3>2
    <2>2. ASSUME NEW i \in 1 .. L + m, NEW n \in 1 .. L + m, notices'[i] = notices'[n]
          PROVE  i = n
        <3> DEFINE Old(k) == k \in 1 .. L /\ notices'[k] = notices[k]
                   New(k) == /\ k - L \in 1 .. m /\ L + (k - L) = k
                             /\ notices'[k].tx = tx /\ notices'[k].via = told[k - L]
        <3>1. CASE Old(i) /\ Old(n)
            BY <1>3, <2>2, <3>1 DEF NotifiedOnce
        <3>2. CASE Old(i) /\ New(n)
            BY <1>13, <1>14, <2>2, <3>2
        <3>3. CASE New(i) /\ Old(n)
            BY <1>13, <1>14, <2>2, <3>3
        <3>4. CASE New(i) /\ New(n)
            <4>1. told[i - L] = told[n - L]
                BY <2>2, <3>4
            <4>2. i - L = n - L
                BY <1>1, <3>4, <4>1
            <4> QED
                BY <3>4, <4>2
        <3> QED
            BY <1>a, <3>1, <3>2, <3>3, <3>4
    <2> QED
        BY <1>4, <2>1, <2>2 DEF NotifiedOnce
<1> QED
    BY <1>10, <1>11, <1>12, <1>15

LEMMA LedgerNext ==
    ASSUME LedgerInv, IngestInv', [Next]_vars
    PROVE  LedgerInv'
<1>0. /\ hand.pc = "idle" => hand = Idle
      /\ conn \in {"connect", "sleep"} => ~live /\ inbox = << >>
      /\ inbox \in Seq(Messages) /\ hand \in Hands
    BY DEF LedgerInv, LedgerTypes, IngestInv, Types
<1>1. ASSUME NEW t \in Shapes, Land(t)
      PROVE  LedgerInv'
    BY <1>1, LedgerLand
<1>2. CASE Chatter
    <2>1. /\ UNCHANGED <<landed, notices, channel, handed, fate, hand, conn, live>>
          /\ inbox = << >> /\ inbox' = <<[kind |-> "other", n |-> 0]>> /\ conn = "read"
        BY <1>2 DEF Chatter, client, outside
    <2>2. \A i \in DOMAIN inbox' : inbox'[i] = [kind |-> "other", n |-> 0]
        BY <2>1
    <2>3. Numbers(inbox') = {}
        BY <2>2 DEF Numbers
    <2>4. Waiting' = Waiting
        BY <2>1, <2>3, NumbersOfNone DEF Waiting
    <2> QED
        BY <1>0, <2>1, <2>4, KeepingStep
<1>3. ASSUME NEW kind \in {"close", "error"}, Hang(kind)
      PROVE  LedgerInv'
    BY <1>3, LedgerHang
\* The queue, what is in hand, and the ledger stay as they are.
<1>4. ASSUME UNCHANGED <<landed, notices, channel, handed, fate, hand, inbox>>,
             conn' \in {"connect", "sleep"} => ~live' /\ inbox' = << >>
      PROVE  LedgerInv'
    <2>1. Waiting' = Waiting
        BY <1>4 DEF Waiting, Numbers
    <2> QED
        BY <1>0, <1>4, <2>1, KeepingStep
<1>5. CASE Connect
    BY <1>0, <1>4, <1>5 DEF Connect, outside
<1>6. CASE ConnectFails
    BY <1>0, <1>4, <1>6 DEF ConnectFails, End, outside
<1>7. CASE Subscribe
    BY <1>0, <1>4, <1>7 DEF Subscribe, outside
<1>8. CASE SubscribeFails
    BY <1>8, EndStep DEF SubscribeFails, outside
<1>9. CASE PongFails
    BY <1>9, EndStep DEF PongFails, outside
<1>10. CASE ReadEnd
    BY <1>10, EndStep DEF ReadEnd, outside
<1>11. CASE ReadNotice
    <2>1. /\ hand = Idle /\ inbox # << >> /\ Head(inbox).kind = "log" /\ inbox' = Tail(inbox)
          /\ hand' = [pc |-> "fetch", n |-> Head(inbox).n, attempts |-> 0]
          /\ conn' = "read"
          /\ UNCHANGED <<landed, notices, channel, handed, fate>>
        BY <1>11 DEF ReadNotice, Reading, outside
    <2>2. hand'.pc = "fetch" /\ hand'.n = Head(inbox).n /\ hand.pc = "idle"
        BY <2>1 DEF Idle
    <2>3. Numbers(inbox) = Numbers(inbox') \cup {Head(inbox).n}
        BY <1>0, <2>1, NumbersOfTail
    <2>4. Waiting' = Waiting
        BY <2>2, <2>3 DEF Waiting
    <2> QED
        BY <2>1, <2>2, <2>4, KeepingStep
<1>12. CASE ReadOther
    <2>1. /\ inbox # << >> /\ Head(inbox).kind = "other" /\ inbox' = Tail(inbox)
          /\ conn = "read"
          /\ UNCHANGED <<landed, notices, channel, handed, fate, hand, conn>>
        BY <1>12 DEF ReadOther, Reading, client, outside
    <2>2. Numbers(inbox') = Numbers(inbox)
        BY <1>0, <2>1, NumbersOfTail
    <2>3. Waiting' = Waiting
        BY <2>1, <2>2 DEF Waiting
    <2> QED
        BY <1>0, <2>1, <2>3, KeepingStep
<1>13. CASE Wake
    BY <1>0, <1>4, <1>13 DEF Wake, outside
<1>14. CASE FetchNull
    <2>1. /\ hand.pc = "fetch"
          /\ UNCHANGED <<landed, notices, channel, handed, inbox, conn, live>>
        BY <1>14 DEF FetchNull, outside
    <2>2. CASE Settle("lost")
        BY <2>1, <2>2, GiveUpStep
    <2>3. CASE hand' = [hand EXCEPT !.attempts = @ + 1] /\ fate' = fate
        <3>1. hand'.pc = "fetch" /\ hand'.n = hand.n
            BY <1>0, <2>1, <2>3 DEF Hands
        <3>2. Waiting' = Waiting
            BY <2>1, <3>1 DEF Waiting, Numbers
        <3> QED
            BY <1>0, <2>1, <2>3, <3>1, <3>2, KeepingStep
    <2> QED
        BY <1>14, <2>2, <2>3 DEF FetchNull
<1>15. CASE FetchFails
    BY <1>15, GiveUpStep DEF FetchFails, outside
<1>16. CASE SendFails
    BY <1>16, GiveUpStep DEF SendFails, outside
<1>17. CASE Fetched
    <2>1. /\ hand.pc = "fetch" /\ hand' = [hand EXCEPT !.pc = "send"]
          /\ UNCHANGED <<landed, notices, channel, handed, inbox, conn, live, fate>>
        BY <1>17 DEF Fetched, outside
    <2>2. hand'.pc = "send" /\ hand'.n = hand.n
        BY <1>0, <2>1 DEF Hands
    <2>3. Waiting' = Waiting
        BY <2>1, <2>2 DEF Waiting, Numbers
    <2> QED
        BY <1>0, <2>1, <2>2, <2>3, KeepingStep
<1>18. CASE Send
    BY <1>18, LedgerSend
<1>19. CASE Take
    BY <1>19, LedgerTake
<1>20. CASE WorkerPanics
    BY <1>20, LedgerPanic
<1>21. ASSUME NEW p \in Programs, EditPrograms(p)
       PROVE  LedgerInv'
    BY <1>0, <1>4, <1>21 DEF EditPrograms, client
<1>22. CASE UNCHANGED vars
    BY <1>0, <1>4, <1>22 DEF vars
<1>23. CASE Progress
    BY <1>7, <1>8, <1>9, <1>10, <1>11, <1>12, <1>13, <1>16, <1>18, <1>23 DEF Progress
<1>24. CASE Next
    BY <1>1, <1>2, <1>3, <1>5, <1>6, <1>14, <1>15, <1>17, <1>19, <1>20, <1>21,
       <1>23, <1>24 DEF Next
<1> QED
    BY <1>22, <1>24

-----------------------------------------------------------------------------
(* The results *)

\* What handle_message has sent comes before what it has in hand, and that before what
\* waits in the socket.
THEOREM IngestInvariant == Spec => []IngestInv
<1> QED
    BY IngestInit, IngestNext, PTL DEF Spec

\* Through retries, broken sockets and a full channel, handle_message sends each
\* notification into the channel at most once, in the order the node sent them.
THEOREM ImplementsDelivery == Spec => DeliversInOrder
<1> QED
    BY IngestInit, IngestNext, IngestInvariant, PTL DEF Spec, DeliversInOrder, Promise!Spec

\* The fate of each notification says where it is, and the channel holds them in the
\* order in which handle_message sent them.
THEOREM LedgerInvariant == Spec => []LedgerInv
<1>1. LedgerInv /\ [Next]_vars => LedgerInv'
    BY LedgerNext, IngestNext DEF LedgerInv
<1> QED
    BY <1>1, LedgerInit, PTL DEF Spec

\* Whatever the socket, the node and the worker do, no notification is forgotten or in
\* two places (client.rs:73-148).
THEOREM EachHasItsFate == Spec => []Accounted
<1>1. LedgerInv => Accounted
    <2> SUFFICES ASSUME LedgerInv, NEW n \in DOMAIN notices
                 PROVE  /\ fate[n] = "pending" <=> (n \in Numbers(inbox) \/ (hand # Idle /\ hand.n = n))
                        /\ fate[n] = "sent" <=> n \in ToSet(channel)
                        /\ (hand # Idle /\ hand.n = n) => n \notin Numbers(inbox)
        BY Zenon DEF Accounted
    <2>1. hand = Idle <=> hand.pc = "idle"
        BY DEF LedgerInv, LedgerTypes, Idle
    <2>2. /\ fate[n] = "pending" <=> n \in Waiting
          /\ fate[n] = "sent" <=> n \in ToSet(channel)
        BY DEF LedgerInv, FatesMatch
    <2>3. hand.pc # "idle" => hand.n \notin Numbers(inbox)
        BY WaitingIsNewer DEF LedgerInv
    <2> QED
        BY <2>1, <2>2, <2>3 DEF Waiting
<1> QED
    BY <1>1, LedgerInvariant, PTL

LEMMA MinOfNats ==
    ASSUME NEW I \in SUBSET Nat, I # {}
    PROVE  Min(I) \in I /\ \A y \in I : Min(I) <= y
<1> DEFINE R == OpToRel(<, Nat)
<1>1. \E x \in I : \A y \in I : ~(<<y, x>> \in R)
    BY NatLessThanWellFounded, WFMin
<1>2. \A x, y \in Nat : y < x => <<y, x>> \in R
    BY DEF OpToRel
<1> HIDE DEF R
<1>3. PICK x \in I : \A y \in I : ~(<<y, x>> \in R)
    BY <1>1
<1>4. ASSUME NEW y \in I
      PROVE  x <= y
    <2>1. x \in Nat /\ y \in Nat /\ ~(y < x)
        BY <1>2, <1>3
    <2> QED
        BY <2>1
<1>5. \E z \in I : \A y \in I : z <= y
    BY <1>4
<1> QED
    BY <1>5 DEF Min

\* The first of the calls at top level of a program of the start, as parse_transaction
\* finds it.
LEMMA AttributedToTheFirst ==
    ASSUME NEW t \in [top : Seq(Programs), nested : SUBSET Programs]
    PROVE  LET mine == {j \in DOMAIN t.top : t.top[j] \in Configured}
           IN  mine # {} => \E i \in mine : Attributed(t) = t.top[i] /\ \A j \in mine : i <= j
<1> DEFINE mine == {j \in 1 .. Len(t.top) : t.top[j] \in Configured}
           at == SelectInSeq(t.top, LAMBDA p : p \in Configured)
<1>1. at = IF mine # {} THEN Min(mine) ELSE 0
    BY Zenon DEF SelectInSeq
<1>2. ASSUME mine # {}
      PROVE  \E i \in mine : Attributed(t) = t.top[i] /\ \A j \in mine : i <= j
    <2>1. mine \in SUBSET Nat
        OBVIOUS
    <2>2. Attributed(t) = IF at # 0 THEN t.top[at]
                          ELSE IF t.top # << >> THEN Head(t.top) ELSE NoProgram
        BY Zenon DEF Attributed
    <2> HIDE DEF mine, at
    <2>3. at = Min(mine)
        BY <1>1, <1>2
    <2>4. at \in mine /\ \A j \in mine : at <= j
        BY <1>2, <2>1, <2>3, MinOfNats, Zenon
    <2>5. at # 0
        BY <2>4 DEF mine
    <2> QED
        BY <2>2, <2>4, <2>5
<1>3. DOMAIN t.top = 1 .. Len(t.top)
    OBVIOUS
<1> QED
    BY <1>2, <1>3

\* parse_transaction attributes what handle_message sends to the first program of the
\* start it calls at top level, and each subscription sends a transaction once.
THEOREM OnlyThroughSubscriptions == Spec => []ComesThroughSubscriptions
<1>1. LedgerInv => ComesThroughSubscriptions
    <2> SUFFICES ASSUME LedgerInv
                 PROVE  ComesThroughSubscriptions
        OBVIOUS
    <2> USE DEF LedgerInv
    <2>1. \A k \in DOMAIN handed : handed[k] \in DOMAIN notices
        <3>1. Promise!Newest \in 0 .. Len(notices) /\ DOMAIN notices = 1 .. Len(notices)
              /\ Len(notices) \in Nat
            BY DEF IngestInv, Types, InTurn
        <3>2. \A k \in DOMAIN handed : handed[k] \in 1 .. Promise!Newest
            BY DEF Queued, Rising
        <3> QED
            BY <3>1, <3>2
    <2>2. ASSUME NEW k \in DOMAIN handed, NEW l \in DOMAIN handed,
                 notices[handed[k]] = notices[handed[l]]
          PROVE  k = l
        <3>1. handed[k] = handed[l]
            BY <2>1, <2>2 DEF NotifiedOnce
        <3>2. DOMAIN handed = 1 .. Len(handed) /\ Len(handed) \in Nat
            BY DEF Queued, Rising
        <3>3. handed[k] \in Nat /\ (k < l => handed[k] < handed[l]) /\ (l < k => handed[l] < handed[k])
            BY DEF Queued, Rising
        <3>4. k \in Int /\ l \in Int /\ ~(k < l) /\ ~(l < k)
            BY <3>1, <3>2, <3>3
        <3> QED
            BY <3>4
    <2>3. ASSUME NEW n \in ToSet(handed)
          PROVE  LET t == landed[notices[n].tx]
                     mine == {j \in DOMAIN t.top : t.top[j] \in Configured}
                 IN  \/ \E i \in mine : ProgramOf(n) = t.top[i] /\ \A j \in mine : i <= j
                     \/ mine = {} /\ ProgramIds[notices[n].via] \in t.nested
        <3> DEFINE t == landed[notices[n].tx]
                   mine == {j \in DOMAIN t.top : t.top[j] \in Configured}
                   via == ProgramIds[notices[n].via]
        <3>1. n \in DOMAIN notices
            BY <2>1, <2>3 DEF ToSet
        <3>2. /\ notices[n].tx \in DOMAIN landed /\ notices[n].via \in DOMAIN ProgramIds
              /\ via \in Mentioned(t)
            BY <3>1 DEF NotifiedOnce
        <3>3. t \in [top : Seq(Programs), nested : SUBSET Programs]
            <4>1. landed \in Seq(Shapes)
                BY DEF IngestInv, Types
            <4>2. t \in Shapes
                BY <3>2, <4>1
            <4> QED
                BY <4>2, ShapesAreTxs
        <3>4. via \in Configured
            BY <3>2 DEF Configured, ToSet
        <3>5. mine = {} => via \in t.nested
            BY <3>2, <3>4 DEF Mentioned, ToSet
        <3>6. ProgramOf(n) = Attributed(t)
            BY DEF ProgramOf
        <3> HIDE DEF t
        <3>7. mine # {} => \E i \in mine : Attributed(t) = t.top[i] /\ \A j \in mine : i <= j
            BY <3>3, AttributedToTheFirst
        <3>8. \/ \E i \in mine : ProgramOf(n) = t.top[i] /\ \A j \in mine : i <= j
              \/ mine = {} /\ via \in t.nested
            BY <3>5, <3>6, <3>7
        <3> QED
            BY <3>8 DEF t
    <2> QED
        BY <2>2, <2>3, Zenon DEF ComesThroughSubscriptions
<1> QED
    BY <1>1, LedgerInvariant, PTL
=============================================================================
