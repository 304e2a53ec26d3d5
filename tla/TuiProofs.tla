------------------------------ MODULE TuiProofs ------------------------------
(***************************************************************************)
(* Proofs about TuiApp for every size of the feeds and of the rings, all   *)
(* panels and ways to wrap their lines, and any number of items, programs  *)
(* and events.                                                             *)
(*                                                                         *)
(* Two inductive invariants: FeedInv relates each feed and its receiver to *)
(* what was sent; ScreenInv relates a fresh frame to what it was drawn     *)
(* from, until an event makes it stale.                                    *)
(***************************************************************************)
EXTENDS TuiApp, SequenceTheorems, WellFoundedInduction, TLAPS

Items == [n : Nat \ {0}, program : Programs]

\* A feed that has taken in everything up to the number newest.
Held(list, newest, cap) ==
    /\ list \in Seq(Items)
    /\ \A i, j \in DOMAIN list : i < j => list[i].n > list[j].n
    /\ \A i \in DOMAIN list : list[i].n <= newest
    /\ Len(list) <= cap

\* What waits for the receiver are the last numbers sent.
Waiting(q, count) ==
    /\ q \in [items : Seq(Items), lagged : BOOLEAN]
    /\ Len(q.items) <= Ring /\ Len(q.items) <= count
    /\ \A k \in DOMAIN q.items : q.items[k].n = count - Len(q.items) + k

TakenIn(q, count) == count - Len(q.items)

Fed(list, q, count, cap) ==
    /\ count \in Nat
    /\ Waiting(q, count)
    /\ Held(list, TakenIn(q, count), cap)
    /\ ~q.lagged => Leads(list, TakenIn(q, count), TakenIn(q, count), cap)
    /\ Len(q.items) < Ring => Leads(list, Ring, TakenIn(q, count), cap)

FeedInv ==
    /\ sent.txs <= MaxTxs
    /\ sent \in [txs : Nat, alerts : Nat, edits : Nat]
    /\ Fed(txs, txq, sent.txs, MaxFeed)
    /\ Fed(alerts, alertq, sent.alerts, MaxAlerts)

TxItems == {item \in Items : item.n \in 1 .. MaxTxs}

ScreenTypes ==
    /\ selected \in Nat /\ scroll \in Nat /\ cursor \in Nat
    /\ \/ view = Dashboard
       \/ view.kind = "tx" /\ view.item \in TxItems
       \/ view.kind = "alert"
    /\ cells \in [rect : Rects \cup {NoRect}, start : Nat, len : Nat]

\* Until an event, the highlighted item is the selected one of the panel's list.
ShownIsListed ==
    fresh => shown = (IF view.kind = "dashboard"
                      THEN Highlighted(Listed(panel, txs, alerts, focus, programs))
                      ELSE view.item)

\* The cells are those of the frame, wherever there is data to click on.
CellsAreDrawn ==
    fresh /\ Exploring /\ ShownLen(view.item) > 0 =>
        cells.rect \in Rects /\ cells.start = HexStart /\ cells.len = ShownLen(view.item)

CursorOnData ==
    view.kind = "tx" /\ ShownLen(view.item) > 0 => cursor < ShownLen(view.item)

ScreenInv == ScreenTypes /\ ShownIsListed /\ CellsAreDrawn /\ CursorOnData

-----------------------------------------------------------------------------
(* What is computed item by item *)

LEMMA LeastOfNats ==
    ASSUME NEW I \in SUBSET Nat, I # {}
    PROVE  \E z \in I : \A y \in I : z <= y
<1> DEFINE R == OpToRel(<, Nat)
<1>1. \E x \in I : \A y \in I : ~(<<y, x>> \in R)
    BY NatLessThanWellFounded, WFMin
<1>2. \A x, y \in Nat : y < x => <<y, x>> \in R
    BY DEF OpToRel
<1> HIDE DEF R
<1>3. PICK x \in I : \A y \in I : ~(<<y, x>> \in R)
    BY <1>1
<1>4. ASSUME NEW y \in I
      PROVE  x <= y
    <2>1. x \in Nat /\ y \in Nat /\ ~(y < x)
        BY <1>2, <1>3
    <2> QED
        BY <2>1
<1> QED
    BY <1>4

\* A set of steps that holds the first and with each one the next holds all.
LEMMA AllSteps ==
    ASSUME NEW last \in Nat, NEW Done \in SUBSET Nat,
           0 \in Done,
           \A k \in 1 .. last : k - 1 \in Done => k \in Done
    PROVE  \A k \in 0 .. last : k \in Done
<1> SUFFICES ASSUME (0 .. last) \ Done # {}
             PROVE  FALSE
    OBVIOUS
<1>1. PICK z \in (0 .. last) \ Done : \A y \in (0 .. last) \ Done : z <= y
    BY LeastOfNats, (0 .. last) \ Done \in SUBSET Nat
<1>2. z \in 1 .. last
    BY <1>1
<1>3. z - 1 \in Done
    BY <1>1, <1>2
<1> QED
    BY <1>1, <1>2, <1>3

StepsFrom(g, start, step, last) ==
    \A k \in 0 .. last : g[k] = IF k = 0 THEN start ELSE step[k][g[k - 1]]

\* Steps numbered 1 to last, each applied to what the one before left, define a
\* function of the number of steps.
LEMMA StepsDefine ==
    ASSUME NEW last \in Nat, NEW States, NEW start \in States,
           NEW step \in [1 .. last -> [States -> States]]
    PROVE  \E g \in [0 .. last -> States] : StepsFrom(g, start, step, last)
<1> DEFINE Follows(g, m) ==
               \A k \in 0 .. m : g[k] = IF k = 0 THEN start ELSE step[k][g[k - 1]]
           Done == {m \in Nat : \E g \in [0 .. m -> States] : m <= last => Follows(g, m)}
<1>1. 0 \in Done
    <2> DEFINE g == [k \in 0 .. 0 |-> start]
    <2>1. g \in [0 .. 0 -> States] /\ Follows(g, 0)
        OBVIOUS
    <2> HIDE DEF g
    <2> QED
        BY <2>1
<1>2. ASSUME NEW m \in 1 .. last, m - 1 \in Done
      PROVE  m \in Done
    <2>1. PICK g \in [0 .. m - 1 -> States] : Follows(g, m - 1)
        BY <1>2
    <2> DEFINE next == [k \in 0 .. m |-> IF k = m THEN step[m][g[m - 1]] ELSE g[k]]
    <2>2. step[m][g[m - 1]] \in States
        BY <2>1
    <2>3. next \in [0 .. m -> States]
        BY <2>1, <2>2
    <2>4. ASSUME NEW k \in 0 .. m
          PROVE  next[k] = IF k = 0 THEN start ELSE step[k][next[k - 1]]
        <3>1. CASE k = m
            <4>1. next[k] = step[k][g[k - 1]] /\ next[k - 1] = g[k - 1] /\ k # 0
                BY <3>1
            <4> QED
                BY <4>1, Zenon
        <3>2. CASE k # m /\ k # 0
            <4>1. next[k] = g[k] /\ next[k - 1] = g[k - 1] /\ k \in 0 .. m - 1
                BY <3>2
            <4>2. g[k] = step[k][g[k - 1]]
                BY <4>1, <3>2, <2>1, Zenon
            <4> QED
                BY <4>1, <4>2, <3>2, Zenon
        <3>3. CASE k = 0
            <4>1. next[k] = g[k] /\ k \in 0 .. m - 1
                BY <3>3
            <4> QED
                BY <4>1, <3>3, <2>1, Zenon
        <3> QED
            BY <3>1, <3>2, <3>3
    <2> HIDE DEF next
    <2>5. \E f \in [0 .. m -> States] : m <= last => Follows(f, m)
        BY <2>3, <2>4, Zenon
    <2>6. m \in Nat
        OBVIOUS
    <2> QED
        BY <2>5, <2>6, Zenon
<1>3. last \in Done
    <2> HIDE DEF Done
    <2>1. Done \in SUBSET Nat
        BY DEF Done
    <2>2. \A k \in 0 .. last : k \in Done
        BY <1>1, <1>2, <2>1, AllSteps, Zenon
    <2> QED
        BY <2>2
<1> QED
    BY <1>3 DEF StepsFrom

-----------------------------------------------------------------------------
(* The feeds *)

\* An insertion at the limit drops the last, which is the oldest.
LEMMA InsertKeeps ==
    ASSUME NEW cap \in Nat \ {0}, NEW newest \in Nat, NEW list, Held(list, newest, cap),
           NEW item \in Items, item.n = newest + 1
    PROVE  LET l == Insert(list, item, cap)
           IN  /\ Held(l, newest + 1, cap)
               /\ \A m \in Nat : Leads(list, m, newest, cap) => Leads(l, m + 1, newest + 1, cap)
<1> DEFINE longer == <<item>> \o list
           l == Insert(list, item, cap)
<1>1. list \in Seq(Items) /\ Len(list) \in 0 .. cap /\ DOMAIN list = 1 .. Len(list)
    BY DEF Held
<1>0. /\ \A i \in DOMAIN list : list[i] \in Items /\ list[i].n \in Nat /\ list[i].n <= newest
      /\ \A i, j \in DOMAIN list : i < j => list[i].n > list[j].n
    <2>1. \A i \in DOMAIN list : list[i] \in Items
        BY <1>1
    <2> QED
        BY <2>1 DEF Held, Items
<1>2. /\ longer \in Seq(Items) /\ Len(longer) = Len(list) + 1
      /\ longer[1] = item
      /\ \A i \in 2 .. Len(list) + 1 : longer[i] = list[i - 1]
    BY <1>1
<1>3. l = IF Len(longer) > cap THEN SubSeq(longer, 1, Len(longer) - 1) ELSE longer
    BY DEF Insert, Front
<1> HIDE DEF longer, l
<1>4. /\ l \in Seq(Items)
      /\ Len(l) = (IF Len(list) < cap THEN Len(list) + 1 ELSE cap)
      /\ \A i \in 1 .. Len(l) : l[i] = longer[i]
    <2>1. CASE Len(longer) > cap
        <3>1. \A i \in 1 .. Len(longer) - 1 : longer[i] \in Items
            BY <1>2
        <3>2. /\ SubSeq(longer, 1, Len(longer) - 1) \in Seq(Items)
              /\ Len(SubSeq(longer, 1, Len(longer) - 1)) = Len(longer) - 1
              /\ \A i \in 1 .. Len(longer) - 1 :
                    SubSeq(longer, 1, Len(longer) - 1)[i] = longer[i]
            BY <3>1, <1>1, <1>2, <2>1, SubSeqProperties
        <3> QED
            BY <3>2, <1>1, <1>2, <1>3, <2>1
    <2>2. CASE ~(Len(longer) > cap)
        BY <1>1, <1>2, <1>3, <2>2
    <2> QED
        BY <2>1, <2>2
<1>5. l # << >> /\ l[1] = item /\ DOMAIN l = 1 .. Len(l)
    BY <1>1, <1>2, <1>4
<1>6. \A i \in DOMAIN l : l[i].n <= newest + 1
    <2> SUFFICES ASSUME NEW i \in DOMAIN l
                 PROVE  l[i].n <= newest + 1
        OBVIOUS
    <2>1. CASE i = 1
        BY <1>5, <2>1
    <2>2. CASE i # 1
        <3>1. i - 1 \in DOMAIN list /\ l[i] = list[i - 1]
            BY <1>1, <1>2, <1>4, <1>5, <2>2
        <3> QED
            BY <3>1, <1>0
    <2> QED
        BY <2>1, <2>2
<1>7. ASSUME NEW i \in DOMAIN l, NEW j \in DOMAIN l, i < j
      PROVE  l[i].n > l[j].n
    <2>0. /\ i \in 1 .. Len(l) /\ j \in 1 .. Len(l) /\ Len(l) <= Len(list) + 1
          /\ l[i] = longer[i] /\ l[j] = longer[j]
        BY <1>1, <1>4, <1>5
    <2>1. j \in 2 .. Len(list) + 1 /\ j - 1 \in DOMAIN list /\ l[j] = list[j - 1]
        BY <1>1, <1>2, <1>7, <2>0
    <2>2. list[j - 1].n <= newest /\ list[j - 1].n \in Nat
        BY <2>1, <1>0
    <2>3. CASE i = 1
        BY <2>1, <2>2, <2>3, <1>5
    <2>4. CASE i # 1
        <3>1. i - 1 \in DOMAIN list /\ l[i] = list[i - 1] /\ i - 1 < j - 1
            BY <1>1, <1>2, <1>7, <2>0, <2>4
        <3> QED
            BY <3>1, <2>1, <1>0
    <2> QED
        BY <2>3, <2>4
<1>8. Len(l) <= cap
    BY <1>1, <1>4
<1>9. Held(l, newest + 1, cap)
    BY <1>4, <1>6, <1>7, <1>8 DEF Held
<1>10. ASSUME NEW m \in Nat, Leads(list, m, newest, cap)
       PROVE  Leads(l, m + 1, newest + 1, cap)
    <2> SUFFICES ASSUME NEW i \in 1 .. m + 1, i <= newest + 1, i <= cap
                 PROVE  i <= Len(l) /\ l[i].n = (newest + 1) - i + 1
        BY DEF Leads
    <2>1. CASE i = 1
        BY <1>1, <1>4, <1>5, <2>1
    <2>2. CASE i # 1
        <3>1. i - 1 \in 1 .. m /\ i - 1 <= newest /\ i - 1 <= cap
            BY <2>2
        <3>2. i - 1 <= Len(list) /\ list[i - 1].n = newest - (i - 1) + 1
            BY <1>10, <3>1, Zenon DEF Leads
        <3>3. i \in 2 .. Len(list) + 1 /\ i <= Len(l) /\ i \in 1 .. Len(l)
            BY <1>1, <1>4, <2>2, <3>2
        <3>4. l[i] = list[i - 1]
            BY <1>2, <1>4, <3>3
        <3> QED
            BY <3>2, <3>3, <3>4
    <2> QED
        BY <2>1, <2>2
<1> QED
    BY <1>9, <1>10, Zenon DEF l

\* The loop of poll_updates inserts the items one after the other.
LEMMA DrainInserts ==
    ASSUME NEW list \in Seq(Items), NEW q, q.items \in Seq(Items), NEW cap \in Nat \ {0}
    PROVE  \E after : /\ after = [k \in 0 .. Len(q.items) |->
                                     IF k = 0 THEN list
                                     ELSE Insert(after[k - 1], q.items[k], cap)]
                      /\ Drain(list, q, cap) = after[Len(q.items)]
<1> DEFINE last == Len(q.items)
           step == [k \in 1 .. last |-> [l \in Seq(Items) |-> Insert(l, q.items[k], cap)]]
<1>1. \A l \in Seq(Items), item \in Items : Insert(l, item, cap) \in Seq(Items)
    <2> SUFFICES ASSUME NEW l \in Seq(Items), NEW item \in Items
                 PROVE  Insert(l, item, cap) \in Seq(Items)
        OBVIOUS
    <2> DEFINE longer == <<item>> \o l
    <2>1. longer \in Seq(Items)
        OBVIOUS
    <2>2. Insert(l, item, cap) = IF Len(longer) > cap THEN SubSeq(longer, 1, Len(longer) - 1) ELSE longer
        BY DEF Insert, Front
    <2> HIDE DEF longer
    <2>3. SubSeq(longer, 1, Len(longer) - 1) \in Seq(Items)
        BY <2>1, SubSeqProperties, \A i \in 1 .. Len(longer) - 1 : longer[i] \in Items
    <2> QED
        BY <2>1, <2>2, <2>3
<1>2. last \in Nat /\ \A k \in 1 .. last : q.items[k] \in Items
    OBVIOUS
<1>3. step \in [1 .. last -> [Seq(Items) -> Seq(Items)]]
    BY <1>1, <1>2
<1>4. PICK g \in [0 .. last -> Seq(Items)] :
          StepsFrom(g, list, step, last)
    <2> HIDE DEF last, step
    <2>1. last \in Nat
        BY <1>2
    <2> QED
        BY <2>1, <1>3, StepsDefine
<1>5. ASSUME NEW k \in 0 .. last
      PROVE  g[k] = IF k = 0 THEN list ELSE Insert(g[k - 1], q.items[k], cap)
    <2>1. g[k] = IF k = 0 THEN list ELSE step[k][g[k - 1]]
        BY <1>4, Zenon DEF StepsFrom
    <2>2. CASE k # 0
        <3>1. k \in 1 .. last /\ g[k - 1] \in Seq(Items)
            <4> HIDE DEF last, step
            <4> QED
                BY <1>2, <1>4, <2>2
        <3>2. step[k][g[k - 1]] = Insert(g[k - 1], q.items[k], cap)
            BY <3>1, Zenon
        <3> QED
            BY <3>2, <2>1, <2>2, Zenon
    <2> QED
        BY <2>1, <2>2
<1>6. g = [k \in 0 .. last |-> IF k = 0 THEN list ELSE Insert(g[k - 1], q.items[k], cap)]
    <2>1. g = [k \in 0 .. last |-> g[k]]
        <3> HIDE DEF last
        <3> QED
            BY <1>4, Zenon
    <2> QED
        BY <2>1, <1>5, Zenon
<1> DEFINE h == CHOOSE f : f = [k \in 0 .. Len(q.items) |->
                  IF k = 0 THEN list ELSE Insert(f[k - 1], q.items[k], cap)]
<1>7. h = [k \in 0 .. Len(q.items) |->
             IF k = 0 THEN list ELSE Insert(h[k - 1], q.items[k], cap)]
    BY <1>6, Zenon
<1>8. Drain(list, q, cap) = h[Len(q.items)]
    BY Zenon DEF Drain
<1> HIDE DEF h
<1> QED
    BY <1>7, <1>8, Zenon

LEMMA WaitingNumbers ==
    ASSUME NEW q, NEW count, Waiting(q, count)
    PROVE  /\ q.items \in Seq(Items) /\ Len(q.items) \in Nat
           /\ Len(q.items) <= Ring /\ Len(q.items) <= count
           /\ \A k \in 1 .. Len(q.items) :
                 q.items[k] \in Items /\ q.items[k].n = count - Len(q.items) + k
<1>1. q.items \in Seq(Items) /\ Len(q.items) <= Ring /\ Len(q.items) <= count
    <2>1. q \in [items : Seq(Items), lagged : BOOLEAN]
        BY DEF Waiting
    <2> QED
        BY <2>1 DEF Waiting
<1>2. Len(q.items) \in Nat /\ DOMAIN q.items = 1 .. Len(q.items)
    BY <1>1
<1>3. \A k \in 1 .. Len(q.items) : q.items[k] \in Items
    BY <1>1
<1>4. \A k \in 1 .. Len(q.items) : q.items[k].n = count - Len(q.items) + k
    BY <1>2, Zenon DEF Waiting
<1> QED
    BY <1>1, <1>2, <1>3, <1>4

LEMMA LeadsLess ==
    ASSUME NEW list, NEW m \in Nat, NEW few \in Nat, few <= m, NEW count, NEW cap,
           Leads(list, m, count, cap)
    PROVE  Leads(list, few, count, cap)
    BY DEF Leads

\* A frame takes in all that waited.
LEMMA DrainKeeps ==
    ASSUME NEW list, NEW q, NEW count, NEW cap \in Nat \ {0}, Fed(list, q, count, cap)
    PROVE  Fed(Drain(list, q, cap), [q EXCEPT !.items = << >>], count, cap)
<1> DEFINE last == Len(q.items)
           base == TakenIn(q, count)
           drained == [q EXCEPT !.items = << >>]
<1>1. /\ q.items \in Seq(Items) /\ last \in Nat /\ count \in Nat
      /\ base \in Nat /\ base = count - last
      /\ \A k \in 1 .. last : q.items[k] \in Items /\ q.items[k].n = base + k
    <2>1. count \in Nat /\ Waiting(q, count) /\ base = count - last
        BY DEF Fed, TakenIn
    <2> HIDE DEF last, base
    <2>2. /\ q.items \in Seq(Items) /\ last \in Nat /\ last <= count
          /\ \A k \in 1 .. last : q.items[k] \in Items /\ q.items[k].n = count - last + k
        BY <2>1, WaitingNumbers, Zenon DEF last
    <2> QED
        BY <2>1, <2>2
<1>2. list \in Seq(Items) /\ Held(list, base, cap)
    BY DEF Fed, Held
<1>3. PICK after : /\ after = [k \in 0 .. Len(q.items) |->
                                 IF k = 0 THEN list ELSE Insert(after[k - 1], q.items[k], cap)]
                   /\ Drain(list, q, cap) = after[Len(q.items)]
    BY <1>1, <1>2, DrainInserts, Zenon
<1>4. after[0] = list /\ \A k \in 1 .. last : after[k] = Insert(after[k - 1], q.items[k], cap)
    <2>1. \A k \in 0 .. Len(q.items) :
             after[k] = IF k = 0 THEN list ELSE Insert(after[k - 1], q.items[k], cap)
        BY <1>3, Zenon
    <2>2. 0 \in 0 .. Len(q.items) /\ \A k \in 1 .. last : k \in 0 .. Len(q.items) /\ k # 0
        BY <1>1
    <2> QED
        BY <2>1, <2>2, Zenon
<1> HIDE DEF last, base
<1> DEFINE Good(k) == /\ Held(after[k], base + k, cap)
                      /\ \A m \in Nat : Leads(list, m, base, cap)
                                          => Leads(after[k], m + k, base + k, cap)
           Done == {k \in Nat : k <= last => Good(k)}
<1>5. 0 \in Done
    <2>1. base + 0 = base /\ \A m \in Nat : m + 0 = m
        BY <1>1
    <2>2. Good(0)
        BY <1>2, <1>4, <2>1, Zenon
    <2> QED
        BY <2>2
<1>6. ASSUME NEW k \in 1 .. last, k - 1 \in Done
      PROVE  k \in Done
    <2>1. k \in Nat /\ k - 1 \in Nat /\ base + (k - 1) \in Nat /\ base + (k - 1) + 1 = base + k
        BY <1>1
    <2>2. Good(k - 1)
        BY <1>1, <1>6
    <2> HIDE DEF Good
    <2>3. Held(after[k - 1], base + (k - 1), cap)
        BY <2>2 DEF Good
    <2>4. q.items[k] \in Items /\ q.items[k].n = base + (k - 1) + 1
        BY <1>1, <2>1
    <2>5. /\ Held(after[k], base + (k - 1) + 1, cap)
          /\ \A m \in Nat : Leads(after[k - 1], m, base + (k - 1), cap)
                              => Leads(after[k], m + 1, base + (k - 1) + 1, cap)
        <3>1. after[k] = Insert(after[k - 1], q.items[k], cap)
            BY <1>4
        <3>2. LET l == Insert(after[k - 1], q.items[k], cap)
              IN  /\ Held(l, base + (k - 1) + 1, cap)
                  /\ \A m \in Nat : Leads(after[k - 1], m, base + (k - 1), cap)
                                      => Leads(l, m + 1, base + (k - 1) + 1, cap)
            BY <2>1, <2>3, <2>4, InsertKeeps
        <3> QED
            BY <3>1, <3>2
    <2>6. Held(after[k], base + k, cap)
        BY <2>1, <2>5
    <2>7. ASSUME NEW m \in Nat, Leads(list, m, base, cap)
          PROVE  Leads(after[k], m + k, base + k, cap)
        <3>1. Leads(after[k - 1], m + (k - 1), base + (k - 1), cap)
            BY <2>2, <2>7, Zenon DEF Good
        <3>2. m + (k - 1) \in Nat /\ m + (k - 1) + 1 = m + k
            BY <2>1
        <3>3. Leads(after[k], m + (k - 1) + 1, base + (k - 1) + 1, cap)
            BY <2>5, <3>1, <3>2, Zenon
        <3> QED
            BY <2>1, <3>2, <3>3
    <2>8. Good(k)
        BY <2>6, <2>7, Zenon DEF Good
    <2> QED
        BY <2>1, <2>8
<1>7. last \in Done
    <2> HIDE DEF Done
    <2>1. Done \in SUBSET Nat
        BY DEF Done
    <2>2. \A k \in 0 .. last : k \in Done
        BY <1>1, <1>5, <1>6, <2>1, AllSteps, Zenon
    <2> QED
        BY <2>2, <1>1
<1>8. Good(last) /\ base + last = count /\ Drain(list, q, cap) = after[last]
    <2>1. Good(last) /\ base + last = count
        BY <1>1, <1>7
    <2>2. Drain(list, q, cap) = after[last]
        BY <1>3, Zenon DEF last
    <2> QED
        BY <2>1, <2>2
<1> DEFINE all == Drain(list, q, cap)
<1> HIDE DEF all, drained, Good
<1>9. /\ Held(all, count, cap)
      /\ \A m \in Nat : Leads(list, m, base, cap) => Leads(all, m + last, count, cap)
    BY <1>8, Zenon DEF Good, all
<1>10. drained.items = << >> /\ drained.lagged = q.lagged
       /\ TakenIn(drained, count) = count /\ Waiting(drained, count)
    <2>1. q \in [items : Seq(Items), lagged : BOOLEAN]
        BY DEF Fed, Waiting
    <2>2. /\ drained \in [items : Seq(Items), lagged : BOOLEAN]
          /\ drained.items = << >> /\ drained.lagged = q.lagged
        <3>1. << >> \in Seq(Items)
            OBVIOUS
        <3>2. drained = [items |-> << >>, lagged |-> q.lagged] /\ q.lagged \in BOOLEAN
            BY <2>1 DEF drained
        <3> QED
            BY <3>1, <3>2
    <2> QED
        BY <2>2, <1>1, LimitsArePositive DEF TakenIn, Waiting
<1>11. ~q.lagged => Leads(all, count, count, cap)
    <2>1. ~q.lagged => Leads(list, base, base, cap)
        BY Zenon DEF Fed, base
    <2> QED
        BY <1>1, <1>8, <1>9, <2>1
<1>12. Leads(all, Ring, count, cap)
    <2>0. Ring \in Nat /\ last <= Ring
        BY LimitsArePositive, WaitingNumbers DEF Fed, last
    <2>1. PICK m \in Nat : Leads(list, m, base, cap) /\ m + last >= Ring
        <3>1. CASE last = Ring
            <4>1. Leads(list, 0, base, cap)
                BY DEF Leads
            <4> QED
                BY <3>1, <4>1, <2>0
        <3>2. CASE last < Ring
            <4>1. Leads(list, Ring, base, cap)
                BY <3>2, Zenon DEF Fed, base, last
            <4> QED
                BY <4>1, <2>0, <1>1
        <3> QED
            BY <3>1, <3>2, <2>0, <1>1
    <2>2. Leads(all, m + last, count, cap)
        BY <1>9, <2>1
    <2> QED
        BY <1>1, <2>0, <2>1, <2>2, LeadsLess
<1>13. Fed(all, drained, count, cap)
    BY <1>1, <1>9, <1>10, <1>11, <1>12, Zenon DEF Fed
<1> QED
    BY <1>13, Zenon DEF all, drained

\* A receiver that is full forgets its oldest item, and the numbers stay those of
\* the last sent.
LEMMA OfferKeeps ==
    ASSUME NEW list, NEW q, NEW count, NEW cap \in Nat \ {0}, Fed(list, q, count, cap),
           NEW item \in Items, item.n = count + 1
    PROVE  Fed(list, Offer(q, item), count + 1, cap)
<1> DEFINE items == q.items
           next == Offer(q, item).items
<1>1. /\ items \in Seq(Items) /\ count \in Nat /\ Len(items) \in Nat
      /\ Len(items) <= Ring /\ Len(items) <= count
      /\ \A k \in 1 .. Len(items) : items[k].n = count - Len(items) + k
    BY WaitingNumbers, Zenon DEF Fed
<1>2. Held(list, count - Len(items), cap)
    BY DEF Fed, TakenIn
<1>3. Ring \in Nat \ {0}
    BY LimitsArePositive
<1> HIDE DEF items, next
<1>4. /\ next \in Seq(Items) /\ Len(next) = (IF Len(items) < Ring THEN Len(items) + 1 ELSE Ring)
      /\ \A k \in 1 .. Len(next) : next[k].n = (count + 1) - Len(next) + k
    <2>1. CASE Len(items) < Ring
        <3>1. next = Append(items, item)
            BY <2>1 DEF next, items, Offer
        <3>2. /\ next \in Seq(Items) /\ Len(next) = Len(items) + 1
              /\ next[Len(items) + 1] = item
              /\ \A k \in 1 .. Len(items) : next[k] = items[k]
            BY <1>1, <3>1, AppendProperties
        <3>3. ASSUME NEW k \in 1 .. Len(next)
              PROVE  next[k].n = (count + 1) - Len(next) + k
            <4>1. CASE k = Len(items) + 1
                BY <1>1, <3>2, <4>1
            <4>2. CASE k # Len(items) + 1
                BY <1>1, <3>2, <4>2
            <4> QED
                BY <4>1, <4>2
        <3> QED
            BY <2>1, <3>2, <3>3
    <2>2. CASE ~(Len(items) < Ring)
        <3>1. next = Append(Tail(items), item) /\ items # << >> /\ Len(items) = Ring
            BY <1>1, <1>3, <2>2 DEF next, items, Offer
        <3>2. /\ Tail(items) \in Seq(Items) /\ Len(Tail(items)) = Ring - 1
              /\ \A k \in 1 .. Ring - 1 : Tail(items)[k] = items[k + 1]
            BY <1>1, <3>1, HeadTailProperties
        <3>3. /\ next \in Seq(Items) /\ Len(next) = Ring
              /\ next[Ring] = item
              /\ \A k \in 1 .. Ring - 1 : next[k] = Tail(items)[k]
            BY <1>3, <3>1, <3>2, AppendProperties
        <3>4. ASSUME NEW k \in 1 .. Len(next)
              PROVE  next[k].n = (count + 1) - Len(next) + k
            <4>1. CASE k = Ring
                BY <1>1, <1>3, <3>3, <4>1
            <4>2. CASE k # Ring
                <5>1. k \in 1 .. Ring - 1 /\ k + 1 \in 1 .. Len(items)
                    BY <1>3, <3>1, <3>3, <4>2
                <5>2. next[k] = items[k + 1] /\ items[k + 1].n = count - Len(items) + (k + 1)
                    BY <1>1, <3>2, <3>3, <5>1
                <5>3. next[k].n = count - Ring + (k + 1) /\ Len(next) = Ring
                    BY <3>1, <3>3, <5>2
                <5> QED
                    BY <1>1, <1>3, <5>1, <5>3
            <4> QED
                BY <4>1, <4>2
        <3> QED
            BY <2>2, <3>3, <3>4
    <2> QED
        BY <2>1, <2>2
<1>5. /\ Len(next) \in Nat /\ Len(next) <= Ring /\ Len(next) <= count + 1 /\ Len(next) > 0
      /\ count - Len(items) <= (count + 1) - Len(next)
      /\ DOMAIN next = 1 .. Len(next) /\ next # << >>
    BY <1>1, <1>3, <1>4
<1>6. Waiting(Offer(q, item), count + 1)
    <2>1. \A k \in DOMAIN next : next[k].n = (count + 1) - Len(next) + k
        BY <1>4, <1>5
    <2> DEFINE after == Offer(q, item)
    <2>2. after.items = next
        BY DEF next
    <2>3. after \in [items : Seq(Items), lagged : BOOLEAN]
        <3>1. q \in [items : Seq(Items), lagged : BOOLEAN]
            BY DEF Fed, Waiting
        <3>2. \/ after = [q EXCEPT !.items = next]
              \/ after = [items |-> next, lagged |-> TRUE]
            <4>1. CASE Len(q.items) < Ring
                BY <4>1 DEF Offer, next
            <4>2. CASE ~(Len(q.items) < Ring)
                BY <4>2 DEF Offer, next
            <4> QED
                BY <4>1, <4>2
        <3> HIDE DEF after
        <3>3. \/ after = [items |-> next, lagged |-> q.lagged] /\ q.lagged \in BOOLEAN
              \/ after = [items |-> next, lagged |-> TRUE]
            BY <3>1, <3>2
        <3>4. PICK lagged \in BOOLEAN : after = [items |-> next, lagged |-> lagged]
            BY <3>3, TRUE \in BOOLEAN, Zenon
        <3>5. next \in Seq(Items)
            BY <1>4
        <3> QED
            BY <3>4, <3>5
    <2> HIDE DEF after
    <2>4. Waiting(after, count + 1)
        BY <1>4, <1>5, <2>1, <2>2, <2>3 DEF Waiting
    <2> QED
        BY <2>4 DEF after
<1>7. Held(list, (count + 1) - Len(next), cap)
    <2>1. \A i \in DOMAIN list : list[i].n <= (count + 1) - Len(next)
        <3> SUFFICES ASSUME NEW i \in DOMAIN list
                     PROVE  list[i].n <= (count + 1) - Len(next)
            OBVIOUS
        <3>1. list[i] \in Items /\ list[i].n <= count - Len(items)
            BY <1>2 DEF Held
        <3>2. list[i].n \in Nat
            BY <3>1 DEF Items
        <3> QED
            BY <3>1, <3>2, <1>1, <1>5
    <2> QED
        BY <2>1, <1>2 DEF Held
<1> DEFINE after == Offer(q, item)
<1>8. TakenIn(after, count + 1) = (count + 1) - Len(next)
    BY Zenon DEF TakenIn, next
<1> DEFINE Leading == /\ ~after.lagged => Leads(list, TakenIn(after, count + 1),
                                                 TakenIn(after, count + 1), cap)
                      /\ Len(after.items) < Ring
                            => Leads(list, Ring, TakenIn(after, count + 1), cap)
<1>9. ASSUME Len(items) < Ring
      PROVE  Leading
    <2>1. after.lagged = q.lagged /\ (count + 1) - Len(next) = count - Len(items)
        <3>1. after = [q EXCEPT !.items = Append(@, item)]
            BY <1>9 DEF Offer, items
        <3>2. after.lagged = q.lagged
            <4>1. q \in [items : Seq(Items), lagged : BOOLEAN]
                BY DEF Fed, Waiting
            <4> HIDE DEF after
            <4> QED
                BY <3>1, <4>1
        <3> QED
            BY <1>1, <1>4, <1>9, <3>2
    <2>2. /\ ~q.lagged => Leads(list, count - Len(items), count - Len(items), cap)
          /\ Leads(list, Ring, count - Len(items), cap)
        BY <1>9, Zenon DEF Fed, TakenIn, items
    <2> HIDE DEF after
    <2>3. /\ ~after.lagged => Leads(list, TakenIn(after, count + 1), TakenIn(after, count + 1), cap)
          /\ Leads(list, Ring, TakenIn(after, count + 1), cap)
        BY <1>8, <2>1, <2>2, Zenon
    <2> QED
        BY <2>3
<1>10. ASSUME ~(Len(items) < Ring)
       PROVE  Leading
    <2>1. after.lagged
        BY <1>10 DEF Offer, items
    <2>2. Len(after.items) = Ring
        BY <1>4, <1>10 DEF next
    <2> HIDE DEF after
    <2>3. ~(Len(after.items) < Ring)
        BY <1>3, <2>2
    <2> QED
        BY <2>1, <2>3
<1>11. count + 1 \in Nat
    BY <1>1
<1> HIDE DEF after
<1>12. Fed(list, after, count + 1, cap)
    <2>1. Waiting(after, count + 1) /\ Held(list, TakenIn(after, count + 1), cap)
        BY <1>6, <1>7, <1>8 DEF after
    <2>2. Leading
        BY <1>9, <1>10
    <2> QED
        BY <1>11, <2>1, <2>2, Zenon DEF Fed
<1> QED
    BY <1>12 DEF after

LEMMA FeedInit == Init => FeedInv
<1> SUFFICES ASSUME Init
             PROVE  FeedInv
    OBVIOUS
<1> DEFINE q == [items |-> << >>, lagged |-> FALSE]
<1>1. ASSUME NEW cap \in Nat \ {0}
      PROVE  Fed(<< >>, q, 0, cap)
    <2>0. /\ q \in [items : Seq(Items), lagged : BOOLEAN] /\ q.items = << >>
          /\ DOMAIN q.items = {}
          /\ Len(q.items) <= Ring /\ Len(q.items) <= 0 /\ 0 - Len(q.items) = 0
        <3>1. q \in [items : Seq(Items), lagged : BOOLEAN] /\ q.items = << >>
            OBVIOUS
        <3>2. << >> \in Seq(Items) /\ Len(<< >>) = 0 /\ DOMAIN << >> = 1 .. 0 /\ 1 .. 0 = {}
            OBVIOUS
        <3>3. Ring \in Nat
            BY LimitsArePositive
        <3>4. \A n : n = 0 => n <= Ring /\ n <= 0 /\ 0 - n = 0
            BY <3>3
        <3> QED
            BY <3>1, <3>2, <3>4, Zenon
    <2> HIDE DEF q
    <2>1. Waiting(q, 0) /\ TakenIn(q, 0) = 0
        BY <2>0, Zenon DEF Waiting, TakenIn
    <2>2. Held(<< >>, 0, cap)
        BY DEF Held
    <2>3. \A m : Leads(<< >>, m, 0, cap)
        BY DEF Leads
    <2> QED
        BY <2>1, <2>2, <2>3 DEF Fed
<1> QED
    BY <1>1, LimitsArePositive, DataIsGiven DEF Init, FeedInv

\* Every event of a user, and every event handler, leaves the feeds alone.
LEMMA EventsLeaveTheFeeds ==
    ASSUME Next
    PROVE  \/ \E p \in Programs : SendTx(p) \/ SendAlert(p) \/ EditPrograms(p)
           \/ Frame
           \/ Event /\ UNCHANGED <<feeds, lists, cells>>
<1>1. Event => UNCHANGED <<feeds, lists, cells>>
    BY DEF Event
<1>2. \A i : SelectProgram(i) => Event
    BY DEF SelectProgram, OnDashboard
<1>3. \A delta : MoveCursor(delta) => Event
    BY DEF MoveCursor, InDetail
<1>4. \A col, row : Click(col, row) => Event
    BY DEF Click
<1>5. /\ SwitchPanel \/ MoveUp \/ MoveDown \/ PickSidebar => Event
      /\ OpenTransaction \/ OpenAlert \/ CloseDetail \/ ScrollDetail \/ SwitchTab => Event
    BY DEF SwitchPanel, MoveUp, MoveDown, PickSidebar, OpenTransaction, OpenAlert,
           CloseDetail, ScrollDetail, SwitchTab, OnDashboard, InDetail
<1> QED
    BY <1>1, <1>2, <1>3, <1>4, <1>5, Zenon DEF Next

LEMMA FeedStep == FeedInv /\ [Next]_vars => FeedInv'
<1> SUFFICES ASSUME FeedInv, [Next]_vars
             PROVE  FeedInv'
    OBVIOUS
<1>1. /\ sent \in [txs : Nat, alerts : Nat, edits : Nat] /\ sent.txs <= MaxTxs
      /\ Fed(txs, txq, sent.txs, MaxFeed) /\ Fed(alerts, alertq, sent.alerts, MaxAlerts)
      /\ MaxFeed \in Nat \ {0} /\ MaxAlerts \in Nat \ {0} /\ MaxTxs \in Nat
    BY LimitsArePositive, DataIsGiven DEF FeedInv
<1>2. ASSUME NEW p \in Programs, SendTx(p)
      PROVE  FeedInv'
    <2> DEFINE item == [n |-> sent.txs + 1, program |-> p]
    <2>1. /\ sent' = [sent EXCEPT !.txs = @ + 1] /\ sent.txs < MaxTxs
          /\ txq' = Offer(txq, [n |-> sent'.txs, program |-> p])
          /\ UNCHANGED <<txs, alerts, alertq>>
        BY <1>2 DEF SendTx, Unattended, lists
    <2>2. /\ sent' \in [txs : Nat, alerts : Nat, edits : Nat]
          /\ sent'.txs = sent.txs + 1 /\ sent'.alerts = sent.alerts /\ sent'.txs <= MaxTxs
        BY <1>1, <2>1
    <2>3. item \in Items /\ item.n = sent.txs + 1
        BY <1>1 DEF Items
    <2>4. txq' = Offer(txq, item)
        BY <2>1, <2>2
    <2> HIDE DEF item
    <2>5. Fed(txs, txq', sent.txs + 1, MaxFeed)
        BY <1>1, <2>3, <2>4, OfferKeeps
    <2> QED
        BY <1>1, <2>1, <2>2, <2>5 DEF FeedInv
<1>3. ASSUME NEW p \in Programs, SendAlert(p)
      PROVE  FeedInv'
    <2> DEFINE item == [n |-> sent.alerts + 1, program |-> p]
    <2>1. /\ sent' = [sent EXCEPT !.alerts = @ + 1]
          /\ alertq' = Offer(alertq, [n |-> sent'.alerts, program |-> p])
          /\ UNCHANGED <<txs, alerts, txq>>
        BY <1>3 DEF SendAlert, Unattended, lists
    <2>2. /\ sent' \in [txs : Nat, alerts : Nat, edits : Nat]
          /\ sent'.alerts = sent.alerts + 1 /\ sent'.txs = sent.txs
        BY <1>1, <2>1
    <2>3. item \in Items /\ item.n = sent.alerts + 1
        BY <1>1 DEF Items
    <2>4. alertq' = Offer(alertq, item)
        BY <2>1, <2>2
    <2> HIDE DEF item
    <2>5. Fed(alerts, alertq', sent.alerts + 1, MaxAlerts)
        BY <1>1, <2>3, <2>4, OfferKeeps
    <2> QED
        BY <1>1, <2>1, <2>2, <2>5 DEF FeedInv
<1>4. ASSUME NEW p \in Programs, EditPrograms(p)
      PROVE  FeedInv'
    <2>1. /\ sent' = [sent EXCEPT !.edits = @ + 1]
          /\ UNCHANGED <<txs, alerts, txq, alertq>>
        BY <1>4 DEF EditPrograms, Unattended, lists
    <2>2. /\ sent' \in [txs : Nat, alerts : Nat, edits : Nat]
          /\ sent'.alerts = sent.alerts /\ sent'.txs = sent.txs
        BY <1>1, <2>1
    <2> QED
        BY <1>1, <2>1, <2>2 DEF FeedInv
<1>5. CASE Frame
    <2>1. /\ txs' = Drain(txs, txq, MaxFeed) /\ txq' = [txq EXCEPT !.items = << >>]
          /\ alerts' = Drain(alerts, alertq, MaxAlerts)
          /\ alertq' = [alertq EXCEPT !.items = << >>]
          /\ sent' = sent
        BY <1>5 DEF Frame
    <2>2. /\ Fed(Drain(txs, txq, MaxFeed), [txq EXCEPT !.items = << >>], sent.txs, MaxFeed)
          /\ Fed(Drain(alerts, alertq, MaxAlerts), [alertq EXCEPT !.items = << >>],
                 sent.alerts, MaxAlerts)
        BY <1>1, DrainKeeps
    <2> QED
        BY <1>1, <2>1, <2>2 DEF FeedInv
<1>6. CASE UNCHANGED <<feeds, lists>>
    BY <1>1, <1>6 DEF FeedInv, feeds, lists
<1> QED
    BY <1>2, <1>3, <1>4, <1>5, <1>6, EventsLeaveTheFeeds, Zenon DEF vars

\* What waits in a receiver of the dashboard are the last items sent, and its list
\* holds earlier ones, newest first (poll_updates).
THEOREM FeedInvariant == Spec => []FeedInv
<1> QED
    BY FeedInit, FeedStep, PTL DEF Spec

\* Each feed of the dashboard holds the newest items, newest first, up to its limit;
\* a receiver that lags takes none of the last Ring items from it (poll_updates).
THEOREM FeedsStayCurrent == Spec => []FeedsAreCurrent
<1>1. ASSUME NEW list, NEW q, NEW count, NEW cap \in Nat, Fed(list, q, count, cap)
      PROVE  NewestFirst(list, q, count, cap)
    <2>1. ASSUME q.items = << >>
          PROVE  Leads(list, IF q.lagged THEN Ring ELSE count, count, cap)
        <3>1. TakenIn(q, count) = count /\ Len(q.items) < Ring
            BY <1>1, <2>1, LimitsArePositive DEF TakenIn, Fed
        <3> QED
            BY <1>1, <3>1, Zenon DEF Fed
    <2> QED
        BY <1>1, <2>1, Zenon DEF Fed, Held, NewestFirst
<1>2. FeedInv => FeedsAreCurrent
    BY <1>1, LimitsArePositive DEF FeedInv, FeedsAreCurrent
<1> QED
    BY <1>2, FeedInvariant, PTL

-----------------------------------------------------------------------------
(* The places of bytes *)

LEMMA RowAndColumn ==
    ASSUME NEW b \in Nat
    PROVE  /\ b % BytesPerRow \in 0 .. BytesPerRow - 1
           /\ b \div BytesPerRow \in Nat
           /\ b = BytesPerRow * (b \div BytesPerRow) + (b % BytesPerRow)
    BY RowsAreEven

LEMMA HalfOfARow == Half \in Nat \ {0} /\ BytesPerRow = 2 * Half
    BY RowsAreEven DEF Half

LEMMA Distributes ==
    ASSUME NEW a \in Int, NEW b \in Int, NEW c \in Int
    PROVE  (a + b) * c = a * c + b * c
    OBVIOUS

LEMMA ProductOfNats ==
    ASSUME NEW a \in Nat, NEW b \in Nat
    PROVE  a * b \in Nat
    OBVIOUS

LEMMA RectsAreNat ==
    ASSUME ScreenTypes
    PROVE  cells.rect \in [x : Nat, y : Nat, w : Nat, h : Nat]
    BY PlacesAreOnScreen DEF ScreenTypes, NoRect

\* A click that selects, selects a byte of the dump.
LEMMA TargetIsAByte ==
    ASSUME NEW col \in Int, NEW row \in Int, ScreenTypes, Target(col, row) # None
    PROVE  Target(col, row) \in Nat /\ Target(col, row) < cells.len
<1> DEFINE inBytes == col - cells.rect.x - 8
           at      == (IF inBytes < 3 * Half THEN inBytes ELSE inBytes - 1) \div 3
           down    == Line(row) - cells.start
           byte    == down * BytesPerRow + at
           Hit     == /\ row \in cells.rect.y .. cells.rect.y + cells.rect.h - 1
                      /\ col \in cells.rect.x .. cells.rect.x + cells.rect.w - 1
                      /\ Line(row) >= cells.start
                      /\ inBytes >= 0 /\ inBytes # 3 * Half /\ at < BytesPerRow
                      /\ byte < cells.len
<1>1. Target(col, row) = IF Hit THEN byte ELSE None
    BY Zenon DEF Target
<1>2. Hit /\ Target(col, row) = byte
    <2> HIDE DEF Hit, byte
    <2> QED
        BY <1>1
<1>3. Line(row) >= cells.start /\ inBytes >= 0 /\ byte < cells.len
    BY <1>2
<1>4. Line(row) \in Int /\ cells.start \in Nat /\ inBytes \in Int
    BY RectsAreNat DEF Line, ScreenTypes
<1>5. down \in Nat
    BY <1>3, <1>4
<1>6. at \in Nat
    <2> HIDE DEF inBytes
    <2>1. (IF inBytes < 3 * Half THEN inBytes ELSE inBytes - 1) \in Nat
        BY <1>3, <1>4, HalfOfARow
    <2> QED
        BY <2>1
<1> HIDE DEF down, at
<1>7. down * BytesPerRow \in Nat
    BY <1>5, ProductOfNats, RowsAreEven
<1>8. byte \in Nat
    BY <1>6, <1>7
<1> QED
    BY <1>2, <1>3, <1>8

\* The digits of a byte lie where its column of the dump is computed from them again.
LEMMA ColumnOfAByte ==
    ASSUME NEW inRow \in 0 .. BytesPerRow - 1, NEW digit \in 0 .. 1, NEW inBytes,
           inBytes = 3 * inRow + (IF inRow >= Half THEN 1 ELSE 0) + digit
    PROVE  /\ inBytes \in Nat /\ inBytes # 3 * Half
           /\ (IF inBytes < 3 * Half THEN inBytes ELSE inBytes - 1) \div 3 = inRow
<1>1. inRow \in Nat /\ digit \in Nat /\ digit <= 1 /\ Half \in Nat
    BY HalfOfARow, RowsAreEven
<1>2. (3 * inRow + digit) \div 3 = inRow
    BY <1>1
<1>3. CASE inRow < Half
    <2>1. inBytes = 3 * inRow + digit /\ inBytes < 3 * Half
        BY <1>1, <1>3
    <2> QED
        BY <1>1, <1>2, <2>1
<1>4. CASE ~(inRow < Half)
    <2>1. inBytes - 1 = 3 * inRow + digit /\ inBytes > 3 * Half /\ inBytes \in Nat
        BY <1>1, <1>4
    <2> QED
        BY <1>1, <1>2, <2>1
<1> QED
    BY <1>3, <1>4

\* By how many rows wrapping moves byte b down.
Moved(b) == Wrapped[cells.rect][view.item.n] + Folded[cells.rect] * (b \div BytesPerRow)

\* A click on the digits of byte b, be it moved down or not.
LEMMA TargetOfAByte ==
    ASSUME ScreenTypes, cells.rect \in Rects, cells.start = HexStart, view.item \in TxItems,
           NEW b \in Nat, NEW digit \in 0 .. 1, OnScreen(DrawnAt(b))
    PROVE  LET picked == b + BytesPerRow * Moved(b)
           IN  Target(DrawnAt(b).col + digit, DrawnAt(b).row)
                 = (IF picked < cells.len THEN picked ELSE None)
<1> DEFINE inRow  == b % BytesPerRow
           quo     == b \div BytesPerRow
           above  == Moved(b)
           row    == DrawnAt(b).row
           col    == DrawnAt(b).col + digit
           inBytes == col - cells.rect.x - 8
           at      == (IF inBytes < 3 * Half THEN inBytes ELSE inBytes - 1) \div 3
           byte    == (Line(row) - cells.start) * BytesPerRow + at
           Hit     == /\ row \in cells.rect.y .. cells.rect.y + cells.rect.h - 1
                      /\ col \in cells.rect.x .. cells.rect.x + cells.rect.w - 1
                      /\ Line(row) >= cells.start
                      /\ inBytes >= 0 /\ inBytes # 3 * Half /\ at < BytesPerRow
                      /\ byte < cells.len
<1>1. Target(col, row) = IF Hit THEN byte ELSE None
    BY Zenon DEF Target
<1>2. /\ cells.rect.x \in Nat /\ cells.rect.y \in Nat /\ cells.rect.w \in Nat /\ HexStart \in Nat
      /\ scroll \in Nat /\ above \in Nat /\ BytesPerRow \in Nat \ {0}
    <2>1. cells.rect.x \in Nat /\ cells.rect.y \in Nat /\ cells.rect.w \in Nat /\ HexStart \in Nat
        BY RectsAreNat, PlacesAreOnScreen
    <2>2. scroll \in Nat /\ BytesPerRow \in Nat \ {0}
        BY RowsAreEven DEF ScreenTypes
    <2>3. above \in Nat
        <3>1. Wrapped[cells.rect][view.item.n] \in Nat /\ Folded[cells.rect] \in Nat
            BY LinesAreWrapped DEF TxItems
        <3>2. Folded[cells.rect] * (b \div BytesPerRow) \in Nat
            BY <3>1, RowAndColumn, ProductOfNats
        <3> DEFINE more == Folded[cells.rect] * (b \div BytesPerRow)
        <3> HIDE DEF more
        <3>3. Wrapped[cells.rect][view.item.n] + more \in Nat
            BY <3>1, <3>2 DEF more
        <3> QED
            BY <3>3, Zenon DEF Moved, more
    <2> QED
        BY <2>1, <2>2, <2>3
<1>3. inRow \in 0 .. BytesPerRow - 1 /\ quo \in Nat /\ b = BytesPerRow * quo + inRow
    BY RowAndColumn
<1>4. /\ row = cells.rect.y + HexStart + above + quo - scroll
      /\ col = cells.rect.x + 8 + 3 * inRow + (IF inRow >= Half THEN 1 ELSE 0) + digit
    BY DEF DrawnAt, Moved
<1> HIDE DEF inRow, above, row, col, quo
<1>5. Line(row) = HexStart + above + quo
    <2>1. Line(row) = scroll + row - cells.rect.y
        BY DEF Line
    <2> QED
        BY <1>2, <1>3, <1>4, <2>1
<1>6. inBytes = 3 * inRow + (IF inRow >= Half THEN 1 ELSE 0) + digit
    <2>1. inRow \in Nat /\ digit \in Nat
        BY <1>2, <1>3
    <2> QED
        BY <1>2, <1>4, <2>1
<1>7. inBytes \in Nat /\ inBytes # 3 * Half /\ at = inRow
    <2> HIDE DEF inBytes
    <2> QED
        BY <1>3, <1>6, ColumnOfAByte
<1>8. byte = b + BytesPerRow * above
    <2>1. Line(row) - cells.start = above + quo /\ quo \in Nat
        BY <1>2, <1>3, <1>5
    <2>2. (above + quo) * BytesPerRow = above * BytesPerRow + quo * BytesPerRow
        BY <1>2, <2>1, Distributes
    <2>3. b = quo * BytesPerRow + inRow
        BY <1>2, <1>3
    <2> HIDE DEF at
    <2>4. byte = above * BytesPerRow + quo * BytesPerRow + inRow
        BY <1>7, <2>1, <2>2
    <2> QED
        BY <1>2, <1>3, <2>1, <2>3, <2>4
<1>9. /\ row \in cells.rect.y .. cells.rect.y + cells.rect.h - 1
      /\ col \in cells.rect.x .. cells.rect.x + cells.rect.w - 1
    <2>0. DrawnAt(b).col \in Int /\ DrawnAt(b).col + digit = col
        BY <1>2, <1>3, <1>4 DEF col, DrawnAt, inRow
    <2>1. col < cells.rect.x + cells.rect.w /\ DrawnAt(b).row \in cells.rect.y .. cells.rect.y + cells.rect.h - 1
        BY <1>2, <2>0 DEF OnScreen
    <2>2. col \in Nat /\ col >= cells.rect.x
        BY <1>2, <1>3, <1>4, HalfOfARow
    <2> QED
        BY <1>2, <2>1, <2>2 DEF row
<1>10. Line(row) >= cells.start /\ at < BytesPerRow /\ inBytes >= 0
    <2> HIDE DEF at, inBytes
    <2> QED
        BY <1>2, <1>3, <1>5, <1>7
<1> HIDE DEF at, inBytes, byte
<1>11. Hit <=> byte < cells.len
    BY <1>7, <1>9, <1>10
<1> HIDE DEF Hit
<1> QED
    BY <1>1, <1>8, <1>11 DEF row, col, above

-----------------------------------------------------------------------------
(* The screen *)

\* What a filter keeps are items of the list.
LEMMA FilterKeeps ==
    ASSUME NEW S, NEW list \in Seq(S), NEW f, NEW ps
    PROVE  Filtered(list, f, ps) \in Seq(S)
<1> DEFINE last == Len(list)
           Passes(k) == FocusedId(f, ps) \subseteq {list[k].program}
           step == [k \in 1 .. last |->
                      [l \in Seq(S) |-> IF Passes(k) THEN Append(l, list[k]) ELSE l]]
<1> HIDE DEF Passes
<1>1. last \in Nat /\ \A k \in 1 .. last : list[k] \in S
    OBVIOUS
<1>2. step \in [1 .. last -> [Seq(S) -> Seq(S)]]
    BY <1>1
<1>3. PICK g \in [0 .. last -> Seq(S)] : StepsFrom(g, << >>, step, last)
    <2> HIDE DEF last, step
    <2>1. last \in Nat /\ << >> \in Seq(S)
        BY <1>1
    <2> QED
        BY <2>1, <1>2, StepsDefine
<1>4. ASSUME NEW k \in 0 .. last
      PROVE  g[k] = IF k = 0 THEN << >>
                    ELSE IF Passes(k) THEN Append(g[k - 1], list[k]) ELSE g[k - 1]
    <2>1. g[k] = IF k = 0 THEN << >> ELSE step[k][g[k - 1]]
        BY <1>3, Zenon DEF StepsFrom
    <2>2. CASE k # 0
        <3>1. k \in 1 .. last /\ g[k - 1] \in Seq(S)
            <4> HIDE DEF last, step
            <4> QED
                BY <1>1, <1>3, <2>2
        <3>2. step[k][g[k - 1]] = IF Passes(k) THEN Append(g[k - 1], list[k]) ELSE g[k - 1]
            BY <3>1, Zenon
        <3> QED
            BY <3>2, <2>1, <2>2, Zenon
    <2> QED
        BY <2>1, <2>2
<1>5. g = [k \in 0 .. last |-> IF k = 0 THEN << >>
             ELSE IF Passes(k) THEN Append(g[k - 1], list[k]) ELSE g[k - 1]]
    <2>1. g = [k \in 0 .. last |-> g[k]]
        <3> HIDE DEF last
        <3> QED
            BY <1>3, Zenon
    <2> QED
        BY <2>1, <1>4, Zenon
<1> DEFINE h == CHOOSE a : a = [k \in 0 .. last |-> IF k = 0 THEN << >>
                   ELSE IF Passes(k) THEN Append(a[k - 1], list[k]) ELSE a[k - 1]]
<1>6. h = [k \in 0 .. last |-> IF k = 0 THEN << >>
             ELSE IF Passes(k) THEN Append(h[k - 1], list[k]) ELSE h[k - 1]]
    BY <1>5, Zenon
<1>7. Filtered(list, f, ps) = h[last]
    BY Zenon DEF Filtered, Passes
<1> HIDE DEF h, last
<1>8. /\ h[0] = << >>
      /\ \A k \in 1 .. last : h[k] = IF Passes(k) THEN Append(h[k - 1], list[k]) ELSE h[k - 1]
    <2>1. \A k \in 0 .. last : h[k] = IF k = 0 THEN << >>
                ELSE IF Passes(k) THEN Append(h[k - 1], list[k]) ELSE h[k - 1]
        BY <1>6, Zenon
    <2>2. 0 \in 0 .. last /\ \A k \in 1 .. last : k \in 0 .. last /\ k # 0
        BY <1>1
    <2> QED
        BY <2>1, <2>2, Zenon
<1> DEFINE Done == {k \in Nat : k <= last => h[k] \in Seq(S)}
<1>9. last \in Done
    <2>1. 0 \in Done
        <3>1. << >> \in Seq(S) /\ 0 \in Nat
            OBVIOUS
        <3> QED
            BY <3>1, <1>8, Zenon
    <2>2. ASSUME NEW k \in 1 .. last, k - 1 \in Done
          PROVE  k \in Done
        <3>1. h[k - 1] \in Seq(S) /\ list[k] \in S /\ k \in Nat
            BY <1>1, <2>2
        <3>2. Append(h[k - 1], list[k]) \in Seq(S)
            BY <3>1, AppendProperties
        <3>3. h[k] = IF Passes(k) THEN Append(h[k - 1], list[k]) ELSE h[k - 1]
            BY <1>8
        <3> QED
            BY <3>1, <3>2, <3>3, Zenon
    <2> HIDE DEF Done
    <2>3. Done \in SUBSET Nat
        BY DEF Done
    <2>4. \A k \in 0 .. last : k \in Done
        BY <1>1, <2>1, <2>2, <2>3, AllSteps, Zenon
    <2> QED
        BY <2>4, <1>1
<1> QED
    BY <1>1, <1>7, <1>9

\* The highlighted row is the selected one, if the list has it.
LEMMA SelectedIsHighlighted ==
    ASSUME NEW S, NEW list \in Seq(S), selected \in Nat, selected < Len(list)
    PROVE  Highlighted(list) = list[selected + 1]
<1> DEFINE offset == IF selected >= Visible THEN selected - Visible + 1 ELSE 0
           rows   == {i \in offset .. offset + Visible - 1 : i < Len(list) /\ i = selected}
<1>1. rows = {selected}
    BY LimitsArePositive
<1>2. (CHOOSE i \in rows : TRUE) = selected /\ rows # {}
    BY <1>1
<1>3. Highlighted(list) = IF rows = {} THEN Nothing ELSE list[(CHOOSE i \in rows : TRUE) + 1]
    BY Zenon DEF Highlighted
<1> HIDE DEF rows
<1> QED
    BY <1>2, <1>3

LEMMA ScreenInit == Init => ScreenInv
    BY DEF Init, ScreenInv, ScreenTypes, ShownIsListed, CellsAreDrawn, CursorOnData,
           Dashboard, Exploring

LEMMA TxsAreTxItems == FeedInv => txs \in Seq(TxItems)
<1> SUFFICES ASSUME FeedInv
             PROVE  txs \in Seq(TxItems)
    OBVIOUS
<1>1. /\ txs \in Seq(Items) /\ \A i \in DOMAIN txs : txs[i].n <= TakenIn(txq, sent.txs)
      /\ sent.txs \in Nat /\ sent.txs <= MaxTxs /\ MaxTxs \in Nat /\ Waiting(txq, sent.txs)
    BY DataIsGiven DEF FeedInv, Fed, Held
<1>2. TakenIn(txq, sent.txs) \in Nat /\ TakenIn(txq, sent.txs) <= MaxTxs
    BY <1>1, WaitingNumbers DEF TakenIn
<1>3. ASSUME NEW i \in 1 .. Len(txs)
      PROVE  txs[i] \in TxItems
    <2>1. txs[i] \in Items /\ txs[i].n <= TakenIn(txq, sent.txs)
        BY <1>1
    <2>2. txs[i].n \in Nat \ {0}
        BY <2>1 DEF Items
    <2> QED
        BY <2>1, <2>2, <1>1, <1>2 DEF TxItems
<1> QED
    BY <1>1, <1>3

LEMMA PanelsList ==
    ASSUME NEW ts, NEW as, NEW f, NEW ps
    PROVE  /\ Listed(Transactions, ts, as, f, ps) = Filtered(ts, f, ps)
           /\ Listed(Alerts, ts, as, f, ps) = Filtered(as, f, ps)
    BY DEF Listed, Transactions, Alerts

\* An event makes the frame stale, and leaves the cursor on the data.
LEMMA EventStep ==
    ASSUME ScreenInv, FeedInv, Event, Next
    PROVE  ScreenInv'
<1>1. ScreenTypes /\ CursorOnData /\ txs \in Seq(TxItems)
    BY TxsAreTxItems DEF ScreenInv
<1>2. ~fresh' /\ UNCHANGED <<feeds, lists, cells>>
    BY DEF Event
<1>3. ShownIsListed' /\ CellsAreDrawn'
    BY <1>2 DEF ShownIsListed, CellsAreDrawn
<1> DEFINE Fine == ScreenTypes' /\ CursorOnData'
<1> SUFFICES Fine
    BY <1>3 DEF ScreenInv
<1>4. CASE UNCHANGED <<view, cursor>> /\ selected' \in Nat /\ scroll' \in Nat
    BY <1>1, <1>2, <1>4 DEF ScreenTypes, CursorOnData, ShownLen
<1>5. CASE SwitchPanel \/ MoveUp \/ MoveDown \/ PickSidebar
    <2>1. UNCHANGED Detail /\ selected' \in Nat
        BY <1>1, <1>5 DEF SwitchPanel, MoveUp, MoveDown, PickSidebar, Up, ScreenTypes
    <2> QED
        BY <1>1, <1>4, <2>1 DEF Detail, ScreenTypes
<1>6. ASSUME NEW i \in 0 .. 9, SelectProgram(i)
      PROVE  Fine
    BY <1>1, <1>4, <1>6 DEF SelectProgram, Detail, ScreenTypes
<1>7. CASE OpenTransaction
    <2> DEFINE list == Filtered(txs, focus, programs)
    <2>1. /\ panel = Transactions /\ selected < Length
          /\ view' = [kind |-> "tx", item |-> list[selected + 1]]
          /\ scroll' = 0 /\ cursor' = 0 /\ selected' = selected
        BY <1>7 DEF OpenTransaction, Place
    <2>2. list \in Seq(TxItems)
        BY <1>1, FilterKeeps
    <2>3. Length = Len(list)
        BY <2>1, PanelsList DEF Length, ListLen, Transactions, Sidebar
    <2> HIDE DEF list
    <2>4. list[selected + 1] \in TxItems
        BY <1>1, <2>1, <2>2, <2>3 DEF ScreenTypes
    <2>5. view'.kind = "tx" /\ view'.item \in TxItems
        BY <2>1, <2>4
    <2>6. ScreenTypes'
        BY <1>1, <1>2, <2>1, <2>5 DEF ScreenTypes
    <2>7. CursorOnData'
        BY <2>1 DEF CursorOnData
    <2> QED
        BY <2>6, <2>7
<1>8. CASE OpenAlert
    <2>1. view'.kind = "alert" /\ scroll' = 0 /\ cursor' = cursor /\ selected' = selected
        BY <1>8 DEF OpenAlert, Place
    <2> QED
        BY <1>1, <1>2, <2>1 DEF ScreenTypes, CursorOnData
<1>9. CASE CloseDetail
    <2>1. view' = Dashboard /\ scroll' = 0 /\ cursor' = 0 /\ selected' = selected
        BY <1>9 DEF CloseDetail, Place
    <2>2. view'.kind = "dashboard"
        BY <2>1 DEF Dashboard
    <2> QED
        BY <1>1, <1>2, <2>1, <2>2 DEF ScreenTypes, CursorOnData
<1>10. CASE ScrollDetail \/ SwitchTab
    <2>1. UNCHANGED <<view, cursor, selected>> /\ scroll' \in Nat
        BY <1>1, <1>10 DEF ScrollDetail, SwitchTab, Place, Up, Down, ScreenTypes
    <2> QED
        BY <1>1, <1>4, <2>1 DEF ScreenTypes
<1>11. ASSUME NEW delta \in {-1, 1, -BytesPerRow, BytesPerRow}, MoveCursor(delta)
       PROVE  Fine
    <2>1. /\ view.kind = "tx" /\ ShownLen(view.item) > 0
          /\ UNCHANGED <<view, scroll, selected>>
          /\ cursor' = LET next == cursor + delta
                           last == ShownLen(view.item) - 1
                       IN  IF next < 0 THEN 0 ELSE IF next > last THEN last ELSE next
        BY <1>11 DEF MoveCursor, Exploring, Place
    <2>2. ShownLen(view.item) \in Nat /\ cursor + delta \in Int
        BY <1>1, <2>1, DataIsGiven, RowsAreEven DEF ScreenTypes, TxItems, ShownLen, Dashboard
    <2>3. cursor' \in Nat /\ cursor' < ShownLen(view.item)
        BY <2>1, <2>2
    <2> QED
        BY <1>1, <1>2, <2>1, <2>3 DEF ScreenTypes, CursorOnData, ShownLen
<1>12. ASSUME NEW col \in Columns, NEW row \in Rows, Click(col, row)
       PROVE  Fine
    <2>1. /\ Exploring /\ cursor' = Target(col, row) /\ Target(col, row) # None
          /\ UNCHANGED <<view, scroll, selected>>
        BY <1>12 DEF Click, Place
    <2>2. cursor' \in Nat /\ cursor' < cells.len
        BY <1>1, <2>1, TargetIsAByte DEF Columns, Rows
    <2>3. ShownLen(view.item) > 0 => cells.len = ShownLen(view.item)
        BY <2>1, Event DEF ScreenInv, CellsAreDrawn, Event
    <2> QED
        BY <1>1, <1>2, <2>1, <2>2, <2>3 DEF ScreenTypes, CursorOnData, ShownLen
<1>13. ASSUME \/ \E p \in Programs : SendTx(p) \/ SendAlert(p) \/ EditPrograms(p)
              \/ Frame
       PROVE  FALSE
    <2>1. \A p : ~SendTx(p) /\ ~SendAlert(p) /\ ~EditPrograms(p)
        BY DEF SendTx, SendAlert, EditPrograms, Unattended, Event
    <2>2. ~Frame
        BY DEF Frame, Event
    <2> QED
        BY <2>1, <2>2, <1>13
<1> HIDE DEF Fine
<1> QED
    BY <1>5, <1>6, <1>7, <1>8, <1>9, <1>10, <1>11, <1>12, <1>13, Zenon DEF Next

\* A frame shows the selected item, and draws the cells of the item it shows.
LEMMA FrameStep ==
    ASSUME ScreenInv, Frame
    PROVE  ScreenInv'
<1>1. /\ UNCHANGED <<panel, selected, view, scroll, tab, cursor>>
      /\ fresh' = TRUE
      /\ shown' = IF view.kind = "dashboard"
                  THEN Highlighted(Listed(panel, txs', alerts', focus', programs'))
                  ELSE view.item
    BY DEF Frame
<1>2. ScreenTypes /\ CursorOnData
    BY DEF ScreenInv
<1>3. view.kind = "tx" => ShownLen(view.item) \in Nat
    BY <1>2, DataIsGiven DEF ScreenTypes, TxItems, ShownLen, Dashboard
<1>0. PICK rect \in Rects : cells' = DrawCells(rect)
    BY DEF Frame
<1>4. cells' \in [rect : Rects \cup {NoRect}, start : Nat, len : Nat]
    <2>1. CASE ~Exploring
        BY <1>0, <1>2, <2>1 DEF DrawCells, ScreenTypes
    <2>2. CASE Exploring
        <3>1. ShownLen(view.item) \in Nat
            BY <1>3, <2>2 DEF Exploring
        <3> QED
            BY <1>0, <1>2, <2>2, <3>1, PlacesAreOnScreen DEF DrawCells, ScreenTypes
    <2> QED
        BY <2>1, <2>2
<1>5. ScreenTypes'
    BY <1>1, <1>2, <1>4 DEF ScreenTypes
<1>6. CursorOnData'
    BY <1>1, <1>2 DEF CursorOnData, ShownLen
<1>7. Highlighted(Listed(panel, txs, alerts, focus, programs))'
         = Highlighted(Listed(panel, txs', alerts', focus', programs'))
    BY <1>1 DEF Highlighted
<1>8. ShownIsListed'
    <2>1. shown' = IF view'.kind = "dashboard"
                   THEN Highlighted(Listed(panel, txs, alerts, focus, programs))'
                   ELSE view'.item
        BY <1>1, <1>7
    <2> QED
        BY <2>1, Zenon DEF ShownIsListed
<1>9. CellsAreDrawn'
    <2> SUFFICES ASSUME Exploring', ShownLen(view.item)' > 0
                 PROVE  /\ cells'.rect \in Rects /\ cells'.start = HexStart
                        /\ cells'.len = ShownLen(view.item)'
        BY DEF CellsAreDrawn
    <2>1. Exploring /\ ShownLen(view.item)' = ShownLen(view.item)
        BY <1>1 DEF Exploring, ShownLen
    <2>2. ShownLen(view.item) # 0
        BY <2>1, <1>3 DEF Exploring
    <2> QED
        BY <1>0, <2>1, <2>2 DEF DrawCells
<1> QED
    BY <1>5, <1>6, <1>8, <1>9 DEF ScreenInv

LEMMA ScreenStep == ScreenInv /\ FeedInv /\ [Next]_vars => ScreenInv'
<1> SUFFICES ASSUME ScreenInv, FeedInv, [Next]_vars
             PROVE  ScreenInv'
    OBVIOUS
<1>1. ASSUME UNCHANGED <<lists, panel, selected, focus, view, scroll, tab, cursor,
                         cells, fresh, shown>>
      PROVE  ScreenInv'
    BY <1>1 DEF ScreenInv, ScreenTypes, ShownIsListed, CellsAreDrawn, CursorOnData,
                Exploring, ShownLen, Highlighted, lists
<1>2. UNCHANGED vars => ScreenInv'
    BY <1>1 DEF vars
<1>3. ASSUME NEW p \in Programs, SendTx(p) \/ SendAlert(p) \/ EditPrograms(p)
      PROVE  ScreenInv'
    BY <1>1, <1>3 DEF SendTx, SendAlert, EditPrograms, Unattended
<1>4. Frame => ScreenInv'
    BY FrameStep
<1>5. Event /\ Next => ScreenInv'
    BY EventStep
<1> QED
    BY <1>2, <1>3, <1>4, <1>5, EventsLeaveTheFeeds, Zenon

\* Until the next event, the highlighted item is the selected one of the list drawn,
\* and the cells are those of the drawn dump (draw, explain_hex_start_line).
THEOREM ScreenInvariant == Spec => []ScreenInv
<1>1. ScreenInv /\ []FeedInv /\ [][Next]_vars => []ScreenInv
    BY ScreenStep, PTL
<1> QED
    BY <1>1, ScreenInit, FeedInvariant, PTL DEF Spec

\* Enter opens the item that the last frame highlighted (open_detail, draw_transactions,
\* draw_alerts), whatever was sent since.
THEOREM EnterOpensTheHighlighted == Spec => OpensWhatIsShown
<1>1. ASSUME ScreenInv, FeedInv, [Next]_vars, view.kind = "dashboard", view'.kind # "dashboard"
      PROVE  view'.item = shown
    <2>1. ScreenTypes /\ ShownIsListed
        BY <1>1 DEF ScreenInv
    <2>2. txs \in Seq(TxItems) /\ alerts \in Seq(Items)
        BY <1>1, TxsAreTxItems DEF FeedInv, Fed, Held
    <2>3. ASSUME NEW S, NEW list \in Seq(S), Filtered(list, focus, programs)
                 \in Seq(S), fresh, selected < Len(Filtered(list, focus, programs)),
                 Listed(panel, txs, alerts, focus, programs) = Filtered(list, focus, programs)
          PROVE  shown = Filtered(list, focus, programs)[selected + 1]
        <3>1. shown = Highlighted(Filtered(list, focus, programs))
            BY <1>1, <2>1, <2>3 DEF ShownIsListed
        <3>2. selected \in Nat
            BY <2>1 DEF ScreenTypes
        <3> QED
            BY <2>3, <3>1, <3>2, SelectedIsHighlighted
    <2>4. CASE OpenTransaction
        <3>1. /\ fresh /\ panel = Transactions /\ selected < Length
              /\ view'.item = Filtered(txs, focus, programs)[selected + 1]
            BY <2>4 DEF OpenTransaction, OnDashboard, Event
        <3>2. /\ Listed(panel, txs, alerts, focus, programs) = Filtered(txs, focus, programs)
              /\ Length = Len(Filtered(txs, focus, programs))
            BY <3>1, PanelsList DEF Length, ListLen, Transactions, Sidebar
        <3>3. Filtered(txs, focus, programs) \in Seq(TxItems)
            BY <2>2, FilterKeeps
        <3> QED
            BY <2>2, <2>3, <3>1, <3>2, <3>3, Zenon
    <2>5. CASE OpenAlert
        <3>1. /\ fresh /\ panel = Alerts /\ selected < Length
              /\ view'.item = Filtered(alerts, focus, programs)[selected + 1]
            BY <2>5 DEF OpenAlert, OnDashboard, Event
        <3>2. /\ Listed(panel, txs, alerts, focus, programs) = Filtered(alerts, focus, programs)
              /\ Length = Len(Filtered(alerts, focus, programs))
            BY <3>1, PanelsList DEF Length, ListLen, Alerts, Sidebar
        <3>3. Filtered(alerts, focus, programs) \in Seq(Items)
            BY <2>2, FilterKeeps
        <3> QED
            BY <2>2, <2>3, <3>1, <3>2, <3>3, Zenon
    <2>6. ~UNCHANGED view
        BY <1>1
    <2>7. ~(\E p \in Programs : SendTx(p) \/ SendAlert(p) \/ EditPrograms(p)) /\ ~Frame
        BY <2>6 DEF SendTx, SendAlert, EditPrograms, Unattended, Frame
    <2>8. /\ ~SwitchPanel /\ ~MoveUp /\ ~MoveDown /\ ~PickSidebar
          /\ \A i : ~SelectProgram(i)
        BY <2>6 DEF SwitchPanel, MoveUp, MoveDown, PickSidebar, SelectProgram, Detail
    <2>9. /\ ~ScrollDetail /\ ~SwitchTab
          /\ \A delta : ~MoveCursor(delta)
          /\ \A col, row : ~Click(col, row)
        BY <2>6 DEF ScrollDetail, SwitchTab, MoveCursor, Click
    <2>10. ~CloseDetail
        BY <1>1 DEF CloseDetail, Dashboard
    <2>11. Next
        BY <1>1, <2>6 DEF vars
    <2> QED
        BY <2>4, <2>5, <2>7, <2>8, <2>9, <2>10, <2>11, Zenon DEF Next
<1> QED
    BY <1>1, ScreenInvariant, FeedInvariant, PTL DEF Spec, OpensWhatIsShown

\* A click on a byte that fits on the first line of its row selects it, in any panel
\* that wraps neither the dump nor the lines above, however far the tab is scrolled;
\* in a panel that wraps, it selects the byte as many rows further on as wrapping has
\* moved it down.  The cursor stays on the data (click_explain_byte,
\* move_explain_cursor, draw_tx_detail).
THEOREM ClicksSelectTheDrawn == Spec => []ClickSelectsTheDrawnByte
<1>1. ScreenInv => ClickSelectsTheDrawnByte
    <2> SUFFICES ASSUME ScreenInv, fresh, Exploring, ShownLen(view.item) > 0
                 PROVE  /\ cursor < ShownLen(view.item)
                        /\ \A b \in 0 .. ShownLen(view.item) - 1, digit \in 0 .. 1 :
                              LET at     == DrawnAt(b)
                                  picked == b + BytesPerRow * Moved(b)
                              IN  OnScreen(at) =>
                                    Target(at.col + digit, at.row)
                                       = (IF picked < ShownLen(view.item) THEN picked ELSE None)
        BY Zenon DEF ClickSelectsTheDrawnByte, Moved
    <2>1. /\ ScreenTypes /\ view.kind = "tx"
          /\ cells.rect \in Rects /\ cells.start = HexStart /\ cells.len = ShownLen(view.item)
          /\ cursor < ShownLen(view.item)
        BY DEF ScreenInv, CellsAreDrawn, CursorOnData, Exploring
    <2>2. /\ view.item \in TxItems
          /\ cells.start = HexStart /\ cells.len = ShownLen(view.item)
        BY <2>1 DEF ScreenTypes, Dashboard
    <2>3. ASSUME NEW b \in 0 .. ShownLen(view.item) - 1, NEW digit \in 0 .. 1,
                 OnScreen(DrawnAt(b))
          PROVE  LET picked == b + BytesPerRow * Moved(b)
                 IN  Target(DrawnAt(b).col + digit, DrawnAt(b).row)
                       = (IF picked < ShownLen(view.item) THEN picked ELSE None)
        <3>1. b \in Nat
            OBVIOUS
        <3>2. LET picked == b + BytesPerRow * Moved(b)
              IN  Target(DrawnAt(b).col + digit, DrawnAt(b).row)
                    = (IF picked < cells.len THEN picked ELSE None)
            BY <2>1, <2>2, <2>3, <3>1, TargetOfAByte
        <3> QED
            BY <3>2, <2>2, Zenon
    <2> QED
        BY <2>1, <2>3, Zenon
<1> QED
    BY <1>1, ScreenInvariant, PTL
=============================================================================
