---------------------------- MODULE PipelineProofs ----------------------------
(***************************************************************************)
(* Proofs about Pipeline for every set of programs and of clients, every   *)
(* capacity of the channel and any number of transactions.                 *)
(*                                                                         *)
(* Two inductive invariants: MapsInv relates the two maps to the handlers  *)
(* and to the worker's transaction, through the queue of one lock;         *)
(* CountInv relates the logs to the transactions that arrived.             *)
(***************************************************************************)
EXTENDS Pipeline, SequenceTheorems, WellFoundedInduction, TLAPS

Tx == [n : Nat \ {0}, program : Programs, alarming : BOOLEAN]
Busy == [pc : {"first", "second"}, op : {"add", "remove", "metrics"}, program : Programs]

\* Of the lock of the programs the worker asks to read, and all others to write.
Asking == [task : {"worker"}, write : {FALSE}] \cup [task : Clients, write : {TRUE}]

LogTypes ==
    /\ channel \in Seq(Tx)
    /\ worker \in [pc : {"recv", "check", "detect", "store", "publish"},
                   tx : Tx \cup {NoTx}, kept : BOOLEAN]
    /\ worker.tx = NoTx <=> worker.pc = "recv"
    /\ arrived \in Nat
    /\ dead \in Seq(Tx) /\ alerts \in Seq(Tx) /\ published \in Seq(Tx)

LockTypes ==
    /\ lockq \in [Locks -> Seq([task : Tasks, write : BOOLEAN])]
    /\ lockq["programs"] \in Seq(Asking)

MapTypes ==
    /\ monitored \subseteq Programs
    /\ DOMAIN windows \subseteq Programs
    /\ \A p \in DOMAIN windows : windows[p] \in Seq(Nat)
    /\ LockTypes
    /\ client \in [Clients -> {Free} \cup Busy]

-----------------------------------------------------------------------------
(* Queues *)

LEMMA MinOfNats ==
    ASSUME NEW I \in SUBSET Nat, I # {}
    PROVE  Min(I) \in I /\ \A y \in I : Min(I) <= y
<1> DEFINE R == OpToRel(<, Nat)
<1>1. \E x \in I : \A y \in I : ~(<<y, x>> \in R)
    BY NatLessThanWellFounded, WFMin
<1>2. \A x, y \in Nat : y < x => <<y, x>> \in R
    BY DEF OpToRel
<1> HIDE DEF R
<1>3. PICK x \in I : \A y \in I : ~(<<y, x>> \in R)
    BY <1>1
<1>4. ASSUME NEW y \in I
      PROVE  x <= y
    <2>1. x \in Nat /\ y \in Nat /\ ~(y < x)
        BY <1>2, <1>3
    <2> QED
        BY <2>1
<1>5. \E z \in I : \A y \in I : z <= y
    BY <1>4
<1> QED
    BY <1>5 DEF Min

\* What leaves a queue leaves the others where they stand: in order, the first first.
LEMMA LeavesTheOthers ==
    ASSUME NEW S, NEW q \in Seq(S), NEW t
    PROVE  /\ Without(q, t) \in Seq(S)
           /\ q # << >> /\ Head(q).task # t =>
                 Without(q, t) # << >> /\ Head(Without(q, t)) = Head(q)
<1> DEFINE places == {i \in 1 .. Len(q) : q[i].task = t}
           at == PlaceOf(q, t)
<1>1. at = IF places # {} THEN Min(places) ELSE 0
    BY Zenon DEF PlaceOf, SelectInSeq
<1>2. CASE at = 0
    BY <1>2 DEF Without
<1>3. CASE at # 0
    <2>1. at \in places
        <3>1. places # {} /\ places \in SUBSET Nat
            BY <1>1, <1>3
        <3> QED
            BY <1>1, <3>1, MinOfNats, Zenon
    <2>2. at \in 1 .. Len(q) /\ q[at].task = t /\ Len(q) \in Nat
        BY <2>1
    <2> HIDE DEF at, places
    <2> DEFINE before == SubSeq(q, 1, at - 1)
               after == SubSeq(q, at + 1, Len(q))
    <2>3. Without(q, t) = before \o after
        BY <1>3, Zenon DEF Without, RemoveAt, at
    <2>4. /\ before \in Seq(S) /\ after \in Seq(S)
          /\ Len(before) = at - 1
          /\ \A i \in 1 .. at - 1 : before[i] = q[i]
        BY <2>2
    <2>5. before \o after \in Seq(S)
        BY <2>4
    <2>6. ASSUME q # << >>, Head(q).task # t
          PROVE  before \o after # << >> /\ Head(before \o after) = Head(q)
        <3>1. Head(q) = q[1]
            BY <2>6
        <3>2. at # 1
            BY <2>2, <2>6, <3>1
        <3>3. 1 \in 1 .. at - 1
            BY <2>2, <3>2
        <3>4. before[1] = q[1] /\ Len(before) >= 1
            BY <2>2, <2>4, <3>3
        <3> HIDE DEF before, after
        <3>5. /\ (before \o after)[1] = before[1]
              /\ Len(before \o after) >= 1 /\ before \o after # << >>
            BY <2>4, <3>4
        <3> QED
            BY <3>1, <3>4, <3>5, <2>5
    <2> QED
        BY <2>3, <2>5, <2>6
<1> QED
    BY <1>2, <1>3

\* Whoever holds a lock it asked to write is the first in its queue; whoever holds
\* one it asked to read is behind no writer.
LEMMA HolderIsFirst ==
    ASSUME NEW l \in Locks, NEW t, lockq[l] \in Seq([task : Tasks, write : BOOLEAN]), Holds(l, t)
    PROVE  /\ lockq[l] # << >>
           /\ \/ Head(lockq[l]).task = t
              \/ ~Head(lockq[l]).write
                 /\ \E i \in DOMAIN lockq[l] : lockq[l][i].task = t /\ ~lockq[l][i].write
<1>1. PICK i \in DOMAIN lockq[l] :
        /\ lockq[l][i].task = t
        /\ i = 1 \/ \A j \in 1 .. i : ~lockq[l][j].write
    BY Zenon DEF Holds
<1>2. i \in 1 .. Len(lockq[l]) /\ lockq[l] # << >> /\ Head(lockq[l]) = lockq[l][1]
    BY <1>1
<1>3. CASE i = 1
    BY <1>1, <1>2, <1>3
<1>4. CASE i # 1
    <2>1. 1 \in 1 .. i /\ i \in 1 .. i
        BY <1>2
    <2> QED
        BY <1>1, <1>2, <1>4, <2>1
<1> QED
    BY <1>3, <1>4

-----------------------------------------------------------------------------
(* The maps *)

Second(c) == client[c].pc = "second"

\* The first of those that asked for the programs and have not left them.
First(t) == lockq["programs"] # << >> /\ Head(lockq["programs"]).task = t

\* Whoever is between its two writes holds the programs.
SecondIsFirst == \A c \in Clients : Second(c) => First(c)

\* It has made its first write.
HalfDone ==
    \A c \in Clients : Second(c) =>
        \/ client[c].op = "add" /\ client[c].program \in monitored
        \/ client[c].op = "remove" /\ client[c].program \notin monitored

\* The maps agree on the program p.
Agree(p) == p \in DOMAIN windows <=> p \in monitored

AgreeUnlessHalfDone ==
    \A p \in Programs \ torn :
        (\A c \in Clients : Second(c) => client[c].program # p) => Agree(p)

\* A transaction whose program stays monitored keeps its window.
KeptHasWindow ==
    worker.kept =>
        /\ worker.pc \in {"detect", "store", "publish"}
        /\ worker.tx.program \in monitored
        /\ worker.tx.program \notin torn => worker.tx.program \in DOMAIN windows

MapsInv ==
    /\ LogTypes /\ MapTypes
    /\ SecondIsFirst /\ HalfDone /\ AgreeUnlessHalfDone
    /\ KeptHasWindow /\ StoredBeforePublished

-----------------------------------------------------------------------------
(* The logs *)

\* How many transactions are through.
Done == arrived - Len(channel) - (IF worker.pc = "recv" THEN 0 ELSE 1)

InTurn ==
    /\ Done \in Nat
    /\ \A i \in DOMAIN channel : channel[i].n = arrived - Len(channel) + i
    /\ worker.pc # "recv" => worker.tx.n = Done + 1

Through ==
    /\ Numbers(dead) \cup Numbers(published) = 1 .. Done
    /\ Numbers(dead) \cap Numbers(published) = {}
    /\ InOrder(dead) /\ InOrder(published)

CountInv == LogTypes /\ InTurn /\ Through /\ AlertsMatchFeed

LEMMA LogTypesInit == Init => LogTypes
BY DEF Init, LogTypes, Ready, NoTx

\* What a client does leaves the logs alone, and the worker but for the mark that
\* its program was removed.
ClientStep(c) ==
    \/ Handler(c) \/ Disconnect(c)
    \/ \E p \in Programs, op \in {"add", "remove"} : Request(c, op, p)
    \/ \E p \in Programs : Request(c, "metrics", p)

LEMMA ClientsLeaveLogs ==
    ASSUME LogTypes, NEW c \in Clients, ClientStep(c)
    PROVE  /\ UNCHANGED <<channel, arrived, dead, alerts, published>>
           /\ worker'.pc = worker.pc /\ worker'.tx = worker.tx
           /\ LogTypes'
<1>1. CASE RemoveFromPrograms(c)
    BY <1>1 DEF RemoveFromPrograms, history, LogTypes
<1>2. CASE ~RemoveFromPrograms(c)
    <2>1. UNCHANGED <<channel, arrived, dead, alerts, published, worker>>
        BY <1>2 DEF ClientStep, Handler, AddToPrograms, OpenWindow, DropWindow, Finishes,
                    ReadMetrics, Disconnect, Request, history
    <2> QED
        BY <2>1 DEF LogTypes
<1> QED
    BY <1>1, <1>2

\* The steps of the worker and of the client that feeds it.
LEMMA NextSplits ==
    Next <=> \/ \E p \in Programs, alarming \in BOOLEAN : Ingest(p, alarming)
             \/ Receive \/ DeadLetter \/ Accept \/ Detect \/ Store \/ Publish
             \/ \E c \in Clients : ClientStep(c)
BY DEF Next, Worker, ClientStep

LEMMA LogTypesStep == LogTypes /\ [Next]_vars => LogTypes'
<1> SUFFICES ASSUME LogTypes, [Next]_vars
             PROVE  LogTypes'
    OBVIOUS
<1>1. ASSUME NEW p \in Programs, NEW alarming \in BOOLEAN, Ingest(p, alarming)
      PROVE  LogTypes'
    <2>1. [n |-> arrived + 1, program |-> p, alarming |-> alarming] \in Tx
        BY DEF LogTypes, Tx
    <2>2. channel' \in Seq(Tx) /\ arrived' \in Nat
        BY <1>1, <2>1 DEF LogTypes, Ingest
    <2> QED
        BY <1>1, <2>2 DEF LogTypes, Ingest
<1>2. CASE Receive
    <2>1. Head(channel) \in Tx /\ channel' \in Seq(Tx)
        BY <1>2 DEF LogTypes, Receive
    <2>2. NoTx \notin Tx
        BY DEF NoTx, Tx
    <2>3. worker' = [pc |-> "check", tx |-> Head(channel), kept |-> FALSE]
        BY <1>2 DEF Receive, Ready
    <2>4. /\ worker' \in [pc : {"recv", "check", "detect", "store", "publish"},
                           tx : Tx \cup {NoTx}, kept : BOOLEAN]
          /\ worker'.pc # "recv" /\ worker'.tx # NoTx
        BY <2>1, <2>2, <2>3
    <2>5. UNCHANGED <<arrived, dead, alerts, published>>
        BY <1>2 DEF Receive, history
    <2> QED
        BY <2>1, <2>4, <2>5 DEF LogTypes
<1>3. CASE DeadLetter
    <2>1. worker.tx \in Tx
        BY <1>3 DEF LogTypes, DeadLetter
    <2>2. dead' \in Seq(Tx)
        BY <1>3, <2>1 DEF LogTypes, DeadLetter
    <2> QED
        BY <1>3, <2>2 DEF LogTypes, DeadLetter, Ready
<1>4. CASE Accept
    BY <1>4 DEF LogTypes, Accept, history
<1>5. CASE Detect
    <2>1. worker.tx \in Tx
        BY <1>5 DEF LogTypes, Detect
    <2>2. alerts' \in Seq(Tx)
        BY <1>5, <2>1 DEF LogTypes, Detect
    <2> QED
        BY <1>5, <2>2 DEF LogTypes, Detect
<1>6. CASE Store
    BY <1>6 DEF LogTypes, Store, history
<1>7. CASE Publish
    <2>1. worker.tx \in Tx
        BY <1>7 DEF LogTypes, Publish
    <2>2. published' \in Seq(Tx)
        BY <1>7, <2>1 DEF LogTypes, Publish
    <2> QED
        BY <1>7, <2>2 DEF LogTypes, Publish, Ready
<1>8. ASSUME NEW c \in Clients, ClientStep(c)
      PROVE  LogTypes'
    BY <1>8, ClientsLeaveLogs
<1>9. CASE UNCHANGED vars
    BY <1>9 DEF LogTypes, vars, history
<1> QED
    BY <1>1, <1>2, <1>3, <1>4, <1>5, <1>6, <1>7, <1>8, <1>9, NextSplits

-----------------------------------------------------------------------------
(* Counting *)

LEMMA LogGrows ==
    ASSUME NEW log \in Seq(Tx), NEW tx \in Tx
    PROVE  /\ Numbers(Append(log, tx)) = Numbers(log) \cup {tx.n}
           /\ ToSet(Append(log, tx)) = ToSet(log) \cup {tx}
           /\ InOrder(log) /\ (\A m \in Numbers(log) : m < tx.n) => InOrder(Append(log, tx))
<1> DEFINE longer == Append(log, tx)
<1>1. /\ DOMAIN longer = 1 .. Len(log) + 1 /\ DOMAIN log = 1 .. Len(log) /\ Len(log) \in Nat
      /\ \A i \in 1 .. Len(log) : longer[i] = log[i]
      /\ longer[Len(log) + 1] = tx
    OBVIOUS
<1> HIDE DEF longer
<1>2. DOMAIN longer = DOMAIN log \cup {Len(log) + 1}
    BY <1>1
<1>3. /\ Numbers(longer) = Numbers(log) \cup {tx.n}
      /\ ToSet(longer) = ToSet(log) \cup {tx}
    BY <1>1, <1>2 DEF Numbers, ToSet
<1>4. ASSUME InOrder(log), \A m \in Numbers(log) : m < tx.n,
             NEW i \in DOMAIN longer, NEW j \in DOMAIN longer, i < j
      PROVE  longer[i].n < longer[j].n
    <2>1. i \in DOMAIN log /\ longer[i] = log[i]
        BY <1>1, <1>4
    <2>2. CASE j \in DOMAIN log
        BY <1>1, <1>4, <2>1, <2>2 DEF InOrder
    <2>3. CASE j = Len(log) + 1
        BY <1>1, <1>4, <2>1, <2>3 DEF Numbers
    <2> QED
        BY <1>2, <2>2, <2>3
<1> QED
    BY <1>3, <1>4 DEF InOrder, longer

LEMMA CountInit == Init => CountInv
<1> SUFFICES ASSUME Init
             PROVE  CountInv
    OBVIOUS
<1>1. LogTypes
    BY LogTypesInit
<1>2. Done = 0 /\ InTurn
    <2>1. channel = << >> /\ worker.pc = "recv"
        BY DEF Init, Ready
    <2>2. Len(channel) = 0 /\ DOMAIN channel = {}
        BY <2>1
    <2>3. arrived = 0
        BY DEF Init
    <2>4. Done = arrived - Len(channel) - 0
        BY <2>1 DEF Done
    <2>5. Done = 0
        BY <2>2, <2>3, <2>4
    <2> QED
        BY <2>1, <2>2, <2>5 DEF InTurn
<1>3. Numbers(<< >>) = {} /\ InOrder(<< >>) /\ ToSet(<< >>) = {}
    BY DEF Numbers, InOrder, ToSet
<1>4. Through
    BY <1>2, <1>3 DEF Init, Through
<1>5. AlertsMatchFeed
    BY <1>3 DEF Init, AlertsMatchFeed, Ready
<1> QED
    BY <1>1, <1>2, <1>4, <1>5 DEF CountInv

\* What stays as it is, of the worker and of the logs.
LEMMA StillThrough ==
    ASSUME Through, Done' = Done, UNCHANGED <<dead, published>>
    PROVE  Through'
BY DEF Through, Numbers, InOrder

LEMMA StillMatch ==
    ASSUME AlertsMatchFeed, UNCHANGED <<alerts, published>>, worker'.tx = worker.tx,
           worker'.pc \in {"store", "publish"} <=> worker.pc \in {"store", "publish"}
    PROVE  AlertsMatchFeed'
BY DEF AlertsMatchFeed, InOrder

LEMMA CountStep == CountInv /\ [Next]_vars => CountInv'
<1> SUFFICES ASSUME CountInv, [Next]_vars
             PROVE  CountInv'
    OBVIOUS
<1> USE DEF CountInv
<1>0. LogTypes'
    BY LogTypesStep
<1>a. /\ Len(channel) \in Nat /\ arrived \in Nat /\ DOMAIN channel = 1 .. Len(channel)
      /\ dead \in Seq(Tx) /\ published \in Seq(Tx) /\ alerts \in Seq(Tx)
      /\ worker.pc # "recv" => worker.tx \in Tx
    BY DEF LogTypes
<1>b. Done \in Nat /\ (\A n \in Numbers(dead) \cup Numbers(published) : n \in 1 .. Done)
    BY DEF InTurn, Through
<1>1. ASSUME NEW p \in Programs, NEW alarming \in BOOLEAN, Ingest(p, alarming)
      PROVE  CountInv'
    <2>1. /\ channel' = Append(channel, [n |-> arrived + 1, program |-> p, alarming |-> alarming])
          /\ arrived' = arrived + 1
          /\ UNCHANGED <<worker, dead, alerts, published>>
        BY <1>1 DEF Ingest
    <2>2. /\ Len(channel') = Len(channel) + 1 /\ DOMAIN channel' = 1 .. Len(channel) + 1
          /\ \A i \in 1 .. Len(channel) : channel'[i] = channel[i]
          /\ channel'[Len(channel) + 1].n = arrived + 1
        BY <2>1, <1>a DEF LogTypes
    <2>3. Done' = Done
        BY <1>a, <2>1, <2>2 DEF Done
    <2>4. \A i \in DOMAIN channel' : channel'[i].n = arrived' - Len(channel') + i
        BY <1>a, <2>1, <2>2 DEF InTurn
    <2>5. InTurn'
        BY <1>b, <2>1, <2>3, <2>4 DEF InTurn
    <2>6. Through' /\ AlertsMatchFeed'
        BY <2>1, <2>3, StillThrough, StillMatch
    <2> QED
        BY <1>0, <2>5, <2>6
<1>2. CASE Receive
    <2>1. /\ channel # << >> /\ channel' = Tail(channel) /\ worker.pc = "recv"
          /\ worker'.pc = "check" /\ worker'.tx = Head(channel)
          /\ UNCHANGED <<arrived, dead, alerts, published>>
        BY <1>2 DEF Receive, Ready, history
    <2>2. /\ Len(channel') = Len(channel) - 1 /\ DOMAIN channel' = 1 .. Len(channel) - 1
          /\ \A i \in 1 .. Len(channel) - 1 : channel'[i] = channel[i + 1]
          /\ Len(channel) >= 1 /\ Head(channel) = channel[1]
        BY <2>1, <1>a DEF LogTypes
    <2>3. Done' = Done
        BY <1>a, <2>1, <2>2 DEF Done
    <2>4. ASSUME NEW i \in DOMAIN channel'
          PROVE  channel'[i].n = arrived' - Len(channel') + i
        <3>1. i \in Int /\ i + 1 \in DOMAIN channel /\ channel'[i] = channel[i + 1]
            BY <1>a, <2>2
        <3>2. channel[i + 1].n = arrived - Len(channel) + (i + 1)
            BY <3>1 DEF InTurn
        <3>3. arrived' - Len(channel') + i = arrived - Len(channel) + (i + 1)
            <4>1. arrived' = arrived /\ Len(channel') = Len(channel) - 1
                BY <2>1, <2>2
            <4>2. arrived \in Int /\ Len(channel) \in Int
                BY <1>a DEF LogTypes
            <4> QED
                BY <3>1, <4>1, <4>2
        <3> QED
            BY <3>1, <3>2, <3>3
    <2>5. worker'.tx.n = Done + 1
        BY <1>a, <2>1, <2>2 DEF InTurn, Done
    <2>6. InTurn'
        BY <1>b, <2>1, <2>3, <2>4, <2>5 DEF InTurn
    <2>7. AlertsMatchFeed'
        BY <2>1 DEF AlertsMatchFeed, InOrder
    <2> QED
        BY <1>0, <2>1, <2>3, <2>6, <2>7, StillThrough
<1>3. CASE DeadLetter
    <2>1. /\ worker.pc = "check" /\ worker'.pc = "recv" /\ dead' = Append(dead, worker.tx)
          /\ UNCHANGED <<channel, arrived, alerts, published>>
        BY <1>3 DEF DeadLetter, Ready
    <2>2. worker.tx \in Tx /\ worker.tx.n = Done + 1 /\ Done' = Done + 1
        BY <1>a, <2>1 DEF InTurn, Done
    <2>3. Numbers(dead') = Numbers(dead) \cup {Done + 1} /\ InOrder(dead')
        <3>1. \A m \in Numbers(dead) : m < worker.tx.n
            BY <1>b, <2>2
        <3>2. InOrder(dead)
            BY DEF Through
        <3>3. /\ Numbers(Append(dead, worker.tx)) = Numbers(dead) \cup {worker.tx.n}
              /\ InOrder(Append(dead, worker.tx))
            BY <1>a, <2>2, <3>1, <3>2, LogGrows
        <3> QED
            BY <2>1, <2>2, <3>3
    <2>4. Through'
        <3>1. InOrder(published') /\ Numbers(published') = Numbers(published)
            BY <2>1 DEF Through, InOrder, Numbers
        <3>2. Done + 1 \notin Numbers(published)
            BY <1>b
        <3>3. Numbers(dead') \cup Numbers(published') = 1 .. Done + 1
            <4>1. 1 .. Done + 1 = (1 .. Done) \cup {Done + 1}
                BY <1>b
            <4> QED
                BY <2>3, <3>1, <4>1, Zenon DEF Through
        <3>4. Numbers(dead') \cap Numbers(published') = {}
            BY <2>3, <3>1, <3>2 DEF Through
        <3> QED
            BY <2>2, <2>3, <3>1, <3>3, <3>4 DEF Through
    <2>5. InTurn'
        BY <1>b, <2>1, <2>2 DEF InTurn
    <2>6. AlertsMatchFeed'
        BY <2>1 DEF AlertsMatchFeed, InOrder
    <2> QED
        BY <1>0, <2>4, <2>5, <2>6
<1>4. CASE Accept
    <2>1. /\ worker.pc = "check" /\ worker'.pc = "detect" /\ worker'.tx = worker.tx
          /\ UNCHANGED <<channel, arrived, dead, alerts, published>>
        BY <1>4 DEF Accept, LogTypes, history
    <2>2. Done' = Done
        BY <2>1 DEF Done
    <2>3. InTurn'
        BY <2>1, <2>2 DEF InTurn
    <2> QED
        BY <1>0, <2>1, <2>2, <2>3, StillThrough, StillMatch
<1>5. CASE Detect
    <2>1. /\ worker.pc = "detect" /\ worker'.pc = "store" /\ worker'.tx = worker.tx
          /\ alerts' = IF worker.tx.alarming THEN Append(alerts, worker.tx) ELSE alerts
          /\ UNCHANGED <<channel, arrived, dead, published>>
        BY <1>5 DEF Detect, LogTypes
    <2>2. Done' = Done
        BY <2>1 DEF Done
    <2>3. InTurn'
        BY <2>1, <2>2 DEF InTurn
    <2>4. ToSet(alerts) = {tx \in ToSet(published) : tx.alarming} /\ InOrder(alerts)
        BY <2>1 DEF AlertsMatchFeed
    <2>5. CASE worker.tx.alarming
        <3>1. worker.tx \in Tx /\ worker.tx.n = Done + 1 /\ alerts' = Append(alerts, worker.tx)
            BY <1>a, <2>1, <2>5 DEF InTurn
        <3>2. \A m \in Numbers(alerts) : m \in Numbers(published)
            BY <2>4 DEF Numbers, ToSet
        <3>3. \A m \in Numbers(alerts) : m < worker.tx.n
            BY <1>b, <3>1, <3>2
        <3>4. ToSet(alerts') = ToSet(alerts) \cup {worker.tx} /\ InOrder(alerts')
            BY <1>a, <2>4, <3>1, <3>3, LogGrows, Zenon
        <3>5. AlertsMatchFeed'
            BY <2>1, <2>4, <2>5, <3>4 DEF AlertsMatchFeed
        <3> QED
            BY <1>0, <2>1, <2>2, <2>3, <3>5, StillThrough
    <2>6. CASE ~worker.tx.alarming
        <3>1. AlertsMatchFeed'
            BY <2>1, <2>4, <2>6 DEF AlertsMatchFeed, InOrder
        <3> QED
            BY <1>0, <2>1, <2>2, <2>3, <3>1, StillThrough
    <2> QED
        BY <2>5, <2>6
<1>6. CASE Store
    <2>1. /\ worker.pc = "store" /\ worker'.pc = "publish" /\ worker'.tx = worker.tx
          /\ UNCHANGED <<channel, arrived, dead, alerts, published>>
        BY <1>6 DEF Store, LogTypes, history
    <2>2. Done' = Done
        BY <2>1 DEF Done
    <2>3. InTurn'
        BY <2>1, <2>2 DEF InTurn
    <2> QED
        BY <1>0, <2>1, <2>2, <2>3, StillThrough, StillMatch
<1>7. CASE Publish
    <2>1. /\ worker.pc = "publish" /\ worker'.pc = "recv" /\ published' = Append(published, worker.tx)
          /\ UNCHANGED <<channel, arrived, alerts, dead>>
        BY <1>7 DEF Publish, Ready
    <2>2. worker.tx \in Tx /\ worker.tx.n = Done + 1 /\ Done' = Done + 1
        BY <1>a, <2>1 DEF InTurn, Done
    <2>3. /\ Numbers(published') = Numbers(published) \cup {Done + 1} /\ InOrder(published')
          /\ ToSet(published') = ToSet(published) \cup {worker.tx}
        <3>1. \A m \in Numbers(published) : m < worker.tx.n
            BY <1>b, <2>2
        <3>2. InOrder(published)
            BY DEF Through
        <3>3. /\ Numbers(Append(published, worker.tx)) = Numbers(published) \cup {worker.tx.n}
              /\ ToSet(Append(published, worker.tx)) = ToSet(published) \cup {worker.tx}
              /\ InOrder(Append(published, worker.tx))
            BY <1>a, <2>2, <3>1, <3>2, LogGrows
        <3> QED
            BY <2>1, <2>2, <3>3
    <2>4. Through'
        <3>1. InOrder(dead') /\ Numbers(dead') = Numbers(dead)
            BY <2>1 DEF Through, InOrder, Numbers
        <3>2. Done + 1 \notin Numbers(dead)
            BY <1>b
        <3>3. Numbers(dead') \cup Numbers(published') = 1 .. Done + 1
            <4>1. 1 .. Done + 1 = (1 .. Done) \cup {Done + 1}
                BY <1>b
            <4> QED
                BY <2>3, <3>1, <4>1, Zenon DEF Through
        <3>4. Numbers(dead') \cap Numbers(published') = {}
            BY <2>3, <3>1, <3>2 DEF Through
        <3> QED
            BY <2>2, <2>3, <3>1, <3>3, <3>4 DEF Through
    <2>5. InTurn'
        BY <1>b, <2>1, <2>2 DEF InTurn
    <2>6. AlertsMatchFeed'
        <3>1. /\ ToSet(alerts) = {tx \in ToSet(published) : tx.alarming}
                               \cup (IF worker.tx.alarming THEN {worker.tx} ELSE {})
              /\ InOrder(alerts)
            BY <2>1 DEF AlertsMatchFeed
        <3>2. ToSet(alerts') = {tx \in ToSet(published') : tx.alarming} /\ InOrder(alerts')
            BY <2>1, <2>3, <3>1 DEF InOrder
        <3> QED
            BY <2>1, <3>2 DEF AlertsMatchFeed
    <2> QED
        BY <1>0, <2>4, <2>5, <2>6
<1>8. ASSUME NEW c \in Clients, ClientStep(c)
      PROVE  CountInv'
    <2>1. /\ UNCHANGED <<channel, arrived, dead, alerts, published>>
          /\ worker'.pc = worker.pc /\ worker'.tx = worker.tx
        BY <1>8, ClientsLeaveLogs
    <2>2. Done' = Done
        BY <2>1 DEF Done
    <2>3. InTurn'
        BY <2>1, <2>2 DEF InTurn
    <2> QED
        BY <1>0, <2>1, <2>2, <2>3, StillThrough, StillMatch
<1>9. CASE UNCHANGED vars
    <2>1. UNCHANGED <<channel, worker, arrived, dead, alerts, published>>
        BY <1>9 DEF vars, history
    <2>2. Done' = Done
        BY <2>1 DEF Done
    <2>3. InTurn'
        BY <2>1, <2>2 DEF InTurn
    <2> QED
        BY <1>0, <2>1, <2>2, <2>3, StillThrough, StillMatch
<1> QED
    BY <1>1, <1>2, <1>3, <1>4, <1>5, <1>6, <1>7, <1>8, <1>9, NextSplits

\* The transactions that run_processing_worker is through with, the one it has, and
\* those in the channel are all that arrived, in their order.
THEOREM CountInvariant == Spec => []CountInv
BY CountInit, CountStep, PTL DEF Spec

\* Whatever the handlers do meanwhile, run_processing_worker dead-letters or
\* broadcasts each transaction that arrives, once and in order.
THEOREM AllAccounted == Spec => []Accounted
<1>1. CountInv => Accounted
    <2> SUFFICES ASSUME CountInv
                 PROVE  Accounted
        OBVIOUS
    <2> USE DEF CountInv
    <2>1. /\ Len(channel) \in Nat /\ arrived \in Nat /\ DOMAIN channel = 1 .. Len(channel)
          /\ worker.tx = NoTx <=> worker.pc = "recv"
        BY DEF LogTypes
    <2> DEFINE from == arrived - Len(channel)
    <2>2. Numbers(channel) = from + 1 .. arrived
        <3>1. \A i \in 1 .. Len(channel) : channel[i].n = from + i
            BY <2>1 DEF InTurn
        <3>2. from \in Int /\ from + Len(channel) = arrived
            BY <2>1
        <3> HIDE DEF from
        <3>3. ASSUME NEW n \in from + 1 .. arrived
              PROVE  n - from \in 1 .. Len(channel) /\ channel[n - from].n = n
            <4>1. n - from \in 1 .. Len(channel) /\ from + (n - from) = n
                BY <2>1, <3>2
            <4> QED
                BY <3>1, <4>1
        <3>4. \A i \in 1 .. Len(channel) : channel[i].n \in from + 1 .. arrived
            BY <2>1, <3>1, <3>2
        <3> QED
            BY <2>1, <3>3, <3>4 DEF Numbers
    <2>3. CASE worker.pc = "recv"
        <3>1. InTransit = from + 1 .. arrived /\ Done = from /\ Done \in Nat
            BY <2>1, <2>2, <2>3 DEF InTransit, Done, InTurn
        <3>2. 1 .. arrived = (1 .. from) \cup (from + 1 .. arrived)
            BY <2>1, <3>1
        <3>3. (1 .. from) \cap (from + 1 .. arrived) = {}
            BY <2>1, <3>1
        <3> QED
            BY <3>1, <3>2, <3>3, Zenon DEF Accounted, Through
    <2>4. CASE worker.pc # "recv"
        <3>1. Done \in Nat /\ from = Done + 1 /\ worker.tx.n = from
            BY <2>1, <2>4 DEF Done, InTurn
        <3>2. InTransit = Done + 1 .. arrived
            <4>1. InTransit = (from + 1 .. arrived) \cup {from}
                BY <2>1, <2>2, <2>4, <3>1 DEF InTransit
            <4>2. from <= arrived
                BY <2>1
            <4> QED
                BY <2>1, <3>1, <4>1, <4>2
        <3>3. Done <= arrived
            BY <2>1, <3>1
        <3>4. 1 .. arrived = (1 .. Done) \cup (Done + 1 .. arrived)
            BY <2>1, <3>1, <3>3
        <3>5. (1 .. Done) \cap (Done + 1 .. arrived) = {}
            BY <2>1, <3>1
        <3> QED
            BY <3>2, <3>4, <3>5, Zenon DEF Accounted, Through
    <2> QED
        BY <2>3, <2>4
<1> QED
    BY <1>1, CountInvariant, PTL

\* The detections of run_processing_worker raise their alerts for exactly the
\* transactions that it broadcasts, in the same order and ahead by at most one.
THEOREM AlertsFollowTheFeed == Spec => []AlertsMatchFeed
<1>1. CountInv => AlertsMatchFeed
    BY DEF CountInv
<1> QED
    BY <1>1, CountInvariant, PTL

-----------------------------------------------------------------------------
(* Who is first in the queue of the programs *)

LEMMA AskKeepsFirst ==
    ASSUME LockTypes, NEW l \in Locks, NEW t \in Tasks, NEW write \in BOOLEAN,
           l = "programs" => [task |-> t, write |-> write] \in Asking,
           Ask(l, t, write)
    PROVE  LockTypes' /\ \A c : First(c) => First(c)'
<1> DEFINE Entry == [task : Tasks, write : BOOLEAN]
           entry == [task |-> t, write |-> write]
           q == lockq["programs"]
<1>1. lockq' = [lockq EXCEPT ![l] = Append(@, entry)] /\ lockq \in [Locks -> Seq(Entry)]
    BY DEF Ask, LockTypes
<1>2. lockq' \in [Locks -> Seq(Entry)]
    <2>1. entry \in Entry /\ lockq[l] \in Seq(Entry)
        BY <1>1
    <2> HIDE DEF entry, Entry
    <2>2. Append(lockq[l], entry) \in Seq(Entry)
        BY <2>1
    <2> QED
        BY <1>1, <2>2
<1>3. q \in Seq(Asking) /\ "programs" \in Locks
    BY DEF LockTypes, Locks
<1>4. CASE l = "programs"
    <2>1. lockq'["programs"] = Append(q, entry) /\ entry \in Asking
        BY <1>1, <1>3, <1>4
    <2> HIDE DEF entry
    <2>2. Append(q, entry) \in Seq(Asking)
        BY <1>3, <2>1
    <2>3. q # << >> => Append(q, entry) # << >> /\ Head(Append(q, entry)) = Head(q)
        BY <1>3, <2>1
    <2> QED
        BY <1>2, <2>1, <2>2, <2>3, Zenon DEF LockTypes, First
<1>5. CASE l # "programs"
    <2>1. lockq'["programs"] = q
        BY <1>1, <1>3, <1>5
    <2> QED
        BY <1>2, <1>3, <2>1, Zenon DEF LockTypes, First
<1> QED
    BY <1>4, <1>5

LEMMA LeaveKeepsFirst ==
    ASSUME LockTypes, NEW t, Leave(t)
    PROVE  LockTypes' /\ \A c : c # t /\ First(c) => First(c)'
<1> DEFINE Entry == [task : Tasks, write : BOOLEAN]
           q == lockq["programs"]
<1>1. lockq' = [l \in Locks |-> Without(lockq[l], t)] /\ "programs" \in Locks
    BY DEF Leave, Locks
<1>2. q \in Seq(Asking) /\ \A l \in Locks : lockq[l] \in Seq(Entry)
    BY DEF LockTypes
<1> HIDE DEF Entry
<1>3. \A l \in Locks : Without(lockq[l], t) \in Seq(Entry)
    BY <1>2, LeavesTheOthers
<1>4. lockq' \in [Locks -> Seq(Entry)]
    BY <1>1, <1>3
<1>5. lockq'["programs"] = Without(q, t)
    BY <1>1
<1>6. /\ Without(q, t) \in Seq(Asking)
      /\ q # << >> /\ Head(q).task # t =>
             Without(q, t) # << >> /\ Head(Without(q, t)) = Head(q)
    BY <1>2, LeavesTheOthers
<1> QED
    BY <1>4, <1>5, <1>6, Zenon DEF LockTypes, First, Entry

\* A client asked to write, and holds the programs only when it is the first.
LEMMA HolderOfPrograms ==
    ASSUME LockTypes, NEW c \in Clients, Holds("programs", c)
    PROVE  First(c)
<1> DEFINE q == lockq["programs"]
<1>1. "programs" \in Locks /\ q \in Seq([task : Tasks, write : BOOLEAN]) /\ q \in Seq(Asking)
    BY DEF LockTypes, Locks
<1>2. /\ q # << >>
      /\ Head(q).task = c \/ \E i \in DOMAIN q : q[i].task = c /\ ~q[i].write
    BY <1>1, HolderIsFirst
<1>3. \A i \in DOMAIN q : q[i] \in Asking
    BY <1>1
<1>4. \A e \in Asking : e.task = c => e.write = TRUE
    BY WorkerIsNoClient DEF Asking
<1> QED
    BY <1>2, <1>3, <1>4 DEF First

\* While the worker reads the programs, or nobody holds them to write, no client
\* is the first.
LEMMA ReadingKeepsClientsOut ==
    ASSUME LockTypes, Holds("programs", "worker") \/ ~HeldForWriting("programs"),
           NEW c \in Clients
    PROVE  ~First(c)
<1> DEFINE q == lockq["programs"]
<1>1. "programs" \in Locks /\ q \in Seq([task : Tasks, write : BOOLEAN]) /\ q \in Seq(Asking)
    BY DEF LockTypes, Locks
<1>2. SUFFICES ASSUME q # << >>, Head(q).task = c
               PROVE  FALSE
    BY DEF First
<1>3. Head(q) \in Asking
    BY <1>1, <1>2
<1>4. c # "worker" /\ Head(q).write = TRUE
    BY <1>2, <1>3, WorkerIsNoClient DEF Asking
<1>5. HeldForWriting("programs")
    BY <1>2, <1>4 DEF HeldForWriting
<1>6. Head(q).task = "worker" \/ ~Head(q).write
    BY <1>1, <1>5, HolderIsFirst
<1> QED
    BY <1>2, <1>4, <1>6

-----------------------------------------------------------------------------
(* The maps, the handlers and the worker's transaction *)

LEMMA MapsInit == Init => MapsInv
<1> SUFFICES ASSUME Init
             PROVE  MapsInv
    OBVIOUS
<1>1. LogTypes
    BY LogTypesInit
<1>2. lockq = [l \in Locks |-> << >>] /\ worker = Ready /\ client = [c \in Clients |-> Free]
      /\ monitored = Boot /\ windows = [p \in Boot |-> << >>] /\ torn = {}
    BY DEF Init
<1>3. MapTypes
    <2>1. LockTypes
        BY <1>2 DEF LockTypes, Locks
    <2> QED
        BY <1>2, <2>1, BootArePrograms DEF MapTypes
<1>4. \A c \in Clients : ~Second(c)
    BY <1>2 DEF Second, Free
<1>5. AgreeUnlessHalfDone
    BY <1>2 DEF AgreeUnlessHalfDone, Agree
<1>6. KeptHasWindow /\ StoredBeforePublished
    BY <1>2 DEF KeptHasWindow, StoredBeforePublished, Ready
<1> QED
    BY <1>1, <1>3, <1>4, <1>5, <1>6 DEF MapsInv, SecondIsFirst, HalfDone

\* A client that is the first is the only one between its writes.
LEMMA OnlyTheFirst ==
    ASSUME SecondIsFirst, NEW c, First(c), NEW d \in Clients, Second(d)
    PROVE  d = c
BY DEF SecondIsFirst, First

\* The worker changes no map but the contents of a window.
LEMMA WorkerKeepsMaps ==
    ASSUME SecondIsFirst, HalfDone, AgreeUnlessHalfDone,
           UNCHANGED <<monitored, client, torn>>, DOMAIN windows' = DOMAIN windows,
           \A c \in Clients : First(c) => First(c)'
    PROVE  SecondIsFirst' /\ HalfDone' /\ AgreeUnlessHalfDone'
<1>1. \A c : Second(c)' <=> Second(c)
    BY DEF Second
<1> QED
    BY <1>1 DEF SecondIsFirst, HalfDone, AgreeUnlessHalfDone, Agree

\* A transaction the worker does not hold, or no longer keeps, is owed no window.
LEMMA NotKept ==
    ASSUME worker'.kept = FALSE
    PROVE  KeptHasWindow' /\ StoredBeforePublished'
BY DEF KeptHasWindow, StoredBeforePublished

\* The worker keeps its transaction, and the program its window, as they are.
LEMMA KeepsWindow ==
    ASSUME LogTypes, KeptHasWindow, StoredBeforePublished,
           worker'.pc = worker.pc, worker'.tx = worker.tx,
           worker'.kept = worker.kept \/ worker'.kept = FALSE,
           worker'.kept = TRUE => worker.tx.program \in monitored',
           torn \subseteq torn',
           worker.kept /\ worker.tx.program \in DOMAIN windows =>
               /\ worker.tx.program \in DOMAIN windows'
               /\ windows'[worker.tx.program] = windows[worker.tx.program]
    PROVE  KeptHasWindow' /\ StoredBeforePublished'
<1>1. CASE worker'.kept = FALSE
    BY <1>1, NotKept
<1>2. CASE worker'.kept # FALSE
    <2>1. worker'.kept = TRUE /\ worker.kept = TRUE
        BY <1>2 DEF LogTypes
    <2>2. KeptHasWindow'
        BY <2>1 DEF KeptHasWindow
    <2>3. StoredBeforePublished'
        BY <2>1 DEF KeptHasWindow, StoredBeforePublished, Last
    <2> QED
        BY <2>2, <2>3
<1> QED
    BY <1>1, <1>2

LEMMA WorkerStep ==
    ASSUME MapsInv, LogTypes',
           Receive \/ DeadLetter \/ Accept \/ Detect \/ Store \/ Publish
    PROVE  MapsInv'
<1> USE DEF MapsInv
<1>1. UNCHANGED <<monitored, client, torn>>
    BY DEF Receive, DeadLetter, Accept, Detect, Store, Publish, history
<1>2. LockTypes /\ "programs" \in Locks /\ "windows" \in Locks /\ "worker" \in Tasks
    BY DEF MapTypes, Locks, Tasks
<1>3. SUFFICES /\ LockTypes' /\ \A c \in Clients : First(c) => First(c)'
               /\ DOMAIN windows' = DOMAIN windows
               /\ \A p \in DOMAIN windows : windows'[p] \in Seq(Nat)
               /\ KeptHasWindow' /\ StoredBeforePublished'
    <2>1. MapTypes'
        BY <1>1, <1>3 DEF MapTypes
    <2> QED
        BY <1>1, <1>3, <2>1, WorkerKeepsMaps
<1>4. \A c \in Clients : c # "worker"
    BY WorkerIsNoClient
<1>5. CASE Receive
    <2>1. Ask("programs", "worker", FALSE) /\ windows' = windows /\ worker'.kept = FALSE
        BY <1>5 DEF Receive, Ready
    <2>2. [task |-> "worker", write |-> FALSE] \in Asking
        BY DEF Asking
    <2>3. LockTypes' /\ \A c \in Clients : First(c) => First(c)'
        BY <1>2, <2>1, <2>2, AskKeepsFirst
    <2> QED
        BY <2>1, <2>3, NotKept DEF MapTypes
<1>6. CASE DeadLetter
    <2>1. Leave("worker") /\ windows' = windows /\ worker'.kept = FALSE
        BY <1>6 DEF DeadLetter, Ready
    <2>2. LockTypes' /\ \A c \in Clients : First(c) => First(c)'
        BY <1>2, <1>4, <2>1, LeaveKeepsFirst
    <2> QED
        BY <2>1, <2>2, NotKept DEF MapTypes
<1>7. CASE Accept
    <2>1. Leave("worker") /\ windows' = windows /\ Holds("programs", "worker")
        BY <1>7 DEF Accept
    <2>2. LockTypes' /\ \A c \in Clients : First(c) => First(c)'
        BY <1>2, <1>4, <2>1, LeaveKeepsFirst
    <2>3. /\ worker'.pc = "detect" /\ worker'.tx = worker.tx
          /\ worker.tx.program \in monitored /\ monitored \subseteq Programs
        BY <1>7 DEF Accept, LogTypes, IsMonitored, MapTypes
    <2>4. \A c \in Clients : ~Second(c)
        BY <1>2, <2>1, ReadingKeepsClientsOut DEF SecondIsFirst
    <2>5. worker.tx.program \notin torn => worker.tx.program \in DOMAIN windows
        BY <2>3, <2>4 DEF AgreeUnlessHalfDone, Agree
    <2>6. KeptHasWindow' /\ StoredBeforePublished'
        BY <1>1, <2>1, <2>3, <2>5 DEF KeptHasWindow, StoredBeforePublished
    <2> QED
        BY <2>1, <2>2, <2>6 DEF MapTypes
<1>8. CASE Detect
    <2>1. Ask("windows", "worker", TRUE) /\ windows' = windows
        BY <1>8 DEF Detect
    <2>2. LockTypes' /\ \A c \in Clients : First(c) => First(c)'
        <3>1. "windows" # "programs" /\ TRUE \in BOOLEAN
            OBVIOUS
        <3> QED
            BY <1>2, <2>1, <3>1, AskKeepsFirst
    <2>3. worker.pc = "detect" /\ worker'.pc = "store" /\ worker'.tx = worker.tx
          /\ worker'.kept = worker.kept
        BY <1>8 DEF Detect, LogTypes
    <2>4. KeptHasWindow' /\ StoredBeforePublished'
        BY <1>1, <2>1, <2>3 DEF KeptHasWindow, StoredBeforePublished
    <2> QED
        BY <2>1, <2>2, <2>4 DEF MapTypes
<1>9. CASE Store
    <2>1. Leave("worker") /\ worker.pc = "store"
        BY <1>9 DEF Store
    <2>2. LockTypes' /\ \A c \in Clients : First(c) => First(c)'
        BY <1>2, <1>4, <2>1, LeaveKeepsFirst
    <2>3. worker'.pc = "publish" /\ worker'.tx = worker.tx /\ worker'.kept = worker.kept
        BY <1>9 DEF Store, LogTypes
    <2> DEFINE p == worker.tx.program
    <2>4. CASE p \in DOMAIN windows
        <3>1. PICK evicted \in 0 .. Len(windows[p]) :
                windows' = [windows EXCEPT ![p] =
                    Append(SubSeq(@, evicted + 1, Len(@)), worker.tx.n)]
            BY <1>9, <2>4, Zenon DEF Store
        <3>2. windows[p] \in Seq(Nat) /\ worker.tx.n \in Nat
            <4>1. worker.tx \in Tx
                BY <2>1 DEF LogTypes
            <4> QED
                BY <2>4, <4>1 DEF MapTypes, Tx
        <3> DEFINE left == SubSeq(windows[p], evicted + 1, Len(windows[p]))
                   new == Append(left, worker.tx.n)
        <3>3. left \in Seq(Nat)
            BY <3>2
        <3> HIDE DEF left
        <3>4. new \in Seq(Nat) /\ new # << >> /\ new[Len(new)] = worker.tx.n
            BY <3>2, <3>3
        <3> HIDE DEF new
        <3>5. windows' = [windows EXCEPT ![p] = new]
            BY <3>1 DEF new, left
        <3>6. DOMAIN windows' = DOMAIN windows /\ windows'[p] = new
              /\ \A r \in DOMAIN windows : windows'[r] \in Seq(Nat)
            BY <2>4, <3>4, <3>5 DEF MapTypes
        <3>7. KeptHasWindow'
            BY <1>1, <2>1, <2>3, <2>4, <3>6 DEF KeptHasWindow
        <3>8. StoredBeforePublished'
            BY <2>3, <2>4, <3>4, <3>6 DEF StoredBeforePublished, Last
        <3> QED
            BY <2>2, <3>6, <3>7, <3>8
    <2>5. CASE p \notin DOMAIN windows
        <3>1. windows' = windows
            BY <1>9, <2>5 DEF Store
        <3>2. KeptHasWindow' /\ StoredBeforePublished'
            BY <1>1, <2>1, <2>3, <2>5, <3>1 DEF KeptHasWindow, StoredBeforePublished
        <3> QED
            BY <2>2, <3>1, <3>2 DEF MapTypes
    <2> QED
        BY <2>4, <2>5
<1>10. CASE Publish
    <2>1. UNCHANGED <<windows, lockq>> /\ worker'.kept = FALSE
        BY <1>10 DEF Publish, Ready
    <2>2. LockTypes' /\ \A c \in Clients : First(c) => First(c)'
        BY <1>2, <2>1 DEF LockTypes, First
    <2> QED
        BY <2>1, <2>2, NotKept DEF MapTypes
<1> QED
    BY <1>5, <1>6, <1>7, <1>8, <1>9, <1>10

\* A client that is not between its writes before or after the step changes no map.
LEMMA ReaderKeepsMaps ==
    ASSUME MapTypes, SecondIsFirst, HalfDone, AgreeUnlessHalfDone, NEW c \in Clients,
           UNCHANGED <<monitored, windows, torn>>, ~Second(c), ~Second(c)',
           \A d \in Clients : d # c => client'[d] = client[d],
           \A d \in Clients : d # c /\ First(d) => First(d)'
    PROVE  SecondIsFirst' /\ HalfDone' /\ AgreeUnlessHalfDone'
<1>1. \A d \in Clients : Second(d)' => d # c /\ Second(d) /\ client'[d] = client[d]
    BY DEF Second
<1>2. \A d \in Clients : Second(d) => Second(d)' /\ client'[d] = client[d]
    BY DEF Second
<1>3. SecondIsFirst'
    BY <1>1 DEF SecondIsFirst
<1>4. HalfDone'
    BY <1>1 DEF HalfDone
<1>5. AgreeUnlessHalfDone'
    BY <1>2 DEF AgreeUnlessHalfDone, Agree
<1> QED
    BY <1>3, <1>4, <1>5

\* Of the handlers that are between their writes, only c: it goes on to its second
\* write, or ends.
LEMMA WriterKeepsMaps ==
    ASSUME SecondIsFirst, NEW c \in Clients, First(c), client'[c] = Free,
           \A d \in Clients : d # c => client'[d] = client[d],
           \A p \in Programs \ torn' : Agree(p)'
    PROVE  SecondIsFirst' /\ HalfDone' /\ AgreeUnlessHalfDone'
<1>1. \A d \in Clients : ~Second(d)'
    BY OnlyTheFirst DEF Second, Free
<1> QED
    BY <1>1 DEF SecondIsFirst, HalfDone, AgreeUnlessHalfDone

LEMMA ChangeStep ==
    ASSUME MapsInv, LogTypes', NEW c \in Clients, AddToPrograms(c) \/ RemoveFromPrograms(c)
    PROVE  MapsInv'
<1> USE DEF MapsInv
<1> DEFINE p == client[c].program
<1>0. /\ client[c].pc = "first"
      /\ client' = [client EXCEPT ![c].pc = "second"]
      /\ Holds("programs", c) /\ Ask("windows", c, TRUE)
      /\ UNCHANGED <<windows, torn>>
    BY DEF AddToPrograms, RemoveFromPrograms, ChangesPrograms, history
<1>1. client[c] \in Busy /\ p \in Programs
    BY <1>0 DEF MapTypes, Busy, Free
<1>2. /\ client'[c].pc = "second" /\ client'[c].op = client[c].op
      /\ client'[c].program = p /\ client'[c] \in Busy
      /\ \A d \in Clients : d # c => client'[d] = client[d]
      /\ client' \in [Clients -> {Free} \cup Busy]
    BY <1>0, <1>1 DEF MapTypes, Busy
<1>3. First(c)
    BY <1>0, <1>1, HolderOfPrograms DEF MapTypes
<1>4. \A d \in Clients : ~Second(d)
    BY <1>0, <1>1, <1>3, OnlyTheFirst DEF Second
<1>5. LockTypes' /\ \A d : First(d) => First(d)'
    <2>1. "windows" \in Locks /\ c \in Tasks /\ "windows" # "programs" /\ TRUE \in BOOLEAN
        BY DEF Locks, Tasks
    <2> QED
        BY <1>0, <1>1, <2>1, AskKeepsFirst DEF MapTypes
<1>6. SecondIsFirst'
    BY <1>2, <1>3, <1>4, <1>5 DEF SecondIsFirst, Second
<1>7. \/ client[c].op = "add" /\ monitored' = monitored \cup {p}
      \/ client[c].op = "remove" /\ monitored' = monitored \ {p}
    BY DEF AddToPrograms, RemoveFromPrograms, ChangesPrograms
<1>8. HalfDone'
    BY <1>2, <1>4, <1>7 DEF HalfDone, Second
<1>9. AgreeUnlessHalfDone'
    BY <1>0, <1>1, <1>2, <1>4, <1>7 DEF AgreeUnlessHalfDone, Agree, Second
<1>10. MapTypes'
    BY <1>0, <1>1, <1>2, <1>5, <1>7 DEF MapTypes
<1>11. KeptHasWindow' /\ StoredBeforePublished'
    <2>1. CASE AddToPrograms(c)
        <3>1. worker' = worker /\ monitored \subseteq monitored'
            BY <2>1 DEF AddToPrograms
        <3> QED
            BY <1>0, <1>1, <3>1 DEF KeptHasWindow, StoredBeforePublished, Last
    <2>2. CASE RemoveFromPrograms(c)
        <3>1. /\ worker'.pc = worker.pc /\ worker'.tx = worker.tx
              /\ worker'.kept = (worker.kept /\ worker.tx.program # p)
              /\ monitored' = monitored \ {p}
            BY <2>2 DEF RemoveFromPrograms, LogTypes
        <3>2. CASE worker.tx.program = p
            <4>1. worker'.kept = FALSE
                BY <3>1, <3>2
            <4> QED
                BY <4>1, NotKept
        <3>3. CASE worker.tx.program # p
            <4>1. worker'.kept = worker.kept
                BY <3>1, <3>3 DEF LogTypes
            <4>2. KeptHasWindow'
                BY <1>0, <1>1, <3>1, <3>3, <4>1 DEF KeptHasWindow
            <4>3. StoredBeforePublished'
                BY <1>0, <1>1, <3>1, <4>1 DEF StoredBeforePublished, Last
            <4> QED
                BY <4>2, <4>3
        <3> QED
            BY <3>2, <3>3
    <2> QED
        BY <2>1, <2>2
<1> QED
    BY <1>6, <1>8, <1>9, <1>10, <1>11

LEMMA FinishStep ==
    ASSUME MapsInv, LogTypes', NEW c \in Clients, OpenWindow(c) \/ DropWindow(c)
    PROVE  MapsInv'
<1> USE DEF MapsInv
<1> DEFINE p == client[c].program
<1>0. /\ Second(c) /\ client' = [client EXCEPT ![c] = Free] /\ Leave(c)
      /\ UNCHANGED <<monitored, worker, torn>>
    BY DEF OpenWindow, DropWindow, Finishes, Second, history
<1>1. client[c] \in Busy /\ p \in Programs
    BY <1>0 DEF Second, MapTypes, Busy, Free
<1>2. /\ client'[c] = Free /\ \A d \in Clients : d # c => client'[d] = client[d]
      /\ client' \in [Clients -> {Free} \cup Busy]
    BY <1>0, <1>1 DEF MapTypes
<1>3. First(c)
    BY <1>0, <1>1 DEF SecondIsFirst
<1>4. \A d \in Clients : Second(d) => d = c
    BY <1>3, OnlyTheFirst
<1>5. LockTypes'
    BY <1>0, <1>1, LeaveKeepsFirst DEF MapTypes
<1>6. \A r \in Programs \ torn : r # p => Agree(r)
    BY <1>4 DEF AgreeUnlessHalfDone
<1>7. CASE OpenWindow(c)
    <2>1. windows' = [r \in DOMAIN windows \cup {p} |->
                        IF r \in DOMAIN windows THEN windows[r] ELSE << >>]
          /\ client[c].op = "add"
        BY <1>7 DEF OpenWindow, Finishes
    <2>2. /\ DOMAIN windows' = DOMAIN windows \cup {p}
          /\ \A r \in DOMAIN windows : windows'[r] = windows[r]
          /\ \A r \in DOMAIN windows' : windows'[r] \in Seq(Nat)
        BY <2>1 DEF MapTypes
    <2>3. p \in monitored
        BY <1>0, <1>1, <2>1 DEF HalfDone
    <2>4. \A r \in Programs \ torn' : Agree(r)'
        BY <1>0, <1>1, <1>6, <2>2, <2>3 DEF Agree
    <2>5. SecondIsFirst' /\ HalfDone' /\ AgreeUnlessHalfDone'
        BY <1>2, <1>3, <2>4, WriterKeepsMaps
    <2>6. MapTypes'
        BY <1>0, <1>1, <1>2, <1>5, <2>2 DEF MapTypes
    <2>7. KeptHasWindow' /\ StoredBeforePublished'
        BY <1>0, <1>1, <2>2 DEF KeptHasWindow, StoredBeforePublished, Last
    <2> QED
        BY <2>5, <2>6, <2>7
<1>8. CASE DropWindow(c)
    <2>1. windows' = [r \in DOMAIN windows \ {p} |-> windows[r]] /\ client[c].op = "remove"
        BY <1>8 DEF DropWindow, Finishes, Restrict
    <2>2. /\ DOMAIN windows' = DOMAIN windows \ {p}
          /\ \A r \in DOMAIN windows' : windows'[r] = windows[r]
          /\ \A r \in DOMAIN windows' : windows'[r] \in Seq(Nat)
        BY <2>1 DEF MapTypes
    <2>3. p \notin monitored
        BY <1>0, <1>1, <2>1 DEF HalfDone
    <2>4. \A r \in Programs \ torn' : Agree(r)'
        BY <1>0, <1>1, <1>6, <2>2, <2>3 DEF Agree
    <2>5. SecondIsFirst' /\ HalfDone' /\ AgreeUnlessHalfDone'
        BY <1>2, <1>3, <2>4, WriterKeepsMaps
    <2>6. MapTypes'
        BY <1>0, <1>1, <1>2, <1>5, <2>2 DEF MapTypes
    <2>7. KeptHasWindow' /\ StoredBeforePublished'
        BY <1>0, <1>1, <2>2, <2>3 DEF KeptHasWindow, StoredBeforePublished, Last
    <2> QED
        BY <2>5, <2>6, <2>7
<1> QED
    BY <1>7, <1>8

LEMMA ReaderStep ==
    ASSUME MapsInv, LogTypes', NEW c \in Clients,
           \/ ReadMetrics(c) \/ Disconnect(c)
           \/ \E p \in Programs, op \in {"add", "remove"} : Request(c, op, p)
           \/ \E p \in Programs : Request(c, "metrics", p)
    PROVE  MapsInv'
<1> USE DEF MapsInv
<1>1. UNCHANGED <<monitored, windows, worker>>
    BY DEF ReadMetrics, Disconnect, Request, history
<1>2. CASE Disconnect(c) /\ Second(c)
    <2> DEFINE p == client[c].program
    <2>1. /\ client' = [client EXCEPT ![c] = Free] /\ Leave(c) /\ torn' = torn \cup {p}
        BY <1>2 DEF Disconnect, Second
    <2>2. /\ client'[c] = Free /\ \A d \in Clients : d # c => client'[d] = client[d]
          /\ client' \in [Clients -> {Free} \cup Busy]
        BY <2>1 DEF MapTypes
    <2>3. First(c)
        BY <1>2 DEF SecondIsFirst
    <2>4. \A d \in Clients : Second(d) => d = c
        BY <2>3, OnlyTheFirst
    <2>5. \A r \in Programs \ torn' : Agree(r)'
        BY <1>1, <2>1, <2>4 DEF AgreeUnlessHalfDone, Agree
    <2>6. SecondIsFirst' /\ HalfDone' /\ AgreeUnlessHalfDone'
        BY <2>2, <2>3, <2>5, WriterKeepsMaps
    <2>7. MapTypes'
        BY <1>1, <2>1, <2>2, LeaveKeepsFirst DEF MapTypes
    <2>8. KeptHasWindow' /\ StoredBeforePublished'
        BY <1>1, <2>1 DEF KeptHasWindow, StoredBeforePublished, Last
    <2> QED
        BY <2>6, <2>7, <2>8
<1>3. ASSUME UNCHANGED torn, ~Second(c), ~Second(c)', LockTypes',
             \A d \in Clients : d # c => client'[d] = client[d],
             \A d \in Clients : d # c /\ First(d) => First(d)',
             client' \in [Clients -> {Free} \cup Busy]
      PROVE  MapsInv'
    <2>1. SecondIsFirst' /\ HalfDone' /\ AgreeUnlessHalfDone'
        BY <1>1, <1>3, ReaderKeepsMaps
    <2>2. MapTypes'
        BY <1>1, <1>3 DEF MapTypes
    <2>3. KeptHasWindow' /\ StoredBeforePublished'
        BY <1>1, <1>3 DEF KeptHasWindow, StoredBeforePublished, Last
    <2> QED
        BY <2>1, <2>2, <2>3
<1>4. CASE ReadMetrics(c) \/ (Disconnect(c) /\ ~Second(c))
    <2>1. /\ client' = [client EXCEPT ![c] = Free] /\ Leave(c) /\ torn' = torn /\ ~Second(c)
        BY <1>4 DEF ReadMetrics, Disconnect, Second, history
    <2>2. /\ client'[c] = Free /\ \A d \in Clients : d # c => client'[d] = client[d]
          /\ client' \in [Clients -> {Free} \cup Busy]
        BY <2>1 DEF MapTypes
    <2>3. LockTypes' /\ \A d : d # c /\ First(d) => First(d)'
        BY <2>1, LeaveKeepsFirst DEF MapTypes
    <2>4. ~Second(c)'
        BY <2>2 DEF Second, Free
    <2> QED
        BY <1>3, <2>1, <2>2, <2>3, <2>4
<1>5. ASSUME NEW p \in Programs, NEW op \in {"add", "remove", "metrics"}, Request(c, op, p)
      PROVE  MapsInv'
    <2> DEFINE asked == [pc |-> "first", op |-> op, program |-> p]
    <2>1. /\ client' = [client EXCEPT ![c] = asked] /\ torn' = torn /\ client[c] = Free
          /\ Ask(FirstLock(op), c, op # "metrics")
        BY <1>5 DEF Request, history
    <2>2. asked \in Busy /\ asked.pc = "first"
        BY DEF Busy
    <2> HIDE DEF asked
    <2>3. /\ client'[c] = asked /\ \A d \in Clients : d # c => client'[d] = client[d]
          /\ client' \in [Clients -> {Free} \cup Busy]
        BY <2>1, <2>2 DEF MapTypes
    <2>4. LockTypes' /\ \A d : First(d) => First(d)'
        <3>1. /\ FirstLock(op) \in Locks /\ c \in Tasks /\ (op # "metrics") \in BOOLEAN
              /\ FirstLock(op) = "programs" => op # "metrics"
            BY DEF FirstLock, Locks, Tasks
        <3>2. FirstLock(op) = "programs" => [task |-> c, write |-> op # "metrics"] \in Asking
            BY <3>1 DEF Asking
        <3> QED
            BY <2>1, <3>1, <3>2, AskKeepsFirst DEF MapTypes
    <2>5. ~Second(c) /\ ~Second(c)'
        BY <2>1, <2>2, <2>3 DEF Second, Free
    <2> QED
        BY <1>3, <2>1, <2>3, <2>4, <2>5
<1> QED
    BY <1>2, <1>4, <1>5

LEMMA MapsStep == MapsInv /\ [Next]_vars => MapsInv'
<1> SUFFICES ASSUME MapsInv, [Next]_vars
             PROVE  MapsInv'
    OBVIOUS
<1>1. LogTypes'
    BY LogTypesStep DEF MapsInv
<1>2. CASE Receive \/ DeadLetter \/ Accept \/ Detect \/ Store \/ Publish
    BY <1>1, <1>2, WorkerStep
<1>3. ASSUME NEW c \in Clients, ClientStep(c)
      PROVE  MapsInv'
    BY <1>1, <1>3, ChangeStep, FinishStep, ReaderStep DEF ClientStep, Handler
<1>4. CASE UNCHANGED <<monitored, windows, lockq, client, worker, torn>>
    <2>1. MapTypes' /\ SecondIsFirst' /\ HalfDone' /\ AgreeUnlessHalfDone'
        BY <1>4 DEF MapsInv, MapTypes, LockTypes, SecondIsFirst, First, HalfDone, Second,
                    AgreeUnlessHalfDone, Agree
    <2>2. KeptHasWindow' /\ StoredBeforePublished'
        BY <1>4 DEF MapsInv, KeptHasWindow, StoredBeforePublished, Last
    <2> QED
        BY <1>1, <2>1, <2>2 DEF MapsInv
<1>5. ASSUME NEW p \in Programs, NEW alarming \in BOOLEAN, Ingest(p, alarming)
      PROVE  MapsInv'
    BY <1>4, <1>5 DEF Ingest
<1>6. CASE UNCHANGED vars
    BY <1>4, <1>6 DEF vars, history
<1> QED
    BY <1>2, <1>3, <1>5, <1>6, NextSplits

\* Between its two writes add_program or remove_program is the first in the queue of
\* the programs, and only on its program may the two maps disagree.
THEOREM MapsInvariant == Spec => []MapsInv
BY MapsInit, MapsStep, PTL DEF Spec

\* Whoever reads monitored_programs finds a window for each and no other, but for
\* the programs whose POST or DELETE was given up between its two writes.
THEOREM WindowsFollow == Spec => []WindowsFollowPrograms
<1>1. MapsInv => WindowsFollowPrograms
    <2> SUFFICES ASSUME MapsInv, ~HeldForWriting("programs")
                 PROVE  (DOMAIN windows) \ torn = monitored \ torn
        BY DEF WindowsFollowPrograms
    <2>1. LockTypes /\ monitored \subseteq Programs /\ DOMAIN windows \subseteq Programs
        BY DEF MapsInv, MapTypes
    <2>2. \A c \in Clients : ~Second(c)
        BY <2>1, ReadingKeepsClientsOut DEF MapsInv, SecondIsFirst
    <2>3. \A p \in Programs \ torn : Agree(p)
        BY <2>2 DEF MapsInv, AgreeUnlessHalfDone
    <2> QED
        BY <2>1, <2>3 DEF Agree
<1> QED
    BY <1>1, MapsInvariant, PTL

\* A transaction about to be broadcast is the newest of its program's window, unless
\* its program was removed while the worker had it, or was given up half way.
THEOREM StoredFirst == Spec => []StoredBeforePublished
<1>1. MapsInv => StoredBeforePublished
    BY DEF MapsInv
<1> QED
    BY <1>1, MapsInvariant, PTL
=============================================================================
