----------------------------- MODULE ClusterProofs -----------------------------
(***************************************************************************)
(* Proofs about FailedTxCluster for every set of signers, every threshold  *)
(* and window, and every order of timestamps; and about TxAnalysis, from   *)
(* the parser to the alerts, for any instructions.                         *)
(***************************************************************************)
EXTENDS FailedTxCluster, TxAnalysis, SequenceTheorems, FiniteSetTheorems,
        WellFoundedInduction, TLAPS

-----------------------------------------------------------------------------
(* The eviction *)

LEMMA MinOfNats ==
    ASSUME NEW I \in SUBSET Nat, I # {}
    PROVE  Min(I) \in I /\ \A y \in I : Min(I) <= y
<1> DEFINE R == OpToRel(<, Nat)
<1>1. \E x \in I : \A y \in I : ~(<<y, x>> \in R)
    BY NatLessThanWellFounded, WFMin
<1>2. \A x, y \in Nat : y < x => <<y, x>> \in R
    BY DEF OpToRel
<1> HIDE DEF R
<1>3. PICK x \in I : \A y \in I : ~(<<y, x>> \in R)
    BY <1>1
<1>4. ASSUME NEW y \in I
      PROVE  x <= y
    <2>1. x \in Nat /\ y \in Nat /\ ~(y < x)
        BY <1>2, <1>3
    <2> QED
        BY <2>1
<1>5. \E z \in I : \A y \in I : z <= y
    BY <1>4
<1> QED
    BY <1>5 DEF Min

\* q is what a queue of times keeps of the sequence s when it has dropped the
\* first d, all of them older than the cutoff.
Kept(q, s, d, cutoff) ==
    /\ d \in 0 .. Len(s)
    /\ Len(q) = Len(s) - d
    /\ \A i \in 1 .. Len(s) - d : q[i] = s[i + d]
    /\ \A i \in 1 .. d : s[i] < cutoff

\* evict_old drops a prefix of failures that are all older than the window,
\* and stops at the first that is not.
LEMMA EvictDropsAPrefix ==
    ASSUME NEW q \in Seq(Nat), NEW now \in Nat
    PROVE  /\ EvictOld(q, now) \in Seq(Nat)
           /\ \E d \in Nat : Kept(EvictOld(q, now), q, d, now - Window)
           /\ EvictOld(q, now) # << >> => EvictOld(q, now)[1] >= now - Window
<1> DEFINE fresh == {i \in 1 .. Len(q) : q[i] >= now - Window}
<1>0. fresh \in SUBSET Nat /\ Window \in Nat /\ Len(q) \in Nat
    BY ParametersAreNat
<1>1. EvictOld(q, now) = IF fresh = {} THEN << >> ELSE SubSeq(q, Min(fresh), Len(q))
    <2>1. SelectInSeq(q, LAMBDA t : t >= now - Window)
            = IF fresh # {} THEN Min(fresh) ELSE 0
        BY Zenon DEF SelectInSeq
    <2>2. fresh # {} => Min(fresh) \in fresh
        BY <1>0, MinOfNats, Zenon
    <2>3. Min(fresh) \in fresh => Min(fresh) # 0
        OBVIOUS
    <2> QED
        BY <2>1, <2>2, <2>3, Zenon DEF EvictOld
<1>2. \A i \in 1 .. Len(q) : q[i] \in Nat
    BY ElementOfSeq
<1>3. CASE fresh = {}
    <2>1. \A i \in 1 .. Len(q) : q[i] < now - Window
        BY <1>0, <1>2, <1>3
    <2>2. EvictOld(q, now) = << >>
        BY <1>1, <1>3
    <2>3. Kept(<< >>, q, Len(q), now - Window)
        BY <1>0, <2>1 DEF Kept
    <2> QED
        BY <1>0, <2>2, <2>3
<1>4. CASE fresh # {}
    <2> DEFINE m == Min(fresh)
    <2>1. m \in fresh /\ \A i \in fresh : m <= i
        BY <1>0, <1>4, MinOfNats, Zenon
    <2>2. EvictOld(q, now) = SubSeq(q, m, Len(q))
        BY <1>1, <1>4
    <2> HIDE DEF m
    <2>3. m \in 1 .. Len(q) /\ q[m] >= now - Window
        BY <2>1
    <2>4. \A i \in 1 .. m - 1 : q[i] < now - Window
        BY <1>0, <1>2, <2>1, <2>3
    <2> HIDE DEF fresh
    <2>5. /\ SubSeq(q, m, Len(q)) \in Seq(Nat)
          /\ Len(SubSeq(q, m, Len(q))) = Len(q) - m + 1
          /\ \A i \in 1 .. Len(q) - m + 1 : SubSeq(q, m, Len(q))[i] = q[m + i - 1]
        <3>1. m \in Int /\ Len(q) \in Int /\ m <= Len(q)
            BY <1>0, <2>3
        <3>2. \A i \in m .. Len(q) : q[i] \in Nat
            BY <1>2, <2>3
        <3> QED
            BY <3>1, <3>2, SubSeqProperties
    <2>6. Kept(EvictOld(q, now), q, m - 1, now - Window)
        BY <1>0, <2>2, <2>3, <2>4, <2>5 DEF Kept
    <2>7. EvictOld(q, now)[1] >= now - Window
        <3>1. 1 \in 1 .. Len(q) - m + 1 /\ m + 1 - 1 = m
            BY <1>0, <2>3
        <3> QED
            BY <2>2, <2>3, <2>5, <3>1
    <2>8. EvictOld(q, now) \in Seq(Nat)
        BY <2>2, <2>5, Zenon
    <2>9. m - 1 \in Nat
        BY <1>0, <2>3
    <2> QED
        BY <2>6, <2>7, <2>8, <2>9, Zenon
<1> QED
    BY <1>3, <1>4

\* Eviction after eviction: what was dropped before stays dropped.
LEMMA EvictKeeps ==
    ASSUME NEW q \in Seq(Nat), NEW s \in Seq(Nat), NEW d \in Nat, NEW cutoff \in Int,
           Kept(q, s, d, cutoff), NEW now \in Nat, NEW later \in Int,
           cutoff <= later, now - Window <= later
    PROVE  \E e \in Nat : d <= e /\ Kept(EvictOld(q, now), s, e, later)
<1>1. PICK c \in Nat : Kept(EvictOld(q, now), q, c, now - Window)
    BY EvictDropsAPrefix
<1>2. /\ Len(s) \in Nat /\ Len(q) \in Nat /\ Window \in Nat
      /\ \A i \in 1 .. Len(s) : s[i] \in Nat
    <2>1. Len(s) \in Nat /\ Len(q) \in Nat
        OBVIOUS
    <2>2. \A i \in 1 .. Len(s) : s[i] \in Nat
        BY ElementOfSeq, Zenon
    <2>3. Window \in Nat
        BY ParametersAreNat
    <2> QED
        BY <2>1, <2>2, <2>3
<1>3. /\ d \in 0 .. Len(s) /\ Len(q) = Len(s) - d /\ c \in 0 .. Len(q)
      /\ Len(EvictOld(q, now)) = Len(s) - (d + c)
    BY <1>1, <1>2 DEF Kept
<1>4. ASSUME NEW i \in 1 .. Len(s) - (d + c)
      PROVE  EvictOld(q, now)[i] = s[i + (d + c)]
    <2>1. i \in 1 .. Len(q) - c /\ i + c \in 1 .. Len(s) - d
        BY <1>2, <1>3
    <2>2. EvictOld(q, now)[i] = q[i + c] /\ q[i + c] = s[(i + c) + d]
        BY <1>1, <2>1 DEF Kept
    <2>3. (i + c) + d = i + (d + c)
        BY <1>3
    <2> QED
        BY <2>2, <2>3, Zenon
<1>5. ASSUME NEW i \in 1 .. d + c
      PROVE  s[i] < later
    <2>1. i \in 1 .. Len(s) /\ s[i] \in Nat
        BY <1>2, <1>3
    <2>2. CASE i \in 1 .. d
        BY <2>1, <2>2, <1>2 DEF Kept
    <2>3. CASE i \in d + 1 .. d + c
        <3>1. i - d \in 1 .. c /\ i - d \in 1 .. Len(s) - d
            BY <2>3, <1>3, <1>2
        <3>2. q[i - d] < now - Window /\ q[i - d] = s[(i - d) + d]
            BY <3>1, <1>1 DEF Kept
        <3>3. (i - d) + d = i
            OBVIOUS
        <3> QED
            BY <3>2, <3>3, <2>1, <1>2
    <2> QED
        BY <2>2, <2>3, <1>3
<1>6. d + c \in 0 .. Len(s) /\ d + c \in Nat /\ d <= d + c
    BY <1>2, <1>3
<1>7. Kept(EvictOld(q, now), s, d + c, later)
    BY <1>3, <1>4, <1>5, <1>6, Zenon DEF Kept
<1> QED
    BY <1>6, <1>7

-----------------------------------------------------------------------------
(* The invariant *)

Types ==
    /\ clock \in Nat
    /\ failures \in [Signers -> Seq(Nat)]
    /\ since \in [Signers -> Seq(Nat)]

\* A queue has lost only failures older than the window.
OnlyOldLost ==
    \A s \in Signers : \E d \in Nat : Kept(failures[s], since[s], d, clock - Window)

\* While no timestamp steps back, failures are in the order of their times.
TimesInOrder ==
    ordered => \A s \in Signers : \A i, j \in DOMAIN since[s] :
        since[s][i] <= clock /\ (i < j => since[s][i] <= since[s][j])

ClusterInv == Types /\ OnlyOldLost /\ TimesInOrder /\ AlertIffCluster

\* What an evaluation at now leaves of a signer's queue, over any order of times.
LEMMA EvictedStays ==
    ASSUME ClusterInv, NEW s \in Signers, NEW now \in Nat,
           clock' = IF now > clock THEN now ELSE clock
    PROVE  /\ clock' \in Nat
           /\ EvictOld(failures[s], now) \in Seq(Nat)
           /\ \E e \in Nat : Kept(EvictOld(failures[s], now), since[s], e, clock' - Window)
<1>1. /\ failures[s] \in Seq(Nat) /\ since[s] \in Seq(Nat)
      /\ clock \in Nat /\ Window \in Nat /\ clock' \in Nat
    BY ParametersAreNat DEF ClusterInv, Types
<1>2. PICK d \in Nat : Kept(failures[s], since[s], d, clock - Window)
    BY DEF ClusterInv, OnlyOldLost
<1>3. /\ clock - Window \in Int /\ clock' - Window \in Int
      /\ clock - Window <= clock' - Window /\ now - Window <= clock' - Window
    BY <1>1
<1> HIDE DEF ClusterInv
<1>4. \E e \in Nat : d <= e /\ Kept(EvictOld(failures[s], now), since[s], e, clock' - Window)
    BY <1>1, <1>2, <1>3, EvictKeeps
<1> QED
    BY <1>1, <1>4, EvictDropsAPrefix

\* A signer that the step leaves alone.
LEMMA OthersStay ==
    ASSUME ClusterInv, NEW s \in Signers, clock' \in Nat, clock <= clock',
           failures'[s] = failures[s], since'[s] = since[s]
    PROVE  \E d \in Nat : Kept(failures'[s], since'[s], d, clock' - Window)
<1>1. PICK d \in Nat : Kept(failures[s], since[s], d, clock - Window)
    BY DEF ClusterInv, OnlyOldLost
<1>2. /\ clock \in Nat /\ Window \in Nat
      /\ \A i \in 1 .. Len(since[s]) : since[s][i] \in Nat
    <2>1. since[s] \in Seq(Nat)
        BY DEF ClusterInv, Types
    <2> QED
        BY <2>1, ElementOfSeq, ParametersAreNat DEF ClusterInv, Types
<1>3. Len(since[s]) \in Nat
    BY DEF ClusterInv, Types
<1>4. ASSUME NEW i \in 1 .. d
      PROVE  since[s][i] < clock' - Window
    <2>1. since[s][i] < clock - Window /\ d \in 0 .. Len(since[s])
        BY <1>1 DEF Kept
    <2>2. since[s][i] \in Nat
        BY <1>2, <1>3, <2>1
    <2> QED
        BY <1>2, <2>1, <2>2
<1>5. Kept(failures'[s], since'[s], d, clock' - Window)
    BY <1>1, <1>4, Zenon DEF Kept
<1> QED
    BY <1>5

\* In order, the queue has exactly the failures in the window.
LEMMA QueueIsTheWindow ==
    ASSUME ClusterInv, NEW s \in Signers, NEW now \in Nat, ordered, now >= clock
    PROVE  RealFailures(s, now) = Len(EvictOld(failures[s], now))
<1> DEFINE left == EvictOld(failures[s], now)
           n == Len(since[s])
           recent == {i \in DOMAIN since[s] : since[s][i] >= now - Window}
<1>1. /\ failures[s] \in Seq(Nat) /\ since[s] \in Seq(Nat) /\ n \in Nat
      /\ DOMAIN since[s] = 1 .. n /\ clock \in Nat /\ Window \in Nat
      /\ \A i \in 1 .. n : since[s][i] \in Nat
    <2>1. since[s] \in Seq(Nat) /\ failures[s] \in Seq(Nat) /\ clock \in Nat
        BY DEF ClusterInv, Types
    <2> HIDE DEF ClusterInv
    <2>2. \A i \in 1 .. Len(since[s]) : since[s][i] \in Nat
        BY <2>1, ElementOfSeq, Zenon
    <2>3. Len(since[s]) \in Nat /\ DOMAIN since[s] = 1 .. Len(since[s])
        BY <2>1
    <2>4. Window \in Nat
        BY ParametersAreNat
    <2> QED
        BY <2>1, <2>2, <2>3, <2>4, Zenon
<1>2. PICK d \in Nat : Kept(failures[s], since[s], d, clock - Window)
    BY DEF ClusterInv, OnlyOldLost
<1>3. PICK e \in Nat : Kept(left, since[s], e, now - Window)
    <2>1. /\ clock - Window \in Int /\ now - Window \in Int
          /\ clock - Window <= now - Window /\ now - Window <= now - Window
        BY <1>1
    <2> HIDE DEF ClusterInv
    <2> QED
        BY <1>1, <1>2, <2>1, EvictKeeps
<1>4. left \in Seq(Nat) /\ (left # << >> => left[1] >= now - Window)
    BY <1>1, EvictDropsAPrefix
<1>5. e \in 0 .. n /\ Len(left) = n - e
    BY <1>3 DEF Kept
<1>6. recent = e + 1 .. n
    <2>1. ASSUME NEW i \in 1 .. e
          PROVE  since[s][i] < now - Window
        BY <1>3 DEF Kept
    <2>2. ASSUME NEW i \in e + 1 .. n
          PROVE  since[s][i] >= now - Window
        <3>1. left # << >> /\ 1 \in 1 .. n - e
            BY <1>1, <1>4, <1>5, <2>2
        <3>2. left[1] >= now - Window /\ left[1] = since[s][1 + e]
            BY <3>1, <1>3, <1>4 DEF Kept
        <3>3. since[s][1 + e] <= since[s][i]
            <4>1. CASE i = 1 + e
                BY <4>1, <1>1, <1>5
            <4>2. CASE 1 + e < i
                <5>1. 1 + e \in DOMAIN since[s] /\ i \in DOMAIN since[s]
                    BY <1>1, <1>5, <2>2
                <5>2. \A k, l \in DOMAIN since[s] : k < l => since[s][k] <= since[s][l]
                    BY Zenon DEF ClusterInv, TimesInOrder
                <5> QED
                    BY <4>2, <5>1, <5>2
            <4> QED
                BY <4>1, <4>2, <1>5, <2>2
        <3>4. since[s][1 + e] \in Nat /\ since[s][i] \in Nat
            BY <1>1, <1>5, <2>2
        <3>5. since[s][1 + e] >= now - Window /\ now - Window \in Int
            BY <3>2, <1>1
        <3> QED
            BY <3>3, <3>4, <3>5
    <2>3. ASSUME NEW i \in 1 .. n
          PROVE  i \in recent <=> i \in e + 1 .. n
        <3>1. CASE i \in 1 .. e
            <4>1. since[s][i] < now - Window /\ since[s][i] \in Nat
                BY <2>1, <3>1, <1>1
            <4>2. now - Window \in Int
                BY <1>1
            <4>3. ~(since[s][i] >= now - Window)
                BY <4>1, <4>2
            <4>4. i \notin e + 1 .. n
                BY <3>1, <1>1
            <4>5. i \notin recent
                BY <4>3, Zenon
            <4> QED
                BY <4>4, <4>5
        <3>2. CASE i \in e + 1 .. n
            BY <2>2, <3>2, <1>1
        <3> QED
            BY <3>1, <3>2, <1>5
    <2>4. recent \subseteq 1 .. n
        BY <1>1, Zenon
    <2>5. e + 1 .. n \subseteq 1 .. n
        BY <1>1, <1>5
    <2> QED
        BY <2>3, <2>4, <2>5, Zenon
<1>7. Cardinality(e + 1 .. n) = n - e
    <2>1. e + 1 \in Int /\ n \in Int /\ e + 1 <= n + 1
        BY <1>1, <1>5
    <2>2. Cardinality(e + 1 .. n) = IF e + 1 > n THEN 0 ELSE n - (e + 1) + 1
        BY <2>1, FS_Interval
    <2>3. n \in Nat /\ e \in 0 .. n
        BY <1>1, <1>5
    <2> HIDE DEF left, n, recent
    <2> QED
        BY <2>2, <2>3
<1> QED
    BY <1>5, <1>6, <1>7 DEF RealFailures

-----------------------------------------------------------------------------
(* The steps *)

LEMMA ClusterInit == Init => ClusterInv
<1> SUFFICES ASSUME Init
             PROVE  ClusterInv
    OBVIOUS
<1>1. Types
    BY DEF Init, Types
<1>2. OnlyOldLost
    <2> SUFFICES ASSUME NEW s \in Signers
                 PROVE  Kept(failures[s], since[s], 0, clock - Window)
        BY DEF OnlyOldLost
    <2> QED
        BY DEF Init, Kept
<1>3. TimesInOrder
    BY DEF Init, TimesInOrder
<1>4. AlertIffCluster
    BY DEF Init, AlertIffCluster
<1> QED
    BY <1>1, <1>2, <1>3, <1>4 DEF ClusterInv

\* A failure joins what the eviction left, and the record.
LEMMA FailureStep ==
    ASSUME ClusterInv, NEW s \in Signers, NEW now \in Nat, Failure(s, now)
    PROVE  ClusterInv'
<1> DEFINE left == EvictOld(failures[s], now)
<1>1. /\ clock' = IF now > clock THEN now ELSE clock
      /\ ordered' = (ordered /\ now >= clock)
      /\ outcome'.success = FALSE
      /\ failures' = [failures EXCEPT ![s] = Append(left, now)]
      /\ since' = [since EXCEPT ![s] = Append(@, now)]
    BY DEF Failure, Observe
<1>2. clock' \in Nat /\ left \in Seq(Nat)
    BY <1>1, EvictedStays
<1>3. PICK e \in Nat : Kept(left, since[s], e, clock' - Window)
    BY <1>1, EvictedStays
<1>4. /\ clock \in Nat /\ clock <= clock' /\ now <= clock'
      /\ failures \in [Signers -> Seq(Nat)] /\ since \in [Signers -> Seq(Nat)]
      /\ since[s] \in Seq(Nat)
    BY <1>1 DEF ClusterInv, Types
<1> HIDE DEF left
<1>5. /\ failures'[s] = Append(left, now) /\ since'[s] = Append(since[s], now)
      /\ \A o \in Signers : o # s => failures'[o] = failures[o] /\ since'[o] = since[o]
    BY <1>1, <1>4
<1>6. Types'
    BY <1>1, <1>2, <1>4 DEF Types
<1>7. Kept(failures'[s], since'[s], e, clock' - Window)
    <2>1. /\ e \in 0 .. Len(since[s]) /\ Len(left) = Len(since[s]) - e
          /\ \A i \in 1 .. Len(since[s]) - e : left[i] = since[s][i + e]
          /\ \A i \in 1 .. e : since[s][i] < clock' - Window
        BY <1>3, Zenon DEF Kept
    <2>2. /\ Len(Append(left, now)) = Len(left) + 1
          /\ \A i \in 1 .. Len(left) : Append(left, now)[i] = left[i]
          /\ Append(left, now)[Len(left) + 1] = now
        BY <1>2
    <2>3. /\ Len(Append(since[s], now)) = Len(since[s]) + 1
          /\ \A i \in 1 .. Len(since[s]) : Append(since[s], now)[i] = since[s][i]
          /\ Append(since[s], now)[Len(since[s]) + 1] = now
          /\ Len(since[s]) \in Nat
        BY <1>4
    <2>4. ASSUME NEW i \in 1 .. (Len(since[s]) + 1) - e
          PROVE  Append(left, now)[i] = Append(since[s], now)[i + e]
        <3>1. CASE i \in 1 .. Len(left)
            <4>1. i \in 1 .. Len(since[s]) - e /\ i + e \in 1 .. Len(since[s])
                BY <3>1, <2>1, <2>3
            <4> QED
                BY <4>1, <3>1, <2>1, <2>2, <2>3, Zenon
        <3>2. CASE i = Len(left) + 1
            <4>1. i + e = Len(since[s]) + 1
                BY <3>2, <2>1, <2>3
            <4> QED
                BY <4>1, <3>2, <2>2, <2>3, Zenon
        <3>3. i \in 1 .. Len(left) \/ i = Len(left) + 1
            BY <2>1, <2>3
        <3> QED
            BY <3>1, <3>2, <3>3, Zenon
    <2>5. e \in 0 .. Len(since[s]) + 1 /\ Len(left) + 1 = (Len(since[s]) + 1) - e
        BY <2>1, <2>3
    <2>6. ASSUME NEW i \in 1 .. e
          PROVE  Append(since[s], now)[i] < clock' - Window
        <3>1. i \in 1 .. Len(since[s])
            BY <2>1, <2>3
        <3> QED
            BY <3>1, <2>1, <2>3
    <2> QED
        BY <1>5, <2>2, <2>3, <2>4, <2>5, <2>6, Zenon DEF Kept
<1>8. OnlyOldLost'
    <2> SUFFICES ASSUME NEW o \in Signers
                 PROVE  \E d \in Nat : Kept(failures'[o], since'[o], d, clock' - Window)
        BY DEF OnlyOldLost
    <2> QED
        BY <1>2, <1>4, <1>5, <1>7, OthersStay
<1>9. TimesInOrder'
    <2> SUFFICES ASSUME ordered', NEW o \in Signers,
                        NEW i \in DOMAIN since'[o], NEW j \in DOMAIN since'[o]
                 PROVE  /\ since'[o][i] <= clock'
                        /\ i < j => since'[o][i] <= since'[o][j]
        BY DEF TimesInOrder
    <2>1. /\ ordered /\ now >= clock /\ clock' = now
          /\ \A k, l \in DOMAIN since[o] : since[o][k] <= clock
                                            /\ (k < l => since[o][k] <= since[o][l])
          /\ \A k \in DOMAIN since[o] : since[o][k] \in Nat
        <3>1. since[o] \in Seq(Nat) /\ DOMAIN since[o] = 1 .. Len(since[o])
            BY <1>4
        <3>2. \A k \in DOMAIN since[o] : since[o][k] \in Nat
            BY <3>1, ElementOfSeq
        <3>3. ordered /\ now >= clock
            BY <1>1, Zenon
        <3>0. clock' = now
            BY <1>1, <1>4, <3>3
        <3>4. \A k, l \in DOMAIN since[o] : since[o][k] <= clock
                                             /\ (k < l => since[o][k] <= since[o][l])
            <4>1. TimesInOrder /\ ordered
                BY <3>3 DEF ClusterInv
            <4> QED
                BY <4>1, Zenon DEF TimesInOrder
        <3> QED
            BY <3>0, <3>2, <3>3, <3>4, Zenon
    <2>2. CASE o # s
        <3>1. since'[o] = since[o]
            BY <1>5, <2>2
        <3>2. since[o][i] \in Nat /\ since[o][i] <= clock
            BY <2>1, <3>1, Zenon
        <3>3. i < j => since[o][i] <= since[o][j]
            BY <2>1, <3>1, Zenon
        <3>4. since[o][i] <= clock'
            <4>1. clock \in Nat /\ clock' \in Nat /\ clock <= clock'
                BY <1>2, <1>4, Zenon
            <4> QED
                BY <3>2, <4>1
        <3> QED
            BY <3>1, <3>3, <3>4
    <2>3. CASE o = s
        <3>1. /\ DOMAIN since'[o] = 1 .. Len(since[o]) + 1 /\ Len(since[o]) \in Nat
              /\ DOMAIN since[o] = 1 .. Len(since[o])
              /\ \A k \in 1 .. Len(since[o]) : since'[o][k] = since[o][k]
              /\ since'[o][Len(since[o]) + 1] = now
            BY <1>4, <1>5, <2>3
        <3>2. ASSUME NEW k \in 1 .. Len(since[o])
              PROVE  since'[o][k] = since[o][k] /\ since[o][k] \in Nat /\ since[o][k] <= now
            <4>1. since[o][k] \in Nat /\ since[o][k] <= clock
                BY <3>1, <2>1, Zenon
            <4> QED
                BY <4>1, <3>1, <2>1, <1>4
        <3>3. CASE i \in 1 .. Len(since[o]) /\ j \in 1 .. Len(since[o])
            <4>1. i < j => since[o][i] <= since[o][j]
                BY <3>1, <3>3, <2>1, Zenon
            <4>2. clock' = now
                BY <2>1
            <4> QED
                BY <3>2, <3>3, <4>1, <4>2
        <3>4. CASE i \in 1 .. Len(since[o]) /\ j = Len(since[o]) + 1
            <4>1. clock' = now /\ since'[o][j] = now
                BY <2>1, <3>1, <3>4
            <4> QED
                BY <3>2, <3>4, <4>1
        <3>5. CASE i = Len(since[o]) + 1
            <4>1. clock' = now /\ since'[o][i] = now /\ ~(i < j)
                BY <2>1, <3>1, <3>5
            <4> QED
                BY <4>1, <1>4
        <3> QED
            BY <3>1, <3>3, <3>4, <3>5
    <2> QED
        BY <2>2, <2>3
<1>10. AlertIffCluster'
    BY <1>1 DEF AlertIffCluster
<1> QED
    BY <1>6, <1>8, <1>9, <1>10 DEF ClusterInv

\* The record stays in order when nothing is added to it.
LEMMA OrderStays ==
    ASSUME ClusterInv, clock' \in Nat, clock <= clock', ordered' => ordered,
           since' = since
    PROVE  TimesInOrder'
<1> SUFFICES ASSUME ordered', NEW o \in Signers, NEW i \in DOMAIN since[o], NEW j \in DOMAIN since[o]
             PROVE  since[o][i] <= clock' /\ (i < j => since[o][i] <= since[o][j])
    BY DEF TimesInOrder
<1>1. since[o][i] <= clock /\ (i < j => since[o][i] <= since[o][j])
    BY DEF ClusterInv, TimesInOrder
<1>2. since[o] \in Seq(Nat) /\ clock \in Nat
    BY DEF ClusterInv, Types
<1>3. since[o][i] \in Nat
    BY <1>2, ElementOfSeq
<1> QED
    BY <1>1, <1>2, <1>3

\* A success leaves what the eviction left, and the alert is right.
LEMMA RoutineStep ==
    ASSUME ClusterInv, NEW s \in Signers, NEW now \in Nat, RoutineSuccess(s, now)
    PROVE  ClusterInv'
<1> DEFINE left == EvictOld(failures[s], now)
<1>1. /\ clock' = IF now > clock THEN now ELSE clock
      /\ ordered' = (ordered /\ now >= clock)
      /\ outcome'.fired = FALSE
      /\ s # NoSigner => outcome'.real = RealFailures(s, now)
      /\ failures' = [failures EXCEPT ![s] = left]
      /\ since' = since
      /\ Len(left) < FailureThreshold
    BY DEF RoutineSuccess, Observe
<1>2. clock' \in Nat /\ left \in Seq(Nat)
    BY <1>1, EvictedStays
<1>3. PICK e \in Nat : Kept(left, since[s], e, clock' - Window)
    BY <1>1, EvictedStays
<1>4. /\ clock \in Nat /\ clock <= clock' /\ s # NoSigner
      /\ failures \in [Signers -> Seq(Nat)] /\ since \in [Signers -> Seq(Nat)]
    BY <1>1, NoSignerIsNoSigner DEF ClusterInv, Types
<1>5. ordered' => RealFailures(s, now) = Len(left)
    BY <1>1, QueueIsTheWindow
<1>6. AlertIffCluster'
    <2>1. Len(left) \in Nat /\ FailureThreshold \in Nat
        BY <1>2, ParametersAreNat
    <2> HIDE DEF left
    <2> QED
        BY <1>1, <1>4, <1>5, <2>1 DEF AlertIffCluster
<1> HIDE DEF left
<1>7. Types'
    BY <1>1, <1>2, <1>4 DEF Types
<1>8. OnlyOldLost'
    <2> SUFFICES ASSUME NEW o \in Signers
                 PROVE  \E d \in Nat : Kept(failures'[o], since'[o], d, clock' - Window)
        BY DEF OnlyOldLost
    <2>1. CASE o = s
        BY <1>1, <1>3, <1>4, <2>1
    <2>2. CASE o # s
        <3>1. failures'[o] = failures[o] /\ since'[o] = since[o]
            BY <1>1, <1>4, <2>2
        <3> QED
            BY <3>1, <1>2, <1>4, OthersStay
    <2> QED
        BY <2>1, <2>2
<1>9. TimesInOrder'
    BY <1>1, <1>4, OrderStays
<1> QED
    BY <1>6, <1>7, <1>8, <1>9 DEF ClusterInv

\* The alert answers the failures in the window and forgets them all.
LEMMA ClusterStep ==
    ASSUME ClusterInv, NEW s \in Signers, NEW now \in Nat, Cluster(s, now)
    PROVE  ClusterInv'
<1> DEFINE left == EvictOld(failures[s], now)
<1>1. /\ clock' = IF now > clock THEN now ELSE clock
      /\ ordered' = (ordered /\ now >= clock)
      /\ outcome'.fired = TRUE
      /\ s # NoSigner => outcome'.real = RealFailures(s, now)
      /\ failures' = [failures EXCEPT ![s] = << >>]
      /\ since' = [since EXCEPT ![s] = << >>]
      /\ Len(left) >= FailureThreshold
    BY DEF Cluster, Observe
<1>2. clock' \in Nat /\ left \in Seq(Nat)
    BY <1>1, EvictedStays
<1>3. /\ clock \in Nat /\ clock <= clock' /\ s # NoSigner
      /\ failures \in [Signers -> Seq(Nat)] /\ since \in [Signers -> Seq(Nat)]
    BY <1>1, NoSignerIsNoSigner DEF ClusterInv, Types
<1>4. /\ failures'[s] = << >> /\ since'[s] = << >>
      /\ \A o \in Signers : o # s => failures'[o] = failures[o] /\ since'[o] = since[o]
    BY <1>1, <1>3
<1>5. AlertIffCluster'
    <2>1. Len(left) \in Nat /\ FailureThreshold \in Nat
        BY <1>2, ParametersAreNat
    <2>2. ordered' => RealFailures(s, now) = Len(left)
        BY <1>1, QueueIsTheWindow
    <2> HIDE DEF left
    <2> QED
        BY <1>1, <1>3, <2>1, <2>2 DEF AlertIffCluster
<1> HIDE DEF left
<1>6. Types'
    BY <1>1, <1>2, <1>3 DEF Types
<1>7. OnlyOldLost'
    <2> SUFFICES ASSUME NEW o \in Signers
                 PROVE  \E d \in Nat : Kept(failures'[o], since'[o], d, clock' - Window)
        BY DEF OnlyOldLost
    <2>1. CASE o = s
        <3>1. Kept(failures'[o], since'[o], 0, clock' - Window)
            BY <1>4, <2>1 DEF Kept
        <3> QED
            BY <3>1
    <2>2. CASE o # s
        BY <1>2, <1>3, <1>4, <2>2, OthersStay
    <2> QED
        BY <2>1, <2>2
<1>8. TimesInOrder'
    <2> SUFFICES ASSUME ordered', NEW o \in Signers,
                        NEW i \in DOMAIN since'[o], NEW j \in DOMAIN since'[o]
                 PROVE  /\ since'[o][i] <= clock'
                        /\ i < j => since'[o][i] <= since'[o][j]
        BY DEF TimesInOrder
    <2>1. o # s
        BY <1>4
    <2>2. since'[o] = since[o]
        BY <1>4, <2>1
    <2>3. since[o][i] <= clock /\ (i < j => since[o][i] <= since[o][j])
        BY <1>1, <2>2 DEF ClusterInv, TimesInOrder
    <2>4. since[o][i] \in Nat
        <3>1. since[o] \in Seq(Nat)
            BY <1>3
        <3> QED
            BY <3>1, <2>2, ElementOfSeq
    <2> QED
        BY <1>2, <1>3, <2>2, <2>3, <2>4
<1> QED
    BY <1>5, <1>6, <1>7, <1>8 DEF ClusterInv

\* A transaction that is not evaluated moves the clock alone.
LEMMA NoFeePayerStep ==
    ASSUME ClusterInv, NEW now \in Nat, NoFeePayer(now)
    PROVE  ClusterInv'
<1>1. /\ clock' = IF now > clock THEN now ELSE clock
      /\ ordered' = (ordered /\ now >= clock)
      /\ outcome'.success = FALSE
      /\ failures' = failures /\ since' = since
    BY DEF NoFeePayer, Observe
<1>2. clock' \in Nat /\ clock <= clock'
    BY <1>1 DEF ClusterInv, Types
<1>3. Types'
    BY <1>1, <1>2 DEF ClusterInv, Types
<1>4. OnlyOldLost'
    <2> SUFFICES ASSUME NEW o \in Signers
                 PROVE  \E d \in Nat : Kept(failures'[o], since'[o], d, clock' - Window)
        BY DEF OnlyOldLost
    <2> QED
        BY <1>1, <1>2, OthersStay
<1>5. TimesInOrder'
    BY <1>1, <1>2, OrderStays
<1>6. AlertIffCluster'
    BY <1>1 DEF AlertIffCluster
<1> QED
    BY <1>3, <1>4, <1>5, <1>6 DEF ClusterInv

LEMMA ClusterNext == ClusterInv /\ [Next]_vars => ClusterInv'
<1> SUFFICES ASSUME ClusterInv, [Next]_vars
             PROVE  ClusterInv'
    OBVIOUS
<1>1. CASE Next
    <2>1. PICK now \in Arrivals :
              \/ NoFeePayer(now)
              \/ \E s \in Signers :
                  \/ Failure(s, now)
                  \/ RoutineSuccess(s, now)
                  \/ Cluster(s, now)
        BY <1>1 DEF Next
    <2>2. now \in Nat
        BY ParametersAreNat DEF Arrivals
    <2> QED
        BY <2>1, <2>2, NoFeePayerStep, FailureStep, RoutineStep, ClusterStep
<1>2. CASE UNCHANGED vars
    BY <1>2 DEF vars, history, ClusterInv, Types, OnlyOldLost, Kept, TimesInOrder, AlertIffCluster
<1> QED
    BY <1>1, <1>2

-----------------------------------------------------------------------------
(* The results *)

\* The queue of failures of evaluate is the history of unanswered ones without its first
\* few, all older than the window; while timestamps are in order, so is that history.
THEOREM ClusterInvariant == Spec => []ClusterInv
<1> QED
    BY ClusterInit, ClusterNext, PTL DEF Spec

\* As long as timestamps never step back, a success of failed_tx_cluster.rs raises the
\* alert exactly if FailureThreshold unanswered failures of its signer are in the window.
THEOREM AlertsAreClusters == Spec => []AlertIffCluster
<1>1. ClusterInv => AlertIffCluster
    BY DEF ClusterInv
<1> QED
    BY <1>1, ClusterInvariant, PTL

\* Whatever the order of timestamps, evict_old and clear lose no unanswered failure of
\* the window.
THEOREM FailuresKept == Spec => []NoFailureLost
<1>1. ASSUME ClusterInv, NEW s \in Signers, NEW t \in ToSet(since[s]), t >= clock - Window
      PROVE  t \in ToSet(failures[s])
    <2>1. /\ since[s] \in Seq(Nat) /\ failures[s] \in Seq(Nat)
          /\ clock \in Nat /\ Window \in Nat /\ Len(since[s]) \in Nat
        BY <1>1, ParametersAreNat DEF ClusterInv, Types
    <2>2. PICK d \in Nat : Kept(failures[s], since[s], d, clock - Window)
        BY <1>1 DEF ClusterInv, OnlyOldLost
    <2>3. PICK i \in 1 .. Len(since[s]) : since[s][i] = t
        BY <2>1 DEF ToSet
    <2>4. t \in Nat
        BY <2>1, <2>3, ElementOfSeq
    <2>5. ~(i \in 1 .. d)
        <3>1. i \in 1 .. d => t < clock - Window
            BY <2>2, <2>3 DEF Kept
        <3> QED
            BY <3>1, <2>1, <2>4, <1>1
    <2>6. /\ i - d \in 1 .. Len(since[s]) - d /\ (i - d) + d = i
          /\ Len(failures[s]) = Len(since[s]) - d
        BY <2>1, <2>2, <2>5 DEF Kept
    <2>7. failures[s][i - d] = t
        BY <2>2, <2>3, <2>6 DEF Kept
    <2>8. i - d \in DOMAIN failures[s]
        BY <2>1, <2>6
    <2> QED
        BY <2>7, <2>8 DEF ToSet
<1>2. ClusterInv => NoFailureLost
    BY <1>1 DEF NoFailureLost
<1> QED
    BY <1>2, ClusterInvariant, PTL
-----------------------------------------------------------------------------
(* TxAnalysis: from the parser to the alerts *)

IsParsed(ix) ==
    /\ ix = [program |-> ix.program, kind |-> ix.kind, accounts |-> ix.accounts, name |-> ix.name]
    /\ ix.kind.kind \in DOMAIN Ranks

IsList(list) == Len(list) \in Nat /\ list = [i \in 1 .. Len(list) |-> list[i]]

AllParsed(list) == IsList(list) /\ \A i \in DOMAIN list : IsParsed(list[i])

\* Whatever the data, an instruction gets one of the kinds that have a rank.
LEMMA KindsAreRanked ==
    ASSUME NEW program, NEW d
    PROVE  Classify(program, d).kind \in DOMAIN Ranks
<1> DEFINE Ranked == {"SetAuthority", "Upgrade", "InitializePermanentDelegate",
                      "InitializeDefaultAccountState", "UpdateDefaultAccountState",
                      "InitializeTransferHook", "UpdateTransferHook", "SetTransferFee",
                      "StakeWithdraw", "StakeDelegate", "TokenTransferChecked",
                      "TokenTransfer", "SystemTransfer", "Other", "Unknown"}
<1>0. DOMAIN Ranks = Ranked
    BY DEF Ranks
<1>1. SplToken(d).kind \in Ranked
    BY DEF SplToken, Other
<1>2. Token2022(d).kind \in Ranked
    BY <1>1 DEF Token2022, Frozen, Kind
<1>3. System(d).kind \in Ranked /\ Stake(d).kind \in Ranked /\ Loader(d).kind \in Ranked
    BY DEF System, Stake, Loader, Kind, Other
<1>4. AssociatedToken(d).kind \in Ranked /\ ComputeBudget(d).kind \in Ranked
    BY DEF AssociatedToken, ComputeBudget, Other
<1>5. Raydium(d).kind \in Ranked /\ Jupiter(d).kind \in Ranked
    BY DEF Raydium, Jupiter, Other
<1>6. /\ Kind("Unknown").kind \in Ranked /\ Other(<<"memo">>).kind \in Ranked
      /\ Other(<<"ix", Tag(d)>>).kind \in Ranked
    BY DEF Kind, Other
<1> HIDE DEF Ranked
<1>7. Classify(program, d).kind \in Ranked
    BY <1>1, <1>2, <1>3, <1>4, <1>5, <1>6 DEF Classify
<1> QED
    BY <1>0, <1>7

\* The instructions the parser keeps, and what it makes of each.
LEMMA ParserParses ==
    ASSUME NEW r, NEW ixs \in Seq(Instruction)
    PROVE  AllParsed(ParseAll(r, ixs))
<1> DEFINE S == {i \in DOMAIN ixs : InKeys(r, ixs[i].program)}
           n == Cardinality(S)
           parsed == Picked(ixs, S)
<1>1. n \in Nat
    <2>1. IsFiniteSet(1 .. Len(ixs))
        <3>1. 1 \in Int /\ Len(ixs) \in Int
            OBVIOUS
        <3> QED
            BY <3>1, FS_Interval
    <2>2. S \subseteq 1 .. Len(ixs)
        OBVIOUS
    <2> HIDE DEF S
    <2> QED
        BY <2>1, <2>2, FS_Subset, FS_CardinalityType
<1> HIDE DEF S
<1>2. DOMAIN parsed = 1 .. n
    BY DEF Picked
<1>3. ParseAll(r, ixs) = [i \in 1 .. n |-> ParseInstruction(r, parsed[i])]
    BY <1>2, Zenon DEF ParseAll, S
<1> HIDE DEF n, parsed
<1>4. ASSUME NEW ix
      PROVE  IsParsed(ParseInstruction(r, ix))
    <2>1. /\ ParseInstruction(r, ix) =
                [program |-> ParseInstruction(r, ix).program, kind |-> ParseInstruction(r, ix).kind,
                 accounts |-> ParseInstruction(r, ix).accounts, name |-> ParseInstruction(r, ix).name]
          /\ ParseInstruction(r, ix).kind = Classify(ix.program, ix.data)
        BY DEF ParseInstruction
    <2> QED
        BY <2>1, KindsAreRanked DEF IsParsed
<1> DEFINE all == [i \in 1 .. n |-> ParseInstruction(r, parsed[i])]
<1>5. Len(all) = n /\ DOMAIN all = 1 .. n
    BY <1>1
<1>6. \A i \in 1 .. n : all[i] = ParseInstruction(r, parsed[i])
    OBVIOUS
<1>7. all = [i \in 1 .. n |-> all[i]]
    BY <1>6
<1> HIDE DEF all
<1>8. AllParsed(all)
    BY <1>1, <1>4, <1>5, <1>6, <1>7 DEF AllParsed, IsList
<1> QED
    BY <1>3, <1>8 DEF all

Joins(c, a, b) ==
    /\ Len(c) = Len(a) + Len(b)
    /\ \A i \in 1 .. Len(a) : c[i] = a[i]
    /\ \A i \in 1 .. Len(b) : c[Len(a) + i] = b[i]

LEMMA ListsJoin ==
    ASSUME NEW a, NEW b, AllParsed(a), AllParsed(b)
    PROVE  AllParsed(a \o b) /\ Joins(a \o b, a, b)
<1> DEFINE S == {a[i] : i \in DOMAIN a} \cup {b[i] : i \in DOMAIN b}
           ab == a \o b
<1>1. /\ Len(a) \in Nat /\ DOMAIN a = 1 .. Len(a) /\ a = [i \in 1 .. Len(a) |-> a[i]]
      /\ Len(b) \in Nat /\ DOMAIN b = 1 .. Len(b) /\ b = [i \in 1 .. Len(b) |-> b[i]]
    BY DEF AllParsed, IsList
<1>2. (\A i \in 1 .. Len(a) : a[i] \in S) /\ \A i \in 1 .. Len(b) : b[i] \in S
    BY <1>1
<1>3. \A s \in S : IsParsed(s)
    BY DEF AllParsed
<1> HIDE DEF S
<1>4. a \in Seq(S)
    <2>1. a \in [1 .. Len(a) -> S]
        BY <1>1, <1>2
    <2> QED
        BY <1>1, <2>1
<1>5. b \in Seq(S)
    <2>1. b \in [1 .. Len(b) -> S]
        BY <1>1, <1>2
    <2> QED
        BY <1>1, <2>1
<1>6. /\ ab \in Seq(S) /\ Len(ab) = Len(a) + Len(b)
      /\ \A i \in 1 .. Len(a) : ab[i] = a[i]
      /\ \A i \in 1 .. Len(b) : ab[Len(a) + i] = b[i]
    BY <1>1, <1>4, <1>5
<1> HIDE DEF ab
<1>7. AllParsed(ab)
    <2>1. /\ Len(ab) \in Nat /\ DOMAIN ab = 1 .. Len(ab) /\ ab = [i \in 1 .. Len(ab) |-> ab[i]]
          /\ \A i \in DOMAIN ab : ab[i] \in S
        BY <1>6
    <2> QED
        BY <1>3, <2>1 DEF AllParsed, IsList
<1> QED
    BY <1>6, <1>7 DEF ab, Joins

LEMMA TransactionsParse ==
    ASSUME NEW r, NEW M, r.top \in Seq(Instruction), r.inner \in Seq(Instruction)
    PROVE  LET t == ParseTransaction(r, M)
           IN  /\ t = [program |-> t.program, success |-> t.success, fee |-> t.fee,
                       accounts |-> t.accounts, topCount |-> t.topCount,
                       instructions |-> t.instructions, sol |-> t.sol, tokens |-> t.tokens]
               /\ t.instructions = ParseAll(r, r.top) \o ParseAll(r, r.inner)
               /\ AllParsed(t.instructions)
<1> DEFINE t == ParseTransaction(r, M)
<1>1. /\ t = [program |-> t.program, success |-> t.success, fee |-> t.fee,
              accounts |-> t.accounts, topCount |-> t.topCount,
              instructions |-> t.instructions, sol |-> t.sol, tokens |-> t.tokens]
      /\ t.instructions = ParseAll(r, r.top) \o ParseAll(r, r.inner)
    BY Zenon DEF ParseTransaction
<1> HIDE DEF t
<1>2. AllParsed(ParseAll(r, r.top)) /\ AllParsed(ParseAll(r, r.inner))
    BY ParserParses
<1>3. AllParsed(t.instructions)
    BY <1>1, <1>2, ListsJoin
<1> QED
    BY <1>1, <1>3 DEF t

AuthorityKinds == {"SetAuthority", "Upgrade"}
WithAuthority(list) == \E i \in DOMAIN list : list[i].kind.kind \in AuthorityKinds

LEMMA RanksAreNat ==
    /\ \A k \in DOMAIN Ranks : Ranks[k] \in Nat /\ Ranks[k] <= 100
    /\ \A k \in DOMAIN Ranks : Ranks[k] >= 99 <=> k \in AuthorityKinds
<1>1. DOMAIN Ranks = {"SetAuthority", "Upgrade", "InitializePermanentDelegate", "InitializeDefaultAccountState", "UpdateDefaultAccountState",
                      "InitializeTransferHook", "UpdateTransferHook", "SetTransferFee", "StakeWithdraw", "StakeDelegate",
                      "TokenTransferChecked", "TokenTransfer", "SystemTransfer", "Other", "Unknown"}
    BY DEF Ranks
<1>2. /\ Ranks["SetAuthority"] = 100
      /\ Ranks["Upgrade"] = 99
      /\ Ranks["InitializePermanentDelegate"] = 98
    BY DEF Ranks
<1>3. /\ Ranks["InitializeDefaultAccountState"] = 97
      /\ Ranks["UpdateDefaultAccountState"] = 96
    BY DEF Ranks
<1>4. /\ Ranks["InitializeTransferHook"] = 95
      /\ Ranks["UpdateTransferHook"] = 94
      /\ Ranks["SetTransferFee"] = 93
    BY DEF Ranks
<1>5. /\ Ranks["StakeWithdraw"] = 80
      /\ Ranks["StakeDelegate"] = 79
    BY DEF Ranks
<1>6. /\ Ranks["TokenTransferChecked"] = 50
      /\ Ranks["TokenTransfer"] = 49
      /\ Ranks["SystemTransfer"] = 48
    BY DEF Ranks
<1>7. /\ Ranks["Other"] = 10
      /\ Ranks["Unknown"] = 0
    BY DEF Ranks
<1> QED
    BY <1>1, <1>2, <1>3, <1>4, <1>5, <1>6, <1>7 DEF AuthorityKinds

\* The headline is an instruction of the highest priority.
LEMMA HeadlineIsHighest ==
    ASSUME NEW list, AllParsed(list), list # << >>
    PROVE  /\ Headline(list) \in DOMAIN list
           /\ \A j \in DOMAIN list :
                HeadlinePriority(list[j]) <= HeadlinePriority(list[Headline(list)])
<1> DEFINE rank == [i \in DOMAIN list |-> HeadlinePriority(list[i])]
           Best(i) == \A j \in DOMAIN list :
                        \/ HeadlinePriority(list[j]) < HeadlinePriority(list[i])
                        \/ HeadlinePriority(list[j]) = HeadlinePriority(list[i]) /\ j <= i
           n == Len(list)
<1>1. n \in Nat /\ DOMAIN list = 1 .. n /\ n # 0
    <2>1. Len(list) \in Nat /\ list = [i \in 1 .. Len(list) |-> list[i]]
        BY DEF AllParsed, IsList
    <2> QED
        BY <2>1
<1>2. ASSUME NEW i \in DOMAIN list
      PROVE  rank[i] \in Nat /\ rank[i] <= 100
    <2>1. list[i].kind.kind \in DOMAIN Ranks
        BY DEF AllParsed, IsParsed
    <2>2. Ranks[list[i].kind.kind] \in Nat /\ Ranks[list[i].kind.kind] <= 100
        BY <2>1, RanksAreNat
    <2>3. rank[i] = HeadlinePriority(list[i])
        OBVIOUS
    <2>4. HeadlinePriority(list[i]) \in {60, Ranks[list[i].kind.kind]}
        BY DEF HeadlinePriority
    <2> HIDE DEF rank
    <2> QED
        BY <2>2, <2>3, <2>4
<1>0. \A i \in DOMAIN list : rank[i] = HeadlinePriority(list[i])
    OBVIOUS
<1> HIDE DEF n, rank
<1>3. PICK top \in DOMAIN list : \A j \in DOMAIN list : rank[j] <= rank[top]
    <2> DEFINE P == {100 - rank[i] : i \in DOMAIN list}
    <2>1. P \in SUBSET Nat /\ P # {}
        BY <1>1, <1>2
    <2>2. Min(P) \in P /\ \A y \in P : Min(P) <= y
        <3> HIDE DEF P
        <3> QED
            BY <2>1, MinOfNats, Zenon
    <2>3. PICK i \in DOMAIN list : Min(P) = 100 - rank[i]
        BY <2>2
    <2>4. ASSUME NEW j \in DOMAIN list
          PROVE  rank[j] <= rank[i]
        <3>1. 100 - rank[j] \in P
            OBVIOUS
        <3>2. 100 - rank[i] <= 100 - rank[j]
            BY <2>2, <2>3, <3>1
        <3> QED
            BY <1>2, <3>2
    <2> QED
        BY <2>4
<1>4. PICK last \in DOMAIN list : Best(last)
    <2> DEFINE P == {n - i : i \in {i \in DOMAIN list : rank[i] = rank[top]}}
    <2>1. P \in SUBSET Nat /\ P # {}
        BY <1>1
    <2>2. Min(P) \in P /\ \A y \in P : Min(P) <= y
        <3> HIDE DEF P
        <3> QED
            BY <2>1, MinOfNats, Zenon
    <2>3. PICK i \in DOMAIN list : rank[i] = rank[top] /\ Min(P) = n - i
        BY <2>2
    <2>4. ASSUME NEW j \in DOMAIN list
          PROVE  rank[j] < rank[i] \/ (rank[j] = rank[i] /\ j <= i)
        <3>1. rank[j] = rank[top] => n - j \in P
            OBVIOUS
        <3>2. rank[j] = rank[top] => n - i <= n - j
            BY <2>2, <2>3, <3>1
        <3>3. rank[j] \in Nat /\ rank[i] \in Nat /\ i \in Nat /\ j \in Nat /\ rank[j] <= rank[top]
            BY <1>1, <1>2, <1>3
        <3> HIDE DEF P
        <3> QED
            BY <1>1, <2>3, <3>2, <3>3
    <2> QED
        BY <1>0, <2>4
<1>5. Headline(list) = CHOOSE i \in DOMAIN list : Best(i)
    BY Zenon DEF Headline
<1>6. Headline(list) \in DOMAIN list /\ Best(Headline(list))
    <2> HIDE DEF Best
    <2> QED
        BY <1>4, <1>5, Zenon
<1>7. ASSUME NEW j \in DOMAIN list
      PROVE  rank[j] <= rank[Headline(list)]
    BY <1>0, <1>2, <1>6
<1> QED
    BY <1>0, <1>6, <1>7

\* The first of the classifiers that matches decides: they are asked in their order.
LEMMA FirstMatchDecides ==
    ASSUME NEW t, NEW type, NEW f, f = Features(t, type), NEW answers, answers = Answers(t, f)
    PROVE  \E i \in 1 .. 14 :
              /\ Outcome(t, type).category = answers[i] /\ answers[i] # NoMatch
              /\ \A j \in 1 .. 14 : j < i => answers[j] = NoMatch
<1> DEFINE matching == {i \in DOMAIN answers : answers[i] # NoMatch}
           First(i) == \A j \in matching \ {i} : AskedBefore(i, j)
<1>1. DOMAIN answers = 1 .. 14 /\ answers[14] = "other"
    BY DEF Answers, Fallback
<1>2. \A i, j \in 1 .. 14 : AskedBefore(i, j) <=> i < j
    BY DEF AskedBefore, Priorities
<1>3. matching \in SUBSET Nat /\ 14 \in matching /\ matching \subseteq 1 .. 14
    BY <1>1 DEF NoMatch
<1>4. Outcome(t, type).category = answers[CHOOSE i \in matching : First(i)]
    BY Zenon DEF Outcome
<1>5. PICK first \in matching : First(first)
    <2> DEFINE m == Min(matching)
    <2>1. m \in matching /\ \A y \in matching : m <= y
        <3> HIDE DEF matching
        <3> QED
            BY <1>3, MinOfNats, Zenon
    <2> HIDE DEF m, matching
    <2>2. First(m)
        BY <1>2, <1>3, <2>1
    <2> QED
        BY <2>1, <2>2
<1> DEFINE decides == CHOOSE i \in matching : First(i)
<1>6. decides \in matching /\ First(decides)
    <2> HIDE DEF matching, First
    <2> QED
        BY <1>5, Zenon
<1>7. Outcome(t, type).category = answers[decides]
    BY <1>4
<1> HIDE DEF decides
<1>8. decides \in 1 .. 14 /\ answers[decides] # NoMatch
    BY <1>3, <1>6
<1>9. ASSUME NEW j \in 1 .. 14, j < decides
      PROVE  answers[j] = NoMatch
    <2>1. ~AskedBefore(decides, j) /\ j # decides
        BY <1>2, <1>8, <1>9
    <2> QED
        BY <1>1, <1>6, <2>1
<1> QED
    BY <1>7, <1>8, <1>9

\* What each of the classifiers can answer, and when it answers what is told of here.
CanAnswer(t, f, answers) ==
    /\ answers[1] = If(f.authority, "security_authority_change")
    /\ answers[2] = If(~t.success, "failed_transaction")
    /\ answers[3] \in {"solana_pay", NoMatch}
    /\ answers[4] \in {"bridge_in", "bridge_out", NoMatch}
    /\ answers[4] = "bridge_in" => In(f) > Out(f)
    /\ answers[4] = "bridge_out" => In(f) # Out(f) /\ ~(In(f) > Out(f))
    /\ answers[5] \in {"privacy_deposit", "privacy_withdraw", NoMatch}
    /\ answers[5] = "privacy_withdraw" => ~(Out(f) >= In(f))
    /\ answers[5] = "privacy_deposit" => Out(f) >= In(f)
    /\ answers[6] \in {"nft_mint", NoMatch}
    /\ answers[7] \in {"nft_purchase", "nft_sale", "nft_receive", "nft_send", NoMatch}
    /\ answers[6] # NoMatch \/ answers[7] # NoMatch => NftMoves(f)
    /\ answers[8] \in {"stake_deposit", NoMatch}
    /\ answers[9] \in {"stake_withdraw", NoMatch}
    /\ answers[10] \in {"defi_swap", NoMatch}
    /\ answers[11] \in {"airdrop", NoMatch}
    /\ answers[11] = "airdrop" => In(f) > SolIn(f)
    /\ answers[12] \in {"fee_only", NoMatch}
    /\ answers[12] = "fee_only" => f.legs = << >>
    /\ answers[13] \in {"token_transfer", "token_transfer_batch", NoMatch}
    /\ answers[14] = "other"

LEMMA WhatIsAnswered ==
    ASSUME NEW t, NEW f, NEW answers, answers = Answers(t, f)
    PROVE  CanAnswer(t, f, answers)
<1>1. /\ answers[1] = AuthorityChange(t, f) /\ answers[2] = FailedTx(t, f)
      /\ answers[3] = SolanaPay(t, f) /\ answers[4] = Bridge(t, f) /\ answers[5] = PrivacyCash(t, f)
      /\ answers[6] = NftMint(t, f) /\ answers[7] = NftTransfer(t, f)
      /\ answers[8] = StakeDeposit(t, f) /\ answers[9] = StakeWithdraw(t, f)
      /\ answers[10] = Swap(t, f) /\ answers[11] = Airdrop(t, f) /\ answers[12] = FeeOnly(t, f)
      /\ answers[13] = Transfer(t, f) /\ answers[14] = Fallback(t, f)
    BY DEF Answers
<1>2. answers[1] = If(f.authority, "security_authority_change") /\ answers[2] = If(~t.success, "failed_transaction")
    BY <1>1 DEF AuthorityChange, FailedTx
<1>3. /\ answers[3] \in {"solana_pay", NoMatch} /\ answers[6] \in {"nft_mint", NoMatch}
      /\ answers[8] \in {"stake_deposit", NoMatch} /\ answers[9] \in {"stake_withdraw", NoMatch}
      /\ answers[10] \in {"defi_swap", NoMatch} /\ answers[14] = "other"
    BY <1>1 DEF SolanaPay, NftMint, StakeDeposit, StakeWithdraw, Swap, Fallback, If
<1>4. answers[7] \in {"nft_purchase", "nft_sale", "nft_receive", "nft_send", NoMatch}
    BY <1>1 DEF NftTransfer, NftTrade, If
<1>10. answers[6] # NoMatch \/ answers[7] # NoMatch => NftMoves(f)
    BY <1>1, Zenon DEF NftMint, NftTransfer, NftMoves, If
<1>5. answers[13] \in {"token_transfer", "token_transfer_batch", NoMatch}
    BY <1>1 DEF Transfer, If
<1>6. /\ answers[4] \in {"bridge_in", "bridge_out", NoMatch}
      /\ answers[4] = "bridge_in" => In(f) > Out(f)
      /\ answers[4] = "bridge_out" => In(f) # Out(f) /\ ~(In(f) > Out(f))
    BY <1>1, Zenon DEF Bridge, If, NoMatch
<1>7. /\ answers[5] \in {"privacy_deposit", "privacy_withdraw", NoMatch}
      /\ answers[5] = "privacy_withdraw" => ~(Out(f) >= In(f))
      /\ answers[5] = "privacy_deposit" => Out(f) >= In(f)
    BY <1>1, Zenon DEF PrivacyCash, If, NoMatch
<1>8. /\ answers[11] \in {"airdrop", NoMatch}
      /\ answers[11] = "airdrop" => In(f) > SolIn(f)
    BY <1>1, Zenon DEF Airdrop, If, NoMatch
<1>9. answers[12] \in {"fee_only", NoMatch} /\ (answers[12] = "fee_only" => f.legs = << >>)
    BY <1>1, Zenon DEF FeeOnly, If, NoMatch
<1> QED
    BY <1>2, <1>3, <1>4, <1>5, <1>6, <1>7, <1>8, <1>9, <1>10, Zenon DEF CanAnswer

\* What a category says of the features it was found from.
Means(t, f, category) ==
    /\ category = "security_authority_change" <=> f.authority
    /\ ~t.success => category \in {"security_authority_change", "failed_transaction"}
    /\ t.success => category # "failed_transaction"
    /\ category = "bridge_in" => In(f) > Out(f)
    /\ category = "bridge_out" => In(f) # Out(f) /\ ~(In(f) > Out(f))
    /\ category = "privacy_withdraw" => ~(Out(f) >= In(f))
    /\ category = "privacy_deposit" => Out(f) >= In(f)
    /\ category = "airdrop" => In(f) > SolIn(f)
    /\ category \in OfTokens \ {"airdrop"} => NftMoves(f)
    /\ category = "fee_only" => f.legs = << >>

LEMMA CategoryMeans ==
    ASSUME NEW t, NEW type, NEW f, f = Features(t, type)
    PROVE  Means(t, f, Outcome(t, type).category)
<1> DEFINE answers == Answers(t, f)
           category == Outcome(t, type).category
<1>0. f.authority \in BOOLEAN
    BY DEF Features
<1>1. PICK i \in 1 .. 14 : /\ category = answers[i] /\ answers[i] # NoMatch
                           /\ \A j \in 1 .. 14 : j < i => answers[j] = NoMatch
    BY FirstMatchDecides
<1>2. CanAnswer(t, f, answers)
    BY WhatIsAnswered
<1> DEFINE more == In(f) > Out(f)
           same == In(f) = Out(f)
           less == Out(f) >= In(f)
           tokens == In(f) > SolIn(f)
           nfts == NftMoves(f)
           none == f.legs = << >>
<1> HIDE DEF answers, category, more, same, less, tokens, nfts, none
<1>3. i \in {1, 2} \/ i \in 3 .. 14
    OBVIOUS
<1>4. i \in 3 .. 14 => ~f.authority /\ t.success
    BY <1>0, <1>1, <1>2 DEF CanAnswer, If, NoMatch
<1>5. i = 2 => category = "failed_transaction" /\ ~f.authority /\ ~t.success
    BY <1>0, <1>1, <1>2 DEF CanAnswer, If, NoMatch
<1>6. i = 1 => category = "security_authority_change" /\ f.authority
    BY <1>0, <1>1, <1>2 DEF CanAnswer, If, NoMatch
<1>7. i \in 3 .. 14 =>
        /\ category \notin {"security_authority_change", "failed_transaction"}
        /\ category \in {"bridge_in", "bridge_out"} => i = 4
        /\ category \in {"privacy_deposit", "privacy_withdraw"} => i = 5
        /\ category = "airdrop" => i = 11
        /\ category \in OfTokens \ {"airdrop"} => i \in {6, 7}
        /\ category = "fee_only" => i = 12
    <2> SUFFICES ASSUME i \in {3, 4, 5, 6, 7, 8, 9, 10, 11, 12, 13, 14}
                 PROVE  /\ category \notin {"security_authority_change", "failed_transaction"}
                        /\ category \in {"bridge_in", "bridge_out"} => i = 4
                        /\ category \in {"privacy_deposit", "privacy_withdraw"} => i = 5
                        /\ category = "airdrop" => i = 11
                        /\ category \in OfTokens \ {"airdrop"} => i \in {6, 7}
                        /\ category = "fee_only" => i = 12
        OBVIOUS
    <2>1. CASE i \in {3, 4, 5, 6, 7, 8}
        BY <1>1, <1>2, <2>1 DEF CanAnswer, NoMatch, OfTokens
    <2>2. CASE i \in {9, 10, 11, 12, 13, 14}
        BY <1>1, <1>2, <2>2 DEF CanAnswer, NoMatch, OfTokens
    <2> QED
        BY <2>1, <2>2
<1>8. /\ category = "bridge_in" => more
      /\ category = "bridge_out" => ~same /\ ~more
      /\ category = "privacy_withdraw" => ~less
      /\ category = "privacy_deposit" => less
      /\ category = "airdrop" => tokens
      /\ category \in OfTokens \ {"airdrop"} => nfts
      /\ category = "fee_only" => none
    <2>1. /\ answers[4] = "bridge_in" => more
          /\ answers[4] = "bridge_out" => ~same /\ ~more
          /\ answers[5] = "privacy_withdraw" => ~less
          /\ answers[5] = "privacy_deposit" => less
          /\ answers[11] = "airdrop" => tokens
          /\ answers[6] # NoMatch \/ answers[7] # NoMatch => nfts
          /\ answers[12] = "fee_only" => none
        BY <1>2, Zenon DEF CanAnswer, more, same, less, tokens, nfts, none
    <2> QED
        BY <1>1, <1>3, <1>5, <1>6, <1>7, <2>1 DEF OfTokens
<1>9. /\ category = "security_authority_change" <=> f.authority
      /\ ~t.success => category \in {"security_authority_change", "failed_transaction"}
      /\ t.success => category # "failed_transaction"
    BY <1>3, <1>4, <1>5, <1>6, <1>7
<1> QED
    BY <1>8, <1>9, Zenon DEF Means, category, more, same, less, tokens, nfts, none

LEMMA HeadlineHasAuthority ==
    ASSUME NEW list, AllParsed(list), WithAuthority(list)
    PROVE  list[Headline(list)].kind.kind \in AuthorityKinds
<1>1. PICK i \in DOMAIN list : list[i].kind.kind \in AuthorityKinds
    BY DEF WithAuthority
<1>2. ASSUME NEW j \in DOMAIN list
      PROVE  /\ list[j].kind.kind \in DOMAIN Ranks
             /\ Ranks[list[j].kind.kind] \in Nat
             /\ HeadlinePriority(list[j]) >= 99 <=> list[j].kind.kind \in AuthorityKinds
             /\ HeadlinePriority(list[j]) \in Nat
    <2>1. list[j].kind.kind \in DOMAIN Ranks
        BY DEF AllParsed, IsParsed
    <2>2. /\ Ranks[list[j].kind.kind] \in Nat
          /\ Ranks[list[j].kind.kind] >= 99 <=> list[j].kind.kind \in AuthorityKinds
        BY <2>1, RanksAreNat
    <2> QED
        BY <2>1, <2>2 DEF HeadlinePriority
<1>3. list # << >>
    BY <1>1
<1>4. /\ Headline(list) \in DOMAIN list
      /\ HeadlinePriority(list[i]) <= HeadlinePriority(list[Headline(list)])
    BY <1>1, <1>3, HeadlineIsHighest
<1> QED
    BY <1>1, <1>2, <1>4

\* The kinds that the worker turns into names for the classifiers are no authority changes.
LEMMA ConversionKeepsAuthority ==
    ASSUME NEW t, NEW type, NEW list, AllParsed(list), "instructions" \in DOMAIN t
    PROVE  Features([t EXCEPT !.instructions = ToClassification(list)], type).authority
              <=> WithAuthority(list)
<1> DEFINE t2 == [t EXCEPT !.instructions = ToClassification(list)]
           conv == ToClassification(list)
<1>1. t2.instructions = conv
    OBVIOUS
<1> HIDE DEF t2
<1>2. DOMAIN conv = DOMAIN list
    BY DEF ToClassification
<1>3. ASSUME NEW i \in DOMAIN list
      PROVE  conv[i].kind.kind \in AuthorityKinds <=> list[i].kind.kind \in AuthorityKinds
    <2> DEFINE opaque == {"InitializeTransferHook", "UpdateTransferHook", "SetTransferFee",
                   "InitializePermanentDelegate", "InitializeDefaultAccountState",
                   "UpdateDefaultAccountState"}
    <2>1. conv[i] = IF list[i].kind.kind \in opaque
                    THEN [list[i] EXCEPT !.kind = Other(<<@.kind>>)] ELSE list[i]
        BY Zenon DEF ToClassification
    <2>2. IsParsed(list[i])
        BY DEF AllParsed
    <2>3. [list[i] EXCEPT !.kind = Other(<<@.kind>>)].kind.kind = "Other"
        BY <2>2 DEF IsParsed, Other
    <2> HIDE DEF conv
    <2> QED
        BY <2>1, <2>3 DEF AuthorityKinds
<1>4. Features(t2, type).authority <=> Kinds(t2) \cap AuthorityKinds # {}
    BY DEF Features, AuthorityKinds
<1>5. Kinds(t2) = {conv[i].kind.kind : i \in DOMAIN conv}
    BY <1>1, Zenon DEF Kinds
<1> HIDE DEF conv
<1> QED
    BY <1>2, <1>3, <1>4, <1>5 DEF WithAuthority, t2, conv

\* What the authority detections raise, by the kinds of the instructions.
LEMMA AuthorityAlerts ==
    ASSUME NEW t, IsList(t.instructions)
    PROVE  LET raised == {a.rule : a \in Detect(t)}
           IN  /\ "authority_change" \in raised <=> WithAuthority(t.instructions)
               /\ "transfer_fee_authority_change" \in raised => WithAuthority(t.instructions)
               /\ "permanent_delegate" \in raised =>
                     WithAuthority(t.instructions) \/ "InitializePermanentDelegate" \in Kinds(t)
<1> DEFINE list == t.instructions
           raised == {a.rule : a \in Detect(t)}
           at == SelectInSeq(list, LAMBDA ix : ix.kind.kind \in AuthorityKinds)
           found == {i \in 1 .. Len(list) : list[i].kind.kind \in AuthorityKinds}
<1>1. at = IF found # {} THEN Min(found) ELSE 0
    BY Zenon DEF SelectInSeq
<1>2. Len(list) \in Nat /\ DOMAIN list = 1 .. Len(list)
    BY DEF IsList
<1>3. at # 0 <=> WithAuthority(list)
    <2>1. found \in SUBSET Nat
        BY <1>2
    <2>2. found # {} => Min(found) \in found
        <3> HIDE DEF found
        <3> QED
            BY <2>1, MinOfNats, Zenon
    <2>3. found # {} <=> WithAuthority(list)
        BY <1>2 DEF WithAuthority
    <2>4. \A i \in found : i # 0
        OBVIOUS
    <2> HIDE DEF found, at
    <2> QED
        BY <1>1, <2>2, <2>3, <2>4
<1>4. AuthorityChanged(t) =
        IF at = 0 THEN {} ELSE {Alert("authority_change", <<list[at].kind.kind>>)}
    BY Zenon DEF AuthorityChanged, AuthorityKinds
<1>5. /\ \A a \in AuthorityChanged(t) : a.rule = "authority_change"
      /\ AuthorityChanged(t) # {} <=> WithAuthority(list)
    <2> HIDE DEF at
    <2>1. at = 0 => AuthorityChanged(t) = {}
        BY <1>4
    <2>2. at # 0 => AuthorityChanged(t) = {Alert("authority_change", <<list[at].kind.kind>>)}
        BY <1>4
    <2>3. Alert("authority_change", <<list[at].kind.kind>>).rule = "authority_change"
        BY DEF Alert
    <2> QED
        BY <1>3, <2>1, <2>2, <2>3
<1>6. /\ \A a \in TransferHookUpgrade(t) : a.rule = "transfer_hook_upgrade"
      /\ \A a \in DefaultStateFrozen(t) : a.rule = "default_account_state_frozen"
    BY DEF TransferHookUpgrade, DefaultStateFrozen, Fire, Alert
<1>7. \A a \in LargeTransfer(t, Watched, Threshold) : a.rule = "large_transfer"
    BY DEF LargeTransfer, Alert
<1>8. /\ \A a \in TransferFeeAuthority(t) : a.rule = "transfer_fee_authority_change"
      /\ TransferFeeAuthority(t) # {} => Sets(t, 4)
    BY DEF TransferFeeAuthority, TRANSFER_FEE_CONFIG, Fire, Alert
<1>9. /\ \A a \in PermanentDelegate(t) : a.rule = "permanent_delegate"
      /\ PermanentDelegate(t) # {} =>
            HasKind(t, {"InitializePermanentDelegate"}) \/ Sets(t, 8)
    BY DEF PermanentDelegate, PERMANENT_DELEGATE, Fire, Alert
<1>10. \A type : Sets(t, type) => WithAuthority(list)
    BY DEF Sets, KindsIn, WithAuthority, AuthorityKinds
<1>11. HasKind(t, {"InitializePermanentDelegate"}) => "InitializePermanentDelegate" \in Kinds(t)
    BY DEF HasKind, KindsIn, Kinds
<1>12. ASSUME NEW rule
       PROVE  rule \in raised <=>
                \/ \E a \in AuthorityChanged(t) : a.rule = rule
                \/ \E a \in TransferHookUpgrade(t) : a.rule = rule
                \/ \E a \in PermanentDelegate(t) : a.rule = rule
                \/ \E a \in TransferFeeAuthority(t) : a.rule = rule
                \/ \E a \in DefaultStateFrozen(t) : a.rule = rule
                \/ \E a \in LargeTransfer(t, Watched, Threshold) : a.rule = rule
    BY Zenon DEF Detect
<1> HIDE DEF raised, list
<1>13. "authority_change" \in raised <=> WithAuthority(list)
    BY <1>5, <1>6, <1>7, <1>8, <1>9, <1>12
<1>14. "transfer_fee_authority_change" \in raised => WithAuthority(list)
    BY <1>5, <1>6, <1>7, <1>8, <1>9, <1>10, <1>12
<1>15. "permanent_delegate" \in raised =>
            WithAuthority(list) \/ "InitializePermanentDelegate" \in Kinds(t)
    BY <1>5, <1>6, <1>7, <1>8, <1>9, <1>10, <1>11, <1>12
<1> QED
    BY <1>13, <1>14, <1>15 DEF raised, list

\* What the worker is given is what the parser makes of the chain's transaction.
RawType ==
    /\ raw.top \in Seq(Instruction) /\ raw.inner \in Seq(Instruction)
    /\ stage = "building" => raw = [keys |-> Keys, top |-> raw.top, inner |-> raw.inner]

ParsedType == stage = "parsed" => tx = ParseTransaction(raw, Monitored)

AnalysisInv == RawType /\ ParsedType /\ AuthorityIsAgreedOn

LEMMA AnalysisStart == AnalysisInit => AnalysisInv
    BY DEF AnalysisInit, AnalysisInv, RawType, ParsedType, AuthorityIsAgreedOn, Processed

LEMMA ListKeeps ==
    ASSUME RawType, NEW where \in {"top", "inner"}, List(where)
    PROVE  RawType' /\ stage' = "building"
<1>1. /\ Shapes \in Seq(SUBSET Instruction) /\ stage = "building"
      /\ raw = [keys |-> Keys, top |-> raw.top, inner |-> raw.inner]
      /\ raw.top \in Seq(Instruction) /\ raw.inner \in Seq(Instruction)
    BY ShapesAreInstructions DEF RawType, List
<1>2. Count + 1 \in 1 .. Len(Shapes)
    <2> DEFINE t == Len(raw.top)
               l == Len(raw.inner)
    <2>1. t \in Nat /\ l \in Nat
        BY <1>1
    <2>2. Count < Len(Shapes) /\ Len(Shapes) \in Nat
        BY <1>1 DEF List
    <2>3. Count \in Nat
        <3>1. Count = t + l
            BY DEF Count
        <3> HIDE DEF t, l
        <3> QED
            BY <2>1, <3>1
    <2> DEFINE n == Count
    <2> HIDE DEF n
    <2>4. n + 1 \in 1 .. Len(Shapes)
        BY <2>2, <2>3 DEF n
    <2> QED
        BY <2>4 DEF n
<1>3. Shapes[Count + 1] \subseteq Instruction
    <2> DEFINE n == Count + 1
    <2> HIDE DEF n
    <2> QED
        BY <1>1, <1>2 DEF n
<1>4. PICK ix \in Shapes[Count + 1] : raw' = [raw EXCEPT ![where] = Append(@, ix)]
    BY DEF List
<1>5. ix \in Instruction /\ stage' = "building"
    BY <1>1, <1>3, <1>4 DEF List
<1>6. CASE where = "top"
    <2> DEFINE t == raw.top
               n == raw.inner
    <2>1. raw = [keys |-> Keys, top |-> t, inner |-> n] /\ t \in Seq(Instruction) /\ n \in Seq(Instruction)
        BY <1>1
    <2> HIDE DEF t, n
    <2>2. raw' = [raw EXCEPT !["top"] = Append(@, ix)]
        BY <1>4, <1>6
    <2>3. raw' = [keys |-> Keys, top |-> Append(t, ix), inner |-> n]
        BY <2>1, <2>2
    <2>4. Append(t, ix) \in Seq(Instruction)
        BY <1>5, <2>1
    <2> QED
        BY <1>5, <2>1, <2>3, <2>4 DEF RawType
<1>7. CASE where = "inner"
    <2> DEFINE t == raw.top
               n == raw.inner
    <2>1. raw = [keys |-> Keys, top |-> t, inner |-> n] /\ t \in Seq(Instruction) /\ n \in Seq(Instruction)
        BY <1>1
    <2> HIDE DEF t, n
    <2>2. raw' = [raw EXCEPT !["inner"] = Append(@, ix)]
        BY <1>4, <1>7
    <2>3. raw' = [keys |-> Keys, top |-> t, inner |-> Append(n, ix)]
        BY <2>1, <2>2
    <2>4. Append(n, ix) \in Seq(Instruction)
        BY <1>5, <2>1
    <2> QED
        BY <1>5, <2>1, <2>3, <2>4 DEF RawType
<1> QED
    BY <1>6, <1>7

LEMMA NamingKeepsParsed ==
    ASSUME NEW logged, "instructions" \in DOMAIN tx, AllParsed(tx.instructions), tx' = Named(logged)
    PROVE  /\ "instructions" \in DOMAIN tx'
           /\ AllParsed(tx'.instructions)
           /\ Len(tx'.instructions) = Len(tx.instructions)
           /\ \A i \in 1 .. Len(tx.instructions) :
                /\ tx'.instructions[i].kind = tx.instructions[i].kind
                /\ tx'.instructions[i].accounts = tx.instructions[i].accounts
<1> DEFINE list == tx.instructions
           n == Len(list)
           named == [i \in DOMAIN list |-> [list[i] EXCEPT !.name = NameOf(list[i], logged)]]
<1>1. tx'.instructions = named /\ "instructions" \in DOMAIN tx'
    BY DEF Named
<1>2. n \in Nat /\ DOMAIN list = 1 .. n
    <2>1. Len(list) \in Nat /\ list = [i \in 1 .. Len(list) |-> list[i]]
        BY DEF AllParsed, IsList
    <2> QED
        BY <2>1
<1>3. ASSUME NEW i \in 1 .. n
      PROVE  /\ IsParsed(named[i])
             /\ named[i].kind = list[i].kind /\ named[i].accounts = list[i].accounts
    <2>1. IsParsed(list[i])
        BY <1>2 DEF AllParsed
    <2>2. named[i] = [list[i] EXCEPT !.name = NameOf(list[i], logged)]
        BY <1>2
    <2> HIDE DEF named, list
    <2>3. named[i] = [program |-> list[i].program, kind |-> list[i].kind,
                      accounts |-> list[i].accounts, name |-> NameOf(list[i], logged)]
        BY <2>1, <2>2 DEF IsParsed
    <2> QED
        BY <2>1, <2>3 DEF IsParsed
<1>4. DOMAIN named = 1 .. n /\ named = [i \in 1 .. n |-> named[i]]
    BY <1>2
<1> HIDE DEF named, n, list
<1>5. Len(named) = n
    BY <1>2, <1>4
<1>6. AllParsed(named)
    BY <1>2, <1>3, <1>4, <1>5 DEF AllParsed, IsList
<1> QED
    BY <1>1, <1>3, <1>5, <1>6 DEF n, list

LEMMA AuthorityStep ==
    ASSUME AnalysisInv, NEW logged \in BOOLEAN, Process(logged)
    PROVE  AuthorityIsAgreedOn'
<1>1. /\ AllParsed(tx.instructions) /\ "instructions" \in DOMAIN tx
      /\ tx' = Named(logged) /\ stage' = "processed"
    <2>1. tx = ParseTransaction(raw, Monitored)
        BY DEF AnalysisInv, ParsedType, Process
    <2>2. raw.top \in Seq(Instruction) /\ raw.inner \in Seq(Instruction)
        BY DEF AnalysisInv, RawType
    <2> QED
        BY <2>1, <2>2, TransactionsParse DEF Process
<1> DEFINE list == tx'.instructions
           type == InstructionType(list)
           answer == Outcome([tx' EXCEPT !.instructions = ToClassification(list)], type)
<1>2. AllParsed(list) /\ "instructions" \in DOMAIN tx'
    BY <1>1, NamingKeepsParsed
<1>3. /\ result'.headline = Headline(list) /\ result'.alerts = Detect(tx')
      /\ result'.category = answer.category
    BY DEF Process
<1>4. answer.category = "security_authority_change" <=> WithAuthority(list)
    <2> DEFINE t2 == [tx' EXCEPT !.instructions = ToClassification(list)]
    <2>1. Features(t2, type).authority <=> WithAuthority(list)
        BY <1>2, ConversionKeepsAuthority
    <2> HIDE DEF t2
    <2>2. Means(t2, Features(t2, type), Outcome(t2, type).category)
        BY CategoryMeans
    <2> QED
        BY <2>1, <2>2 DEF Means, t2
<1>5. WithAuthority(list) => list[Headline(list)].kind.kind \in AuthorityKinds
    BY <1>2, HeadlineHasAuthority
<1> HIDE DEF answer
<1>6. Rules' = {a.rule : a \in Detect(tx')}
    BY <1>3 DEF Rules
<1>7. /\ "authority_change" \in Rules' <=> WithAuthority(list)
      /\ "transfer_fee_authority_change" \in Rules' => WithAuthority(list)
      /\ "permanent_delegate" \in Rules' =>
            WithAuthority(list) \/ "InitializePermanentDelegate" \in Kinds(tx')
    <2> DEFINE t == tx'
    <2>1. IsList(t.instructions)
        BY <1>2 DEF AllParsed
    <2> HIDE DEF t
    <2>2. LET raised == {a.rule : a \in Detect(t)}
          IN  /\ "authority_change" \in raised <=> WithAuthority(t.instructions)
              /\ "transfer_fee_authority_change" \in raised => WithAuthority(t.instructions)
              /\ "permanent_delegate" \in raised =>
                    WithAuthority(t.instructions) \/ "InitializePermanentDelegate" \in Kinds(t)
        BY <2>1, AuthorityAlerts
    <2> QED
        BY <1>6, <2>2, Zenon DEF t
<1>8. list[Headline(list)] = tx'.instructions[result'.headline]
    BY <1>3
<1> HIDE DEF list
<1> QED
    BY <1>3, <1>4, <1>5, <1>7, <1>8 DEF AuthorityIsAgreedOn, AuthorityKinds

LEMMA AnalysisStep == AnalysisInv /\ [AnalysisNext]_analysisVars => AnalysisInv'
<1> SUFFICES ASSUME AnalysisInv, [AnalysisNext]_analysisVars
             PROVE  AnalysisInv'
    OBVIOUS
<1>1. CASE ListTop \/ ListInner
    <2>1. RawType' /\ stage' = "building"
        BY <1>1, ListKeeps DEF AnalysisInv, ListTop, ListInner
    <2> QED
        BY <2>1 DEF AnalysisInv, ParsedType, AuthorityIsAgreedOn, Processed
<1>2. ASSUME NEW failed \in BOOLEAN, Parse(failed)
      PROVE  AnalysisInv'
    <2>1. /\ raw'.top = raw.top /\ raw'.inner = raw.inner /\ stage' = "parsed"
          /\ tx' = ParseTransaction(raw', Monitored)
        BY <1>2 DEF Parse, Executed
    <2> QED
        BY <2>1 DEF AnalysisInv, RawType, ParsedType, AuthorityIsAgreedOn, Processed
<1>3. ASSUME NEW logged \in BOOLEAN, Process(logged)
      PROVE  AnalysisInv'
    <2>1. stage' = "processed" /\ raw' = raw
        BY <1>3 DEF Process
    <2> QED
        BY <1>3, <2>1, AuthorityStep DEF AnalysisInv, RawType, ParsedType
<1>4. CASE UNCHANGED analysisVars
    BY <1>4 DEF analysisVars, AnalysisInv, RawType, ParsedType, AuthorityIsAgreedOn, Processed,
                Rules, Kinds
<1> QED
    BY <1>1, <1>2, <1>3, <1>4 DEF AnalysisNext

\* Whatever the data of the instructions, the category, the alerts and the headline of a
\* transaction agree on whether it changes an authority, though each reads the kinds in
\* its own way (AuthorityChangeClassifier, the detections, headline_priority).
THEOREM AuthorityAgreed == AnalysisSpec => []AuthorityIsAgreedOn
<1>1. AnalysisInv => AuthorityIsAgreedOn
    BY DEF AnalysisInv
<1> QED
    BY <1>1, AnalysisStart, AnalysisStep, PTL DEF AnalysisSpec

-----------------------------------------------------------------------------
(* Large transfers *)

LEMMA Intervals ==
    ASSUME NEW n \in Nat
    PROVE  IsFiniteSet(1 .. n) /\ Cardinality(1 .. n) = n
<1>1. 1 \in Int /\ n \in Int
    OBVIOUS
<1>2. IsFiniteSet(1 .. n) /\ Cardinality(1 .. n) = IF 1 > n THEN 0 ELSE n - 1 + 1
    BY <1>1, FS_Interval
<1> QED
    BY <1>2

\* Where nothing is left out, all is picked.
LEMMA AllPicked ==
    ASSUME NEW S, NEW s \in Seq(S)
    PROVE  Picked(s, 1 .. Len(s)) = s
<1> DEFINE n == Len(s)
           all == 1 .. n
<1>1. n \in Nat /\ Cardinality(all) = n /\ s = [k \in 1 .. n |-> s[k]]
    BY Intervals
<1>2. ASSUME NEW k \in all
      PROVE  Rank(all, k) = k
    <2>1. {y \in all : y <= k} = 1 .. k /\ k \in Nat
        BY <1>1
    <2> HIDE DEF all
    <2> QED
        BY <2>1, Intervals DEF Rank
<1>3. ASSUME NEW k \in all
      PROVE  InOrder(all)[k] = k
    <2>1. InOrder(all)[k] = CHOOSE x \in all : Rank(all, x) = k
        BY <1>1 DEF InOrder
    <2> HIDE DEF all
    <2>2. \E x \in all : Rank(all, x) = k
        BY <1>2
    <2> DEFINE x == CHOOSE x \in all : Rank(all, x) = k
    <2>3. x \in all /\ Rank(all, x) = k
        BY <2>2
    <2> QED
        BY <1>2, <2>1, <2>3
<1>4. Picked(s, all) = [k \in 1 .. n |-> s[InOrder(all)[k]]]
    BY <1>1, Zenon DEF Picked
<1> HIDE DEF n
<1>5. \A k \in 1 .. n : s[InOrder(all)[k]] = s[k]
    BY <1>3
<1> QED
    BY <1>1, <1>4, <1>5 DEF n

InTheKeys(r, ix) == ToSet(ix.accounts) \cup {ix.program} \subseteq ToSet(r.keys)

\* A transaction that names only its keys is parsed as it was listed.
LEMMA AllIsParsed ==
    ASSUME NEW r, NEW ixs \in Seq(Instruction), \A i \in DOMAIN ixs : InTheKeys(r, ixs[i])
    PROVE  /\ Len(ParseAll(r, ixs)) = Len(ixs)
           /\ \A i \in 1 .. Len(ixs) :
                /\ ParseAll(r, ixs)[i].kind = Classify(ixs[i].program, ixs[i].data)
                /\ ParseAll(r, ixs)[i].accounts = ixs[i].accounts
<1> DEFINE n == Len(ixs)
           parse == [i \in 1 .. n |-> ParseInstruction(r, ixs[i])]
<1>1. /\ n \in Nat /\ DOMAIN ixs = 1 .. n
      /\ \A i \in 1 .. n : ixs[i] \in Instruction
    OBVIOUS
<1> HIDE DEF n
<1>2. ASSUME NEW i \in 1 .. n
      PROVE  InKeys(r, ixs[i].program)
    <2>1. InTheKeys(r, ixs[i])
        BY <1>1
    <2> QED
        BY <2>1 DEF InTheKeys, InKeys
<1>3. {i \in DOMAIN ixs : InKeys(r, ixs[i].program)} = 1 .. n
    BY <1>1, <1>2
<1>4. Picked(ixs, 1 .. n) = ixs
    BY AllPicked DEF n
<1>5. ParseAll(r, ixs) = parse
    <2> DEFINE S == {i \in DOMAIN ixs : InKeys(r, ixs[i].program)}
    <2>1. ParseAll(r, ixs) = [i \in DOMAIN Picked(ixs, S) |-> ParseInstruction(r, Picked(ixs, S)[i])]
        BY Zenon DEF ParseAll
    <2> HIDE DEF S
    <2>2. S = 1 .. n
        BY <1>3 DEF S
    <2>3. Picked(ixs, S) = ixs
        BY <1>4, <2>2
    <2>4. ParseAll(r, ixs) = [i \in DOMAIN ixs |-> ParseInstruction(r, ixs[i])]
        BY <2>1, <2>3, Zenon
    <2> QED
        BY <1>1, <2>4
<1>6. ASSUME NEW i \in 1 .. n
      PROVE  ParseInstruction(r, ixs[i]).accounts = ixs[i].accounts
    <2> DEFINE accounts == ixs[i].accounts
               S == {k \in DOMAIN accounts : InKeys(r, accounts[k])}
    <2>1. ixs[i] \in Instruction /\ InTheKeys(r, ixs[i])
        BY <1>1
    <2>2. accounts \in Seq(STRING)
        BY <2>1 DEF Instruction
    <2>3. ToSet(accounts) \subseteq ToSet(r.keys)
        BY <2>1 DEF InTheKeys
    <2>4. ParseInstruction(r, ixs[i]).accounts = Picked(accounts, S)
        BY DEF ParseInstruction
    <2> HIDE DEF accounts
    <2>5. S = 1 .. Len(accounts)
        BY <2>2, <2>3 DEF InKeys, ToSet
    <2>6. Picked(accounts, 1 .. Len(accounts)) = accounts
        BY <2>2, AllPicked
    <2> HIDE DEF S
    <2>7. Picked(accounts, S) = accounts
        BY <2>5, <2>6
    <2> QED
        BY <2>4, <2>7 DEF accounts
<1>7. \A i \in 1 .. n : ParseInstruction(r, ixs[i]).kind = Classify(ixs[i].program, ixs[i].data)
    BY DEF ParseInstruction
<1>8. Len(parse) = n /\ \A i \in 1 .. n : parse[i] = ParseInstruction(r, ixs[i])
    BY <1>1
<1> HIDE DEF parse
<1> QED
    BY <1>5, <1>6, <1>7, <1>8 DEF n

MovedIn(listing) ==
    {<<m.from, m.to>> : m \in {m \in UNION {listing[i].moves : i \in DOMAIN listing} : Large(m)}}
RaisedIn(alerts) == {a.metric : a \in {a \in alerts : a.rule = "large_transfer"}}
Real(alerts, listing) ==
    /\ RaisedIn(alerts) \subseteq MovedIn(listing)
    /\ MovedIn(listing) # {} => RaisedIn(alerts) # {}

\* The detection looks for what moves many tokens out of a watched account.
LEMMA LargeAlerts ==
    ASSUME NEW t, NEW listing \in Seq(Instruction), IsList(t.instructions),
           Len(t.instructions) = Len(listing),
           \A i \in 1 .. Len(listing) :
              /\ t.instructions[i].kind = Classify(listing[i].program, listing[i].data)
              /\ t.instructions[i].accounts = listing[i].accounts
              /\ TransferMoves(listing[i])
    PROVE  Real(Detect(t), listing)
<1> DEFINE n == Len(listing)
           list == t.instructions
           Big(ix) == /\ ix.kind.kind \in TokenTransfers
                      /\ Reaches(ix.kind.amount, Threshold)
                      /\ SourceOf(ix) \in Watched
           Ends(i) == <<SourceOf(list[i]), DestinationOf(list[i])>>
           found == {i \in 1 .. Len(list) : Big(list[i])}
           at == SelectInSeq(list, Big)
           moved == MovedIn(listing)
           raised == RaisedIn(Detect(t))
<1>1. n \in Nat /\ DOMAIN listing = 1 .. n /\ Len(list) = n
    OBVIOUS
<1>2. ASSUME NEW i \in 1 .. n
      PROVE  /\ Big(list[i]) => \E m \in listing[i].moves : Large(m) /\ Ends(i) = <<m.from, m.to>>
             /\ (\E m \in listing[i].moves : Large(m)) => Big(list[i])
    <2> DEFINE ix == listing[i]
               own == list[i]
    <2>1. /\ ix \in Instruction /\ own.kind = Classify(ix.program, ix.data)
          /\ own.accounts = ix.accounts /\ TransferMoves(ix)
        OBVIOUS
    <2> HIDE DEF ix, own
    <2>2. ix.accounts \in Seq(STRING)
        BY <2>1 DEF Instruction
    <2>3. CASE own.kind.kind \in TokenTransfers
        <3> DEFINE to == IF own.kind.kind = "TokenTransferChecked" THEN 3 ELSE 2
                   m == [sol |-> FALSE, from |-> own.accounts[1],
                         to |-> own.accounts[to], amount |-> own.kind.amount]
        <3>1. to <= Len(own.accounts) /\ ix.moves = {m}
            <4>1. /\ to <= Len(ix.accounts)
                  /\ ix.moves = {[sol |-> own.kind.kind = "SystemTransfer", from |-> ix.accounts[1],
                                  to |-> ix.accounts[to], amount |-> own.kind.amount]}
                BY <2>1, <2>3, Zenon DEF TransferMoves
            <4>2. (own.kind.kind = "SystemTransfer") = FALSE
                BY <2>3 DEF TokenTransfers
            <4> QED
                BY <2>1, <4>1, <4>2
        <3>2. to \in 2 .. 3 /\ Len(own.accounts) \in Nat /\ DOMAIN own.accounts = 1 .. Len(own.accounts)
            BY <2>1, <2>2
        <3>3. SourceOf(own) = own.accounts[1]
            <4>1. own.accounts # << >>
                BY <3>1, <3>2
            <4> QED
                BY <4>1 DEF SourceOf
        <3>4. DestinationOf(own) = own.accounts[to]
            <4>1. to \in DOMAIN own.accounts
                BY <3>1, <3>2
            <4>2. to = IF own.kind.kind = "TokenTransfer" THEN 2 ELSE 3
                BY <2>3 DEF TokenTransfers
            <4> QED
                BY <4>1, <4>2 DEF DestinationOf
        <3>5. /\ m \in ix.moves
              /\ \A other \in ix.moves : ~other.sol => other = m
            <4> HIDE DEF m
            <4> QED
                BY <3>1
        <3>6. /\ m.from = own.accounts[1] /\ m.to = own.accounts[to]
              /\ m.amount = own.kind.amount /\ ~m.sol
            OBVIOUS
        <3> HIDE DEF m, to
        <3>7. Large(m) <=> Big(own)
            BY <2>3, <3>3, <3>6 DEF Large, Reaches
        <3>8. \A other \in ix.moves : Large(other) => other = m
            BY <3>5 DEF Large
        <3>9. Ends(i) = <<m.from, m.to>>
            BY <3>3, <3>4, <3>6 DEF own
        <3> HIDE DEF Big, Ends
        <3> QED
            BY <3>5, <3>7, <3>8, <3>9 DEF own, ix
    <2>4. CASE ~(own.kind.kind \in TokenTransfers)
        <3>1. \A m \in ix.moves : m.sol
            <4>1. CASE own.kind.kind = "SystemTransfer"
                <5> DEFINE to == IF own.kind.kind = "TokenTransferChecked" THEN 3 ELSE 2
                           m == [sol |-> own.kind.kind = "SystemTransfer", from |-> ix.accounts[1],
                                 to |-> ix.accounts[to], amount |-> own.kind.amount]
                <5>1. ix.moves = {m}
                    BY <2>1, <4>1, Zenon DEF TransferMoves
                <5>2. m.sol = (own.kind.kind = "SystemTransfer")
                    OBVIOUS
                <5> HIDE DEF m
                <5> QED
                    BY <4>1, <5>1, <5>2
            <4>2. CASE own.kind.kind # "SystemTransfer"
                <5>1. ix.moves = {}
                    BY <2>1, <2>4, <4>2, Zenon DEF TransferMoves
                <5> QED
                    BY <5>1
            <4> QED
                BY <4>1, <4>2
        <3>2. \A m \in ix.moves : ~Large(m)
            BY <3>1 DEF Large
        <3>3. ~Big(own)
            BY <2>4
        <3> HIDE DEF Big
        <3> QED
            BY <3>2, <3>3 DEF own, ix
    <2> QED
        BY <2>3, <2>4
<1>3. at = IF found # {} THEN Min(found) ELSE 0
    BY Zenon DEF SelectInSeq
<1>4. LargeTransfer(t, Watched, Threshold) =
        IF at = 0 THEN {} ELSE {Alert("large_transfer", Ends(at))}
    BY Zenon DEF LargeTransfer
<1>5. /\ \A a \in TransferHookUpgrade(t) : a.rule = "transfer_hook_upgrade"
      /\ \A a \in DefaultStateFrozen(t) : a.rule = "default_account_state_frozen"
      /\ \A a \in TransferFeeAuthority(t) : a.rule = "transfer_fee_authority_change"
      /\ \A a \in PermanentDelegate(t) : a.rule = "permanent_delegate"
    BY DEF TransferHookUpgrade, DefaultStateFrozen, TransferFeeAuthority, PermanentDelegate, Fire, Alert
<1>6. \A a \in AuthorityChanged(t) : a.rule = "authority_change"
    BY DEF AuthorityChanged, Alert
<1>7. \A a : a \in Detect(t) /\ a.rule = "large_transfer" <=>
                a \in LargeTransfer(t, Watched, Threshold) /\ a.rule = "large_transfer"
    BY <1>5, <1>6 DEF Detect
<1>8. /\ found # {} => Min(found) \in found
      /\ \A i \in found : i # 0
    <2>1. found \in SUBSET Nat
        BY <1>1
    <2>2. \A i \in found : i # 0
        BY <1>1
    <2> HIDE DEF found
    <2> QED
        BY <2>1, <2>2, MinOfNats, Zenon
<1>9. Alert("large_transfer", Ends(at)).rule = "large_transfer"
      /\ Alert("large_transfer", Ends(at)).metric = Ends(at)
    BY DEF Alert
<1>10. raised = IF found = {} THEN {} ELSE {Ends(at)}
    <2>1. found = {} <=> at = 0
        <3> HIDE DEF found, at
        <3> QED
            BY <1>3, <1>8
    <2> HIDE DEF found, at, Ends
    <2>2. CASE at = 0
        <3>1. LargeTransfer(t, Watched, Threshold) = {}
            BY <1>4, <2>2
        <3> QED
            BY <1>7, <2>1, <2>2, <3>1 DEF RaisedIn
    <2>3. CASE at # 0
        <3>1. LargeTransfer(t, Watched, Threshold) = {Alert("large_transfer", Ends(at))}
            BY <1>4, <2>3
        <3>2. {a \in Detect(t) : a.rule = "large_transfer"} = {Alert("large_transfer", Ends(at))}
            BY <1>7, <1>9, <3>1
        <3> QED
            BY <1>9, <2>1, <2>3, <3>2 DEF RaisedIn
    <2> QED
        BY <2>2, <2>3
<1> HIDE DEF at, raised
<1>11. found # {} => at \in 1 .. n /\ Big(list[at])
    <2>1. found # {} => at \in found
        <3> HIDE DEF found
        <3> QED
            BY <1>3, <1>8
    <2> HIDE DEF Big
    <2> QED
        BY <1>1, <2>1
<1>12. ASSUME NEW i \in 1 .. n, NEW m \in listing[i].moves, Large(m)
       PROVE  <<m.from, m.to>> \in moved
    BY <1>1, <1>12 DEF MovedIn
<1>13. moved # {} => \E i \in 1 .. n : \E m \in listing[i].moves : Large(m)
    <2> HIDE DEF n
    <2> QED
        BY <1>1 DEF n, MovedIn
<1> HIDE DEF Big, Ends, moved
<1>14. raised \subseteq moved
    <2>1. found # {} => Ends(at) \in moved
        <3> HIDE DEF found, list, n
        <3> QED
            BY <1>2, <1>11, <1>12
    <2> HIDE DEF found
    <2> QED
        BY <1>10, <2>1
<1>15. moved # {} => raised # {}
    <2>1. moved # {} => found # {}
        BY <1>1, <1>2, <1>13
    <2> HIDE DEF found
    <2> QED
        BY <1>10, <2>1
<1> QED
    BY <1>14, <1>15 DEF moved, raised, Real

\* Each instruction listed moves tokens as the token programs do.
RawMoves ==
    /\ \A i \in DOMAIN raw.top : TransferMoves(raw.top[i])
    /\ \A i \in DOMAIN raw.inner : TransferMoves(raw.inner[i])

LargeInv == RawMoves /\ LargeTransfersAreReal

LEMMA LargeStart == AnalysisInit => LargeInv
    BY DEF AnalysisInit, LargeInv, RawMoves, LargeTransfersAreReal, Processed

LEMMA ListMoves ==
    ASSUME RawType, RawMoves, NEW where \in {"top", "inner"}, List(where)
    PROVE  RawMoves'
<1>1. PICK ix \in Shapes[Count + 1] : raw' = [raw EXCEPT ![where] = Append(@, ix)]
    BY DEF List
<1>2. TransferMoves(ix)
    <2> DEFINE n == Count + 1
    <2>1. Len(raw.top) \in Nat /\ Len(raw.inner) \in Nat
        BY DEF RawType
    <2>2. Count \in Nat
        <3> DEFINE t == Len(raw.top)
                   l == Len(raw.inner)
        <3>1. Count = t + l /\ t \in Nat /\ l \in Nat
            BY <2>1 DEF Count
        <3> HIDE DEF t, l
        <3> QED
            BY <3>1
    <2>3. Shapes \in Seq(SUBSET Instruction) /\ Count < Len(Shapes)
        BY ShapesAreInstructions DEF List
    <2>4. n \in DOMAIN Shapes
        BY <2>2, <2>3
    <2>5. ix \in Shapes[n]
        BY <1>1
    <2> HIDE DEF n
    <2> QED
        BY <2>4, <2>5, TransfersMove
<1>3. /\ raw = [keys |-> Keys, top |-> raw.top, inner |-> raw.inner]
      /\ raw.top \in Seq(Instruction) /\ raw.inner \in Seq(Instruction)
    BY DEF RawType, List
<1>4. ASSUME NEW s \in Seq(Instruction), \A i \in DOMAIN s : TransferMoves(s[i])
      PROVE  \A i \in DOMAIN Append(s, ix) : TransferMoves(Append(s, ix)[i])
    <2>1. /\ DOMAIN Append(s, ix) = 1 .. Len(s) + 1 /\ DOMAIN s = 1 .. Len(s) /\ Len(s) \in Nat
          /\ Append(s, ix)[Len(s) + 1] = ix
          /\ \A i \in 1 .. Len(s) : Append(s, ix)[i] = s[i]
        OBVIOUS
    <2>2. ASSUME NEW i \in 1 .. Len(s) + 1
          PROVE  TransferMoves(Append(s, ix)[i])
        <3>1. CASE i = Len(s) + 1
            BY <1>2, <2>1, <3>1
        <3>2. CASE i # Len(s) + 1
            <4>1. i \in 1 .. Len(s)
                BY <2>1, <3>2
            <4> QED
                BY <1>4, <2>1, <4>1
        <3> QED
            BY <3>1, <3>2
    <2> QED
        BY <2>1, <2>2
<1> DEFINE t == raw.top
           n == raw.inner
<1>5. /\ raw = [keys |-> Keys, top |-> t, inner |-> n]
      /\ t \in Seq(Instruction) /\ n \in Seq(Instruction)
      /\ \A i \in DOMAIN t : TransferMoves(t[i])
      /\ \A i \in DOMAIN n : TransferMoves(n[i])
    BY <1>3 DEF RawMoves
<1> HIDE DEF t, n
<1>6. CASE where = "top"
    <2>1. raw' = [keys |-> Keys, top |-> Append(t, ix), inner |-> n]
        BY <1>1, <1>5, <1>6
    <2>2. \A i \in DOMAIN Append(t, ix) : TransferMoves(Append(t, ix)[i])
        BY <1>4, <1>5
    <2>3. raw'.top = Append(t, ix) /\ raw'.inner = n
        BY <2>1
    <2> QED
        BY <1>5, <2>2, <2>3, Zenon DEF RawMoves
<1>7. CASE where = "inner"
    <2>1. raw' = [keys |-> Keys, top |-> t, inner |-> Append(n, ix)]
        BY <1>1, <1>5, <1>7
    <2>2. \A i \in DOMAIN Append(n, ix) : TransferMoves(Append(n, ix)[i])
        BY <1>4, <1>5
    <2>3. raw'.top = t /\ raw'.inner = Append(n, ix)
        BY <2>1
    <2> QED
        BY <1>5, <2>2, <2>3, Zenon DEF RawMoves
<1> QED
    BY <1>6, <1>7

\* The worker's list against the listing: the same places, each instruction's
\* kind and accounts those of the listing, and a transfer among them moves.
Lists(list, listing) ==
    /\ Len(list) = Len(listing)
    /\ \A i \in 1 .. Len(listing) :
          /\ list[i].kind = Classify(listing[i].program, listing[i].data)
          /\ list[i].accounts = listing[i].accounts
          /\ TransferMoves(listing[i])

\* The worker's list of instructions is the listing, where all is in the keys.
LEMMA ListIsListing ==
    ASSUME NEW top \in Seq(Instruction), NEW inner \in Seq(Instruction), NEW r,
           NEW listing, listing = top \o inner,
           NEW list, list = ParseAll(r, top) \o ParseAll(r, inner),
           \A i \in DOMAIN listing : InTheKeys(r, listing[i]),
           \A i \in DOMAIN top : TransferMoves(top[i]),
           \A i \in DOMAIN inner : TransferMoves(inner[i])
    PROVE  listing \in Seq(Instruction) /\ Lists(list, listing)
<1> DEFINE a == ParseAll(r, top)
           b == ParseAll(r, inner)
<1>1. /\ listing \in Seq(Instruction) /\ Len(listing) = Len(top) + Len(inner)
      /\ DOMAIN listing = 1 .. Len(listing) /\ Len(listing) \in Nat
      /\ DOMAIN top = 1 .. Len(top) /\ DOMAIN inner = 1 .. Len(inner)
      /\ Len(top) \in Nat /\ Len(inner) \in Nat
      /\ \A i \in 1 .. Len(top) : listing[i] = top[i]
      /\ \A i \in 1 .. Len(inner) : listing[Len(top) + i] = inner[i]
    OBVIOUS
<1>3. \A i \in DOMAIN top : InTheKeys(r, top[i])
    BY <1>1
<1>4. \A i \in DOMAIN inner : InTheKeys(r, inner[i])
    <2>1. ASSUME NEW i \in 1 .. Len(inner)
          PROVE  InTheKeys(r, inner[i])
        <3>1. Len(top) + i \in DOMAIN listing
            BY <1>1
        <3> QED
            BY <1>1, <3>1
    <2> QED
        BY <1>1, <2>1
<1>5. /\ AllParsed(a) /\ Len(a) = Len(top)
      /\ \A i \in 1 .. Len(top) : /\ a[i].kind = Classify(top[i].program, top[i].data)
                                  /\ a[i].accounts = top[i].accounts
    BY <1>3, AllIsParsed, ParserParses
<1>6. /\ AllParsed(b) /\ Len(b) = Len(inner)
      /\ \A i \in 1 .. Len(inner) : /\ b[i].kind = Classify(inner[i].program, inner[i].data)
                                    /\ b[i].accounts = inner[i].accounts
    BY <1>4, AllIsParsed, ParserParses
<1> HIDE DEF a, b
<1>7. /\ Len(list) = Len(a) + Len(b)
      /\ \A i \in 1 .. Len(a) : list[i] = a[i]
      /\ \A i \in 1 .. Len(b) : list[Len(a) + i] = b[i]
    <2>1. list = a \o b
        BY DEF a, b
    <2>2. Joins(a \o b, a, b)
        BY <1>5, <1>6, ListsJoin, Zenon
    <2>3. Joins(list, a, b)
        BY <2>1, <2>2, Zenon
    <2> QED
        BY <2>3, Zenon DEF Joins
<1>8. ASSUME NEW i \in 1 .. Len(listing)
      PROVE  /\ list[i].kind = Classify(listing[i].program, listing[i].data)
             /\ list[i].accounts = listing[i].accounts
             /\ TransferMoves(listing[i])
    <2>1. CASE i <= Len(top)
        <3>1. i \in 1 .. Len(top)
            BY <1>1, <2>1
        <3> QED
            BY <1>1, <1>5, <1>7, <3>1
    <2>2. CASE ~(i <= Len(top))
        <3> DEFINE j == i - Len(top)
        <3>1. j \in 1 .. Len(inner) /\ i = Len(top) + j
            BY <1>1, <2>2
        <3> HIDE DEF j
        <3>2. list[i] = b[j] /\ listing[i] = inner[j]
            BY <1>1, <1>5, <1>6, <1>7, <3>1
        <3> QED
            BY <1>1, <1>6, <3>1, <3>2
    <2> QED
        BY <2>1, <2>2
<1> QED
    BY <1>1, <1>5, <1>6, <1>7, <1>8 DEF Lists

\* The worker's list is a parsed one and, where all is in the keys, the listing.
LEMMA WorkersList ==
    ASSUME AnalysisInv, RawMoves, NEW logged \in BOOLEAN, Process(logged)
    PROVE  /\ "instructions" \in DOMAIN tx' /\ AllParsed(tx'.instructions)
           /\ AllInKeys => Listing \in Seq(Instruction) /\ Lists(tx'.instructions, Listing)
<1>1. /\ tx = ParseTransaction(raw, Monitored)
      /\ raw.top \in Seq(Instruction) /\ raw.inner \in Seq(Instruction)
      /\ tx' = Named(logged)
    BY DEF AnalysisInv, ParsedType, RawType, Process
<1>3. /\ AllParsed(tx.instructions) /\ "instructions" \in DOMAIN tx
      /\ tx.instructions = ParseAll(raw, raw.top) \o ParseAll(raw, raw.inner)
    <2> DEFINE r == raw
               t == tx
    <2>1. r.top \in Seq(Instruction) /\ r.inner \in Seq(Instruction) /\ t = ParseTransaction(r, Monitored)
        BY <1>1
    <2> HIDE DEF r, t
    <2>2. LET p == ParseTransaction(r, Monitored)
          IN  /\ p = [program |-> p.program, success |-> p.success, fee |-> p.fee,
                       accounts |-> p.accounts, topCount |-> p.topCount,
                       instructions |-> p.instructions, sol |-> p.sol, tokens |-> p.tokens]
              /\ p.instructions = ParseAll(r, r.top) \o ParseAll(r, r.inner)
              /\ AllParsed(p.instructions)
        BY <2>1, TransactionsParse, Zenon
    <2>3. /\ t = [program |-> t.program, success |-> t.success, fee |-> t.fee,
                  accounts |-> t.accounts, topCount |-> t.topCount,
                  instructions |-> t.instructions, sol |-> t.sol, tokens |-> t.tokens]
          /\ t.instructions = ParseAll(r, r.top) \o ParseAll(r, r.inner)
          /\ AllParsed(t.instructions)
        BY <2>1, <2>2, Zenon
    <2>4. "instructions" \in DOMAIN t
        BY <2>3
    <2> QED
        BY <2>3, <2>4 DEF r, t
<1>4. /\ AllParsed(tx'.instructions) /\ "instructions" \in DOMAIN tx'
      /\ Len(tx'.instructions) = Len(tx.instructions)
      /\ \A i \in 1 .. Len(tx.instructions) :
            /\ tx'.instructions[i].kind = tx.instructions[i].kind
            /\ tx'.instructions[i].accounts = tx.instructions[i].accounts
    BY <1>1, <1>3, NamingKeepsParsed
<1> SUFFICES ASSUME AllInKeys
             PROVE  Listing \in Seq(Instruction) /\ Lists(tx'.instructions, Listing)
    BY <1>4
<1> DEFINE r == raw
           listing == Listing
           list == tx.instructions
           named == tx'.instructions
           top == r.top
           inner == r.inner
<1>5. \A i \in DOMAIN (top \o inner) : InTheKeys(r, (top \o inner)[i])
    BY DEF AllInKeys, Listing, InTheKeys
<1>6. /\ top \in Seq(Instruction) /\ inner \in Seq(Instruction)
      /\ list = ParseAll(r, top) \o ParseAll(r, inner) /\ listing = top \o inner
      /\ \A i \in DOMAIN top : TransferMoves(top[i])
      /\ \A i \in DOMAIN inner : TransferMoves(inner[i])
    BY <1>1, <1>3 DEF RawMoves, Listing
<1>7. /\ Len(named) = Len(list)
      /\ \A i \in 1 .. Len(list) : named[i].kind = list[i].kind /\ named[i].accounts = list[i].accounts
    BY <1>4
<1> HIDE DEF r, listing, list, named, top, inner
<1>8. \A i \in DOMAIN listing : InTheKeys(r, listing[i])
    BY <1>5, <1>6, Zenon
<1>9. listing \in Seq(Instruction) /\ Lists(list, listing)
    BY <1>6, <1>8, ListIsListing, Zenon
<1>10. Lists(named, listing)
    BY <1>7, <1>9 DEF Lists
<1> QED
    BY <1>9, <1>10 DEF listing, named

LEMMA LargeStep ==
    ASSUME AnalysisInv, LargeInv, NEW logged \in BOOLEAN, Process(logged)
    PROVE  LargeTransfersAreReal'
<1>1. raw' = raw /\ result'.alerts = Detect(tx')
    BY DEF Process
<1>2. SUFFICES ASSUME AllInKeys
               PROVE  Real(Detect(tx'), Listing)
    <2>1. AllInKeys' = AllInKeys /\ Listing' = Listing
        BY <1>1, Zenon DEF AllInKeys, Listing
    <2>2. LargeTransfersAreReal' <=> (Processed' /\ tx'.success /\ AllInKeys' => Real(result'.alerts, Listing'))
        BY Zenon DEF LargeTransfersAreReal, Real, MovedIn, RaisedIn
    <2> QED
        BY <1>1, <2>1, <2>2, Zenon
<1> DEFINE t == tx'
           listing == Listing
<1>3. AllParsed(t.instructions) /\ listing \in Seq(Instruction) /\ Lists(t.instructions, listing)
    BY <1>2, WorkersList DEF LargeInv
<1> HIDE DEF t, listing
<1>4. Real(Detect(t), listing)
    BY <1>3, LargeAlerts DEF AllParsed, Lists
<1> QED
    BY <1>4 DEF t, listing

LEMMA LargeNext == AnalysisInv /\ LargeInv /\ [AnalysisNext]_analysisVars => LargeInv'
<1> SUFFICES ASSUME AnalysisInv, LargeInv, [AnalysisNext]_analysisVars
             PROVE  LargeInv'
    OBVIOUS
<1>1. CASE ListTop \/ ListInner
    <2>1. RawMoves' /\ stage' = "building"
        BY <1>1, ListMoves, ListKeeps DEF AnalysisInv, LargeInv, ListTop, ListInner
    <2> QED
        BY <2>1 DEF LargeInv, LargeTransfersAreReal, Processed
<1>2. ASSUME NEW failed \in BOOLEAN, Parse(failed)
      PROVE  LargeInv'
    <2>1. raw'.top = raw.top /\ raw'.inner = raw.inner /\ stage' = "parsed"
        BY <1>2 DEF Parse, Executed
    <2> QED
        BY <2>1 DEF LargeInv, RawMoves, LargeTransfersAreReal, Processed
<1>3. ASSUME NEW logged \in BOOLEAN, Process(logged)
      PROVE  LargeInv'
    <2>1. raw' = raw
        BY <1>3 DEF Process
    <2> QED
        BY <1>3, <2>1, LargeStep DEF LargeInv, RawMoves
<1>4. CASE UNCHANGED analysisVars
    <2>1. raw' = raw /\ stage' = stage /\ tx' = tx /\ result' = result
        BY <1>4 DEF analysisVars
    <2>2. AllInKeys' = AllInKeys /\ Listing' = Listing
        BY <2>1, Zenon DEF AllInKeys, Listing
    <2>3. /\ LargeTransfersAreReal' <=> (Processed' /\ tx'.success /\ AllInKeys' => Real(result'.alerts, Listing'))
          /\ LargeTransfersAreReal <=> (Processed /\ tx.success /\ AllInKeys => Real(result.alerts, Listing))
        BY Zenon DEF LargeTransfersAreReal, Real, MovedIn, RaisedIn
    <2>4. Processed' <=> Processed
        BY <2>1 DEF Processed
    <2>5. LargeTransfersAreReal'
        BY <2>1, <2>2, <2>3, <2>4, Zenon DEF LargeInv
    <2> QED
        BY <2>1, <2>5 DEF LargeInv, RawMoves
<1> QED
    BY <1>1, <1>2, <1>3, <1>4 DEF AnalysisNext

\* A successful transaction that names only its keys raises a large transfer alert
\* exactly if as many tokens leave a watched account in one move, and the alert names the
\* accounts of such a move, for any instructions that move tokens as the token programs do
\* (LargeTransferDetection::evaluate after parse_transaction).
THEOREM LargeAlertsAreReal == AnalysisSpec => []LargeTransfersAreReal
<1>1. AnalysisInit => AnalysisInv /\ LargeInv
    BY AnalysisStart, LargeStart
<1>2. AnalysisInv /\ LargeInv /\ [AnalysisNext]_analysisVars => (AnalysisInv /\ LargeInv)'
    BY AnalysisStep, LargeNext
<1>3. LargeInv => LargeTransfersAreReal
    BY DEF LargeInv
<1> QED
    BY <1>1, <1>2, <1>3, PTL DEF AnalysisSpec

-----------------------------------------------------------------------------
(* Sums *)

\* Where the sets upTo[x] form a chain, their sizes number the elements of S.
LEMMA ChainsAreRanked ==
    ASSUME NEW S, IsFiniteSet(S), NEW upTo \in [S -> SUBSET S],
           \A x \in S : x \in upTo[x],
           \A x, y \in S : upTo[x] \subseteq upTo[y] \/ upTo[y] \subseteq upTo[x],
           \A x, y \in S : x # y => upTo[x] # upTo[y]
    PROVE  /\ Cardinality(S) \in Nat
           /\ \A x \in S : Cardinality(upTo[x]) \in 1 .. Cardinality(S)
           /\ \A x, y \in S : upTo[x] \subseteq upTo[y] /\ x # y
                                => Cardinality(upTo[x]) < Cardinality(upTo[y])
           /\ \A k \in 1 .. Cardinality(S) : \E x \in S : Cardinality(upTo[x]) = k
<1> DEFINE n == Cardinality(S)
           rank == [x \in S |-> Cardinality(upTo[x])]
<1>1. n \in Nat
    BY FS_CardinalityType
<1>2. ASSUME NEW x \in S
      PROVE  IsFiniteSet(upTo[x]) /\ Cardinality(upTo[x]) \in 1 .. n
    <2>1. upTo[x] \in SUBSET S /\ upTo[x] # {}
        OBVIOUS
    <2>2. IsFiniteSet(upTo[x]) /\ Cardinality(upTo[x]) <= n
        BY <2>1, FS_Subset
    <2>3. Cardinality(upTo[x]) \in Nat /\ Cardinality(upTo[x]) # 0
        BY <2>1, <2>2, FS_CardinalityType, FS_EmptySet
    <2> HIDE DEF n
    <2> QED
        BY <1>1, <2>2, <2>3
<1>3. ASSUME NEW x \in S, NEW y \in S, upTo[x] \subseteq upTo[y], x # y
      PROVE  Cardinality(upTo[x]) < Cardinality(upTo[y])
    <2>1. upTo[x] # upTo[y]
        BY <1>3
    <2>2. /\ IsFiniteSet(upTo[y])
          /\ Cardinality(upTo[x]) \in Nat /\ Cardinality(upTo[y]) \in Nat
        BY <1>2
    <2>3. /\ Cardinality(upTo[x]) <= Cardinality(upTo[y])
          /\ Cardinality(upTo[x]) # Cardinality(upTo[y])
        BY <1>3, <2>1, <2>2, FS_Subset
    <2> QED
        BY <2>2, <2>3
<1>4. IsFiniteSet(1 .. n) /\ Cardinality(1 .. n) = n
    <2>1. 1 \in Int /\ n \in Int
        BY <1>1
    <2>2. IsFiniteSet(1 .. n) /\ Cardinality(1 .. n) = IF 1 > n THEN 0 ELSE n - 1 + 1
        BY <2>1, FS_Interval
    <2> HIDE DEF n
    <2> QED
        BY <2>2, <1>1
<1>5. rank \in [S -> 1 .. n]
    BY <1>2
<1>6. \A x, y \in S : rank[x] = rank[y] => x = y
    <2> SUFFICES ASSUME NEW x \in S, NEW y \in S, x # y
                 PROVE  Cardinality(upTo[x]) # Cardinality(upTo[y])
        OBVIOUS
    <2>1. /\ Cardinality(upTo[x]) \in Nat /\ Cardinality(upTo[y]) \in Nat
          /\ Cardinality(upTo[x]) < Cardinality(upTo[y]) \/ Cardinality(upTo[y]) < Cardinality(upTo[x])
        BY <1>2, <1>3
    <2> QED
        BY <2>1
<1> HIDE DEF n, rank
<1>7. rank \in Injection(S, 1 .. n)
    BY <1>5, <1>6 DEF Injection, IsInjective
<1>8. rank \in Surjection(S, 1 .. n)
    BY <1>4, <1>7, FS_Injection DEF n
<1>9. \A k \in 1 .. n : \E x \in S : Cardinality(upTo[x]) = k
    BY <1>8 DEF Surjection, rank
<1> QED
    BY <1>1, <1>2, <1>3, <1>9 DEF n

\* o has the elements of S, each at a place of its own.
Enumerates(o, S) ==
    /\ Cardinality(S) \in Nat
    /\ \A k \in 1 .. Cardinality(S) : o[k] \in S
    /\ \A x \in S : \E k \in 1 .. Cardinality(S) : o[k] = x

LEMMA InOrderEnumerates ==
    ASSUME NEW S \in SUBSET Int, IsFiniteSet(S)
    PROVE  /\ Enumerates(InOrder(S), S)
           /\ \A k, l \in 1 .. Cardinality(S) : k < l => InOrder(S)[k] < InOrder(S)[l]
<1> DEFINE upTo == [x \in S |-> {y \in S : y <= x}]
           n == Cardinality(S)
           at(k) == CHOOSE x \in S : Rank(S, x) = k
<1>0. \A x \in S : Rank(S, x) = Cardinality(upTo[x])
    BY DEF Rank
<1>1. /\ upTo \in [S -> SUBSET S] /\ \A x \in S : x \in upTo[x]
      /\ \A x, y \in S : x <= y => upTo[x] \subseteq upTo[y]
    <2>1. \A x \in S : x \in Int
        OBVIOUS
    <2>2. upTo \in [S -> SUBSET S] /\ \A x \in S : x \in upTo[x]
        BY <2>1
    <2>3. ASSUME NEW x \in S, NEW y \in S, x <= y, NEW z \in upTo[x]
          PROVE  z \in upTo[y]
        <3>1. z \in S /\ z <= x
            OBVIOUS
        <3>2. z <= y
            BY <2>1, <2>3, <3>1
        <3> QED
            BY <3>1, <3>2
    <2> QED
        BY <2>2, <2>3
<1>2. \A x, y \in S : x # y => upTo[x] # upTo[y]
    <2> SUFFICES ASSUME NEW x \in S, NEW y \in S, x < y
                 PROVE  upTo[x] # upTo[y]
        OBVIOUS
    <2>1. y \in upTo[y] /\ y \notin upTo[x]
        OBVIOUS
    <2> QED
        BY <2>1
<1>3. \A x, y \in S : upTo[x] \subseteq upTo[y] \/ upTo[y] \subseteq upTo[x]
    BY <1>1
<1> HIDE DEF upTo
<1>4. /\ n \in Nat
      /\ \A x \in S : Cardinality(upTo[x]) \in 1 .. n
      /\ \A x, y \in S : upTo[x] \subseteq upTo[y] /\ x # y
                           => Cardinality(upTo[x]) < Cardinality(upTo[y])
      /\ \A k \in 1 .. n : \E x \in S : Cardinality(upTo[x]) = k
    BY <1>1, <1>2, <1>3, ChainsAreRanked
<1>5. /\ \A x \in S : Rank(S, x) \in 1 .. n
      /\ \A k \in 1 .. n : \E x \in S : Rank(S, x) = k
      /\ \A x, y \in S : x < y => Rank(S, x) < Rank(S, y)
    BY <1>0, <1>1, <1>4
<1>6. \A k \in 1 .. n : at(k) \in S /\ Rank(S, at(k)) = k
    BY <1>5
<1>7. InOrder(S) = [k \in 1 .. n |-> at(k)]
    BY DEF InOrder
<1> HIDE DEF n, at
<1>8. ASSUME NEW x \in S
      PROVE  \E k \in 1 .. n : InOrder(S)[k] = x
    <2> DEFINE k == Rank(S, x)
               y == at(k)
    <2>1. k \in 1 .. n /\ InOrder(S)[k] = y /\ y \in S /\ Rank(S, y) = k /\ k = Rank(S, x)
        BY <1>5, <1>6, <1>7
    <2> HIDE DEF k, y
    <2>2. x \in Int /\ y \in Int
        BY <2>1
    <2>3. ~(x < y) /\ ~(y < x)
        <3>1. /\ x < y => Rank(S, x) < Rank(S, y)
              /\ y < x => Rank(S, y) < Rank(S, x)
            BY <1>5, <2>1
        <3> QED
            BY <2>1, <2>2, <3>1
    <2> QED
        BY <2>1, <2>2, <2>3
<1>9. ASSUME NEW k \in 1 .. n, NEW l \in 1 .. n, k < l
      PROVE  InOrder(S)[k] < InOrder(S)[l]
    <2> DEFINE x == at(k)
               y == at(l)
    <2>1. /\ InOrder(S)[k] = x /\ x \in S /\ Rank(S, x) = k
          /\ InOrder(S)[l] = y /\ y \in S /\ Rank(S, y) = l
        BY <1>6, <1>7
    <2> HIDE DEF x, y
    <2>2. x \in Int /\ y \in Int /\ x # y
        BY <1>9, <2>1
    <2>3. ~(y < x)
        <3>1. y < x => Rank(S, y) < Rank(S, x)
            BY <1>5, <2>1
        <3>2. k \in Nat /\ l \in Nat
            BY <1>4
        <3> QED
            BY <1>9, <2>1, <3>1, <3>2
    <2> QED
        BY <2>1, <2>2, <2>3
<1>10. \A k \in 1 .. n : InOrder(S)[k] \in S
    BY <1>6, <1>7
<1> QED
    BY <1>4, <1>8, <1>9, <1>10 DEF n, Enumerates

\* What holds of 0, and of each number after one it holds of, holds of all.
LEMMA Climbs ==
    ASSUME NEW n \in Nat, NEW S, 0 \in S, \A k \in 1 .. n : k - 1 \in S => k \in S
    PROVE  \A k \in 0 .. n : k \in S
<1> DEFINE rest == (0 .. n) \ S
<1>1. SUFFICES ASSUME rest # {}
               PROVE  FALSE
    OBVIOUS
<1>2. rest \in SUBSET Nat /\ rest \subseteq 0 .. n
    OBVIOUS
<1>3. PICK least \in rest : \A y \in rest : least <= y
    <2> HIDE DEF rest
    <2> QED
        BY <1>1, <1>2, MinOfNats
<1>4. least \in 1 .. n /\ least - 1 \in 0 .. n /\ ~(least <= least - 1)
    BY <1>3
<1>5. least - 1 \in S
    BY <1>3, <1>4
<1> QED
    BY <1>3, <1>4, <1>5

\* g has the sums of the first numbers of v.
Sums(g, v, n) ==
    /\ g \in [0 .. n -> Int] /\ g[0] = 0
    /\ \A k \in 1 .. n : g[k] = g[k - 1] + v[k]

LEMMA SumsExist ==
    ASSUME NEW n \in Nat, NEW v, \A k \in 1 .. n : v[k] \in Int
    PROVE  \E g : Sums(g, v, n)
<1> DEFINE S == {m \in 0 .. n : \E g : Sums(g, v, m)}
<1>1. 0 \in S
    <2> DEFINE g == [k \in 0 .. 0 |-> 0]
    <2>1. Sums(g, v, 0)
        BY DEF Sums
    <2> QED
        BY <2>1
<1>2. ASSUME NEW m \in 1 .. n, m - 1 \in S
      PROVE  m \in S
    <2>1. PICK g : Sums(g, v, m - 1)
        BY <1>2
    <2> DEFINE h == [k \in 0 .. m |-> IF k = m THEN g[m - 1] + v[m] ELSE g[k]]
    <2>2. g \in [0 .. m - 1 -> Int] /\ g[0] = 0 /\ \A k \in 1 .. m - 1 : g[k] = g[k - 1] + v[k]
        BY <2>1 DEF Sums
    <2>3. m \in Nat /\ m >= 1 /\ v[m] \in Int /\ g[m - 1] \in Int
        BY <2>2
    <2>4. /\ \A k \in 0 .. m - 1 : h[k] = g[k]
          /\ h[m] = g[m - 1] + v[m]
        BY <2>3
    <2>5. h \in [0 .. m -> Int] /\ h[0] = 0
        BY <2>2, <2>3
    <2> HIDE DEF h
    <2>6. ASSUME NEW k \in 1 .. m
          PROVE  h[k] = h[k - 1] + v[k]
        <3>1. CASE k = m
            BY <2>3, <2>4, <3>1
        <3>2. CASE k # m
            <4>1. k \in 1 .. m - 1 /\ k \in 0 .. m - 1 /\ k - 1 \in 0 .. m - 1
                BY <2>3, <3>2
            <4> QED
                BY <2>2, <2>4, <4>1
        <3> QED
            BY <3>1, <3>2
    <2>7. Sums(h, v, m)
        BY <2>5, <2>6 DEF Sums
    <2> QED
        BY <2>7
<1> HIDE DEF S
<1>3. n \in S
    BY <1>1, <1>2, Climbs
<1> QED
    BY <1>3 DEF S

LEMMA TotalIsTheLast ==
    ASSUME NEW n \in Nat, NEW ns, Len(ns) = n, NEW g, Sums(g, ns, n)
    PROVE  Total(ns) = g[n]
<1> DEFINE sums(e) == e = [k \in 0 .. n |-> IF k = 0 THEN 0 ELSE e[k - 1] + ns[k]]
           h == CHOOSE e : sums(e)
           S == {k \in 0 .. n : h[k] = g[k]}
<1>1. g \in [0 .. n -> Int] /\ g[0] = 0 /\ \A k \in 1 .. n : g[k] = g[k - 1] + ns[k]
    BY DEF Sums
<1>2. sums(g)
    <2>1. g = [k \in 0 .. n |-> g[k]]
        BY <1>1
    <2>2. \A k \in 0 .. n : g[k] = IF k = 0 THEN 0 ELSE g[k - 1] + ns[k]
        BY <1>1
    <2> QED
        BY <2>1, <2>2
<1>3. sums(h)
    <2> HIDE DEF sums
    <2> QED
        BY <1>2
<1>4. Total(ns) = h[n]
    BY Zenon DEF Total
<1> HIDE DEF h
<1>5. \A k \in 0 .. n : h[k] = IF k = 0 THEN 0 ELSE h[k - 1] + ns[k]
    BY <1>3
<1> HIDE DEF sums
<1>6. 0 \in S /\ \A k \in 1 .. n : k - 1 \in S => k \in S
    BY <1>1, <1>5
<1> HIDE DEF S
<1>7. n \in S
    BY <1>6, Climbs
<1> QED
    BY <1>4, <1>7 DEF S

LEMMA TotalOfNumbers ==
    ASSUME NEW n \in Nat, NEW ns \in [1 .. n -> Int]
    PROVE  /\ Total(ns) \in Int
           /\ \E g : Sums(g, ns, n) /\ Total(ns) = g[n]
<1>1. PICK g : Sums(g, ns, n)
    BY SumsExist
<1>2. Total(ns) = g[n]
    <2>1. Len(ns) = n
        OBVIOUS
    <2> QED
        BY <1>1, <2>1, TotalIsTheLast
<1>3. g[n] \in Int
    BY <1>1 DEF Sums
<1> QED
    BY <1>1, <1>2, <1>3

LEMMA TotalOfDifferences ==
    ASSUME NEW n \in Nat, NEW a \in [1 .. n -> Int], NEW b \in [1 .. n -> Int],
           NEW d \in [1 .. n -> Int], \A k \in 1 .. n : d[k] = a[k] - b[k]
    PROVE  Total(d) = Total(a) - Total(b)
<1>1. PICK f : Sums(f, a, n) /\ Total(a) = f[n]
    BY TotalOfNumbers
<1>2. PICK g : Sums(g, b, n) /\ Total(b) = g[n]
    BY TotalOfNumbers
<1> DEFINE h == [k \in 0 .. n |-> f[k] - g[k]]
<1>3. Sums(h, d, n)
    <2>1. /\ f \in [0 .. n -> Int] /\ f[0] = 0 /\ \A k \in 1 .. n : f[k] = f[k - 1] + a[k]
          /\ g \in [0 .. n -> Int] /\ g[0] = 0 /\ \A k \in 1 .. n : g[k] = g[k - 1] + b[k]
        BY <1>1, <1>2 DEF Sums
    <2>2. h \in [0 .. n -> Int] /\ h[0] = 0
        BY <2>1
    <2>3. ASSUME NEW k \in 1 .. n
          PROVE  h[k] = h[k - 1] + d[k]
        <3>1. k \in 0 .. n /\ k - 1 \in 0 .. n
            OBVIOUS
        <3>2. h[k] = f[k] - g[k] /\ h[k - 1] = f[k - 1] - g[k - 1]
            BY <3>1
        <3>3. /\ f[k - 1] \in Int /\ g[k - 1] \in Int /\ a[k] \in Int /\ b[k] \in Int
              /\ f[k] = f[k - 1] + a[k] /\ g[k] = g[k - 1] + b[k] /\ d[k] = a[k] - b[k]
            BY <2>1, <3>1
        <3> HIDE DEF h
        <3> QED
            BY <3>2, <3>3
    <2> HIDE DEF h
    <2> QED
        BY <2>2, <2>3 DEF Sums
<1>4. Total(d) = h[n]
    <2>1. Len(d) = n
        OBVIOUS
    <2> HIDE DEF h
    <2> QED
        BY <1>3, <2>1, TotalIsTheLast
<1>5. h[n] = f[n] - g[n]
    OBVIOUS
<1> QED
    BY <1>1, <1>2, <1>4, <1>5

LEMMA TotalOfZeros ==
    ASSUME NEW n \in Nat, NEW ns \in [1 .. n -> Int], \A k \in 1 .. n : ns[k] = 0
    PROVE  Total(ns) = 0
<1>1. \A k \in 1 .. n : ns[k] = ns[k] - ns[k]
    OBVIOUS
<1>2. Total(ns) = Total(ns) - Total(ns) /\ Total(ns) \in Int
    BY <1>1, TotalOfDifferences, TotalOfNumbers
<1> QED
    BY <1>2

\* Sums stay where nothing is added.
LEMMA SumsStay ==
    ASSUME NEW n \in Nat, NEW v, NEW g, Sums(g, v, n), NEW a \in 0 .. n, NEW b \in 0 .. n,
           a <= b, \A j \in a + 1 .. b : v[j] = 0
    PROVE  g[b] = g[a]
<1> DEFINE S == {k \in 0 .. n : k <= a \/ k > b \/ g[k] = g[a]}
<1>1. 0 \in S
    OBVIOUS
<1>2. ASSUME NEW k \in 1 .. n, k - 1 \in S
      PROVE  k \in S
    <2>1. g \in [0 .. n -> Int] /\ g[k] = g[k - 1] + v[k]
        BY DEF Sums
    <2>2. CASE k <= a \/ k > b
        BY <2>2
    <2>3. CASE k > a /\ k <= b
        <3>1. v[k] = 0 /\ g[k - 1] \in Int
            BY <2>1, <2>3
        <3>2. g[k - 1] = g[a]
            <4>1. CASE k - 1 <= a
                <5>1. k - 1 = a
                    BY <2>3, <4>1
                <5> QED
                    BY <5>1
            <4>2. CASE k - 1 > a
                <5>1. ~(k - 1 <= a) /\ ~(k - 1 > b)
                    BY <2>3, <4>2
                <5> QED
                    BY <1>2, <5>1
            <4> QED
                BY <4>1, <4>2
        <3> QED
            BY <2>1, <3>1, <3>2
    <2> QED
        BY <2>2, <2>3
<1> HIDE DEF S
<1>3. b \in S
    BY <1>1, <1>2, Climbs
<1>4. b <= a \/ b > b \/ g[b] = g[a]
    BY <1>3 DEF S
<1>5. b <= a => b = a
    OBVIOUS
<1> QED
    BY <1>4, <1>5

\* u has the numbers of v at the places S, in the order o, and the others are 0.
Thins(u, v, n, S, o) ==
    /\ v \in [1 .. n -> Int] /\ S \in SUBSET (1 .. n)
    /\ \A i \in 1 .. n : i \notin S => v[i] = 0
    /\ Enumerates(o, S) /\ \A k, l \in 1 .. Cardinality(S) : k < l => o[k] < o[l]
    /\ u \in [1 .. Cardinality(S) -> Int] /\ \A k \in 1 .. Cardinality(S) : u[k] = v[o[k]]

\* Numbers that are 0 do not show in the total.
LEMMA TotalOfPicked ==
    ASSUME NEW n \in Nat, NEW v, NEW u, NEW S, NEW o, Thins(u, v, n, S, o)
    PROVE  Total(u) = Total(v)
<1> DEFINE c == Cardinality(S)
           q == [k \in 0 .. c |-> IF k = 0 THEN 0 ELSE o[k]]
<1>0. v \in [1 .. n -> Int] /\ S \in SUBSET (1 .. n) /\ \A i \in 1 .. n : i \notin S => v[i] = 0
    BY DEF Thins
<1>1. PICK g : Sums(g, v, n) /\ Total(v) = g[n]
    BY <1>0, TotalOfNumbers
<1>2. /\ g \in [0 .. n -> Int] /\ g[0] = 0
      /\ \A i \in 1 .. n : g[i] = g[i - 1] + v[i]
    BY <1>1 DEF Sums
<1>3. /\ c \in Nat /\ \A k \in 1 .. c : o[k] \in S
      /\ \A x \in S : \E k \in 1 .. c : o[k] = x
      /\ \A k, l \in 1 .. c : k < l => o[k] < o[l]
      /\ u \in [1 .. c -> Int] /\ \A k \in 1 .. c : u[k] = v[o[k]]
    BY Zenon DEF Enumerates, Thins
<1> HIDE DEF c
<1>4. /\ q \in [0 .. c -> 0 .. n] /\ q[0] = 0
      /\ \A k \in 1 .. c : q[k] = o[k] /\ q[k] \in S /\ q[k] \in 1 .. n
    <2>1. \A k \in 1 .. c : q[k] = o[k] /\ o[k] \in S /\ o[k] \in 1 .. n
        <3>1. \A k \in 1 .. c : k \in 0 .. c /\ k # 0
            BY <1>3
        <3>2. \A k \in 1 .. c : q[k] = o[k]
            BY <3>1
        <3>3. \A k \in 1 .. c : o[k] \in S /\ o[k] \in 1 .. n
            BY <1>0, <1>3
        <3> QED
            BY <3>2, <3>3
    <2>2. q[0] = 0 /\ DOMAIN q = 0 .. c
        BY <1>3
    <2>3. q = [k \in 0 .. c |-> q[k]]
        OBVIOUS
    <2> HIDE DEF q
    <2>4. \A k \in 0 .. c : q[k] \in 0 .. n
        <3>1. \A k \in 0 .. c : k = 0 \/ k \in 1 .. c
            BY <1>3
        <3> QED
            BY <2>1, <2>2, <3>1
    <2> QED
        BY <2>1, <2>2, <2>3, <2>4
<1> HIDE DEF q
<1>5. ASSUME NEW k \in 1 .. c, NEW j \in q[k - 1] + 1 .. q[k] - 1
      PROVE  j \in 1 .. n /\ v[j] = 0
    <2>1. q[k] \in 1 .. n /\ k - 1 \in 0 .. c /\ q[k - 1] \in 0 .. n
        BY <1>3, <1>4
    <2>2. j \in Int /\ q[k - 1] < j /\ j < q[k] /\ j \in 1 .. n
        BY <2>1
    <2>3. ASSUME j \in S
          PROVE  FALSE
        <3>1. PICK l \in 1 .. c : o[l] = j
            BY <1>3, <2>3
        <3>2. l < k
            <4>1. o[k] = q[k] /\ q[k] \in Int /\ ~(o[k] < o[l]) /\ o[l] # o[k]
                BY <1>4, <2>1, <2>2, <3>1
            <4>2. k < l => o[k] < o[l]
                BY <1>3
            <4>3. l # k
                BY <4>1
            <4> QED
                BY <4>1, <4>2, <4>3
        <3>3. l <= k - 1 /\ k - 1 \in 1 .. c
            BY <1>3, <3>2
        <3>4. l = k - 1 \/ o[l] < o[k - 1]
            BY <1>3, <3>3
        <3>5. o[k - 1] = q[k - 1] /\ o[l] = j
            BY <1>4, <3>1, <3>3
        <3> QED
            BY <2>1, <2>2, <3>4, <3>5
    <2> QED
        BY <1>0, <2>2, <2>3
<1>6. ASSUME NEW j \in q[c] + 1 .. n
      PROVE  v[j] = 0
    <2>1. q[c] \in 0 .. n
        BY <1>3, <1>4
    <2>2. j \in 1 .. n /\ q[c] < j
        BY <2>1
    <2>3. ASSUME j \in S
          PROVE  FALSE
        <3>1. PICK l \in 1 .. c : o[l] = j
            BY <1>3, <2>3
        <3>2. c \in 1 .. c
            BY <1>3, <3>1
        <3>3. l = c \/ l < c
            BY <1>3
        <3>4. (l < c => o[l] < o[c]) /\ q[c] = o[c]
            BY <1>3, <1>4, <3>2
        <3> QED
            BY <2>1, <2>2, <3>1, <3>3, <3>4
    <2> QED
        BY <1>0, <2>2, <2>3
<1> DEFINE h == [k \in 0 .. c |-> g[q[k]]]
<1>7. ASSUME NEW k \in 1 .. c
      PROVE  h[k] = h[k - 1] + u[k]
    <2>0. k \in 0 .. c /\ k - 1 \in 0 .. c
        BY <1>3
    <2>1. /\ k \in 0 .. c /\ k - 1 \in 0 .. c
          /\ q[k] \in 1 .. n /\ q[k - 1] \in 0 .. n /\ q[k] - 1 \in 0 .. n
        <3> HIDE DEF h
        <3> QED
            BY <1>4, <2>0
    <2>2. q[k - 1] <= q[k] - 1
        <3>1. CASE k = 1
            BY <1>4, <2>1, <3>1
        <3>2. CASE k # 1
            <4>1. k - 1 \in 1 .. c /\ k - 1 < k
                BY <1>3, <3>2
            <4>2. o[k - 1] < o[k] /\ q[k - 1] = o[k - 1] /\ q[k] = o[k]
                BY <1>3, <1>4, <4>1
            <4> QED
                BY <2>1, <4>2
        <3> QED
            BY <3>1, <3>2
    <2>3. g[q[k] - 1] = g[q[k - 1]]
        <3> DEFINE a == q[k - 1]
                   b == q[k] - 1
        <3>1. a \in 0 .. n /\ b \in 0 .. n /\ a <= b /\ \A j \in a + 1 .. b : v[j] = 0
            BY <1>5, <2>1, <2>2
        <3> HIDE DEF a, b
        <3>2. g[b] = g[a]
            BY <1>1, <3>1, SumsStay
        <3> QED
            BY <3>2 DEF a, b
    <2>4. g[q[k]] = g[q[k] - 1] + v[q[k]] /\ v[q[k]] = u[k]
        BY <1>2, <1>3, <1>4, <2>1
    <2>5. h[k] = g[q[k]] /\ h[k - 1] = g[q[k - 1]]
        BY <2>1
    <2> HIDE DEF h
    <2> QED
        BY <2>3, <2>4, <2>5
<1>8. h \in [0 .. c -> Int] /\ h[0] = 0 /\ h[c] = g[q[c]]
    BY <1>2, <1>3, <1>4
<1> HIDE DEF h
<1>9. Total(u) = h[c]
    <2>1. Len(u) = c
        BY <1>3
    <2>2. Sums(h, u, c)
        BY <1>7, <1>8 DEF Sums
    <2> QED
        BY <1>3, <2>1, <2>2, TotalIsTheLast
<1>10. g[n] = g[q[c]]
    <2> DEFINE a == q[c]
    <2>1. a \in 0 .. n /\ n \in 0 .. n /\ a <= n /\ \A j \in a + 1 .. n : v[j] = 0
        BY <1>3, <1>4, <1>6
    <2> HIDE DEF a
    <2>2. g[n] = g[a]
        BY <1>1, <2>1, SumsStay
    <2> QED
        BY <2>2 DEF a
<1> QED
    BY <1>1, <1>8, <1>9, <1>10

-----------------------------------------------------------------------------
(* Legs, categories and balances *)

\* The amount of a transfer is that of the data.
LEMMA TransfersHaveAmounts ==
    ASSUME NEW program, NEW d, Classify(program, d).kind \in Legal
    PROVE  Classify(program, d).amount = d.amount
<1> DEFINE Fits(k) == k.kind \in Legal => k.amount = d.amount
<1>1. Fits(SplToken(d))
    BY DEF SplToken, Other, Legal
<1>2. Fits(Token2022(d))
    BY <1>1 DEF Token2022, Frozen, Kind, Legal
<1>3. Fits(System(d)) /\ Fits(Stake(d)) /\ Fits(Loader(d))
    BY DEF System, Stake, Loader, Kind, Other, Legal
<1>4. Fits(AssociatedToken(d)) /\ Fits(ComputeBudget(d))
    BY DEF AssociatedToken, ComputeBudget, Other, Legal
<1>5. Fits(Raydium(d)) /\ Fits(Jupiter(d))
    BY DEF Raydium, Jupiter, Other, Legal
<1>6. Fits(Kind("Unknown")) /\ Fits(Other(<<"memo">>)) /\ Fits(Other(<<"ix", Tag(d)>>))
    BY DEF Kind, Other, Legal
<1> HIDE DEF Fits
<1>7. Fits(Classify(program, d))
    BY <1>1, <1>2, <1>3, <1>4, <1>5, <1>6 DEF Classify
<1> QED
    BY <1>7 DEF Fits

\* The classifiers' list against the listing: the same accounts, and the transfers.
Carries(list, listing) ==
    /\ DOMAIN list = 1 .. Len(listing)
    /\ \A i \in 1 .. Len(listing) :
          LET kind == Classify(listing[i].program, listing[i].data)
          IN  /\ TransferMoves(listing[i])
              /\ list[i].accounts = listing[i].accounts
              /\ list[i].kind.kind \in Legal <=> kind.kind \in Legal
              /\ kind.kind \in Legal => list[i].kind = kind

LEMMA ConversionCarries ==
    ASSUME NEW list, AllParsed(list), NEW listing \in Seq(Instruction), Lists(list, listing)
    PROVE  Carries(ToClassification(list), listing)
<1> DEFINE conv == ToClassification(list)
           n == Len(listing)
           opaque == {"InitializeTransferHook", "UpdateTransferHook", "SetTransferFee",
                   "InitializePermanentDelegate", "InitializeDefaultAccountState",
                   "UpdateDefaultAccountState"}
<1>1. n \in Nat /\ DOMAIN list = 1 .. n
    <2>1. Len(list) \in Nat /\ list = [i \in 1 .. Len(list) |-> list[i]] /\ Len(list) = n
        BY DEF AllParsed, IsList, Lists
    <2> QED
        BY <2>1
<1>2. DOMAIN conv = 1 .. n
    BY <1>1 DEF ToClassification
<1>3. ASSUME NEW i \in 1 .. n
      PROVE  /\ conv[i].accounts = list[i].accounts
             /\ conv[i].kind.kind \in Legal <=> list[i].kind.kind \in Legal
             /\ list[i].kind.kind \in Legal => conv[i].kind = list[i].kind
    <2>1. conv[i] = IF list[i].kind.kind \in opaque
                    THEN [list[i] EXCEPT !.kind = Other(<<@.kind>>)] ELSE list[i]
        BY <1>1, Zenon DEF ToClassification
    <2>2. IsParsed(list[i])
        BY <1>1 DEF AllParsed
    <2>3. /\ [list[i] EXCEPT !.kind = Other(<<@.kind>>)].kind.kind = "Other"
          /\ [list[i] EXCEPT !.kind = Other(<<@.kind>>)].accounts = list[i].accounts
        BY <2>2 DEF IsParsed, Other
    <2>4. list[i].kind.kind \in Legal => list[i].kind.kind \notin opaque
        BY DEF Legal
    <2> HIDE DEF conv, opaque
    <2> QED
        BY <2>1, <2>3, <2>4 DEF Legal, opaque
<1>4. ASSUME NEW i \in 1 .. n
      PROVE  /\ list[i].kind = Classify(listing[i].program, listing[i].data)
             /\ list[i].accounts = listing[i].accounts
             /\ TransferMoves(listing[i])
    BY DEF Lists
<1> HIDE DEF conv
<1>5. \A i \in 1 .. n :
          LET kind == Classify(listing[i].program, listing[i].data)
          IN  /\ TransferMoves(listing[i])
              /\ conv[i].accounts = listing[i].accounts
              /\ conv[i].kind.kind \in Legal <=> kind.kind \in Legal
              /\ kind.kind \in Legal => conv[i].kind = kind
    BY <1>3, <1>4
<1> QED
    BY <1>2, <1>5 DEF Carries, conv

Makes(ix) == ix.kind.kind \in Legal /\ Len(ix.accounts) >= DestinationIndex(ix.kind.kind)

\* What a leg moves for account a.
LegFlow(l, a, sol) == IF l.sol = sol THEN Flow(l.source, l.destination, l.amount, a) ELSE 0

IsMove(l, m) == l.sol = m.sol /\ l.source = m.from /\ l.destination = m.to

\* A leg says what its instruction moves, and one that makes no leg moves nothing.
LEMMA LegsSayWhatMoves ==
    ASSUME NEW t, NEW listing \in Seq(Instruction), Carries(t.instructions, listing),
           NEW i \in 1 .. Len(listing), NEW a, NEW sol \in BOOLEAN
    PROVE  /\ Moved(listing[i], a, sol) \in Int
           /\ Makes(t.instructions[i]) =>
                /\ Moved(listing[i], a, sol) = LegFlow(Leg(t, i), a, sol)
                /\ Leg(t, i).amount \in Nat
           /\ ~Makes(t.instructions[i]) => Moved(listing[i], a, sol) = 0
           /\ Makes(t.instructions[i]) => \E m \in listing[i].moves : IsMove(Leg(t, i), m)
<1> DEFINE ix == listing[i]
           own == t.instructions[i]
           kind == Classify(ix.program, ix.data)
           at == IF kind.kind = "TokenTransferChecked" THEN 3 ELSE 2
           m == [sol |-> kind.kind = "SystemTransfer", from |-> ix.accounts[1],
                 to |-> ix.accounts[at], amount |-> kind.amount]
<1>1. /\ ix \in Instruction /\ TransferMoves(ix) /\ own.accounts = ix.accounts
      /\ own.kind.kind \in Legal <=> kind.kind \in Legal
      /\ kind.kind \in Legal => own.kind = kind
    BY DEF Carries
<1> HIDE DEF ix, own
<1>2. ix.data.amount \in Nat
    BY <1>1 DEF Instruction
<1>3. CASE kind.kind \in Legal
    <2>1. kind.kind \in TokenTransfers \cup {"SystemTransfer"}
        BY <1>3 DEF Legal, TokenTransfers
    <2>2. at <= Len(ix.accounts) /\ ix.moves = {m}
        BY <1>1, <2>1, Zenon DEF TransferMoves
    <2>3. own.kind = kind /\ DestinationIndex(own.kind.kind) = at
        BY <1>1, <1>3 DEF DestinationIndex
    <2>4. kind.amount \in Nat
        BY <1>2, <1>3, TransfersHaveAmounts
    <2>5. Makes(own)
        <3>1. Len(ix.accounts) \in Nat /\ at \in Nat
            BY <1>1 DEF Instruction
        <3> QED
            BY <1>1, <1>3, <2>2, <2>3, <3>1 DEF Makes
    <2>6. /\ Leg(t, i).source = m.from /\ Leg(t, i).destination = m.to
          /\ Leg(t, i).amount = m.amount /\ Leg(t, i).sol = m.sol
        <3>1. /\ Leg(t, i).source = own.accounts[1]
              /\ Leg(t, i).destination = own.accounts[DestinationIndex(own.kind.kind)]
              /\ Leg(t, i).amount = own.kind.amount
              /\ Leg(t, i).sol = (own.kind.kind = "SystemTransfer")
            BY DEF Leg, own
        <3> QED
            BY <1>1, <2>3, <3>1
    <2>7. m.amount \in Nat
        BY <2>4
    <2> DEFINE l == Leg(t, i)
    <2> HIDE DEF m, l, kind
    <2>8. Moved(ix, a, sol) = IF m.sol = sol THEN Flow(m.from, m.to, m.amount, a) ELSE 0
        <3>1. CASE m.sol = sol
            <4>1. (CHOOSE x \in ix.moves : x.sol = sol) = m /\ \E x \in ix.moves : x.sol = sol
                BY <2>2, <3>1
            <4> QED
                BY <3>1, <4>1, Zenon DEF Moved
        <3>2. CASE m.sol # sol
            <4>1. ~(\E x \in ix.moves : x.sol = sol)
                BY <2>2, <3>2
            <4> QED
                BY <3>2, <4>1, Zenon DEF Moved
        <3> QED
            BY <3>1, <3>2
    <2>9. Moved(ix, a, sol) = LegFlow(l, a, sol) /\ l.amount \in Nat
        BY <2>6, <2>7, <2>8 DEF LegFlow, l
    <2>10. Moved(ix, a, sol) \in Int
        BY <2>7, <2>8 DEF Flow
    <2>11. IsMove(l, m) /\ m \in ix.moves
        BY <2>2, <2>6 DEF IsMove, l
    <2> QED
        BY <2>5, <2>9, <2>10, <2>11 DEF ix, own, l
<1>4. CASE kind.kind \notin Legal
    <2>1. ix.moves = {}
        <3>1. kind.kind \notin TokenTransfers \cup {"SystemTransfer"}
            BY <1>4 DEF Legal, TokenTransfers
        <3> QED
            BY <1>1, <3>1, Zenon DEF TransferMoves
    <2>2. Moved(ix, a, sol) = 0
        BY <2>1 DEF Moved
    <2>3. ~Makes(own)
        BY <1>1, <1>4 DEF Makes
    <2> QED
        BY <2>2, <2>3 DEF ix, own
<1> QED
    BY <1>3, <1>4

\* What a leg is, for the sums over legs.
IsLeg(l, focal) ==
    /\ l.amount \in Nat /\ l.sol \in BOOLEAN /\ (l.nft => ~l.sol)
    /\ l.direction = Direction(focal, l.source, l.destination)

\* The legs are those of the instructions that make one, in order.
LEMMA LegsAreInOrder ==
    ASSUME NEW t, NEW listing \in Seq(Instruction), Carries(t.instructions, listing),
           NEW S, S = {i \in 1 .. Len(listing) : Makes(t.instructions[i])},
           NEW legs, legs = Legs(t)
    PROVE  /\ IsFiniteSet(S) /\ Enumerates(InOrder(S), S)
           /\ \A k, l \in 1 .. Cardinality(S) : k < l => InOrder(S)[k] < InOrder(S)[l]
           /\ DOMAIN legs = 1 .. Cardinality(S) /\ Len(legs) = Cardinality(S)
           /\ \A k \in DOMAIN legs : legs[k] = Leg(t, InOrder(S)[k]) /\ IsLeg(legs[k], Focal(t))
<1> DEFINE n == Len(listing)
           o == InOrder(S)
           c == Cardinality(S)
<1>1. n \in Nat /\ DOMAIN t.instructions = 1 .. n
    BY DEF Carries
<1>2. IsFiniteSet(S) /\ S \in SUBSET Int /\ S \subseteq 1 .. n
    <2>1. S \subseteq 1 .. n /\ IsFiniteSet(1 .. n)
        BY <1>1, Intervals
    <2> QED
        BY <2>1, FS_Subset
<1>3. Enumerates(o, S) /\ \A k, l \in 1 .. c : k < l => o[k] < o[l]
    BY <1>2, InOrderEnumerates
<1>4. DOMAIN o = 1 .. c
    BY DEF InOrder
<1>5. c \in Nat /\ \A k \in 1 .. c : o[k] \in S
    BY <1>3 DEF Enumerates
<1>6. legs = [k \in DOMAIN o |-> Leg(t, o[k])]
    <2> DEFINE list == t.instructions
    <2>1. S = {i \in DOMAIN list : /\ list[i].kind.kind \in Legal
                                   /\ Len(list[i].accounts) >= DestinationIndex(list[i].kind.kind)}
        BY <1>1 DEF Makes
    <2> QED
        BY <2>1, Zenon DEF Legs
<1> HIDE DEF o, c
<1>7. DOMAIN legs = 1 .. c /\ Len(legs) = c /\ \A k \in 1 .. c : legs[k] = Leg(t, o[k])
    BY <1>4, <1>5, <1>6
<1>8. ASSUME NEW k \in 1 .. c
      PROVE  IsLeg(legs[k], Focal(t))
    <2> DEFINE i == o[k]
               l == Leg(t, i)
    <2>1. i \in 1 .. n /\ Makes(t.instructions[i])
        BY <1>5
    <2> HIDE DEF i
    <2>2. l.amount \in Nat
        <3>1. TRUE \in BOOLEAN
            OBVIOUS
        <3> QED
            BY <2>1, <3>1, LegsSayWhatMoves
    <2>3. /\ l.sol \in BOOLEAN /\ l.direction = Direction(Focal(t), l.source, l.destination)
          /\ l.nft => ~l.sol
        BY DEF Leg
    <2> HIDE DEF l
    <2>4. IsLeg(l, Focal(t))
        BY <2>2, <2>3 DEF IsLeg
    <2> QED
        BY <1>7, <2>4 DEF l, i
<1> QED
    BY <1>2, <1>3, <1>7, <1>8 DEF o, c

\* What the legs say moves for account a is what the instructions move.
AddsUp(legs, listing, a, sol) ==
    /\ Total([i \in DOMAIN listing |-> Moved(listing[i], a, sol)]) \in Int
    /\ Total([k \in DOMAIN legs |-> LegFlow(legs[k], a, sol)])
            = Total([i \in DOMAIN listing |-> Moved(listing[i], a, sol)])
    /\ legs = << >> => Total([i \in DOMAIN listing |-> Moved(listing[i], a, sol)]) = 0

LEMMA LegsAddUp ==
    ASSUME NEW t, NEW listing \in Seq(Instruction), Carries(t.instructions, listing),
           NEW legs, legs = Legs(t), NEW a, NEW sol \in BOOLEAN
    PROVE  AddsUp(legs, listing, a, sol)
<1> DEFINE n == Len(listing)
           S == {i \in 1 .. n : Makes(t.instructions[i])}
           o == InOrder(S)
           c == Cardinality(S)
           v == [i \in DOMAIN listing |-> Moved(listing[i], a, sol)]
           u == [k \in DOMAIN legs |-> LegFlow(legs[k], a, sol)]
<1>1. /\ IsFiniteSet(S) /\ Enumerates(o, S)
      /\ \A k, l \in 1 .. c : k < l => o[k] < o[l]
      /\ DOMAIN legs = 1 .. c /\ Len(legs) = c
      /\ \A k \in DOMAIN legs : legs[k] = Leg(t, o[k])
    <2> HIDE DEF S, v, u
    <2>1. S = {i \in 1 .. Len(listing) : Makes(t.instructions[i])}
        BY DEF S
    <2> QED
        BY <2>1, LegsAreInOrder
<1>2. n \in Nat /\ DOMAIN listing = 1 .. n
    OBVIOUS
<1>3. \A i \in 1 .. n : /\ v[i] \in Int
                        /\ Makes(t.instructions[i]) => v[i] = LegFlow(Leg(t, i), a, sol)
                        /\ ~Makes(t.instructions[i]) => v[i] = 0
    <2> SUFFICES ASSUME NEW i \in 1 .. n
                 PROVE  /\ v[i] \in Int
                        /\ Makes(t.instructions[i]) => v[i] = LegFlow(Leg(t, i), a, sol)
                        /\ ~Makes(t.instructions[i]) => v[i] = 0
        OBVIOUS
    <2>1. v[i] = Moved(listing[i], a, sol)
        BY <1>2
    <2> HIDE DEF v, u, S
    <2>2. /\ Moved(listing[i], a, sol) \in Int
          /\ Makes(t.instructions[i]) => Moved(listing[i], a, sol) = LegFlow(Leg(t, i), a, sol)
          /\ ~Makes(t.instructions[i]) => Moved(listing[i], a, sol) = 0
        BY LegsSayWhatMoves
    <2> QED
        BY <2>1, <2>2
<1>4. v \in [1 .. n -> Int]
    <2>1. v = [i \in 1 .. n |-> v[i]]
        BY <1>2
    <2> HIDE DEF v
    <2> QED
        BY <1>3, <2>1
<1>5. c \in Nat /\ \A k \in 1 .. c : o[k] \in S
    BY <1>1 DEF Enumerates
<1>6. ASSUME NEW k \in 1 .. c
      PROVE  u[k] = v[o[k]] /\ u[k] \in Int
    <2>1. o[k] \in 1 .. n /\ Makes(t.instructions[o[k]])
        BY <1>5
    <2>2. u[k] = LegFlow(Leg(t, o[k]), a, sol)
        BY <1>1
    <2> HIDE DEF u, v, o, S
    <2> QED
        BY <1>3, <2>1, <2>2
<1>7. u \in [1 .. c -> Int]
    <2>1. u = [k \in 1 .. c |-> u[k]]
        BY <1>1
    <2> HIDE DEF u, c
    <2> QED
        BY <1>6, <2>1
<1>8. \A i \in 1 .. n : i \notin S => v[i] = 0
    BY <1>3
<1>9. S \in SUBSET (1 .. n)
    OBVIOUS
<1>10. Total(u) = Total(v)
    <2>1. Enumerates(o, S) /\ \A k, l \in 1 .. Cardinality(S) : k < l => o[k] < o[l]
        BY <1>1
    <2>2. u \in [1 .. Cardinality(S) -> Int] /\ \A k \in 1 .. Cardinality(S) : u[k] = v[o[k]]
        BY <1>6, <1>7
    <2> HIDE DEF u, v, o, S, n, c
    <2>3. n \in Nat /\ v \in [1 .. n -> Int] /\ S \in SUBSET (1 .. n)
        BY <1>2, <1>4, <1>9
    <2>4. \A i \in 1 .. n : i \notin S => v[i] = 0
        BY <1>8
    <2>5. \A k \in 1 .. Cardinality(S) : u[k] = v[o[k]]
        BY <2>2
    <2>6. u \in [1 .. Cardinality(S) -> Int]
        BY <2>2
    <2>7. Enumerates(o, S)
        BY <2>1
    <2>8. \A k, l \in 1 .. Cardinality(S) : k < l => o[k] < o[l]
        BY <2>1
    <2>9. Thins(u, v, n, S, o)
        BY <2>3, <2>4, <2>5, <2>6, <2>7, <2>8, Zenon DEF Thins
    <2> QED
        BY <2>3, <2>9, TotalOfPicked
<1>11. Total(v) \in Int
    <2> HIDE DEF v, n
    <2> QED
        BY <1>2, <1>4, TotalOfNumbers
<1>12. legs = << >> => Total(v) = 0
    <2> SUFFICES ASSUME legs = << >>
                 PROVE  Total(v) = 0
        OBVIOUS
    <2>1. c = 0
        BY <1>1, <1>5
    <2>2. \A i \in 1 .. n : i \notin S
        <3> HIDE DEF S
        <3>1. S = {}
            BY <1>1, <2>1, FS_EmptySet
        <3> QED
            BY <3>1
    <2>3. \A i \in 1 .. n : v[i] = 0
        BY <1>8, <2>2
    <2> HIDE DEF v, n
    <2> QED
        BY <1>2, <1>4, <2>3, TotalOfZeros
<1> QED
    BY <1>10, <1>11, <1>12, Zenon DEF AddsUp

\* What goes in and out by the legs, against what the focal account gains, where only
\* lamports reach or leave it.
LegsOfLamports(legs, n, focal) ==
    \A k \in 1 .. n : /\ IsLeg(legs[k], focal)
                      /\ legs[k].direction \in {"Inflow", "Outflow"} => legs[k].sol

LEMMA InAndOut ==
    ASSUME NEW f, NEW n \in Nat, DOMAIN f.legs = 1 .. n, NEW focal, LegsOfLamports(f.legs, n, focal),
           NEW lamports, lamports = Total([k \in DOMAIN f.legs |-> LegFlow(f.legs[k], focal, TRUE)])
    PROVE  /\ In(f) \in Int /\ Out(f) \in Int
           /\ In(f) - Out(f) = lamports /\ SolIn(f) = In(f)
<1> DEFINE legs == f.legs
           If0(b, x) == IF b THEN x ELSE 0
           in == [k \in 1 .. n |-> If0(legs[k].direction = "Inflow" /\ legs[k].sol \in BOOLEAN, legs[k].amount)]
           out == [k \in 1 .. n |-> If0(legs[k].direction = "Outflow" /\ legs[k].sol \in BOOLEAN, legs[k].amount)]
           sin == [k \in 1 .. n |-> If0(legs[k].direction = "Inflow" /\ legs[k].sol \in {TRUE}, legs[k].amount)]
           ls == [k \in 1 .. n |-> LegFlow(legs[k], focal, TRUE)]
<1>1. In(f) = Total(in) /\ Out(f) = Total(out)
    BY Zenon DEF In, Out, Amounts
<1>2. SolIn(f) = Total(sin)
    BY Zenon DEF SolIn, Amounts
<1>3. lamports = Total(ls)
    BY Zenon
<1>4. ASSUME NEW k \in 1 .. n
      PROVE  {in[k], out[k], ls[k]} \subseteq Int /\ ls[k] = in[k] - out[k] /\ sin[k] = in[k]
    <2> DEFINE l == legs[k]
    <2>1. /\ l.amount \in Nat /\ l.sol \in BOOLEAN
          /\ l.direction = Direction(focal, l.source, l.destination)
          /\ l.direction \in {"Inflow", "Outflow"} => l.sol
        BY DEF LegsOfLamports, IsLeg
    <2>2. /\ in[k] = If0(l.direction = "Inflow" /\ l.sol \in BOOLEAN, l.amount)
          /\ out[k] = If0(l.direction = "Outflow" /\ l.sol \in BOOLEAN, l.amount)
          /\ sin[k] = If0(l.direction = "Inflow" /\ l.sol \in {TRUE}, l.amount)
          /\ ls[k] = LegFlow(l, focal, TRUE)
        OBVIOUS
    <2> HIDE DEF l, in, out, sin, ls
    <2>3. l.direction = "Inflow" <=> l.destination = focal /\ l.source # focal
        BY <2>1 DEF Direction
    <2>4. l.direction = "Outflow" <=> l.source = focal /\ l.destination # focal
        BY <2>1 DEF Direction
    <2>5. ls[k] = IF l.sol THEN Flow(l.source, l.destination, l.amount, focal) ELSE 0
        BY <2>1, <2>2 DEF LegFlow
    <2>6. Flow(l.source, l.destination, l.amount, focal) = in[k] - out[k] /\ in[k] \in Int /\ out[k] \in Int
        BY <2>1, <2>2, <2>3, <2>4 DEF Flow
    <2>7. sin[k] = (IF l.sol THEN in[k] ELSE 0)
        BY <2>1, <2>2
    <2>8. ~l.sol => in[k] = 0 /\ out[k] = 0
        BY <2>1, <2>2
    <2> QED
        BY <2>1, <2>5, <2>6, <2>7, <2>8
<1>5. /\ in \in [1 .. n -> Int] /\ out \in [1 .. n -> Int] /\ ls \in [1 .. n -> Int]
      /\ sin = in
    <2>1. /\ in = [k \in 1 .. n |-> in[k]] /\ out = [k \in 1 .. n |-> out[k]]
          /\ sin = [k \in 1 .. n |-> sin[k]] /\ ls = [k \in 1 .. n |-> ls[k]]
        BY Zenon
    <2> HIDE DEF in, out, sin, ls
    <2> QED
        BY <1>4, <2>1
<1> HIDE DEF in, out, sin, ls
<1>6. Total(ls) = Total(in) - Total(out)
    <2>1. \A k \in 1 .. n : ls[k] = in[k] - out[k]
        BY <1>4
    <2>2. in \in [1 .. n -> Int] /\ out \in [1 .. n -> Int] /\ ls \in [1 .. n -> Int]
        BY <1>5
    <2>3. n \in Nat
        OBVIOUS
    <2> QED
        BY <2>1, <2>2, <2>3, TotalOfDifferences
<1>7. Total(in) \in Int /\ Total(out) \in Int
    BY <1>5, TotalOfNumbers
<1> QED
    BY <1>1, <1>2, <1>3, <1>5, <1>6, <1>7

\* What the balances of a successful transaction are, in and after it, where the i-th
\* account gains g[i].
After(before, g) == [i \in DOMAIN Accounts |-> before[i] + g[i]]

LEMMA KeysAreAccounts ==
    /\ DOMAIN Keys \subseteq DOMAIN Accounts /\ 1 \in DOMAIN Keys
    /\ \A i \in DOMAIN Keys : Accounts[i] = Keys[i]
    /\ DOMAIN Accounts \subseteq Nat
    /\ Lamports \in [DOMAIN Accounts -> Nat] /\ Tokens \in [DOMAIN Accounts -> Nat] /\ Fee \in Nat
<1>1. Keys \in Seq(STRING) /\ Keys # << >> /\ Loaded \in Seq(STRING)
    BY KeysAreNotLoaded
<1>2. /\ Accounts \in Seq(STRING) /\ Len(Accounts) = Len(Keys) + Len(Loaded)
      /\ \A i \in 1 .. Len(Keys) : Accounts[i] = Keys[i]
    BY <1>1 DEF Accounts
<1>3. DOMAIN Keys = 1 .. Len(Keys) /\ Len(Keys) \in Nat /\ Len(Keys) >= 1 /\ Len(Loaded) \in Nat
    BY <1>1
<1>4. DOMAIN Accounts = 1 .. Len(Accounts)
    BY <1>2
<1>5. Lamports \in [DOMAIN Accounts -> Nat] /\ Tokens \in [DOMAIN Accounts -> Nat] /\ Fee \in Nat
    BY HoldingsAreNat, NumbersAreNat
<1> QED
    BY <1>2, <1>3, <1>4, <1>5

\* The lamport diffs say what each account gained, less the fee.
LEMMA SolDiffsSay ==
    ASSUME NEW r, NEW g \in [DOMAIN Accounts -> Int],
           r.pre = Lamports, r.post = [After(Lamports, g) EXCEPT ![1] = @ - Fee]
    PROVE  \A i \in DOMAIN Accounts :
               Delta(SolDiffs(r), i) + (IF i = 1 THEN Fee ELSE 0) = g[i]
<1> DEFINE change(i) == IF i = 1 THEN g[i] - Fee ELSE g[i]
           diffs == SolDiffs(r)
<1>1. /\ Lamports \in [DOMAIN Accounts -> Nat] /\ Fee \in Nat
      /\ DOMAIN Accounts \subseteq Nat /\ DOMAIN r.pre = DOMAIN Accounts
    BY KeysAreAccounts
<1>2. ASSUME NEW i \in DOMAIN Accounts
      PROVE  /\ r.pre[i] \in Int /\ r.post[i] \in Int /\ r.post[i] - r.pre[i] = change(i)
             /\ change(i) \in Int
    <2> DEFINE after == After(Lamports, g)
    <2>1. after[i] = Lamports[i] + g[i] /\ DOMAIN after = DOMAIN Accounts
        BY DEF After
    <2>2. r.post = [after EXCEPT ![1] = @ - Fee]
        OBVIOUS
    <2> HIDE DEF after
    <2>3. r.post[i] = IF i = 1 THEN after[i] - Fee ELSE after[i]
        BY <2>1, <2>2
    <2>4. Lamports[i] \in Nat /\ g[i] \in Int /\ Fee \in Nat /\ r.pre[i] = Lamports[i]
        BY <1>1
    <2> QED
        BY <2>1, <2>3, <2>4
<1>3. diffs = {[index |-> i, account |-> NameAt(r, i), delta |-> r.post[i] - r.pre[i]] :
                  i \in {i \in DOMAIN r.pre : r.pre[i] # r.post[i]}}
    BY DEF SolDiffs
<1> HIDE DEF diffs
<1>4. \A d \in diffs : /\ d.index \in DOMAIN Accounts /\ d.delta = change(d.index)
                       /\ r.pre[d.index] # r.post[d.index]
    <2> SUFFICES ASSUME NEW d \in diffs
                 PROVE  /\ d.index \in DOMAIN Accounts /\ d.delta = change(d.index)
                        /\ r.pre[d.index] # r.post[d.index]
        OBVIOUS
    <2>1. PICK i \in DOMAIN Accounts :
              /\ r.pre[i] # r.post[i]
              /\ d = [index |-> i, account |-> NameAt(r, i), delta |-> r.post[i] - r.pre[i]]
        BY <1>1, <1>3
    <2>2. d.index = i /\ d.delta = r.post[i] - r.pre[i]
        BY <2>1
    <2> QED
        BY <1>2, <2>1, <2>2
<1>5. \A i \in DOMAIN Accounts : r.pre[i] # r.post[i] => \E d \in diffs : d.index = i
    <2> SUFFICES ASSUME NEW i \in DOMAIN Accounts, r.pre[i] # r.post[i]
                 PROVE  \E d \in diffs : d.index = i
        OBVIOUS
    <2> DEFINE d == [index |-> i, account |-> NameAt(r, i), delta |-> r.post[i] - r.pre[i]]
    <2>1. d \in diffs /\ d.index = i
        BY <1>1, <1>3
    <2> QED
        BY <2>1
<1>6. ASSUME NEW i \in DOMAIN Accounts
      PROVE  Delta(diffs, i) = change(i)
    <2>1. CASE \E d \in diffs : d.index = i
        <3> DEFINE e == CHOOSE d \in diffs : d.index = i
        <3>1. e \in diffs /\ e.index = i
            BY <2>1
        <3>2. Delta(diffs, i) = e.delta
            BY <2>1, Zenon DEF Delta
        <3> HIDE DEF e
        <3> QED
            BY <1>4, <3>1, <3>2
    <2>2. CASE ~(\E d \in diffs : d.index = i)
        <3>1. Delta(diffs, i) = 0
            BY <2>2, Zenon DEF Delta
        <3>2. r.pre[i] = r.post[i]
            BY <1>5, <2>2
        <3> QED
            BY <1>2, <3>1, <3>2
    <2> QED
        BY <2>1, <2>2
<1>7. \A i \in DOMAIN Accounts : Delta(diffs, i) + (IF i = 1 THEN Fee ELSE 0) = g[i]
    BY <1>1, <1>6
<1> QED
    BY <1>7 DEF diffs

\* The token diffs say what each account gained.
LEMMA TokenDiffsSay ==
    ASSUME NEW r, NEW g \in [DOMAIN Accounts -> Int],
           r.preTokens = Listed(Tokens), r.postTokens = Listed(After(Tokens, g))
    PROVE  \A i \in DOMAIN Accounts : Delta(TokenDiffs(r), i) = g[i]
<1> DEFINE amount(side, key) == IF key \in DOMAIN side THEN side[key] ELSE 0
           delta(key) == amount(r.postTokens, key) - amount(r.preTokens, key)
           diffs == TokenDiffs(r)
           key(i) == <<i, "mint">>
<1>1. /\ Tokens \in [DOMAIN Accounts -> Nat]
      /\ After(Tokens, g) \in [DOMAIN Accounts -> Int]
      /\ \A i \in DOMAIN Accounts : After(Tokens, g)[i] = Tokens[i] + g[i]
    BY KeysAreAccounts DEF After
<1>2. ASSUME NEW held \in [DOMAIN Accounts -> Int], NEW side, side = Listed(held)
      PROVE  /\ \A i \in DOMAIN Accounts : amount(side, key(i)) = held[i]
             /\ \A k \in DOMAIN side : \E i \in DOMAIN Accounts : k = key(i)
    <2>1. /\ DOMAIN side = {<<i, "mint">> : i \in {i \in DOMAIN held : held[i] # 0}}
          /\ \A k \in DOMAIN side : side[k] = held[k[1]]
        BY <1>2 DEF Listed
    <2>2. DOMAIN held = DOMAIN Accounts
        OBVIOUS
    <2>3. ASSUME NEW i \in DOMAIN Accounts
          PROVE  amount(side, key(i)) = held[i]
        <3>1. CASE held[i] = 0
            <4>1. key(i) \notin DOMAIN side
                BY <2>1, <3>1
            <4> QED
                BY <3>1, <4>1
        <3>2. CASE held[i] # 0
            <4>1. key(i) \in DOMAIN side /\ key(i)[1] = i
                BY <2>1, <2>2, <3>2
            <4> QED
                BY <2>1, <4>1
        <3> QED
            BY <3>1, <3>2
    <2> QED
        BY <2>1, <2>2, <2>3
<1>3. /\ \A i \in DOMAIN Accounts : /\ amount(r.preTokens, key(i)) = Tokens[i]
                                    /\ amount(r.postTokens, key(i)) = After(Tokens, g)[i]
      /\ \A k \in DOMAIN r.preTokens \cup DOMAIN r.postTokens : \E i \in DOMAIN Accounts : k = key(i)
    <2>1. Tokens \in [DOMAIN Accounts -> Int]
        BY <1>1
    <2> HIDE DEF amount, key
    <2> QED
        BY <1>1, <1>2, <2>1
<1>4. \A i \in DOMAIN Accounts : delta(key(i)) = g[i] /\ g[i] \in Int
    <2> HIDE DEF amount, key
    <2> QED
        BY <1>1, <1>3
<1>5. diffs = {[index |-> k[1], account |-> NameAt(r, k[1]), mint |-> k[2], delta |-> delta(k)] :
                  k \in {k \in DOMAIN r.preTokens \cup DOMAIN r.postTokens : delta(k) # 0}}
    BY Zenon DEF TokenDiffs
<1>6. \A i \in DOMAIN Accounts : g[i] # 0 => key(i) \in DOMAIN r.preTokens \cup DOMAIN r.postTokens
    <2> SUFFICES ASSUME NEW i \in DOMAIN Accounts, key(i) \notin DOMAIN r.preTokens \cup DOMAIN r.postTokens
                 PROVE  g[i] = 0
        OBVIOUS
    <2>1. delta(key(i)) = 0
        <3> HIDE DEF key
        <3> QED
            OBVIOUS
    <2> QED
        BY <1>4, <2>1
<1>7. \A i \in DOMAIN Accounts : key(i)[1] = i
    OBVIOUS
<1> HIDE DEF delta, diffs, key
<1>8. \A d \in diffs : d.index \in DOMAIN Accounts /\ d.delta = g[d.index] /\ g[d.index] # 0
    <2> SUFFICES ASSUME NEW d \in diffs
                 PROVE  d.index \in DOMAIN Accounts /\ d.delta = g[d.index] /\ g[d.index] # 0
        OBVIOUS
    <2>1. PICK k \in DOMAIN r.preTokens \cup DOMAIN r.postTokens :
              /\ delta(k) # 0
              /\ d = [index |-> k[1], account |-> NameAt(r, k[1]), mint |-> k[2], delta |-> delta(k)]
        BY <1>5
    <2>2. PICK i \in DOMAIN Accounts : k = key(i)
        BY <1>3
    <2>3. d.index = i /\ d.delta = delta(key(i))
        BY <1>7, <2>1, <2>2
    <2> QED
        BY <1>4, <2>1, <2>2, <2>3
<1>9. \A i \in DOMAIN Accounts : g[i] # 0 => \E d \in diffs : d.index = i
    <2> SUFFICES ASSUME NEW i \in DOMAIN Accounts, g[i] # 0
                 PROVE  \E d \in diffs : d.index = i
        OBVIOUS
    <2> DEFINE k == key(i)
               d == [index |-> k[1], account |-> NameAt(r, k[1]), mint |-> k[2], delta |-> delta(k)]
    <2>1. k \in DOMAIN r.preTokens \cup DOMAIN r.postTokens /\ delta(k) # 0 /\ k[1] = i
        BY <1>4, <1>6, <1>7
    <2> HIDE DEF k
    <2>2. d \in diffs /\ d.index = i
        BY <1>5, <2>1
    <2> QED
        BY <2>2
<1>10. ASSUME NEW i \in DOMAIN Accounts
       PROVE  Delta(diffs, i) = g[i]
    <2>1. CASE \E d \in diffs : d.index = i
        <3> DEFINE e == CHOOSE d \in diffs : d.index = i
        <3>1. e \in diffs /\ e.index = i
            BY <2>1
        <3>2. Delta(diffs, i) = e.delta
            BY <2>1, Zenon DEF Delta
        <3> HIDE DEF e
        <3> QED
            BY <1>8, <3>1, <3>2
    <2>2. CASE ~(\E d \in diffs : d.index = i)
        <3>1. Delta(diffs, i) = 0
            BY <2>2, Zenon DEF Delta
        <3> QED
            BY <1>9, <2>2, <3>1
    <2> QED
        BY <2>1, <2>2
<1> QED
    BY <1>10 DEF diffs

\* What the accounts gain by a listing.
GainsIn(listing, sol) ==
    [i \in DOMAIN Accounts |->
        Total([k \in DOMAIN listing |->
                  Moved(listing[k], Accounts[i], sol) + Also(listing[k], Accounts[i], sol)])]

AllPossible(listing) == \A i \in DOMAIN listing : Possible(listing[i])

\* The diffs of a parsed transaction are those of its balances and these, if it was
\* successful, those of before with what its instructions change, less the fee.
BalanceInv ==
    stage # "building" =>
        /\ tx.success \in BOOLEAN /\ tx.accounts = Keys
        /\ tx.sol = SolDiffs(raw) /\ tx.tokens = TokenDiffs(raw)
        /\ tx.success =>
            /\ raw.pre = Lamports
            /\ raw.post = [After(Lamports, GainsIn(raw.top \o raw.inner, TRUE)) EXCEPT ![1] = @ - Fee]
            /\ raw.preTokens = Listed(Tokens)
            /\ raw.postTokens = Listed(After(Tokens, GainsIn(raw.top \o raw.inner, FALSE)))
            /\ AllPossible(raw.top \o raw.inner)

LEMMA ParseBalances ==
    ASSUME RawType, NEW failed \in BOOLEAN, Parse(failed)
    PROVE  BalanceInv'
<1> DEFINE r == raw'
           t == tx'
           listing == raw.top \o raw.inner
           after(before, sol) ==
               [i \in DOMAIN Accounts |-> before[i] + IF failed THEN 0 ELSE Gained(Accounts[i], sol)]
<1>0. ~failed => AllPossible(listing)
    BY Zenon DEF Parse, AllPossible, Listing
<1>1. /\ raw.keys = Keys /\ raw' = Executed(failed) /\ tx' = ParseTransaction(raw', Monitored)
    BY DEF RawType, Parse
<1>2. /\ r.keys = raw.keys /\ r.top = raw.top /\ r.inner = raw.inner /\ r.failed = failed
      /\ r.pre = Lamports /\ r.post = [after(Lamports, TRUE) EXCEPT ![1] = @ - Fee]
      /\ r.preTokens = Listed(Tokens) /\ r.postTokens = Listed(after(Tokens, FALSE))
    BY <1>1 DEF Executed
<1>3. ~failed => \A before, sol : after(before, sol) = After(before, GainsIn(listing, sol))
    <2> SUFFICES ASSUME ~failed, NEW before, NEW sol
                 PROVE  after(before, sol) = After(before, GainsIn(listing, sol))
        OBVIOUS
    <2>1. \A i \in DOMAIN Accounts : GainsIn(listing, sol)[i] = Gained(Accounts[i], sol)
        BY DEF GainsIn, Gained, Listing
    <2> QED
        BY <2>1 DEF After
<1> HIDE DEF r, after
<1>4. /\ t.success = ~r.failed /\ t.accounts = r.keys
      /\ t.sol = SolDiffs(r) /\ t.tokens = TokenDiffs(r)
    <2>1. t = ParseTransaction(r, Monitored)
        BY <1>1 DEF r
    <2> HIDE DEF t
    <2> QED
        BY <2>1 DEF ParseTransaction
<1> HIDE DEF t, listing
<1>5. listing = r.top \o r.inner
    BY <1>2 DEF listing
<1>6. t.success = ~failed /\ t.accounts = Keys
    BY <1>1, <1>2, <1>4
<1>7. ~failed =>
        /\ r.pre = Lamports
        /\ r.post = [After(Lamports, GainsIn(listing, TRUE)) EXCEPT ![1] = @ - Fee]
        /\ r.preTokens = Listed(Tokens)
        /\ r.postTokens = Listed(After(Tokens, GainsIn(listing, FALSE)))
    <2> SUFFICES ASSUME ~failed
                 PROVE  /\ r.pre = Lamports
                        /\ r.post = [After(Lamports, GainsIn(listing, TRUE)) EXCEPT ![1] = @ - Fee]
                        /\ r.preTokens = Listed(Tokens)
                        /\ r.postTokens = Listed(After(Tokens, GainsIn(listing, FALSE)))
        OBVIOUS
    <2> DEFINE lamports == after(Lamports, TRUE)
               tokens == after(Tokens, FALSE)
    <2>1. lamports = After(Lamports, GainsIn(listing, TRUE)) /\ tokens = After(Tokens, GainsIn(listing, FALSE))
        BY <1>3, Zenon
    <2>2. /\ r.pre = Lamports /\ r.post = [lamports EXCEPT ![1] = @ - Fee]
          /\ r.preTokens = Listed(Tokens) /\ r.postTokens = Listed(tokens)
        BY <1>2, Zenon
    <2> HIDE DEF lamports, tokens
    <2> QED
        BY <2>1, <2>2
<1>8. /\ t.success \in BOOLEAN /\ t.accounts = Keys
      /\ t.sol = SolDiffs(r) /\ t.tokens = TokenDiffs(r)
      /\ t.success =>
            /\ r.pre = Lamports
            /\ r.post = [After(Lamports, GainsIn(r.top \o r.inner, TRUE)) EXCEPT ![1] = @ - Fee]
            /\ r.preTokens = Listed(Tokens)
            /\ r.postTokens = Listed(After(Tokens, GainsIn(r.top \o r.inner, FALSE)))
            /\ AllPossible(r.top \o r.inner)
    BY <1>0, <1>4, <1>5, <1>6, <1>7, Zenon
<1> QED
    BY <1>8, Zenon DEF BalanceInv, r, t

\* The names of the instructions are all that the worker changes.
LEMMA NamingKeepsTheRest ==
    ASSUME AnalysisInv, NEW logged \in BOOLEAN, Process(logged)
    PROVE  /\ raw' = raw /\ "instructions" \in DOMAIN tx'
           /\ tx'.success = tx.success /\ tx'.accounts = tx.accounts
           /\ tx'.sol = tx.sol /\ tx'.tokens = tx.tokens
<1>1. /\ tx = ParseTransaction(raw, Monitored) /\ raw' = raw
      /\ tx' = Named(logged)
    BY DEF AnalysisInv, ParsedType, Process
<1>2. {"instructions", "success", "accounts", "sol", "tokens"} \subseteq DOMAIN tx
    BY <1>1 DEF ParseTransaction
<1> QED
    BY <1>1, <1>2 DEF Named

LEMMA BalanceNext == AnalysisInv /\ BalanceInv /\ [AnalysisNext]_analysisVars => BalanceInv'
<1> SUFFICES ASSUME AnalysisInv, BalanceInv, [AnalysisNext]_analysisVars
             PROVE  BalanceInv'
    OBVIOUS
<1>1. CASE ListTop \/ ListInner
    <2>1. stage' = "building"
        BY <1>1, ListKeeps DEF AnalysisInv, ListTop, ListInner
    <2> QED
        BY <2>1 DEF BalanceInv
<1>2. ASSUME NEW failed \in BOOLEAN, Parse(failed)
      PROVE  BalanceInv'
    BY <1>2, ParseBalances DEF AnalysisInv
<1>3. ASSUME NEW logged \in BOOLEAN, Process(logged)
      PROVE  BalanceInv'
    <2>1. /\ raw' = raw /\ tx'.success = tx.success /\ tx'.accounts = tx.accounts
          /\ tx'.sol = tx.sol /\ tx'.tokens = tx.tokens
        BY <1>3, NamingKeepsTheRest
    <2>2. stage # "building"
        BY <1>3 DEF Process
    <2> QED
        BY <2>1, <2>2, Zenon DEF BalanceInv
<1>4. CASE UNCHANGED analysisVars
    BY <1>4, Zenon DEF analysisVars, BalanceInv
<1> QED
    BY <1>1, <1>2, <1>3, <1>4 DEF AnalysisNext

\* The balances are those of a successful transaction that executed the listing.
Settles(r, listing) ==
    /\ r.pre = Lamports
    /\ r.post = [After(Lamports, GainsIn(listing, TRUE)) EXCEPT ![1] = @ - Fee]
    /\ r.preTokens = Listed(Tokens)
    /\ r.postTokens = Listed(After(Tokens, GainsIn(listing, FALSE)))
    /\ AllPossible(listing)

\* Net, of the diffs of r.
NetOf(r, i, sol) ==
    IF sol THEN Delta(SolDiffs(r), i) + (IF i = 1 THEN Fee ELSE 0) ELSE Delta(TokenDiffs(r), i)

\* What a listing changes for account a other than by moving it.
Rest(listing, a, sol) == Total([k \in DOMAIN listing |-> Also(listing[k], a, sol)])

\* ByTransfers, of the diffs of r.
Settled(r, listing, i, sol) == NetOf(r, i, sol) - Rest(listing, Accounts[i], sol)

\* What each instruction changes for account a.
Changes(listing, a, sol) ==
    [k \in DOMAIN listing |-> Moved(listing[k], a, sol) + Also(listing[k], a, sol)]

\* What is moved is what is gained less the rest.
LEMMA MovedAndMore ==
    ASSUME NEW t, NEW listing \in Seq(Instruction), Carries(t.instructions, listing),
           NEW a, NEW sol \in BOOLEAN, NEW all, all = Changes(listing, a, sol)
    PROVE  /\ Total(all) \in Int
           /\ Total([k \in DOMAIN listing |-> Moved(listing[k], a, sol)])
                  = Total(all) - Rest(listing, a, sol)
<1> DEFINE n == Len(listing)
           both == [k \in DOMAIN listing |-> Moved(listing[k], a, sol) + Also(listing[k], a, sol)]
           moved == [k \in DOMAIN listing |-> Moved(listing[k], a, sol)]
           also == [k \in DOMAIN listing |-> Also(listing[k], a, sol)]
<1>1. n \in Nat /\ DOMAIN listing = 1 .. n
    OBVIOUS
<1>2. ASSUME NEW k \in 1 .. n
      PROVE  moved[k] \in Int /\ also[k] \in Int /\ both[k] = moved[k] + also[k]
    <2>1. Moved(listing[k], a, sol) \in Int
        BY LegsSayWhatMoves
    <2> DEFINE ix == listing[k]
    <2>2. ix.also \in SUBSET [sol : BOOLEAN, account : STRING, by : Int]
        <3>1. ix \in Instruction
            BY <1>1
        <3> HIDE DEF ix
        <3> QED
            BY <3>1 DEF Instruction
    <2> HIDE DEF ix
    <2>3. Also(ix, a, sol) \in Int
        <3>1. CASE \E c \in ix.also : c.sol = sol /\ c.account = a
            <4> DEFINE e == CHOOSE c \in ix.also : c.sol = sol /\ c.account = a
            <4>1. e \in ix.also
                BY <3>1
            <4>2. Also(ix, a, sol) = e.by
                BY <3>1, Zenon DEF Also
            <4> HIDE DEF e
            <4> QED
                BY <2>2, <4>1, <4>2
        <3>2. CASE ~(\E c \in ix.also : c.sol = sol /\ c.account = a)
            <4>1. Also(ix, a, sol) = 0
                BY <3>2, Zenon DEF Also
            <4> QED
                BY <4>1
        <3> QED
            BY <3>1, <3>2
    <2>4. /\ moved[k] = Moved(listing[k], a, sol) /\ also[k] = Also(listing[k], a, sol)
          /\ both[k] = Moved(listing[k], a, sol) + Also(listing[k], a, sol)
        BY <1>1
    <2> HIDE DEF moved, also, both
    <2> QED
        BY <2>1, <2>3, <2>4 DEF ix
<1>3. moved \in [1 .. n -> Int] /\ also \in [1 .. n -> Int] /\ both \in [1 .. n -> Int]
    <2>1. /\ moved = [k \in 1 .. n |-> moved[k]] /\ also = [k \in 1 .. n |-> also[k]]
          /\ both = [k \in 1 .. n |-> both[k]]
        BY <1>1, Zenon
    <2>2. ASSUME NEW k \in 1 .. n
          PROVE  moved[k] \in Int /\ also[k] \in Int /\ both[k] \in Int
        <3>1. moved[k] \in Int /\ also[k] \in Int /\ both[k] = moved[k] + also[k]
            BY <1>2, Zenon
        <3> HIDE DEF moved, also, both, n
        <3> QED
            BY <3>1
    <2> HIDE DEF moved, also, both
    <2> QED
        BY <2>1, <2>2
<1> HIDE DEF moved, also, both, n
<1>4. \A k \in 1 .. n : moved[k] = both[k] - also[k]
    BY <1>2, <1>3
<1>5. Total(moved) = Total(both) - Total(also) /\ Total(both) \in Int
    <2>1. Total(moved) = Total(both) - Total(also)
        <3>1. n \in Nat
            BY <1>1
        <3> QED
            BY <1>3, <1>4, <3>1, TotalOfDifferences
    <2>2. Total(both) \in Int
        BY <1>1, <1>3, TotalOfNumbers
    <2> QED
        BY <2>1, <2>2
<1> QED
    BY <1>5, Zenon DEF Changes, Rest, moved, also, both

\* What the legs say moves is what the balances say did, the rest apart.
LEMMA LegsAndBalances ==
    ASSUME NEW t, NEW listing \in Seq(Instruction), Carries(t.instructions, listing),
           NEW legs, legs = Legs(t), NEW r, Settles(r, listing)
    PROVE  \A i \in DOMAIN Accounts : \A sol \in BOOLEAN :
               /\ Total([k \in DOMAIN legs |-> LegFlow(legs[k], Accounts[i], sol)])
                      = Settled(r, listing, i, sol)
               /\ legs = << >> => Settled(r, listing, i, sol) = 0
<1> DEFINE sum(i, sol) == Total([k \in DOMAIN legs |-> LegFlow(legs[k], Accounts[i], sol)])
           gain(i, sol) == Total([k \in DOMAIN listing |->
                               Moved(listing[k], Accounts[i], sol) + Also(listing[k], Accounts[i], sol)])
           lamports == GainsIn(listing, TRUE)
           tokens == GainsIn(listing, FALSE)
<1>1. ASSUME NEW i \in DOMAIN Accounts, NEW sol \in BOOLEAN
      PROVE  /\ gain(i, sol) \in Int
             /\ sum(i, sol) = gain(i, sol) - Rest(listing, Accounts[i], sol)
             /\ legs = << >> => gain(i, sol) - Rest(listing, Accounts[i], sol) = 0
    <2> DEFINE a == Accounts[i]
               moved == Total([k \in DOMAIN listing |-> Moved(listing[k], a, sol)])
               both == [k \in DOMAIN listing |-> Moved(listing[k], a, sol) + Also(listing[k], a, sol)]
    <2>0. gain(i, sol) = Total(both)
        BY Zenon
    <2>1. sum(i, sol) = moved /\ (legs = << >> => moved = 0)
        <3> HIDE DEF a, sum, gain, lamports, tokens, moved, both
        <3>1. AddsUp(legs, listing, a, sol)
            BY LegsAddUp, Zenon
        <3> QED
            BY <3>1, Zenon DEF AddsUp, a, sum, moved
    <2>2. Total(both) \in Int /\ moved = Total(both) - Rest(listing, a, sol)
        <3> HIDE DEF a, sum, gain, lamports, tokens
        <3> QED
            BY MovedAndMore, Zenon DEF Changes
    <2> HIDE DEF sum, gain, moved, both
    <2> QED
        BY <2>0, <2>1, <2>2
<1>2. /\ lamports = [i \in DOMAIN Accounts |-> gain(i, TRUE)]
      /\ tokens = [i \in DOMAIN Accounts |-> gain(i, FALSE)]
    BY Zenon DEF GainsIn
<1> HIDE DEF sum, gain, lamports, tokens
<1>3. lamports \in [DOMAIN Accounts -> Int] /\ tokens \in [DOMAIN Accounts -> Int]
    BY <1>1, <1>2
<1>4. /\ r.pre = Lamports /\ r.post = [After(Lamports, lamports) EXCEPT ![1] = @ - Fee]
      /\ r.preTokens = Listed(Tokens) /\ r.postTokens = Listed(After(Tokens, tokens))
    BY Zenon DEF Settles, lamports, tokens
<1>5. \A i \in DOMAIN Accounts :
          Delta(SolDiffs(r), i) + (IF i = 1 THEN Fee ELSE 0) = lamports[i]
    BY <1>3, <1>4, SolDiffsSay
<1>6. \A i \in DOMAIN Accounts : Delta(TokenDiffs(r), i) = tokens[i]
    <2>1. tokens \in [DOMAIN Accounts -> Int]
        BY <1>3
    <2>2. r.preTokens = Listed(Tokens) /\ r.postTokens = Listed(After(Tokens, tokens))
        BY <1>4
    <2> QED
        BY <2>1, <2>2, TokenDiffsSay, Zenon
<1>7. ASSUME NEW i \in DOMAIN Accounts, NEW sol \in BOOLEAN
      PROVE  NetOf(r, i, sol) = gain(i, sol)
    <2>1. CASE sol = TRUE
        <3>1. NetOf(r, i, sol) = lamports[i]
            BY <1>5, <2>1 DEF NetOf
        <3> QED
            BY <1>2, <2>1, <3>1
    <2>2. CASE sol = FALSE
        <3>1. NetOf(r, i, sol) = tokens[i]
            BY <1>6, <2>2 DEF NetOf
        <3> QED
            BY <1>2, <2>2, <3>1
    <2> QED
        BY <2>1, <2>2
<1>8. \A i \in DOMAIN Accounts : \A sol \in BOOLEAN :
          sum(i, sol) = Settled(r, listing, i, sol) /\ (legs = << >> => Settled(r, listing, i, sol) = 0)
    BY <1>1, <1>7 DEF Settled
<1> QED
    BY <1>8 DEF sum

\* The tokens that a successful transaction moves never reach or leave the fee payer.
LEMMA OnlyLamportsReach ==
    ASSUME NEW t, NEW listing \in Seq(Instruction), Carries(t.instructions, listing),
           AllPossible(listing), NEW i \in 1 .. Len(listing), Makes(t.instructions[i]),
           IsLeg(Leg(t, i), Keys[1]), Leg(t, i).direction \in {"Inflow", "Outflow"}
    PROVE  Leg(t, i).sol
<1> DEFINE l == Leg(t, i)
<1>1. PICK m \in listing[i].moves : IsMove(l, m)
    <2>1. TRUE \in BOOLEAN
        OBVIOUS
    <2> QED
        BY <2>1, LegsSayWhatMoves
<1>2. i \in DOMAIN listing
    OBVIOUS
<1>3. ~m.sol => {m.from, m.to} \subseteq TokenAccounts
    BY <1>1, <1>2 DEF AllPossible, Possible
<1> HIDE DEF l
<1>4. l.sol \in BOOLEAN /\ (l.source = Keys[1] \/ l.destination = Keys[1])
    BY DEF IsLeg, Direction, l
<1>5. l.sol
    BY <1>1, <1>3, <1>4, FeePayerHoldsNoTokens DEF IsMove
<1> QED
    BY <1>5 DEF l

\* The category, against the balances.
True(category, r, listing) ==
    /\ category \in {"bridge_in", "privacy_withdraw"} => Settled(r, listing, 1, TRUE) > 0
    /\ category = "bridge_out" => Settled(r, listing, 1, TRUE) < 0
    /\ category = "privacy_deposit" => Settled(r, listing, 1, TRUE) <= 0
    /\ category \notin OfTokens
    /\ category = "fee_only" =>
        \A i \in DOMAIN Accounts : \A sol \in BOOLEAN : Settled(r, listing, i, sol) = 0

LEMMA CategoriesAreTrue ==
    ASSUME NEW t, NEW listing \in Seq(Instruction), Carries(t.instructions, listing),
           NEW r, Settles(r, listing), t.accounts = Keys, t.success \in BOOLEAN,
           NEW type, NEW category, category = Outcome(t, type).category
    PROVE  True(category, r, listing)
<1> DEFINE f == Features(t, type)
           focal == Keys[1]
           S == {i \in 1 .. Len(listing) : Makes(t.instructions[i])}
           n == Cardinality(S)
           lamports == Total([k \in DOMAIN f.legs |-> LegFlow(f.legs[k], focal, TRUE)])
<1>1. f.legs = Legs(t) /\ Focal(t) = focal
    BY DEF Features, Focal
<1>2. Means(t, f, category)
    BY CategoryMeans
<1> DEFINE legs == f.legs
<1>3. /\ n \in Nat /\ DOMAIN legs = 1 .. n
      /\ \A k \in 1 .. n : /\ IsLeg(legs[k], focal) /\ InOrder(S)[k] \in S
                           /\ legs[k] = Leg(t, InOrder(S)[k])
    <2> HIDE DEF f, focal, S
    <2>1. /\ IsFiniteSet(S) /\ Enumerates(InOrder(S), S)
          /\ \A k, l \in 1 .. Cardinality(S) : k < l => InOrder(S)[k] < InOrder(S)[l]
          /\ DOMAIN legs = 1 .. Cardinality(S) /\ Len(legs) = Cardinality(S)
          /\ \A k \in DOMAIN legs : legs[k] = Leg(t, InOrder(S)[k]) /\ IsLeg(legs[k], Focal(t))
        BY <1>1, LegsAreInOrder DEF S
    <2>2. \A k \in 1 .. n : InOrder(S)[k] \in S
        BY <2>1 DEF Enumerates
    <2> QED
        BY <1>1, <2>1, <2>2, FS_CardinalityType
<1> HIDE DEF f, n
<1>4. \A k \in 1 .. n : legs[k].direction \in {"Inflow", "Outflow"} => legs[k].sol
    <2> SUFFICES ASSUME NEW k \in 1 .. n, legs[k].direction \in {"Inflow", "Outflow"}
                 PROVE  legs[k].sol
        OBVIOUS
    <2> DEFINE i == InOrder(S)[k]
    <2>1. i \in S /\ IsLeg(legs[k], Keys[1]) /\ legs[k] = Leg(t, i)
        BY <1>3
    <2>2. i \in 1 .. Len(listing) /\ Makes(t.instructions[i])
        BY <2>1
    <2>3. AllPossible(listing)
        BY DEF Settles
    <2> HIDE DEF i, legs, S
    <2>4. IsLeg(Leg(t, i), Keys[1]) /\ Leg(t, i).direction \in {"Inflow", "Outflow"}
        BY <2>1
    <2> QED
        BY <2>1, <2>2, <2>3, <2>4, OnlyLamportsReach
<1>5. In(f) \in Int /\ Out(f) \in Int /\ In(f) - Out(f) = lamports /\ SolIn(f) = In(f)
    <2>1. LegsOfLamports(f.legs, n, focal)
        <3> HIDE DEF focal
        <3> QED
            BY <1>3, <1>4, Zenon DEF LegsOfLamports
    <2> HIDE DEF focal, lamports
    <2> QED
        BY <1>3, <2>1, InAndOut, Zenon DEF lamports
<1>6. ~NftMoves(f)
    <2>1. \A k \in 1 .. n : legs[k].nft => ~legs[k].sol
        BY <1>3 DEF IsLeg
    <2> QED
        BY <1>3, <1>4, <2>1 DEF NftMoves, Has
<1>7. \A i \in DOMAIN Accounts : \A sol \in BOOLEAN :
          /\ Total([k \in DOMAIN legs |-> LegFlow(legs[k], Accounts[i], sol)]) = Settled(r, listing, i, sol)
          /\ legs = << >> => Settled(r, listing, i, sol) = 0
    <2> HIDE DEF legs
    <2> QED
        BY <1>1, LegsAndBalances DEF legs
<1>8. 1 \in DOMAIN Accounts /\ Accounts[1] = focal
    BY KeysAreAccounts
<1>9. lamports = Settled(r, listing, 1, TRUE)
    <2> HIDE DEF focal
    <2>1. Total([k \in DOMAIN legs |-> LegFlow(legs[k], focal, TRUE)]) = Settled(r, listing, 1, TRUE)
        BY <1>7, <1>8
    <2> QED
        BY <2>1, Zenon
<1> HIDE DEF lamports, legs, focal
<1>10. /\ category = "bridge_in" => In(f) > Out(f)
       /\ category = "bridge_out" => In(f) # Out(f) /\ ~(In(f) > Out(f))
       /\ category = "privacy_withdraw" => ~(Out(f) >= In(f))
       /\ category = "privacy_deposit" => Out(f) >= In(f)
       /\ category = "airdrop" => In(f) > SolIn(f)
       /\ category \in OfTokens \ {"airdrop"} => NftMoves(f)
       /\ category = "fee_only" => f.legs = << >>
    BY <1>2, Zenon DEF Means
<1>11. category \in {"bridge_in", "privacy_withdraw"} => lamports > 0
    BY <1>5, <1>10
<1>12. category = "bridge_out" => lamports < 0
    BY <1>5, <1>10
<1>13. category = "privacy_deposit" => lamports <= 0
    BY <1>5, <1>10
<1>14. category \notin OfTokens
    BY <1>5, <1>6, <1>10
<1>15. category = "fee_only" =>
         \A i \in DOMAIN Accounts : \A sol \in BOOLEAN : Settled(r, listing, i, sol) = 0
    BY <1>7, <1>10 DEF legs
<1> QED
    BY <1>9, <1>11, <1>12, <1>13, <1>14, <1>15 DEF True

\* The legs and the category that the worker keeps agree with the balances.
LEMMA BalancesStep ==
    ASSUME AnalysisInv, RawMoves, BalanceInv, NEW logged \in BOOLEAN, Process(logged)
    PROVE  LegsExplainBalances' /\ CategoryMatchesTheBalances'
<1> DEFINE t == tx'
           list == tx'.instructions
           conv == ToClassification(list)
           t2 == [tx' EXCEPT !.instructions = conv]
           type == InstructionType(list)
           answer == Outcome(t2, type)
           listing == Listing
           r == raw
<1>1. /\ result'.legs = answer.legs /\ result'.category = answer.category /\ stage # "building"
    BY DEF Process
<1>2. /\ raw' = raw /\ "instructions" \in DOMAIN tx'
      /\ tx'.success = tx.success /\ tx'.accounts = tx.accounts
      /\ tx'.sol = tx.sol /\ tx'.tokens = tx.tokens
    BY NamingKeepsTheRest
<1>3. /\ tx'.success \in BOOLEAN /\ tx'.accounts = Keys
      /\ tx'.sol = SolDiffs(r) /\ tx'.tokens = TokenDiffs(r)
    BY <1>1, <1>2, Zenon DEF BalanceInv
<1>4. tx'.success => Settles(r, listing)
    BY <1>1, <1>2, Zenon DEF BalanceInv, Settles, Listing
<1>5. /\ AllParsed(list)
      /\ AllInKeys => listing \in Seq(Instruction) /\ Lists(list, listing)
    BY WorkersList
<1>6. t2.instructions = conv /\ t2.success = t.success /\ t2.accounts = t.accounts
    BY <1>2
<1>7. answer.legs = Legs(t2)
    BY DEF Outcome, Features
<1>8. Means(t2, Features(t2, type), answer.category)
    <2> HIDE DEF t2
    <2> QED
        BY <1>3, <1>6, CategoryMeans
<1>9. AllInKeys' = AllInKeys
    BY <1>2, Zenon DEF AllInKeys, Listing
<1> HIDE DEF t2, conv, answer, type, listing
<1>10. ASSUME tx'.success, AllInKeys
       PROVE  /\ \A i \in DOMAIN Accounts : \A sol \in BOOLEAN :
                    Total([k \in DOMAIN result'.legs |-> LegFlow(result'.legs[k], Accounts[i], sol)])
                        = Settled(r, listing, i, sol)
              /\ True(result'.category, r, listing)
    <2>1. listing \in Seq(Instruction) /\ Carries(t2.instructions, listing)
        BY <1>5, <1>6, <1>10, ConversionCarries DEF conv
    <2>2. Settles(r, listing)
        BY <1>4, <1>10
    <2> DEFINE legs == result'.legs
               category == result'.category
    <2>3. legs = Legs(t2) /\ category = Outcome(t2, type).category
        BY <1>1, <1>7 DEF answer
    <2>4. t2.accounts = Keys /\ t2.success \in BOOLEAN
        BY <1>3, <1>6
    <2> HIDE DEF legs, category, r
    <2>5. True(category, r, listing)
        BY <2>1, <2>2, <2>3, <2>4, CategoriesAreTrue
    <2>6. \A i \in DOMAIN Accounts : \A sol \in BOOLEAN :
              Total([k \in DOMAIN legs |-> LegFlow(legs[k], Accounts[i], sol)])
                  = Settled(r, listing, i, sol)
        BY <2>1, <2>2, <2>3, LegsAndBalances
    <2> QED
        BY <2>5, <2>6 DEF legs, category
<1>11. ASSUME NEW i \in DOMAIN Keys, NEW sol
       PROVE  ByTransfers(i, sol)' = Settled(r, listing, i, sol) /\ i \in DOMAIN Accounts /\ Accounts[i] = Keys[i]
    <2>1. i \in DOMAIN Accounts /\ Accounts[i] = Keys[i]
        BY KeysAreAccounts
    <2>2. Net(i, sol)' = NetOf(r, i, sol)
        BY <1>3 DEF Net, NetOf
    <2>3. Unseen(i, sol)' = Unseen(i, sol)
        BY <1>2, Zenon DEF Unseen, Listing
    <2>4. Unseen(i, sol) = Rest(listing, Accounts[i], sol)
        BY <2>1, Zenon DEF Unseen, Rest, listing
    <2> QED
        BY <2>1, <2>2, <2>3, <2>4, Zenon DEF ByTransfers, Settled
<1>12. LegsExplainBalances'
    <2> SUFFICES ASSUME tx'.success, AllInKeys, NEW i \in DOMAIN Keys, NEW sol \in BOOLEAN
                 PROVE  Total([k \in DOMAIN result'.legs |->
                                  IF result'.legs[k].sol = sol
                                  THEN Flow(result'.legs[k].source, result'.legs[k].destination,
                                            result'.legs[k].amount, Keys[i])
                                  ELSE 0])
                          = ByTransfers(i, sol)'
        BY <1>9, Zenon DEF LegsExplainBalances
    <2>1. ByTransfers(i, sol)' = Settled(r, listing, i, sol) /\ i \in DOMAIN Accounts /\ Accounts[i] = Keys[i]
        BY <1>11
    <2>2. Total([k \in DOMAIN result'.legs |-> LegFlow(result'.legs[k], Keys[i], sol)])
              = Settled(r, listing, i, sol)
        BY <1>10, <2>1
    <2> QED
        BY <2>1, <2>2, Zenon DEF LegFlow
<1>13. CategoryMatchesTheBalances'
    <2>1. /\ ~tx'.success => result'.category \in {"security_authority_change", "failed_transaction"}
          /\ tx'.success => result'.category # "failed_transaction"
        BY <1>1, <1>6, <1>8, Zenon DEF Means
    <2>2. ASSUME tx'.success, AllInKeys
          PROVE  /\ result'.category \in {"bridge_in", "privacy_withdraw"} => ByTransfers(1, TRUE)' > 0
                 /\ result'.category = "bridge_out" => ByTransfers(1, TRUE)' < 0
                 /\ result'.category = "privacy_deposit" => ByTransfers(1, TRUE)' <= 0
                 /\ result'.category \notin OfTokens
                 /\ result'.category = "fee_only" =>
                      \A i \in DOMAIN Keys : \A sol \in BOOLEAN : ByTransfers(i, sol)' = 0
        <3>1. True(result'.category, r, listing)
            BY <1>10, <2>2
        <3>2. ByTransfers(1, TRUE)' = Settled(r, listing, 1, TRUE)
            <4>1. 1 \in DOMAIN Keys
                BY KeysAreAccounts
            <4> QED
                BY <1>11, <4>1
        <3>3. ASSUME result'.category = "fee_only", NEW i \in DOMAIN Keys, NEW sol \in BOOLEAN
              PROVE  ByTransfers(i, sol)' = 0
            <4>1. ByTransfers(i, sol)' = Settled(r, listing, i, sol) /\ i \in DOMAIN Accounts
                BY <1>11
            <4>2. Settled(r, listing, i, sol) = 0
                BY <3>1, <3>3, <4>1, Zenon DEF True
            <4> QED
                BY <4>1, <4>2
        <3> QED
            BY <3>1, <3>2, <3>3, Zenon DEF True
    <2> QED
        BY <1>9, <2>1, <2>2, Zenon DEF CategoryMatchesTheBalances
<1> QED
    BY <1>12, <1>13

LEMMA BalanceStart == AnalysisInit => BalanceInv
    BY DEF AnalysisInit, BalanceInv

\* The inductive invariant for what the legs and the category say of the balances.
BalancesInv ==
    /\ AnalysisInv /\ RawMoves /\ BalanceInv
    /\ LegsExplainBalances /\ CategoryMatchesTheBalances

LEMMA BalancesNext == BalancesInv /\ [AnalysisNext]_analysisVars => BalancesInv'
<1> SUFFICES ASSUME BalancesInv, [AnalysisNext]_analysisVars
             PROVE  BalancesInv'
    OBVIOUS
<1>1. AnalysisInv' /\ BalanceInv'
    BY AnalysisStep, BalanceNext DEF BalancesInv
<1>2. CASE ListTop \/ ListInner
    <2>1. RawMoves' /\ stage' = "building"
        BY <1>2, ListMoves, ListKeeps DEF BalancesInv, AnalysisInv, ListTop, ListInner
    <2> QED
        BY <1>1, <2>1 DEF BalancesInv, LegsExplainBalances, CategoryMatchesTheBalances, Processed
<1>3. ASSUME NEW failed \in BOOLEAN, Parse(failed)
      PROVE  BalancesInv'
    <2>1. raw'.top = raw.top /\ raw'.inner = raw.inner /\ stage' = "parsed"
        BY <1>3 DEF Parse, Executed
    <2>2. RawMoves'
        BY <2>1 DEF BalancesInv, RawMoves
    <2> QED
        BY <1>1, <2>1, <2>2 DEF BalancesInv, LegsExplainBalances, CategoryMatchesTheBalances, Processed
<1>4. ASSUME NEW logged \in BOOLEAN, Process(logged)
      PROVE  BalancesInv'
    <2>1. raw' = raw
        BY <1>4 DEF Process
    <2>2. RawMoves'
        BY <2>1 DEF BalancesInv, RawMoves
    <2>3. LegsExplainBalances' /\ CategoryMatchesTheBalances'
        BY <1>4, BalancesStep DEF BalancesInv
    <2> QED
        BY <1>1, <2>2, <2>3 DEF BalancesInv
<1>5. CASE UNCHANGED analysisVars
    <2>1. raw' = raw /\ stage' = stage /\ tx' = tx /\ result' = result
        BY <1>5 DEF analysisVars
    <2>2. RawMoves'
        BY <2>1 DEF BalancesInv, RawMoves
    <2>3. AllInKeys' = AllInKeys /\ (Processed' <=> Processed)
        BY <2>1, Zenon DEF AllInKeys, Listing, Processed
    <2>4. \A i, sol : ByTransfers(i, sol)' = ByTransfers(i, sol)
        BY <2>1, Zenon DEF Net, ByTransfers, Unseen, Listing
    <2>5. LegsExplainBalances'
        BY <2>1, <2>3, <2>4, Zenon DEF BalancesInv, LegsExplainBalances
    <2>6. CategoryMatchesTheBalances'
        BY <2>1, <2>3, <2>4, Zenon DEF BalancesInv, CategoryMatchesTheBalances
    <2> QED
        BY <1>1, <2>2, <2>5, <2>6 DEF BalancesInv
<1> QED
    BY <1>2, <1>3, <1>4, <1>5 DEF AnalysisNext

LEMMA BalancesStart == AnalysisInit => BalancesInv
    BY AnalysisStart, LargeStart, BalanceStart
       DEF AnalysisInit, BalancesInv, LargeInv, LegsExplainBalances, CategoryMatchesTheBalances,
           Processed

\* The legs of a successful transaction that names only its keys, read from the data of
\* its instructions, move for every account what its balances changed by, the fee apart,
\* and what instructions changed otherwise: for any instructions, whose transfers move
\* what their data says, and whatever else they do (derive_features after
\* parse_transaction).
THEOREM LegsMatchBalances == AnalysisSpec => []LegsExplainBalances
<1>1. BalancesInv => LegsExplainBalances
    BY DEF BalancesInv
<1> QED
    BY <1>1, BalancesStart, BalancesNext, PTL DEF AnalysisSpec

\* The category of a transaction fits its balances as far as transfers moved them: a
\* failed one has none that says something moved, what is in for the fee payer is a gain
\* of lamports, what is out a loss, no category that needs its tokens is ever given, and
\* where it is fee_only no transfer moved anything, whichever classifiers match as well
\* and whatever other instructions change (ClassificationService::classify after
\* parse_transaction).
THEOREM CategoriesMatchBalances == AnalysisSpec => []CategoryMatchesTheBalances
<1>1. BalancesInv => CategoryMatchesTheBalances
    BY DEF BalancesInv
<1> QED
    BY <1>1, BalancesStart, BalancesNext, PTL DEF AnalysisSpec

=============================================================================
