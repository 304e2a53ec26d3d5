-------------------------- MODULE CorrelationProofs --------------------------
(***************************************************************************)
(* Proofs about Correlation for every set of signers and programs, every   *)
(* threshold and window, and every order of timestamps.                    *)
(***************************************************************************)
EXTENDS Correlation, SequenceTheorems, FiniteSetTheorems, WellFoundedInduction, TLAPS

-----------------------------------------------------------------------------
(* The operators on a queue of touches *)

LEMMA MinOfNats ==
    ASSUME NEW I \in SUBSET Nat, I # {}
    PROVE  Min(I) \in I /\ \A y \in I : Min(I) <= y
<1> DEFINE R == OpToRel(<, Nat)
<1>1. \E x \in I : \A y \in I : ~(<<y, x>> \in R)
    BY NatLessThanWellFounded, WFMin
<1>2. \A x, y \in Nat : y < x => <<y, x>> \in R
    BY DEF OpToRel
<1> HIDE DEF R
<1>3. PICK x \in I : \A y \in I : ~(<<y, x>> \in R)
    BY <1>1
<1>4. ASSUME NEW y \in I
      PROVE  x <= y
    <2>1. x \in Nat /\ y \in Nat
        OBVIOUS
    <2>2. ~(y < x)
        BY <1>2, <1>3, <2>1
    <2> QED
        BY <2>1, <2>2
<1>5. \E z \in I : \A y \in I : z <= y
    BY <1>4
<1> QED
    BY <1>5 DEF Min

\* Evict drops a prefix of touches that are all older than the window, and
\* stops at the first that is not.
LEMMA EvictDropsAPrefix ==
    ASSUME NEW q \in Seq(Touch), NEW now \in Nat
    PROVE  /\ Evict(q, now) \in Seq(Touch)
           /\ \E d \in 0 .. Len(q) :
               /\ Len(Evict(q, now)) = Len(q) - d
               /\ \A i \in 1 .. Len(q) - d : Evict(q, now)[i] = q[i + d]
               /\ \A i \in 1 .. d : q[i].at < now - Window
<1> DEFINE fresh == {i \in 1 .. Len(q) : q[i].at >= now - Window}
<1>0. fresh \in SUBSET Nat
    OBVIOUS
<1>1. Evict(q, now) = IF fresh = {} THEN << >>
                      ELSE SubSeq(q, Min(fresh), Len(q))
    <2>1. SelectInSeq(q, LAMBDA t : t.at >= now - Window)
            = IF fresh # {} THEN Min(fresh) ELSE 0
        BY Zenon DEF SelectInSeq
    <2>2. fresh # {} => Min(fresh) \in fresh
        BY <1>0, MinOfNats, Zenon
    <2>3. Min(fresh) \in fresh => Min(fresh) # 0
        OBVIOUS
    <2> QED
        BY <2>1, <2>2, <2>3, Zenon DEF Evict
<1>2. \A i \in 1 .. Len(q) : q[i] \in Touch /\ q[i].at \in Nat
    <2>1. \A i \in 1 .. Len(q) : q[i] \in Touch
        BY ElementOfSeq
    <2> QED
        BY <2>1 DEF Touch
<1>3. CASE fresh = {}
    <2>1. \A i \in 1 .. Len(q) : q[i].at < now - Window
        BY <1>2, <1>3, ParametersAreNat
    <2>2. Evict(q, now) = << >>
        BY <1>1, <1>3
    <2> QED
        BY <2>1, <2>2
<1>4. CASE fresh # {}
    <2> DEFINE m == Min(fresh)
    <2>1. m \in fresh /\ \A i \in fresh : m <= i
        BY <1>0, <1>4, MinOfNats, Zenon
    <2> HIDE DEF m
    <2>2. m \in 1 .. Len(q) /\ Len(q) \in Nat
        BY <2>1
    <2>3. Evict(q, now) = SubSeq(q, m, Len(q))
        BY <1>1, <1>4 DEF m
    <2>4. /\ SubSeq(q, m, Len(q)) \in Seq(Touch)
          /\ Len(SubSeq(q, m, Len(q))) = Len(q) - m + 1
          /\ \A i \in 1 .. Len(q) - m + 1 : SubSeq(q, m, Len(q))[i] = q[m + i - 1]
        <3>1. m \in Int /\ Len(q) \in Int /\ m <= Len(q)
            BY <2>2
        <3>2. \A i \in m .. Len(q) : q[i] \in Touch
            BY <1>2, <2>2
        <3> HIDE DEF fresh
        <3> QED
            BY <3>1, <3>2, SubSeqProperties
    <2>5. \A i \in 1 .. m - 1 : q[i].at < now - Window
        BY <1>2, <2>1, <2>2, ParametersAreNat
    <2>6. m - 1 \in 0 .. Len(q) /\ Len(q) - m + 1 = Len(q) - (m - 1)
        BY <2>2
    <2>7. \A i \in 1 .. Len(q) - (m - 1) : Evict(q, now)[i] = q[i + (m - 1)]
        BY <2>2, <2>3, <2>4
    <2> QED
        BY <2>3, <2>4, <2>5, <2>6, <2>7
<1> QED
    BY <1>3, <1>4

\* No program twice in a queue.
Once(q) == \A i, j \in DOMAIN q : q[i].program = q[j].program => i = j

LEMMA EvictKeepsOnce ==
    ASSUME NEW q \in Seq(Touch), NEW now \in Nat, Once(q)
    PROVE  Once(Evict(q, now))
<1>1. PICK d \in 0 .. Len(q) :
        /\ Len(Evict(q, now)) = Len(q) - d
        /\ \A i \in 1 .. Len(q) - d : Evict(q, now)[i] = q[i + d]
    BY EvictDropsAPrefix
<1>2. DOMAIN q = 1 .. Len(q) /\ DOMAIN Evict(q, now) = 1 .. Len(q) - d
    BY <1>1, EvictDropsAPrefix, LenProperties
<1> SUFFICES ASSUME NEW i \in 1 .. Len(q) - d, NEW j \in 1 .. Len(q) - d,
                    Evict(q, now)[i].program = Evict(q, now)[j].program
             PROVE  i = j
    BY <1>2 DEF Once
<1>3. q[i + d].program = q[j + d].program
    BY <1>1
<1>4. i + d \in DOMAIN q /\ j + d \in DOMAIN q
    BY <1>2
<1> QED
    BY <1>3, <1>4 DEF Once

\* What Evict keeps: every touch that is still inside the window.
LEMMA EvictKeepsFresh ==
    ASSUME NEW q \in Seq(Touch), NEW now \in Nat, NEW i \in DOMAIN q, q[i].at >= now - Window
    PROVE  \E j \in DOMAIN Evict(q, now) : Evict(q, now)[j] = q[i]
<1>1. PICK d \in 0 .. Len(q) :
        /\ Len(Evict(q, now)) = Len(q) - d
        /\ \A j \in 1 .. Len(q) - d : Evict(q, now)[j] = q[j + d]
        /\ \A j \in 1 .. d : q[j].at < now - Window
    BY EvictDropsAPrefix
<1>2. DOMAIN q = 1 .. Len(q) /\ DOMAIN Evict(q, now) = 1 .. Len(q) - d
    BY <1>1, EvictDropsAPrefix, LenProperties
<1>3. q[i].at \in Nat
    <2>1. q[i] \in Touch
        BY <1>2, ElementOfSeq
    <2> QED
        BY <2>1 DEF Touch
<1>4. i - d \in 1 .. Len(q) - d
    BY <1>1, <1>2, <1>3, ParametersAreNat
<1>5. Evict(q, now)[i - d] = q[i]
    BY <1>1, <1>2, <1>4
<1> QED
    BY <1>2, <1>4, <1>5

\* Record puts the program in the queue with the new time, once, and leaves
\* the other programs as they are.
LEMMA RecordRefreshes ==
    ASSUME NEW q \in Seq(Touch), NEW p \in Programs, NEW at \in Nat
    PROVE  /\ Record(q, p, at) \in Seq(Touch)
           /\ Once(q) => Once(Record(q, p, at))
           /\ \E i \in DOMAIN Record(q, p, at) :
                 Record(q, p, at)[i] = [program |-> p, at |-> at]
           /\ \A i \in DOMAIN q : q[i].program # p =>
                 \E j \in DOMAIN Record(q, p, at) : Record(q, p, at)[j] = q[i]
<1> DEFINE known == {i \in 1 .. Len(q) : q[i].program = p}
           t == [program |-> p, at |-> at]
           r == Record(q, p, at)
<1>0. known \in SUBSET Nat
    OBVIOUS
<1>1. r = IF known # {} THEN [q EXCEPT ![Min(known)] = t] ELSE Append(q, t)
    <2>1. SelectInSeq(q, LAMBDA u : u.program = p) = IF known # {} THEN Min(known) ELSE 0
        BY Zenon DEF SelectInSeq
    <2>2. known # {} => Min(known) \in known
        BY <1>0, MinOfNats, Zenon
    <2>3. Min(known) \in known => Min(known) # 0
        OBVIOUS
    <2> QED
        BY <2>1, <2>2, <2>3, Zenon DEF Record
<1>2. t \in Touch /\ t.program = p /\ Len(q) \in Nat /\ DOMAIN q = 1 .. Len(q)
    BY LenProperties DEF Touch
<1>3. CASE known # {}
    <2> DEFINE m == Min(known)
    <2>1. m \in known
        BY <1>0, <1>3, MinOfNats, Zenon
    <2> HIDE DEF m
    <2>2. m \in 1 .. Len(q) /\ q[m].program = p
        BY <2>1
    <2>3. r = [q EXCEPT ![m] = t]
        BY <1>1, <1>3 DEF m
    <2> HIDE DEF r, t, known
    <2>4. /\ r \in Seq(Touch) /\ Len(r) = Len(q)
          /\ \A i \in 1 .. Len(q) : r[i] = IF i = m THEN t ELSE q[i]
        BY <1>2, <2>2, <2>3, ExceptSeq
    <2>5. DOMAIN r = 1 .. Len(q)
        BY <2>4, LenProperties
    <2>6. \A i \in 1 .. Len(q) : r[i].program = q[i].program
        BY <1>2, <2>2, <2>4
    <2>7. Once(q) => Once(r)
        BY <1>2, <2>5, <2>6 DEF Once
    <2>8. m \in DOMAIN r /\ r[m] = t
        BY <2>2, <2>4, <2>5
    <2>9. \A i \in DOMAIN q : q[i].program # p => i \in DOMAIN r /\ r[i] = q[i]
        BY <1>2, <2>2, <2>4, <2>5
    <2> QED
        BY <2>4, <2>7, <2>8, <2>9 DEF r, t
<1>4. CASE known = {}
    <2>1. \A i \in 1 .. Len(q) : q[i].program # p
        BY <1>4
    <2>2. r = Append(q, t)
        BY <1>1, <1>4
    <2> HIDE DEF r, t, known
    <2>3. /\ r \in Seq(Touch) /\ Len(r) = Len(q) + 1
          /\ \A i \in 1 .. Len(q) : r[i] = q[i]
          /\ r[Len(q) + 1] = t
        BY <1>2, <2>2, AppendProperties
    <2>4. DOMAIN r = 1 .. Len(q) + 1
        BY <2>3, LenProperties
    <2>5. ASSUME Once(q) PROVE Once(r)
        <3> SUFFICES ASSUME NEW i \in 1 .. Len(q) + 1, NEW j \in 1 .. Len(q) + 1,
                            r[i].program = r[j].program
                     PROVE  i = j
            BY <2>4 DEF Once
        <3>1. CASE i \in 1 .. Len(q) /\ j \in 1 .. Len(q)
            BY <3>1, <1>2, <2>3, <2>5 DEF Once
        <3>2. CASE i \in 1 .. Len(q) /\ j = Len(q) + 1
            BY <3>2, <1>2, <2>1, <2>3
        <3>3. CASE i = Len(q) + 1 /\ j \in 1 .. Len(q)
            BY <3>3, <1>2, <2>1, <2>3
        <3> QED
            BY <3>1, <3>2, <3>3, <1>2
    <2>6. Len(q) + 1 \in DOMAIN r
        BY <1>2, <2>4
    <2>7. \A i \in DOMAIN q : i \in DOMAIN r /\ r[i] = q[i]
        BY <1>2, <2>3, <2>4
    <2> QED
        BY <2>3, <2>5, <2>6, <2>7 DEF r, t
<1> QED
    BY <1>3, <1>4

-----------------------------------------------------------------------------
\* Every step evaluates some transaction.
LEMMA StepEvaluates ==
    ASSUME Next
    PROVE  \E tx \in Transactions : Evaluate(tx)
<1>1. PICK s \in Signers \cup {NoSigner}, p \in Programs, t \in Arrivals, shape \in Shapes :
        Evaluate([signer |-> s, program |-> p, at |-> t, success |-> shape.success,
                  large |-> shape.large, delegate |-> shape.delegate])
    BY DEF Next
<1>2. t \in Nat
    BY ParametersAreNat DEF Arrivals
<1>3. shape \in [success : BOOLEAN, large : BOOLEAN, delegate : BOOLEAN]
    BY ShapesAreShapes
<1> QED
    BY <1>1, <1>2, <1>3 DEF Transactions

-----------------------------------------------------------------------------
(* Type correctness *)

\* What Quiet and Fire have in common: the transaction is recorded.
Records(tx) ==
    /\ tx \in Transactions /\ tx.signer \in Signers
    /\ pending' = PendingAfter(tx)
    /\ touches' = TouchesAfter(tx)
    /\ Witness(tx)

LEMMA EvaluateRecords ==
    ASSUME NEW tx \in Transactions, Evaluate(tx)
    PROVE  \/ Advance(tx) /\ UNCHANGED <<stores, history>>
           \/ Records(tx)
BY DEF Evaluate, Skip, Quiet, Fire, Records, Transactions

LEMMA TransactionType ==
    ASSUME NEW tx \in Transactions
    PROVE  /\ tx.program \in Programs /\ tx.at \in Nat /\ tx.success \in BOOLEAN
           /\ KindsOf(tx) \subseteq Kinds
BY DEF Transactions, KindsOf, Kinds, Rank

\* What a recorded transaction does to each queue.
LEMMA TouchesStep ==
    ASSUME TypeOK, NEW tx, Records(tx), NEW s \in Signers, NEW k \in Kinds
    PROVE  /\ touches[s][k] \in Seq(Touch)
           /\ touches'[s][k] =
                IF s = tx.signer /\ k \in KindsOf(tx)
                THEN Record(Evict(touches[s][k], tx.at), tx.program, tx.at)
                ELSE touches[s][k]
           /\ touches'[s][k] \in Seq(Touch)
<1>1. tx.program \in Programs /\ tx.at \in Nat /\ tx.signer \in Signers
    BY TransactionType DEF Records
<1>2. touches[s][k] \in Seq(Touch)
    BY DEF TypeOK
<1>3. touches'[s][k] =
        IF s = tx.signer /\ k \in KindsOf(tx)
        THEN Record(Evict(touches[s][k], tx.at), tx.program, tx.at)
        ELSE touches[s][k]
    BY <1>1 DEF Records, TouchesAfter, TypeOK
<1>4. Record(Evict(touches[s][k], tx.at), tx.program, tx.at) \in Seq(Touch)
    BY <1>1, <1>2, EvictDropsAPrefix, RecordRefreshes
<1> QED
    BY <1>2, <1>3, <1>4

\* And to the newest touches.
LEMMA LatestStep ==
    ASSUME TypeOK, NEW tx, Records(tx), NEW s \in Signers, NEW k \in Kinds, NEW p \in Programs
    PROVE  /\ latest'[s][k][p] =
                IF /\ s = tx.signer /\ k \in KindsOf(tx) /\ p = tx.program
                   /\ tx.at > latest[s][k][p]
                THEN tx.at ELSE latest[s][k][p]
           /\ latest[s][k][p] \in Time
BY TransactionType DEF Records, Witness, TypeOK

\* The clock follows the newest timestamp, and equals it while all are in order.
LEMMA ClockFollows ==
    ASSUME TypeOK, NEW tx \in Transactions, Advance(tx)
    PROVE  /\ clock \in Nat /\ clock' \in Nat /\ tx.at \in Nat
           /\ clock <= clock' /\ tx.at <= clock'
           /\ ordered' => ordered /\ clock' = tx.at
<1>1. clock \in Nat /\ tx.at \in Nat
    BY TransactionType DEF TypeOK
<1>2. clock' = IF tx.at > clock THEN tx.at ELSE clock
    BY DEF Advance
<1>3. ordered' => ordered /\ tx.at >= clock
    BY Zenon DEF Advance
<1> QED
    BY <1>1, <1>2, <1>3

LEMMA TypeInit == Init => TypeOK
<1> SUFFICES ASSUME Init
             PROVE  TypeOK
    OBVIOUS
<1>1. << >> \in Seq(Touch) /\ NoTime \in Time
    BY DEF Time
<1> QED
    BY <1>1 DEF Init, TypeOK

LEMMA TypeStep == TypeOK /\ [Next]_vars => TypeOK'
<1> SUFFICES ASSUME TypeOK, [Next]_vars
             PROVE  TypeOK'
    OBVIOUS
<1>1. CASE UNCHANGED vars
    BY <1>1 DEF vars, stores, history, TypeOK
<1>2. ASSUME NEW tx \in Transactions, Evaluate(tx)
      PROVE  TypeOK'
    <2>1. Advance(tx)
        BY <1>2, EvaluateRecords DEF Records, Witness
    <2>2. clock' \in Nat /\ ordered' \in BOOLEAN
        BY <2>1, TransactionType DEF Advance, TypeOK
    <2>3. lastFired' \in [Signers -> [Kinds -> Time]] /\ fires' \in [Signers -> [Kinds -> Seq(Nat)]]
        <3>1. CASE UNCHANGED <<lastFired, fires>>
            BY <3>1 DEF TypeOK
        <3>2. CASE Fire(tx)
            <4>1. PICK k \in Kinds :
                    /\ lastFired' = [lastFired EXCEPT ![tx.signer][k] = tx.at]
                    /\ fires' = [fires EXCEPT ![tx.signer][k] = Append(@, tx.at)]
                BY <3>2, TransactionType DEF Fire, Fireable
            <4>2. tx.at \in Nat
                BY TransactionType
            <4> QED
                <5>1. tx.signer \in Signers /\ fires[tx.signer][k] \in Seq(Nat)
                    BY <3>2, NoSignerIsNoSigner DEF Fire, Transactions, TypeOK
                <5>2. Append(fires[tx.signer][k], tx.at) \in Seq(Nat)
                    BY <4>2, <5>1, AppendProperties
                <5> QED
                    BY <4>1, <4>2, <5>1, <5>2 DEF TypeOK, Time
        <3> QED
            BY <1>2, <3>1, <3>2 DEF Evaluate, Skip, Quiet, stores, history
    <2>4. CASE UNCHANGED <<stores, history>>
        BY <2>2, <2>4 DEF stores, history, TypeOK
    <2>5. CASE Records(tx)
        <3> USE <2>5
        <3>1. touches' \in [Signers -> [Kinds -> Seq(Touch)]]
            <4> DEFINE new == [k \in Kinds |->
                        IF k \in KindsOf(tx)
                        THEN Record(Evict(touches[tx.signer][k], tx.at), tx.program, tx.at)
                        ELSE touches[tx.signer][k]]
            <4>1. touches' = [touches EXCEPT ![tx.signer] = new] /\ tx.signer \in Signers
                BY DEF Records, TouchesAfter
            <4>2. \A k \in Kinds : touches'[tx.signer][k] \in Seq(Touch)
                BY <4>1, TouchesStep
            <4>3. touches'[tx.signer] = new
                BY <4>1 DEF TypeOK
            <4>4. new \in [Kinds -> Seq(Touch)]
                BY <4>2, <4>3
            <4> HIDE DEF new
            <4> QED
                BY <4>1, <4>4 DEF TypeOK
        <3>2. pending' \in [Keys -> Time]
            <4>1. SweptPending(tx.at) \in [Keys -> Time]
                BY DEF SweptPending, TypeOK, Time
            <4>2. (IF tx.success THEN NoTime ELSE tx.at) \in Time
                BY TransactionType DEF Time
            <4> QED
                BY <4>1, <4>2 DEF Records, PendingAfter
        <3>3. latest' \in [Signers -> [Kinds -> [Programs -> Time]]]
            <4>1. tx.signer \in Signers /\ tx.program \in Programs /\ tx.at \in Time
                BY TransactionType DEF Records, Time
            <4> QED
                BY <4>1 DEF Records, Witness, TypeOK
        <3>4. probe' \in [Keys -> Time]
            <4>1. (IF tx.success THEN NoTime ELSE tx.at) \in Time
                BY TransactionType DEF Time
            <4> QED
                BY <4>1 DEF Records, Witness, TypeOK
        <3> QED
            BY <2>2, <2>3, <3>1, <3>2, <3>3, <3>4 DEF TypeOK
    <2> QED
        BY <1>2, <2>4, <2>5, EvaluateRecords
<1> QED
    BY <1>1, <1>2, StepEvaluates

\* Every store of the detection holds what its type says, for all inputs
\* (CorrelationDetection).
THEOREM CorrelationTypes == Spec => []TypeOK
BY TypeInit, TypeStep, PTL DEF Spec

-----------------------------------------------------------------------------
(* What the queues and the pending failures keep *)

OnceInv == TypeOK /\ QueuedOnce

LEMMA OnceStep == OnceInv /\ [Next]_vars => OnceInv'
<1> SUFFICES ASSUME OnceInv, [Next]_vars
             PROVE  QueuedOnce'
    BY TypeStep DEF OnceInv
<1> USE DEF OnceInv
<1>1. CASE UNCHANGED touches
    BY <1>1 DEF QueuedOnce
<1>2. ASSUME NEW tx, Records(tx)
      PROVE  QueuedOnce'
    <2> SUFFICES ASSUME NEW s \in Signers, NEW k \in Kinds
                 PROVE  Once(touches'[s][k])
        BY DEF QueuedOnce, Once
    <2>1. Once(touches[s][k])
        BY DEF QueuedOnce, Once
    <2>2. touches[s][k] \in Seq(Touch) /\ tx.at \in Nat /\ tx.program \in Programs
        BY <1>2, TouchesStep, TransactionType DEF Records
    <2>3. Once(Evict(touches[s][k], tx.at)) /\ Evict(touches[s][k], tx.at) \in Seq(Touch)
        BY <2>1, <2>2, EvictKeepsOnce, EvictDropsAPrefix
    <2>4. Once(Record(Evict(touches[s][k], tx.at), tx.program, tx.at))
        BY <2>2, <2>3, RecordRefreshes
    <2> QED
        BY <1>2, <2>1, <2>4, TouchesStep
<1> QED
    BY <1>1, <1>2, StepEvaluates, EvaluateRecords DEF vars, stores

\* The length of a queue counts distinct programs, in any order of timestamps
\* (record and distinct_program_count).
THEOREM CountsDistinct == Spec => []QueuedOnce
<1>1. Init => OnceInv
    BY TypeInit DEF OnceInv, Init, QueuedOnce
<1>2. OnceInv => QueuedOnce
    BY DEF OnceInv
<1> QED
    BY <1>1, <1>2, OnceStep, PTL DEF Spec

\* No touch is newer than the newest timestamp: while timestamps are in order
\* a transaction is at least as new as all that is recorded.
NoneFromTheFuture ==
    \A s \in Signers, k \in Kinds, p \in Programs : latest[s][k][p] <= clock

KeptInv == TypeOK /\ NoneFromTheFuture /\ NoTouchLost

LEMMA KeptStep == KeptInv /\ [Next]_vars => KeptInv'
<1> SUFFICES ASSUME KeptInv, [Next]_vars
             PROVE  NoneFromTheFuture' /\ NoTouchLost'
    BY TypeStep DEF KeptInv
<1> USE DEF KeptInv
<1>1. CASE UNCHANGED vars
    BY <1>1 DEF vars, stores, history, NoneFromTheFuture, NoTouchLost, TouchedWithin
<1>2. ASSUME NEW tx \in Transactions, Advance(tx)
      PROVE  /\ clock \in Nat /\ clock' \in Nat /\ tx.at \in Nat
             /\ clock <= clock' /\ tx.at <= clock'
             /\ ordered' => ordered /\ clock' = tx.at
    BY <1>2, ClockFollows
<1>3. ASSUME NEW tx \in Transactions, Advance(tx), UNCHANGED <<stores, history>>
      PROVE  NoneFromTheFuture' /\ NoTouchLost'
    <2>1. \A s \in Signers, k \in Kinds, p \in Programs :
            latest'[s][k][p] = latest[s][k][p] /\ latest[s][k][p] \in Time
        BY <1>3 DEF history, TypeOK
    <2>2. NoneFromTheFuture'
        BY <1>2, <1>3, <2>1 DEF NoneFromTheFuture, Time, NoTime
    <2>3. ASSUME ordered', NEW s \in Signers, NEW k \in Kinds, NEW p \in TouchedWithin(s, k, clock)'
          PROVE  p \in TouchedWithin(s, k, clock)
        BY <1>2, <1>3, <2>1, <2>3, ParametersAreNat DEF TouchedWithin, Time, NoTime
    <2> QED
        BY <1>2, <1>3, <2>2, <2>3 DEF NoTouchLost, stores, history
<1>4. ASSUME NEW tx \in Transactions, Records(tx)
      PROVE  NoneFromTheFuture' /\ NoTouchLost'
    <2>1. Advance(tx) /\ tx.program \in Programs /\ tx.at \in Nat /\ tx.signer \in Signers
        BY <1>4, TransactionType DEF Records, Witness
    <2>2. NoneFromTheFuture'
        <3> SUFFICES ASSUME NEW s \in Signers, NEW k \in Kinds, NEW p \in Programs
                     PROVE  latest'[s][k][p] <= clock'
            BY DEF NoneFromTheFuture
        <3>1. latest[s][k][p] <= clock
            BY DEF NoneFromTheFuture
        <3> QED
            BY <1>2, <1>4, <2>1, <3>1, LatestStep DEF Time, NoTime
    <2>3. ASSUME ordered', NEW s \in Signers, NEW k \in Kinds, NEW p \in Programs,
                 p \in TouchedWithin(s, k, clock)'
          PROVE  \E i \in DOMAIN touches'[s][k] :
                    touches'[s][k][i] = [program |-> p, at |-> latest'[s][k][p]]
        <3> DEFINE q == touches[s][k]
                   kept == Evict(q, tx.at)
        <3>1. ordered /\ clock' = tx.at /\ clock <= tx.at /\ clock \in Nat
            BY <1>2, <2>1, <2>3
        <3>2. latest[s][k][p] <= clock /\ latest[s][k][p] \in Time
            BY <1>4, LatestStep DEF NoneFromTheFuture
        <3>3. latest'[s][k][p] # NoTime /\ latest'[s][k][p] >= tx.at - Window
            BY <2>3, <3>1 DEF TouchedWithin
        <3>4. q \in Seq(Touch) /\ kept \in Seq(Touch)
            BY <1>4, <2>1, TouchesStep, EvictDropsAPrefix
        <3>5. CASE s = tx.signer /\ k \in KindsOf(tx) /\ p = tx.program
            <4>1. latest'[s][k][p] = tx.at
                BY <1>4, <2>1, <3>1, <3>2, <3>3, <3>5, LatestStep DEF Time, NoTime
            <4>2. touches'[s][k] = Record(kept, p, tx.at)
                BY <1>4, <3>5, TouchesStep
            <4> QED
                BY <2>1, <3>4, <4>1, <4>2, RecordRefreshes
        <3>6. CASE ~(s = tx.signer /\ k \in KindsOf(tx) /\ p = tx.program)
            <4>1. latest'[s][k][p] = latest[s][k][p]
                BY <1>4, <3>6, LatestStep
            <4>2. p \in TouchedWithin(s, k, clock)
                BY <2>1, <3>1, <3>2, <3>3, <4>1, ParametersAreNat DEF TouchedWithin, Time, NoTime
            <4>3. PICK i \in DOMAIN q : q[i] = [program |-> p, at |-> latest[s][k][p]]
                BY <3>1, <4>2 DEF NoTouchLost
            <4>4. PICK j \in DOMAIN kept : kept[j] = q[i]
                BY <2>1, <3>3, <3>4, <4>1, <4>3, EvictKeepsFresh
            <4>5. CASE s = tx.signer /\ k \in KindsOf(tx)
                <5>1. kept[j].program # tx.program
                    BY <3>6, <4>3, <4>4, <4>5
                <5>2. touches'[s][k] = Record(kept, tx.program, tx.at)
                    BY <1>4, <4>5, TouchesStep
                <5>3. \E l \in DOMAIN touches'[s][k] : touches'[s][k][l] = kept[j]
                    BY <2>1, <3>4, <5>1, <5>2, RecordRefreshes
                <5> QED
                    BY <4>1, <4>3, <4>4, <5>3
            <4>6. CASE ~(s = tx.signer /\ k \in KindsOf(tx))
                <5>1. touches'[s][k] = q
                    BY <1>4, <4>6, TouchesStep
                <5> QED
                    BY <4>1, <4>3, <5>1
            <4> QED
                BY <4>5, <4>6
        <3> QED
            BY <3>5, <3>6
    <2>4. \A s \in Signers, k \in Kinds : TouchedWithin(s, k, clock)' \subseteq Programs
        BY DEF TouchedWithin
    <2>5. NoTouchLost'
        BY <2>3, <2>4 DEF NoTouchLost
    <2> QED
        BY <2>2, <2>5
<1> QED
    BY <1>1, <1>3, <1>4, StepEvaluates, EvaluateRecords

\* While timestamps are in order, eviction from the front loses no touch that
\* is still inside the window (evict and record).
THEOREM TouchesKept == Spec => []NoTouchLost
<1>1. Init => KeptInv
    <2> SUFFICES ASSUME Init
                 PROVE  NoneFromTheFuture /\ NoTouchLost
        BY TypeInit DEF KeptInv
    <2>1. \A s \in Signers, k \in Kinds, p \in Programs : latest[s][k][p] = NoTime
        BY DEF Init
    <2> QED
        BY <2>1 DEF Init, NoneFromTheFuture, NoTouchLost, TouchedWithin, NoTime
<1>2. KeptInv => NoTouchLost
    BY DEF KeptInv
<1> QED
    BY <1>1, <1>2, KeptStep, PTL DEF Spec

PendingInv == TypeOK /\ PendingIsExact

LEMMA PendingStep == PendingInv /\ [Next]_vars => PendingInv'
<1> SUFFICES ASSUME PendingInv, [Next]_vars
             PROVE  PendingIsExact'
    BY TypeStep DEF PendingInv
<1> USE DEF PendingInv
<1>1. CASE UNCHANGED vars
    BY <1>1 DEF vars, stores, history, PendingIsExact
<1>2. ASSUME NEW tx \in Transactions, Evaluate(tx), ordered',
             NEW s \in Signers, NEW p \in Programs
      PROVE  LET failed == probe'[<<s, p>>]
             IN  /\ failed # NoTime /\ failed >= clock' - Window => pending'[<<s, p>>] = failed
                 /\ pending'[<<s, p>>] # NoTime => pending'[<<s, p>>] = failed
    <2> DEFINE key == <<s, p>>
    <2>1. key \in Keys
        BY DEF Keys
    <2>2. Advance(tx)
        BY <1>2, EvaluateRecords DEF Records, Witness
    <2>3. ordered /\ clock' = tx.at /\ tx.at >= clock /\ tx.at \in Nat /\ clock \in Nat
        BY <1>2, <2>2, ClockFollows
    <2>4. probe[key] \in Time /\ pending[key] \in Time
        BY <2>1 DEF TypeOK
    <2>5. /\ probe[key] # NoTime /\ probe[key] >= clock - Window => pending[key] = probe[key]
          /\ pending[key] # NoTime => pending[key] = probe[key]
        BY <2>3 DEF PendingIsExact
    <2> HIDE DEF key
    <2>6. /\ probe[key] # NoTime /\ probe[key] >= tx.at - Window => pending[key] = probe[key]
          /\ pending[key] # NoTime => pending[key] = probe[key]
        BY <2>3, <2>4, <2>5, ParametersAreNat DEF Time, NoTime
    <2>7. CASE UNCHANGED <<stores, history>>
        BY <2>3, <2>6, <2>7 DEF stores, history, key
    <2>8. CASE Records(tx)
        <3>1. /\ pending' = [SweptPending(tx.at) EXCEPT
                    ![<<tx.signer, tx.program>>] = IF tx.success THEN NoTime ELSE tx.at]
              /\ probe' = [probe EXCEPT
                    ![<<tx.signer, tx.program>>] = IF tx.success THEN NoTime ELSE tx.at]
            BY <2>8 DEF Records, PendingAfter, Witness
        <3>2. DOMAIN SweptPending(tx.at) = Keys /\ DOMAIN probe = Keys
            BY DEF SweptPending, TypeOK
        <3>3. SweptPending(tx.at)[key] =
                IF pending[key] >= tx.at - Window THEN pending[key] ELSE NoTime
            BY <2>1 DEF SweptPending
        <3>4. CASE key = <<tx.signer, tx.program>>
            <4>1. pending'[key] = probe'[key]
                BY <2>1, <3>1, <3>2, <3>4
            <4> QED
                BY <4>1 DEF key
        <3>5. CASE key # <<tx.signer, tx.program>>
            <4>1. pending'[key] = SweptPending(tx.at)[key] /\ probe'[key] = probe[key]
                BY <2>1, <3>1, <3>2, <3>5
            <4>2. /\ probe'[key] # NoTime /\ probe'[key] >= clock' - Window
                        => pending'[key] = probe'[key]
                  /\ pending'[key] # NoTime => pending'[key] = probe'[key]
                BY <2>3, <2>4, <2>6, <3>3, <4>1, ParametersAreNat DEF Time, NoTime
            <4> QED
                BY <4>2 DEF key
        <3> QED
            BY <3>4, <3>5
    <2> QED
        BY <1>2, <2>7, <2>8, EvaluateRecords
<1> QED
    BY <1>1, <1>2, StepEvaluates DEF PendingIsExact

\* While timestamps are in order, the swept map of pending failures answers as
\* the full record of unanswered failures would (evict_pending_failures).
THEOREM PendingExact == Spec => []PendingIsExact
<1>1. Init => PendingInv
    BY TypeInit DEF PendingInv, Init, PendingIsExact, Keys
<1>2. PendingInv => PendingIsExact
    BY DEF PendingInv
<1> QED
    BY <1>1, <1>2, PendingStep, PTL DEF Spec

-----------------------------------------------------------------------------
(* Alerts of one signer and kind are spaced by the window *)

\* The part of the type invariant the argument needs.
FiredType ==
    /\ lastFired \in [Signers -> [Kinds -> Time]]
    /\ fires \in [Signers -> [Kinds -> Seq(Nat)]]

\* lastFired remembers the latest alert, by timestamp and not by arrival: an
\* alert must be more than a window later than the one before, so timestamps
\* that step back cannot lower it.
LastIsLatest ==
    \A s \in Signers, k \in Kinds :
        /\ lastFired[s][k] = NoTime => fires[s][k] = << >>
        /\ \A i \in DOMAIN fires[s][k] : fires[s][k][i] <= lastFired[s][k]

SpacingInv == FiredType /\ LastIsLatest /\ FiresSpaced

LEMMA SpacingInit == Init => SpacingInv
BY DEF Init, SpacingInv, FiredType, LastIsLatest, FiresSpaced, Time, NoTime, Kinds, Rank

LEMMA SpacingStep == SpacingInv /\ [Next]_vars => SpacingInv'
<1> SUFFICES ASSUME SpacingInv, [Next]_vars
             PROVE  SpacingInv'
    OBVIOUS
<1> USE DEF SpacingInv
<1>1. CASE UNCHANGED vars
    BY <1>1 DEF vars, stores, history, FiredType, LastIsLatest, FiresSpaced
<1>2. ASSUME NEW tx \in Transactions, Skip(tx)
      PROVE  SpacingInv'
    BY <1>2 DEF Skip, stores, history, FiredType, LastIsLatest, FiresSpaced
<1>3. ASSUME NEW tx \in Transactions, Quiet(tx)
      PROVE  SpacingInv'
    BY <1>3 DEF Quiet, FiredType, LastIsLatest, FiresSpaced
<1>4. ASSUME NEW tx \in Transactions, Fire(tx)
      PROVE  SpacingInv'
    <2>1. tx.signer \in Signers /\ tx.at \in Nat
        BY <1>4 DEF Fire, Transactions
    <2>2. PICK k \in Fireable(tx) :
            /\ lastFired' = [lastFired EXCEPT ![tx.signer][k] = tx.at]
            /\ fires' = [fires EXCEPT ![tx.signer][k] = Append(@, tx.at)]
        BY <1>4 DEF Fire
    <2>3. k \in Kinds /\ CooldownOk(tx, k)
        BY <2>2 DEF Fireable, KindsOf, Kinds, Rank
    <2> DEFINE s == tx.signer
    <2>5. /\ lastFired'[s][k] = tx.at
          /\ fires'[s][k] = Append(fires[s][k], tx.at)
        BY <2>1, <2>2, <2>3 DEF FiredType
    <2>6. ASSUME NEW s1 \in Signers, NEW k1 \in Kinds, s1 # s \/ k1 # k
          PROVE  lastFired'[s1][k1] = lastFired[s1][k1] /\ fires'[s1][k1] = fires[s1][k1]
        BY <2>1, <2>2, <2>3, <2>6 DEF FiredType
    <2> DEFINE old == fires[s][k]
               new == Append(old, tx.at)
    <2>10. /\ old \in Seq(Nat) /\ new \in Seq(Nat) /\ Len(old) \in Nat
           /\ DOMAIN old = 1 .. Len(old) /\ DOMAIN new = 1 .. Len(old) + 1
           /\ \A i \in 1 .. Len(old) : new[i] = old[i]
           /\ new[Len(old) + 1] = tx.at
        <3>1. old \in Seq(Nat)
            BY <2>1, <2>3 DEF FiredType
        <3> HIDE DEF old
        <3>2. /\ new \in Seq(Nat) /\ Len(new) = Len(old) + 1
              /\ \A i \in 1 .. Len(old) : new[i] = old[i]
              /\ new[Len(old) + 1] = tx.at
            BY <2>1, <3>1, AppendProperties
        <3> QED
            BY <3>1, <3>2, LenProperties
    <2>4. FiredType'
        <3>1. tx.at \in Time /\ fires' = [fires EXCEPT ![s][k] = new] /\ new \in Seq(Nat)
            BY <2>1, <2>2, <2>3, <2>10 DEF FiredType, Time
        <3> HIDE DEF new
        <3> QED
            BY <2>1, <2>2, <2>3, <3>1 DEF FiredType
    <2>7. \A i \in DOMAIN old : old[i] \in Nat /\ tx.at - old[i] > Window
        <3>1. CASE lastFired[s][k] = NoTime
            BY <2>1, <2>3, <3>1 DEF LastIsLatest
        <3>2. CASE lastFired[s][k] # NoTime
            <4>1. lastFired[s][k] \in Nat
                BY <2>1, <2>3, <3>2 DEF FiredType, Time
            <4>2. tx.at - lastFired[s][k] > Window
                BY <2>3, <3>2 DEF CooldownOk
            <4>3. \A i \in DOMAIN old : old[i] <= lastFired[s][k]
                BY <2>1, <2>3 DEF LastIsLatest
            <4> HIDE DEF old
            <4>4. \A i \in DOMAIN old : old[i] \in Nat
                BY <2>10
            <4> QED
                BY <2>1, <4>1, <4>2, <4>3, <4>4, ParametersAreNat
        <3> QED
            BY <3>1, <3>2
    <2>8. LastIsLatest'
        <3> SUFFICES ASSUME NEW s1 \in Signers, NEW k1 \in Kinds
                     PROVE  /\ lastFired'[s1][k1] = NoTime => fires'[s1][k1] = << >>
                            /\ \A i \in DOMAIN fires'[s1][k1] : fires'[s1][k1][i] <= lastFired'[s1][k1]
            BY DEF LastIsLatest
        <3>1. CASE s1 = s /\ k1 = k
            <4>1. tx.at # NoTime
                BY <2>1 DEF NoTime
            <4>2. \A i \in 1 .. Len(old) + 1 : new[i] <= tx.at
                <5> HIDE DEF old, new
                <5>1. ASSUME NEW i \in 1 .. Len(old)
                      PROVE  new[i] <= tx.at
                    <6>1. new[i] = old[i] /\ old[i] \in Nat /\ tx.at - old[i] > Window
                        BY <2>7, <2>10
                    <6> QED
                        BY <2>1, <6>1, ParametersAreNat
                <5> QED
                    BY <2>1, <2>10, <5>1
            <4> QED
                BY <2>5, <2>10, <3>1, <4>1, <4>2
        <3>2. CASE s1 # s \/ k1 # k
            BY <3>2, <2>6 DEF LastIsLatest
        <3> QED
            BY <3>1, <3>2
    <2>9. FiresSpaced'
        <3> SUFFICES ASSUME NEW s1 \in Signers, NEW k1 \in Kinds,
                            NEW i \in DOMAIN fires'[s1][k1], NEW j \in DOMAIN fires'[s1][k1], i < j
                     PROVE  fires'[s1][k1][j] - fires'[s1][k1][i] > Window
            BY DEF FiresSpaced
        <3>1. CASE s1 = s /\ k1 = k
            <4>1. i \in 1 .. Len(old) + 1 /\ j \in 1 .. Len(old) + 1 /\ fires'[s1][k1] = new
                BY <2>5, <2>10, <3>1
            <4>2. \A a, b \in DOMAIN old : a < b => old[b] - old[a] > Window
                BY <2>1, <2>3 DEF FiresSpaced
            <4> HIDE DEF old, new
            <4>3. i \in 1 .. Len(old)
                BY <2>10, <4>1
            <4>4. CASE j \in 1 .. Len(old)
                BY <2>10, <4>1, <4>2, <4>3, <4>4
            <4>5. CASE j = Len(old) + 1
                BY <2>7, <2>10, <4>1, <4>3, <4>5
            <4> QED
                BY <2>10, <4>1, <4>4, <4>5
        <3>2. CASE s1 # s \/ k1 # k
            BY <3>2, <2>6 DEF FiresSpaced
        <3> QED
            BY <3>1, <3>2
    <2> QED
        BY <2>4, <2>8, <2>9
<1> QED
    BY <1>1, <1>2, <1>3, <1>4, StepEvaluates DEF Evaluate

\* Each alert about a signer and kind is more than a window younger than every
\* alert raised about them before it (cooldown_ok and the update of last_fired), in
\* any order of timestamps, a timestamp that comes twice included.
THEOREM Spacing == Spec => []FiresSpaced
<1>1. SpacingInv => FiresSpaced
    BY DEF SpacingInv
<1> QED
    BY <1>1, SpacingInit, SpacingStep, PTL DEF Spec

-----------------------------------------------------------------------------
(* No correlation is missed *)

LEMMA MaxIs ==
    ASSUME NEW S \in SUBSET Int, NEW m \in S, \A y \in S : m >= y
    PROVE  Max(S) = m
<1>1. \A x \in S : (\A y \in S : x >= y) => x = m
    OBVIOUS
<1> QED
    BY <1>1 DEF Max

\* The length of a queue is at least the number of programs that are in it.
LEMMA QueueCounts ==
    ASSUME NEW q \in Seq(Touch), NEW S,
           \A p \in S : \E i \in DOMAIN q : q[i].program = p
    PROVE  Cardinality(S) \in Nat /\ Cardinality(S) <= Len(q)
<1> DEFINE f == [p \in S |-> CHOOSE i \in 1 .. Len(q) : q[i].program = p]
<1>1. Len(q) \in Nat /\ DOMAIN q = 1 .. Len(q)
    BY LenProperties
<1>2. \A p \in S : f[p] \in 1 .. Len(q) /\ q[f[p]].program = p
    BY <1>1
<1>3. f \in Injection(S, 1 .. Len(q))
    BY <1>2 DEF Injection, IsInjective
<1>4. IsFiniteSet(1 .. Len(q)) /\ Cardinality(1 .. Len(q)) = Len(q)
    <2>1. 1 \in Int /\ Len(q) \in Int
        BY <1>1
    <2>2. IsFiniteSet(1 .. Len(q)) /\ Cardinality(1 .. Len(q)) = IF 1 > Len(q) THEN 0 ELSE Len(q) - 1 + 1
        BY <2>1, FS_Interval
    <2> QED
        BY <1>1, <2>2
<1>5. IsFiniteSet(S) /\ Cardinality(S) <= Cardinality(1 .. Len(q))
    BY <1>3, <1>4, FS_Injection
<1> QED
    BY <1>4, <1>5, FS_CardinalityType

\* A time of an alert that the cooldown remembers is one at which an alert was raised.
Remembered ==
    \A s \in Signers, k \in Kinds :
        lastFired[s][k] # NoTime => lastFired[s][k] \in Fired(s, k)

MissInv == KeptInv /\ Remembered /\ NoMissedCorrelation

\* What Append adds to the values of a sequence.
LEMMA AppendedSet ==
    ASSUME NEW q \in Seq(Nat), NEW t \in Nat
    PROVE  ToSet(Append(q, t)) = ToSet(q) \cup {t}
<1>1. /\ Append(q, t) \in Seq(Nat) /\ Len(Append(q, t)) = Len(q) + 1 /\ Len(q) \in Nat
      /\ \A i \in 1 .. Len(q) : Append(q, t)[i] = q[i]
      /\ Append(q, t)[Len(q) + 1] = t
    BY AppendProperties
<1>2. DOMAIN q = 1 .. Len(q) /\ DOMAIN Append(q, t) = 1 .. Len(q) + 1
    BY <1>1, LenProperties
<1>3. \A i \in 1 .. Len(q) + 1 : i \in 1 .. Len(q) \/ i = Len(q) + 1
    BY <1>1
<1>4. Len(q) + 1 \in 1 .. Len(q) + 1 /\ \A i \in 1 .. Len(q) : i \in 1 .. Len(q) + 1
    BY <1>1
<1> QED
    BY <1>1, <1>2, <1>3, <1>4 DEF ToSet

\* What a step adds to the alerts.
LEMMA FiresGrow ==
    ASSUME TypeOK, Remembered, NEW tx \in Transactions, Evaluate(tx)
    PROVE  /\ Remembered'
           /\ \A s \in Signers, k \in Kinds : Fired(s, k) \subseteq Fired(s, k)'
           /\ Fire(tx) => /\ tx.signer \in Signers
                          /\ \E k \in Kinds : tx.at \in Fired(tx.signer, k)'
<1>1. CASE ~Fire(tx)
    <2>1. lastFired' = lastFired /\ fires' = fires
        BY <1>1 DEF Evaluate, Skip, Quiet, stores, history
    <2> QED
        BY <1>1, <2>1 DEF Remembered, Fired
<1>2. CASE Fire(tx)
    <2>1. tx.signer \in Signers /\ tx.at \in Nat
        BY <1>2 DEF Fire, Transactions
    <2>2. PICK k \in Fireable(tx) :
            /\ lastFired' = [lastFired EXCEPT ![tx.signer][k] = tx.at]
            /\ fires' = [fires EXCEPT ![tx.signer][k] = Append(@, tx.at)]
        BY <1>2 DEF Fire
    <2>3. k \in Kinds
        BY <2>2 DEF Fireable, KindsOf, Kinds, Rank
    <2>4. lastFired'[tx.signer][k] = tx.at /\ Fired(tx.signer, k)' = Fired(tx.signer, k) \cup {tx.at}
        <3>1. /\ lastFired'[tx.signer][k] = tx.at
              /\ fires'[tx.signer][k] = Append(fires[tx.signer][k], tx.at)
              /\ fires[tx.signer][k] \in Seq(Nat)
            BY <2>1, <2>2, <2>3 DEF TypeOK
        <3>2. ToSet(Append(fires[tx.signer][k], tx.at)) = ToSet(fires[tx.signer][k]) \cup {tx.at}
            BY <2>1, <3>1, AppendedSet
        <3> QED
            BY <3>1, <3>2 DEF Fired
    <2>5. ASSUME NEW s \in Signers, NEW l \in Kinds, s # tx.signer \/ l # k
          PROVE  lastFired'[s][l] = lastFired[s][l] /\ Fired(s, l)' = Fired(s, l)
        BY <2>1, <2>2, <2>3, <2>5 DEF TypeOK, Fired
    <2>6. ASSUME NEW s \in Signers, NEW l \in Kinds
          PROVE  /\ lastFired'[s][l] # NoTime => lastFired'[s][l] \in Fired(s, l)'
                 /\ Fired(s, l) \subseteq Fired(s, l)'
        <3>1. CASE s = tx.signer /\ l = k
            BY <2>4, <3>1
        <3>2. CASE s # tx.signer \/ l # k
            BY <2>5, <3>2 DEF Remembered
        <3> QED
            BY <3>1, <3>2
    <2> QED
        BY <2>1, <2>3, <2>4, <2>6 DEF Remembered
<1> QED
    BY <1>1, <1>2

\* The transaction that brings the newest touch: what was touched in the window is
\* queued, so the kind can fire unless it has fired within the window.
LEMMA NewestTouch ==
    ASSUME KeptInv, KeptInv', Remembered, NEW tx \in Transactions, Evaluate(tx), ordered', ~Inert,
           NEW s \in Signers, NEW k \in Kinds, latest'[s][k] # latest[s][k],
           Cardinality(TouchedWithin(s, k, LastTouch(s, k)))' >= MinPrograms
    PROVE  LET now == LastTouch(s, k)'
           IN  \/ \E f \in Fired(s, k)' : now - f <= Window
               \/ \E other \in Kinds : now \in Fired(s, other)'
<1>1. Records(tx)
    BY EvaluateRecords DEF history
<1>2. /\ TypeOK /\ TypeOK' /\ Advance(tx) /\ tx.program \in Programs /\ tx.at \in Nat
      /\ MinPrograms \in Nat /\ Window \in Nat
    BY <1>1, TransactionType, ParametersAreNat DEF KeptInv, Records, Witness
<1>3. /\ ordered /\ clock' = tx.at /\ clock <= tx.at /\ clock \in Nat
    BY <1>2, ClockFollows
<1>4. \A p \in Programs : latest[s][k][p] \in Time /\ latest'[s][k][p] \in Time
                           /\ latest[s][k][p] <= clock
    BY <1>2 DEF KeptInv, TypeOK, NoneFromTheFuture
<1>5. s = tx.signer /\ k \in KindsOf(tx) /\ latest'[s][k][tx.program] = tx.at
    <2>1. PICK p \in Programs : latest'[s][k][p] # latest[s][k][p]
        <3>1. latest[s][k] \in [Programs -> Time] /\ latest'[s][k] \in [Programs -> Time]
            BY <1>2 DEF TypeOK
        <3> QED
            BY <3>1
    <2> QED
        BY <1>1, <1>2, <2>1, LatestStep
<1>6. LastTouch(s, k)' = tx.at
    <2> DEFINE S == {latest'[s][k][p] : p \in Programs}
    <2>1. S \in SUBSET Int
        BY <1>4 DEF Time, NoTime
    <2>2. tx.at \in S
        BY <1>2, <1>5
    <2>3. \A p \in Programs : tx.at >= latest'[s][k][p]
        BY <1>1, <1>2, <1>3, <1>4, LatestStep DEF Time, NoTime
    <2>4. \A y \in S : tx.at >= y
        BY <2>3
    <2> HIDE DEF S
    <2>5. Max(S) = tx.at
        BY <2>1, <2>2, <2>4, MaxIs
    <2> QED
        BY <2>5 DEF LastTouch, S
<1>7. DistinctProgramCount(tx, k) >= MinPrograms
    <2> DEFINE touched == TouchedWithin(s, k, tx.at)'
    <2>1. \A p \in touched : \E i \in DOMAIN touches'[s][k] : touches'[s][k][i].program = p
        <3>1. \A p \in TouchedWithin(s, k, clock)' : \E i \in DOMAIN touches'[s][k] :
                touches'[s][k][i] = [program |-> p, at |-> latest'[s][k][p]]
            BY DEF KeptInv, NoTouchLost
        <3>2. touched = TouchedWithin(s, k, clock)'
            BY <1>3 DEF TouchedWithin
        <3> HIDE DEF touched
        <3> SUFFICES ASSUME NEW p \in touched
                     PROVE  \E i \in DOMAIN touches'[s][k] : touches'[s][k][i].program = p
            OBVIOUS
        <3>3. PICK i \in DOMAIN touches'[s][k] :
                touches'[s][k][i] = [program |-> p, at |-> latest'[s][k][p]]
            BY <3>1, <3>2, Zenon
        <3> QED
            BY <3>3
    <2>2. touches'[s][k] \in Seq(Touch)
        BY <1>2 DEF TypeOK
    <2>3. Cardinality(touched) >= MinPrograms
        BY <1>6 DEF TouchedWithin
    <2> HIDE DEF touched
    <2>4. Cardinality(touched) \in Nat /\ Cardinality(touched) <= Len(touches'[s][k])
        BY <2>1, <2>2, QueueCounts
    <2>5. Len(touches'[s][k]) = DistinctProgramCount(tx, k) /\ Len(touches'[s][k]) \in Nat
        BY <1>1, <1>5, <2>2 DEF Records, DistinctProgramCount
    <2> QED
        BY <1>2, <2>3, <2>4, <2>5
<1>8. CASE CooldownOk(tx, k)
    <2>1. k \in Fireable(tx)
        BY <1>5, <1>7, <1>8 DEF Fireable
    <2>2. tx.signer # NoSigner
        BY <1>5, NoSignerIsNoSigner
    <2>3. Fire(tx)
        BY <2>1, <2>2 DEF Evaluate, Skip, Quiet
    <2> QED
        BY <1>2, <1>5, <1>6, <2>3, FiresGrow
<1>9. CASE ~CooldownOk(tx, k)
    <2>1. /\ lastFired[s][k] # NoTime /\ ~(tx.at - lastFired[s][k] > Window)
          /\ lastFired[s][k] \in Time
        BY <1>2, <1>5, <1>9 DEF CooldownOk, TypeOK
    <2>2. lastFired[s][k] \in Fired(s, k)'
        BY <1>2, <2>1, FiresGrow DEF Remembered
    <2>3. tx.at - lastFired[s][k] <= Window
        BY <1>2, <2>1 DEF Time, NoTime
    <2> QED
        BY <1>6, <2>2, <2>3
<1> QED
    BY <1>8, <1>9

LEMMA MissStep == MissInv /\ [Next]_vars => MissInv'
<1> SUFFICES ASSUME MissInv, [Next]_vars
             PROVE  MissInv'
    OBVIOUS
<1>1. KeptInv /\ KeptInv' /\ Remembered /\ NoMissedCorrelation
    BY KeptStep DEF MissInv
<1>2. CASE UNCHANGED vars
    <2>1. UNCHANGED <<latest, fires, ordered, lastFired>>
        BY <1>2 DEF vars, stores, history
    <2>4. \A s \in Signers, k \in Kinds : Fired(s, k)' = Fired(s, k)
        BY <2>1 DEF Fired
    <2>2. Remembered'
        BY <1>1, <2>1, <2>4, Zenon DEF Remembered
    <2>3. NoMissedCorrelation'
        <3>1. \A s \in Signers, k \in Kinds : LastTouch(s, k)' = LastTouch(s, k)
            BY <2>1 DEF LastTouch
        <3>2. \A s \in Signers, k \in Kinds :
                TouchedWithin(s, k, LastTouch(s, k))' = TouchedWithin(s, k, LastTouch(s, k))
            BY <2>1, <3>1 DEF TouchedWithin
        <3> QED
            BY <1>1, <2>1, <2>4, <3>1, <3>2, Zenon DEF NoMissedCorrelation, Inert
    <2> QED
        BY <1>1, <2>2, <2>3 DEF MissInv
<1>3. ASSUME NEW tx \in Transactions, Evaluate(tx)
      PROVE  Remembered' /\ NoMissedCorrelation'
    <2>1. /\ Remembered'
          /\ \A s \in Signers, k \in Kinds : Fired(s, k) \subseteq Fired(s, k)'
        BY <1>1, <1>3, FiresGrow DEF KeptInv
    <2>2. ASSUME ordered', ~Inert, NEW s \in Signers, NEW k \in Kinds,
                 Cardinality(TouchedWithin(s, k, LastTouch(s, k)))' >= MinPrograms
          PROVE  LET now == LastTouch(s, k)'
                 IN  \/ \E f \in Fired(s, k)' : now - f <= Window
                     \/ \E other \in Kinds : now \in Fired(s, other)'
        <3>1. CASE latest'[s][k] # latest[s][k]
            BY <1>1, <1>3, <2>2, <3>1, NewestTouch
        <3>2. CASE latest'[s][k] = latest[s][k]
            <4>1. LastTouch(s, k)' = LastTouch(s, k)
                BY <3>2 DEF LastTouch
            <4>2. TouchedWithin(s, k, LastTouch(s, k))' = TouchedWithin(s, k, LastTouch(s, k))
                BY <3>2, <4>1 DEF TouchedWithin
            <4>3. ordered
                <5>1. Advance(tx)
                    BY <1>3, EvaluateRecords DEF Records, Witness
                <5> QED
                    BY <2>2, <5>1, Zenon DEF Advance
            <4>4. \/ \E f \in Fired(s, k) : LastTouch(s, k) - f <= Window
                  \/ \E other \in Kinds : LastTouch(s, k) \in Fired(s, other)
                BY <1>1, <2>2, <4>2, <4>3, Zenon DEF NoMissedCorrelation
            <4> QED
                BY <2>1, <4>1, <4>4
        <3> QED
            BY <3>1, <3>2
    <2>3. NoMissedCorrelation'
        BY <2>2, Zenon DEF NoMissedCorrelation, Inert
    <2> QED
        BY <2>1, <2>3
<1> QED
    BY <1>1, <1>2, <1>3, StepEvaluates DEF MissInv

\* While timestamps are in order, evaluate raises an alert for a signer that reaches
\* MinPrograms programs of one kind, unless that kind has raised one within the last
\* window, or another kind does at the same time.
THEOREM NoneMissed == Spec => []NoMissedCorrelation
<1>1. Init => MissInv
    <2> SUFFICES ASSUME Init
                 PROVE  MissInv
        OBVIOUS
    <2>1. \A s \in Signers, k \in Kinds, p \in Programs : latest[s][k][p] = NoTime
        BY DEF Init
    <2>2. KeptInv
        BY <2>1, TypeInit DEF Init, KeptInv, NoneFromTheFuture, NoTouchLost, TouchedWithin, NoTime
    <2>3. Remembered
        BY DEF Init, Remembered
    <2>4. ASSUME NEW s \in Signers, NEW k \in Kinds, NEW now
          PROVE  Cardinality(TouchedWithin(s, k, now)) = 0
        <3>1. TouchedWithin(s, k, now) = {}
            BY <2>1 DEF TouchedWithin
        <3> QED
            BY <3>1, FS_EmptySet
    <2>5. ~Inert => ~(0 >= MinPrograms)
        BY ParametersAreNat DEF Inert
    <2>6. NoMissedCorrelation
        BY <2>4, <2>5 DEF NoMissedCorrelation
    <2> QED
        BY <2>2, <2>3, <2>6 DEF MissInv
<1>2. MissInv => NoMissedCorrelation
    BY DEF MissInv
<1> QED
    BY <1>1, <1>2, MissStep, PTL DEF Spec
=============================================================================
