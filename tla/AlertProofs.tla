------------------------------ MODULE AlertProofs ------------------------------
(***************************************************************************)
(* Proofs about AlertEngine for any rules, programs, transactions and      *)
(* cooldown, and however far the clock steps back; and about the windows   *)
(* it reads, as MetricsWindow fills them.                                  *)
(***************************************************************************)
EXTENDS AlertEngine, MetricsWindow, FiniteSetTheorems, SequenceTheorems,
        WellFoundedInduction, TLAPS

\* What the argument needs to know of the engine and of the log of events.
\* The ids are those clients made up, so they are typed by some set S.
EngineType ==
    /\ clock \in Nat
    /\ engine.now \in Nat
    /\ engine = [pc |-> engine.pc, clone |-> engine.clone,
                 next |-> engine.next, now |-> engine.now]

Log(S) == Seq([id : S, program : S, at : Nat, broadcast : S])

SentType == \E S : sent \in Log(S)

FiredType == \A id \in DOMAIN lastFired : lastFired[id] \in Nat

\* lastFired has the time of the latest event of each id: events of an id are
\* a cooldown apart, so a clock that steps back cannot lower it.
LastIsLatest ==
    \A i \in DOMAIN sent :
        /\ sent[i].id \in DOMAIN lastFired
        /\ sent[i].at <= lastFired[sent[i].id]

CooldownInv == EngineType /\ SentType /\ FiredType /\ LastIsLatest /\ EventsCooledDown

LEMMA CooldownInit == Init => CooldownInv
<1> SUFFICES ASSUME Init
             PROVE  CooldownInv
    OBVIOUS
<1>1. EngineType
    BY DEF Init, EngineType, Sleeping
<1>2. sent \in Log({})
    BY DEF Init, Log
<1> QED
    BY <1>1, <1>2 DEF Init, CooldownInv, SentType, FiredType, LastIsLatest, EventsCooledDown

\* Any step but FireRule leaves the events and their times alone.
LEMMA OtherSteps ==
    ASSUME CooldownInv, EngineType', UNCHANGED <<lastFired, sent>>
    PROVE  CooldownInv'
BY DEF CooldownInv, SentType, FiredType, LastIsLatest, EventsCooledDown

LEMMA FireStep ==
    ASSUME CooldownInv, FireRule
    PROVE  CooldownInv'
<1> DEFINE id == Current.id
           e == [id |-> id, program |-> Current.program, at |-> engine.now,
                 broadcast |-> Current.websocket]
<1>1. /\ CooledDown(id)
      /\ lastFired' = [j \in DOMAIN lastFired \cup {id} |->
                          IF j = id THEN engine.now ELSE lastFired[j]]
      /\ sent' = Append(sent, e)
    BY DEF FireRule, ShouldFire
<1>2. EngineType'
    BY DEF FireRule, CooldownInv, EngineType
<1>3. PICK S : sent \in Log(S)
    BY DEF CooldownInv, SentType
<1> DEFINE T == S \cup {id, Current.program, Current.websocket}
<1>4. sent \in Log(T) /\ e \in [id : T, program : T, at : Nat, broadcast : T]
    <2>1. [id : S, program : S, at : Nat, broadcast : S]
            \subseteq [id : T, program : T, at : Nat, broadcast : T]
        BY SMT
    <2>2. sent \in Log(T)
        BY <1>3, <2>1, SeqMonotonic DEF Log
    <2> QED
        BY <2>2 DEF CooldownInv, EngineType
<1>5. /\ sent' \in Log(T)
      /\ Len(sent') = Len(sent) + 1
      /\ \A i \in 1 .. Len(sent) : sent'[i] = sent[i]
      /\ sent'[Len(sent) + 1] = e
      /\ DOMAIN sent = 1 .. Len(sent) /\ DOMAIN sent' = 1 .. Len(sent) + 1
      /\ Len(sent) \in Nat
    BY <1>1, <1>4 DEF Log
<1>6. /\ DOMAIN lastFired' = DOMAIN lastFired \cup {id}
      /\ lastFired'[id] = engine.now
      /\ \A j \in DOMAIN lastFired : j # id => lastFired'[j] = lastFired[j]
    BY <1>1
<1>7. \A i \in 1 .. Len(sent) : sent[i].at \in Nat
    <2>1. \A i \in 1 .. Len(sent) : sent[i] \in [id : S, program : S, at : Nat, broadcast : S]
        BY <1>3, ElementOfSeq DEF Log
    <2> QED
        BY <2>1
<1> HIDE DEF e, T
<1>8. SentType'
    BY <1>5 DEF SentType, Log
<1>9. FiredType'
    BY <1>6 DEF CooldownInv, EngineType, FiredType
<1>10. \A i \in 1 .. Len(sent) : sent[i].id = id => engine.now - sent[i].at >= Cooldown
    <2> SUFFICES ASSUME NEW i \in 1 .. Len(sent), sent[i].id = id
                 PROVE  engine.now - sent[i].at >= Cooldown
        OBVIOUS
    <2>1. sent[i].at \in Nat
        BY <1>7
    <2>2. id \in DOMAIN lastFired /\ sent[i].at <= lastFired[id]
        BY <1>5 DEF CooldownInv, LastIsLatest
    <2>3. engine.now \in Nat /\ lastFired[id] \in Nat /\ Cooldown \in Nat
        BY <2>2, ParametersAreNat DEF CooldownInv, EngineType, FiredType
    <2>4. engine.now - lastFired[id] >= Cooldown
        BY <1>1, <2>2 DEF CooledDown
    <2> QED
        BY <2>1, <2>2, <2>3, <2>4
<1>11. e.id = id /\ e.at = engine.now /\ engine.now \in Nat /\ Cooldown \in Nat
    BY ParametersAreNat DEF e, CooldownInv, EngineType
<1>12. LastIsLatest'
    <2> SUFFICES ASSUME NEW i \in 1 .. Len(sent) + 1
                 PROVE  /\ sent'[i].id \in DOMAIN lastFired'
                        /\ sent'[i].at <= lastFired'[sent'[i].id]
        BY <1>5 DEF LastIsLatest
    <2>1. CASE i = Len(sent) + 1
        BY <2>1, <1>5, <1>6, <1>11
    <2>2. CASE i \in 1 .. Len(sent)
        <3>1. /\ sent'[i] = sent[i]
              /\ sent[i].id \in DOMAIN lastFired
              /\ sent[i].at <= lastFired[sent[i].id]
            BY <2>2, <1>5 DEF CooldownInv, LastIsLatest
        <3>2. sent[i].at \in Nat
            BY <1>7, <2>2
        <3>3. CASE sent[i].id = id
            BY <3>1, <3>2, <3>3, <1>6, <1>10, <1>11, <2>2
        <3>4. CASE sent[i].id # id
            BY <3>1, <3>4, <1>6
        <3> QED
            BY <3>3, <3>4
    <2> QED
        BY <2>1, <2>2, <1>5
<1>13. EventsCooledDown'
    <2> SUFFICES ASSUME NEW i \in 1 .. Len(sent) + 1, NEW j \in 1 .. Len(sent) + 1,
                        i < j, sent'[i].id = sent'[j].id
                 PROVE  sent'[j].at - sent'[i].at >= Cooldown
        BY <1>5 DEF EventsCooledDown
    <2>1. i \in 1 .. Len(sent) /\ sent'[i] = sent[i]
        BY <1>5
    <2>2. CASE j = Len(sent) + 1
        BY <2>1, <2>2, <1>5, <1>10, <1>11
    <2>3. CASE j \in 1 .. Len(sent)
        BY <2>1, <2>3, <1>5 DEF CooldownInv, EventsCooledDown
    <2> QED
        BY <2>2, <2>3, <1>5
<1> QED
    BY <1>2, <1>8, <1>9, <1>12, <1>13 DEF CooldownInv

\* Only Tick moves the clock, to any time that MaxStepBack allows; only
\* LockWindows reads it.
LEMMA CooldownStep == CooldownInv /\ [Next]_vars => CooldownInv'
<1> SUFFICES ASSUME CooldownInv, [Next]_vars
             PROVE  CooldownInv'
    OBVIOUS
<1> USE DEF CooldownInv, EngineType
<1>1. CASE FireRule
    BY <1>1, FireStep
<1>2. CASE CloneRules
    BY <1>2, OtherSteps DEF CloneRules, Sleeping
<1>3. CASE LockWindows
    BY <1>3, OtherSteps DEF LockWindows
<1>4. CASE SkipRule
    BY <1>4, OtherSteps DEF SkipRule
<1>5. CASE GoToSleep
    BY <1>5, OtherSteps DEF GoToSleep, Sleeping
<1>6. CASE Tick
    BY <1>6, ParametersAreNat, OtherSteps DEF Tick
<1>7. CASE UNCHANGED vars
    BY <1>7, OtherSteps DEF vars
<1>8. ASSUME NEW rule \in Rules, CreateAlert(rule)
      PROVE  CooldownInv'
    BY <1>8, OtherSteps DEF CreateAlert
<1>9. ASSUME NEW rule \in Rules, NEW id \in Ids, UpdateAlert(id, rule)
      PROVE  CooldownInv'
    BY <1>9, OtherSteps DEF UpdateAlert
<1>10. ASSUME NEW id \in Ids, DeleteAlert(id)
       PROVE  CooldownInv'
    BY <1>10, OtherSteps DEF DeleteAlert
<1>11. ASSUME NEW p \in Programs, AddProgram(p) \/ RemoveProgram(p)
       PROVE  CooldownInv'
    BY <1>11, OtherSteps DEF AddProgram, RemoveProgram
<1>12. ASSUME NEW p \in Programs, NEW tx \in Txs, PushTx(p, tx)
       PROVE  CooldownInv'
    BY <1>12, OtherSteps DEF PushTx
<1> QED
    BY <1>1, <1>2, <1>3, <1>4, <1>5, <1>6, <1>7, <1>8, <1>9, <1>10, <1>11, <1>12
       DEF Next, Evaluation

\* Events of one rule id are a cooldown apart, whatever the rules, however
\* many clients edit them, and however far the clock steps back
\* (AlertEngine::evaluate_all and last_fired).
THEOREM EventsSpaced == Spec => []EventsCooledDown
<1>1. CooldownInv => EventsCooledDown
    BY DEF CooldownInv
<1> QED
    BY <1>1, CooldownInit, CooldownStep, PTL DEF Spec

-----------------------------------------------------------------------------
(* No rule hides another *)

\* What a tick relies on: it starts at the first rule, and a fire time stands
\* for an event that was sent.
NextType ==
    /\ engine.next \in Nat \ {0}
    /\ engine.pc = "cloned" => engine.next = 1

FiredLogged ==
    \A id \in DOMAIN lastFired :
        \E k \in DOMAIN sent : sent[k].id = id /\ sent[k].at = lastFired[id]

TickInv == CooldownInv /\ NextType /\ FiredLogged /\ TickIsComplete

\* What TickIsComplete claims of one rule of the clone.
Considered(rule) ==
    rule.enabled /\ rule.program \in DOMAIN windows /\ Triggered(rule) =>
        \E k \in DOMAIN sent :
            /\ sent[k].id = rule.id
            /\ engine.now - sent[k].at < Cooldown \/ sent[k].at = engine.now

LEMMA CompleteIsConsidered ==
    TickIsComplete <=> (engine.pc = "evaluating" =>
                            \A i \in 1 .. engine.next - 1 : Considered(engine.clone[i]))
BY DEF TickIsComplete, Considered

\* Steps outside the evaluation leave TickIsComplete nothing to say, or leave
\* alone what it speaks of.
LEMMA TickOutside ==
    ASSUME TickInv, CooldownInv', UNCHANGED <<lastFired, sent>>, NextType',
           engine'.pc # "evaluating" \/ UNCHANGED <<engine, windows>>
    PROVE  TickInv'
<1>1. FiredLogged'
    BY DEF TickInv, FiredLogged
<1>2. CASE engine'.pc # "evaluating"
    BY <1>1, <1>2 DEF TickInv, TickIsComplete
<1>3. CASE UNCHANGED <<engine, windows>>
    <2>1. ASSUME NEW rule
          PROVE  Triggered(rule)' = Triggered(rule)
        <3>1. Value(rule)' = Value(rule)
            BY <1>3 DEF Value
        <3> QED
            BY <3>1, Zenon DEF Triggered
    <2>2. TickIsComplete'
        BY <1>3, <2>1, Zenon DEF TickInv, TickIsComplete
    <2> QED
        BY <1>1, <2>2 DEF TickInv
<1> QED
    BY <1>2, <1>3

\* In the two steps of the evaluation the rules before the current one stay
\* considered, and the current one becomes so.
LEMMA TickAdvance ==
    ASSUME TickInv, CooldownInv', FiredLogged', Remaining,
           engine' = [engine EXCEPT !.next = @ + 1], windows' = windows,
           \A k \in DOMAIN sent : k \in DOMAIN sent' /\ sent'[k] = sent[k],
           NEW rule, rule = Current, Considered(rule)'
    PROVE  TickInv'
<1>1. /\ engine'.pc = engine.pc /\ engine'.clone = engine.clone
      /\ engine'.now = engine.now /\ engine'.next = engine.next + 1
      /\ engine.next \in Nat \ {0} /\ engine.pc = "evaluating"
    BY DEF TickInv, CooldownInv, EngineType, NextType, Remaining
<1>2. NextType'
    BY <1>1 DEF NextType
<1>3. ASSUME NEW i \in 1 .. engine'.next - 1
      PROVE  Considered(engine.clone[i])'
    <2>1. CASE i = engine.next
        BY <2>1, <1>1 DEF Current
    <2>2. CASE i \in 1 .. engine.next - 1
        <3>1. Considered(engine.clone[i])
            BY <2>2, <1>1, CompleteIsConsidered DEF TickInv
        <3> QED
            BY <3>1, <1>1 DEF Considered, Triggered, Value
    <2> QED
        BY <2>1, <2>2, <1>1
<1>4. TickIsComplete'
    BY <1>1, <1>3 DEF TickIsComplete, Considered
<1> QED
    BY <1>2, <1>4 DEF TickInv

LEMMA SkipTick ==
    ASSUME TickInv, CooldownInv', SkipRule
    PROVE  TickInv'
<1> DEFINE rule == Current
<1>1. /\ Remaining /\ ~ShouldFire(rule)
      /\ engine' = [engine EXCEPT !.next = @ + 1]
      /\ UNCHANGED <<windows, lastFired, sent>>
      /\ engine'.now = engine.now
    BY DEF SkipRule, TickInv, CooldownInv, EngineType
<1>2. FiredLogged'
    BY <1>1 DEF TickInv, FiredLogged
<1>3. ASSUME NEW r, r = rule
      PROVE  Considered(r)'
    <2> SUFFICES ASSUME r.enabled, r.program \in DOMAIN windows, Triggered(r)
                 PROVE  \E k \in DOMAIN sent :
                            /\ sent[k].id = r.id
                            /\ engine.now - sent[k].at < Cooldown \/ sent[k].at = engine.now
        BY <1>1 DEF Considered, Triggered, Value
    <2>1. r.id \in DOMAIN lastFired /\ ~(engine.now - lastFired[r.id] >= Cooldown)
        BY <1>1, <1>3 DEF ShouldFire, CooledDown
    <2>2. PICK k \in DOMAIN sent : sent[k].id = r.id /\ sent[k].at = lastFired[r.id]
        BY <2>1 DEF TickInv, FiredLogged
    <2>3. engine.now \in Nat /\ lastFired[r.id] \in Nat /\ Cooldown \in Nat
        BY <2>1, ParametersAreNat DEF TickInv, CooldownInv, EngineType, FiredType
    <2> QED
        BY <2>1, <2>2, <2>3
<1> QED
    BY <1>1, <1>2, <1>3, TickAdvance

LEMMA FireTick ==
    ASSUME TickInv, CooldownInv', FireRule
    PROVE  TickInv'
<1> DEFINE rule == Current
           e == [id |-> rule.id, program |-> rule.program, at |-> engine.now,
                 broadcast |-> rule.websocket]
<1>1. /\ Remaining
      /\ engine' = [engine EXCEPT !.next = @ + 1]
      /\ windows' = windows
      /\ lastFired' = [j \in DOMAIN lastFired \cup {rule.id} |->
                          IF j = rule.id THEN engine.now ELSE lastFired[j]]
      /\ sent' = Append(sent, e)
      /\ engine'.now = engine.now
    BY DEF FireRule, TickInv, CooldownInv, EngineType
<1>2. PICK S : sent \in Log(S)
    BY DEF TickInv, CooldownInv, SentType
<1>3. /\ \A k \in DOMAIN sent : k \in DOMAIN sent' /\ sent'[k] = sent[k]
      /\ Len(sent) + 1 \in DOMAIN sent' /\ sent'[Len(sent) + 1] = e
    BY <1>1, <1>2 DEF Log
<1>4. e.id = rule.id /\ e.at = engine.now
    OBVIOUS
<1> HIDE DEF e
<1>5. FiredLogged'
    <2> SUFFICES ASSUME NEW id \in DOMAIN lastFired'
                 PROVE  \E k \in DOMAIN sent' : sent'[k].id = id /\ sent'[k].at = lastFired'[id]
        BY DEF FiredLogged
    <2>1. CASE id = rule.id
        BY <2>1, <1>1, <1>3, <1>4
    <2>2. CASE id # rule.id
        <3>1. id \in DOMAIN lastFired /\ lastFired'[id] = lastFired[id]
            BY <2>2, <1>1
        <3>2. PICK k \in DOMAIN sent : sent[k].id = id /\ sent[k].at = lastFired[id]
            BY <3>1 DEF TickInv, FiredLogged
        <3> QED
            BY <3>1, <3>2, <1>3
    <2> QED
        BY <2>1, <2>2
<1>6. ASSUME NEW r, r = rule
      PROVE  Considered(r)'
    BY <1>1, <1>3, <1>4, <1>6 DEF Considered
<1> QED
    BY <1>1, <1>3, <1>5, <1>6, TickAdvance

LEMMA TickStep == TickInv /\ [Next]_vars => TickInv'
<1> SUFFICES ASSUME TickInv, [Next]_vars
             PROVE  TickInv'
    OBVIOUS
<1>1. CooldownInv'
    BY CooldownStep DEF TickInv
<1> USE <1>1 DEF TickInv, CooldownInv, EngineType, NextType
<1>2. CASE SkipRule
    BY <1>2, SkipTick
<1>3. CASE FireRule
    BY <1>3, FireTick
<1>4. CASE CloneRules
    BY <1>4, TickOutside DEF CloneRules, Sleeping
<1>5. CASE LockWindows
    <2>1. engine'.next = 1 /\ UNCHANGED <<lastFired, sent>> /\ engine'.pc = "evaluating"
        BY <1>5 DEF LockWindows
    <2>2. NextType'
        BY <2>1
    <2>3. TickIsComplete'
        BY <2>1 DEF TickIsComplete
    <2>4. FiredLogged'
        BY <2>1 DEF FiredLogged
    <2> QED
        BY <2>2, <2>3, <2>4
<1>6. CASE GoToSleep
    BY <1>6, TickOutside DEF GoToSleep, Sleeping
<1>7. CASE Tick
    BY <1>7, TickOutside DEF Tick
<1>8. CASE UNCHANGED vars
    BY <1>8, TickOutside DEF vars
<1>9. ASSUME NEW rule \in Rules, CreateAlert(rule) \/ \E id \in Ids : UpdateAlert(id, rule)
      PROVE  TickInv'
    BY <1>9, TickOutside DEF CreateAlert, UpdateAlert
<1>10. ASSUME NEW id \in Ids, DeleteAlert(id)
       PROVE  TickInv'
    BY <1>10, TickOutside DEF DeleteAlert
<1>11. ASSUME NEW p \in Programs, AddProgram(p) \/ RemoveProgram(p)
       PROVE  TickInv'
    BY <1>11, TickOutside DEF AddProgram, RemoveProgram, WindowsFree
<1>12. ASSUME NEW p \in Programs, NEW tx \in Txs, PushTx(p, tx)
       PROVE  TickInv'
    BY <1>12, TickOutside DEF PushTx, WindowsFree
<1> QED
    BY <1>2, <1>3, <1>4, <1>5, <1>6, <1>7, <1>8, <1>9, <1>10, <1>11, <1>12
       DEF Next, Evaluation

\* A rule the engine has gone past has fired, or had nothing to say, or cools
\* down: for any rules and windows, while clients edit both
\* (AlertEngine::evaluate_all).
THEOREM TicksComplete == Spec => []TickIsComplete
<1>1. Init => TickInv
    BY CooldownInit DEF Init, Sleeping, TickInv, NextType, FiredLogged, TickIsComplete
<1>2. TickInv => TickIsComplete
    BY DEF TickInv
<1> QED
    BY <1>1, <1>2, TickStep, PTL DEF Spec

-----------------------------------------------------------------------------
(* The windows that the engine reads, as MetricsWindow fills them: there programs  *)
(* stay, and every arrival is remembered.                                          *)

Oks == {s.ok : s \in Shapes}
Units == {s.cu : s \in Shapes}
Stored == [n : Nat, program : Programs, at : Int, ok : Oks, cu : Units, category : Categories]
Arrival == [tx : Stored, pushed : Nat]

\* A window holds what is left of the arrivals when the first few are dropped, and
\* these were too old when the last one came.
Follows(w, mine) ==
    /\ Len(w) <= Len(mine)
    /\ \A i \in 1 .. Len(w) : w[i] = mine[Len(mine) - Len(w) + i].tx
    /\ \A i \in 1 .. Len(mine) - Len(w) : mine[i].tx.at < mine[Len(mine)].pushed - MaxAge
    /\ InTimeOrder(mine) =>
          \A i \in Len(mine) - Len(w) + 1 .. Len(mine) - 1 :
             mine[i].tx.at >= mine[Len(mine)].pushed - MaxAge

WindowInv ==
    /\ clock \in Nat
    /\ arrived \in [Programs -> Seq(Arrival)]
    /\ windows \in [Programs -> Seq(Stored)]
    /\ \A p \in Programs :
          /\ \A i \in DOMAIN arrived[p] : arrived[p][i].pushed <= clock
          /\ Follows(windows[p], arrived[p])

LEMMA LeastOfNats ==
    ASSUME NEW I \in SUBSET Nat, I # {}
    PROVE  \E z \in I : \A y \in I : z <= y
<1> DEFINE R == OpToRel(<, Nat)
<1>1. \E x \in I : \A y \in I : ~(<<y, x>> \in R)
    BY NatLessThanWellFounded, WFMin
<1>2. \A x, y \in Nat : y < x => <<y, x>> \in R
    BY DEF OpToRel
<1> HIDE DEF R
<1>3. PICK x \in I : \A y \in I : ~(<<y, x>> \in R)
    BY <1>1
<1>4. ASSUME NEW y \in I
      PROVE  x <= y
    <2>1. x \in Nat /\ y \in Nat /\ ~(y < x)
        BY <1>2, <1>3
    <2> QED
        BY <2>1
<1> QED
    BY <1>4

\* evict drops a prefix of transactions too old, and stops at the first that is not.
LEMMA EvictAgedDropsAPrefix ==
    ASSUME NEW w \in Seq(Stored), NEW now \in Nat
    PROVE  \E d \in 0 .. Len(w) :
              /\ EvictAged(w, now) \in Seq(Stored)
              /\ Len(EvictAged(w, now)) = Len(w) - d
              /\ \A i \in 1 .. Len(w) - d : EvictAged(w, now)[i] = w[d + i]
              /\ \A i \in 1 .. d : w[i].at < now - MaxAge
              /\ d < Len(w) => w[d + 1].at >= now - MaxAge
<1> DEFINE live == {i \in 1 .. Len(w) : w[i].at >= now - MaxAge}
<1>0. /\ live \in SUBSET Nat /\ MaxAge \in Nat /\ Len(w) \in Nat
      /\ \A i \in 1 .. Len(w) : w[i] \in Stored
    BY MaxAgeIsNat
<1>1. \A i \in 1 .. Len(w) : w[i].at \in Int
    BY <1>0 DEF Stored
<1>2. EvictAged(w, now) = IF live = {} THEN << >> ELSE SubSeq(w, Min(live), Len(w))
    <2>1. SelectInSeq(w, LAMBDA tx : tx.at >= now - MaxAge)
            = IF live # {} THEN Min(live) ELSE 0
        BY Zenon DEF SelectInSeq
    <2>2. live # {} => Min(live) \in live
        BY <1>0, LeastOfNats, Zenon DEF Min
    <2>3. Min(live) \in live => Min(live) # 0
        OBVIOUS
    <2> QED
        BY <2>1, <2>2, <2>3, Zenon DEF EvictAged
<1>3. CASE live = {}
    <2>1. \A i \in 1 .. Len(w) : w[i].at < now - MaxAge
        BY <1>0, <1>1, <1>3
    <2>2. EvictAged(w, now) = << >>
        BY <1>2, <1>3
    <2> HIDE DEF live
    <2> QED
        BY <1>0, <2>1, <2>2
<1>4. CASE live # {}
    <2> DEFINE m == Min(live)
    <2>1. m \in live /\ \A i \in live : m <= i
        BY <1>0, <1>4, LeastOfNats, Zenon DEF Min
    <2>2. EvictAged(w, now) = SubSeq(w, m, Len(w))
        BY <1>2, <1>4
    <2> HIDE DEF m
    <2>3. m \in 1 .. Len(w) /\ w[m].at >= now - MaxAge
        BY <2>1
    <2>4. \A i \in 1 .. m - 1 : w[i].at < now - MaxAge
        BY <1>0, <1>1, <2>1, <2>3
    <2> HIDE DEF live
    <2>5. /\ SubSeq(w, m, Len(w)) \in Seq(Stored)
          /\ Len(SubSeq(w, m, Len(w))) = Len(w) - m + 1
          /\ \A i \in 1 .. Len(w) - m + 1 : SubSeq(w, m, Len(w))[i] = w[m + i - 1]
        <3>1. m \in Int /\ Len(w) \in Int /\ m <= Len(w)
            BY <1>0, <2>3
        <3>2. \A i \in m .. Len(w) : w[i] \in Stored
            BY <1>0, <2>3
        <3> QED
            BY <3>1, <3>2, SubSeqProperties
    <2> DEFINE d == m - 1
    <2>6. d \in 0 .. Len(w) /\ m = d + 1
        BY <1>0, <2>3
    <2> HIDE DEF d
    <2>7. Len(EvictAged(w, now)) = Len(w) - d
        BY <1>0, <2>2, <2>5, <2>6
    <2>8. ASSUME NEW i \in 1 .. Len(w) - d
          PROVE  EvictAged(w, now)[i] = w[d + i]
        <3>1. i \in 1 .. Len(w) - m + 1 /\ m + i - 1 = d + i
            BY <1>0, <2>6
        <3> QED
            BY <2>2, <2>5, <3>1
    <2>9. \A i \in 1 .. d : w[i].at < now - MaxAge
        BY <2>4, <2>6
    <2> QED
        BY <2>2, <2>3, <2>5, <2>6, <2>7, <2>8, <2>9
<1> QED
    BY <1>3, <1>4

\* A push adds an arrival and lets go of what is too old by then.
LEMMA PushFollows ==
    ASSUME NEW w \in Seq(Stored), NEW mine \in Seq(Arrival), Follows(w, mine),
           NEW now \in Nat, \A i \in DOMAIN mine : mine[i].pushed <= now,
           NEW tx \in Stored
    PROVE  /\ Push(w, tx, now) \in Seq(Stored)
           /\ Follows(Push(w, tx, now), Append(mine, [tx |-> tx, pushed |-> now]))
<1> DEFINE left == EvictAged(w, now)
           new  == [tx |-> tx, pushed |-> now]
           w2   == Push(w, tx, now)
           mine2 == Append(mine, new)
           old == Len(mine) - Len(w)
<1>1. PICK d \in 0 .. Len(w) :
          /\ left \in Seq(Stored)
          /\ Len(left) = Len(w) - d
          /\ \A i \in 1 .. Len(w) - d : left[i] = w[d + i]
          /\ \A i \in 1 .. d : w[i].at < now - MaxAge
          /\ d < Len(w) => w[d + 1].at >= now - MaxAge
    BY EvictAgedDropsAPrefix
<1>2. /\ Len(w) \in Nat /\ Len(mine) \in Nat /\ MaxAge \in Nat /\ DOMAIN mine = 1 .. Len(mine)
      /\ new \in Arrival /\ new.tx = tx /\ new.pushed = now
    BY MaxAgeIsNat DEF Arrival
<1>3. /\ Len(w) <= Len(mine)
      /\ \A i \in 1 .. Len(w) : w[i] = mine[old + i].tx
      /\ \A i \in 1 .. old : mine[i].tx.at < mine[Len(mine)].pushed - MaxAge
    BY DEF Follows
<1>4. \A i \in 1 .. Len(mine) : /\ mine[i] \in Arrival /\ mine[i].tx.at \in Int
                              /\ mine[i].pushed \in Nat /\ mine[i].pushed <= now
    <2>1. \A i \in 1 .. Len(mine) : mine[i] \in Arrival
        BY <1>2
    <2> QED
        BY <1>2, <2>1 DEF Arrival, Stored
<1>5. /\ w2 \in Seq(Stored) /\ Len(w2) = Len(w) - d + 1
      /\ w2[Len(w) - d + 1] = tx
      /\ \A i \in 1 .. Len(w) - d : w2[i] = w[d + i]
    <2>1. w2 = Append(left, tx)
        BY DEF Push
    <2>2. left \in Seq(Stored) /\ Len(left) = Len(w) - d
        BY <1>1
    <2> HIDE DEF w2, left, new, mine2, old
    <2>3. /\ Append(left, tx) \in Seq(Stored) /\ Len(Append(left, tx)) = Len(left) + 1
          /\ Append(left, tx)[Len(left) + 1] = tx
          /\ \A i \in 1 .. Len(left) : Append(left, tx)[i] = left[i]
        BY <2>2, AppendProperties
    <2> QED
        BY <1>1, <1>2, <2>1, <2>2, <2>3
<1>6. /\ mine2 \in Seq(Arrival) /\ Len(mine2) = Len(mine) + 1
      /\ mine2[Len(mine) + 1] = new
      /\ \A i \in 1 .. Len(mine) : mine2[i] = mine[i]
    BY <1>2, AppendProperties
<1> HIDE DEF w2, mine2, new, left
<1>7. Len(mine2) - Len(w2) = old + d /\ Len(w2) <= Len(mine2) /\ old \in Nat /\ d \in Nat
    BY <1>2, <1>3, <1>5, <1>6
<1>8. ASSUME NEW i \in 1 .. Len(w2)
      PROVE  w2[i] = mine2[old + d + i].tx
    <2>1. CASE i <= Len(w) - d
        <3>1. d + i \in 1 .. Len(w) /\ old + (d + i) \in 1 .. Len(mine)
            BY <1>2, <1>3, <1>7, <2>1
        <3>2. w2[i] = mine[old + (d + i)].tx
            BY <1>2, <1>3, <1>5, <2>1, <3>1
        <3>3. old + (d + i) = old + d + i
            BY <1>7, <2>1
        <3> QED
            BY <1>6, <3>1, <3>2, <3>3
    <2>2. CASE ~(i <= Len(w) - d)
        <3>1. i = Len(w) - d + 1
            BY <1>2, <1>5, <2>2
        <3>2. Len(w) \in Nat /\ Len(mine) \in Nat /\ d \in Nat /\ old = Len(mine) - Len(w)
            BY <1>2, <1>7
        <3> HIDE DEF old
        <3>3. old + d + i = Len(mine) + 1
            BY <3>1, <3>2
        <3> QED
            BY <1>2, <1>5, <1>6, <3>1, <3>3
    <2> QED
        BY <2>1, <2>2
<1>9. mine2[Len(mine2)].pushed = now
    BY <1>2, <1>6
<1>10. ASSUME NEW i \in 1 .. old + d
       PROVE  mine2[i].tx.at < now - MaxAge
    <2>0. i \in 1 .. Len(mine) /\ mine2[i] = mine[i]
        BY <1>2, <1>3, <1>6, <1>7
    <2>1. CASE i <= old
        <3>1. mine[i].tx.at < mine[Len(mine)].pushed - MaxAge
            BY <1>3, <1>7, <2>1
        <3>2. mine[Len(mine)].pushed \in Nat /\ mine[Len(mine)].pushed <= now /\ mine[i].tx.at \in Int
            BY <1>2, <1>4, <2>0
        <3> QED
            BY <1>2, <2>0, <3>1, <3>2
    <2>2. CASE ~(i <= old)
        <3>1. i - old \in 1 .. d /\ i - old \in 1 .. Len(w) /\ old + (i - old) = i
            BY <1>7, <2>2
        <3>2. w[i - old] = mine[i].tx
            BY <1>3, <3>1
        <3> QED
            BY <1>1, <2>0, <3>1, <3>2
    <2> QED
        BY <2>1, <2>2
<1>11. ASSUME InTimeOrder(mine2), NEW i \in old + d + 1 .. Len(mine2) - 1
       PROVE  mine2[i].tx.at >= now - MaxAge
    <2> DEFINE first == old + d + 1
    <2>1. /\ first \in 1 .. Len(mine) /\ i \in 1 .. Len(mine) /\ first <= i /\ d < Len(w)
          /\ d + 1 \in 1 .. Len(w) /\ old + (d + 1) = first
        BY <1>2, <1>6, <1>7
    <2> HIDE DEF first
    <2>2. mine[first].tx.at >= now - MaxAge
        BY <1>1, <1>3, <2>1
    <2>3. first < i => mine2[first].tx.at <= mine2[i].tx.at
        <3>1. first \in DOMAIN mine2 /\ i \in DOMAIN mine2
            BY <1>2, <1>6, <2>1
        <3> QED
            BY <1>11, <3>1 DEF InTimeOrder
    <2>4. /\ mine2[first] = mine[first] /\ mine2[i] = mine[i]
          /\ mine[first].tx.at \in Int /\ mine[i].tx.at \in Int
        BY <1>4, <1>6, <2>1
    <2>5. CASE first = i
        BY <2>2, <2>4, <2>5
    <2>6. CASE first < i
        <3>1. mine[first].tx.at <= mine[i].tx.at
            BY <2>3, <2>4, <2>6
        <3>2. mine[i].tx.at >= now - MaxAge
            BY <1>2, <2>2, <2>4, <3>1
        <3> QED
            BY <2>4, <3>2
    <2>7. first <= i /\ first \in Nat /\ i \in Nat
        BY <1>2, <2>1
    <2> QED
        BY <2>5, <2>6, <2>7
<1>12. /\ w2 \in Seq(Stored) /\ Len(w2) <= Len(mine2)
       /\ \A i \in 1 .. Len(w2) : w2[i] = mine2[Len(mine2) - Len(w2) + i].tx
    BY <1>5, <1>7, <1>8
<1>13. \A i \in 1 .. Len(mine2) - Len(w2) : mine2[i].tx.at < mine2[Len(mine2)].pushed - MaxAge
    BY <1>7, <1>9, <1>10
<1>14. InTimeOrder(mine2) =>
          \A i \in Len(mine2) - Len(w2) + 1 .. Len(mine2) - 1 :
             mine2[i].tx.at >= mine2[Len(mine2)].pushed - MaxAge
    BY <1>7, <1>9, <1>11
<1>15. Follows(w2, mine2)
    BY <1>12, <1>13, <1>14 DEF Follows
<1> QED
    BY <1>12, <1>15 DEF w2, mine2, new

LEMMA WindowInit == WindowsInit => WindowInv
<1> SUFFICES ASSUME WindowsInit
             PROVE  WindowInv
    OBVIOUS
<1>1. /\ windows = [p \in Programs |-> << >>] /\ clock = 0
      /\ arrived = [p \in Programs |-> << >>]
    BY DEF WindowsInit, EmptyWindow
<1>2. windows \in [Programs -> Seq(Stored)] /\ arrived \in [Programs -> Seq(Arrival)]
    BY <1>1
<1>3. \A p \in Programs : Follows(windows[p], arrived[p])
    BY <1>1 DEF Follows
<1> QED
    BY <1>1, <1>2, <1>3 DEF WindowInv

LEMMA ArriveKeeps ==
    ASSUME WindowInv, NEW p \in Programs, NEW at \in 0 .. MaxTime, NEW shape \in Shapes,
           Arrive(p, at, shape)
    PROVE  WindowInv'
<1> DEFINE tx == [n |-> Len(arrived[p]) + 1, program |-> p, at |-> at,
                  ok |-> shape.ok, cu |-> shape.cu, category |-> shape.category]
           new == [tx |-> tx, pushed |-> clock]
<1>1. /\ windows' = [windows EXCEPT ![p] = Push(@, tx, clock)]
      /\ arrived' = [arrived EXCEPT ![p] = Append(@, new)]
      /\ clock' = clock
    BY DEF Arrive
<1>2. /\ clock \in Nat /\ arrived \in [Programs -> Seq(Arrival)]
      /\ windows \in [Programs -> Seq(Stored)]
      /\ \A q \in Programs :
            /\ \A i \in DOMAIN arrived[q] : arrived[q][i].pushed <= clock
            /\ Follows(windows[q], arrived[q])
    BY DEF WindowInv
<1>3. tx \in Stored /\ new \in Arrival /\ new.pushed = clock
    <2>1. Len(arrived[p]) + 1 \in Nat /\ at \in Int
        BY <1>2
    <2>2. shape.ok \in Oks /\ shape.cu \in Units /\ shape.category \in Categories
        BY DEF Oks, Units, Categories
    <2> QED
        BY <1>2, <2>1, <2>2 DEF Stored, Arrival
<1> HIDE DEF tx
<1>4. /\ Push(windows[p], tx, clock) \in Seq(Stored)
      /\ Follows(Push(windows[p], tx, clock), Append(arrived[p], new))
    BY <1>2, <1>3, PushFollows
<1> HIDE DEF new
<1>5. /\ Append(arrived[p], new) \in Seq(Arrival)
      /\ \A i \in DOMAIN Append(arrived[p], new) : Append(arrived[p], new)[i].pushed <= clock
    <2>1. /\ Append(arrived[p], new) \in Seq(Arrival)
          /\ Len(Append(arrived[p], new)) = Len(arrived[p]) + 1
          /\ Append(arrived[p], new)[Len(arrived[p]) + 1] = new
          /\ \A i \in 1 .. Len(arrived[p]) : Append(arrived[p], new)[i] = arrived[p][i]
        BY <1>2, <1>3, AppendProperties
    <2>2. /\ DOMAIN arrived[p] = 1 .. Len(arrived[p]) /\ Len(arrived[p]) \in Nat
          /\ DOMAIN Append(arrived[p], new) = 1 .. Len(arrived[p]) + 1
        BY <1>2, <2>1
    <2> QED
        BY <1>2, <1>3, <2>1, <2>2
<1>6. /\ arrived' \in [Programs -> Seq(Arrival)]
      /\ windows' \in [Programs -> Seq(Stored)]
    BY <1>1, <1>2, <1>4, <1>5
<1>7. ASSUME NEW q \in Programs
      PROVE  /\ \A i \in DOMAIN arrived'[q] : arrived'[q][i].pushed <= clock
             /\ Follows(windows'[q], arrived'[q])
    <2>1. CASE q = p
        <3>1. windows'[q] = Push(windows[p], tx, clock) /\ arrived'[q] = Append(arrived[p], new)
            BY <1>1, <1>2, <2>1
        <3> QED
            BY <1>4, <1>5, <3>1
    <2>2. CASE q # p
        <3>1. windows'[q] = windows[q] /\ arrived'[q] = arrived[q]
            BY <1>1, <1>2, <2>2
        <3> QED
            BY <1>2, <3>1
    <2> QED
        BY <2>1, <2>2
<1> QED
    BY <1>1, <1>2, <1>6, <1>7 DEF WindowInv, Follows, InTimeOrder

LEMMA WindowStep == WindowInv /\ [WindowsNext]_windowVars => WindowInv'
<1> SUFFICES ASSUME WindowInv, [WindowsNext]_windowVars
             PROVE  WindowInv'
    OBVIOUS
<1>1. CASE TimePasses
    <2>1. clock' = clock + 1 /\ windows' = windows /\ arrived' = arrived
        BY <1>1 DEF TimePasses
    <2>2. ASSUME NEW p \in Programs, NEW i \in DOMAIN arrived[p]
          PROVE  arrived[p][i].pushed <= clock + 1
        <3>1. arrived[p] \in Seq(Arrival) /\ clock \in Nat /\ arrived[p][i].pushed <= clock
            BY DEF WindowInv
        <3>2. arrived[p][i] \in Arrival
            BY <3>1
        <3> QED
            BY <3>1, <3>2 DEF Arrival
    <2>3. clock + 1 \in Nat
        BY DEF WindowInv
    <2>4. WindowInv => \A p \in Programs : Follows(windows[p], arrived[p])
        BY DEF WindowInv
    <2>5. \A p \in Programs : Follows(windows'[p], arrived'[p])
        BY <2>1, <2>4, Zenon
    <2> QED
        BY <2>1, <2>2, <2>3, <2>5 DEF WindowInv, Follows, InTimeOrder
<1>2. CASE \E p \in Programs, at \in 0 .. MaxTime, shape \in Shapes : Arrive(p, at, shape)
    BY <1>2, ArriveKeeps
<1>3. CASE UNCHANGED windowVars
    BY <1>3 DEF windowVars, WindowInv, Follows, InTimeOrder
<1> QED
    BY <1>1, <1>2, <1>3 DEF WindowsNext

\* What stands at the end of a sequence is a suffix of it.
LEMMA TheLastAreASuffix ==
    ASSUME NEW s, NEW t, Len(s) \in Nat, Len(t) \in Nat, Len(s) <= Len(t),
           \A i \in 1 .. Len(s) : s[i] = t[Len(t) - Len(s) + i]
    PROVE  IsSuffix(s, t)
<1> DEFINE rs == Reverse(s)
           rt == Reverse(t)
<1>1. /\ rs = [i \in 1 .. Len(s) |-> s[(Len(s) - i) + 1]]
      /\ rt = [i \in 1 .. Len(t) |-> t[(Len(t) - i) + 1]]
    BY DEF Reverse
<1>2. Len(rs) = Len(s) /\ Len(rt) = Len(t)
    BY <1>1
<1>3. \A i \in 1 .. Len(s) : rs[i] = rt[i]
    <2> SUFFICES ASSUME NEW i \in 1 .. Len(s)
                 PROVE  rs[i] = rt[i]
        OBVIOUS
    <2> DEFINE j == (Len(s) - i) + 1
    <2>1. j \in 1 .. Len(s) /\ (Len(t) - Len(s)) + j = (Len(t) - i) + 1 /\ i \in 1 .. Len(t)
        OBVIOUS
    <2>2. rs[i] = s[j] /\ rt[i] = t[(Len(t) - i) + 1]
        BY <1>1, <2>1
    <2> HIDE DEF j, rs, rt
    <2> QED
        BY <2>1, <2>2
<1> HIDE DEF rs, rt
<1>4. SubSeq(rs, 1, Len(rs)) = SubSeq(rt, 1, Len(rs))
    BY <1>2, <1>3
<1> QED
    BY <1>2, <1>4 DEF IsSuffix, IsPrefix, rs, rt

LEMMA FollowsIsLive == WindowInv => WindowIsTheLive
<1> SUFFICES ASSUME WindowInv, NEW p \in Programs
             PROVE  LET mine == arrived[p]
                        gone == Len(mine) - Len(windows[p])
                        cutoff == mine[Len(mine)].pushed - MaxAge
                    IN  /\ IsSuffix(windows[p], [i \in DOMAIN mine |-> mine[i].tx])
                        /\ \A i \in 1 .. gone : mine[i].tx.at < cutoff
                        /\ InTimeOrder(mine) =>
                              \A i \in gone + 1 .. Len(mine) - 1 : mine[i].tx.at >= cutoff
    BY DEF WindowIsTheLive
<1> DEFINE w == windows[p]
           mine == arrived[p]
           pushed == [i \in DOMAIN mine |-> mine[i].tx]
<1>1. w \in Seq(Stored) /\ mine \in Seq(Arrival) /\ Follows(w, mine)
    BY DEF WindowInv
<1> HIDE DEF w, mine
<1>2. /\ Len(w) \in Nat /\ Len(mine) \in Nat /\ DOMAIN mine = 1 .. Len(mine)
      /\ Len(w) <= Len(mine)
      /\ \A i \in 1 .. Len(w) : w[i] = mine[Len(mine) - Len(w) + i].tx
    BY <1>1 DEF Follows
<1>3. Len(pushed) = Len(mine) /\ \A i \in 1 .. Len(mine) : pushed[i] = mine[i].tx
    BY <1>2
<1> HIDE DEF pushed
<1>4. \A i \in 1 .. Len(w) : w[i] = pushed[Len(pushed) - Len(w) + i]
    BY <1>2, <1>3
<1>5. IsSuffix(w, pushed)
    BY <1>2, <1>3, <1>4, TheLastAreASuffix
<1> QED
    BY <1>1, <1>5 DEF Follows, w, mine, pushed

\* A window is the last arrivals of its program in arrival order, whatever the order
\* of their block times: what left it was too old when the last one came, and where
\* block times are in order nothing else stayed but possibly that last one.  For any
\* programs, transactions, age limit and lateness (RollingWindow::push, evict).
THEOREM WindowsAreLive == WindowsSpec => []WindowIsTheLive
<1> QED
    BY WindowInit, WindowStep, FollowsIsLive, PTL DEF WindowsSpec

-----------------------------------------------------------------------------
(* Lists cut from finite sets: the filters and the order of the queries *)

\* Where the sets upTo[x] form a chain, their sizes number the elements of S.
LEMMA ChainsAreRanked ==
    ASSUME NEW S, IsFiniteSet(S), NEW upTo \in [S -> SUBSET S],
           \A x \in S : x \in upTo[x],
           \A x, y \in S : upTo[x] \subseteq upTo[y] \/ upTo[y] \subseteq upTo[x],
           \A x, y \in S : x # y => upTo[x] # upTo[y]
    PROVE  /\ Cardinality(S) \in Nat
           /\ \A x \in S : Cardinality(upTo[x]) \in 1 .. Cardinality(S)
           /\ \A x, y \in S : upTo[x] \subseteq upTo[y] /\ x # y
                                => Cardinality(upTo[x]) < Cardinality(upTo[y])
           /\ \A k \in 1 .. Cardinality(S) : \E x \in S : Cardinality(upTo[x]) = k
<1> DEFINE n == Cardinality(S)
           rank == [x \in S |-> Cardinality(upTo[x])]
<1>1. n \in Nat
    BY FS_CardinalityType
<1>2. ASSUME NEW x \in S
      PROVE  IsFiniteSet(upTo[x]) /\ Cardinality(upTo[x]) \in 1 .. n
    <2>1. upTo[x] \in SUBSET S /\ upTo[x] # {}
        OBVIOUS
    <2>2. IsFiniteSet(upTo[x]) /\ Cardinality(upTo[x]) <= n
        BY <2>1, FS_Subset
    <2>3. Cardinality(upTo[x]) \in Nat /\ Cardinality(upTo[x]) # 0
        BY <2>1, <2>2, FS_CardinalityType, FS_EmptySet
    <2> HIDE DEF n
    <2> QED
        BY <1>1, <2>2, <2>3
<1>3. ASSUME NEW x \in S, NEW y \in S, upTo[x] \subseteq upTo[y], x # y
      PROVE  Cardinality(upTo[x]) < Cardinality(upTo[y])
    <2>1. upTo[x] # upTo[y]
        BY <1>3
    <2>2. /\ IsFiniteSet(upTo[y])
          /\ Cardinality(upTo[x]) \in Nat /\ Cardinality(upTo[y]) \in Nat
        BY <1>2
    <2>3. /\ Cardinality(upTo[x]) <= Cardinality(upTo[y])
          /\ Cardinality(upTo[x]) # Cardinality(upTo[y])
        BY <1>3, <2>1, <2>2, FS_Subset
    <2> QED
        BY <2>2, <2>3
<1>4. IsFiniteSet(1 .. n) /\ Cardinality(1 .. n) = n
    <2>1. 1 \in Int /\ n \in Int
        BY <1>1
    <2>2. IsFiniteSet(1 .. n) /\ Cardinality(1 .. n) = IF 1 > n THEN 0 ELSE n - 1 + 1
        BY <2>1, FS_Interval
    <2> HIDE DEF n
    <2> QED
        BY <2>2, <1>1
<1>5. rank \in [S -> 1 .. n]
    BY <1>2
<1>6. \A x, y \in S : rank[x] = rank[y] => x = y
    <2> SUFFICES ASSUME NEW x \in S, NEW y \in S, x # y
                 PROVE  Cardinality(upTo[x]) # Cardinality(upTo[y])
        OBVIOUS
    <2>1. /\ Cardinality(upTo[x]) \in Nat /\ Cardinality(upTo[y]) \in Nat
          /\ Cardinality(upTo[x]) < Cardinality(upTo[y]) \/ Cardinality(upTo[y]) < Cardinality(upTo[x])
        BY <1>2, <1>3
    <2> QED
        BY <2>1
<1> HIDE DEF n, rank
<1>7. rank \in Injection(S, 1 .. n)
    BY <1>5, <1>6 DEF Injection, IsInjective
<1>8. rank \in Surjection(S, 1 .. n)
    BY <1>4, <1>7, FS_Injection DEF n
<1>9. \A k \in 1 .. n : \E x \in S : Cardinality(upTo[x]) = k
    BY <1>8 DEF Surjection, rank
<1> QED
    BY <1>1, <1>2, <1>3, <1>9 DEF n

LEMMA Intervals ==
    ASSUME NEW n \in Nat
    PROVE  IsFiniteSet(1 .. n) /\ Cardinality(1 .. n) = n
<1>1. 1 \in Int /\ n \in Int
    OBVIOUS
<1>2. IsFiniteSet(1 .. n) /\ Cardinality(1 .. n) = IF 1 > n THEN 0 ELSE n - 1 + 1
    BY <1>1, FS_Interval
<1> QED
    BY <1>2

\* o has the elements of S, each once, as at increases.
Enumerates(o, S) ==
    /\ Cardinality(S) \in Nat
    /\ \A k \in 1 .. Cardinality(S) : o[k] \in S
    /\ \A x \in S : \E k \in 1 .. Cardinality(S) : o[k] = x

LEMMA InOrderEnumerates ==
    ASSUME NEW S \in SUBSET Int, IsFiniteSet(S)
    PROVE  /\ Enumerates(InOrder(S), S)
           /\ \A k, l \in 1 .. Cardinality(S) : k < l => InOrder(S)[k] < InOrder(S)[l]
<1> DEFINE upTo == [x \in S |-> {y \in S : y <= x}]
           n == Cardinality(S)
           at(k) == CHOOSE x \in S : Rank(S, x) = k
<1>0. \A x \in S : Rank(S, x) = Cardinality(upTo[x])
    BY DEF Rank
<1>1. /\ upTo \in [S -> SUBSET S] /\ \A x \in S : x \in upTo[x]
      /\ \A x, y \in S : x <= y => upTo[x] \subseteq upTo[y]
    <2>1. \A x \in S : x \in Int
        OBVIOUS
    <2>2. upTo \in [S -> SUBSET S] /\ \A x \in S : x \in upTo[x]
        BY <2>1
    <2>3. ASSUME NEW x \in S, NEW y \in S, x <= y, NEW z \in upTo[x]
          PROVE  z \in upTo[y]
        <3>1. z \in S /\ z <= x
            OBVIOUS
        <3>2. z <= y
            BY <2>1, <2>3, <3>1
        <3> QED
            BY <3>1, <3>2
    <2> QED
        BY <2>2, <2>3
<1>2. \A x, y \in S : x # y => upTo[x] # upTo[y]
    <2> SUFFICES ASSUME NEW x \in S, NEW y \in S, x < y
                 PROVE  upTo[x] # upTo[y]
        OBVIOUS
    <2>1. y \in upTo[y] /\ y \notin upTo[x]
        OBVIOUS
    <2> QED
        BY <2>1
<1>3. \A x, y \in S : upTo[x] \subseteq upTo[y] \/ upTo[y] \subseteq upTo[x]
    BY <1>1
<1> HIDE DEF upTo
<1>4. /\ n \in Nat
      /\ \A x \in S : Cardinality(upTo[x]) \in 1 .. n
      /\ \A x, y \in S : upTo[x] \subseteq upTo[y] /\ x # y
                           => Cardinality(upTo[x]) < Cardinality(upTo[y])
      /\ \A k \in 1 .. n : \E x \in S : Cardinality(upTo[x]) = k
    BY <1>1, <1>2, <1>3, ChainsAreRanked
<1>5. /\ \A x \in S : Rank(S, x) \in 1 .. n
      /\ \A k \in 1 .. n : \E x \in S : Rank(S, x) = k
      /\ \A x, y \in S : x < y => Rank(S, x) < Rank(S, y)
    BY <1>0, <1>1, <1>4
<1>6. \A k \in 1 .. n : at(k) \in S /\ Rank(S, at(k)) = k
    BY <1>5
<1>7. InOrder(S) = [k \in 1 .. n |-> at(k)]
    BY DEF InOrder
<1> HIDE DEF n, at
<1>8. ASSUME NEW x \in S
      PROVE  \E k \in 1 .. n : InOrder(S)[k] = x
    <2> DEFINE k == Rank(S, x)
               y == at(k)
    <2>1. k \in 1 .. n /\ InOrder(S)[k] = y /\ y \in S /\ Rank(S, y) = k /\ k = Rank(S, x)
        BY <1>5, <1>6, <1>7
    <2> HIDE DEF k, y
    <2>2. x \in Int /\ y \in Int
        BY <2>1
    <2>3. ~(x < y) /\ ~(y < x)
        <3>1. /\ x < y => Rank(S, x) < Rank(S, y)
              /\ y < x => Rank(S, y) < Rank(S, x)
            BY <1>5, <2>1
        <3> QED
            BY <2>1, <2>2, <3>1
    <2> QED
        BY <2>1, <2>2, <2>3
<1>9. ASSUME NEW k \in 1 .. n, NEW l \in 1 .. n, k < l
      PROVE  InOrder(S)[k] < InOrder(S)[l]
    <2> DEFINE x == at(k)
               y == at(l)
    <2>1. /\ InOrder(S)[k] = x /\ x \in S /\ Rank(S, x) = k
          /\ InOrder(S)[l] = y /\ y \in S /\ Rank(S, y) = l
        BY <1>6, <1>7
    <2> HIDE DEF x, y
    <2>2. x \in Int /\ y \in Int /\ x # y
        BY <1>9, <2>1
    <2>3. ~(y < x)
        <3>1. y < x => Rank(S, y) < Rank(S, x)
            BY <1>5, <2>1
        <3>2. k \in Nat /\ l \in Nat
            BY <1>4
        <3> QED
            BY <1>9, <2>1, <3>1, <3>2
    <2> QED
        BY <2>1, <2>2, <2>3
<1>10. \A k \in 1 .. n : InOrder(S)[k] \in S
    BY <1>6, <1>7
<1> QED
    BY <1>4, <1>8, <1>9, <1>10 DEF n, Enumerates

IsList(s) == Len(s) \in Nat /\ s = [k \in 1 .. Len(s) |-> s[k]]

LEMMA FirstOf ==
    ASSUME NEW s, Len(s) \in Nat, NEW n \in Nat
    PROVE  /\ Len(First(n, s)) = IF n < Len(s) THEN n ELSE Len(s)
           /\ First(n, s) = [k \in 1 .. Len(First(n, s)) |-> s[k]]
<1> DEFINE t == IF n < Len(s) THEN n ELSE Len(s)
           S == {s[k] : k \in 1 .. t}
           a == SubSeq(s, 1, t)
<1>1. t \in Nat /\ t \in Int /\ 1 \in Int
    OBVIOUS
<1>2. First(n, s) = a
    BY DEF First
<1>3. \A k \in 1 .. t : s[k] \in S
    OBVIOUS
<1> HIDE DEF S, t
<1>4. /\ a \in Seq(S) /\ Len(a) = IF 1 <= t THEN t - 1 + 1 ELSE 0
      /\ \A k \in 1 .. t - 1 + 1 : a[k] = s[1 + k - 1]
    BY <1>1, <1>3, SubSeqProperties
<1> HIDE DEF a
<1>5. Len(a) = t /\ \A k \in 1 .. t : a[k] = s[k]
    <2>1. t - 1 + 1 = t
        BY <1>1
    <2>2. \A k \in 1 .. t : 1 + k - 1 = k
        BY <1>1
    <2> QED
        BY <1>1, <1>4, <2>1, <2>2
<1>6. a = [k \in 1 .. t |-> a[k]]
    BY <1>4, <1>5
<1> QED
    BY <1>2, <1>5, <1>6 DEF t

\* What a query makes of a list: the matching entries in their order, up to the limit.
TheFirstOf(a, s, filter, limit) ==
    /\ IsList(a) /\ Len(a) <= limit
    /\ \A i \in 1 .. Len(a) : \E k \in 1 .. Len(s) : a[i] = s[k] /\ Matches(s[k], filter)
    /\ (\A k, l \in 1 .. Len(s) : s[k] = s[l] => k = l)
         => \A i, j \in 1 .. Len(a) : a[i] = a[j] => i = j
    /\ \A k \in 1 .. Len(s) : Matches(s[k], filter) =>
         \/ \E i \in 1 .. Len(a) : a[i] = s[k]
         \/ Len(a) = limit /\ \A i \in 1 .. Len(a) : \E j \in 1 .. k - 1 : a[i] = s[j]

LEMMA FirstMatching ==
    ASSUME NEW s, IsList(s), NEW filter, NEW limit \in Nat,
           NEW a, a = First(limit, Matching(s, filter))
    PROVE  TheFirstOf(a, s, filter, limit)
<1> DEFINE n == Len(s)
           S == {i \in DOMAIN s : Matches(s[i], filter)}
           o == InOrder(S)
           c == Cardinality(S)
           m == Matching(s, filter)
<1>1. n \in Nat /\ DOMAIN s = 1 .. n
    BY DEF IsList
<1>2. S \in SUBSET Int /\ S \subseteq 1 .. n /\ IsFiniteSet(S)
    <2>1. S \in SUBSET (1 .. n) /\ IsFiniteSet(1 .. n)
        BY <1>1, Intervals
    <2> HIDE DEF S
    <2>2. IsFiniteSet(S)
        BY <2>1, FS_Subset
    <2> QED
        BY <1>1, <2>1, <2>2
<1>3. \A k \in 1 .. n : k \in S <=> Matches(s[k], filter)
    BY <1>1
<1>4. m = [k \in 1 .. c |-> s[o[k]]]
    BY Zenon DEF Matching, Picked
<1> HIDE DEF n, S, m
<1>5. /\ c \in Nat /\ \A k \in 1 .. c : o[k] \in S
      /\ \A x \in S : \E k \in 1 .. c : o[k] = x
      /\ \A k, l \in 1 .. c : k < l => o[k] < o[l]
    BY <1>2, InOrderEnumerates DEF Enumerates
<1> HIDE DEF o, c
<1>6. Len(m) = c /\ \A k \in 1 .. c : m[k] = s[o[k]]
    BY <1>4, <1>5
<1> DEFINE t == IF limit < c THEN limit ELSE c
<1>7. Len(a) = t /\ a = [k \in 1 .. t |-> m[k]]
    BY <1>5, <1>6, FirstOf DEF m
<1>8. t \in Nat /\ t <= limit /\ t <= c /\ (t < c => t = limit)
    BY <1>5
<1> HIDE DEF t
<1>9. ASSUME NEW i \in 1 .. t
      PROVE  i \in 1 .. c /\ a[i] = s[o[i]] /\ o[i] \in S /\ o[i] \in 1 .. n
    <2>1. i \in 1 .. c
        BY <1>5, <1>8
    <2>2. a[i] = m[i]
        BY <1>7
    <2>3. o[i] \in S /\ m[i] = s[o[i]]
        BY <1>5, <1>6, <2>1
    <2> QED
        BY <1>2, <2>1, <2>2, <2>3
<1>10. ASSUME \A k, l \in 1 .. n : s[k] = s[l] => k = l,
              NEW i \in 1 .. t, NEW j \in 1 .. t, a[i] = a[j]
       PROVE  i = j
    <2>1. o[i] = o[j] /\ o[i] \in Nat
        BY <1>1, <1>9, <1>10
    <2>2. i \in Nat /\ j \in Nat
        BY <1>8
    <2>3. ~(i < j) /\ ~(j < i)
        BY <1>5, <1>9, <2>1
    <2> QED
        BY <2>2, <2>3
<1>11. ASSUME NEW k \in 1 .. n, Matches(s[k], filter), ~\E i \in 1 .. t : a[i] = s[k]
       PROVE  t = limit /\ \A i \in 1 .. t : \E j \in 1 .. k - 1 : a[i] = s[j]
    <2>1. PICK r \in 1 .. c : o[r] = k
        BY <1>3, <1>5, <1>11
    <2>2. r \in Nat /\ k \in Nat
        BY <1>1, <1>5
    <2>3. ~(r \in 1 .. t)
        BY <1>9, <1>11, <2>1
    <2>4. t < r /\ t < c
        BY <1>5, <1>8, <2>1, <2>2, <2>3
    <2>5. ASSUME NEW i \in 1 .. t
          PROVE  \E j \in 1 .. k - 1 : a[i] = s[j]
        <3>1. i < r /\ i \in 1 .. c
            BY <1>8, <1>9, <2>2, <2>4
        <3>2. o[i] < k
            BY <1>5, <2>1, <3>1
        <3>3. o[i] \in 1 .. k - 1 /\ a[i] = s[o[i]]
            BY <1>1, <1>9, <2>2, <3>2
        <3> QED
            BY <3>3
    <2> QED
        BY <1>8, <2>4, <2>5
<1>12. IsList(a)
    BY <1>7, <1>8 DEF IsList
<1>13. \A i \in 1 .. t : \E k \in 1 .. n : a[i] = s[k] /\ Matches(s[k], filter)
    BY <1>3, <1>9
<1> QED
    BY <1>7, <1>8, <1>10, <1>11, <1>12, <1>13 DEF n, TheFirstOf

LEMMA RecentFromTheEnd ==
    ASSUME NEW w, Len(w) \in Nat, NEW n \in Nat, NEW r, r = Recent(w, n)
    PROVE  /\ IsList(r) /\ Len(r) = IF n < Len(w) THEN n ELSE Len(w)
           /\ \A i \in 1 .. Len(r) : r[i] = w[Len(w) - i + 1]
<1> DEFINE v == Reverse(w)
<1>1. v = [i \in 1 .. Len(w) |-> w[(Len(w) - i) + 1]]
    BY DEF Reverse
<1>2. Len(v) = Len(w)
    BY <1>1
<1>3. r = First(n, v)
    BY DEF Recent, First
<1> HIDE DEF v
<1>4. /\ Len(r) = IF n < Len(w) THEN n ELSE Len(w)
      /\ r = [k \in 1 .. Len(r) |-> v[k]]
    BY <1>2, <1>3, FirstOf
<1>5. Len(r) \in Nat /\ Len(r) <= Len(w)
    BY <1>4
<1>6. ASSUME NEW i \in 1 .. Len(r)
      PROVE  r[i] = w[Len(w) - i + 1]
    <2>1. r[i] = v[i]
        BY <1>4
    <2>2. i \in 1 .. Len(w)
        BY <1>5
    <2>3. v[i] = w[(Len(w) - i) + 1]
        BY <1>1, <2>2
    <2> QED
        BY <2>1, <2>3
<1>7. r = [k \in 1 .. Len(r) |-> r[k]]
    BY <1>4
<1> QED
    BY <1>4, <1>5, <1>6, <1>7 DEF IsList

LEMMA DistinctEntries ==
    ASSUME NEW a, IsList(a), \A i, j \in 1 .. Len(a) : a[i] = a[j] => i = j
    PROVE  Cardinality(ToSet(a)) = Len(a)
<1> DEFINE D == 1 .. Len(a)
           f == [i \in D |-> a[i]]
           T == ToSet(a)
<1>1. Len(a) \in Nat /\ DOMAIN a = D
    BY DEF IsList
<1>2. T = {a[i] : i \in D}
    BY <1>1 DEF ToSet
<1>3. f \in Surjection(D, T) /\ f \in Injection(D, T)
    BY <1>2 DEF Surjection, Injection, IsInjective
<1>4. IsFiniteSet(D) /\ Cardinality(D) = Len(a)
    BY <1>1, Intervals
<1> HIDE DEF D, f, T
<1>5. Cardinality(T) = Cardinality(D)
    BY <1>3, <1>4, FS_Surjection
<1> QED
    BY <1>4, <1>5 DEF T

\* The numbers of a window's transactions follow each other.
NumberedFrom(w, p, c) ==
    \A i \in 1 .. Len(w) : w[i].n = c + i /\ w[i].program = p

\* What a query of n transactions does not reach has n newer ones.
LEMMA BehindTheScan ==
    ASSUME NEW w, Len(w) \in Nat, DOMAIN w = 1 .. Len(w), NEW p, NEW c \in Nat,
           NumberedFrom(w, p, c), NEW n \in Nat, NEW j \in 1 .. Len(w), Len(w) - j >= n
    PROVE  Cardinality({k \in DOMAIN w : w[k].n > w[j].n}) >= n
<1>1. \A k \in 1 .. Len(w) : w[k].n > w[j].n <=> k > j
    BY DEF NumberedFrom
<1>2. {k \in DOMAIN w : w[k].n > w[j].n} = j + 1 .. Len(w)
    BY <1>1
<1>3. j + 1 \in Int /\ Len(w) \in Int
    OBVIOUS
<1>4. Cardinality(j + 1 .. Len(w)) = IF j + 1 > Len(w) THEN 0 ELSE Len(w) - (j + 1) + 1
    BY <1>3, FS_Interval
<1> DEFINE C == Cardinality(j + 1 .. Len(w))
<1>5. C >= n
    BY <1>4
<1> QED
    BY <1>2, <1>5

LEMMA QueryOfOne ==
    ASSUME NEW w \in Seq(Stored), NEW p, NEW c \in Nat, NumberedFrom(w, p, c),
           NEW limit \in Nat, NEW filter, NEW a, a = RecentOf(w, limit, filter)
    PROVE  /\ Proper(a, limit, filter)
           /\ \A j \in DOMAIN w : w[j].category \in filter =>
                \/ \E i \in DOMAIN a : a[i] = w[j]
                \/ Len(a) = limit /\ \A i \in DOMAIN a : a[i].n > w[j].n
                \/ Cardinality({k \in DOMAIN w : w[k].n > w[j].n}) >= Scan * limit
<1> DEFINE n == Scan * limit
           r == Recent(w, n)
<1>1. n \in Nat
    BY ScanIsPositive
<1>2. a = First(limit, Matching(r, filter))
    BY DEF RecentOf
<1>3. Len(w) \in Nat /\ DOMAIN w = 1 .. Len(w)
    OBVIOUS
<1>4. n = Scan * limit
    OBVIOUS
<1> HIDE DEF n
<1>5. /\ IsList(r) /\ Len(r) = IF n < Len(w) THEN n ELSE Len(w)
      /\ \A i \in 1 .. Len(r) : r[i] = w[Len(w) - i + 1]
    BY <1>1, <1>3, RecentFromTheEnd
<1> HIDE DEF r
<1>6. TheFirstOf(a, r, filter, limit)
    BY <1>2, <1>5, FirstMatching
<1>7. /\ IsList(a) /\ Len(a) <= limit
      /\ \A i \in 1 .. Len(a) : \E k \in 1 .. Len(r) : a[i] = r[k] /\ Matches(r[k], filter)
      /\ (\A k, l \in 1 .. Len(r) : r[k] = r[l] => k = l)
            => \A i, j \in 1 .. Len(a) : a[i] = a[j] => i = j
      /\ \A k \in 1 .. Len(r) : Matches(r[k], filter) =>
            \/ \E i \in 1 .. Len(a) : a[i] = r[k]
            \/ Len(a) = limit /\ \A i \in 1 .. Len(a) : \E j \in 1 .. k - 1 : a[i] = r[j]
    BY <1>6 DEF TheFirstOf
<1>8. ASSUME NEW k \in 1 .. Len(r)
      PROVE  r[k].n = c + (Len(w) - k + 1)
    <2>1. Len(w) - k + 1 \in 1 .. Len(w) /\ r[k] = w[Len(w) - k + 1]
        BY <1>1, <1>3, <1>5
    <2> QED
        BY <2>1 DEF NumberedFrom
<1>9. \A k, l \in 1 .. Len(r) : r[k] = r[l] => k = l
    BY <1>3, <1>8
<1>10. DOMAIN a = 1 .. Len(a)
    BY <1>7 DEF IsList
<1>11. Proper(a, limit, filter)
    BY <1>7, <1>9, <1>10, DistinctEntries DEF Proper, Matches
<1>12. ASSUME NEW j \in DOMAIN w, w[j].category \in filter
       PROVE  \/ \E i \in DOMAIN a : a[i] = w[j]
              \/ Len(a) = limit /\ \A i \in DOMAIN a : a[i].n > w[j].n
              \/ Cardinality({k \in DOMAIN w : w[k].n > w[j].n}) >= n
    <2> DEFINE k == Len(w) - j + 1
    <2>0. j \in 1 .. Len(w) /\ k \in Int /\ k = Len(w) - j + 1 /\ Len(w) - k + 1 = j
        BY <1>3
    <2> HIDE DEF k
    <2>1. CASE k <= Len(r)
        <3>1. k \in 1 .. Len(r) /\ r[k] = w[j] /\ Matches(r[k], filter)
            BY <1>3, <1>5, <1>12, <2>0, <2>1 DEF Matches
        <3>2. ASSUME Len(a) = limit, \A i \in 1 .. Len(a) : \E l \in 1 .. k - 1 : a[i] = r[l]
              PROVE  \A i \in 1 .. Len(a) : a[i].n > w[j].n
            <4> SUFFICES ASSUME NEW i \in 1 .. Len(a)
                         PROVE  a[i].n > w[j].n
                OBVIOUS
            <4>1. PICK l \in 1 .. k - 1 : a[i] = r[l]
                BY <3>2
            <4>2. l \in 1 .. Len(r) /\ l < k /\ l \in Int
                <5>1. Len(r) \in Nat /\ k \in Int /\ k <= Len(r)
                    BY <1>5, <2>0, <2>1 DEF IsList
                <5>2. l \in Int /\ 1 <= l /\ l <= k - 1
                    BY <5>1
                <5> QED
                    BY <5>1, <5>2
            <4>3. r[l].n = c + (Len(w) - l + 1) /\ r[k].n = c + (Len(w) - k + 1)
                BY <1>8, <3>1, <4>2
            <4>4. r[l].n > r[k].n
                <5>1. Len(w) \in Int /\ k \in Int /\ c \in Int
                    BY <1>3, <2>0
                <5>2. Len(w) - l + 1 > Len(w) - k + 1
                    BY <4>2, <5>1
                <5> QED
                    BY <4>2, <4>3, <5>1, <5>2
            <4> QED
                BY <3>1, <4>1, <4>4
        <3>3. \/ \E i \in 1 .. Len(a) : a[i] = r[k]
              \/ Len(a) = limit /\ \A i \in 1 .. Len(a) : \E l \in 1 .. k - 1 : a[i] = r[l]
            BY <1>7, <3>1
        <3> QED
            BY <1>10, <3>1, <3>2, <3>3
    <2>2. CASE ~(k <= Len(r))
        <3>1. Len(w) - j >= n
            BY <1>1, <1>3, <1>5, <2>0, <2>2
        <3> QED
            BY <1>1, <1>3, <2>0, <3>1, BehindTheScan
    <2> QED
        BY <2>1, <2>2
<1> QED
    BY <1>4, <1>11, <1>12

-----------------------------------------------------------------------------
(* A query of all programs *)

\* The list s has the transactions found, each from its own place, newest first.
Arranged(s, place, found) ==
    /\ IsList(s) /\ place \in [1 .. Len(s) -> found]
    /\ \A k \in 1 .. Len(s) : s[k] = place[k].tx
    /\ \A k, l \in 1 .. Len(s) : k < l => place[k] # place[l] /\ s[k].at >= s[l].at
    /\ \A b \in found : \E k \in 1 .. Len(s) : place[k] = b

LEMMA BeforeIsAnOrder ==
    ASSUME NEW found,
           \A b \in found : b.tx.at \in Int /\ b.window \in Int /\ b.back \in Int,
           \A a, b \in found : a.window = b.window /\ a.back = b.back => a = b
    PROVE  /\ \A a, b \in found : Before(a, b) => a # b /\ ~Before(b, a) /\ a.tx.at >= b.tx.at
           /\ \A a, b \in found : a # b => Before(a, b) \/ Before(b, a)
           /\ \A a, b, d \in found : Before(a, b) /\ Before(b, d) => Before(a, d)
<1>1. ASSUME NEW a \in found, NEW b \in found, Before(a, b)
      PROVE  a # b /\ ~Before(b, a) /\ a.tx.at >= b.tx.at
    BY <1>1 DEF Before
<1>2. ASSUME NEW a \in found, NEW b \in found, a # b
      PROVE  Before(a, b) \/ Before(b, a)
    <2>1. a.window # b.window \/ a.back # b.back
        BY <1>2
    <2> QED
        BY <2>1 DEF Before
<1>3. ASSUME NEW a \in found, NEW b \in found, NEW d \in found, Before(a, b), Before(b, d)
      PROVE  Before(a, d)
    BY <1>3 DEF Before
<1> QED
    BY <1>1, <1>2, <1>3

LEMMA NewestFirstArranges ==
    ASSUME NEW found, IsFiniteSet(found),
           \A b \in found : b.tx.at \in Int /\ b.window \in Int /\ b.back \in Int,
           \A a, b \in found : a.window = b.window /\ a.back = b.back => a = b,
           NEW s, s = NewestFirst(found)
    PROVE  \E place : Arranged(s, place, found)
<1> DEFINE upTo == [b \in found |-> {a \in found : a = b \/ Before(a, b)}]
           n == Cardinality(found)
           at(k) == CHOOSE b \in found : Cardinality({a \in found : a = b \/ Before(a, b)}) = k
           place == [k \in 1 .. n |-> at(k)]
<1>1. /\ \A a, b \in found : Before(a, b) => a # b /\ ~Before(b, a) /\ a.tx.at >= b.tx.at
      /\ \A a, b \in found : a # b => Before(a, b) \/ Before(b, a)
      /\ \A a, b, d \in found : Before(a, b) /\ Before(b, d) => Before(a, d)
    BY BeforeIsAnOrder
<1>2. upTo \in [found -> SUBSET found] /\ \A b \in found : b \in upTo[b]
    OBVIOUS
<1>3. \A a, b \in found : Before(a, b) => upTo[a] \subseteq upTo[b]
    BY <1>1
<1>4. \A a, b \in found : a # b => upTo[a] # upTo[b]
    <2>1. \A a, b \in found : Before(a, b) => b \in upTo[b] /\ b \notin upTo[a]
        BY <1>1
    <2> QED
        BY <1>1, <2>1
<1>5. \A b \in found : Cardinality({a \in found : a = b \/ Before(a, b)}) = Cardinality(upTo[b])
    OBVIOUS
<1>6. s = [k \in 1 .. n |-> at(k).tx]
    BY Zenon DEF NewestFirst
<1> HIDE DEF upTo, n
<1>7. \A a, b \in found : upTo[a] \subseteq upTo[b] \/ upTo[b] \subseteq upTo[a]
    BY <1>1, <1>3
<1>8. /\ n \in Nat
      /\ \A x \in found : Cardinality(upTo[x]) \in 1 .. n
      /\ \A x, y \in found : upTo[x] \subseteq upTo[y] /\ x # y
                               => Cardinality(upTo[x]) < Cardinality(upTo[y])
      /\ \A k \in 1 .. n : \E x \in found : Cardinality(upTo[x]) = k
    BY <1>2, <1>4, <1>7, ChainsAreRanked DEF n
<1>9. ASSUME NEW k \in 1 .. n
      PROVE  at(k) \in found /\ Cardinality(upTo[at(k)]) = k
    <2>1. \E b \in found : Cardinality({a \in found : a = b \/ Before(a, b)}) = k
        BY <1>5, <1>8
    <2>2. /\ at(k) \in found
          /\ Cardinality({a \in found : a = at(k) \/ Before(a, at(k))}) = k
        BY <2>1
    <2> HIDE DEF at
    <2> QED
        BY <1>5, <2>2
<1> HIDE DEF at
<1>10. /\ Len(s) = n /\ IsList(s) /\ place \in [1 .. n -> found]
       /\ \A k \in 1 .. n : s[k] = place[k].tx /\ Cardinality(upTo[place[k]]) = k
    <2>1. Len(s) = n /\ s = [k \in 1 .. n |-> s[k]]
        BY <1>6, <1>8
    <2> QED
        BY <1>6, <1>8, <1>9, <2>1 DEF IsList
<1> HIDE DEF place
<1>11. \A x, y \in found : Cardinality(upTo[x]) = Cardinality(upTo[y]) => x = y
    <2> SUFFICES ASSUME NEW x \in found, NEW y \in found, x # y
                 PROVE  Cardinality(upTo[x]) # Cardinality(upTo[y])
        OBVIOUS
    <2>1. Cardinality(upTo[x]) \in Nat /\ Cardinality(upTo[y]) \in Nat
        BY <1>8
    <2>2. Cardinality(upTo[x]) < Cardinality(upTo[y]) \/ Cardinality(upTo[y]) < Cardinality(upTo[x])
        BY <1>7, <1>8
    <2> QED
        BY <2>1, <2>2
<1>12. ASSUME NEW k \in 1 .. n, NEW l \in 1 .. n, k < l
       PROVE  place[k] # place[l] /\ s[k].at >= s[l].at
    <2> DEFINE x == place[k]
               y == place[l]
    <2>1. /\ x \in found /\ y \in found /\ s[k] = x.tx /\ s[l] = y.tx
          /\ Cardinality(upTo[x]) = k /\ Cardinality(upTo[y]) = l /\ k \in Nat /\ l \in Nat
        BY <1>8, <1>10
    <2> HIDE DEF x, y
    <2>2. x # y
        BY <1>12, <2>1
    <2>3. ~Before(y, x)
        <3>1. Before(y, x) => Cardinality(upTo[y]) < Cardinality(upTo[x])
            BY <1>3, <1>8, <2>1, <2>2
        <3> QED
            BY <1>12, <2>1, <3>1
    <2>4. Before(x, y)
        BY <1>1, <2>1, <2>2, <2>3
    <2>5. x.tx.at >= y.tx.at
        BY <1>1, <2>1, <2>4
    <2> QED
        BY <2>1, <2>2, <2>5 DEF x, y
<1>13. ASSUME NEW b \in found
       PROVE  \E k \in 1 .. n : place[k] = b
    <2> DEFINE k == Cardinality(upTo[b])
    <2>1. k \in 1 .. n
        BY <1>8
    <2>2. place[k] \in found /\ Cardinality(upTo[place[k]]) = k
        BY <1>10, <2>1
    <2>3. place[k] = b
        BY <1>11, <2>2
    <2> QED
        BY <2>1, <2>3
<1>14. Arranged(s, place, found)
    BY <1>10, <1>12, <1>13 DEF Arranged
<1> QED
    BY <1>14

LEMMA OrdersHaveAll ==
    ASSUME NEW order \in Orders
    PROVE  /\ Cardinality(Programs) \in Nat
           /\ order \in [1 .. Cardinality(Programs) -> Programs]
           /\ \A o, q \in 1 .. Cardinality(Programs) : order[o] = order[q] => o = q
           /\ \A p \in Programs : \E o \in 1 .. Cardinality(Programs) : order[o] = p
<1> DEFINE m == Cardinality(Programs)
           D == 1 .. m
<1>1. IsFiniteSet(Programs) /\ m \in Nat
    BY WindowParametersAreGiven, FS_CardinalityType
<1>2. order \in [D -> Programs] /\ \A o, q \in D : order[o] = order[q] => o = q
    <2>1. order \in {f \in [D -> Programs] : \A i, j \in D : i # j => f[i] # f[j]}
        BY Zenon DEF Orders, SetToSeqs
    <2> HIDE DEF D
    <2> QED
        BY <2>1
<1>3. IsFiniteSet(D) /\ Cardinality(D) = m
    BY <1>1, Intervals
<1> HIDE DEF D, m
<1>4. order \in Injection(D, Programs)
    BY <1>2 DEF Injection, IsInjective
<1>5. order \in Surjection(D, Programs)
    BY <1>1, <1>3, <1>4, FS_Injection DEF m
<1>6. \A p \in Programs : \E o \in D : order[o] = p
    BY <1>5 DEF Surjection
<1> QED
    BY <1>1, <1>2, <1>6 DEF D, m

LEMMA FiniteImages ==
    ASSUME NEW n \in Nat, NEW f, f = [i \in 1 .. n |-> f[i]]
    PROVE  IsFiniteSet({f[i] : i \in 1 .. n})
<1> DEFINE D == 1 .. n
           T == {f[i] : i \in D}
<1>1. f \in Surjection(D, T)
    BY DEF Surjection
<1>2. IsFiniteSet(D)
    BY Intervals
<1> HIDE DEF D, T
<1>3. IsFiniteSet(T)
    BY <1>1, <1>2, FS_Surjection
<1> QED
    BY <1>3 DEF T, D

\* The last n transactions of every window and nothing else, each at its place.
FoundIn(found, ws, order, m, n) ==
    /\ IsFiniteSet(found)
    /\ \A b \in found : \E o \in 1 .. m : \E j \in 1 .. Len(ws[order[o]]) :
          b = [window |-> o, back |-> Len(ws[order[o]]) - j + 1, tx |-> ws[order[o]][j]]
    /\ \A o \in 1 .. m : \A j \in 1 .. Len(ws[order[o]]) : Len(ws[order[o]]) - j < n =>
          [window |-> o, back |-> Len(ws[order[o]]) - j + 1, tx |-> ws[order[o]][j]] \in found

LEMMA WhatIsFound ==
    ASSUME NEW m \in Nat, NEW order \in [1 .. m -> Programs],
           NEW ws \in [Programs -> Seq(Stored)], NEW n \in Nat,
           NEW found, found = LastOfEach(ws, order, n)
    PROVE  FoundIn(found, ws, order, m, n)
<1> DEFINE r(o) == Recent(ws[order[o]], n)
           item(o, i) == [window |-> o, back |-> i, tx |-> r(o)[i]]
           items(o) == {item(o, i) : i \in DOMAIN r(o)}
           all == [o \in 1 .. m |-> items(o)]
<1>1. found = UNION {items(o) : o \in DOMAIN order}
    BY Zenon DEF LastOfEach
<1>2. DOMAIN order = 1 .. m
    OBVIOUS
<1>3. ASSUME NEW o \in 1 .. m
      PROVE  /\ ws[order[o]] \in Seq(Stored) /\ Len(ws[order[o]]) \in Nat
             /\ IsList(r(o)) /\ DOMAIN r(o) = 1 .. Len(r(o)) /\ Len(r(o)) \in Nat
             /\ Len(r(o)) = IF n < Len(ws[order[o]]) THEN n ELSE Len(ws[order[o]])
             /\ \A i \in 1 .. Len(r(o)) : r(o)[i] = ws[order[o]][Len(ws[order[o]]) - i + 1]
    <2> DEFINE w == ws[order[o]]
    <2>1. w \in Seq(Stored) /\ Len(w) \in Nat
        OBVIOUS
    <2> HIDE DEF w
    <2>2. /\ IsList(Recent(w, n)) /\ Len(Recent(w, n)) = IF n < Len(w) THEN n ELSE Len(w)
          /\ \A i \in 1 .. Len(Recent(w, n)) : Recent(w, n)[i] = w[Len(w) - i + 1]
        BY <2>1, RecentFromTheEnd
    <2>3. DOMAIN Recent(w, n) = 1 .. Len(Recent(w, n)) /\ Len(Recent(w, n)) \in Nat
        BY <2>2 DEF IsList
    <2> QED
        BY <2>1, <2>2, <2>3 DEF w
<1> HIDE DEF r
<1>4. ASSUME NEW o \in 1 .. m
      PROVE  IsFiniteSet(items(o))
    <2> DEFINE k == Len(r(o))
               f == [i \in 1 .. k |-> item(o, i)]
    <2>1. k \in Nat /\ items(o) = {f[i] : i \in 1 .. k} /\ f = [i \in 1 .. k |-> f[i]]
        BY <1>3
    <2> HIDE DEF k, f
    <2>2. IsFiniteSet({f[i] : i \in 1 .. k})
        BY <2>1, FiniteImages
    <2> QED
        BY <2>1, <2>2
<1>5. IsFiniteSet(found)
    <2> HIDE DEF items
    <2>1. all = [o \in 1 .. m |-> all[o]] /\ {items(o) : o \in DOMAIN order} = {all[o] : o \in 1 .. m}
        BY <1>2
    <2> HIDE DEF all
    <2>2. IsFiniteSet({all[o] : o \in 1 .. m})
        BY <2>1, FiniteImages
    <2> DEFINE U == {items(o) : o \in DOMAIN order}
    <2>3. IsFiniteSet(U) /\ \A T \in U : IsFiniteSet(T)
        BY <1>2, <1>4, <2>1, <2>2
    <2> HIDE DEF U
    <2>4. IsFiniteSet(UNION U)
        BY <2>3, FS_UNION
    <2> QED
        BY <1>1, <2>4 DEF U
<1>6. ASSUME NEW b \in found
      PROVE  \E o \in 1 .. m : \E j \in 1 .. Len(ws[order[o]]) :
                 b = [window |-> o, back |-> Len(ws[order[o]]) - j + 1, tx |-> ws[order[o]][j]]
    <2>1. PICK o \in 1 .. m : b \in items(o)
        BY <1>1, <1>2
    <2>2. PICK i \in 1 .. Len(r(o)) : b = item(o, i)
        BY <1>3, <2>1
    <2> DEFINE w == ws[order[o]]
               j == Len(w) - i + 1
    <2>3. Len(w) \in Nat /\ Len(r(o)) <= Len(w) /\ Len(r(o)) \in Nat /\ r(o)[i] = w[j]
        BY <1>3, <2>2
    <2>4. i \in Nat /\ i >= 1 /\ i <= Len(r(o))
        BY <2>2, <2>3
    <2> HIDE DEF w
    <2>5. j \in 1 .. Len(w) /\ i = Len(w) - j + 1
        BY <2>3, <2>4
    <2> HIDE DEF j
    <2>6. b = [window |-> o, back |-> Len(w) - j + 1, tx |-> w[j]]
        BY <2>2, <2>3, <2>5
    <2> QED
        BY <2>5, <2>6 DEF w
<1>7. ASSUME NEW o \in 1 .. m, NEW j \in 1 .. Len(ws[order[o]]), Len(ws[order[o]]) - j < n
      PROVE  [window |-> o, back |-> Len(ws[order[o]]) - j + 1, tx |-> ws[order[o]][j]] \in found
    <2> DEFINE w == ws[order[o]]
               i == Len(w) - j + 1
    <2>1. /\ Len(w) \in Nat /\ DOMAIN r(o) = 1 .. Len(r(o))
          /\ Len(r(o)) = IF n < Len(w) THEN n ELSE Len(w)
          /\ \A l \in 1 .. Len(r(o)) : r(o)[l] = w[Len(w) - l + 1]
        BY <1>3
    <2>2. j \in 1 .. Len(w) /\ Len(w) - j < n
        BY <1>7
    <2> HIDE DEF w
    <2>3. i \in 1 .. Len(r(o)) /\ Len(w) - i + 1 = j
        BY <2>1, <2>2
    <2> HIDE DEF i
    <2>4. item(o, i) = [window |-> o, back |-> i, tx |-> w[j]] /\ item(o, i) \in items(o)
        BY <2>1, <2>3
    <2> HIDE DEF item, items
    <2>5. [window |-> o, back |-> i, tx |-> w[j]] \in found
        BY <1>1, <1>2, <2>4
    <2> QED
        BY <2>5 DEF w, i
<1> QED
    BY <1>5, <1>6, <1>7 DEF FoundIn

\* What the answer a to a query of all windows ws leaves out.
MissesTheOld(a, ws, limit, filter) ==
    \A p \in Programs : \A j \in DOMAIN ws[p] : ws[p][j].category \in filter =>
        \/ \E i \in DOMAIN a : a[i] = ws[p][j]
        \/ Len(a) = limit /\ \A i \in DOMAIN a : a[i].at >= ws[p][j].at
        \/ Cardinality({k \in DOMAIN ws[p] : ws[p][k].n > ws[p][j].n}) >= Scan * limit

LEMMA QueryOfAll ==
    ASSUME NEW order \in Orders, NEW ws \in [Programs -> Seq(Stored)], NEW c \in [Programs -> Nat],
           \A p \in Programs : NumberedFrom(ws[p], p, c[p]),
           NEW limit \in Nat, NEW filter, NEW a, a = RecentOfAll(ws, order, limit, filter)
    PROVE  Proper(a, limit, filter) /\ MissesTheOld(a, ws, limit, filter)
<1> DEFINE m == Cardinality(Programs)
           n == Scan * limit
           found == LastOfEach(ws, order, n)
           s == NewestFirst(found)
           item(o, j) == [window |-> o, back |-> Len(ws[order[o]]) - j + 1, tx |-> ws[order[o]][j]]
<1>1. /\ m \in Nat /\ order \in [1 .. m -> Programs]
      /\ \A o, q \in 1 .. m : order[o] = order[q] => o = q
      /\ \A p \in Programs : \E o \in 1 .. m : order[o] = p
    BY OrdersHaveAll
<1>2. n \in Nat /\ n = Scan * limit
    BY ScanIsPositive
<1>3. a = First(limit, Matching(s, filter))
    BY Zenon DEF RecentOfAll
<1> HIDE DEF m, n
<1>4. /\ IsFiniteSet(found)
      /\ \A b \in found : \E o \in 1 .. m : \E j \in 1 .. Len(ws[order[o]]) : b = item(o, j)
      /\ \A o \in 1 .. m : \A j \in 1 .. Len(ws[order[o]]) :
            Len(ws[order[o]]) - j < n => item(o, j) \in found
    <2> HIDE DEF found
    <2>1. FoundIn(found, ws, order, m, n)
        BY <1>1, <1>2, WhatIsFound DEF found
    <2> QED
        BY <2>1 DEF FoundIn
<1> HIDE DEF found
<1>5. ASSUME NEW o \in 1 .. m, NEW j \in 1 .. Len(ws[order[o]])
      PROVE  /\ order[o] \in Programs
             /\ Len(ws[order[o]]) \in Nat /\ j \in Nat /\ ws[order[o]][j] \in Stored
             /\ ws[order[o]][j].n = c[order[o]] + j /\ ws[order[o]][j].program = order[o]
             /\ c[order[o]] \in Nat
    <2>1. order[o] \in Programs
        BY <1>1
    <2>2. /\ ws[order[o]] \in Seq(Stored) /\ c[order[o]] \in Nat
          /\ NumberedFrom(ws[order[o]], order[o], c[order[o]])
        BY <2>1
    <2>3. Len(ws[order[o]]) \in Nat /\ ws[order[o]][j] \in Stored
        BY <2>2
    <2> QED
        BY <2>1, <2>2, <2>3 DEF NumberedFrom
<1>6. ASSUME NEW b \in found
      PROVE  b.tx.at \in Int /\ b.window \in Int /\ b.back \in Int
    <2>1. PICK o \in 1 .. m : \E j \in 1 .. Len(ws[order[o]]) : b = item(o, j)
        BY <1>4
    <2>2. PICK j \in 1 .. Len(ws[order[o]]) : b = item(o, j)
        BY <2>1
    <2>3. b.window = o /\ b.back = Len(ws[order[o]]) - j + 1 /\ b.tx = ws[order[o]][j]
        BY <2>2
    <2>4. ws[order[o]][j].at \in Int /\ Len(ws[order[o]]) \in Nat /\ j \in Nat /\ o \in Int
        <3>1. ws[order[o]][j] \in Stored /\ Len(ws[order[o]]) \in Nat /\ j \in Nat
            BY <1>5
        <3>2. o \in Int
            BY <1>1
        <3> QED
            BY <3>1, <3>2 DEF Stored
    <2> QED
        BY <2>3, <2>4
\* Two places have two transactions.
<1>7. ASSUME NEW b \in found, NEW d \in found
      PROVE  /\ b.window = d.window /\ b.back = d.back => b = d
             /\ b.tx = d.tx => b = d
    <2>1. PICK o \in 1 .. m : \E j \in 1 .. Len(ws[order[o]]) : b = item(o, j)
        BY <1>4
    <2>2. PICK j \in 1 .. Len(ws[order[o]]) : b = item(o, j)
        BY <2>1
    <2>3. PICK q \in 1 .. m : \E l \in 1 .. Len(ws[order[q]]) : d = item(q, l)
        BY <1>4
    <2>4. PICK l \in 1 .. Len(ws[order[q]]) : d = item(q, l)
        BY <2>3
    <2>5. /\ b.window = o /\ b.back = Len(ws[order[o]]) - j + 1 /\ b.tx = ws[order[o]][j]
          /\ d.window = q /\ d.back = Len(ws[order[q]]) - l + 1 /\ d.tx = ws[order[q]][l]
        BY <2>2, <2>4
    <2>6. /\ ws[order[o]][j].n = c[order[o]] + j /\ ws[order[o]][j].program = order[o]
          /\ ws[order[q]][l].n = c[order[q]] + l /\ ws[order[q]][l].program = order[q]
          /\ Len(ws[order[o]]) \in Nat /\ j \in Nat /\ l \in Nat
          /\ c[order[o]] \in Nat
        BY <1>5
    <2>7. ASSUME b.tx = d.tx
          PROVE  o = q /\ j = l
        <3>1. order[o] = order[q]
            BY <2>5, <2>6, <2>7
        <3>2. o = q
            BY <1>1, <3>1
        <3>3. c[order[o]] + j = c[order[o]] + l
            BY <2>5, <2>6, <2>7, <3>2
        <3> DEFINE x == c[order[o]]
        <3>4. x \in Nat /\ x + j = x + l /\ j \in Nat /\ l \in Nat
            BY <2>6, <3>3
        <3> HIDE DEF x
        <3>5. j = l
            BY <3>4
        <3> QED
            BY <3>2, <3>5
    <2>8. ASSUME b.window = d.window, b.back = d.back
          PROVE  o = q /\ j = l
        <3>1. o = q
            BY <2>5, <2>8
        <3>2. Len(ws[order[o]]) - j + 1 = Len(ws[order[o]]) - l + 1
            BY <2>5, <2>8, <3>1
        <3> DEFINE x == Len(ws[order[o]])
        <3>3. x \in Nat /\ x - j + 1 = x - l + 1 /\ j \in Nat /\ l \in Nat
            BY <2>6, <3>2
        <3> HIDE DEF x
        <3>4. j = l
            BY <3>3
        <3> QED
            BY <3>1, <3>4
    <2> HIDE DEF item
    <2> QED
        BY <2>2, <2>4, <2>7, <2>8
<1>8. PICK place : Arranged(s, place, found)
    BY <1>4, <1>6, <1>7, NewestFirstArranges
<1> HIDE DEF s
<1>9. /\ IsList(s) /\ Len(s) \in Nat /\ place \in [1 .. Len(s) -> found]
      /\ \A k \in 1 .. Len(s) : s[k] = place[k].tx
      /\ \A k, l \in 1 .. Len(s) : k < l => place[k] # place[l] /\ s[k].at >= s[l].at
      /\ \A b \in found : \E k \in 1 .. Len(s) : place[k] = b
    BY <1>8 DEF Arranged, IsList
<1>10. ASSUME NEW k \in 1 .. Len(s), NEW l \in 1 .. Len(s), s[k] = s[l]
       PROVE  k = l
    <2>1. place[k] \in found /\ place[l] \in found /\ place[k].tx = place[l].tx
        BY <1>9, <1>10
    <2>2. place[k] = place[l]
        BY <1>7, <2>1
    <2>3. ~(k < l) /\ ~(l < k) /\ k \in Nat /\ l \in Nat
        BY <1>9, <2>2
    <2> QED
        BY <2>3
<1>11. TheFirstOf(a, s, filter, limit)
    BY <1>3, <1>9, FirstMatching
<1>12. /\ IsList(a) /\ Len(a) <= limit
       /\ \A i \in 1 .. Len(a) : \E k \in 1 .. Len(s) : a[i] = s[k] /\ Matches(s[k], filter)
       /\ \A i, j \in 1 .. Len(a) : a[i] = a[j] => i = j
       /\ \A k \in 1 .. Len(s) : Matches(s[k], filter) =>
             \/ \E i \in 1 .. Len(a) : a[i] = s[k]
             \/ Len(a) = limit /\ \A i \in 1 .. Len(a) : \E j \in 1 .. k - 1 : a[i] = s[j]
    BY <1>10, <1>11 DEF TheFirstOf
<1>13. DOMAIN a = 1 .. Len(a)
    BY <1>12 DEF IsList
<1>14. Proper(a, limit, filter)
    BY <1>12, <1>13, DistinctEntries DEF Proper, Matches
<1>15. ASSUME NEW p \in Programs, NEW j \in DOMAIN ws[p], ws[p][j].category \in filter
       PROVE  \/ \E i \in DOMAIN a : a[i] = ws[p][j]
              \/ Len(a) = limit /\ \A i \in DOMAIN a : a[i].at >= ws[p][j].at
              \/ Cardinality({k \in DOMAIN ws[p] : ws[p][k].n > ws[p][j].n}) >= n
    <2> DEFINE w == ws[p]
    <2>1. PICK o \in 1 .. m : order[o] = p
        BY <1>1
    <2>2. w \in Seq(Stored)
        OBVIOUS
    <2>3. Len(w) \in Nat /\ DOMAIN w = 1 .. Len(w) /\ j \in 1 .. Len(w)
        BY <2>2
    <2>4. NumberedFrom(w, p, c[p]) /\ c[p] \in Nat /\ ws[order[o]] = w
        BY <2>1
    <2>5. CASE Len(w) - j < n
        <3> DEFINE b == item(o, j)
        <3>1. b \in found /\ b.tx = w[j]
            BY <1>4, <2>3, <2>4, <2>5
        <3> HIDE DEF b, w
        <3>2. PICK k \in 1 .. Len(s) : place[k] = b
            BY <1>9, <3>1
        <3>3. s[k] = w[j] /\ Matches(s[k], filter)
            BY <1>9, <1>15, <3>1, <3>2 DEF Matches, w
        <3>4. \/ \E i \in 1 .. Len(a) : a[i] = s[k]
              \/ Len(a) = limit /\ \A i \in 1 .. Len(a) : \E l \in 1 .. k - 1 : a[i] = s[l]
            BY <1>12, <3>3
        <3>5. \A l \in 1 .. k - 1 : s[l].at >= s[k].at
            <4> SUFFICES ASSUME NEW l \in 1 .. k - 1
                         PROVE  s[l].at >= s[k].at
                OBVIOUS
            <4>1. k \in Int /\ k <= Len(s) /\ Len(s) \in Int
                BY <1>9
            <4>2. l \in 1 .. Len(s) /\ l < k
                BY <4>1
            <4> QED
                BY <1>9, <4>2
        <3>6. \/ \E i \in 1 .. Len(a) : a[i] = w[j]
              \/ Len(a) = limit /\ \A i \in 1 .. Len(a) : a[i].at >= w[j].at
            BY <3>3, <3>4, <3>5
        <3> QED
            BY <1>13, <3>6 DEF w
    <2>6. CASE ~(Len(w) - j < n)
        <3> HIDE DEF w
        <3>1. Len(w) - j >= n
            BY <1>2, <2>3, <2>6
        <3>2. Cardinality({k \in DOMAIN w : w[k].n > w[j].n}) >= n
            BY <1>2, <2>3, <2>4, <3>1, BehindTheScan
        <3> QED
            BY <3>2 DEF w
    <2> QED
        BY <2>5, <2>6
<1> QED
    BY <1>2, <1>14, <1>15 DEF MissesTheOld

-----------------------------------------------------------------------------
(* What the queries answer *)

\* Arrivals are numbered: transactions are told apart.
Numbered ==
    \A p \in Programs : \A i \in DOMAIN arrived[p] :
        arrived[p][i].tx.n = i /\ arrived[p][i].tx.program = p

LEMMA NumberedStep ==
    ASSUME WindowInv, Numbered, [WindowsNext]_windowVars
    PROVE  Numbered'
<1>1. CASE UNCHANGED arrived
    BY <1>1 DEF Numbered
<1>2. ASSUME NEW p \in Programs, NEW at \in 0 .. MaxTime, NEW shape \in Shapes,
             Arrive(p, at, shape)
      PROVE  Numbered'
    <2> DEFINE tx == [n |-> Len(arrived[p]) + 1, program |-> p, at |-> at,
                      ok |-> shape.ok, cu |-> shape.cu, category |-> shape.category]
               new == [tx |-> tx, pushed |-> clock]
               mine == arrived[p]
    <2>1. /\ arrived' = [arrived EXCEPT ![p] = Append(@, new)]
          /\ new.tx.n = Len(mine) + 1 /\ new.tx.program = p
        BY <1>2 DEF Arrive
    <2>2. arrived \in [Programs -> Seq(Arrival)] /\ mine \in Seq(Arrival)
        BY DEF WindowInv
    <2> HIDE DEF new
    <2>3. arrived'[p] = Append(mine, new) /\ \A q \in Programs : q # p => arrived'[q] = arrived[q]
        BY <2>1, <2>2
    <2>4. \A i \in 1 .. Len(mine) : mine[i].tx.n = i /\ mine[i].tx.program = p
        BY <2>2 DEF Numbered
    <2> HIDE DEF mine
    <2>5. /\ DOMAIN Append(mine, new) = 1 .. Len(mine) + 1 /\ Len(mine) \in Nat
          /\ Append(mine, new)[Len(mine) + 1] = new
          /\ \A i \in 1 .. Len(mine) : Append(mine, new)[i] = mine[i]
        BY <2>2
    <2>6. ASSUME NEW i \in DOMAIN Append(mine, new)
          PROVE  Append(mine, new)[i].tx.n = i /\ Append(mine, new)[i].tx.program = p
        <3>1. CASE i = Len(mine) + 1
            BY <2>1, <2>5, <3>1
        <3>2. CASE i # Len(mine) + 1
            <4>1. i \in 1 .. Len(mine)
                BY <2>5, <3>2
            <4> QED
                BY <2>4, <2>5, <4>1
        <3> QED
            BY <3>1, <3>2
    <2>7. ASSUME NEW q \in Programs, NEW i \in DOMAIN arrived'[q]
          PROVE  arrived'[q][i].tx.n = i /\ arrived'[q][i].tx.program = q
        <3>1. CASE q = p
            BY <2>3, <2>6, <2>7, <3>1
        <3>2. CASE q # p
            BY <2>3, <2>7, <3>2 DEF Numbered
        <3> QED
            BY <3>1, <3>2
    <2> QED
        BY <2>7 DEF Numbered
<1> QED
    BY <1>1, <1>2 DEF WindowsNext, TimePasses, windowVars

LEMMA WindowsAreNumbered ==
    ASSUME WindowInv, Numbered
    PROVE  \E c \in [Programs -> Nat] : \A p \in Programs : NumberedFrom(windows[p], p, c[p])
<1> DEFINE c == [p \in Programs |-> Len(arrived[p]) - Len(windows[p])]
<1>1. ASSUME NEW p \in Programs
      PROVE  c[p] \in Nat /\ NumberedFrom(windows[p], p, c[p])
    <2> DEFINE w == windows[p]
               mine == arrived[p]
               d == Len(mine) - Len(w)
    <2>1. w \in Seq(Stored) /\ mine \in Seq(Arrival) /\ Follows(w, mine)
        BY DEF WindowInv
    <2>2. \A i \in DOMAIN mine : mine[i].tx.n = i /\ mine[i].tx.program = p
        BY DEF Numbered
    <2>3. c[p] = d
        OBVIOUS
    <2> HIDE DEF w, mine
    <2>4. /\ Len(w) \in Nat /\ Len(mine) \in Nat /\ DOMAIN mine = 1 .. Len(mine)
          /\ Len(w) <= Len(mine)
          /\ \A i \in 1 .. Len(w) : w[i] = mine[d + i].tx
        BY <2>1 DEF Follows
    <2>5. d \in Nat /\ d = Len(mine) - Len(w)
        BY <2>4
    <2> HIDE DEF c, d
    <2>6. ASSUME NEW i \in 1 .. Len(w)
          PROVE  w[i].n = d + i /\ w[i].program = p
        <3>1. d + i \in 1 .. Len(mine)
            BY <2>4, <2>5
        <3> QED
            BY <2>2, <2>4, <3>1
    <2>7. NumberedFrom(w, p, d)
        BY <2>6 DEF NumberedFrom
    <2> QED
        BY <2>3, <2>5, <2>7 DEF w
<1>2. c \in [Programs -> Nat]
    BY <1>1
<1> HIDE DEF c
<1> QED
    BY <1>1, <1>2

LEMMA NumberedAnswers == WindowInv /\ Numbered => QueriesMissOnlyTheOld
<1> SUFFICES ASSUME WindowInv, Numbered
             PROVE  QueriesMissOnlyTheOld
    OBVIOUS
<1>1. PICK c \in [Programs -> Nat] : \A p \in Programs : NumberedFrom(windows[p], p, c[p])
    BY WindowsAreNumbered
<1>2. windows \in [Programs -> Seq(Stored)] /\ Limits \subseteq Nat
    BY WindowParametersAreGiven DEF WindowInv
<1>3. ASSUME NEW limit \in Limits, NEW filter, NEW p \in Programs,
             NEW answer, answer = RecentOf(windows[p], limit, filter)
      PROVE  /\ Proper(answer, limit, filter)
             /\ \A j \in DOMAIN windows[p] : windows[p][j].category \in filter =>
                  Excused(p, windows[p][j], answer, limit, LAMBDA a : a.n > windows[p][j].n)
    <2>1. windows[p] \in Seq(Stored) /\ c[p] \in Nat /\ NumberedFrom(windows[p], p, c[p]) /\ limit \in Nat
        BY <1>1, <1>2
    <2> QED
        BY <1>3, <2>1, QueryOfOne DEF Excused, Later
<1>4. ASSUME NEW limit \in Limits, NEW filter, NEW order \in Orders,
             NEW answer, answer = RecentOfAll(windows, order, limit, filter)
      PROVE  /\ Proper(answer, limit, filter)
             /\ \A p \in Programs : \A j \in DOMAIN windows[p] :
                  windows[p][j].category \in filter =>
                    Excused(p, windows[p][j], answer, limit, LAMBDA a : a.at >= windows[p][j].at)
    <2> DEFINE ws == windows
    <2>1. limit \in Nat /\ ws \in [Programs -> Seq(Stored)]
        BY <1>2
    <2>2. /\ \A p \in Programs : NumberedFrom(ws[p], p, c[p])
          /\ answer = RecentOfAll(ws, order, limit, filter)
        BY <1>1, <1>4
    <2> HIDE DEF ws
    <2>3. Proper(answer, limit, filter) /\ MissesTheOld(answer, ws, limit, filter)
        BY <2>1, <2>2, QueryOfAll
    <2>4. ASSUME NEW p \in Programs, NEW j \in DOMAIN ws[p], ws[p][j].category \in filter
          PROVE  \/ \E i \in DOMAIN answer : answer[i] = ws[p][j]
                 \/ Len(answer) = limit /\ \A i \in DOMAIN answer : answer[i].at >= ws[p][j].at
                 \/ Cardinality({k \in DOMAIN ws[p] : ws[p][k].n > ws[p][j].n}) >= Scan * limit
        BY <2>3, <2>4 DEF MissesTheOld
    <2> QED
        BY <2>3, <2>4 DEF Excused, Later, ws
<1> QED
    BY <1>3, <1>4 DEF QueriesMissOnlyTheOld

\* What a query answers matches its filter, is there once, and leaves a matching
\* transaction out only for a full answer of newer ones or for Scan times the limit
\* of later arrivals.  For any programs, windows, filters and limits, in whatever
\* order the map yields the windows (routes.rs, recent_transactions).
THEOREM QueriesAnswerTheNewest == WindowsSpec => []QueriesMissOnlyTheOld
<1>1. WindowsInit => Numbered
    BY DEF WindowsInit, Numbered
<1>2. WindowInv /\ Numbered /\ [WindowsNext]_windowVars => (WindowInv /\ Numbered)'
    BY WindowStep, NumberedStep
<1> QED
    BY <1>1, <1>2, WindowInit, NumberedAnswers, PTL DEF WindowsSpec

-----------------------------------------------------------------------------
(* The time series *)

\* Where g has the sums of the first few numbers, the last of g is the total.
LEMMA TotalIsTheLast ==
    ASSUME NEW ns, Len(ns) \in Nat, NEW g, g[0] = 0,
           \A k \in 1 .. Len(ns) : g[k] = g[k - 1] + ns[k]
    PROVE  Total(ns) = g[Len(ns)]
<1> DEFINE n == Len(ns)
           f == [k \in 0 .. n |-> g[k]]
           sums(e) == e = [k \in 0 .. n |-> IF k = 0 THEN 0 ELSE e[k - 1] + ns[k]]
           h == CHOOSE e : sums(e)
<1>1. sums(f)
    <2>1. ASSUME NEW k \in 0 .. n
          PROVE  f[k] = IF k = 0 THEN 0 ELSE f[k - 1] + ns[k]
        <3>1. CASE k = 0
            BY <3>1
        <3>2. CASE k # 0
            <4>1. k \in 1 .. n /\ k - 1 \in 0 .. n
                BY <3>2
            <4>2. f[k] = g[k] /\ f[k - 1] = g[k - 1] /\ g[k] = g[k - 1] + ns[k]
                BY <4>1
            <4> QED
                BY <3>2, <4>2
        <3> QED
            BY <3>1, <3>2
    <2> HIDE DEF n
    <2>2. f = [k \in 0 .. n |-> f[k]]
        OBVIOUS
    <2> HIDE DEF f
    <2> QED
        BY <2>1, <2>2
<1>2. sums(h)
    <2> HIDE DEF f, sums
    <2> QED
        BY <1>1
<1>3. Total(ns) = h[n]
    BY Zenon DEF Total
<1>4. n \in Nat /\ n = Len(ns)
    OBVIOUS
<1> HIDE DEF h, n
<1>5. \A k \in 0 .. n : h[k] = IF k = 0 THEN 0 ELSE h[k - 1] + ns[k]
    BY <1>2
<1> DEFINE Wrong == {k \in 0 .. n : h[k] # g[k]}
<1>6. Wrong = {}
    <2> SUFFICES ASSUME Wrong # {}
                 PROVE  FALSE
        OBVIOUS
    <2>1. Wrong \in SUBSET Nat
        BY <1>4
    <2>2. PICK z \in Wrong : \A y \in Wrong : z <= y
        BY <2>1, LeastOfNats
    <2>3. z \in 0 .. n /\ h[z] # g[z]
        OBVIOUS
    <2>4. z # 0
        BY <1>5, <2>3
    <2>5. z \in 1 .. n /\ z - 1 \in 0 .. n /\ z - 1 \notin Wrong
        BY <1>4, <2>1, <2>2, <2>3, <2>4
    <2>6. h[z - 1] = g[z - 1]
        BY <2>5
    <2>7. g[z] = g[z - 1] + ns[z] /\ h[z] = h[z - 1] + ns[z]
        BY <1>4, <1>5, <2>3, <2>4, <2>5
    <2> QED
        BY <2>3, <2>6, <2>7
<1>7. h[n] = g[n]
    BY <1>4, <1>6
<1> QED
    BY <1>3, <1>4, <1>7

CountsOf(ns, J, key, V) ==
    /\ Len(ns) = Cardinality(V)
    /\ \A k \in 1 .. Len(ns) : ns[k] = Cardinality({j \in J : key[j] = InOrder(V)[k]})

\* What is counted value by value adds up.
LEMMA CountsAddUp ==
    ASSUME NEW J, IsFiniteSet(J), NEW key \in [J -> Int],
           NEW V \in SUBSET Int, IsFiniteSet(V), \A j \in J : key[j] \in V,
           NEW ns, CountsOf(ns, J, key, V)
    PROVE  Total(ns) = Cardinality(J)
<1> DEFINE n == Cardinality(V)
           o == InOrder(V)
           upTo(k) == {j \in J : \E i \in 1 .. k : key[j] = o[i]}
           g == [k \in 0 .. n |-> Cardinality(upTo(k))]
<1>1. /\ n \in Nat /\ \A k \in 1 .. n : o[k] \in V
      /\ \A x \in V : \E k \in 1 .. n : o[k] = x
      /\ \A k, l \in 1 .. n : k < l => o[k] < o[l]
    BY InOrderEnumerates DEF Enumerates
<1>2. Len(ns) = n /\ \A k \in 1 .. n : ns[k] = Cardinality({j \in J : key[j] = o[k]})
    BY DEF CountsOf
<1>3. \A k \in 0 .. n : IsFiniteSet(upTo(k)) /\ upTo(k) \subseteq J
    BY FS_Subset
<1> HIDE DEF n, o
<1>4. g[0] = 0
    <2>1. upTo(0) = {}
        OBVIOUS
    <2> HIDE DEF upTo
    <2>2. g[0] = Cardinality(upTo(0))
        BY <1>1
    <2> QED
        BY <2>1, <2>2, FS_EmptySet
<1>5. ASSUME NEW k \in 1 .. n
      PROVE  g[k] = g[k - 1] + ns[k]
    <2> DEFINE A == upTo(k - 1)
               B == {j \in J : key[j] = o[k]}
    <2>1. k - 1 \in 0 .. n /\ k \in 0 .. n
        BY <1>1
    <2>2. upTo(k) = A \cup B
        <3>1. \A i \in 1 .. k : i \in 1 .. k - 1 \/ i = k
            BY <1>1
        <3>2. \A i \in 1 .. k - 1 : i \in 1 .. k
            BY <1>1
        <3>3. k \in 1 .. k
            BY <1>1
        <3> QED
            BY <3>1, <3>2, <3>3
    <2>3. A \cap B = {}
        <3> SUFFICES ASSUME NEW j \in A, j \in B
                     PROVE  FALSE
            OBVIOUS
        <3>1. PICK i \in 1 .. k - 1 : key[j] = o[i]
            OBVIOUS
        <3>2. i \in 1 .. n /\ i < k
            BY <1>1
        <3>3. o[i] < o[k] /\ o[i] = o[k] /\ o[i] \in Int
            BY <1>1, <3>1, <3>2
        <3> QED
            BY <3>3
    <2>4. IsFiniteSet(A) /\ IsFiniteSet(B)
        <3>1. B \subseteq J
            OBVIOUS
        <3> HIDE DEF B
        <3> QED
            BY <1>3, <2>1, <3>1, FS_Subset
    <2>5. g[k] = Cardinality(upTo(k)) /\ g[k - 1] = Cardinality(A) /\ ns[k] = Cardinality(B)
        BY <1>2, <2>1
    <2> HIDE DEF A, B, upTo, g
    <2>6. /\ Cardinality(A \cup B) = Cardinality(A) + Cardinality(B) - Cardinality(A \cap B)
          /\ Cardinality(A) \in Nat /\ Cardinality(B) \in Nat
        BY <2>4, FS_Union, FS_CardinalityType
    <2>7. Cardinality(A \cap B) = 0
        BY <2>3, FS_EmptySet
    <2> QED
        BY <2>2, <2>5, <2>6, <2>7
<1>6. upTo(n) = J
    BY <1>1
<1>7. g[n] = Cardinality(J)
    <2> HIDE DEF upTo
    <2>1. g[n] = Cardinality(upTo(n))
        BY <1>1
    <2> QED
        BY <1>6, <2>1
<1> HIDE DEF g
<1>8. Total(ns) = g[n]
    BY <1>1, <1>2, <1>4, <1>5, TotalIsTheLast
<1> QED
    BY <1>7, <1>8

\* The intervals of a size start at its multiples.
LEMMA MultiplesAreApart ==
    ASSUME NEW a \in Int, NEW b \in Int, NEW size \in Nat \ {0}, a * size < b * size
    PROVE  a * size + size <= b * size
<1>1. a < b
    <2>1. CASE b <= a
        <3>1. b * size <= a * size
            BY <2>1
        <3>2. a * size \in Int /\ b * size \in Int
            OBVIOUS
        <3> QED
            BY <3>1, <3>2
    <2> QED
        BY <2>1
<1>2. a + 1 <= b
    BY <1>1
<1>3. (a + 1) * size <= b * size
    BY <1>2
<1>4. (a + 1) * size = a * size + size
    OBVIOUS
<1> QED
    BY <1>3, <1>4

LEMMA StartOfAnInterval ==
    ASSUME NEW at \in Int, NEW size \in Nat \ {0}
    PROVE  LET q == at \div size
           IN  q \in Int /\ q * size \in Int /\ q * size <= at /\ at < q * size + size
<1> DEFINE q == at \div size
           r == at % size
<1>1. q \in Int /\ r \in 0 .. size - 1 /\ at = size * q + r
    OBVIOUS
<1> HIDE DEF q, r
<1>2. q * size = size * q /\ q * size \in Int
    BY <1>1
<1> DEFINE x == q * size
<1>3. x \in Int /\ at = x + r /\ r \in 0 .. size - 1
    BY <1>1, <1>2
<1> HIDE DEF x
<1>4. x <= at /\ at < x + size
    BY <1>3
<1> QED
    BY <1>1, <1>4 DEF q, x

LEMMA SameInterval ==
    ASSUME NEW s \in Int, NEW t \in Int, NEW size \in Nat \ {0}
    PROVE  (t \div size) * size = (s \div size) * size
             <=> /\ t >= (s \div size) * size
                 /\ t < (s \div size) * size + size
<1> DEFINE x == (s \div size) * size
           y == (t \div size) * size
<1>1. /\ y \in Int /\ y <= t /\ t < y + size
      /\ x \in Int
      /\ y < x => y + size <= x
      /\ x < y => x + size <= y
    BY StartOfAnInterval, MultiplesAreApart
<1> HIDE DEF x, y
<1>2. y = x <=> t >= x /\ t < x + size
    BY <1>1
<1> QED
    BY <1>2 DEF x, y

LEMMA PickedCounts ==
    ASSUME NEW w, NEW S \in SUBSET Int, IsFiniteSet(S), NEW b, b = Picked(w, S)
    PROVE  /\ Len(b) = Cardinality(S)
           /\ Cardinality(Failed(b)) = Cardinality({j \in S : ~w[j].ok})
<1> DEFINE c == Cardinality(S)
           o == InOrder(S)
           F == {i \in 1 .. c : ~w[o[i]].ok}
           G == {j \in S : ~w[j].ok}
           f == [i \in F |-> o[i]]
<1>1. /\ c \in Nat /\ \A k \in 1 .. c : o[k] \in S
      /\ \A x \in S : \E k \in 1 .. c : o[k] = x
      /\ \A k, l \in 1 .. c : k < l => o[k] < o[l]
    BY InOrderEnumerates DEF Enumerates
<1>2. b = [k \in 1 .. c |-> w[o[k]]]
    BY Zenon DEF Picked
<1>3. Len(b) = c /\ DOMAIN b = 1 .. c
    BY <1>1, <1>2
<1>4. Failed(b) = F
    BY <1>2, <1>3 DEF Failed
<1> HIDE DEF c, o
<1>5. \A k, l \in 1 .. c : o[k] = o[l] => k = l
    <2> SUFFICES ASSUME NEW k \in 1 .. c, NEW l \in 1 .. c, k # l
                 PROVE  o[k] # o[l]
        OBVIOUS
    <2>1. k < l \/ l < k
        BY <1>1
    <2>2. o[k] \in Int /\ o[l] \in Int /\ (o[k] < o[l] \/ o[l] < o[k])
        BY <1>1, <2>1
    <2> QED
        BY <2>2
<1>6. f \in Surjection(F, G)
    BY <1>1 DEF Surjection
<1>7. f \in Injection(F, G)
    BY <1>1, <1>5 DEF Injection, IsInjective
<1>8. IsFiniteSet(F)
    <2>1. F \subseteq 1 .. c /\ IsFiniteSet(1 .. c)
        BY <1>1, Intervals
    <2> HIDE DEF F
    <2> QED
        BY <2>1, FS_Subset
<1> HIDE DEF F, G, f
<1>9. Cardinality(G) = Cardinality(F)
    BY <1>6, <1>7, <1>8, FS_Surjection
<1> QED
    BY <1>3, <1>4, <1>9 DEF c, G

\* What TimeseriesSplitsSummary says of the buckets of one window.
Splits(buckets, w, size) ==
    /\ \A i \in 1 .. Len(buckets) - 1 : buckets[i].timestamp + size <= buckets[i + 1].timestamp
    /\ \A i \in DOMAIN buckets :
          buckets[i].summary.tx_count =
              Cardinality({j \in DOMAIN w : /\ w[j].at >= buckets[i].timestamp
                                            /\ w[j].at < buckets[i].timestamp + size})
    /\ Total([i \in DOMAIN buckets |-> buckets[i].summary.tx_count]) = Summary(w).tx_count
    /\ Total([i \in DOMAIN buckets |-> buckets[i].summary.error_count]) = Summary(w).error_count

LEMMA SeriesSplits ==
    ASSUME NEW w \in Seq(Stored), NEW asked \in Int \ {0},
           NEW size, size = Width(asked), NEW buckets, buckets = Timeseries(w, asked)
    PROVE  Splits(buckets, w, size)
<1>0. size \in Nat \ {0}
    BY DEF Width
<1> DEFINE D == 1 .. Len(w)
           key == [j \in D |-> BucketStart(w[j], asked)]
           V == {key[j] : j \in D}
           o == InOrder(V)
           m == Cardinality(V)
           S(k) == {j \in DOMAIN w : BucketStart(w[j], asked) = o[k]}
           bad == {j \in D : ~w[j].ok}
           counts == [i \in DOMAIN buckets |-> buckets[i].summary.tx_count]
           errors == [i \in DOMAIN buckets |-> buckets[i].summary.error_count]
<1>1. /\ Len(w) \in Nat /\ DOMAIN w = D /\ IsFiniteSet(D) /\ Cardinality(D) = Len(w)
      /\ \A j \in D : w[j].at \in Int
    <2>1. \A j \in D : w[j] \in Stored
        OBVIOUS
    <2>2. \A j \in D : w[j].at \in Int
        BY <2>1 DEF Stored
    <2> QED
        BY <2>2, Intervals
<1>2. key \in [D -> Int] /\ \A j \in D : key[j] = (w[j].at \div size) * size
    <2>1. ASSUME NEW j \in D
          PROVE  BucketStart(w[j], asked) = (w[j].at \div size) * size /\ BucketStart(w[j], asked) \in Int
        <3>1. BucketStart(w[j], asked) = (w[j].at \div size) * size
            BY Zenon DEF BucketStart
        <3> QED
            BY <1>0, <1>1, <3>1, StartOfAnInterval
    <2> QED
        BY <2>1
<1>3. V \in SUBSET Int /\ \A j \in D : key[j] \in V
    BY <1>2
<1>4. IsFiniteSet(V)
    <2> HIDE DEF key
    <2>1. key = [j \in 1 .. Len(w) |-> key[j]]
        BY <1>2
    <2> QED
        BY <1>1, <2>1, FiniteImages
<1>5. V = {BucketStart(w[i], asked) : i \in DOMAIN w}
    BY <1>1
<1>6. DOMAIN o = 1 .. m
    BY DEF InOrder
<1>7. buckets = [k \in DOMAIN o |-> [timestamp |-> o[k], summary |-> Summary(Picked(w, S(k)))]]
    BY <1>5, asked # 0, Zenon DEF Timeseries
<1>8. \A k \in 1 .. m : S(k) = {j \in D : key[j] = o[k]}
    BY <1>1
<1> HIDE DEF V
<1>9. /\ m \in Nat /\ \A k \in 1 .. m : o[k] \in V
      /\ \A k, l \in 1 .. m : k < l => o[k] < o[l]
    BY <1>3, <1>4, InOrderEnumerates DEF Enumerates
<1> HIDE DEF m, o
<1>10. Len(buckets) = m /\ DOMAIN buckets = 1 .. m
    BY <1>6, <1>7, <1>9
<1>11. ASSUME NEW k \in 1 .. m
       PROVE  /\ buckets[k].timestamp = o[k]
              /\ buckets[k].summary.tx_count = Cardinality({j \in D : key[j] = o[k]})
              /\ buckets[k].summary.error_count = Cardinality({j \in bad : key[j] = o[k]})
    <2> DEFINE T == {j \in D : key[j] = o[k]}
    <2>1. buckets[k].timestamp = o[k] /\ buckets[k].summary = Summary(Picked(w, S(k)))
        BY <1>6, <1>7
    <2>2. S(k) = T /\ T \in SUBSET Int /\ IsFiniteSet(T)
        <3>1. S(k) = T /\ T \in SUBSET Int /\ T \subseteq D
            BY <1>1, <1>8
        <3> HIDE DEF T, D
        <3> QED
            BY <1>1, <3>1, FS_Subset
    <2>3. {j \in T : ~w[j].ok} = {j \in bad : key[j] = o[k]}
        OBVIOUS
    <2> DEFINE b == Picked(w, T)
    <2>4. Len(b) = Cardinality(T) /\ Cardinality(Failed(b)) = Cardinality({j \in T : ~w[j].ok})
        <3> HIDE DEF T, S, D, key, bad, counts, errors
        <3>1. T \in SUBSET Int /\ IsFiniteSet(T) /\ b = Picked(w, T)
            BY <2>2
        <3> HIDE DEF b
        <3> QED
            BY <3>1, PickedCounts
    <2> HIDE DEF b, T, S
    <2>5. Summary(b).tx_count = Len(b) /\ Summary(b).error_count = Cardinality(Failed(b))
        BY DEF Summary, TxCount
    <2> QED
        BY <2>1, <2>2, <2>3, <2>4, <2>5 DEF b, T
<1>12. Summary(w).tx_count = Cardinality(D) /\ Summary(w).error_count = Cardinality(bad)
    BY <1>1 DEF Summary, TxCount, Failed
<1>13. IsFiniteSet(bad)
    <2>1. bad \subseteq D
        OBVIOUS
    <2> HIDE DEF bad
    <2> QED
        BY <1>1, <2>1, FS_Subset
<1>14. /\ Len(counts) = m /\ Len(errors) = m
       /\ \A k \in 1 .. m : /\ counts[k] = Cardinality({j \in D : key[j] = o[k]})
                            /\ errors[k] = Cardinality({j \in bad : key[j] = o[k]})
    <2>1. Len(counts) = m /\ Len(errors) = m
        BY <1>9, <1>10
    <2>2. \A k \in 1 .. m : /\ counts[k] = buckets[k].summary.tx_count
                            /\ errors[k] = buckets[k].summary.error_count
        BY <1>10
    <2> HIDE DEF counts, errors, D, bad, key
    <2> QED
        BY <1>11, <2>1, <2>2
<1>15. \A i \in 1 .. m - 1 : buckets[i].timestamp + size <= buckets[i + 1].timestamp
    <2> SUFFICES ASSUME NEW i \in 1 .. m - 1
                 PROVE  buckets[i].timestamp + size <= buckets[i + 1].timestamp
        OBVIOUS
    <2>1. i \in 1 .. m /\ i + 1 \in 1 .. m /\ o[i] < o[i + 1] /\ o[i] \in V /\ o[i + 1] \in V
        BY <1>9
    <2>2. ASSUME NEW v \in V
          PROVE  \E q \in Int : v = q * size
        <3>1. PICK j \in D : v = key[j]
            BY DEF V
        <3>2. w[j].at \div size \in Int /\ v = (w[j].at \div size) * size
            BY <1>0, <1>1, <1>2, <3>1, StartOfAnInterval
        <3> QED
            BY <3>2
    <2>3. PICK q \in Int : o[i] = q * size
        BY <2>1, <2>2
    <2>4. PICK r \in Int : o[i + 1] = r * size
        BY <2>1, <2>2
    <2>5. o[i] + size <= o[i + 1]
        BY <1>0, <2>1, <2>3, <2>4, MultiplesAreApart
    <2>6. buckets[i].timestamp = o[i] /\ buckets[i + 1].timestamp = o[i + 1]
        BY <1>11, <2>1
    <2> QED
        BY <2>5, <2>6
<1>16. ASSUME NEW k \in 1 .. m
       PROVE  {j \in D : key[j] = o[k]}
                = {j \in DOMAIN w : w[j].at >= buckets[k].timestamp
                                      /\ w[j].at < buckets[k].timestamp + size}
    <2>1. PICK i \in D : o[k] = key[i]
        BY <1>9 DEF V
    <2>2. ASSUME NEW j \in D
          PROVE  key[j] = o[k] <=> w[j].at >= o[k] /\ w[j].at < o[k] + size
        <3> DEFINE s == w[i].at
                   t == w[j].at
        <3>1. s \in Int /\ t \in Int /\ o[k] = (s \div size) * size /\ key[j] = (t \div size) * size
            BY <1>1, <1>2, <2>1
        <3> HIDE DEF s, t
        <3> DEFINE x == (s \div size) * size
                   y == (t \div size) * size
        <3>3. y = x <=> t >= x /\ t < x + size
            BY <1>0, <3>1, SameInterval
        <3> HIDE DEF x, y
        <3>4. o[k] = x /\ key[j] = y
            BY <3>1 DEF x, y
        <3>2. key[j] = o[k] <=> t >= o[k] /\ t < o[k] + size
            BY <3>3, <3>4, Zenon
        <3> QED
            BY <3>2 DEF s, t
    <2>3. buckets[k].timestamp = o[k]
        BY <1>11
    <2> HIDE DEF D, key
    <2> QED
        BY <1>1, <2>2, <2>3
<1> HIDE DEF counts, errors
<1>17. Total(counts) = Cardinality(D)
    <2>1. /\ Len(counts) = Cardinality(V)
          /\ \A k \in 1 .. Len(counts) : counts[k] = Cardinality({j \in D : key[j] = InOrder(V)[k]})
        BY <1>14 DEF m, o
    <2>2. key \in [D -> Int] /\ IsFiniteSet(D)
        BY <1>1, <1>2
    <2> HIDE DEF D, key
    <2>3. CountsOf(counts, D, key, V)
        BY <2>1, Zenon DEF CountsOf
    <2> QED
        BY <1>3, <1>4, <2>2, <2>3, CountsAddUp
<1>18. Total(errors) = Cardinality(bad)
    <2> DEFINE f == [j \in bad |-> key[j]]
    <2>1. /\ f \in [bad -> Int] /\ \A j \in bad : f[j] \in V
          /\ \A k \in 1 .. m : {j \in bad : f[j] = o[k]} = {j \in bad : key[j] = o[k]}
        BY <1>2, <1>3
    <2> HIDE DEF f, bad
    <2>2. \A k \in 1 .. m : errors[k] = Cardinality({j \in bad : f[j] = o[k]})
        BY <1>14, <2>1
    <2>3. /\ Len(errors) = Cardinality(V)
          /\ \A k \in 1 .. Len(errors) : errors[k] = Cardinality({j \in bad : f[j] = InOrder(V)[k]})
        BY <1>14, <2>2 DEF m, o
    <2>4. /\ V \in SUBSET Int /\ IsFiniteSet(V) /\ IsFiniteSet(bad)
          /\ f \in [bad -> Int] /\ \A j \in bad : f[j] \in V
        BY <1>3, <1>4, <1>13, <2>1
    <2> HIDE DEF key
    <2>5. CountsOf(errors, bad, f, V)
        BY <2>3, Zenon DEF CountsOf
    <2> QED
        BY <2>4, <2>5, CountsAddUp
<1>19. ASSUME NEW i \in DOMAIN buckets
       PROVE  buckets[i].summary.tx_count =
                Cardinality({j \in DOMAIN w : /\ w[j].at >= buckets[i].timestamp
                                              /\ w[j].at < buckets[i].timestamp + size})
    <2>1. i \in 1 .. m
        BY <1>10
    <2> HIDE DEF D, bad, key
    <2> QED
        BY <1>11, <1>16, <2>1
<1>20. Total(counts) = Summary(w).tx_count /\ Total(errors) = Summary(w).error_count
    BY <1>12, <1>17, <1>18
<1>21. \A i \in 1 .. Len(buckets) - 1 : buckets[i].timestamp + size <= buckets[i + 1].timestamp
    BY <1>10, <1>15
<1> HIDE DEF D, bad, key
<1> QED
    BY <1>19, <1>20, <1>21, Zenon DEF Splits, counts, errors

\* For any programs, transactions, intervals other than 0 and order of block times, the
\* time series splits what the summary counts: its intervals are in order and apart,
\* each counts its own transactions, and the counts add up (RollingWindow::timeseries).
\* A client may ask for any interval; 0 panics (routes.rs:203).
THEOREM SeriesSplitsTheSummary == WindowsSpec => []TimeseriesSplitsSummary
<1>1. WindowInv => TimeseriesSplitsSummary
    <2> SUFFICES ASSUME WindowInv, NEW p \in Programs, NEW size \in BucketSizes \ {0}
                 PROVE  Splits(Timeseries(windows[p], size), windows[p], Width(size))
        BY DEF TimeseriesSplitsSummary, Splits
    <2>1. windows[p] \in Seq(Stored) /\ size \in Int \ {0}
        BY WindowParametersAreGiven DEF WindowInv
    <2> QED
        BY <2>1, SeriesSplits
<1> QED
    BY <1>1, WindowInit, WindowStep, PTL DEF WindowsSpec
=============================================================================
