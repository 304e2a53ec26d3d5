----------------------------- MODULE AlertEngine -----------------------------
(***************************************************************************)
(* The threshold alert engine (alert.rs) beside the tasks it shares state  *)
(* with: the REST handlers that edit the rules and the programs, and the   *)
(* worker that pushes into the windows.                                    *)
(*                                                                         *)
(* evaluate_all clones the rules and lets their lock go, then holds the    *)
(* windows for reading until it has gone through the clone: rules change   *)
(* under it, windows do not.  Each rule of the clone is one step.          *)
(* Times are in seconds, as the cooldown counts them.  The wall clock may  *)
(* step back by MaxStepBack.  MaxTime, MaxRules, MaxTxs and the sets of    *)
(* rules and transactions bound the inputs.                                *)
(***************************************************************************)
EXTENDS SharedWindows

CONSTANTS
    Rules,        \* rules a client may post
    Txs,          \* transactions the worker may push, by age
    Cooldown,     \* cooldown_secs
    MaxStepBack,
    MaxRules, MaxTxs

Metrics == {"error_rate", "error_count", "tx_count", "avg_compute_units"}
Operators == {"gt", "lt", "gte", "lte"}
Rule == [id : STRING, program : Programs, metric : Metrics, operator : Operators,
         threshold : Nat, enabled : BOOLEAN, websocket : BOOLEAN, webhook : BOOLEAN]

ASSUME ParametersAreNat == {Cooldown, MaxStepBack, MaxTime, MaxRules, MaxTxs} \subseteq Nat
ASSUME RulesAreRules == Rules \subseteq Rule
ASSUME TxsAreTxs == Txs \subseteq [age : Nat, ok : BOOLEAN, cu : Nat]

VARIABLES
    rules,        \* alert_rules
    engine,       \* [pc, clone, next, now]: where evaluate_all is
    lastFired,    \* rule id -> time; the domain is the map's
    sent          \* history: every event, and whether it was broadcast

vars == <<rules, windows, clock, engine, lastFired, sent>>

Ids == {r.id : r \in Rules}
Sleeping == [pc |-> "sleep", clone |-> << >>, next |-> 1, now |-> 0]

Init ==
    /\ rules = << >>
    /\ windows = [p \in Programs |-> EmptyWindow]
    /\ clock = 0
    /\ engine = Sleeping
    /\ lastFired = << >>
    /\ sent = << >>

-----------------------------------------------------------------------------
(* The REST handlers and the worker *)

\* create_alert never looks for another rule of the same id.
CreateAlert(rule) ==
    /\ Len(rules) < MaxRules
    /\ rules' = Append(rules, rule)
    /\ UNCHANGED <<windows, clock, engine, lastFired, sent>>

\* update_alert replaces the first rule of that id, by one of any id.
UpdateAlert(id, rule) ==
    LET i == SelectInSeq(rules, LAMBDA r : r.id = id)
    IN  /\ i # 0
        /\ rules' = [rules EXCEPT ![i] = rule]
        /\ UNCHANGED <<windows, clock, engine, lastFired, sent>>

DeleteAlert(id) ==
    /\ \E i \in DOMAIN rules : rules[i].id = id
    /\ rules' = SelectSeq(rules, LAMBDA r : r.id # id)
    /\ UNCHANGED <<windows, clock, engine, lastFired, sent>>

\* Writers of windows wait while evaluate_all reads them.
WindowsFree == engine.pc # "evaluating"

PushTx(p, tx) ==
    /\ WindowsFree
    /\ p \in DOMAIN windows /\ Len(windows[p]) < MaxTxs
    /\ windows' = [windows EXCEPT ![p] =
                      Push(@, [at |-> clock - tx.age, ok |-> tx.ok, cu |-> tx.cu], clock)]
    /\ UNCHANGED <<rules, clock, engine, lastFired, sent>>

RemoveProgram(p) ==
    /\ WindowsFree
    /\ p \in DOMAIN windows
    /\ windows' = Restrict(windows, DOMAIN windows \ {p})
    /\ UNCHANGED <<rules, clock, engine, lastFired, sent>>

AddProgram(p) ==
    /\ WindowsFree
    /\ p \notin DOMAIN windows
    /\ windows' = windows @@ (p :> EmptyWindow)
    /\ UNCHANGED <<rules, clock, engine, lastFired, sent>>

Tick ==
    /\ \E t \in 0 .. MaxTime : t >= clock - MaxStepBack /\ clock' = t
    /\ UNCHANGED <<rules, windows, engine, lastFired, sent>>

-----------------------------------------------------------------------------
(* evaluate_all *)

CloneRules ==
    /\ engine.pc = "sleep"
    /\ engine' = [Sleeping EXCEPT !.pc = "cloned", !.clone = rules]
    /\ UNCHANGED <<rules, windows, clock, lastFired, sent>>

LockWindows ==
    /\ engine.pc = "cloned"
    /\ engine' = [engine EXCEPT !.pc = "evaluating", !.now = clock]
    /\ UNCHANGED <<rules, windows, clock, lastFired, sent>>

CooldownShort(id) == id \in DOMAIN lastFired => engine.now - lastFired[id] > 0

CooledDown(id) ==
    id \in DOMAIN lastFired => engine.now - lastFired[id] >= Cooldown

\* A metric as numerator and denominator; rates are in percent here.
Value(rule) ==
    LET s == Summary(windows[rule.program])
    IN  CASE rule.metric = "tx_count" -> <<s.tx_count, 1>>
          [] rule.metric = "error_count" -> <<s.error_count, 1>>
          [] rule.metric = "error_rate" -> <<100 * s.error_rate[1], s.error_rate[2]>>
          [] rule.metric = "avg_compute_units" -> s.avg_compute_units

Triggered(rule) ==
    LET value == Value(rule)[1]
        limit == rule.threshold * Value(rule)[2]
    IN  CASE rule.operator = "gt" -> value > limit
          [] rule.operator = "lt" -> value < limit
          [] rule.operator = "gte" -> value >= limit
          [] rule.operator = "lte" -> value <= limit

ShouldFire(rule) ==
    /\ rule.enabled
    /\ CooledDown(rule.id)
    /\ rule.program \in DOMAIN windows
    /\ Triggered(rule)

Current == engine.clone[engine.next]
Remaining == engine.pc = "evaluating" /\ engine.next <= Len(engine.clone)

SkipEndsTheTick ==
    /\ Remaining /\ ~ShouldFire(Current)
    /\ engine' = [engine EXCEPT !.next = Len(engine.clone) + 1]
    /\ UNCHANGED <<rules, windows, clock, lastFired, sent>>

SkipRule ==
    /\ Remaining /\ ~ShouldFire(Current)
    /\ engine' = [engine EXCEPT !.next = @ + 1]
    /\ UNCHANGED <<rules, windows, clock, lastFired, sent>>

\* The event goes to the broadcast channel, to a spawned delivery task, to
\* both or to neither; the cooldown starts in any case.
FireRule ==
    LET event == [id |-> Current.id, program |-> Current.program, at |-> engine.now,
                  broadcast |-> Current.websocket]
    IN  /\ Remaining /\ ShouldFire(Current)
        /\ lastFired' = [id \in DOMAIN lastFired \cup {Current.id} |->
                            IF id = Current.id THEN engine.now ELSE lastFired[id]]
        /\ sent' = Append(sent, event)
        /\ engine' = [engine EXCEPT !.next = @ + 1]
        /\ UNCHANGED <<rules, windows, clock>>

GoToSleep ==
    /\ engine.pc = "evaluating" /\ ~Remaining
    /\ engine' = Sleeping
    /\ UNCHANGED <<rules, windows, clock, lastFired, sent>>

Evaluation == CloneRules \/ LockWindows \/ SkipRule \/ FireRule \/ GoToSleep

Next ==
    \/ Evaluation \/ Tick
    \/ \E rule \in Rules : CreateAlert(rule) \/ \E id \in Ids : UpdateAlert(id, rule)
    \/ \E id \in Ids : DeleteAlert(id)
    \/ \E p \in Programs :
        AddProgram(p) \/ RemoveProgram(p) \/ \E tx \in Txs : PushTx(p, tx)

Spec == Init /\ [][Next]_vars

-----------------------------------------------------------------------------
(* Properties *)

\* Two events of one rule id are at least the cooldown apart, in the order
\* they are fired: whatever clients do to the rules meanwhile (two rules of
\* one id, a delete and a new rule of the id, an update that takes it), and
\* although the wall clock may step back.
EventsCooledDown ==
    \A i, j \in DOMAIN sent :
        i < j /\ sent[i].id = sent[j].id => sent[j].at - sent[i].at >= Cooldown

\* A rule the engine has gone past in this tick either had nothing to say or
\* its id has fired within the cooldown: no rule hides the ones after it.
TickIsComplete ==
    engine.pc = "evaluating" =>
        \A i \in 1 .. engine.next - 1 :
            LET rule == engine.clone[i]
            IN  rule.enabled /\ rule.program \in DOMAIN windows /\ Triggered(rule) =>
                    \E k \in DOMAIN sent :
                        /\ sent[k].id = rule.id
                        /\ engine.now - sent[k].at < Cooldown \/ sent[k].at = engine.now

=============================================================================
