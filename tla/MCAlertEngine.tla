---------------------------- MODULE MCAlertEngine ----------------------------
(* AlertEngine on small instances for TLC.                                     *)
EXTENDS AlertEngine

ARule(id, metric, op, threshold, enabled, ws) ==
    [id |-> id, program |-> "p1", metric |-> metric, operator |-> op,
     threshold |-> threshold, enabled |-> enabled, websocket |-> ws, webhook |-> ~ws]

\* Two rules share an id (the same rule may also be posted twice), one of
\* them is disabled.
ThreeRules == {ARule("a", "error_rate", "gte", 50, TRUE, TRUE),
               ARule("a", "error_count", "lte", 0, FALSE, TRUE),
               ARule("b", "avg_compute_units", "gt", 1, TRUE, FALSE)}

OneTx == {[age |-> 0, ok |-> FALSE, cu |-> 3]}
=============================================================================
