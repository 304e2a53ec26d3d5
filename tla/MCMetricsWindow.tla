--------------------------- MODULE MCMetricsWindow ---------------------------
(* MetricsWindow on a small instance for TLC.                                 *)
EXTENDS MetricsWindow

TwoShapes == {[ok |-> TRUE, cu |-> 3, category |-> "swap"],
              [ok |-> FALSE, cu |-> 0, category |-> "failed"]}

\* A client may ask for any interval.
AnyInterval == {-2, 0, 1, 2}

\* Nothing distinguishes one program from another.
Symmetry == Permutations(Programs)
=============================================================================
