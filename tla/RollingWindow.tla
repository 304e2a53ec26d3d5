---------------------------- MODULE RollingWindow ----------------------------
(***************************************************************************)
(* The per-program buffer of recent transactions (rolling_window.rs), as   *)
(* operators on a sequence of transactions in arrival order.  Other        *)
(* modules keep one such sequence per program.  Of a transaction only its  *)
(* block time, success, compute units and category are kept.  Times are in *)
(* seconds.                                                                *)
(***************************************************************************)
EXTENDS SequencesExt, Enumerations

CONSTANT MaxAge   \* ROLLING_WINDOW_MINUTES, as a duration
ASSUME MaxAgeIsNat == MaxAge \in Nat

EmptyWindow == << >>

EvictNothing(w, now) == w
EvictTooMuch(w, now) ==
    LET live == SelectInSeq(w, LAMBDA tx : tx.at > now - MaxAge)
    IN  IF live = 0 THEN << >> ELSE SubSeq(w, live, Len(w))

\* evict pops from the front until the first transaction young enough.
EvictAged(w, now) ==
    LET live == SelectInSeq(w, LAMBDA tx : tx.at >= now - MaxAge)
    IN  IF live = 0 THEN << >> ELSE SubSeq(w, live, Len(w))

\* push evicts first, and keeps the new transaction whatever its age.
Push(w, tx, now) == Append(EvictAged(w, now), tx)

TxCount(w) == Len(w)
Failed(w) == {i \in DOMAIN w : ~w[i].ok}
TotalUnits(w) == FoldLeft(LAMBDA sum, tx : sum + tx.cu, 0, w)

\* The metrics of summary.  A rate and an average are floats in the code,
\* here numerator and denominator; both are zero for the empty window.
Summary(w) ==
    [tx_count |-> TxCount(w), error_count |-> Cardinality(Failed(w)),
     error_rate |-> IF w = << >> THEN <<0, 1>> ELSE <<Cardinality(Failed(w)), TxCount(w)>>,
     avg_compute_units |-> IF w = << >> THEN <<0, 1>> ELSE <<TotalUnits(w), TxCount(w)>>]

\* Division rounds toward zero: a negative interval cuts times as its amount does.
Width(size) == IF size < 0 THEN -size ELSE size

BucketIndex(tx, size) == tx.at \div Width(size)

BucketStart(tx, size) == (tx.at \div Width(size)) * Width(size)

Panic == "panic"

\* One summary per interval that has transactions, oldest first.  An interval of 0
\* divides by zero, unless there is nothing to divide.
Timeseries(w, size) ==
    LET starts == InOrder({BucketStart(w[i], size) : i \in DOMAIN w})
        bucket(start) == Picked(w, {i \in DOMAIN w : BucketStart(w[i], size) = start})
    IN  IF w # << >> /\ size = 0 THEN Panic
        ELSE [k \in DOMAIN starts |->
                [timestamp |-> starts[k], summary |-> Summary(bucket(starts[k]))]]

\* recent takes the last arrivals, newest first.
Recent(w, limit) ==
    LET r == Reverse(w) IN SubSeq(r, 1, IF limit < Len(r) THEN limit ELSE Len(r))
=============================================================================
