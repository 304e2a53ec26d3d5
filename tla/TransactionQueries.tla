-------------------------- MODULE TransactionQueries --------------------------
(***************************************************************************)
(* GET /api/transactions/recent (routes.rs), as operators on the windows   *)
(* of the programs.  A query's filters (category, classifier, confidence,  *)
(* debug trace) all look at the classification alone: a filter is a set of *)
(* categories.  To have something left after filtering, the handler reads  *)
(* Scan (4) times as many transactions of a window as it is asked for.     *)
(***************************************************************************)
EXTENDS RollingWindow

CONSTANT Scan
ASSUME ScanIsPositive == Scan \in Nat \ {0}

Matches(tx, filter) == tx.category \in filter
Matching(txs, filter) == Picked(txs, {i \in DOMAIN txs : Matches(txs[i], filter)})

First(n, s) == SubSeq(s, 1, IF n < Len(s) THEN n ELSE Len(s))

ScanOnlyTheLimit(w, limit, filter) == First(limit, Matching(Recent(w, limit), filter))

\* Of one program, by arrival.
RecentOf(w, limit, filter) == First(limit, Matching(Recent(w, Scan * limit), filter))

\* The last transactions of each window, and where they were found.
LastOfEach(windows, order, n) ==
    UNION {{[window |-> o, back |-> i, tx |-> Recent(windows[order[o]], n)[i]] :
                i \in DOMAIN Recent(windows[order[o]], n)} : o \in DOMAIN order}

\* sort_by is stable: transactions of one time stay as they were.
Before(a, b) ==
    \/ a.tx.at > b.tx.at
    \/ /\ a.tx.at = b.tx.at
       /\ a.window < b.window \/ (a.window = b.window /\ a.back < b.back)

NewestFirst(found) ==
    LET upTo(b) == {a \in found : a = b \/ Before(a, b)}
    IN  [k \in 1 .. Cardinality(found) |-> (CHOOSE b \in found : Cardinality(upTo(b)) = k).tx]

TruncateFirst(windows, order, limit, filter) ==
    Matching(First(limit, NewestFirst(LastOfEach(windows, order, Scan * limit))), filter)

\* Of all programs, by block time.  The windows are in a hash map: their order
\* is any.
RecentOfAll(windows, order, limit, filter) ==
    First(limit, Matching(NewestFirst(LastOfEach(windows, order, Scan * limit)), filter))
=============================================================================
