---------------------------- MODULE MetricsWindow ----------------------------
(***************************************************************************)
(* The rolling windows of the programs while transactions arrive and time  *)
(* passes.  Only push evicts; summary, timeseries and the queries read     *)
(* what is there.  A transaction's block time may lag the wall clock by    *)
(* MaxLate: it is fetched after it is confirmed, with retries.             *)
(***************************************************************************)
EXTENDS SharedWindows, TransactionQueries

CONSTANTS
    Shapes,       \* what a transaction may be: [ok, cu, category]
    MaxLate,      \* how far a block time may lag behind the clock
    BucketSizes,  \* intervals asked of timeseries, which checks none
    Limits,       \* limits asked of the queries
    MaxArrivals   \* bound

ASSUME WindowParametersAreGiven ==
    /\ {MaxLate, MaxTime, MaxArrivals} \subseteq Nat
    /\ BucketSizes \subseteq Int /\ Limits \subseteq Nat
    /\ \A s \in Shapes : s.ok \in BOOLEAN /\ s.cu \in Nat
    /\ IsFiniteSet(Programs)

VARIABLE
    arrived       \* history: every transaction pushed for a program, and when

windowVars == <<windows, clock, arrived>>

WindowsInit ==
    /\ windows = [p \in Programs |-> EmptyWindow]
    /\ clock = 0
    /\ arrived = [p \in Programs |-> << >>]

Arrivals == UNION {{p} \X DOMAIN arrived[p] : p \in Programs}

\* Program and number tell transactions apart, as the signature does.
Arrive(p, at, shape) ==
    /\ Cardinality(Arrivals) < MaxArrivals
    /\ at <= clock /\ at >= clock - MaxLate
    /\ LET tx == [n |-> Len(arrived[p]) + 1, program |-> p, at |-> at,
                  ok |-> shape.ok, cu |-> shape.cu, category |-> shape.category]
       IN  /\ windows' = [windows EXCEPT ![p] = Push(@, tx, clock)]
           /\ arrived' = [arrived EXCEPT ![p] = Append(@, [tx |-> tx, pushed |-> clock])]
    /\ UNCHANGED clock

TimePasses ==
    /\ clock < MaxTime
    /\ clock' = clock + 1
    /\ UNCHANGED <<windows, arrived>>

WindowsNext == TimePasses \/ \E p \in Programs, at \in 0 .. MaxTime, shape \in Shapes : Arrive(p, at, shape)
WindowsSpec == WindowsInit /\ [][WindowsNext]_windowVars

-----------------------------------------------------------------------------
(* Properties *)

InTimeOrder(s) == \A i, j \in DOMAIN s : i < j => s[i].tx.at <= s[j].tx.at

\* In whatever order block times arrive, a window is what arrived last, in arrival
\* order, and whatever left it was too old when the last one came: a late block time
\* never costs a younger transaction its place.  With block times in order nothing
\* aged stays, except possibly the last arrival itself: only a push evicts, and it
\* evicts before it adds (rolling_window.rs:22-36).
WindowIsTheLive ==
    \A p \in Programs :
        LET mine == arrived[p]
            gone == Len(mine) - Len(windows[p])
            cutoff == mine[Len(mine)].pushed - MaxAge
        IN  /\ IsSuffix(windows[p], [i \in DOMAIN mine |-> mine[i].tx])
            /\ \A i \in 1 .. gone : mine[i].tx.at < cutoff
            /\ InTimeOrder(mine) => \A i \in gone + 1 .. Len(mine) - 1 : mine[i].tx.at >= cutoff

\* Asked for an interval other than 0, which panics on any transaction, timeseries
\* splits the window: its buckets are in order and do not overlap, each counts exactly
\* the transactions of its interval, and the counts add up to those of summary
\* (rolling_window.rs:38-128).
TimeseriesSplitsSummary ==
    \A p \in Programs, size \in BucketSizes \ {0} :
        LET buckets == Timeseries(windows[p], size)
        IN  /\ \A i \in 1 .. Len(buckets) - 1 :
                   buckets[i].timestamp + Width(size) <= buckets[i + 1].timestamp
            /\ \A i \in DOMAIN buckets :
                   buckets[i].summary.tx_count =
                       Cardinality({j \in DOMAIN windows[p] :
                           /\ windows[p][j].at >= buckets[i].timestamp
                           /\ windows[p][j].at < buckets[i].timestamp + Width(size)})
            /\ Total([i \in DOMAIN buckets |-> buckets[i].summary.tx_count])
                   = Summary(windows[p]).tx_count
            /\ Total([i \in DOMAIN buckets |-> buckets[i].summary.error_count])
                   = Summary(windows[p]).error_count

Categories == {s.category : s \in Shapes}
Later(p, n) == {j \in DOMAIN windows[p] : windows[p][j].n > n}
Orders == SetToSeqs(Programs)

Excused(p, tx, answer, limit, newer(_)) ==
    \/ \E i \in DOMAIN answer : answer[i] = tx
    \/ Len(answer) = limit /\ \A i \in DOMAIN answer : newer(answer[i])
    \/ Cardinality(Later(p, tx.n)) >= Scan * limit

Proper(answer, limit, filter) ==
    /\ Len(answer) <= limit /\ Cardinality(ToSet(answer)) = Len(answer)
    /\ \A i \in DOMAIN answer : answer[i].category \in filter

\* A query answers with matching transactions only, none twice, and leaves a matching
\* one out only for enough newer ones: the answer is full of transactions at least as
\* new, by arrival of one program, by block time of all, or Scan times the limit have
\* arrived since for its program, matching or not (routes.rs:230-301).
QueriesMissOnlyTheOld ==
    \A limit \in Limits, filter \in SUBSET Categories :
        /\ \A p \in Programs :
            LET answer == RecentOf(windows[p], limit, filter)
            IN  /\ Proper(answer, limit, filter)
                /\ \A j \in DOMAIN windows[p] :
                    LET tx == windows[p][j]
                    IN  tx.category \in filter =>
                            Excused(p, tx, answer, limit, LAMBDA a : a.n > tx.n)
        /\ \A order \in Orders :
            LET answer == RecentOfAll(windows, order, limit, filter)
            IN  /\ Proper(answer, limit, filter)
                /\ \A p \in Programs : \A j \in DOMAIN windows[p] :
                    LET tx == windows[p][j]
                    IN  tx.category \in filter =>
                            Excused(p, tx, answer, limit, LAMBDA a : a.at >= tx.at)
=============================================================================
