--------------------------- MODULE FailedTxCluster ---------------------------
(***************************************************************************)
(* The failed-transaction cluster detection (detections/                   *)
(* failed_tx_cluster.rs): a success that follows at least                  *)
(* FailureThreshold failures of the same signer within Window raises an    *)
(* alert and clears the signer's failures.                                 *)
(*                                                                         *)
(* As in Correlation, a transaction is evaluated in one step, timestamps   *)
(* may step back by MaxSkew, and an absent map entry is the empty queue.   *)
(* MaxTime and MaxFailures (unanswered failures of one signer) are bounds  *)
(* on the input.                                                           *)
(***************************************************************************)
EXTENDS SequencesExt

CONSTANTS
    Signers, NoSigner,
    FailureThreshold,   \* failure_threshold
    Window,             \* window_secs
    MaxSkew, MaxTime, MaxFailures

ASSUME ParametersAreNat ==
    {FailureThreshold, Window, MaxSkew, MaxTime, MaxFailures} \subseteq Nat
ASSUME NoSignerIsNoSigner == NoSigner \notin Signers

VARIABLES
    failures,     \* signer -> queue of failure times
    clock,        \* the newest timestamp evaluated so far
    \* History, read by no step.
    since,        \* signer -> all failures since its last alert
    ordered,      \* no timestamp has stepped back so far
    outcome       \* what the last evaluation saw and did

history == <<since, ordered, outcome>>
vars == <<failures, clock, history>>

EvictNothing(q, now) == q
EvictOnePastTheCutoff(q, now) ==
    LET fresh == SelectInSeq(q, LAMBDA t : t > now - Window)
    IN  IF fresh = 0 THEN << >> ELSE SubSeq(q, fresh, Len(q))

\* evict_old pops from the front until the first failure inside the window.
EvictOld(q, now) ==
    LET fresh == SelectInSeq(q, LAMBDA t : t >= now - Window)
    IN  IF fresh = 0 THEN << >> ELSE SubSeq(q, fresh, Len(q))

Init ==
    /\ failures = [s \in Signers |-> << >>]
    /\ clock = 0
    /\ since = [s \in Signers |-> << >>]
    /\ ordered = TRUE
    /\ outcome = [success |-> FALSE, real |-> 0, fired |-> FALSE]

\* How many of the signer's unanswered failures are in the window at now.
RealFailures(s, now) == Cardinality({i \in DOMAIN since[s] : since[s][i] >= now - Window})

Observe(s, now, ok, fired) ==
    /\ clock' = IF now > clock THEN now ELSE clock
    /\ ordered' = (ordered /\ now >= clock)
    /\ outcome' = [success |-> ok, fired |-> fired,
                   real |-> IF s = NoSigner THEN 0 ELSE RealFailures(s, now)]

\* A transaction without accounts is not evaluated.
NoFeePayer(now) ==
    /\ Observe(NoSigner, now, FALSE, FALSE)
    /\ UNCHANGED <<failures, since>>

Failure(s, now) ==
    /\ failures' = [failures EXCEPT ![s] = Append(EvictOld(@, now), now)]
    /\ since' = [since EXCEPT ![s] = Append(@, now)]
    /\ Observe(s, now, FALSE, FALSE)

RoutineSuccess(s, now) ==
    /\ Len(EvictOld(failures[s], now)) < FailureThreshold
    /\ failures' = [failures EXCEPT ![s] = EvictOld(@, now)]
    /\ Observe(s, now, TRUE, FALSE)
    /\ UNCHANGED since

Cluster(s, now) ==
    /\ Len(EvictOld(failures[s], now)) >= FailureThreshold
    /\ failures' = [failures EXCEPT ![s] = << >>]
    /\ since' = [since EXCEPT ![s] = << >>]
    /\ Observe(s, now, TRUE, TRUE)

Arrivals == {t \in 0 .. MaxTime : t >= clock - MaxSkew}

Next ==
    \E now \in Arrivals :
        \/ NoFeePayer(now)
        \/ \E s \in Signers :
            \/ Len(since[s]) < MaxFailures /\ Failure(s, now)
            \/ RoutineSuccess(s, now)
            \/ Cluster(s, now)

Spec == Init /\ [][Next]_vars

-----------------------------------------------------------------------------
(* Properties *)

\* As long as timestamps never step back, a success raises the alert if and only if
\* FailureThreshold failures of its signer since the last alert are in the window.
AlertIffCluster ==
    ordered /\ outcome.success => (outcome.fired <=> outcome.real >= FailureThreshold)

\* In any order of timestamps, a failure in the window is not forgotten: the
\* queue may count too many, and then the alert comes early, never too few.
NoFailureLost ==
    \A s \in Signers : \A t \in ToSet(since[s]) :
        t >= clock - Window => t \in ToSet(failures[s])
=============================================================================
