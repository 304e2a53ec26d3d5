----------------------------- MODULE Correlation -----------------------------
(***************************************************************************)
(* The cross-program correlation detection of gulfwatch-core               *)
(* (detections/correlation.rs).  It remembers, per signer and per kind of  *)
(* suspicion, which monitored programs the signer touched and when, and    *)
(* raises an alert when the same kind shows up on MinPrograms programs.    *)
(*                                                                         *)
(* The processing worker is one task, so each transaction is evaluated by  *)
(* one atomic step.  Transactions carry the block time the parser gave     *)
(* them; MaxSkew is how far that time may step back behind the newest one  *)
(* (block times are estimates, and a missing one is replaced by the wall   *)
(* clock).  MaxTime bounds the clock for TLC and nothing else.             *)
(*                                                                         *)
(* A HashMap from keys to values is a total function whose absent entries  *)
(* are NoTime or the empty queue: the code never tells these apart.        *)
(***************************************************************************)
EXTENDS SequencesExt

CONSTANTS
    Signers,      \* fee payers
    Programs,     \* monitored programs
    NoSigner,     \* accounts.first() of a transaction without accounts
    MinPrograms,  \* CORRELATION_MIN_PROGRAMS
    Window,       \* CORRELATION_WINDOW_SECS
    MaxSkew,      \* how far behind the newest timestamp a transaction may be
    Shapes,       \* the combinations of success, large and delegate that arrive
    MaxTime       \* bound on timestamps

ASSUME ParametersAreNat == MinPrograms \in Nat /\ Window \in Nat
                           /\ MaxSkew \in Nat /\ MaxTime \in Nat
ASSUME NoSignerIsNoSigner == NoSigner \notin Signers
ASSUME ShapesAreShapes ==
    Shapes \subseteq [success : BOOLEAN, large : BOOLEAN, delegate : BOOLEAN]

VARIABLES
    touches,      \* signer -> kind -> queue of [program, at]
    pending,      \* <<signer, program>> -> time of an unanswered failure
    lastFired,    \* signer -> kind -> time of the latest alert
    clock,        \* the newest timestamp evaluated so far
    \* History, read by no step: what really happened.
    latest,       \* signer -> kind -> program -> newest touch
    probe,        \* <<signer, program>> -> newest failure since the last success
    fires,        \* signer -> kind -> times of all alerts, in the order raised
    ordered       \* no timestamp has stepped back so far

stores == <<touches, pending, lastFired>>
history == <<latest, probe, fires>>
vars == <<stores, clock, history, ordered>>

NoTime == -1
Rank == [failed_then_success |-> 1, large_transfer |-> 2, permanent_delegate |-> 3]
Kinds == DOMAIN Rank
Keys == Signers \X Programs
Inert == MinPrograms <= 1

\* A transaction as the detection sees it: large and delegate say that some
\* instruction moves at least the threshold, or sets a permanent delegate.
Transactions ==
    [signer : Signers \cup {NoSigner}, program : Programs, at : Nat,
     success : BOOLEAN, large : BOOLEAN, delegate : BOOLEAN]

-----------------------------------------------------------------------------
(* Pending failures and the kinds of suspicion a transaction shows *)

\* evict_pending_failures
SweptPending(now) ==
    [key \in Keys |-> IF pending[key] >= now - Window THEN pending[key] ELSE NoTime]

Live(now, key) == SweptPending(now)[key] # NoTime

\* The second half of classify's failure bookkeeping: a success consumes the
\* failure that is pending for the same signer and program.
FollowsFailure(tx) ==
    /\ tx.success
    /\ Live(tx.at, <<tx.signer, tx.program>>)
    /\ tx.at - SweptPending(tx.at)[<<tx.signer, tx.program>>] <= Window

PendingNeverConsumed(tx) ==
    IF tx.success THEN SweptPending(tx.at)
    ELSE [SweptPending(tx.at) EXCEPT ![<<tx.signer, tx.program>>] = tx.at]

PendingAfter(tx) ==
    [SweptPending(tx.at) EXCEPT
        ![<<tx.signer, tx.program>>] = IF tx.success THEN NoTime ELSE tx.at]

KindsOf(tx) ==
    (IF FollowsFailure(tx) THEN {"failed_then_success"} ELSE {})
    \cup (IF tx.large THEN {"large_transfer"} ELSE {})
    \cup (IF tx.delegate THEN {"permanent_delegate"} ELSE {})

-----------------------------------------------------------------------------
(* The queue of touches of one signer and kind *)

EvictOnePastTheCutoff(q, now) ==
    LET fresh == SelectInSeq(q, LAMBDA t : t.at > now - Window)
    IN  IF fresh = 0 THEN << >> ELSE SubSeq(q, fresh, Len(q))

\* evict pops from the front until the first touch inside the window.
Evict(q, now) ==
    LET fresh == SelectInSeq(q, LAMBDA t : t.at >= now - Window)
    IN  IF fresh = 0 THEN << >> ELSE SubSeq(q, fresh, Len(q))

\* record refreshes a known program where it stands, else appends.
Record(q, program, at) ==
    LET known == SelectInSeq(q, LAMBDA t : t.program = program)
    IN  IF known # 0 THEN [q EXCEPT ![known] = [program |-> program, at |-> at]]
        ELSE Append(q, [program |-> program, at |-> at])

TouchesAfter(tx) ==
    [touches EXCEPT ![tx.signer] = [k \in Kinds |->
        IF k \in KindsOf(tx)
        THEN Record(Evict(touches[tx.signer][k], tx.at), tx.program, tx.at)
        ELSE touches[tx.signer][k]]]

DistinctProgramCount(tx, k) == Len(TouchesAfter(tx)[tx.signer][k])

CooldownForgotten(tx, k) == TRUE

CooldownOk(tx, k) ==
    \/ lastFired[tx.signer][k] = NoTime
    \/ tx.at - lastFired[tx.signer][k] > Window

FireableOnlyAbove(tx) ==
    {k \in KindsOf(tx) : DistinctProgramCount(tx, k) > MinPrograms /\ CooldownOk(tx, k)}

Fireable(tx) ==
    {k \in KindsOf(tx) : DistinctProgramCount(tx, k) >= MinPrograms /\ CooldownOk(tx, k)}

-----------------------------------------------------------------------------
(* evaluate *)

Init ==
    /\ touches = [s \in Signers |-> [k \in Kinds |-> << >>]]
    /\ pending = [key \in Keys |-> NoTime]
    /\ lastFired = [s \in Signers |-> [k \in Kinds |-> NoTime]]
    /\ clock = 0
    /\ latest = [s \in Signers |-> [k \in Kinds |-> [p \in Programs |-> NoTime]]]
    /\ probe = [key \in Keys |-> NoTime]
    /\ fires = [s \in Signers |-> [k \in Kinds |-> << >>]]
    /\ ordered = TRUE

Advance(tx) ==
    /\ clock' = IF tx.at > clock THEN tx.at ELSE clock
    /\ ordered' = (ordered /\ tx.at >= clock)

\* The history of a step: nothing here feeds back into the detection.
Witness(tx) ==
    /\ Advance(tx)
    /\ latest' = [latest EXCEPT ![tx.signer] = [k \in Kinds |->
           IF k \in KindsOf(tx) /\ tx.at > @[k][tx.program]
           THEN [@[k] EXCEPT ![tx.program] = tx.at] ELSE @[k]]]
    /\ probe' = [probe EXCEPT ![<<tx.signer, tx.program>>] =
                    IF tx.success THEN NoTime ELSE tx.at]

\* The early return: too few programs configured, or no fee payer.
Skip(tx) ==
    /\ Inert \/ tx.signer = NoSigner
    /\ Advance(tx)
    /\ UNCHANGED <<stores, history>>

\* No kind of suspicion reaches the threshold outside its cooldown.
Quiet(tx) ==
    /\ ~Inert /\ tx.signer # NoSigner
    /\ Fireable(tx) = {}
    /\ pending' = PendingAfter(tx)
    /\ touches' = TouchesAfter(tx)
    /\ Witness(tx)
    /\ UNCHANGED <<lastFired, fires>>

\* The first kind that can fire does, and evaluate returns: later kinds of
\* the same transaction are recorded but raise nothing.
Fire(tx) ==
    /\ ~Inert /\ tx.signer # NoSigner
    /\ \E k \in Fireable(tx) :
        /\ \A other \in Fireable(tx) : Rank[k] <= Rank[other]
        /\ lastFired' = [lastFired EXCEPT ![tx.signer][k] = tx.at]
        /\ fires' = [fires EXCEPT ![tx.signer][k] = Append(@, tx.at)]
    /\ pending' = PendingAfter(tx)
    /\ touches' = TouchesAfter(tx)
    /\ Witness(tx)

Evaluate(tx) == Skip(tx) \/ Quiet(tx) \/ Fire(tx)

Arrivals == {t \in 0 .. MaxTime : t >= clock - MaxSkew}

Next ==
    \E s \in Signers \cup {NoSigner}, p \in Programs, t \in Arrivals, shape \in Shapes :
        Evaluate([signer |-> s, program |-> p, at |-> t, success |-> shape.success,
                  large |-> shape.large, delegate |-> shape.delegate])

Spec == Init /\ [][Next]_vars

-----------------------------------------------------------------------------
(* Properties *)

Time == Nat \cup {NoTime}
Touch == [program : Programs, at : Nat]

\* Every store holds what its type in the code says.
TypeOK ==
    /\ touches \in [Signers -> [Kinds -> Seq(Touch)]]
    /\ pending \in [Keys -> Time]
    /\ lastFired \in [Signers -> [Kinds -> Time]]
    /\ clock \in Nat
    /\ ordered \in BOOLEAN
    /\ latest \in [Signers -> [Kinds -> [Programs -> Time]]]
    /\ probe \in [Keys -> Time]
    /\ fires \in [Signers -> [Kinds -> Seq(Nat)]]

\* Of two alerts about the same signer and kind, the one raised later is more
\* than one window younger, whatever order the timestamps arrive in: so no alert
\* is about an older time than the one before it, and a transaction that is
\* delivered again with its old timestamp never raises the same alert twice
\* (cooldown_ok and the update of last_fired).
FiresSpaced ==
    \A s \in Signers, k \in Kinds : \A i, j \in DOMAIN fires[s][k] :
        i < j => fires[s][k][j] - fires[s][k][i] > Window

\* The times of the alerts about a signer and kind.
Fired(s, k) == ToSet(fires[s][k])

\* No program is queued twice for one signer and kind, so the length of the
\* queue, which distinct_program_count returns, counts distinct programs.
QueuedOnce ==
    \A s \in Signers, k \in Kinds :
        LET q == touches[s][k]
        IN  \A i, j \in DOMAIN q : q[i].program = q[j].program => i = j

\* The programs the signer really touched in the window that ends at now.
TouchedWithin(s, k, now) ==
    {p \in Programs : latest[s][k][p] # NoTime /\ latest[s][k][p] >= now - Window}

\* As long as timestamps never step back, eviction loses no touch that is still
\* in the window: each is queued with its newest time.
NoTouchLost ==
    ordered => \A s \in Signers, k \in Kinds : \A p \in TouchedWithin(s, k, clock) :
        \E i \in DOMAIN touches[s][k] :
            touches[s][k][i] = [program |-> p, at |-> latest[s][k][p]]

LastTouch(s, k) == Max({latest[s][k][p] : p \in Programs})

\* As long as timestamps never step back, a transaction that brings a signer to
\* MinPrograms programs of one kind raises an alert, unless that kind raised
\* one within the last window, or another kind does at the same time.
NoMissedCorrelation ==
    ordered => \A s \in Signers, k \in Kinds :
        LET now == LastTouch(s, k)
        IN  Cardinality(TouchedWithin(s, k, now)) >= MinPrograms /\ ~Inert =>
                \/ \E f \in Fired(s, k) : now - f <= Window
                \/ \E other \in Kinds : now \in Fired(s, other)

\* As long as timestamps never step back, the map of pending failures answers
\* exactly as the full record of unanswered failures would: a failure in the
\* window is still there, and a success has consumed the one before it.
PendingIsExact ==
    ordered => \A s \in Signers, p \in Programs :
        LET failed == probe[<<s, p>>]
        IN  /\ failed # NoTime /\ failed >= clock - Window => pending[<<s, p>>] = failed
            /\ pending[<<s, p>>] # NoTime => pending[<<s, p>>] = failed

=============================================================================
