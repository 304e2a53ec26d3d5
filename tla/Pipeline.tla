------------------------------- MODULE Pipeline -------------------------------
(***************************************************************************)
(* The processing pipeline of gulfwatch-core (pipeline.rs): the ingest     *)
(* channel, the single processing worker, and the REST handlers that add   *)
(* and remove monitored programs or read the metrics meanwhile, over the   *)
(* two locks they share.                                                   *)
(*                                                                         *)
(* A lock is tokio's RwLock: fair, so a task holds it when every task that *)
(* asked before it is done, or when it and all those before it are         *)
(* readers.  A step runs from one await to the next.                       *)
(*                                                                         *)
(* Time is left to MetricsWindow: a push may evict any prefix of the       *)
(* window.  Naming, classification and the detections happen between two   *)
(* awaits of the worker and touch none of this state; of the detections    *)
(* only whether a transaction raises an alert is kept.  MaxTxs bounds the  *)
(* transactions that arrive.                                               *)
(***************************************************************************)
EXTENDS SequencesExt

CONSTANTS
    Programs,     \* programs transactions may be attributed to
    Boot,         \* those monitored at start
    Clients,      \* concurrent REST clients
    Capacity,     \* of the ingest channel
    MaxTxs

ASSUME BootArePrograms == Boot \subseteq Programs
ASSUME CapacityIsPositive == Capacity \in Nat \ {0} /\ MaxTxs \in Nat
ASSUME WorkerIsNoClient == "worker" \notin Clients

VARIABLES
    monitored,    \* monitored_programs
    windows,      \* program -> RollingWindow; the domain is the map's
    lockq,        \* lock -> the tasks that asked for it, in order
    channel,      \* the ingest channel
    worker,       \* [pc, tx, kept]
    client,       \* client -> [pc, op, program]
    \* History, read by no step (and so is worker.kept: the program of the worker's
    \* transaction has not been removed since it was found monitored).
    arrived,      \* number of transactions that arrived
    dead,         \* transactions dead-lettered, in order
    alerts,       \* transactions whose alert was broadcast, in order
    published,    \* transactions broadcast, in order
    torn          \* programs whose POST or DELETE was given up half way

history == <<arrived, dead, alerts, published, torn>>
vars == <<monitored, windows, lockq, channel, worker, client, history>>

Locks == {"programs", "windows"}
Tasks == {"worker"} \cup Clients
NoTx == [n |-> 0]
Ready == [pc |-> "recv", tx |-> NoTx, kept |-> FALSE]
Free == [pc |-> "idle"]

Init ==
    /\ monitored = Boot
    /\ windows = [p \in Boot |-> << >>]
    /\ lockq = [l \in Locks |-> << >>]
    /\ channel = << >>
    /\ worker = Ready
    /\ client = [c \in Clients |-> Free]
    /\ arrived = 0 /\ dead = << >> /\ alerts = << >> /\ published = << >> /\ torn = {}

-----------------------------------------------------------------------------
(* Locks *)

Holds(l, t) ==
    \E i \in DOMAIN lockq[l] :
        /\ lockq[l][i].task = t
        /\ i = 1 \/ \A j \in 1 .. i : ~lockq[l][j].write

HeldForWriting(l) == lockq[l] # << >> /\ Head(lockq[l]).write

Ask(l, t, write) ==
    lockq' = [lockq EXCEPT ![l] = Append(@, [task |-> t, write |-> write])]

PlaceOf(q, t) == SelectInSeq(q, LAMBDA e : e.task = t)
Without(q, t) == IF PlaceOf(q, t) = 0 THEN q ELSE RemoveAt(q, PlaceOf(q, t))

\* Leaves every lock the task holds or waits for, each asked for once: guards dropped
\* at the end of a scope, or with the future of a handler that is cancelled.
Leave(t) == lockq' = [l \in Locks |-> Without(lockq[l], t)]

-----------------------------------------------------------------------------
(* Ingest and the worker *)

Ingest(p, alarming) ==
    /\ arrived < MaxTxs /\ Len(channel) < Capacity
    /\ channel' = Append(channel, [n |-> arrived + 1, program |-> p, alarming |-> alarming])
    /\ arrived' = arrived + 1
    /\ UNCHANGED <<monitored, windows, lockq, worker, client, dead, alerts, published, torn>>

\* recv, then the wait for the read lock on the programs.
Receive ==
    /\ worker.pc = "recv" /\ channel # << >>
    /\ worker' = [Ready EXCEPT !.pc = "check", !.tx = Head(channel)]
    /\ channel' = Tail(channel)
    /\ Ask("programs", "worker", FALSE)
    /\ UNCHANGED <<monitored, windows, client, history>>

IsMonitored == worker.tx.program \in monitored

DeadLetterAndGoOn ==
    /\ worker.pc = "check" /\ Holds("programs", "worker") /\ ~IsMonitored
    /\ dead' = Append(dead, worker.tx)
    /\ worker' = [worker EXCEPT !.pc = "detect", !.kept = FALSE]
    /\ Leave("worker")
    /\ UNCHANGED <<monitored, windows, channel, client, arrived, alerts, published, torn>>

DeadLetter ==
    /\ worker.pc = "check" /\ Holds("programs", "worker") /\ ~IsMonitored
    /\ dead' = Append(dead, worker.tx)
    /\ worker' = Ready
    /\ Leave("worker")
    /\ UNCHANGED <<monitored, windows, channel, client, arrived, alerts, published, torn>>

Accept ==
    /\ worker.pc = "check" /\ Holds("programs", "worker") /\ IsMonitored
    /\ worker' = [worker EXCEPT !.pc = "detect", !.kept = TRUE]
    /\ Leave("worker")
    /\ UNCHANGED <<monitored, windows, channel, client, history>>

DetectWhileMonitored ==
    /\ worker.pc = "detect"
    /\ alerts' = IF worker.tx.alarming /\ worker.kept THEN Append(alerts, worker.tx) ELSE alerts
    /\ worker' = [worker EXCEPT !.pc = "store"]
    /\ Ask("windows", "worker", TRUE)
    /\ UNCHANGED <<monitored, windows, channel, client, arrived, dead, published, torn>>

\* The detections run, their alerts go out, and the worker waits for windows.
Detect ==
    /\ worker.pc = "detect"
    /\ alerts' = IF worker.tx.alarming THEN Append(alerts, worker.tx) ELSE alerts
    /\ worker' = [worker EXCEPT !.pc = "store"]
    /\ Ask("windows", "worker", TRUE)
    /\ UNCHANGED <<monitored, windows, channel, client, arrived, dead, published, torn>>

\* A program removed meanwhile has no window: the transaction is not stored,
\* and is broadcast all the same.
Store ==
    /\ worker.pc = "store" /\ Holds("windows", "worker")
    /\ LET p == worker.tx.program
       IN  IF p \in DOMAIN windows
           THEN \E evicted \in 0 .. Len(windows[p]) :
                  windows' = [windows EXCEPT ![p] =
                      Append(SubSeq(@, evicted + 1, Len(@)), worker.tx.n)]
           ELSE UNCHANGED windows
    /\ worker' = [worker EXCEPT !.pc = "publish"]
    /\ Leave("worker")
    /\ UNCHANGED <<monitored, channel, client, history>>

Publish ==
    /\ worker.pc = "publish"
    /\ published' = Append(published, worker.tx)
    /\ worker' = Ready
    /\ UNCHANGED <<monitored, windows, lockq, channel, client, arrived, dead, alerts, torn>>

Worker == Receive \/ DeadLetter \/ Accept \/ Detect \/ Store \/ Publish

-----------------------------------------------------------------------------
(* REST clients *)

FirstLock(op) == IF op = "metrics" THEN "windows" ELSE "programs"

\* POST and DELETE ask for the programs first, the metrics for the windows only.
Request(c, op, p) ==
    /\ client[c] = Free
    /\ client' = [client EXCEPT ![c] = [pc |-> "first", op |-> op, program |-> p]]
    /\ Ask(FirstLock(op), c, op # "metrics")
    /\ UNCHANGED <<monitored, windows, channel, worker, history>>

ChangesPrograms(c, op) ==
    /\ client[c].pc = "first" /\ client[c].op = op
    /\ Holds("programs", c)
    /\ client' = [client EXCEPT ![c].pc = "second"]

AddToPrograms(c) ==
    /\ ChangesPrograms(c, "add")
    /\ monitored' = monitored \cup {client[c].program}
    /\ Ask("windows", c, TRUE)
    /\ UNCHANGED <<windows, channel, worker, history>>

LetGoThenAsk(c) ==
    lockq' = [lockq EXCEPT
        !["programs"] = Without(@, c),
        !["windows"] = Append(@, [task |-> c, write |-> TRUE])]

RemoveUnderOneLock(c) ==
    /\ ChangesPrograms(c, "remove")
    /\ monitored' = monitored \ {client[c].program}
    /\ worker' = [worker EXCEPT !.kept = @ /\ worker.tx.program # client[c].program]
    /\ LetGoThenAsk(c)
    /\ UNCHANGED <<windows, channel, history>>

RemoveFromPrograms(c) ==
    /\ ChangesPrograms(c, "remove")
    /\ monitored' = monitored \ {client[c].program}
    /\ worker' = [worker EXCEPT !.kept = @ /\ worker.tx.program # client[c].program]
    /\ Ask("windows", c, TRUE)
    /\ UNCHANGED <<windows, channel, history>>

Finishes(c, op) ==
    /\ client[c].pc = "second" /\ client[c].op = op
    /\ Holds("windows", c)
    /\ client' = [client EXCEPT ![c] = Free]
    /\ Leave(c)
    /\ UNCHANGED <<monitored, channel, worker, history>>

OpenAfresh(c) ==
    /\ Finishes(c, "add")
    /\ windows' = (client[c].program :> << >>) @@ windows

\* A window that is there already stays as it is.
OpenWindow(c) ==
    /\ Finishes(c, "add")
    /\ windows' = [p \in DOMAIN windows \cup {client[c].program} |->
                     IF p \in DOMAIN windows THEN windows[p] ELSE << >>]

DropWindow(c) ==
    /\ Finishes(c, "remove")
    /\ windows' = Restrict(windows, DOMAIN windows \ {client[c].program})

ForgetToUnlock(c) ==
    /\ client[c].pc = "first" /\ client[c].op = "metrics"
    /\ Holds("windows", c)
    /\ client' = [client EXCEPT ![c] = Free]
    /\ UNCHANGED <<monitored, windows, lockq, channel, worker, history>>

ReadMetrics(c) ==
    /\ client[c].pc = "first" /\ client[c].op = "metrics"
    /\ Holds("windows", c)
    /\ client' = [client EXCEPT ![c] = Free]
    /\ Leave(c)
    /\ UNCHANGED <<monitored, windows, channel, worker, history>>

Waits(c) ==
    \/ client[c].pc = "second" /\ ~Holds("windows", c)
    \/ client[c].pc = "first" /\ ~Holds(FirstLock(client[c].op), c)

\* The server drops the future of a handler whose client is gone, at the
\* await it is suspended at.
Disconnect(c) ==
    /\ Waits(c)
    /\ client' = [client EXCEPT ![c] = Free]
    /\ Leave(c)
    /\ torn' = IF client[c].pc = "second" THEN torn \cup {client[c].program} ELSE torn
    /\ UNCHANGED <<monitored, windows, channel, worker, arrived, dead, alerts, published>>

Handler(c) ==
    \/ AddToPrograms(c) \/ OpenWindow(c)
    \/ RemoveFromPrograms(c) \/ DropWindow(c)
    \/ ReadMetrics(c)

Next ==
    \/ Worker
    \/ \E p \in Programs, alarming \in BOOLEAN : Ingest(p, alarming)
    \/ \E c \in Clients :
        \/ Handler(c)
        \/ Disconnect(c)
        \/ \E p \in Programs, op \in {"add", "remove"} : Request(c, op, p)
        \/ \E p \in Programs : Request(c, "metrics", p)

Spec == Init /\ [][Next]_vars

\* The runtime polls a task again once it can go on; nothing makes a client
\* send a request or a transaction arrive.
FairSpec == Spec /\ WF_vars(Worker) /\ \A c \in Clients : WF_vars(Handler(c))

-----------------------------------------------------------------------------
(* Properties *)

\* Whoever reads the monitored programs finds a window for each and no other,
\* although the two maps have a lock each: both change under the lock of the
\* programs.  A program whose client hung up between the two writes is torn.
WindowsFollowPrograms ==
    ~HeldForWriting("programs") => (DOMAIN windows) \ torn = monitored \ torn

Numbers(log) == {log[i].n : i \in DOMAIN log}
InTransit == Numbers(channel) \cup (IF worker.tx = NoTx THEN {} ELSE {worker.tx.n})

InOrder(log) == \A i, j \in DOMAIN log : i < j => log[i].n < log[j].n

\* Each transaction that arrived is in one place: dead-lettered or broadcast,
\* once, or still on its way; and both logs are in order of arrival.
Accounted ==
    /\ InOrder(dead) /\ InOrder(published)
    /\ 1 .. arrived = Numbers(dead) \cup Numbers(published) \cup InTransit
    /\ Numbers(dead) \cap Numbers(published) = {}
    /\ InTransit \cap (Numbers(dead) \cup Numbers(published)) = {}

\* When a transaction is about to be broadcast, a client that then asks for it
\* finds it as the newest of its program's window, unless the program was
\* removed while the worker had it, or is torn: a POST of a program already
\* monitored costs nothing.
StoredBeforePublished ==
    worker.pc = "publish" /\ worker.kept /\ worker.tx.program \notin torn =>
        /\ worker.tx.program \in DOMAIN windows
        /\ windows[worker.tx.program] # << >>
        /\ Last(windows[worker.tx.program]) = worker.tx.n

\* The alerts are those of the transactions broadcast, each once and in the
\* same order, ahead by at most the one the worker has in hand: also for a
\* transaction whose program is removed before it can be stored.
AlertsMatchFeed ==
    LET ahead == IF worker.pc \in {"store", "publish"} /\ worker.tx.alarming
                 THEN {worker.tx} ELSE {}
    IN  /\ ToSet(alerts) = {tx \in ToSet(published) : tx.alarming} \cup ahead
        /\ InOrder(alerts)

RequestsEnd == \A c \in Clients : client[c] # Free ~> client[c] = Free

Drains ==
    \A n \in 1 .. MaxTxs : arrived >= n ~> n \in Numbers(dead) \cup Numbers(published)

\* Every request gets its answer, although POST and DELETE wait for one lock
\* while they hold another, and every transaction that enters the channel
\* leaves the pipeline, dead-lettered or broadcast.
EverythingEnds == RequestsEnd /\ Drains
=============================================================================
