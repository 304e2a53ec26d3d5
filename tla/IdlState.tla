------------------------------- MODULE IdlState -------------------------------
(***************************************************************************)
(* The IDL maps of AppState: idls, idl_failures and idl_status, each under *)
(* a lock of its own.  Boot discovery (gulfwatch-ingest/discover.rs), the  *)
(* REST upload and the REST delete (gulfwatch-server/routes.rs) change     *)
(* them concurrently, taking one lock at a time, so an upsert is three     *)
(* steps and a failure two, with anything in between.  A REST handler is   *)
(* polled by its connection: when the client hangs up it is dropped at the *)
(* await it has reached, whatever it has written so far.                   *)
(*                                                                         *)
(* A task is a discovery, named by its program, or a REST request.  Of an  *)
(* IDL document only its origin is kept.  The set of requests bounds how   *)
(* many arrive.                                                            *)
(***************************************************************************)
EXTENDS Naturals

CONSTANTS
    Monitored,     \* monitored at boot: each has one discovery task
    Bundled,      \* those the runtime IDL directory has an IDL for
    Requests,     \* REST requests that may arrive
    NoIdl, NoProgram

ASSUME BundledArePrograms == Bundled \subseteq Monitored
ASSUME TasksAreDistinct == Monitored \cap Requests = {}
ASSUME NoIdlIsNoIdl == NoIdl \notin {"on-chain", "bundled", "uploaded"}
ASSUME NoProgramIsNoProgram == NoProgram \notin Monitored

VARIABLES
    idls,         \* program -> registered IDL, or NoIdl
    failures,     \* programs with a failure reason
    status,       \* program -> IdlStatus, or "none"
    task,         \* task -> [pc, program, idl]
    \* History, read by no step.
    deleted,      \* programs whose IDL was deleted and not inserted since
    overlapped,   \* programs on which two operations ever overlapped
    torn          \* programs a dropped handler left half-written, none written since

maps == <<idls, failures, status>>
history == <<deleted, overlapped, torn>>
vars == <<maps, task, history>>

Tasks == Monitored \cup Requests
Idls == {"on-chain", "bundled", "uploaded"}
Pcs == {"boot", "fetching", "idle", "insert", "clear", "loaded", "fail", "unavailable", "done"}

\* A task is busy on its program between its first write and its last.
BusyPcs == {"fetching", "insert", "clear", "loaded", "fail", "unavailable"}
Busy(t) == task[t].pc \in BusyPcs

\* It has made a write and has another to make.
HalfDonePcs == {"clear", "loaded", "unavailable"}

Init ==
    /\ idls = [p \in Monitored |-> NoIdl]
    /\ failures = {}
    /\ status = [p \in Monitored |-> "none"]
    /\ task = [t \in Tasks |-> IF t \in Monitored
                               THEN [pc |-> "boot", program |-> t, idl |-> NoIdl]
                               ELSE [pc |-> "idle", program |-> NoProgram, idl |-> NoIdl]]
    /\ deleted = {} /\ overlapped = {} /\ torn = {}

GoTo(t, from, to) ==
    /\ task[t].pc = from
    /\ task' = [task EXCEPT ![t].pc = to]

\* A task that begins on p while another is busy there overlaps it.
Begins(p) ==
    overlapped' = IF \E t \in Tasks : Busy(t) /\ task[t].program = p
                  THEN overlapped \cup {p} ELSE overlapped

-----------------------------------------------------------------------------
(* Boot discovery *)

Discover(p) ==
    /\ GoTo(p, "boot", "fetching")
    /\ status' = [status EXCEPT ![p] = "loading"]
    /\ Begins(p)
    /\ UNCHANGED <<idls, failures, deleted, torn>>

FetchOnChain(p) ==
    /\ task[p].pc = "fetching"
    /\ task' = [task EXCEPT ![p] = [pc |-> "insert", program |-> p, idl |-> "on-chain"]]
    /\ UNCHANGED <<maps, history>>

FallBackToBundled(p) ==
    /\ task[p].pc = "fetching"
    /\ p \in Bundled
    /\ task' = [task EXCEPT ![p] = [pc |-> "insert", program |-> p, idl |-> "bundled"]]
    /\ UNCHANGED <<maps, history>>

FetchFails(p) ==
    /\ p \notin Bundled
    /\ GoTo(p, "fetching", "fail")
    /\ UNCHANGED <<maps, history>>

-----------------------------------------------------------------------------
(* REST requests *)

Arrive(r, p, pc, idl) ==
    /\ task[r].pc = "idle"
    /\ task' = [task EXCEPT ![r] = [pc |-> pc, program |-> p, idl |-> idl]]

Upload(r, p) ==
    /\ Arrive(r, p, "insert", "uploaded")
    /\ Begins(p)
    /\ UNCHANGED <<maps, deleted, torn>>

\* An upload that does not parse records the reason; it leaves the IDL alone.
RejectUpload(r, p) ==
    /\ Arrive(r, p, "fail", NoIdl)
    /\ Begins(p)
    /\ UNCHANGED <<maps, deleted, torn>>

\* remove_idl touches neither the status nor the failures.
Delete(r, p) ==
    /\ Arrive(r, p, "done", NoIdl)
    /\ Begins(p)
    /\ idls' = [idls EXCEPT ![p] = NoIdl]
    /\ deleted' = deleted \cup {p}
    /\ UNCHANGED <<failures, status, torn>>

\* The client of a request hangs up while its handler waits for a lock: what it
\* has written stays, the writes that are left are never made.
HangUp(r) ==
    /\ task[r].pc \in {"insert", "clear", "loaded", "fail", "unavailable"}
    /\ task' = [task EXCEPT ![r].pc = "done"]
    /\ torn' = IF task[r].pc \in HalfDonePcs THEN torn \cup {task[r].program} ELSE torn
    /\ UNCHANGED <<maps, deleted, overlapped>>

-----------------------------------------------------------------------------
(* upsert_idl and set_idl_failure, one lock at a time *)

InsertNothing(t) == GoTo(t, "insert", "clear") /\ UNCHANGED <<maps, history>>

InsertIdl(t) ==
    /\ GoTo(t, "insert", "clear")
    /\ idls' = [idls EXCEPT ![task[t].program] = task[t].idl]
    /\ deleted' = deleted \ {task[t].program}
    /\ UNCHANGED <<failures, status, overlapped, torn>>

ClearNothing(t) == GoTo(t, "clear", "loaded") /\ UNCHANGED <<maps, history>>

ClearFailure(t) ==
    /\ GoTo(t, "clear", "loaded")
    /\ failures' = failures \ {task[t].program}
    /\ UNCHANGED <<idls, status, history>>

SetLoaded(t) ==
    /\ GoTo(t, "loaded", "done")
    /\ status' = [status EXCEPT ![task[t].program] = "loaded"]
    /\ torn' = torn \ {task[t].program}
    /\ UNCHANGED <<idls, failures, deleted, overlapped>>

RecordFailure(t) ==
    /\ GoTo(t, "fail", "unavailable")
    /\ failures' = failures \cup {task[t].program}
    /\ UNCHANGED <<idls, status, history>>

StatusForgotten(t) == GoTo(t, "unavailable", "done") /\ UNCHANGED <<maps, history>>

SetUnavailable(t) ==
    /\ GoTo(t, "unavailable", "done")
    /\ status' = [status EXCEPT ![task[t].program] = "unavailable"]
    /\ torn' = torn \ {task[t].program}
    /\ UNCHANGED <<idls, failures, deleted, overlapped>>

Step(t) ==
    \/ InsertIdl(t) \/ ClearFailure(t) \/ SetLoaded(t)
    \/ RecordFailure(t) \/ SetUnavailable(t)

Next ==
    \/ \E p \in Monitored :
        \/ Discover(p) \/ FetchOnChain(p) \/ FallBackToBundled(p) \/ FetchFails(p)
        \/ \E r \in Requests : Upload(r, p) \/ RejectUpload(r, p) \/ Delete(r, p)
    \/ \E t \in Tasks : Step(t)
    \/ \E r \in Requests : HangUp(r)

Spec == Init /\ [][Next]_vars

\* Tokio runs every task that can run, and no lock is held across an await.
\* Nothing makes an RPC node answer (the HTTP client sets no timeout) or a
\* client send a request, so those steps are not fair.
FairSpec == Spec /\ \A t \in Tasks : WF_vars(Step(t))

-----------------------------------------------------------------------------
(* Properties *)

TaskType ==
    /\ task \in [Tasks -> [pc : Pcs, program : Monitored \cup {NoProgram},
                           idl : Idls \cup {NoIdl}]]
    /\ \A t \in Tasks :
        /\ task[t].pc # "idle" => task[t].program \in Monitored
        /\ task[t].pc = "insert" => task[t].idl # NoIdl

\* The maps hold IDLs, programs and states; a task beyond idle has a program,
\* and one that is to insert has an IDL.
TypeOK ==
    /\ idls \in [Monitored -> Idls \cup {NoIdl}]
    /\ failures \subseteq Monitored
    /\ status \in [Monitored -> {"none", "loading", "loaded", "unavailable"}]
    /\ TaskType
    /\ deleted \subseteq Monitored /\ overlapped \subseteq Monitored /\ torn \subseteq Monitored

\* However uploads, rejections and discoveries interleave and wherever a client
\* hangs up, a program is shown as loaded only once its IDL is in the map the
\* worker resolves names with, and only a delete takes it out again, until the
\* next insert (the order of the steps of upsert_idl).
LoadedAfterInsert ==
    \A p \in Monitored : status[p] = "loaded" /\ p \notin deleted => idls[p] # NoIdl

QuietOn(p) == \A t \in Tasks : task[t].program = p => ~Busy(t)

\* The three maps agree on a program: it has a failure reason just when it is shown
\* as unavailable, and one that has an IDL is not shown as never looked for, or as
\* still loading.  (Unavailable it may be: a rejected upload leaves the old IDL.)
Agree(p) ==
    /\ status[p] = "unavailable" <=> p \in failures
    /\ idls[p] # NoIdl => status[p] \in {"loaded", "unavailable"}

\* Operations that never overlap on a program leave its three maps in agreement,
\* although no lock covers them, unless a client hung up between two writes; and
\* the next upload, rejection or discovery that runs to its end repairs that.
SerialAgreement ==
    \A p \in Monitored : QuietOn(p) /\ p \notin overlapped \cup torn => Agree(p)

\* Once a discovery's fetch has returned, its program stops being shown as
\* loading, whatever else is going on.
DiscoverySettles ==
    \A p \in Monitored :
        task[p].pc \in {"insert", "fail"} ~> status[p] \in {"loaded", "unavailable"}
=============================================================================
