------------------------------- MODULE IdlProofs -------------------------------
(***************************************************************************)
(* Proofs about IdlState for any number of programs and requests, and      *)
(* about CuAttribution and NameResolution for any calls and messages: what *)
(* the parser of the log keeps while the runtime writes it, and the names  *)
(* the worker reads from it.                                               *)
(***************************************************************************)
EXTENDS IdlState, NameResolution, FiniteSetTheorems, TLAPS

\* A task that is past its insert has inserted, unless a delete came since.
InsertedBefore ==
    \A t \in Tasks :
        /\ task[t].pc \in {"clear", "loaded"}
        /\ task[t].program \notin deleted
        => idls[task[t].program] # NoIdl

LoadedInv == TypeOK /\ InsertedBefore /\ LoadedAfterInsert

\* On a program where nothing has overlapped, at most one task is busy, and
\* between its writes it leaves the failure reason as its last one will need it.
OneBusy ==
    \A t, u \in Tasks :
        /\ Busy(t) /\ Busy(u)
        /\ task[t].program = task[u].program
        /\ task[t].program \notin overlapped
        => t = u

HalfWritten ==
    \A t \in Tasks : task[t].program \notin overlapped =>
        /\ task[t].pc = "loaded" => task[t].program \notin failures
        /\ task[t].pc = "unavailable" => task[t].program \in failures

\* While nothing but requests that have not written yet is busy on a program, its
\* maps agree: a request that is dropped before its first write changes nothing.
Unwritten(t) == t \in Requests /\ task[t].pc \in {"insert", "fail"}

AgreeAtRest ==
    \A p \in Monitored :
        /\ p \notin overlapped /\ p \notin torn
        /\ \A t \in Tasks : task[t].program = p /\ Busy(t) => Unwritten(t)
        => Agree(p)

\* A boot task stays with the program it is named after.
OwnProgram == \A p \in Monitored : task[p].program = p

SerialInv == TypeOK /\ OwnProgram /\ OneBusy /\ HalfWritten /\ AgreeAtRest

-----------------------------------------------------------------------------
(* Type correctness *)

LEMMA TypeInit == Init => TypeOK
<1> SUFFICES ASSUME Init
             PROVE  TypeOK
    OBVIOUS
<1> DEFINE Start(t) == IF t \in Monitored
                       THEN [pc |-> "boot", program |-> t, idl |-> NoIdl]
                       ELSE [pc |-> "idle", program |-> NoProgram, idl |-> NoIdl]
<1>1. task = [t \in Tasks |-> Start(t)]
    BY DEF Init
<1>2. ASSUME NEW t \in Tasks
      PROVE  /\ Start(t) \in [pc : Pcs, program : Monitored \cup {NoProgram},
                              idl : Idls \cup {NoIdl}]
             /\ Start(t).pc # "idle" => Start(t).program \in Monitored
             /\ Start(t).pc # "insert"
    BY <1>2 DEF Tasks, Idls, Pcs
<1> HIDE DEF Start
<1>3. TaskType
    BY <1>1, <1>2 DEF TaskType
<1>4. /\ idls = [p \in Monitored |-> NoIdl] /\ status = [p \in Monitored |-> "none"]
      /\ failures = {} /\ deleted = {} /\ overlapped = {} /\ torn = {}
    BY DEF Init
<1>5. idls \in [Monitored -> Idls \cup {NoIdl}]
    BY <1>4
<1>6. status \in [Monitored -> {"none", "loading", "loaded", "unavailable"}]
    BY <1>4
<1>7. /\ failures \subseteq Monitored /\ deleted \subseteq Monitored
      /\ overlapped \subseteq Monitored /\ torn \subseteq Monitored
    BY <1>4
<1> QED
    BY <1>3, <1>5, <1>6, <1>7 DEF TypeOK

LEMMA BeginsType ==
    ASSUME TypeOK, NEW p \in Monitored, Begins(p)
    PROVE  overlapped' \subseteq Monitored
BY DEF Begins, TypeOK

LEMMA GoToType ==
    ASSUME TypeOK, NEW t \in Tasks, NEW from \in Pcs \ {"idle"}, NEW to \in Pcs \ {"insert"},
           GoTo(t, from, to)
    PROVE  TaskType'
BY DEF GoTo, TypeOK, TaskType, Pcs

LEMMA SetTaskType ==
    ASSUME TypeOK, NEW t \in Tasks, NEW p \in Monitored, NEW pc \in Pcs, NEW idl \in Idls \cup {NoIdl},
           pc = "insert" => idl # NoIdl,
           task' = [task EXCEPT ![t] = [pc |-> pc, program |-> p, idl |-> idl]]
    PROVE  TaskType'
BY DEF TypeOK, TaskType

LEMMA TypeStep == TypeOK /\ [Next]_vars => TypeOK'
<1> SUFFICES ASSUME TypeOK, [Next]_vars
             PROVE  TypeOK'
    OBVIOUS
<1>1. ASSUME NEW p \in Monitored, Discover(p)
      PROVE  TypeOK'
    BY <1>1, GoToType, BeginsType DEF Discover, TypeOK, Tasks, Pcs
<1>2. ASSUME NEW p \in Monitored, FetchOnChain(p)
      PROVE  TypeOK'
    BY <1>2, SetTaskType, NoIdlIsNoIdl DEF FetchOnChain, TypeOK, Tasks, Idls, Pcs, maps, history
<1>3. ASSUME NEW p \in Monitored, FallBackToBundled(p)
      PROVE  TypeOK'
    BY <1>3, SetTaskType, NoIdlIsNoIdl DEF FallBackToBundled, TypeOK, Tasks, Idls, Pcs, maps, history
<1>4. ASSUME NEW p \in Monitored, FetchFails(p)
      PROVE  TypeOK'
    BY <1>4, GoToType DEF FetchFails, TypeOK, Tasks, Pcs, maps, history
<1>5. ASSUME NEW p \in Monitored, NEW r \in Requests, Upload(r, p)
      PROVE  TypeOK'
    BY <1>5, SetTaskType, BeginsType, NoIdlIsNoIdl DEF Upload, Arrive, TypeOK, Tasks, Idls, Pcs, maps
<1>6. ASSUME NEW p \in Monitored, NEW r \in Requests, RejectUpload(r, p)
      PROVE  TypeOK'
    BY <1>6, SetTaskType, BeginsType DEF RejectUpload, Arrive, TypeOK, Tasks, Pcs, maps
<1>7. ASSUME NEW p \in Monitored, NEW r \in Requests, Delete(r, p)
      PROVE  TypeOK'
    BY <1>7, SetTaskType, BeginsType DEF Delete, Arrive, TypeOK, Tasks, Pcs
<1>8. ASSUME NEW t \in Tasks, InsertIdl(t)
      PROVE  TypeOK'
    <2>1. TaskType'
        BY <1>8, GoToType DEF InsertIdl, Pcs
    <2>2. task[t].program \in Monitored /\ task[t].idl \in Idls \cup {NoIdl}
        BY <1>8 DEF InsertIdl, GoTo, TypeOK, TaskType
    <2> QED
        BY <1>8, <2>1, <2>2 DEF InsertIdl, TypeOK, history
<1>9. ASSUME NEW t \in Tasks, ClearFailure(t)
      PROVE  TypeOK'
    BY <1>9, GoToType DEF ClearFailure, TypeOK, Pcs, history
<1>10. ASSUME NEW t \in Tasks, SetLoaded(t)
       PROVE  TypeOK'
    BY <1>10, GoToType DEF SetLoaded, TypeOK, Pcs, history
<1>11. ASSUME NEW t \in Tasks, RecordFailure(t)
       PROVE  TypeOK'
    <2>1. TaskType'
        BY <1>11, GoToType DEF RecordFailure, Pcs
    <2>2. task[t].program \in Monitored
        BY <1>11 DEF RecordFailure, GoTo, TypeOK, TaskType
    <2> QED
        BY <1>11, <2>1, <2>2 DEF RecordFailure, TypeOK, history
<1>12. ASSUME NEW t \in Tasks, SetUnavailable(t)
       PROVE  TypeOK'
    BY <1>12, GoToType DEF SetUnavailable, TypeOK, Pcs, history
<1>14. ASSUME NEW r \in Requests, HangUp(r)
       PROVE  TypeOK'
    BY <1>14 DEF HangUp, maps, Tasks, TypeOK, TaskType, Pcs, HalfDonePcs
<1>13. CASE UNCHANGED vars
    BY <1>13 DEF vars, maps, history, TypeOK, TaskType
<1> QED
    BY <1>1, <1>2, <1>3, <1>4, <1>5, <1>6, <1>7, <1>8, <1>9, <1>10, <1>11, <1>12, <1>13, <1>14
    DEF Next, Step

\* Type correctness of the three maps, the tasks and the history.
THEOREM IdlTypes == Spec => []TypeOK
BY TypeInit, TypeStep, PTL DEF Spec

-----------------------------------------------------------------------------
(* A program shown as loaded has its IDL *)

LEMMA LoadedInit == Init => InsertedBefore /\ LoadedAfterInsert
BY DEF Init, InsertedBefore, LoadedAfterInsert

LEMMA LoadedStep == LoadedInv /\ [Next]_vars => InsertedBefore' /\ LoadedAfterInsert'
<1> SUFFICES ASSUME LoadedInv, [Next]_vars
             PROVE  InsertedBefore' /\ LoadedAfterInsert'
    OBVIOUS
<1> USE DEF LoadedInv, InsertedBefore, LoadedAfterInsert, TypeOK, TaskType
<1>1. ASSUME NEW p \in Monitored, Discover(p)
      PROVE  InsertedBefore' /\ LoadedAfterInsert'
    BY <1>1 DEF Discover, GoTo, Tasks
<1>2. ASSUME NEW p \in Monitored, FetchOnChain(p)
      PROVE  InsertedBefore' /\ LoadedAfterInsert'
    BY <1>2 DEF FetchOnChain, maps, history, Tasks
<1>3. ASSUME NEW p \in Monitored, FallBackToBundled(p)
      PROVE  InsertedBefore' /\ LoadedAfterInsert'
    BY <1>3 DEF FallBackToBundled, maps, history, Tasks
<1>4. ASSUME NEW p \in Monitored, FetchFails(p)
      PROVE  InsertedBefore' /\ LoadedAfterInsert'
    BY <1>4 DEF FetchFails, GoTo, maps, history, Tasks
<1>5. ASSUME NEW p \in Monitored, NEW r \in Requests, Upload(r, p)
      PROVE  InsertedBefore' /\ LoadedAfterInsert'
    BY <1>5 DEF Upload, Arrive, maps, Tasks
<1>6. ASSUME NEW p \in Monitored, NEW r \in Requests, RejectUpload(r, p)
      PROVE  InsertedBefore' /\ LoadedAfterInsert'
    BY <1>6 DEF RejectUpload, Arrive, maps, Tasks
<1>7. ASSUME NEW p \in Monitored, NEW r \in Requests, Delete(r, p)
      PROVE  InsertedBefore' /\ LoadedAfterInsert'
    BY <1>7 DEF Delete, Arrive, Tasks
<1>8. ASSUME NEW t \in Tasks, InsertIdl(t)
      PROVE  InsertedBefore' /\ LoadedAfterInsert'
    BY <1>8 DEF InsertIdl, GoTo, history
<1>9. ASSUME NEW t \in Tasks, ClearFailure(t)
      PROVE  InsertedBefore' /\ LoadedAfterInsert'
    BY <1>9 DEF ClearFailure, GoTo, history
<1>10. ASSUME NEW t \in Tasks, SetLoaded(t)
       PROVE  InsertedBefore' /\ LoadedAfterInsert'
    BY <1>10 DEF SetLoaded, GoTo, history
<1>11. ASSUME NEW t \in Tasks, RecordFailure(t)
       PROVE  InsertedBefore' /\ LoadedAfterInsert'
    BY <1>11 DEF RecordFailure, GoTo, history
<1>12. ASSUME NEW t \in Tasks, SetUnavailable(t)
       PROVE  InsertedBefore' /\ LoadedAfterInsert'
    BY <1>12 DEF SetUnavailable, GoTo, history
<1>14. ASSUME NEW r \in Requests, HangUp(r)
       PROVE  InsertedBefore' /\ LoadedAfterInsert'
    BY <1>14 DEF HangUp, maps, Tasks
<1>13. CASE UNCHANGED vars
    BY <1>13 DEF vars, maps, history
<1> QED
    BY <1>1, <1>2, <1>3, <1>4, <1>5, <1>6, <1>7, <1>8, <1>9, <1>10, <1>11, <1>12, <1>13, <1>14
    DEF Next, Step

\* A program is shown as loaded only once its IDL is in the map, and only a
\* delete takes it out (the order of the three writes of upsert_idl).
THEOREM LoadedHasIdl == Spec => []LoadedAfterInsert
<1>1. Init => LoadedInv
    BY TypeInit, LoadedInit DEF LoadedInv
<1>2. LoadedInv /\ [Next]_vars => LoadedInv'
    BY TypeStep, LoadedStep DEF LoadedInv
<1>3. LoadedInv => LoadedAfterInsert
    BY DEF LoadedInv
<1> QED
    BY <1>1, <1>2, <1>3, PTL DEF Spec

-----------------------------------------------------------------------------
(* Serial operations leave status and failure reason in agreement *)

LEMMA SerialInit == Init => OwnProgram /\ OneBusy /\ HalfWritten /\ AgreeAtRest
<1> SUFFICES ASSUME Init
             PROVE  OwnProgram /\ OneBusy /\ HalfWritten /\ AgreeAtRest
    OBVIOUS
<1>1. OwnProgram
    BY DEF Init, OwnProgram, Tasks
<1>2. \A t \in Tasks : task[t].pc \in {"boot", "idle"}
    BY DEF Init
<1>3. OneBusy /\ HalfWritten
    BY <1>2 DEF OneBusy, HalfWritten, Busy, BusyPcs
<1>4. AgreeAtRest
    BY DEF Init, AgreeAtRest, Agree
<1> QED
    BY <1>1, <1>3, <1>4

LEMMA OwnProgramStep == SerialInv /\ [Next]_vars => OwnProgram'
<1> SUFFICES ASSUME SerialInv, [Next]_vars
             PROVE  OwnProgram'
    OBVIOUS
<1> USE DEF SerialInv, OwnProgram, TypeOK, TaskType, Tasks
<1>1. ASSUME NEW p \in Monitored,
             Discover(p) \/ FetchOnChain(p) \/ FallBackToBundled(p) \/ FetchFails(p)
      PROVE  OwnProgram'
    BY <1>1 DEF Discover, FetchOnChain, FallBackToBundled, FetchFails, GoTo
<1>2. ASSUME NEW p \in Monitored, NEW r \in Requests, Upload(r, p) \/ RejectUpload(r, p) \/ Delete(r, p)
      PROVE  OwnProgram'
    BY <1>2, TasksAreDistinct DEF Upload, RejectUpload, Delete, Arrive
<1>3. ASSUME NEW t \in Tasks, Step(t)
      PROVE  OwnProgram'
    BY <1>3 DEF Step, InsertIdl, ClearFailure, SetLoaded, RecordFailure, SetUnavailable, GoTo
<1>5. ASSUME NEW r \in Requests, HangUp(r)
      PROVE  OwnProgram'
    BY <1>5, TasksAreDistinct DEF HangUp
<1>4. CASE UNCHANGED vars
    BY <1>4 DEF vars
<1> QED
    BY <1>1, <1>2, <1>3, <1>4, <1>5 DEF Next

\* A task that begins beside another marks the program as overlapped.
LEMMA OneBusyStep == SerialInv /\ [Next]_vars => OneBusy'
<1> SUFFICES ASSUME SerialInv, [Next]_vars
             PROVE  OneBusy'
    OBVIOUS
<1> USE DEF SerialInv, OwnProgram, OneBusy, Busy, BusyPcs, TypeOK, TaskType
<1>1. ASSUME NEW p \in Monitored, Discover(p)
      PROVE  OneBusy'
    BY <1>1 DEF Discover, GoTo, Begins, Tasks
<1>2. ASSUME NEW p \in Monitored, FetchOnChain(p)
      PROVE  OneBusy'
    BY <1>2 DEF FetchOnChain, maps, history, Tasks
<1>3. ASSUME NEW p \in Monitored, FallBackToBundled(p)
      PROVE  OneBusy'
    BY <1>3 DEF FallBackToBundled, maps, history, Tasks
<1>4. ASSUME NEW p \in Monitored, FetchFails(p)
      PROVE  OneBusy'
    BY <1>4 DEF FetchFails, GoTo, maps, history, Tasks
<1>5. ASSUME NEW p \in Monitored, NEW r \in Requests, Upload(r, p)
      PROVE  OneBusy'
    BY <1>5 DEF Upload, Arrive, Begins, maps, Tasks
<1>6. ASSUME NEW p \in Monitored, NEW r \in Requests, RejectUpload(r, p)
      PROVE  OneBusy'
    BY <1>6 DEF RejectUpload, Arrive, Begins, maps, Tasks
<1>7. ASSUME NEW p \in Monitored, NEW r \in Requests, Delete(r, p)
      PROVE  OneBusy'
    BY <1>7 DEF Delete, Arrive, Begins, Tasks
<1>8. ASSUME NEW t \in Tasks, InsertIdl(t)
      PROVE  OneBusy'
    BY <1>8 DEF InsertIdl, GoTo, history
<1>9. ASSUME NEW t \in Tasks, ClearFailure(t)
      PROVE  OneBusy'
    BY <1>9 DEF ClearFailure, GoTo, history
<1>10. ASSUME NEW t \in Tasks, SetLoaded(t)
       PROVE  OneBusy'
    BY <1>10 DEF SetLoaded, GoTo, history
<1>11. ASSUME NEW t \in Tasks, RecordFailure(t)
       PROVE  OneBusy'
    BY <1>11 DEF RecordFailure, GoTo, history
<1>12. ASSUME NEW t \in Tasks, SetUnavailable(t)
       PROVE  OneBusy'
    BY <1>12 DEF SetUnavailable, GoTo, history
<1>14. ASSUME NEW r \in Requests, HangUp(r)
       PROVE  OneBusy'
    BY <1>14 DEF HangUp, maps, Tasks
<1>13. CASE UNCHANGED vars
    BY <1>13 DEF vars, maps, history
<1> QED
    BY <1>1, <1>2, <1>3, <1>4, <1>5, <1>6, <1>7, <1>8, <1>9, <1>10, <1>11, <1>12, <1>13, <1>14
    DEF Next, Step

\* Between the writes of a task nobody else writes the reason of its program.
LEMMA HalfWrittenStep == SerialInv /\ [Next]_vars => HalfWritten'
<1> SUFFICES ASSUME SerialInv, [Next]_vars
             PROVE  HalfWritten'
    OBVIOUS
<1> USE DEF SerialInv, OwnProgram, OneBusy, HalfWritten, Busy, BusyPcs, TypeOK, TaskType
<1>1. ASSUME NEW p \in Monitored, Discover(p)
      PROVE  HalfWritten'
    BY <1>1 DEF Discover, GoTo, Begins, Tasks
<1>2. ASSUME NEW p \in Monitored, FetchOnChain(p)
      PROVE  HalfWritten'
    BY <1>2 DEF FetchOnChain, maps, history, Tasks
<1>3. ASSUME NEW p \in Monitored, FallBackToBundled(p)
      PROVE  HalfWritten'
    BY <1>3 DEF FallBackToBundled, maps, history, Tasks
<1>4. ASSUME NEW p \in Monitored, FetchFails(p)
      PROVE  HalfWritten'
    BY <1>4 DEF FetchFails, GoTo, maps, history, Tasks
<1>5. ASSUME NEW p \in Monitored, NEW r \in Requests, Upload(r, p)
      PROVE  HalfWritten'
    BY <1>5 DEF Upload, Arrive, Begins, maps, Tasks
<1>6. ASSUME NEW p \in Monitored, NEW r \in Requests, RejectUpload(r, p)
      PROVE  HalfWritten'
    BY <1>6 DEF RejectUpload, Arrive, Begins, maps, Tasks
<1>7. ASSUME NEW p \in Monitored, NEW r \in Requests, Delete(r, p)
      PROVE  HalfWritten'
    BY <1>7 DEF Delete, Arrive, Begins, Tasks
<1>8. ASSUME NEW t \in Tasks, InsertIdl(t)
      PROVE  HalfWritten'
    BY <1>8 DEF InsertIdl, GoTo, history
<1>9. ASSUME NEW t \in Tasks, ClearFailure(t)
      PROVE  HalfWritten'
    BY <1>9 DEF ClearFailure, GoTo, history
<1>10. ASSUME NEW t \in Tasks, SetLoaded(t)
       PROVE  HalfWritten'
    BY <1>10 DEF SetLoaded, GoTo, history
<1>11. ASSUME NEW t \in Tasks, RecordFailure(t)
       PROVE  HalfWritten'
    BY <1>11 DEF RecordFailure, GoTo, history
<1>12. ASSUME NEW t \in Tasks, SetUnavailable(t)
       PROVE  HalfWritten'
    BY <1>12 DEF SetUnavailable, GoTo, history
<1>14. ASSUME NEW r \in Requests, HangUp(r)
       PROVE  HalfWritten'
    BY <1>14 DEF HangUp, maps, Tasks
<1>13. CASE UNCHANGED vars
    BY <1>13 DEF vars, maps, history
<1> QED
    BY <1>1, <1>2, <1>3, <1>4, <1>5, <1>6, <1>7, <1>8, <1>9, <1>10, <1>11, <1>12, <1>13, <1>14
    DEF Next, Step

\* The last write of a task completes what its first one began.
LEMMA AgreementStep == SerialInv /\ [Next]_vars => AgreeAtRest'
<1> SUFFICES ASSUME SerialInv, [Next]_vars
             PROVE  AgreeAtRest'
    OBVIOUS
<1> USE DEF SerialInv, OwnProgram, HalfWritten, AgreeAtRest, Agree, Unwritten, OneBusy, Busy, BusyPcs, TypeOK, TaskType
<1>1. ASSUME NEW p \in Monitored, Discover(p)
      PROVE  AgreeAtRest'
    BY <1>1 DEF Discover, GoTo, Begins, Tasks
<1>2. ASSUME NEW p \in Monitored, FetchOnChain(p) \/ FallBackToBundled(p) \/ FetchFails(p)
      PROVE  AgreeAtRest'
    <2>1. /\ task'[p].pc \in {"insert", "fail"} /\ task'[p].program = p
          /\ \A t \in Tasks : t # p => task'[t] = task[t]
          /\ p \in Tasks /\ UNCHANGED <<idls, failures, status, overlapped, torn>>
        BY <1>2 DEF FetchOnChain, FallBackToBundled, FetchFails, GoTo, maps, history, Tasks
    <2>2. Busy(p)' /\ ~Unwritten(p)'
        BY <2>1, TasksAreDistinct
    <2>3. ASSUME NEW q \in Monitored, q # p,
                 \A t \in Tasks : task'[t].program = q /\ Busy(t)' => Unwritten(t)'
          PROVE  \A t \in Tasks : task[t].program = q /\ Busy(t) => Unwritten(t)
        BY <2>1, <2>3
    <2> QED
        BY <2>1, <2>2, <2>3
<1>5. ASSUME NEW p \in Monitored, NEW r \in Requests, Upload(r, p)
      PROVE  AgreeAtRest'
    BY <1>5 DEF Upload, Arrive, Begins, maps, Tasks
<1>6. ASSUME NEW p \in Monitored, NEW r \in Requests, RejectUpload(r, p)
      PROVE  AgreeAtRest'
    BY <1>6 DEF RejectUpload, Arrive, Begins, maps, Tasks
<1>7. ASSUME NEW p \in Monitored, NEW r \in Requests, Delete(r, p)
      PROVE  AgreeAtRest'
    BY <1>7 DEF Delete, Arrive, Begins, Tasks
<1>8. ASSUME NEW t \in Tasks, InsertIdl(t)
      PROVE  AgreeAtRest'
    BY <1>8 DEF InsertIdl, GoTo, history
<1>9. ASSUME NEW t \in Tasks, ClearFailure(t)
      PROVE  AgreeAtRest'
    BY <1>9 DEF ClearFailure, GoTo, history
<1>10. ASSUME NEW t \in Tasks, SetLoaded(t)
       PROVE  AgreeAtRest'
    BY <1>10 DEF SetLoaded, GoTo, history
<1>11. ASSUME NEW t \in Tasks, RecordFailure(t)
       PROVE  AgreeAtRest'
    BY <1>11 DEF RecordFailure, GoTo, history
<1>12. ASSUME NEW t \in Tasks, SetUnavailable(t)
       PROVE  AgreeAtRest'
    BY <1>12 DEF SetUnavailable, GoTo, history
<1>14. ASSUME NEW r \in Requests, HangUp(r)
       PROVE  AgreeAtRest'
    BY <1>14 DEF HangUp, maps, Tasks, HalfDonePcs
<1>13. CASE UNCHANGED vars
    BY <1>13 DEF vars, maps, history
<1> QED
    BY <1>1, <1>2, <1>5, <1>6, <1>7, <1>8, <1>9, <1>10, <1>11, <1>12, <1>13, <1>14
    DEF Next, Step

\* Operations that never overlap on a program leave its IDL, its status and its
\* failure reason in agreement, although no lock covers the three maps
\* (upsert_idl, set_idl_failure), unless a handler was dropped between two writes
\* and no operation has run to its end since.
THEOREM SerialOperationsAgree == Spec => []SerialAgreement
<1>1. Init => SerialInv
    BY TypeInit, SerialInit DEF SerialInv
<1>2. SerialInv /\ [Next]_vars => SerialInv'
    BY TypeStep, OwnProgramStep, OneBusyStep, HalfWrittenStep, AgreementStep DEF SerialInv
<1>3. SerialInv => SerialAgreement
    BY DEF SerialInv, AgreeAtRest, SerialAgreement, QuietOn
<1> QED
    BY <1>1, <1>2, <1>3, PTL DEF Spec

-----------------------------------------------------------------------------
(***************************************************************************)
(* Naming.  What the runtime has done, whatever the log lost of it.        *)
(***************************************************************************)

Call == [program : Programs, depth : Nat \ {0}, does : Names, named : BOOLEAN,
         state : {"running", "metered", "over"}, failed : BOOLEAN, cu : Nat]

CallType == calls \in Seq(Call) /\ frames \in Seq(Nat) /\ unwinding \in BOOLEAN

\* The open calls nest: the k-th of them is at depth k, began after the one
\* before it, and waits for the one behind it; all others are over, and those
\* behind the outermost open one are nested.
OpenCalls ==
    \A k \in 1 .. Len(frames) :
        /\ frames[k] \in 1 .. Len(calls)
        /\ calls[frames[k]].depth = k
        /\ calls[frames[k]].state # "over" /\ calls[frames[k]].failed = FALSE
        /\ k < Len(frames) =>
              /\ calls[frames[k]].state = "running"
              /\ calls[frames[k]].program \notin Native
OpenedInOrder == \A j, k \in 1 .. Len(frames) : j < k => frames[j] < frames[k]
OthersAreOver ==
    \A i \in 1 .. Len(calls) :
        (\A k \in 1 .. Len(frames) : frames[k] # i) => calls[i].state = "over"
NestedBehind ==
    frames # << >> => \A i \in 1 .. Len(calls) : i > frames[1] => calls[i].depth > 1

NativeUnits ==
    \A i \in 1 .. Len(calls) : calls[i].program \in Native =>
        calls[i].cu = NATIVE_PROGRAM_CU /\ calls[i].state # "metered"

\* A transaction that failed did so in its last top level call.
LastTopLevel(t) ==
    /\ t \in 1 .. Len(calls) /\ calls[t].depth = 1
    /\ \A i \in 1 .. Len(calls) : i > t => calls[i].depth > 1
LastFailed ==
    unwinding = TRUE /\ frames = << >> =>
        \E t \in Nat : LastTopLevel(t) /\ calls[t].failed = TRUE

RuntimeInv ==
    /\ CallType
    /\ OpenCalls /\ OpenedInOrder /\ OthersAreOver /\ NestedBehind
    /\ NativeUnits /\ LastFailed

LEMMA LastAndFront ==
    ASSUME NEW s \in Seq(Nat), s # << >>
    PROVE  /\ Len(s) \in Nat \ {0} /\ DOMAIN s = 1 .. Len(s)
           /\ Last(s) = s[Len(s)] /\ Last(s) \in Nat
           /\ Front(s) \in Seq(Nat) /\ Len(Front(s)) = Len(s) - 1
           /\ \A k \in 1 .. Len(s) - 1 : Front(s)[k] = s[k]
<1>1. Len(s) \in Nat \ {0} /\ DOMAIN s = 1 .. Len(s)
    OBVIOUS
<1>2. Last(s) = s[Len(s)] /\ s[Len(s)] \in Nat
    BY <1>1 DEF Last
<1>3. Front(s) = SubSeq(s, 1, Len(s) - 1)
    BY DEF Front
<1>4. /\ Front(s) \in Seq(Nat) /\ Len(Front(s)) = Len(s) - 1
      /\ \A k \in 1 .. Len(s) - 1 : Front(s)[k] = s[k]
    BY <1>1, <1>3
<1> QED
    BY <1>1, <1>2, <1>4

LEMMA RuntimeStarts == CuInit => RuntimeInv
<1> SUFFICES ASSUME CuInit
             PROVE  RuntimeInv
    OBVIOUS
<1>1. calls = << >> /\ frames = << >> /\ unwinding = FALSE
    BY DEF CuInit
<1>2. CallType
  <2>1. << >> \in Seq(Call) /\ << >> \in Seq(Nat)
    OBVIOUS
  <2> QED
    BY <1>1, <2>1 DEF CallType
<1>3. OpenCalls /\ OpenedInOrder /\ OthersAreOver /\ NestedBehind
    BY <1>1 DEF OpenCalls, OpenedInOrder, OthersAreOver, NestedBehind
<1>4. NativeUnits /\ LastFailed
    BY <1>1 DEF NativeUnits, LastFailed
<1> QED
    BY <1>2, <1>3, <1>4 DEF RuntimeInv

LEMMA InvokeKeeps ==
    ASSUME RuntimeInv, NEW p \in Programs, NEW n \in Names, Invoke(p, n)
    PROVE  RuntimeInv'
<1> DEFINE call == [program |-> p, depth |-> Len(frames) + 1, does |-> n, named |-> FALSE,
                    state |-> "running", failed |-> FALSE,
                    cu |-> IF p \in Native THEN NATIVE_PROGRAM_CU
                                           ELSE OwnUnits[Len(calls) + 1]]
<1>1. /\ calls \in Seq(Call) /\ frames \in Seq(Nat)
      /\ calls' = Append(calls, call) /\ frames' = Append(frames, Len(calls) + 1)
      /\ unwinding' = unwinding /\ ~unwinding
      /\ frames # << >> => Running /\ calls[Top].program \notin Native
      /\ Len(calls) < Len(OwnUnits)
    BY DEF Invoke, RuntimeInv, CallType
<1>2. Len(calls) \in Nat /\ Len(frames) \in Nat
    BY <1>1
<1>3. OwnUnits[Len(calls) + 1] \in Nat
  <2>1. OwnUnits \in Seq(Nat)
    BY OwnUnitsAreNat
  <2>2. Len(calls) + 1 \in 1 .. Len(OwnUnits)
    BY <2>1, <1>1, <1>2
  <2> QED
    BY <2>1, <2>2
<1>4. call \in Call
    BY <1>2, <1>3 DEF Call, NATIVE_PROGRAM_CU
<1>5. /\ call.depth = Len(frames) + 1 /\ call.program = p /\ call.state = "running"
      /\ call.failed = FALSE
      /\ call.program \in Native => call.cu = NATIVE_PROGRAM_CU
    OBVIOUS
<1> HIDE DEF call
<1>6. /\ calls' \in Seq(Call) /\ Len(calls') = Len(calls) + 1
      /\ \A i \in 1 .. Len(calls) : calls'[i] = calls[i]
      /\ calls'[Len(calls) + 1] = call
    BY <1>1, <1>4
<1>7. /\ frames' \in Seq(Nat) /\ Len(frames') = Len(frames) + 1
      /\ \A k \in 1 .. Len(frames) : frames'[k] = frames[k]
      /\ frames'[Len(frames) + 1] = Len(calls) + 1
    BY <1>1, <1>2
<1>8. CallType'
    BY <1>1, <1>6, <1>7 DEF RuntimeInv, CallType
<1>9. frames # << >> => calls[frames[Len(frames)]].state = "running"
                        /\ calls[frames[Len(frames)]].program \notin Native
    BY <1>1, LastAndFront DEF Running, Top
<1>10. OpenCalls'
  <2> SUFFICES ASSUME NEW k \in 1 .. Len(frames) + 1
               PROVE  /\ frames'[k] \in 1 .. Len(calls) + 1
                      /\ calls'[frames'[k]].depth = k
                      /\ calls'[frames'[k]].state # "over" /\ calls'[frames'[k]].failed = FALSE
                      /\ k < Len(frames) + 1 =>
                            /\ calls'[frames'[k]].state = "running"
                            /\ calls'[frames'[k]].program \notin Native
    BY <1>6, <1>7 DEF OpenCalls
  <2>1. CASE k = Len(frames) + 1
    BY <2>1, <1>2, <1>5, <1>6, <1>7
  <2>2. CASE k \in 1 .. Len(frames)
    <3>1. /\ frames[k] \in 1 .. Len(calls) /\ calls[frames[k]].depth = k
          /\ calls[frames[k]].state # "over" /\ calls[frames[k]].failed = FALSE
          /\ k < Len(frames) =>
                /\ calls[frames[k]].state = "running"
                /\ calls[frames[k]].program \notin Native
        BY <2>2 DEF RuntimeInv, OpenCalls
    <3>2. frames'[k] = frames[k] /\ calls'[frames[k]] = calls[frames[k]]
        BY <2>2, <3>1, <1>6, <1>7
    <3>3. k = Len(frames) => calls[frames[k]].state = "running"
                             /\ calls[frames[k]].program \notin Native
        BY <2>2, <1>2, <1>9
    <3> QED
        BY <2>2, <3>1, <3>2, <3>3, <1>2
  <2>3. k = Len(frames) + 1 \/ k \in 1 .. Len(frames)
    BY <1>2
  <2> QED
    BY Zenon, <2>1, <2>2, <2>3
<1>13. OpenedInOrder'
  <2> SUFFICES ASSUME NEW j \in 1 .. Len(frames) + 1, NEW k \in 1 .. Len(frames) + 1, j < k
               PROVE  frames'[j] < frames'[k]
    BY <1>7 DEF OpenedInOrder
  <2>1. j \in 1 .. Len(frames) /\ frames'[j] = frames[j] /\ frames[j] \in 1 .. Len(calls)
    BY <1>2, <1>7 DEF RuntimeInv, OpenCalls
  <2>2. CASE k = Len(frames) + 1
    BY <2>1, <2>2, <1>2, <1>7
  <2>3. CASE k \in 1 .. Len(frames)
    BY <2>1, <2>3, <1>7 DEF RuntimeInv, OpenedInOrder
  <2> QED
    BY <1>2, <2>2, <2>3
<1>14. OthersAreOver'
  <2> SUFFICES ASSUME NEW i \in 1 .. Len(calls) + 1, \A k \in 1 .. Len(frames) + 1 : frames'[k] # i
               PROVE  calls'[i].state = "over"
    BY <1>6, <1>7 DEF OthersAreOver
  <2>1. i \in 1 .. Len(calls)
    BY <1>2, <1>7
  <2>2. \A k \in 1 .. Len(frames) : frames[k] # i
    BY <1>2, <1>7
  <2> QED
    BY <2>1, <2>2, <1>6 DEF RuntimeInv, OthersAreOver
<1>15. NestedBehind'
  <2> SUFFICES ASSUME NEW i \in 1 .. Len(calls) + 1, i > frames'[1]
               PROVE  calls'[i].depth > 1
    BY <1>6 DEF NestedBehind
  <2>1. CASE frames = << >>
    BY <2>1, <1>2, <1>7
  <2>2. CASE frames # << >>
    <3>1. Len(frames) > 0 /\ frames'[1] = frames[1]
        BY <2>2, <1>1, <1>2, <1>7
    <3>2. CASE i = Len(calls) + 1
        BY <3>1, <3>2, <1>2, <1>5, <1>6
    <3>3. CASE i # Len(calls) + 1
        BY <2>2, <3>1, <3>3, <1>2, <1>6 DEF RuntimeInv, NestedBehind
    <3> QED
        BY <3>2, <3>3
  <2> QED
    BY <2>1, <2>2
<1>11. NativeUnits'
    BY <1>1, <1>2, <1>5, <1>6 DEF RuntimeInv, NativeUnits
<1>12. LastFailed'
    BY <1>1 DEF LastFailed
<1> QED
    BY <1>8, <1>10, <1>11, <1>12, <1>13, <1>14, <1>15 DEF RuntimeInv

\* A step that opens and closes no call may meter the innermost one.
LEMMA MeteringKeeps ==
    ASSUME RuntimeInv, calls' \in Seq(Call), Len(calls') = Len(calls),
           frames' = frames, unwinding' = unwinding,
           \A i \in 1 .. Len(calls) :
               /\ calls'[i].program = calls[i].program /\ calls'[i].depth = calls[i].depth
               /\ calls'[i].failed = calls[i].failed /\ calls'[i].cu = calls[i].cu
               /\ \/ calls'[i].state = calls[i].state
                  \/ /\ frames # << >> /\ i = frames[Len(frames)]
                     /\ calls'[i].state = "metered" /\ calls[i].program \notin Native
    PROVE  RuntimeInv'
<1>1. Len(calls) \in Nat /\ Len(frames) \in Nat
    BY DEF RuntimeInv, CallType
<1>2. CallType'
    BY DEF RuntimeInv, CallType
<1>3. OpenCalls'
  <2> SUFFICES ASSUME NEW k \in 1 .. Len(frames)
               PROVE  /\ frames[k] \in 1 .. Len(calls)
                      /\ calls'[frames[k]].depth = k
                      /\ calls'[frames[k]].state # "over" /\ calls'[frames[k]].failed = FALSE
                      /\ k < Len(frames) =>
                            /\ calls'[frames[k]].state = "running"
                            /\ calls'[frames[k]].program \notin Native
    BY DEF OpenCalls
  <2>1. /\ frames[k] \in 1 .. Len(calls) /\ calls[frames[k]].depth = k
        /\ calls[frames[k]].state # "over" /\ calls[frames[k]].failed = FALSE
        /\ k < Len(frames) =>
              /\ calls[frames[k]].state = "running"
              /\ calls[frames[k]].program \notin Native
    BY DEF RuntimeInv, OpenCalls
  <2>2. k < Len(frames) => frames[k] # frames[Len(frames)]
    BY <1>1 DEF RuntimeInv, OpenedInOrder, OpenCalls
  <2> QED
    BY <2>1, <2>2
<1>4. OpenedInOrder' /\ NestedBehind'
    BY DEF RuntimeInv, OpenedInOrder, NestedBehind
<1>5. OthersAreOver'
  <2> SUFFICES ASSUME NEW i \in 1 .. Len(calls), \A k \in 1 .. Len(frames) : frames[k] # i
               PROVE  calls'[i].state = "over"
    BY DEF OthersAreOver
  <2>1. calls[i].state = "over"
    BY DEF RuntimeInv, OthersAreOver
  <2>2. frames # << >> => Len(frames) \in 1 .. Len(frames)
    BY DEF RuntimeInv, CallType
  <2> QED
    BY <2>1, <2>2
<1>6. NativeUnits'
    BY DEF RuntimeInv, NativeUnits
<1>7. LastFailed'
  <2> SUFFICES ASSUME unwinding = TRUE, frames = << >>
               PROVE  \E t \in Nat : LastTopLevel(t)' /\ calls'[t].failed = TRUE
    BY DEF LastFailed
  <2>1. PICK t \in Nat : LastTopLevel(t) /\ calls[t].failed = TRUE
    BY DEF RuntimeInv, LastFailed
  <2>2. LastTopLevel(t)' /\ calls'[t].failed = TRUE
    BY <2>1 DEF LastTopLevel
  <2> QED
    BY <2>2
<1> QED
    BY <1>2, <1>3, <1>4, <1>5, <1>6, <1>7 DEF RuntimeInv

\* The innermost open call.
LEMMA InnermostCall ==
    ASSUME RuntimeInv, frames # << >>
    PROVE  /\ Len(frames) \in Nat \ {0} /\ Top = frames[Len(frames)]
           /\ Top \in 1 .. Len(calls) /\ calls[Top] \in Call
           /\ calls[Top].depth = Len(frames) /\ calls[Top].failed = FALSE
           /\ \A k \in 1 .. Len(frames) - 1 : frames[k] < Top
<1>1. /\ Len(frames) \in Nat \ {0} /\ Top = frames[Len(frames)]
    BY LastAndFront DEF RuntimeInv, CallType, Top
<1>2. /\ Top \in 1 .. Len(calls)
      /\ calls[Top].depth = Len(frames) /\ calls[Top].failed = FALSE
    BY <1>1 DEF RuntimeInv, OpenCalls
<1>3. calls[Top] \in Call
    BY <1>2 DEF RuntimeInv, CallType
<1>4. \A k \in 1 .. Len(frames) - 1 : frames[k] < Top
    BY <1>1 DEF RuntimeInv, OpenedInOrder
<1> QED
    BY <1>1, <1>2, <1>3, <1>4

LEMMA LogNameKeeps == RuntimeInv /\ LogName => RuntimeInv'
<1> SUFFICES ASSUME RuntimeInv, LogName
             PROVE  RuntimeInv'
    OBVIOUS
<1>1. /\ frames # << >> /\ calls' = [calls EXCEPT ![Top].named = TRUE]
      /\ frames' = frames /\ unwinding' = unwinding
    BY DEF LogName, Running
<1>2. Top \in 1 .. Len(calls) /\ calls[Top] \in Call
    BY <1>1, InnermostCall
<1>3. [calls[Top] EXCEPT !.named = TRUE] \in Call
    BY <1>2 DEF Call
<1>4. /\ calls' \in Seq(Call) /\ Len(calls') = Len(calls)
      /\ \A i \in 1 .. Len(calls) :
            calls'[i] = IF i = Top THEN [calls[Top] EXCEPT !.named = TRUE] ELSE calls[i]
    BY <1>1, <1>2, <1>3 DEF RuntimeInv, CallType
<1>5. \A i \in 1 .. Len(calls) :
        /\ calls'[i].program = calls[i].program /\ calls'[i].depth = calls[i].depth
        /\ calls'[i].failed = calls[i].failed /\ calls'[i].cu = calls[i].cu
        /\ calls'[i].state = calls[i].state
  <2>1. calls'[Top] = [calls[Top] EXCEPT !.named = TRUE]
    BY <1>2, <1>4
  <2>2. /\ calls'[Top].program = calls[Top].program /\ calls'[Top].depth = calls[Top].depth
        /\ calls'[Top].failed = calls[Top].failed /\ calls'[Top].cu = calls[Top].cu
        /\ calls'[Top].state = calls[Top].state
    BY <2>1, <1>2 DEF Call
  <2>3. \A i \in 1 .. Len(calls) : i # Top => calls'[i] = calls[i]
    BY <1>4
  <2> QED
    BY <2>2, <2>3
<1> QED
    BY <1>1, <1>4, <1>5, MeteringKeeps

LEMMA LogConsumedKeeps == RuntimeInv /\ LogConsumed => RuntimeInv'
<1> SUFFICES ASSUME RuntimeInv, LogConsumed
             PROVE  RuntimeInv'
    OBVIOUS
<1>1. /\ frames # << >> /\ calls' = [calls EXCEPT ![Top].state = "metered"]
      /\ frames' = frames /\ unwinding' = unwinding
      /\ calls[Top].program \notin Native
    BY DEF LogConsumed, Running
<1>2. Top \in 1 .. Len(calls) /\ calls[Top] \in Call /\ Top = frames[Len(frames)]
    BY <1>1, InnermostCall
<1>3. [calls[Top] EXCEPT !.state = "metered"] \in Call
    BY <1>2 DEF Call
<1>4. /\ calls' \in Seq(Call) /\ Len(calls') = Len(calls)
      /\ \A i \in 1 .. Len(calls) :
            calls'[i] = IF i = Top THEN [calls[Top] EXCEPT !.state = "metered"] ELSE calls[i]
    BY <1>1, <1>2, <1>3 DEF RuntimeInv, CallType
<1>5. \A i \in 1 .. Len(calls) :
        /\ calls'[i].program = calls[i].program /\ calls'[i].depth = calls[i].depth
        /\ calls'[i].failed = calls[i].failed /\ calls'[i].cu = calls[i].cu
        /\ calls'[i].state = IF i = Top THEN "metered" ELSE calls[i].state
  <2>1. calls'[Top] = [calls[Top] EXCEPT !.state = "metered"]
    BY <1>2, <1>4
  <2>2. /\ calls'[Top].program = calls[Top].program /\ calls'[Top].depth = calls[Top].depth
        /\ calls'[Top].failed = calls[Top].failed /\ calls'[Top].cu = calls[Top].cu
        /\ calls'[Top].state = "metered"
    BY <2>1, <1>2 DEF Call
  <2>3. \A i \in 1 .. Len(calls) : i # Top => calls'[i] = calls[i]
    BY <1>4
  <2> QED
    BY <2>2, <2>3
<1> QED
    BY <1>1, <1>2, <1>4, <1>5, MeteringKeeps

LEMMA LogMessageKeeps ==
    ASSUME RuntimeInv, NEW line, LogMessage(line)
    PROVE  RuntimeInv'
<1>1. calls' = calls /\ frames' = frames /\ unwinding' = unwinding
    BY DEF LogMessage
<1>2. calls \in Seq(Call)
    BY DEF RuntimeInv, CallType
<1> QED
    BY <1>1, <1>2, MeteringKeeps

\* The innermost call is over; it only counts for its caller's consumption.
LEMMA ReturnEffect ==
    ASSUME RuntimeInv, NEW failed \in BOOLEAN, Return(failed)
    PROVE  /\ frames # << >> /\ frames' = Front(frames) /\ unwinding' = failed
           /\ unwinding => failed
           /\ calls[Top].state = "metered"
              \/ (calls[Top].state = "running" /\ calls[Top].program \in Native)
           /\ calls' \in Seq(Call) /\ Len(calls') = Len(calls)
           /\ calls'[Top].state = "over" /\ calls'[Top].failed = failed
           /\ \A i \in 1 .. Len(calls) :
                 /\ calls'[i].program = calls[i].program /\ calls'[i].depth = calls[i].depth
                 /\ calls'[i].does = calls[i].does /\ calls'[i].named = calls[i].named
                 /\ i # Top => /\ calls'[i].state = calls[i].state
                               /\ calls'[i].failed = calls[i].failed
                 /\ \/ calls'[i].cu = calls[i].cu
                    \/ calls[i].state = "running" /\ calls[i].program \notin Native /\ i # Top
<1> DEFINE caller == frames[Len(frames) - 1]
           after(i) == CASE i = Top -> [calls[i] EXCEPT !.state = "over", !.failed = failed]
                         [] Len(frames) > 1 /\ i = caller ->
                                [calls[i] EXCEPT !.cu = @ + calls[Top].cu]
                         [] OTHER -> calls[i]
<1>1. /\ frames # << >> /\ frames' = Front(frames) /\ unwinding' = failed
      /\ unwinding => failed
      /\ calls[Top].state = "metered" \/ (Running /\ calls[Top].program \in Native)
      /\ calls' = [i \in DOMAIN calls |-> after(i)]
    BY DEF Return
<1>2. /\ Len(frames) \in Nat \ {0} /\ Top = frames[Len(frames)]
      /\ Top \in 1 .. Len(calls) /\ calls[Top] \in Call
      /\ \A k \in 1 .. Len(frames) - 1 : frames[k] < Top
    BY <1>1, InnermostCall
<1>3. calls \in Seq(Call) /\ Len(calls) \in Nat /\ DOMAIN calls = 1 .. Len(calls)
    BY DEF RuntimeInv, CallType
<1>4. Len(frames) > 1 => /\ caller \in 1 .. Len(calls) /\ caller # Top
                         /\ calls[caller].state = "running" /\ calls[caller].program \notin Native
  <2> SUFFICES ASSUME Len(frames) > 1
               PROVE  /\ caller \in 1 .. Len(calls) /\ caller # Top
                      /\ calls[caller].state = "running" /\ calls[caller].program \notin Native
    OBVIOUS
  <2>1. Len(frames) - 1 \in 1 .. Len(frames) /\ Len(frames) - 1 < Len(frames)
    BY <1>2
  <2>2. caller \in 1 .. Len(calls) /\ caller < Top /\ Top \in Nat
    BY <2>1, <1>2 DEF RuntimeInv, OpenCalls
  <2> QED
    BY <2>1, <2>2 DEF RuntimeInv, OpenCalls
<1>5. /\ after(Top) = [calls[Top] EXCEPT !.state = "over", !.failed = failed]
      /\ after(Top) \in Call
      /\ after(Top).state = "over" /\ after(Top).failed = failed
      /\ after(Top).program = calls[Top].program /\ after(Top).depth = calls[Top].depth
      /\ after(Top).does = calls[Top].does /\ after(Top).named = calls[Top].named
      /\ after(Top).cu = calls[Top].cu
  <2>1. after(Top) = [calls[Top] EXCEPT !.state = "over", !.failed = failed]
    BY <1>4
  <2> HIDE DEF after
  <2> QED
    BY <2>1, <1>2 DEF Call
<1>6. ASSUME NEW i \in 1 .. Len(calls), i # Top
      PROVE  /\ after(i) \in Call
             /\ after(i).state = calls[i].state /\ after(i).failed = calls[i].failed
             /\ after(i).program = calls[i].program /\ after(i).depth = calls[i].depth
             /\ after(i).does = calls[i].does /\ after(i).named = calls[i].named
             /\ after(i).cu = calls[i].cu \/ (Len(frames) > 1 /\ i = caller)
  <2>1. calls[i] \in Call /\ calls[i].cu + calls[Top].cu \in Nat
    <3>1. calls[i] \in Call
        BY <1>3
    <3>2. calls[i].cu \in Nat /\ calls[Top].cu \in Nat
        BY <3>1, <1>2 DEF Call
    <3> QED
        BY <3>1, <3>2
  <2>2. CASE Len(frames) > 1 /\ i = caller
    <3>1. after(i) = [calls[i] EXCEPT !.cu = @ + calls[Top].cu]
        BY <2>2, <1>6
    <3> QED
        BY <2>1, <2>2, <3>1 DEF Call
  <2>3. CASE ~(Len(frames) > 1 /\ i = caller)
    <3>1. after(i) = calls[i]
        BY <2>3, <1>6
    <3> QED
        BY <2>1, <3>1
  <2> QED
    BY <2>2, <2>3
<1> HIDE DEF after
<1>7. \A i \in 1 .. Len(calls) : calls'[i] = after(i) /\ after(i) \in Call
    BY <1>1, <1>3, <1>5, <1>6
<1>8. calls' \in Seq(Call) /\ Len(calls') = Len(calls)
    BY <1>1, <1>3, <1>7
<1>9. calls'[Top] = after(Top)
    BY <1>2, <1>7
<1>10. \A i \in 1 .. Len(calls) :
         /\ calls'[i].program = calls[i].program /\ calls'[i].depth = calls[i].depth
         /\ calls'[i].does = calls[i].does /\ calls'[i].named = calls[i].named
         /\ i # Top => /\ calls'[i].state = calls[i].state
                       /\ calls'[i].failed = calls[i].failed
         /\ \/ calls'[i].cu = calls[i].cu
            \/ calls[i].state = "running" /\ calls[i].program \notin Native /\ i # Top
  <2> TAKE i \in 1 .. Len(calls)
  <2>1. CASE i = Top
    BY <2>1, <1>5, <1>9
  <2>2. CASE i # Top
    BY <2>2, <1>4, <1>6, <1>7
  <2> QED
    BY <2>1, <2>2
<1> QED
    BY <1>1, <1>5, <1>8, <1>9, <1>10 DEF Running

LEMMA ReturnKeeps ==
    ASSUME RuntimeInv, NEW failed \in BOOLEAN, Return(failed)
    PROVE  RuntimeInv'
<1>1. /\ Len(frames) \in Nat \ {0} /\ Top = frames[Len(frames)]
      /\ Top \in 1 .. Len(calls) /\ calls[Top].depth = Len(frames)
      /\ \A k \in 1 .. Len(frames) - 1 : frames[k] < Top
    BY ReturnEffect, InnermostCall
<1>2. /\ frames' \in Seq(Nat) /\ Len(frames') = Len(frames) - 1
      /\ \A k \in 1 .. Len(frames) - 1 : frames'[k] = frames[k]
  <2>1. frames \in Seq(Nat) /\ frames # << >> /\ frames' = Front(frames)
    BY ReturnEffect DEF RuntimeInv, CallType
  <2> QED
    BY <2>1, LastAndFront
<1>3. /\ unwinding' = failed /\ calls' \in Seq(Call) /\ Len(calls') = Len(calls)
      /\ calls'[Top].state = "over" /\ calls'[Top].failed = failed
      /\ \A i \in 1 .. Len(calls) :
            /\ calls'[i].program = calls[i].program /\ calls'[i].depth = calls[i].depth
            /\ i # Top => /\ calls'[i].state = calls[i].state
                          /\ calls'[i].failed = calls[i].failed
            /\ \/ calls'[i].cu = calls[i].cu
               \/ calls[i].state = "running" /\ calls[i].program \notin Native /\ i # Top
    BY ReturnEffect
<1>4. CallType'
    BY <1>2, <1>3 DEF CallType
<1>5. OpenCalls'
  <2> SUFFICES ASSUME NEW k \in 1 .. Len(frames')
               PROVE  /\ frames'[k] \in 1 .. Len(calls')
                      /\ calls'[frames'[k]].depth = k
                      /\ calls'[frames'[k]].state # "over" /\ calls'[frames'[k]].failed = FALSE
                      /\ calls'[frames'[k]].state = "running"
                      /\ calls'[frames'[k]].program \notin Native
    BY DEF OpenCalls
  <2>0. k \in 1 .. Len(frames) - 1 /\ k < Len(frames) /\ k \in 1 .. Len(frames)
        /\ frames'[k] = frames[k]
    BY <1>1, <1>2
  <2>1. /\ frames[k] \in 1 .. Len(calls) /\ calls[frames[k]].depth = k
        /\ calls[frames[k]].state # "over" /\ calls[frames[k]].failed = FALSE
        /\ calls[frames[k]].state = "running"
        /\ calls[frames[k]].program \notin Native
    BY <2>0 DEF RuntimeInv, OpenCalls
  <2>2. frames[k] # Top
    BY <1>1, <2>0, <2>1
  <2> QED
    BY <2>0, <2>1, <2>2, <1>3
<1>6. OpenedInOrder'
  <2> SUFFICES ASSUME NEW j \in 1 .. Len(frames'), NEW k \in 1 .. Len(frames'), j < k
               PROVE  frames'[j] < frames'[k]
    BY DEF OpenedInOrder
  <2>1. /\ frames'[j] = frames[j] /\ frames'[k] = frames[k]
        /\ j \in 1 .. Len(frames) /\ k \in 1 .. Len(frames)
    BY <1>1, <1>2
  <2> QED
    BY <2>1 DEF RuntimeInv, OpenedInOrder
<1>7. OthersAreOver'
  <2> SUFFICES ASSUME NEW i \in 1 .. Len(calls),
                      \A k \in 1 .. Len(frames') : frames'[k] # i
               PROVE  calls'[i].state = "over"
    BY <1>3 DEF OthersAreOver
  <2>1. CASE i = Top
    BY <2>1, <1>3
  <2>2. CASE i # Top
    <3>1. \A k \in 1 .. Len(frames) - 1 : frames[k] # i
        BY <1>1, <1>2
    <3>2. \A k \in 1 .. Len(frames) : frames[k] # i
        BY <2>2, <3>1, <1>1
    <3> QED
        BY <2>2, <3>2, <1>3 DEF RuntimeInv, OthersAreOver
  <2> QED
    BY <2>1, <2>2
<1>8. NestedBehind'
  <2> SUFFICES ASSUME frames' # << >>, NEW i \in 1 .. Len(calls), i > frames'[1]
               PROVE  calls'[i].depth > 1
    BY <1>3 DEF NestedBehind
  <2>1. Len(frames') > 0
    BY <1>1, <1>2
  <2>2. frames'[1] = frames[1] /\ frames # << >>
    BY <2>1, <1>1, <1>2
  <2> QED
    BY <2>2, <1>3 DEF RuntimeInv, NestedBehind
<1>9. NativeUnits'
    BY <1>1, <1>3 DEF RuntimeInv, NativeUnits
<1>10. LastFailed'
  <2> SUFFICES ASSUME failed = TRUE, frames' = << >>
               PROVE  \E t \in Nat : LastTopLevel(t)' /\ calls'[t].failed = TRUE
    BY <1>3 DEF LastFailed
  <2>1. Len(frames) = 1
    BY <1>1, <1>2
  <2>2. frames # << >> /\ Top = frames[1] /\ calls[Top].depth = 1
    BY <2>1, <1>1
  <2>3. \A i \in 1 .. Len(calls) : i > Top => calls[i].depth > 1
    BY <2>2 DEF RuntimeInv, NestedBehind
  <2>4. PICK t \in Nat : t = Top
    BY <1>1
  <2>5. LastTopLevel(t)'
    <3>1. t \in 1 .. Len(calls') /\ calls'[t].depth = 1
        BY <2>2, <2>4, <1>1, <1>3
    <3>2. \A i \in 1 .. Len(calls') : i > t => calls'[i].depth > 1
        BY <2>3, <2>4, <1>3
    <3> QED
        BY <3>1, <3>2 DEF LastTopLevel
  <2>6. calls'[t].failed = TRUE
    BY <2>4, <1>3
  <2> QED
    BY <2>5, <2>6
<1> QED
    BY <1>4, <1>5, <1>6, <1>7, <1>8, <1>9, <1>10 DEF RuntimeInv

-----------------------------------------------------------------------------
(***************************************************************************)
(* A log that lost nothing, and in which no message reads as a line of the *)
(* runtime: the parser's stack is the stack of open calls, and what it has *)
(* of a call is a function of that call.                                   *)
(***************************************************************************)

\* parse_success and its like match whatever a program logs; a message that
\* reads as the end of a call is beyond the parser (cu_attribution.rs:164).
MessagesArePlain == \A line \in Messages : line.kind \in {"other", "name"}

Picture(c) ==
    [program |-> c.program, depth |-> c.depth,
     cu |-> IF c.program \in Native \/ c.state = "running" THEN NoUnits ELSE c.cu,
     failed |-> c.failed, name |-> IF c.named = TRUE THEN c.does ELSE NoName]
Pictures == {Picture(c) : c \in Call}

PicturesOf(s) ==
    /\ invocations \in Seq(Pictures) /\ Len(invocations) = Len(s)
    /\ \A i \in 1 .. Len(s) : invocations[i] = Picture(s[i])
Pictured == ~truncated => stack = frames /\ PicturesOf(calls)

LEMMA LoggedOrLost ==
    ASSUME NEW line, NEW p, Log(line, p) \/ LogText(line), ~truncated'
    PROVE  ~truncated /\ Take(line)
<1>1. (Take(line) /\ truncated' = truncated) \/ truncated' = TRUE
    BY DEF Log, LogText
<1>2. CASE truncated' = TRUE
    BY <1>2
<1>3. CASE Take(line) /\ truncated' = truncated
  <2>1. Take(line)
    BY <1>3
  <2>2. ~truncated
    BY Zenon, <1>3
  <2> QED
    BY <2>1, <2>2
<1> QED
    BY <1>1, <1>2, <1>3

LEMMA PictureFields ==
    ASSUME NEW c
    PROVE  /\ Picture(c).program = c.program /\ Picture(c).depth = c.depth
           /\ Picture(c).cu = IF c.program \in Native \/ c.state = "running" THEN NoUnits ELSE c.cu
           /\ Picture(c).failed = c.failed
           /\ Picture(c).name = IF c.named = TRUE THEN c.does ELSE NoName
BY DEF Picture

LEMMA PictureMetered ==
    ASSUME NEW c, NEW d, d.program = c.program, d.depth = c.depth, d.failed = c.failed,
           d.named = c.named, d.does = c.does,
           d.program \notin Native, d.state # "running"
    PROVE  [Picture(c) EXCEPT !.cu = d.cu] = Picture(d)
<1> DEFINE name == IF c.named = TRUE THEN c.does ELSE NoName
           unitsOf(x) == IF x.program \in Native \/ x.state = "running" THEN NoUnits ELSE x.cu
           view(cu) == [program |-> c.program, depth |-> c.depth, cu |-> cu,
                        failed |-> c.failed, name |-> name]
<1>1. Picture(c) = view(unitsOf(c))
    BY DEF Picture
<1>2. Picture(d) = view(unitsOf(d)) /\ unitsOf(d) = d.cu
    BY DEF Picture
<1> HIDE DEF unitsOf, name
<1>3. [view(unitsOf(c)) EXCEPT !.cu = d.cu] = view(d.cu)
    OBVIOUS
<1> QED
    BY <1>1, <1>2, <1>3

LEMMA PictureNamed ==
    ASSUME NEW c, NEW d, d.program = c.program, d.depth = c.depth, d.failed = c.failed,
           d.named = TRUE, d.state = c.state, d.cu = c.cu
    PROVE  [Picture(c) EXCEPT !.name = d.does] = Picture(d)
<1> DEFINE units == IF c.program \in Native \/ c.state = "running" THEN NoUnits ELSE c.cu
           view(name) == [program |-> c.program, depth |-> c.depth, cu |-> units,
                          failed |-> c.failed, name |-> name]
           before == IF c.named = TRUE THEN c.does ELSE NoName
<1>1. Picture(c) = view(before)
    BY DEF Picture
<1>2. Picture(d) = view(d.does)
    BY DEF Picture
<1> HIDE DEF units, before
<1>3. [view(before) EXCEPT !.name = d.does] = view(d.does)
    OBVIOUS
<1> QED
    BY <1>1, <1>2, <1>3

LEMMA PictureOver ==
    ASSUME NEW c, NEW d, d.program = c.program, d.depth = c.depth,
           d.named = c.named, d.does = c.does,
           d.program \in Native \/ (c.state # "running" /\ d.state # "running" /\ d.cu = c.cu)
    PROVE  [Picture(c) EXCEPT !.failed = d.failed] = Picture(d)
<1> DEFINE name == IF c.named = TRUE THEN c.does ELSE NoName
           unitsOf(x) == IF x.program \in Native \/ x.state = "running" THEN NoUnits ELSE x.cu
           view(failed) == [program |-> c.program, depth |-> c.depth, cu |-> unitsOf(c),
                            failed |-> failed, name |-> name]
<1>1. Picture(c) = view(c.failed)
    BY DEF Picture
<1>2. Picture(d) = view(d.failed)
  <2>1. unitsOf(d) = unitsOf(c)
    OBVIOUS
  <2> QED
    BY <2>1 DEF Picture
<1> HIDE DEF unitsOf, name
<1>3. [view(c.failed) EXCEPT !.failed = d.failed] = view(d.failed)
    OBVIOUS
<1> QED
    BY <1>1, <1>2, <1>3

LEMMA PictureAsIs ==
    ASSUME NEW c
    PROVE  [Picture(c) EXCEPT !.failed = c.failed] = Picture(c)
<1> DEFINE name == IF c.named = TRUE THEN c.does ELSE NoName
           units == IF c.program \in Native \/ c.state = "running" THEN NoUnits ELSE c.cu
<1>1. Picture(c) = [program |-> c.program, depth |-> c.depth, cu |-> units,
                    failed |-> c.failed, name |-> name]
    BY DEF Picture
<1> HIDE DEF units, name
<1> QED
    BY <1>1

\* A line that changes what is known of the innermost open call.
LEMMA InnermostPicture ==
    ASSUME RuntimeInv, Pictured, ~truncated, frames # << >>, NEW c \in Call,
           invocations' = [invocations EXCEPT ![Top] = Picture(c)],
           calls' \in Seq(Call), Len(calls') = Len(calls),
           \A i \in 1 .. Len(calls) :
               i # Top => Picture(calls'[i]) = Picture(calls[i]),
           Picture(calls'[Top]) = Picture(c)
    PROVE  PicturesOf(calls)'
<1>1. Top \in 1 .. Len(calls) /\ Len(calls) \in Nat
    BY InnermostCall DEF RuntimeInv, CallType
<1>2. /\ invocations \in Seq(Pictures) /\ Len(invocations) = Len(calls)
      /\ \A i \in 1 .. Len(calls) : invocations[i] = Picture(calls[i])
    BY DEF Pictured, PicturesOf
<1>3. Picture(c) \in Pictures
    BY DEF Pictures
<1> HIDE DEF Pictures
<1>4. /\ invocations' \in Seq(Pictures) /\ Len(invocations') = Len(invocations)
      /\ \A i \in 1 .. Len(invocations) :
            invocations'[i] = IF i = Top THEN Picture(c) ELSE invocations[i]
    BY <1>1, <1>2, <1>3
<1>5. \A i \in 1 .. Len(calls) : invocations'[i] = Picture(calls'[i])
    BY <1>1, <1>2, <1>4
<1> QED
    BY <1>2, <1>4, <1>5 DEF PicturesOf

LEMMA TopPicture ==
    ASSUME RuntimeInv, Pictured, ~truncated, frames # << >>
    PROVE  /\ Last(stack) = Top /\ stack # << >>
           /\ Top \in 1 .. Len(calls) /\ calls[Top] \in Call
           /\ Front(stack) = Front(frames)
           /\ invocations[Top] = Picture(calls[Top])
           /\ calls \in Seq(Call) /\ Len(calls) \in Nat
BY InnermostCall DEF Pictured, PicturesOf, Top, RuntimeInv, CallType

LEMMA InvokePictured ==
    ASSUME RuntimeInv, Pictured, NEW p \in Programs, NEW n \in Names, Invoke(p, n), RuntimeInv'
    PROVE  Pictured'
<1> SUFFICES ASSUME ~truncated'
             PROVE  stack' = frames' /\ PicturesOf(calls)'
    BY DEF Pictured
<1> DEFINE line == [kind |-> "invoke", program |-> p, depth |-> Len(frames) + 1]
           view == [program |-> line.program, depth |-> line.depth, cu |-> NoUnits,
                    failed |-> FALSE, name |-> NoName]
           call == [program |-> p, depth |-> Len(frames) + 1, does |-> n, named |-> FALSE,
                    state |-> "running", failed |-> FALSE,
                    cu |-> IF p \in Native THEN NATIVE_PROGRAM_CU
                                           ELSE OwnUnits[Len(calls) + 1]]
<1>1. /\ Log(line, p)
      /\ calls' = Append(calls, call) /\ frames' = Append(frames, Len(calls) + 1)
    BY DEF Invoke
<1>2. ~truncated /\ Take(line)
    BY <1>1, LoggedOrLost
<1>3. TakeInvoke(line)
    BY <1>2 DEF Take
<1>4. /\ invocations' = Append(invocations, view)
      /\ stack' = Append(stack, Len(invocations) + 1)
    BY <1>3 DEF TakeInvoke
<1>5. view = Picture(call)
    BY DEF Picture
<1> HIDE DEF view, call, line
<1>6. /\ stack = frames /\ invocations \in Seq(Pictures) /\ Len(invocations) = Len(calls)
      /\ \A i \in 1 .. Len(calls) : invocations[i] = Picture(calls[i])
    BY <1>2 DEF Pictured, PicturesOf
<1>7. calls \in Seq(Call) /\ calls' \in Seq(Call) /\ Len(calls) \in Nat
    BY DEF RuntimeInv, CallType
<1>8. /\ Len(calls') = Len(calls) + 1 /\ calls'[Len(calls) + 1] = call
      /\ \A i \in 1 .. Len(calls) : calls'[i] = calls[i]
    BY <1>1, <1>7
<1>9. call \in Call
    BY <1>7, <1>8
<1>10. view \in Pictures
    BY <1>5, <1>9 DEF Pictures
<1> HIDE DEF Pictures
<1>11. /\ invocations' \in Seq(Pictures) /\ Len(invocations') = Len(calls) + 1
       /\ invocations'[Len(calls) + 1] = view
       /\ \A i \in 1 .. Len(calls) : invocations'[i] = invocations[i]
    BY <1>4, <1>6, <1>7, <1>10
<1>12. \A i \in 1 .. Len(calls) + 1 : invocations'[i] = Picture(calls'[i])
    BY <1>5, <1>6, <1>7, <1>8, <1>11
<1>13. PicturesOf(calls)'
    BY <1>8, <1>11, <1>12 DEF PicturesOf
<1> QED
    BY <1>1, <1>4, <1>6, <1>13

LEMMA LogNamePictured ==
    ASSUME RuntimeInv, Pictured, LogName, RuntimeInv'
    PROVE  Pictured'
<1> SUFFICES ASSUME ~truncated'
             PROVE  stack' = frames' /\ PicturesOf(calls)'
    BY DEF Pictured
<1> DEFINE line == [kind |-> "name", name |-> calls[Top].does]
           call == [calls[Top] EXCEPT !.named = TRUE]
<1>1. /\ frames # << >> /\ calls' = [calls EXCEPT ![Top] = call] /\ frames' = frames
      /\ calls[Top].named # TRUE /\ calls[Top].program \notin Native
      /\ LogText(line)
    BY DEF LogName, Running
<1>2. ~truncated /\ Take(line)
    BY <1>1, LoggedOrLost
<1>3. TakeName(line)
    BY <1>2 DEF Take
<1>4. /\ Last(stack) = Top /\ stack # << >>
      /\ Top \in 1 .. Len(calls) /\ calls[Top] \in Call
      /\ invocations[Top] = Picture(calls[Top])
      /\ calls \in Seq(Call) /\ Len(calls) \in Nat
    BY <1>1, <1>2, TopPicture
<1>5. /\ invocations' = [invocations EXCEPT ![Top] =
                            [invocations[Top] EXCEPT !.name =
                                IF invocations[Top].name = NoName THEN line.name
                                ELSE invocations[Top].name]]
      /\ stack' = stack
    BY <1>3, <1>4 DEF TakeName
<1>6. invocations[Top].name = NoName
    BY <1>1, <1>4, PictureFields
<1>7. call \in Call
    BY <1>4 DEF Call
<1>8. [invocations[Top] EXCEPT !.name = line.name] = Picture(call)
  <2>1. /\ call.program = calls[Top].program /\ call.depth = calls[Top].depth
        /\ call.failed = calls[Top].failed /\ call.named = TRUE
        /\ call.does = calls[Top].does /\ call.state = calls[Top].state
        /\ call.cu = calls[Top].cu /\ line.name = calls[Top].does
    BY <1>4 DEF Call
  <2> HIDE DEF call, line
  <2>2. [Picture(calls[Top]) EXCEPT !.name = call.does] = Picture(call)
    BY <2>1, PictureNamed
  <2> QED
    BY <2>1, <2>2, <1>4
<1> HIDE DEF call
<1>9. invocations' = [invocations EXCEPT ![Top] = Picture(call)]
    BY <1>5, <1>6, <1>8
<1>10. /\ calls' \in Seq(Call) /\ Len(calls') = Len(calls) /\ calls'[Top] = call
       /\ \A i \in 1 .. Len(calls) : i # Top => calls'[i] = calls[i]
    BY <1>1, <1>4, <1>7
<1>11. PicturesOf(calls)'
    BY <1>1, <1>2, <1>7, <1>9, <1>10, InnermostPicture
<1> QED
    BY <1>1, <1>2, <1>5, <1>11 DEF Pictured

LEMMA LogConsumedPictured ==
    ASSUME RuntimeInv, Pictured, LogConsumed, RuntimeInv'
    PROVE  Pictured'
<1> SUFFICES ASSUME ~truncated'
             PROVE  stack' = frames' /\ PicturesOf(calls)'
    BY DEF Pictured
<1> DEFINE line == [kind |-> "consumed", cu |-> calls[Top].cu]
           call == [calls[Top] EXCEPT !.state = "metered"]
<1>1. /\ frames # << >> /\ calls' = [calls EXCEPT ![Top] = call] /\ frames' = frames
      /\ calls[Top].program \notin Native
      /\ Log(line, calls[Top].program)
    BY DEF LogConsumed, Running
<1>2. ~truncated /\ Take(line)
    BY <1>1, LoggedOrLost
<1>3. TakeConsumed(line)
    BY <1>2 DEF Take
<1>4. /\ Last(stack) = Top /\ stack # << >>
      /\ Top \in 1 .. Len(calls) /\ calls[Top] \in Call
      /\ invocations[Top] = Picture(calls[Top])
      /\ calls \in Seq(Call) /\ Len(calls) \in Nat
    BY <1>1, <1>2, TopPicture
<1>5. /\ invocations' = [invocations EXCEPT ![Top] =
                            [invocations[Top] EXCEPT !.cu = line.cu]]
      /\ stack' = stack
    BY <1>3, <1>4 DEF TakeConsumed
<1>7. call \in Call
    BY <1>4 DEF Call
<1>8. [invocations[Top] EXCEPT !.cu = line.cu] = Picture(call)
  <2>1. /\ call.program = calls[Top].program /\ call.depth = calls[Top].depth
        /\ call.failed = calls[Top].failed /\ call.named = calls[Top].named
        /\ call.does = calls[Top].does /\ call.state = "metered"
        /\ call.cu = calls[Top].cu /\ line.cu = calls[Top].cu
    BY <1>4 DEF Call
  <2> HIDE DEF call, line
  <2>2. [Picture(calls[Top]) EXCEPT !.cu = call.cu] = Picture(call)
    BY <2>1, <1>1, PictureMetered
  <2> QED
    BY <2>1, <2>2, <1>4
<1> HIDE DEF call
<1>9. invocations' = [invocations EXCEPT ![Top] = Picture(call)]
    BY <1>5, <1>8
<1>10. /\ calls' \in Seq(Call) /\ Len(calls') = Len(calls) /\ calls'[Top] = call
       /\ \A i \in 1 .. Len(calls) : i # Top => calls'[i] = calls[i]
    BY <1>1, <1>4, <1>7
<1>11. PicturesOf(calls)'
    BY <1>1, <1>2, <1>7, <1>9, <1>10, InnermostPicture
<1> QED
    BY <1>1, <1>2, <1>5, <1>11 DEF Pictured

LEMMA LogMessagePictured ==
    ASSUME RuntimeInv, Pictured, MessagesArePlain, NEW line \in Messages, LogMessage(line)
    PROVE  Pictured'
<1> SUFFICES ASSUME ~truncated'
             PROVE  stack' = frames' /\ PicturesOf(calls)'
    BY DEF Pictured
<1>1. /\ frames # << >> /\ calls' = calls /\ frames' = frames
      /\ line.kind = "name" => calls[Top].named
      /\ LogText(line)
    BY DEF LogMessage, Running
<1>2. ~truncated /\ Take(line)
    BY <1>1, LoggedOrLost
<1>3. /\ Last(stack) = Top /\ stack # << >>
      /\ Top \in 1 .. Len(calls) /\ calls[Top] \in Call
      /\ invocations[Top] = Picture(calls[Top])
    BY <1>1, <1>2, TopPicture
<1>4. stack = frames /\ PicturesOf(calls)
    BY <1>2 DEF Pictured
<1>5. invocations' = invocations /\ stack' = stack
  <2>1. CASE line.kind = "other"
    BY <2>1, <1>2 DEF Take, parser
  <2>2. CASE line.kind = "name"
    <3>1. TakeName(line)
        BY <2>2, <1>2 DEF Take
    <3>2. calls[Top].named = TRUE /\ calls[Top].does \in Names
        BY <2>2, <1>1, <1>3 DEF Call
    <3>3. /\ invocations[Top].name = calls[Top].does
          /\ invocations[Top].name # NoName
        BY <3>2, <1>3, NoNameIsNoName DEF Picture
    <3>4. /\ invocations' = [invocations EXCEPT ![Top] =
                              [invocations[Top] EXCEPT !.name = invocations[Top].name]]
          /\ stack' = stack
        BY <3>1, <3>3, <1>3 DEF TakeName
    <3>5. [invocations[Top] EXCEPT !.name = invocations[Top].name] = invocations[Top]
        BY <1>3 DEF Picture
    <3>6. invocations \in Seq(Pictures)
        BY <1>4 DEF PicturesOf
    <3> HIDE DEF Pictures
    <3> QED
        BY <3>4, <3>5, <3>6
  <2> QED
    BY <2>1, <2>2 DEF MessagesArePlain
<1> QED
    BY <1>1, <1>4, <1>5 DEF PicturesOf

LEMMA ReturnPictured ==
    ASSUME RuntimeInv, Pictured, NEW failed \in BOOLEAN, Return(failed), RuntimeInv'
    PROVE  Pictured'
<1> SUFFICES ASSUME ~truncated'
             PROVE  stack' = frames' /\ PicturesOf(calls)'
    BY DEF Pictured
<1> DEFINE line == [kind |-> IF failed THEN "failed" ELSE "success"]
<1>1. Log(line, calls[Top].program)
    BY DEF Return
<1>2. ~truncated /\ Take(line)
    BY <1>1, LoggedOrLost
<1>3. /\ frames # << >> /\ frames' = Front(frames)
      /\ calls[Top].state = "metered"
         \/ (calls[Top].state = "running" /\ calls[Top].program \in Native)
      /\ calls' \in Seq(Call) /\ Len(calls') = Len(calls)
      /\ calls'[Top].state = "over" /\ calls'[Top].failed = failed
      /\ \A i \in 1 .. Len(calls) :
            /\ calls'[i].program = calls[i].program /\ calls'[i].depth = calls[i].depth
            /\ calls'[i].does = calls[i].does /\ calls'[i].named = calls[i].named
            /\ i # Top => /\ calls'[i].state = calls[i].state
                          /\ calls'[i].failed = calls[i].failed
            /\ \/ calls'[i].cu = calls[i].cu
               \/ calls[i].state = "running" /\ calls[i].program \notin Native /\ i # Top
    BY ReturnEffect
<1>4. /\ Last(stack) = Top /\ stack # << >> /\ Front(stack) = Front(frames)
      /\ Top \in 1 .. Len(calls) /\ calls[Top] \in Call
      /\ invocations[Top] = Picture(calls[Top])
      /\ calls \in Seq(Call) /\ Len(calls) \in Nat
    BY <1>2, <1>3, TopPicture
<1>5. calls[Top].failed = FALSE
    BY <1>3, InnermostCall
<1>6. calls'[Top] \in Call
    BY <1>3, <1>4
<1>7. [invocations[Top] EXCEPT !.failed = failed] = Picture(calls'[Top])
  <2> DEFINE c == calls[Top]
             d == calls'[Top]
  <2>1. /\ d.program = c.program /\ d.depth = c.depth /\ d.named = c.named /\ d.does = c.does
        /\ d.cu = c.cu /\ d.failed = failed /\ d.state = "over"
        /\ c.state = "metered" \/ c.program \in Native
    BY <1>3, <1>4
  <2> HIDE DEF c, d
  <2>2. [Picture(c) EXCEPT !.failed = d.failed] = Picture(d)
    <3>1. d.program \in Native \/ (c.state # "running" /\ d.state # "running" /\ d.cu = c.cu)
        BY <2>1
    <3> QED
        BY <2>1, <3>1, PictureOver
  <2> QED
    BY <2>1, <2>2, <1>4 DEF c, d
<1>8. \A i \in 1 .. Len(calls) : i # Top => Picture(calls'[i]) = Picture(calls[i])
    BY <1>3 DEF Picture
<1>9. invocations \in Seq(Pictures) /\ Len(invocations) = Len(calls)
    BY <1>2 DEF Pictured, PicturesOf
<1>10. /\ invocations' = [invocations EXCEPT ![Top] = Picture(calls'[Top])]
       /\ stack' = Front(stack)
  <2>1. CASE failed = TRUE
    <3>1. TakeFailed(line)
        BY <2>1, <1>2 DEF Take
    <3> QED
        BY <2>1, <3>1, <1>4, <1>7 DEF TakeFailed
  <2>2. CASE failed = FALSE
    <3>1. TakeSuccess(line)
        BY <2>2, <1>2 DEF Take
    <3>2. invocations' = invocations /\ stack' = Front(stack)
        BY <3>1, <1>4 DEF TakeSuccess
    <3>3. Picture(calls'[Top]) = invocations[Top]
      <4>1. [Picture(calls[Top]) EXCEPT !.failed = calls[Top].failed] = Picture(calls[Top])
        BY PictureAsIs
      <4> QED
        BY <4>1, <2>2, <1>4, <1>5, <1>7
    <3> HIDE DEF Pictures
    <3> QED
        BY <3>2, <3>3, <1>4, <1>9
  <2> QED
    BY <2>1, <2>2
<1>11. PicturesOf(calls)'
    BY <1>2, <1>3, <1>6, <1>8, <1>10, InnermostPicture
<1> QED
    BY <1>3, <1>4, <1>10, <1>11

LEMMA ExecuteKeeps == RuntimeInv /\ Execute => RuntimeInv'
<1> SUFFICES ASSUME RuntimeInv, Execute
             PROVE  RuntimeInv'
    OBVIOUS
<1>1. ASSUME NEW act \in Acts, Invoke(act[1], act[2])
      PROVE  RuntimeInv'
  <2>1. act[1] \in Programs /\ act[2] \in Names
    BY ActsNameInstructions
  <2> QED
    BY <2>1, <1>1, InvokeKeeps
<1>2. ASSUME NEW line \in Messages, LogMessage(line)
      PROVE  RuntimeInv'
    BY <1>2, LogMessageKeeps
<1>3. ASSUME NEW failed \in BOOLEAN, Return(failed)
      PROVE  RuntimeInv'
    BY <1>3, ReturnKeeps
<1> QED
    BY <1>1, <1>2, <1>3, LogNameKeeps, LogConsumedKeeps DEF Execute

LEMMA ExecutePictured ==
    ASSUME MessagesArePlain, RuntimeInv, Pictured, Execute
    PROVE  Pictured'
<1>1. RuntimeInv'
    BY ExecuteKeeps
<1>2. ASSUME NEW act \in Acts, Invoke(act[1], act[2])
      PROVE  Pictured'
  <2>1. act[1] \in Programs /\ act[2] \in Names
    BY ActsNameInstructions
  <2> QED
    BY <2>1, <1>1, <1>2, InvokePictured
<1>3. ASSUME NEW line \in Messages, LogMessage(line)
      PROVE  Pictured'
    BY <1>3, LogMessagePictured
<1>4. ASSUME NEW failed \in BOOLEAN, Return(failed)
      PROVE  Pictured'
    BY <1>1, <1>4, ReturnPictured
<1> QED
    BY <1>1, <1>2, <1>3, <1>4, LogNamePictured, LogConsumedPictured DEF Execute

\* Nothing of the transaction changes.
LEMMA StillKeeps ==
    ASSUME RuntimeInv, UNCHANGED cuVars
    PROVE  RuntimeInv' /\ (Pictured => Pictured')
<1>1. /\ calls' = calls /\ frames' = frames /\ unwinding' = unwinding
      /\ truncated' = truncated /\ invocations' = invocations /\ stack' = stack
    BY DEF cuVars, runtime, parser
<1>2. RuntimeInv'
  <2>1. calls \in Seq(Call)
    BY DEF RuntimeInv, CallType
  <2> QED
    BY <2>1, <1>1, MeteringKeeps
<1>3. Pictured => Pictured'
    BY Zenon, <1>1 DEF Pictured, PicturesOf
<1> QED
    BY <1>2, <1>3

\* What the calls of a transaction always look like.
THEOREM RuntimeInvariant == NamesSpec => []RuntimeInv
<1>1. NamesInit => RuntimeInv
    BY RuntimeStarts DEF NamesInit
<1>2. RuntimeInv /\ [NamesNext]_namesVars => RuntimeInv'
  <2> SUFFICES ASSUME RuntimeInv, [NamesNext]_namesVars
               PROVE  RuntimeInv'
    OBVIOUS
  <2>1. Execute \/ UNCHANGED cuVars
    BY DEF NamesNext, namesVars, Resolve
  <2> QED
    BY <2>1, ExecuteKeeps, StillKeeps
<1> QED
    BY <1>1, <1>2, PTL DEF NamesSpec

\* The parser's state follows from the runtime's as long as no line is lost.
THEOREM PicturedInvariant ==
    ASSUME MessagesArePlain
    PROVE  NamesSpec => []Pictured
<1>1. NamesInit => Pictured
  <2> SUFFICES ASSUME NamesInit
               PROVE  Pictured
    OBVIOUS
  <2>1. calls = << >> /\ frames = << >> /\ invocations = << >> /\ stack = << >>
    BY DEF NamesInit, CuInit
  <2>2. << >> \in Seq(Pictures)
    OBVIOUS
  <2> QED
    BY <2>1, <2>2 DEF Pictured, PicturesOf
<1>2. RuntimeInv /\ Pictured /\ [NamesNext]_namesVars => Pictured'
  <2> SUFFICES ASSUME RuntimeInv, Pictured, [NamesNext]_namesVars
               PROVE  Pictured'
    OBVIOUS
  <2>1. Execute \/ UNCHANGED cuVars
    BY DEF NamesNext, namesVars, Resolve
  <2> QED
    BY <2>1, ExecutePictured, StillKeeps
<1> QED
    BY <1>1, <1>2, RuntimeInvariant, PTL DEF NamesSpec

\* The badge: the top level calls are shown with what they consumed.
LEMMA FinishedIsVerified ==
    ASSUME RuntimeInv, Pictured, ~truncated, frames = << >>
    PROVE  Verified
<1>1. /\ Len(invocations) = Len(calls) /\ Len(calls) \in Nat
      /\ DOMAIN calls = 1 .. Len(calls) /\ DOMAIN invocations = 1 .. Len(calls)
      /\ \A i \in 1 .. Len(calls) : invocations[i] = Picture(calls[i])
      /\ \A i \in 1 .. Len(calls) : calls[i] \in Call
  <2>1. calls \in Seq(Call) /\ invocations \in Seq(Pictures)
    BY DEF RuntimeInv, CallType, Pictured, PicturesOf
  <2> HIDE DEF Pictures
  <2> QED
    BY <2>1 DEF Pictured, PicturesOf
<1>2. TopLevel(invocations) = TopLevel(calls)
  <2>1. \A i \in 1 .. Len(calls) : invocations[i].depth = calls[i].depth
    BY <1>1, PictureFields
  <2> QED
    BY <2>1, <1>1 DEF TopLevel
<1>3. ASSUME NEW i \in 1 .. Len(calls)
      PROVE  UnitsShown(invocations[i]) = calls[i].cu
  <2>1. calls[i].state = "over" /\ calls[i].cu \in Nat
    BY <1>1 DEF RuntimeInv, OthersAreOver, Call
  <2>2. invocations[i].cu = IF calls[i].program \in Native THEN NoUnits ELSE calls[i].cu
    BY <2>1, <1>1, PictureFields
  <2>3. calls[i].program \in Native => calls[i].cu = NATIVE_PROGRAM_CU
    BY DEF RuntimeInv, NativeUnits
  <2> QED
    BY <2>1, <2>2, <2>3 DEF UnitsShown, NoUnits
<1>4. [i \in TopLevel(invocations) |-> UnitsShown(invocations[i])]
      = [i \in TopLevel(calls) |-> calls[i].cu]
  <2>1. \A i \in TopLevel(calls) : UnitsShown(invocations[i]) = calls[i].cu
    BY <1>1, <1>3 DEF TopLevel
  <2> QED
    BY <1>2, <2>1
<1> QED
    BY <1>4 DEF Verified, ReconstructedTotal, ReportedTotal

LEMMA PicturedIsExact ==
    ASSUME RuntimeInv, Pictured
    PROVE  CompleteIsExact
<1> SUFFICES ASSUME ~truncated
             PROVE  CompleteIsExact
    BY DEF CompleteIsExact
<1>1. /\ Len(invocations) = Len(calls) /\ Len(calls) \in Nat
      /\ DOMAIN calls = 1 .. Len(calls) /\ DOMAIN invocations = 1 .. Len(calls)
      /\ \A i \in 1 .. Len(calls) : invocations[i] = Picture(calls[i])
  <2>1. calls \in Seq(Call) /\ invocations \in Seq(Pictures)
    BY DEF RuntimeInv, CallType, Pictured, PicturesOf
  <2> HIDE DEF Pictures
  <2> QED
    BY <2>1 DEF Pictured, PicturesOf
<1>2. NestedIsListed
  <2> SUFFICES ASSUME Len(frames) > 1
               PROVE  Last(frames) \in Children(Head(frames))
    BY DEF NestedIsListed
  <2>1. frames # << >> /\ frames \in Seq(Nat) /\ Head(frames) = frames[1]
    BY DEF RuntimeInv, CallType
  <2>2. /\ Len(frames) \in Nat /\ Last(frames) \in 1 .. Len(calls)
        /\ \A k \in 1 .. Len(frames) - 1 : frames[k] < Last(frames)
    BY <2>1, InnermostCall DEF Top
  <2>3. frames[1] < Last(frames) /\ frames[1] \in 1 .. Len(calls)
    BY <2>2 DEF RuntimeInv, OpenCalls
  <2>4. ASSUME NEW k \in frames[1] + 1 .. Last(frames)
        PROVE  invocations[k].depth > 1
    <3>1. k \in 1 .. Len(calls) /\ k > frames[1]
        BY <2>2, <2>3
    <3>2. calls[k].depth > 1
        BY <2>1, <3>1 DEF RuntimeInv, NestedBehind
    <3> QED
        BY <3>1, <3>2, <1>1, PictureFields
  <2> QED
    BY <2>1, <2>2, <2>3, <2>4, <1>1 DEF Children
<1>3. ASSUME Finished
      PROVE  /\ \A i \in DOMAIN calls :
                  /\ invocations[i].program = calls[i].program
                  /\ invocations[i].depth = calls[i].depth
                  /\ invocations[i].failed = calls[i].failed
                  /\ invocations[i].cu = IF calls[i].program \in Native THEN NoUnits ELSE calls[i].cu
             /\ Verified
  <2>1. frames = << >>
    BY <1>3 DEF Finished
  <2>2. \A i \in 1 .. Len(calls) : calls[i].state = "over"
    BY <2>1 DEF RuntimeInv, OthersAreOver
  <2>3. Verified
    BY <2>1, FinishedIsVerified
  <2>4. ASSUME NEW i \in 1 .. Len(calls)
        PROVE  /\ invocations[i].program = calls[i].program
               /\ invocations[i].depth = calls[i].depth
               /\ invocations[i].failed = calls[i].failed
               /\ invocations[i].cu = IF calls[i].program \in Native THEN NoUnits ELSE calls[i].cu
    <3>1. invocations[i] = Picture(calls[i]) /\ calls[i].state = "over"
        BY <2>2, <1>1
    <3> QED
        BY <3>1, PictureFields
  <2> QED
    BY <2>3, <2>4, <1>1
<1> QED
    BY <1>1, <1>2, <1>3 DEF CompleteIsExact

\* A complete log of a finished transaction, in which no message reads as a status
\* line, gives every call its own program, depth, consumption and verdict, and
\* verifies the total; on the way nested calls are listed under the open top level one.
THEOREM CompleteLogsAreExact ==
    ASSUME MessagesArePlain
    PROVE  NamesSpec => []CompleteIsExact
BY RuntimeInvariant, PicturedInvariant, PicturedIsExact, PTL

-----------------------------------------------------------------------------
(* Numbers in order: the element at k is the one of rank k *)

LEMMA Ranks ==
    ASSUME NEW S \in SUBSET Nat, IsFiniteSet(S)
    PROVE  /\ Cardinality(S) \in Nat
           /\ \A x \in S : Rank(S, x) \in 1 .. Cardinality(S)
           /\ \A x, y \in S : x < y => Rank(S, x) < Rank(S, y)
<1> DEFINE upTo(x) == {y \in S : y <= x}
<1>1. Cardinality(S) \in Nat
    BY FS_CardinalityType
<1>2. ASSUME NEW x \in S
      PROVE  /\ IsFiniteSet(upTo(x)) /\ Cardinality(upTo(x)) \in Nat
             /\ Cardinality(upTo(x)) <= Cardinality(S) /\ Cardinality(upTo(x)) # 0
  <2>1. upTo(x) \in SUBSET S
    OBVIOUS
  <2>2. IsFiniteSet(upTo(x)) /\ Cardinality(upTo(x)) <= Cardinality(S)
    BY <2>1, FS_Subset
  <2>3. x \in upTo(x)
    OBVIOUS
  <2>4. upTo(x) # {}
    BY <2>3
  <2> HIDE DEF upTo
  <2>5. Cardinality(upTo(x)) \in Nat
    BY <2>2, FS_CardinalityType
  <2> QED
    BY <2>2, <2>4, <2>5, FS_EmptySet
<1>3. ASSUME NEW x \in S, NEW y \in S, x < y
      PROVE  Cardinality(upTo(x)) < Cardinality(upTo(y))
  <2>0. \A z \in S : z <= x => z <= y
    BY <1>3
  <2>1. upTo(x) \in SUBSET upTo(y)
    BY <2>0
  <2>2. y \in upTo(y) /\ y \notin upTo(x)
    BY <1>3
  <2>3. upTo(x) # upTo(y)
    BY <2>2
  <2>4. /\ IsFiniteSet(upTo(y)) /\ Cardinality(upTo(x)) \in Nat /\ Cardinality(upTo(y)) \in Nat
    BY <1>2
  <2> HIDE DEF upTo
  <2>5. /\ Cardinality(upTo(x)) <= Cardinality(upTo(y))
        /\ Cardinality(upTo(x)) # Cardinality(upTo(y))
    BY <2>1, <2>3, <2>4, FS_Subset
  <2> QED
    BY <2>4, <2>5
<1>4. \A x \in S : Rank(S, x) = Cardinality(upTo(x))
    BY DEF Rank
<1> HIDE DEF upTo
<1> QED
    BY <1>1, <1>2, <1>3, <1>4

LEMMA EveryRank ==
    ASSUME NEW S \in SUBSET Nat, IsFiniteSet(S), NEW k \in 1 .. Cardinality(S)
    PROVE  \E x \in S : Rank(S, x) = k
<1> DEFINE n == Cardinality(S)
           rank == [x \in S |-> Rank(S, x)]
<1>1. n \in Nat
    BY Ranks
<1>2. IsFiniteSet(1 .. n) /\ Cardinality(1 .. n) = n
  <2>1. 1 \in Int /\ n \in Int
    BY <1>1
  <2>2. IsFiniteSet(1 .. n) /\ Cardinality(1 .. n) = IF 1 > n THEN 0 ELSE n - 1 + 1
    BY <2>1, FS_Interval
  <2> HIDE DEF n
  <2> QED
    BY <2>2, <1>1
<1>3. rank \in [S -> 1 .. n]
    BY Ranks
<1>4. \A x, y \in S : rank[x] = rank[y] => x = y
  <2> SUFFICES ASSUME NEW x \in S, NEW y \in S, x # y
               PROVE  Rank(S, x) # Rank(S, y)
    OBVIOUS
  <2>1. x \in Nat /\ y \in Nat /\ Rank(S, x) \in Nat /\ Rank(S, y) \in Nat
    BY Ranks, <1>1
  <2>2. x < y \/ y < x
    BY <2>1
  <2>3. Rank(S, x) < Rank(S, y) \/ Rank(S, y) < Rank(S, x)
    BY <2>2, Ranks
  <2> QED
    BY <2>1, <2>3
<1> HIDE DEF n, rank
<1>5. rank \in Injection(S, 1 .. n)
    BY <1>3, <1>4 DEF Injection, IsInjective
<1>6. rank \in Surjection(S, 1 .. n)
    BY <1>2, <1>5, FS_Injection DEF n
<1>7. \E x \in S : rank[x] = k
    BY <1>6 DEF Surjection, n
<1> QED
    BY <1>7 DEF rank

LEMMA InOrderEnumerates ==
    ASSUME NEW S \in SUBSET Nat, IsFiniteSet(S)
    PROVE  /\ InOrder(S) \in Seq(S) /\ Len(InOrder(S)) = Cardinality(S)
           /\ Cardinality(S) \in Nat /\ DOMAIN InOrder(S) = 1 .. Cardinality(S)
           /\ \A x \in S : /\ Rank(S, x) \in 1 .. Cardinality(S)
                           /\ InOrder(S)[Rank(S, x)] = x
<1> DEFINE at(k) == CHOOSE x \in S : Rank(S, x) = k
           n == Cardinality(S)
<1>1. n \in Nat
    BY Ranks
<1>2. ASSUME NEW k \in 1 .. n
      PROVE  at(k) \in S /\ Rank(S, at(k)) = k
    BY EveryRank
<1>3. InOrder(S) = [k \in 1 .. n |-> at(k)]
    BY DEF InOrder
<1> HIDE DEF at, n
<1>4. InOrder(S) \in Seq(S) /\ Len(InOrder(S)) = n /\ DOMAIN InOrder(S) = 1 .. n
    BY <1>1, <1>2, <1>3
<1>5. ASSUME NEW x \in S
      PROVE  Rank(S, x) \in 1 .. n /\ InOrder(S)[Rank(S, x)] = x
  <2> DEFINE y == at(Rank(S, x))
  <2>1. Rank(S, x) \in 1 .. n
    BY Ranks DEF n
  <2>2. y \in S /\ Rank(S, y) = Rank(S, x) /\ InOrder(S)[Rank(S, x)] = y
    BY <2>1, <1>2, <1>3
  <2> HIDE DEF y
  <2>3. x \in Nat /\ y \in Nat /\ Rank(S, x) \in Nat
    BY <1>1, <2>1, <2>2
  <2>4. ~(x < y) /\ ~(y < x)
    <3>1. /\ x < y => Rank(S, x) < Rank(S, y)
          /\ y < x => Rank(S, y) < Rank(S, x)
        BY <2>2, Ranks
    <3> QED
        BY <3>1, <2>2, <2>3
  <2> QED
    BY <2>1, <2>2, <2>3, <2>4
<1> QED
    BY <1>1, <1>4, <1>5 DEF n

\* The largest number comes last.
LEMMA LargestIsLast ==
    ASSUME NEW S \in SUBSET Nat, IsFiniteSet(S), NEW t \in S, \A x \in S : x <= t
    PROVE  /\ Len(InOrder(S)) \in 1 .. Cardinality(S)
           /\ InOrder(S)[Len(InOrder(S))] = t
<1>1. {y \in S : y <= t} = S
    OBVIOUS
<1>2. Rank(S, t) = Cardinality(S)
    BY <1>1 DEF Rank
<1> QED
    BY <1>2, InOrderEnumerates

LEMMA LargestExists ==
    ASSUME NEW S \in SUBSET Nat, IsFiniteSet(S), S # {}
    PROVE  Max(S) \in S /\ \A x \in S : x <= Max(S)
<1>1. Cardinality(S) \in Nat /\ Cardinality(S) # 0
    BY FS_CardinalityType, FS_EmptySet
<1>2. PICK t \in S : Rank(S, t) = Cardinality(S)
  <2>1. Cardinality(S) \in 1 .. Cardinality(S)
    BY <1>1
  <2> QED
    BY <2>1, EveryRank
<1>3. {y \in S : y <= t} = S
  <2> DEFINE U == {y \in S : y <= t}
  <2>1. U \in SUBSET S /\ Cardinality(U) = Cardinality(S)
    BY <1>2 DEF Rank
  <2> HIDE DEF U
  <2>2. U = S
    BY <2>1, FS_Subset
  <2> QED
    BY <2>2 DEF U
<1>4. t \in S /\ \A x \in S : t >= x
    BY <1>3
<1> QED
    BY <1>4 DEF Max

\* A correspondence that keeps the order keeps the ranks.
LEMMA SameRank ==
    ASSUME NEW P \in SUBSET Nat, IsFiniteSet(P), NEW C \in SUBSET Nat, NEW g \in [P -> C],
           \A i, j \in P : i < j => g[i] < g[j],
           \A c \in C : \E j \in P : g[j] = c,
           NEW k \in P
    PROVE  Rank(P, k) = Rank(C, g[k])
<1> DEFINE Below == {j \in P : j <= k}
           Under == {c \in C : c <= g[k]}
           h == [j \in Below |-> g[j]]
<1>1. \A j \in P : j <= k <=> g[j] <= g[k]
  <2> SUFFICES ASSUME NEW j \in P
               PROVE  j <= k <=> g[j] <= g[k]
    OBVIOUS
  <2>1. j \in Nat /\ k \in Nat /\ g[j] \in Nat /\ g[k] \in Nat
    OBVIOUS
  <2>2. (j < k => g[j] < g[k]) /\ (k < j => g[k] < g[j])
    OBVIOUS
  <2> QED
    BY <2>1, <2>2
<1>2. h \in [Below -> Under]
    BY <1>1
<1>3. \A x, y \in Below : h[x] = h[y] => x = y
  <2> SUFFICES ASSUME NEW x \in P, NEW y \in P, x # y
               PROVE  g[x] # g[y]
    OBVIOUS
  <2>1. x \in Nat /\ y \in Nat /\ g[x] \in Nat /\ g[y] \in Nat
    OBVIOUS
  <2>2. (x < y => g[x] < g[y]) /\ (y < x => g[y] < g[x])
    OBVIOUS
  <2> QED
    BY <2>1, <2>2
<1>4. \A c \in Under : \E j \in Below : h[j] = c
  <2> SUFFICES ASSUME NEW c \in Under
               PROVE  \E j \in Below : h[j] = c
    OBVIOUS
  <2>1. PICK j \in P : g[j] = c
    OBVIOUS
  <2> QED
    BY <2>1, <1>1
<1>5. Below \in SUBSET P
    OBVIOUS
<1>6. Rank(P, k) = Cardinality(Below) /\ Rank(C, g[k]) = Cardinality(Under)
    BY DEF Rank
<1> HIDE DEF Below, Under, h
<1>7. h \in Bijection(Below, Under)
    BY <1>2, <1>3, <1>4 DEF Bijection, Injection, Surjection, IsInjective
<1>8. IsFiniteSet(Below)
    BY <1>5, FS_Subset
<1>9. Cardinality(Under) = Cardinality(Below)
    BY <1>7, <1>8, FS_Bijection DEF ExistsBijection
<1> QED
    BY <1>6, <1>9

-----------------------------------------------------------------------------
(* The list of instructions *)

Entry == [call : Nat, program : Programs, does : Names,
          name : Names \cup {NoName}, from : {"none", "idl", "log"}]

LEMMA CallIndices ==
    ASSUME RuntimeInv, NEW S \in SUBSET DOMAIN calls
    PROVE  S \in SUBSET Nat /\ IsFiniteSet(S)
<1>1. DOMAIN calls = 1 .. Len(calls) /\ Len(calls) \in Nat
    BY DEF RuntimeInv, CallType
<1>2. IsFiniteSet(1 .. Len(calls))
    BY <1>1, FS_Interval
<1>3. IsFiniteSet(S)
    BY <1>1, <1>2, FS_Subset
<1> QED
    BY <1>1, <1>3

Inner == {i \in DOMAIN calls : calls[i].depth > 1 /\ calls[i].program \notin LookedUp}

\* The list holds top level calls, then what was never executed, then nested calls.
LEMMA ListOfCalls ==
    ASSUME RuntimeInv, NEW S \in SUBSET DOMAIN calls
    PROVE  LET part == [k \in DOMAIN InOrder(S) |-> Instruction(InOrder(S)[k])]
           IN  /\ part \in Seq(Entry) /\ Len(part) = Len(InOrder(S)) /\ Len(part) \in Nat
               /\ \A k \in 1 .. Len(part) :
                     InOrder(S)[k] \in S /\ part[k] = Instruction(InOrder(S)[k])
               /\ \A i \in S : \E k \in 1 .. Len(part) : part[k] = Instruction(i)
<1> DEFINE at == InOrder(S)
           part == [k \in DOMAIN at |-> Instruction(at[k])]
<1>1. S \in SUBSET Nat /\ IsFiniteSet(S)
    BY CallIndices
<1>2. /\ at \in Seq(S) /\ Len(at) = Cardinality(S) /\ Cardinality(S) \in Nat
      /\ DOMAIN at = 1 .. Cardinality(S)
      /\ \A x \in S : Rank(S, x) \in 1 .. Cardinality(S) /\ at[Rank(S, x)] = x
    BY <1>1, InOrderEnumerates
<1>3. \A i \in S : Instruction(i) \in Entry
  <2> SUFFICES ASSUME NEW i \in S
               PROVE  Instruction(i) \in Entry
    OBVIOUS
  <2>1. calls[i] \in Call /\ i \in Nat
    BY <1>1 DEF RuntimeInv, CallType
  <2> QED
    BY <2>1 DEF Instruction, Entry, Call
<1> HIDE DEF at
<1>4. \A k \in 1 .. Len(at) : at[k] \in S
    BY <1>2
<1>5. part = [k \in 1 .. Len(at) |-> Instruction(at[k])]
    BY <1>2
<1>6. part \in Seq(Entry) /\ Len(part) = Len(at)
    BY <1>2, <1>3, <1>4, <1>5
<1>7. \A i \in S : \E k \in 1 .. Len(part) : part[k] = Instruction(i)
    BY <1>2, <1>5, <1>6
<1> QED
    BY <1>2, <1>4, <1>5, <1>6, <1>7 DEF at

LEMMA Concatenation ==
    ASSUME NEW S, NEW a \in Seq(S), NEW b \in Seq(S)
    PROVE  /\ a \o b \in Seq(S) /\ Len(a \o b) = Len(a) + Len(b)
           /\ Len(a) \in Nat /\ Len(b) \in Nat
           /\ \A k \in 1 .. Len(a) : (a \o b)[k] = a[k]
           /\ \A k \in Len(a) + 1 .. Len(a) + Len(b) : (a \o b)[k] = b[k - Len(a)]
OBVIOUS

NotRun == {Unexecuted(p, n) : p \in Programs, n \in Names}

LEMMA WholeList ==
    ASSUME RuntimeInv, NEW rest \in Seq(NotRun)
    PROVE  /\ ExtractAll(rest) \in Seq(Entry)
           /\ Len(TopLevelOnes) <= Len(ExtractAll(rest))
           /\ \A k \in 1 .. Len(TopLevelOnes) : ExtractAll(rest)[k] = Instruction(TopLevelOnes[k])
           /\ \A k \in 1 .. Len(ExtractAll(rest)) :
                 \/ ExtractAll(rest)[k].call = 0 /\ ExtractAll(rest)[k].from = "none"
                 \/ \E i \in DOMAIN calls : ExtractAll(rest)[k] = Instruction(i)
           /\ \A i \in DOMAIN calls :
                 calls[i].depth = 1 \/ calls[i].program \notin LookedUp =>
                     \E k \in 1 .. Len(ExtractAll(rest)) : ExtractAll(rest)[k] = Instruction(i)
<1> DEFINE top == [k \in DOMAIN TopLevelOnes |-> Instruction(TopLevelOnes[k])]
           inner == [k \in DOMAIN InnerOnes |-> Instruction(InnerOnes[k])]
           list == ExtractAll(rest)
<1>1. TopLevel(calls) \in SUBSET DOMAIN calls /\ Inner \in SUBSET DOMAIN calls
    BY DEF TopLevel, Inner
<1>2. /\ top \in Seq(Entry) /\ Len(top) = Len(TopLevelOnes) /\ Len(top) \in Nat
      /\ \A k \in 1 .. Len(top) :
            TopLevelOnes[k] \in TopLevel(calls) /\ top[k] = Instruction(TopLevelOnes[k])
      /\ \A i \in TopLevel(calls) : \E k \in 1 .. Len(top) : top[k] = Instruction(i)
    BY <1>1, ListOfCalls DEF TopLevelOnes
<1>3. /\ inner \in Seq(Entry) /\ Len(inner) \in Nat
      /\ \A k \in 1 .. Len(inner) :
            InnerOnes[k] \in Inner /\ inner[k] = Instruction(InnerOnes[k])
      /\ \A i \in Inner : \E k \in 1 .. Len(inner) : inner[k] = Instruction(i)
    BY <1>1, ListOfCalls DEF InnerOnes, Inner
<1>4. \A e \in NotRun : e \in Entry /\ e.call = 0 /\ e.from = "none"
    BY DEF NotRun, Unexecuted, Entry
<1>5. rest \in Seq(Entry) /\ Len(rest) \in Nat
      /\ \A k \in 1 .. Len(rest) : rest[k].call = 0 /\ rest[k].from = "none"
  <2> HIDE DEF NotRun
  <2> QED
    BY <1>4
<1>6. list = top \o rest \o inner
    BY DEF ExtractAll
<1> HIDE DEF top, inner, list
<1>7. /\ top \o rest \in Seq(Entry) /\ Len(top \o rest) = Len(top) + Len(rest)
      /\ \A k \in 1 .. Len(top) : (top \o rest)[k] = top[k]
      /\ \A k \in Len(top) + 1 .. Len(top) + Len(rest) : (top \o rest)[k] = rest[k - Len(top)]
  <2>1. top \in Seq(Entry) /\ rest \in Seq(Entry)
    BY <1>2, <1>5
  <2> HIDE DEF Entry
  <2> QED
    BY <2>1, Concatenation
<1>8. /\ list \in Seq(Entry) /\ Len(list) = Len(top) + Len(rest) + Len(inner)
      /\ \A k \in 1 .. Len(top) + Len(rest) : list[k] = (top \o rest)[k]
      /\ \A k \in Len(top) + Len(rest) + 1 .. Len(list) :
            list[k] = inner[k - (Len(top) + Len(rest))]
  <2> DEFINE front == top \o rest
  <2>1. front \in Seq(Entry) /\ Len(front) = Len(top) + Len(rest) /\ list = front \o inner
    BY <1>6, <1>7
  <2> HIDE DEF front
  <2>2. /\ front \o inner \in Seq(Entry) /\ Len(front \o inner) = Len(front) + Len(inner)
        /\ \A k \in 1 .. Len(front) : (front \o inner)[k] = front[k]
        /\ \A k \in Len(front) + 1 .. Len(front) + Len(inner) :
              (front \o inner)[k] = inner[k - Len(front)]
    <3>1. front \in Seq(Entry) /\ inner \in Seq(Entry)
        BY <2>1, <1>3
    <3> QED
        BY <3>1, Concatenation
  <2>3. /\ list \in Seq(Entry) /\ Len(list) = Len(top) + Len(rest) + Len(inner)
        /\ \A k \in 1 .. Len(top) + Len(rest) : list[k] = front[k]
        /\ \A k \in Len(top) + Len(rest) + 1 .. Len(list) :
              list[k] = inner[k - (Len(top) + Len(rest))]
    <3>1. /\ list \in Seq(Entry) /\ Len(list) = Len(front) + Len(inner)
          /\ \A k \in 1 .. Len(front) : list[k] = front[k]
          /\ \A k \in Len(front) + 1 .. Len(list) : list[k] = inner[k - Len(front)]
        BY <2>1, <2>2
    <3>2. Len(front) = Len(top) + Len(rest)
        BY <2>1
    <3> QED
        BY <3>1, <3>2
  <2> QED
    BY <2>3 DEF front
<1>9. \A k \in 1 .. Len(top) : list[k] = top[k]
  <2> SUFFICES ASSUME NEW k \in 1 .. Len(top)
               PROVE  list[k] = top[k]
    OBVIOUS
  <2>1. k \in 1 .. Len(top) + Len(rest)
    BY <1>2, <1>5
  <2>2. list[k] = (top \o rest)[k] /\ (top \o rest)[k] = top[k]
    BY <2>1, <1>7, <1>8
  <2> QED
    BY <2>2
<1>10. ASSUME NEW k \in 1 .. Len(list)
       PROVE  \/ list[k].call = 0 /\ list[k].from = "none"
              \/ \E i \in DOMAIN calls : list[k] = Instruction(i)
  <2>1. CASE k \in 1 .. Len(top)
    BY <2>1, <1>1, <1>2, <1>9
  <2>2. CASE k \in Len(top) + 1 .. Len(top) + Len(rest)
    <3>1. list[k] = rest[k - Len(top)] /\ k - Len(top) \in 1 .. Len(rest)
        BY <2>2, <1>2, <1>5, <1>7, <1>8
    <3> QED
        BY <3>1, <1>5
  <2>3. CASE k \in Len(top) + Len(rest) + 1 .. Len(list)
    <3> DEFINE j == k - (Len(top) + Len(rest))
    <3>1. list[k] = inner[j] /\ j \in 1 .. Len(inner)
        BY <2>3, <1>2, <1>3, <1>5, <1>8
    <3> HIDE DEF j
    <3> QED
        BY <3>1, <1>1, <1>3
  <2> QED
    BY <2>1, <2>2, <2>3, <1>2, <1>5, <1>8
<1>11. ASSUME NEW i \in DOMAIN calls, calls[i].depth = 1 \/ calls[i].program \notin LookedUp
       PROVE  \E k \in 1 .. Len(list) : list[k] = Instruction(i)
  <2>1. CASE calls[i].depth = 1
    <3>1. PICK k \in 1 .. Len(top) : top[k] = Instruction(i)
        BY <2>1, <1>2 DEF TopLevel
    <3> QED
        BY <3>1, <1>2, <1>3, <1>5, <1>8, <1>9
  <2>2. CASE calls[i].depth # 1
    <3>1. calls[i].depth > 1
      <4>1. calls[i] \in Call
        BY DEF RuntimeInv, CallType
      <4> QED
        BY <4>1, <2>2 DEF Call
    <3>2. PICK j \in 1 .. Len(inner) : inner[j] = Instruction(i)
        BY <3>1, <2>2, <1>3, <1>11 DEF Inner
    <3> DEFINE k == j + (Len(top) + Len(rest))
    <3>3. k \in Len(top) + Len(rest) + 1 .. Len(list) /\ k - (Len(top) + Len(rest)) = j
          /\ k \in 1 .. Len(list)
        BY <1>2, <1>3, <1>5, <1>8
    <3> HIDE DEF k
    <3>4. list[k] = Instruction(i)
        BY <3>2, <3>3, <1>8
    <3> QED
        BY <3>3, <3>4
  <2> QED
    BY <2>1, <2>2
<1>12. Len(TopLevelOnes) <= Len(list)
    BY <1>2, <1>3, <1>5, <1>8
<1> QED
    BY <1>2, <1>8, <1>9, <1>10, <1>11, <1>12 DEF list

\* The list that Resolve is given.
LEMMA ResolveStep ==
    ASSUME RuntimeInv, NamesNext, resolved' = TRUE, resolved = FALSE
    PROVE  \E rest \in Seq(NotRun) : \E code \in Codes : Resolve(rest, code)
<1>1. PICK code \in Codes : \/ Resolve(<< >>, code)
                           \/ \E act \in Acts : Resolve(<<Unexecuted(act[1], act[2])>>, code)
    BY DEF NamesNext
<1>2. CASE Resolve(<< >>, code)
  <2>1. << >> \in Seq(NotRun)
    OBVIOUS
  <2> QED
    BY <2>1, <1>2
<1>3. ASSUME NEW act \in Acts, Resolve(<<Unexecuted(act[1], act[2])>>, code)
      PROVE  \E rest \in Seq(NotRun) : \E c \in Codes : Resolve(rest, c)
  <2>1. act[1] \in Programs /\ act[2] \in Names
    BY ActsNameInstructions
  <2>2. Unexecuted(act[1], act[2]) \in NotRun
    BY <2>1 DEF NotRun
  <2> HIDE DEF NotRun
  <2>3. <<Unexecuted(act[1], act[2])>> \in Seq(NotRun)
    BY <2>2
  <2> QED
    BY <2>3, <1>3
<1> QED
    BY <1>1, <1>2, <1>3

LEMMA ResolveNamesTheRaiser ==
    ASSUME RuntimeInv, NEW rest \in Seq(NotRun), NEW code \in Codes, Resolve(rest, code)
    PROVE  ErrorNamesTheRaiser'
<1> DEFINE failing == {i \in DOMAIN calls : calls[i].failed}
           raiser == calls[Max(failing)]
           named == <<raiser.program, code>>
<1>1. /\ calls' = calls /\ unwinding' = unwinding /\ frames = << >>
    BY DEF Resolve, Finished, cuVars, runtime
<1> SUFFICES ASSUME unwinding, raiser.depth = 1
             PROVE  error'.name = IF <<raiser.program, error'.code>> \in ErrorTables
                                  THEN <<raiser.program, error'.code>> ELSE NoError
    BY <1>1 DEF ErrorNamesTheRaiser
<1>2. unwinding = TRUE
    BY DEF RuntimeInv, CallType
<1>3. PICK t \in Nat : LastTopLevel(t) /\ calls[t].failed = TRUE
    BY <1>1, <1>2 DEF RuntimeInv, LastFailed
<1>4. /\ t \in 1 .. Len(calls) /\ calls[t].depth = 1
      /\ \A i \in 1 .. Len(calls) : i > t => calls[i].depth > 1
      /\ DOMAIN calls = 1 .. Len(calls) /\ Len(calls) \in Nat
    BY <1>3 DEF LastTopLevel, RuntimeInv, CallType
<1>5. t \in failing /\ failing \in SUBSET DOMAIN calls
    BY <1>3, <1>4
<1>6. failing \in SUBSET Nat /\ IsFiniteSet(failing)
    BY <1>5, CallIndices
<1>7. Max(failing) \in failing /\ t <= Max(failing)
    BY <1>5, <1>6, LargestExists
<1>8. Max(failing) = t
  <2> DEFINE m == Max(failing)
  <2>1. m \in 1 .. Len(calls) /\ t <= m /\ calls[m].depth = 1
    BY <1>4, <1>5, <1>7
  <2> HIDE DEF m
  <2>2. m = t
    BY <2>1, <1>4
  <2> QED
    BY <2>2 DEF m
<1>9. /\ TopLevel(calls) \in SUBSET Nat /\ IsFiniteSet(TopLevel(calls))
      /\ t \in TopLevel(calls) /\ \A x \in TopLevel(calls) : x <= t
  <2>1. TopLevel(calls) \in SUBSET DOMAIN calls
    BY DEF TopLevel
  <2>2. TopLevel(calls) \in SUBSET Nat /\ IsFiniteSet(TopLevel(calls))
    BY <2>1, CallIndices
  <2>3. t \in TopLevel(calls)
    BY <1>4 DEF TopLevel
  <2>4. ASSUME NEW x \in TopLevel(calls)
        PROVE  x <= t
    <3>1. x \in 1 .. Len(calls) /\ calls[x].depth = 1
        BY <1>4 DEF TopLevel
    <3> QED
        BY <3>1, <1>4
  <2> QED
    BY <2>2, <2>3, <2>4
<1>10. TopLevelOnes[Len(TopLevelOnes)] = t /\ Len(TopLevelOnes) \in 1 .. Cardinality(TopLevel(calls))
    BY <1>9, LargestIsLast DEF TopLevelOnes
<1>11. Len(TopLevelOnes) \in 1 .. Len(TopLevelOnes)
    BY <1>9, <1>10, FS_CardinalityType
<1>12. ExtractAll(rest)[Len(TopLevelOnes)] = Instruction(t)
    BY <1>10, <1>11, WholeList
<1>13. ExtractAll(rest)[Len(TopLevelOnes)].program = raiser.program
    BY <1>8, <1>12 DEF Instruction
<1>14. error' = [top |-> Len(TopLevelOnes), code |-> code,
                 name |-> ResolveError(ExtractAll(rest), Len(TopLevelOnes), code)]
    BY <1>2 DEF Resolve
<1> QED
    BY <1>13, <1>14 DEF ResolveError

-----------------------------------------------------------------------------
(* Names from the log *)

\* What the two ways to resolve a name leave of an entry.
LEMMA ResolvedByIdl ==
    ASSUME NEW list \in Seq(Entry), NEW k \in 1 .. Len(list)
    PROVE  /\ ResolveByIdl(list) \in Seq(Entry) /\ Len(ResolveByIdl(list)) = Len(list)
           /\ ResolveByIdl(list)[k].program = list[k].program
           /\ ResolveByIdl(list)[k] = list[k] \/ ResolveByIdl(list)[k].from = "idl"
<1> DEFINE new(j) == IF <<list[j].program, list[j].does>> \in Idl
                     THEN [list[j] EXCEPT !.name = list[j].does, !.from = "idl"] ELSE list[j]
<1>1. Len(list) \in Nat /\ DOMAIN list = 1 .. Len(list)
      /\ \A j \in 1 .. Len(list) : list[j] \in Entry
    OBVIOUS
<1>2. ASSUME NEW j \in 1 .. Len(list)
      PROVE  /\ new(j) \in Entry /\ new(j).program = list[j].program
             /\ new(j) = list[j] \/ new(j).from = "idl"
    BY <1>1 DEF Entry
<1>3. ResolveByIdl(list) = [j \in 1 .. Len(list) |-> new(j)]
    BY <1>1 DEF ResolveByIdl
<1> HIDE DEF new, Entry
<1>4. ResolveByIdl(list) \in Seq(Entry) /\ Len(ResolveByIdl(list)) = Len(list)
    BY <1>1, <1>2, <1>3
<1>5. ResolveByIdl(list)[k] = new(k)
    BY <1>3
<1> QED
    BY <1>2, <1>4, <1>5

Unnamed(list, p) == {i \in DOMAIN list : list[i].program = p /\ list[i].from = "none"}

LEMMA ResolvedByLogs ==
    ASSUME NEW list \in Seq(Entry), NEW k \in 1 .. Len(list)
    PROVE  /\ DOMAIN ResolveByLogs(list) = 1 .. Len(list)
           /\ ResolveByLogs(list)[k].program = list[k].program
           /\ ResolveByLogs(list)[k].does = list[k].does
           /\ ResolveByLogs(list)[k].call = list[k].call
           /\ list[k].from = "idl" => ResolveByLogs(list)[k].from = "idl"
           /\ LET place == Rank(Unnamed(list, list[k].program), k)
                  queue == NamesByProgram(list[k].program)
              IN  list[k].from = "none" /\ place <= Len(queue) =>
                      ResolveByLogs(list)[k].name = queue[place]
<1> DEFINE place(j) == Rank(Unnamed(list, list[j].program), j)
           queue(j) == NamesByProgram(list[j].program)
           fits(j) == list[j].from = "none" /\ place(j) <= Len(queue(j))
           new(j) == IF fits(j)
                     THEN [list[j] EXCEPT !.name = queue(j)[place(j)], !.from = "log"] ELSE list[j]
<1>1. Len(list) \in Nat /\ DOMAIN list = 1 .. Len(list) /\ list[k] \in Entry
    OBVIOUS
<1>2. ResolveByLogs(list) = [j \in DOMAIN list |-> new(j)]
    BY DEF ResolveByLogs, Unnamed
<1>3. ResolveByLogs(list)[k] = new(k)
  <2> HIDE DEF new
  <2> QED
    BY <1>1, <1>2
<1>4. CASE fits(k)
  <2>1. list[k].from = "none"
    BY <1>4
  <2>2. new(k) = [list[k] EXCEPT !.name = queue(k)[place(k)], !.from = "log"]
    BY <1>4
  <2> HIDE DEF new, fits, queue, place
  <2>3. /\ new(k).program = list[k].program /\ new(k).does = list[k].does
        /\ new(k).call = list[k].call /\ new(k).name = queue(k)[place(k)]
    BY <2>2, <1>1 DEF Entry
  <2> QED
    BY <2>1, <2>3, <1>1, <1>2, <1>3 DEF queue, place
<1>5. CASE ~fits(k)
  <2>1. new(k) = list[k]
    BY <1>5
  <2> HIDE DEF new
  <2> QED
    BY <2>1, <1>1, <1>2, <1>3, <1>5
<1> QED
    BY <1>4, <1>5

\* When all calls of a program logged their name, its queue has one of each, in order.
LEMMA QueueOfAllCalls ==
    ASSUME RuntimeInv, PicturesOf(calls), NEW p,
           \A i \in DOMAIN calls : calls[i].program = p => calls[i].named
    PROVE  LET C == {i \in DOMAIN calls : calls[i].program = p}
           IN  \A i \in C : /\ Rank(C, i) <= Len(NamesByProgram(p))
                            /\ NamesByProgram(p)[Rank(C, i)] = calls[i].does
<1> DEFINE C == {i \in DOMAIN calls : calls[i].program = p}
<1>1. /\ DOMAIN calls = 1 .. Len(calls) /\ DOMAIN invocations = 1 .. Len(calls)
      /\ \A i \in 1 .. Len(calls) : calls[i] \in Call /\ invocations[i] = Picture(calls[i])
  <2>1. calls \in Seq(Call) /\ invocations \in Seq(Pictures)
    BY DEF RuntimeInv, CallType, PicturesOf
  <2> HIDE DEF Pictures
  <2> QED
    BY <2>1 DEF PicturesOf
<1>2. \A i \in C : /\ invocations[i].program = p /\ invocations[i].name = calls[i].does
                    /\ invocations[i].name # NoName
  <2> SUFFICES ASSUME NEW i \in C
               PROVE  /\ invocations[i].program = p /\ invocations[i].name = calls[i].does
                      /\ invocations[i].name # NoName
    OBVIOUS
  <2>1. calls[i] \in Call /\ calls[i].named /\ calls[i].program = p
        /\ invocations[i] = Picture(calls[i])
    BY <1>1
  <2>2. calls[i].named = TRUE /\ calls[i].does \in Names
    BY <2>1 DEF Call
  <2>3. Picture(calls[i]).program = p /\ Picture(calls[i]).name = calls[i].does
    BY <2>1, <2>2, PictureFields
  <2> QED
    BY <2>1, <2>2, <2>3, NoNameIsNoName
<1>3. {i \in DOMAIN invocations : invocations[i].program = p /\ invocations[i].name # NoName} = C
  <2>1. \A i \in 1 .. Len(calls) : invocations[i].program = calls[i].program
    BY <1>1, PictureFields
  <2> QED
    BY <2>1, <1>1, <1>2
<1>4. C \in SUBSET Nat /\ IsFiniteSet(C)
    BY CallIndices
<1> HIDE DEF C
<1>5. NamesByProgram(p) = [j \in DOMAIN InOrder(C) |-> invocations[InOrder(C)[j]].name]
    BY <1>3 DEF NamesByProgram
<1>6. /\ DOMAIN InOrder(C) = 1 .. Cardinality(C) /\ Cardinality(C) \in Nat
      /\ \A x \in C : Rank(C, x) \in 1 .. Cardinality(C) /\ InOrder(C)[Rank(C, x)] = x
    BY <1>4, InOrderEnumerates
<1>7. Len(NamesByProgram(p)) = Cardinality(C)
    BY <1>5, <1>6
<1>8. \A i \in C : /\ Rank(C, i) <= Len(NamesByProgram(p))
                    /\ NamesByProgram(p)[Rank(C, i)] = calls[i].does
    BY <1>2, <1>5, <1>6, <1>7
<1> QED
    BY <1>8 DEF C

LEMMA AlignedAreOwn ==
    ASSUME RuntimeInv, PicturesOf(calls), NEW rest \in Seq(NotRun), NEW code, Resolve(rest, code),
           NEW p \in Programs, Aligned(p)', NEW k \in Of(p)'
    PROVE  instructions'[k].name = instructions'[k].does
<1> DEFINE listed == ExtractAll(rest)
           list == ResolveByIdl(listed)
           P == Unnamed(list, p)
           C == {i \in DOMAIN calls : calls[i].program = p}
<1>1. instructions' = ResolveByLogs(list) /\ calls' = calls
    BY DEF Resolve, cuVars, runtime
<1>2. /\ listed \in Seq(Entry)
      /\ \A j \in 1 .. Len(listed) :
            \/ listed[j].call = 0 /\ listed[j].from = "none"
            \/ \E i \in DOMAIN calls : listed[j] = Instruction(i)
      /\ \A i \in DOMAIN calls : calls[i].program \notin LookedUp =>
            \E j \in 1 .. Len(listed) : listed[j] = Instruction(i)
    BY WholeList
<1>3. Len(listed) \in Nat
    BY <1>2
<1> HIDE DEF listed
<1>4. /\ list \in Seq(Entry) /\ Len(list) = Len(listed)
      /\ \A j \in 1 .. Len(listed) :
            /\ list[j].program = listed[j].program
            /\ list[j] = listed[j] \/ list[j].from = "idl"
  <2>1. ASSUME NEW j \in 1 .. Len(listed)
        PROVE  /\ list \in Seq(Entry) /\ Len(list) = Len(listed)
               /\ list[j].program = listed[j].program
               /\ list[j] = listed[j] \/ list[j].from = "idl"
    BY <1>2, ResolvedByIdl
  <2>2. k \in DOMAIN ResolveByLogs(list)
    BY <1>1 DEF Of
  <2>3. k \in 1 .. Len(listed)
    <3>1. DOMAIN listed = 1 .. Len(listed)
        BY <1>2
    <3>2. DOMAIN ResolveByLogs(list) = DOMAIN list /\ DOMAIN list = DOMAIN listed
        BY DEF ResolveByLogs, ResolveByIdl
    <3> QED
        BY <3>1, <3>2, <2>2
  <2> QED
    BY <2>1, <2>3
<1> HIDE DEF list
<1>5. /\ DOMAIN list = 1 .. Len(list) /\ Len(list) \in Nat
      /\ DOMAIN instructions' = 1 .. Len(list)
      /\ \A j \in 1 .. Len(list) :
            /\ instructions'[j].program = list[j].program
            /\ instructions'[j].does = list[j].does
            /\ instructions'[j].call = list[j].call
            /\ list[j].from = "idl" => instructions'[j].from = "idl"
  <2>1. DOMAIN list = 1 .. Len(list) /\ Len(list) \in Nat
    BY <1>4
  <2>2. ASSUME NEW j \in 1 .. Len(list)
        PROVE  /\ DOMAIN instructions' = 1 .. Len(list)
               /\ instructions'[j].program = list[j].program
               /\ instructions'[j].does = list[j].does
               /\ instructions'[j].call = list[j].call
               /\ list[j].from = "idl" => instructions'[j].from = "idl"
    BY <1>1, <1>4, ResolvedByLogs
  <2>3. k \in 1 .. Len(list)
    <3>1. k \in DOMAIN ResolveByLogs(list)
        BY <1>1 DEF Of
    <3>2. DOMAIN ResolveByLogs(list) = DOMAIN list
        BY DEF ResolveByLogs
    <3> QED
        BY <3>1, <3>2, <2>1
  <2> QED
    BY <2>1, <2>2, <2>3
\* Each instruction of p is as it was listed, and stands for a call of p.
<1>6. ASSUME NEW j \in 1 .. Len(list), list[j].program = p
      PROVE  /\ list[j] = listed[j] /\ list[j].from = "none"
             /\ list[j].call \in C /\ list[j] = Instruction(list[j].call)
  <2>1. j \in Of(p)'
    BY <1>5, <1>6 DEF Of
  <2>2. instructions'[j].from # "idl" /\ instructions'[j].call # 0
    BY <2>1 DEF Aligned
  <2>3. list[j] = listed[j] /\ list[j].call # 0
    BY <2>2, <1>4, <1>5
  <2>4. PICK i \in DOMAIN calls : list[j] = Instruction(i)
    BY <2>3, <1>2, <1>4
  <2>5. list[j].call = i /\ calls[i].program = p /\ list[j].from = "none"
    BY <2>4, <1>6 DEF Instruction
  <2> QED
    BY <2>3, <2>4, <2>5
<1>7. /\ P = {j \in 1 .. Len(list) : list[j].program = p}
      /\ P \in SUBSET Nat /\ IsFiniteSet(P)
  <2>1. P = {j \in 1 .. Len(list) : list[j].program = p}
    BY <1>5, <1>6 DEF Unnamed
  <2>2. IsFiniteSet(1 .. Len(list))
    <3>1. 1 \in Int /\ Len(list) \in Int
        BY <1>5
    <3> QED
        BY <3>1, FS_Interval
  <2> HIDE DEF P
  <2>3. IsFiniteSet(P)
    BY <2>1, <2>2, FS_Subset
  <2> QED
    BY <2>1, <2>3, <1>5
<1>8. C \in SUBSET Nat
    BY CallIndices
<1> DEFINE g == [j \in P |-> list[j].call]
<1> HIDE DEF P, C
<1>9. g \in [P -> C]
    BY <1>6, <1>7
<1>10. ASSUME NEW i \in P, NEW j \in P, i < j
       PROVE  g[i] < g[j]
  <2>1. i \in Of(p)' /\ j \in Of(p)'
    BY <1>5, <1>7 DEF Of
  <2>2. instructions'[i].call < instructions'[j].call
    BY <2>1, <1>10 DEF Aligned
  <2> QED
    BY <2>2, <1>5, <1>7
<1>11. ASSUME NEW c \in C
       PROVE  \E j \in P : g[j] = c
  <2>1. c \in DOMAIN calls /\ calls[c].program = p /\ p \notin LookedUp
    BY DEF C, Aligned
  <2>2. PICK j \in 1 .. Len(listed) : listed[j] = Instruction(c)
    BY <2>1, <1>2
  <2>3. listed[j].program = p /\ listed[j].call = c
    BY <2>1, <2>2 DEF Instruction
  <2>4. j \in P /\ list[j] = listed[j]
    BY <2>3, <1>4, <1>6, <1>7
  <2> QED
    BY <2>3, <2>4
<1>12. k \in P
    BY <1>5, <1>7 DEF Of
<1>13. Rank(P, k) = Rank(C, g[k]) /\ g[k] \in C /\ g[k] = list[k].call
  <2>1. \A i, j \in P : i < j => g[i] < g[j]
    BY <1>10
  <2>2. \A c \in C : \E j \in P : g[j] = c
    BY <1>11
  <2>3. g[k] \in C /\ g[k] = list[k].call
    BY <1>9, <1>12
  <2> HIDE DEF g
  <2>4. Rank(P, k) = Rank(C, g[k])
    <3>1. P \in SUBSET Nat /\ IsFiniteSet(P)
        BY <1>7
    <3> QED
        BY ZenonT(30), <3>1, <2>1, <2>2, <1>8, <1>9, <1>12, SameRank
  <2> QED
    BY <2>3, <2>4
<1>14. \A i \in C : /\ Rank(C, i) <= Len(NamesByProgram(p))
                     /\ NamesByProgram(p)[Rank(C, i)] = calls[i].does
  <2>1. \A i \in DOMAIN calls : calls[i].program = p => calls[i].named
    BY <1>1 DEF Aligned
  <2> QED
    BY <2>1, QueueOfAllCalls DEF C
<1>15. /\ k \in 1 .. Len(list) /\ list[k].program = p /\ list[k].from = "none"
       /\ list[k] = Instruction(list[k].call)
    BY <1>6, <1>7, <1>12
<1>16. instructions'[k].name = NamesByProgram(p)[Rank(P, k)]
  <2>1. Rank(Unnamed(list, list[k].program), k) <= Len(NamesByProgram(list[k].program))
    BY <1>13, <1>14, <1>15 DEF P
  <2> QED
    BY <2>1, <1>1, <1>4, <1>15, ResolvedByLogs DEF P
<1>17. instructions'[k].does = calls[list[k].call].does
    BY <1>5, <1>15 DEF Instruction
<1> QED
    BY <1>13, <1>14, <1>16, <1>17

-----------------------------------------------------------------------------
(* What resolving shows, and keeps *)

\* Once resolved, nothing changes.
LEMMA ResolvedStays ==
    ASSUME resolved = TRUE, [NamesNext]_namesVars
    PROVE  UNCHANGED namesVars
BY DEF NamesNext, Resolve

ResolvedType == resolved \in BOOLEAN
RaiserIsNamed == ResolvedType /\ ErrorNamesTheRaiser

\* Before it is resolved, nothing is claimed.
LEMMA NothingResolved ==
    ASSUME resolved = FALSE
    PROVE  ErrorNamesTheRaiser /\ AlignedNamesAreOwn
BY DEF ErrorNamesTheRaiser, AlignedNamesAreOwn

LEMMA ResolvedStep ==
    ASSUME ResolvedType, [NamesNext]_namesVars
    PROVE  \/ resolved' = FALSE
           \/ UNCHANGED namesVars
           \/ resolved = FALSE /\ resolved' = TRUE /\ NamesNext
<1>1. CASE resolved = TRUE
    BY <1>1, ResolvedStays
<1>2. CASE resolved = FALSE
  <2>1. CASE UNCHANGED namesVars
    BY <2>1
  <2>2. CASE ~resolved /\ Execute /\ UNCHANGED <<instructions, error, resolved>>
    BY <2>2, <1>2
  <2>3. CASE \E code \in Codes :
                \/ Resolve(<< >>, code)
                \/ \E act \in Acts : Resolve(<<Unexecuted(act[1], act[2])>>, code)
    <3>1. NamesNext
        BY <2>3 DEF NamesNext
    <3>2. resolved' = TRUE
        BY <2>3 DEF Resolve
    <3> QED
        BY <3>1, <3>2, <1>2
  <2> QED
    BY <2>1, <2>2, <2>3 DEF NamesNext
<1> QED
    BY <1>1, <1>2 DEF ResolvedType

LEMMA ResolvedTypeKept ==
    ASSUME ResolvedType, [NamesNext]_namesVars
    PROVE  ResolvedType'
<1>1. CASE UNCHANGED namesVars
    BY <1>1 DEF ResolvedType, namesVars
<1>2. CASE ~UNCHANGED namesVars
    BY <1>2, ResolvedStep DEF ResolvedType
<1> QED
    BY <1>1, <1>2

\* An error that the failed top level instruction raised itself is named by the IDL
\* of its own program or by none, after any number of calls, whatever they nested.
THEOREM ErrorsNameTheRaiser == NamesSpec => []ErrorNamesTheRaiser
<1>1. NamesInit => RaiserIsNamed
    BY NothingResolved DEF NamesInit, RaiserIsNamed, ResolvedType
<1>2. RuntimeInv /\ RaiserIsNamed /\ [NamesNext]_namesVars => RaiserIsNamed'
  <2> SUFFICES ASSUME RuntimeInv, RaiserIsNamed, [NamesNext]_namesVars
               PROVE  RaiserIsNamed'
    OBVIOUS
  <2>1. ResolvedType'
    BY ResolvedTypeKept DEF RaiserIsNamed
  <2>2. CASE resolved' = FALSE
    BY <2>1, <2>2 DEF RaiserIsNamed, ErrorNamesTheRaiser
  <2>3. CASE UNCHANGED namesVars
    <3>1. /\ resolved' = resolved /\ unwinding' = unwinding /\ calls' = calls
          /\ error' = error
        BY <2>3 DEF namesVars, cuVars, runtime
    <3>2. ErrorNamesTheRaiser
        BY DEF RaiserIsNamed
    <3> QED
        BY Zenon, <2>1, <3>1, <3>2 DEF RaiserIsNamed, ErrorNamesTheRaiser
  <2>4. CASE resolved = FALSE /\ resolved' = TRUE /\ NamesNext
    <3>1. PICK rest \in Seq(NotRun) : \E code \in Codes : Resolve(rest, code)
        BY <2>4, ResolveStep
    <3>2. ErrorNamesTheRaiser'
        BY <3>1, ResolveNamesTheRaiser
    <3> QED
        BY <2>1, <3>2 DEF RaiserIsNamed
  <2> QED
    BY <2>2, <2>3, <2>4, ResolvedStep DEF RaiserIsNamed
<1>3. RaiserIsNamed => ErrorNamesTheRaiser
    BY DEF RaiserIsNamed
<1> QED
    BY <1>1, <1>2, <1>3, RuntimeInvariant, PTL DEF NamesSpec

NamedInv == ResolvedType /\ AlignedNamesAreOwn

\* With a complete log in which no message reads as a status line, the instructions of
\* a program that the list has in execution order get the names of their own calls,
\* whatever other programs log in between.
THEOREM AlignedNames ==
    ASSUME MessagesArePlain
    PROVE  NamesSpec => []AlignedNamesAreOwn
<1>1. NamesInit => NamedInv
    BY NothingResolved DEF NamesInit, NamedInv, ResolvedType
<1>2. RuntimeInv /\ Pictured /\ NamedInv /\ [NamesNext]_namesVars => NamedInv'
  <2> SUFFICES ASSUME RuntimeInv, Pictured, NamedInv, [NamesNext]_namesVars
               PROVE  NamedInv'
    OBVIOUS
  <2>1. ResolvedType'
    BY ResolvedTypeKept DEF NamedInv
  <2>2. CASE resolved' = FALSE
    BY <2>1, <2>2 DEF NamedInv, AlignedNamesAreOwn
  <2>3. CASE UNCHANGED namesVars
    <3>1. /\ resolved' = resolved /\ truncated' = truncated /\ calls' = calls
          /\ instructions' = instructions
        BY <2>3 DEF namesVars, cuVars, runtime
    <3>2. AlignedNamesAreOwn
        BY DEF NamedInv
    <3> QED
        BY Zenon, <2>1, <3>1, <3>2 DEF NamedInv, AlignedNamesAreOwn, Aligned, Of
  <2>4. CASE resolved = FALSE /\ resolved' = TRUE /\ NamesNext
    <3>1. PICK rest \in Seq(NotRun) : \E code \in Codes : Resolve(rest, code)
        BY <2>4, ResolveStep
    <3>2. PICK code \in Codes : Resolve(rest, code)
        BY <3>1
    <3>3. truncated' = truncated
        BY <3>2 DEF Resolve, cuVars
    <3>4. AlignedNamesAreOwn'
      <4> SUFFICES ASSUME ~truncated', NEW p \in Programs, Aligned(p)', NEW k \in Of(p)'
                   PROVE  instructions'[k].name = instructions'[k].does
        BY DEF AlignedNamesAreOwn
      <4>1. ~truncated
        BY Zenon, <3>3
      <4>2. PicturesOf(calls)
        BY <4>1 DEF Pictured
      <4> QED
        BY <4>2, <3>2, AlignedAreOwn
    <3> QED
        BY <2>1, <3>4 DEF NamedInv
  <2> QED
    BY <2>2, <2>3, <2>4, ResolvedStep DEF NamedInv
<1>3. NamedInv => AlignedNamesAreOwn
    BY DEF NamedInv
<1> QED
    BY <1>1, <1>2, <1>3, RuntimeInvariant, PicturedInvariant, PTL DEF NamesSpec

=============================================================================
