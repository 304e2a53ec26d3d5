---------------------------- MODULE NameResolution ----------------------------
(***************************************************************************)
(* How the worker names the instructions of a transaction and its error    *)
(* (pipeline.rs), from the IDL registry and from the names in the logs.    *)
(* The transaction executes as in CuAttribution; when it is over, the      *)
(* parser lists its instructions, top level ones first, and the worker     *)
(* resolves them in one step: it holds the lock of the IDLs throughout.    *)
(*                                                                         *)
(* An instruction's discriminator stands for what it does; the IDLs name   *)
(* the instructions of Idl and the error codes of ErrorTables.             *)
(***************************************************************************)
EXTENDS CuAttribution

CONSTANTS
    Idl,             \* <<program, what it does>> that a registered IDL names
    LookedUp,        \* programs whose address is in a lookup table
    Codes,           \* custom error codes
    ErrorTables,     \* <<program, code>> that a registered IDL names
    NoError

ASSUME IdlNamesInstructions == Idl \subseteq Programs \X Names
ASSUME ErrorTablesNameCodes == ErrorTables \subseteq Programs \X Codes
ASSUME NoErrorIsNoError == NoError \notin Programs \X Codes
ASSUME LookedUpArePrograms == LookedUp \subseteq Programs

VARIABLES
    instructions,    \* Transaction.instructions, resolved
    error,           \* [top, code, name]: the failing top level instruction's index
    resolved
namesVars == <<cuVars, instructions, error, resolved>>

-----------------------------------------------------------------------------
(* parse_transaction *)

Instruction(i) == [call |-> i, program |-> calls[i].program, does |-> calls[i].does,
                   name |-> NoName, from |-> "none"]
Unexecuted(p, n) == [call |-> 0, program |-> p, does |-> n, name |-> NoName, from |-> "none"]

TopLevelOnes == InOrder(TopLevel(calls))
\* A program that the message does not list by itself cannot be named by index.
InnerOnes == InOrder({i \in DOMAIN calls :
                         calls[i].depth > 1 /\ calls[i].program \notin LookedUp})

\* Instructions behind a failed one are listed and never executed.
ExtractAll(rest) ==
    [k \in DOMAIN TopLevelOnes |-> Instruction(TopLevelOnes[k])]
    \o rest \o [k \in DOMAIN InnerOnes |-> Instruction(InnerOnes[k])]

-----------------------------------------------------------------------------
(* run_processing_worker *)

ResolveByIdl(list) ==
    [k \in DOMAIN list |->
        IF <<list[k].program, list[k].does>> \in Idl
        THEN [list[k] EXCEPT !.name = list[k].does, !.from = "idl"] ELSE list[k]]

NamesByProgram(p) ==
    LET named == InOrder({i \in DOMAIN invocations :
                            invocations[i].program = p /\ invocations[i].name # NoName})
    IN  [j \in DOMAIN named |-> invocations[named[j]].name]

QueueSharedByAll(list) ==
    LET queue == InOrder({i \in DOMAIN invocations : invocations[i].name # NoName})
        place(k) == Rank({i \in DOMAIN list : list[i].from = "none"}, k)
    IN  [k \in DOMAIN list |->
            IF list[k].from = "none" /\ place(k) <= Len(queue)
            THEN [list[k] EXCEPT !.name = invocations[queue[place(k)]].name, !.from = "log"]
            ELSE list[k]]

\* One queue of logged names per program; each instruction the IDLs left
\* unnamed takes the next of its program's.
ResolveByLogs(list) ==
    LET place(k) == Rank({i \in DOMAIN list :
                        list[i].program = list[k].program /\ list[i].from = "none"}, k)
        queue(k) == NamesByProgram(list[k].program)
    IN  [k \in DOMAIN list |->
            IF list[k].from = "none" /\ place(k) <= Len(queue(k))
            THEN [list[k] EXCEPT !.name = queue(k)[place(k)], !.from = "log"] ELSE list[k]]

ResolveErrorOfTheFirst(list, top, code) ==
    IF <<list[1].program, code>> \in ErrorTables THEN <<list[1].program, code>> ELSE NoError

\* The code is looked up in the IDL of the top level instruction that failed.
ResolveError(list, top, code) ==
    IF <<list[top].program, code>> \in ErrorTables THEN <<list[top].program, code>> ELSE NoError

Resolve(rest, code) ==
    /\ ~resolved /\ Finished
    /\ rest # << >> => unwinding
    /\ resolved' = TRUE
    /\ instructions' = ResolveByLogs(ResolveByIdl(ExtractAll(rest)))
    /\ error' = IF unwinding
                THEN [top |-> Len(TopLevelOnes), code |-> code,
                      name |-> ResolveError(ExtractAll(rest), Len(TopLevelOnes), code)]
                ELSE [top |-> 0, code |-> code, name |-> NoError]
    /\ UNCHANGED cuVars

NamesInit == CuInit /\ instructions = << >> /\ error = [top |-> 0] /\ resolved = FALSE

NamesNext ==
    \/ ~resolved /\ Execute /\ UNCHANGED <<instructions, error, resolved>>
    \/ \E code \in Codes :
        \/ Resolve(<< >>, code)
        \/ \E act \in Acts : Resolve(<<Unexecuted(act[1], act[2])>>, code)

NamesSpec == NamesInit /\ [][NamesNext]_namesVars

-----------------------------------------------------------------------------
(* Properties *)

\* The instructions of a program whose order in the list is that of execution.
Of(p) == {k \in DOMAIN instructions : instructions[k].program = p}
Aligned(p) ==
    /\ \A j, k \in Of(p) : j < k => instructions[j].call < instructions[k].call
    /\ \A k \in Of(p) : instructions[k].from # "idl" /\ instructions[k].call # 0
    /\ p \notin LookedUp
    /\ \A i \in DOMAIN calls : calls[i].program = p => calls[i].named

\* With a complete log, no IDL, and every call of a program named, the names
\* of its instructions are their own if the list has them in execution order,
\* whatever other programs do in between.
AlignedNamesAreOwn ==
    resolved /\ ~truncated =>
        \A p \in Programs : Aligned(p) =>
            \A k \in Of(p) : instructions[k].name = instructions[k].does

\* An error that the failed top level instruction raised itself is named by the IDL of
\* its program, or by none, whatever else the transaction called before and nested.
\* The index in the metadata is of the message's list; the worker reads it in the
\* parser's (pipeline.rs:218-237).  An error of a nested call is not claimed: it is
\* looked up in the IDL of the outer one.
ErrorNamesTheRaiser ==
    resolved /\ unwinding =>
        LET raiser == calls[Max({i \in DOMAIN calls : calls[i].failed})]
            named == <<raiser.program, error.code>>
        IN  raiser.depth = 1 => error.name = IF named \in ErrorTables THEN named ELSE NoError
=============================================================================
