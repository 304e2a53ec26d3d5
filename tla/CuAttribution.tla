----------------------------- MODULE CuAttribution -----------------------------
(***************************************************************************)
(* The log parser of cu_attribution.rs, run beside the Solana runtime that *)
(* writes the logs it reads.  The runtime is external: a transaction calls *)
(* programs, which call others, and each call logs its beginning, perhaps  *)
(* its name and other messages, what it consumed (native programs do not)  *)
(* and its end.  A step is one log line, which the parser takes at once:   *)
(* parse_logs is a fold over the lines.                                    *)
(*                                                                         *)
(* Compute units are inclusive of nested calls, and a failed call fails    *)
(* all its callers.  The runtime's log has a limit: a line that does not   *)
(* fit is lost, and a later one is kept only if it is shorter.             *)
(***************************************************************************)
EXTENDS SequencesExt, Enumerations

CONSTANTS
    Programs,
    Native,          \* programs that log no consumption and cost NATIVE_PROGRAM_CU
    Names,           \* instruction names
    Acts,            \* <<program, name>>: what a program can be called for
    Messages,        \* what programs log otherwise, as the parser reads it
    OwnUnits,        \* what the i-th call consumes without those it makes
    MaxDepth, MaxExtra,   \* bounds: nesting, lines logged at will
    MayTruncate, NoName

Line == [kind : {"invoke"}, program : Programs, depth : Nat \ {0}]
        \cup [kind : {"name"}, name : Names] \cup [kind : {"consumed"}, cu : Nat]
        \cup [kind : {"success", "failed", "other"}]

ASSUME NativeArePrograms == Native \subseteq Programs
ASSUME ActsNameInstructions == Acts \subseteq Programs \X Names
ASSUME MessagesAreLines == Messages \subseteq Line
ASSUME OwnUnitsAreNat == OwnUnits \in Seq(Nat) /\ MaxDepth \in Nat /\ MaxExtra \in Nat
ASSUME MayTruncateIsBoolean == MayTruncate \in BOOLEAN
ASSUME NoNameIsNoName == NoName \notin Names

VARIABLES
    calls,           \* what really happened: every call in order
    frames,          \* the calls still open, outermost first, by index
    unwinding,       \* a call has failed, and so will all its callers
    extra,           \* lines logged at will so far
    truncated,       \* a line has been lost
    room,            \* every line kept from now on is shorter than this
    invocations,     \* parse_logs: what it has pushed so far
    stack            \* parse_logs: its stack of indices

runtime == <<calls, frames, unwinding, extra>>
parser == <<invocations, stack>>
cuVars == <<runtime, truncated, room, parser>>

NATIVE_PROGRAM_CU == 150
NoUnits == -1
Unlimited == 100

CuInit ==
    /\ calls = << >> /\ frames = << >> /\ unwinding = FALSE /\ extra = 0
    /\ truncated = FALSE /\ room = Unlimited
    /\ invocations = << >> /\ stack = << >>

-----------------------------------------------------------------------------
(* parse_logs *)

TakeInvoke(line) ==
    /\ invocations' = Append(invocations,
          [program |-> line.program, depth |-> line.depth, cu |-> NoUnits,
           failed |-> FALSE, name |-> NoName])
    /\ stack' = Append(stack, Len(invocations) + 1)

\* The first name wins.
TakeName(line) ==
    /\ invocations' = IF stack = << >> THEN invocations
                      ELSE [invocations EXCEPT ![Last(stack)].name =
                               IF @ = NoName THEN line.name ELSE @]
    /\ UNCHANGED stack

TakeConsumed(line) ==
    /\ invocations' = IF stack = << >> THEN invocations
                      ELSE [invocations EXCEPT ![Last(stack)].cu = line.cu]
    /\ UNCHANGED stack

\* Neither end looks at the program it names: the top of the stack goes.
TakeSuccess(line) ==
    /\ stack' = IF stack = << >> THEN stack ELSE Front(stack)
    /\ UNCHANGED invocations

FailedUnmarked(line) ==
    /\ stack' = IF stack = << >> THEN stack ELSE Front(stack)
    /\ UNCHANGED invocations

TakeFailed(line) ==
    /\ invocations' = IF stack = << >> THEN invocations
                      ELSE [invocations EXCEPT ![Last(stack)].failed = TRUE]
    /\ stack' = IF stack = << >> THEN stack ELSE Front(stack)

Take(line) ==
    \/ line.kind = "invoke" /\ TakeInvoke(line)
    \/ line.kind = "name" /\ TakeName(line)
    \/ line.kind = "consumed" /\ TakeConsumed(line)
    \/ line.kind = "success" /\ TakeSuccess(line)
    \/ line.kind = "failed" /\ TakeFailed(line)
    \/ line.kind = "other" /\ UNCHANGED parser

\* The length of a line that names a program, as far as lengths decide: native
\* programs have the shortest names.  Other texts may have any length.
Length(line, p) ==
    (CASE line.kind = "success" -> 16 [] line.kind = "invoke" -> 19 [] OTHER -> 40)
    + IF p \in Native THEN 32 ELSE 44

\* The log collector keeps a line, or loses it for its length.
LogText(line) ==
    \/ Take(line) /\ UNCHANGED <<truncated, room>>
    \/ MayTruncate /\ truncated' = TRUE /\ UNCHANGED <<room, parser>>

Log(line, p) ==
    \/ Length(line, p) < room /\ Take(line) /\ UNCHANGED <<truncated, room>>
    \/ /\ MayTruncate
       /\ truncated' = TRUE
       /\ room' = Min({room, Length(line, p)})
       /\ UNCHANGED parser

-----------------------------------------------------------------------------
(* The runtime *)

Top == Last(frames)
Running == frames # << >> /\ calls[Top].state = "running"

Invoke(p, n) ==
    /\ Len(calls) < Len(OwnUnits) /\ Len(frames) < MaxDepth
    /\ frames # << >> => Running /\ calls[Top].program \notin Native
    /\ ~unwinding
    /\ calls' = Append(calls,
          [program |-> p, depth |-> Len(frames) + 1, does |-> n, named |-> FALSE,
           state |-> "running", failed |-> FALSE,
           cu |-> IF p \in Native THEN NATIVE_PROGRAM_CU ELSE OwnUnits[Len(calls) + 1]])
    /\ frames' = Append(frames, Len(calls) + 1)
    /\ Log([kind |-> "invoke", program |-> p, depth |-> Len(frames) + 1], p)
    /\ UNCHANGED <<unwinding, extra>>

\* A program logs its instruction's name before anything else, or never.
LogName ==
    /\ Running /\ calls[Top].program \notin Native
    /\ Top = Len(calls) /\ ~calls[Top].named /\ ~unwinding
    /\ calls' = [calls EXCEPT ![Top].named = TRUE]
    /\ LogText([kind |-> "name", name |-> calls[Top].does])
    /\ UNCHANGED <<frames, unwinding, extra>>

\* Later, it may log what it wants: a message, or the name of a part of its work.
LogMessage(line) ==
    /\ Running /\ calls[Top].program \notin Native /\ ~unwinding
    /\ line.kind = "name" => calls[Top].named
    /\ extra < MaxExtra
    /\ extra' = extra + 1
    /\ LogText(line)
    /\ UNCHANGED <<calls, frames, unwinding>>

LogConsumed ==
    /\ Running /\ calls[Top].program \notin Native
    /\ calls' = [calls EXCEPT ![Top].state = "metered"]
    /\ Log([kind |-> "consumed", cu |-> calls[Top].cu], calls[Top].program)
    /\ UNCHANGED <<frames, unwinding, extra>>

\* The call is over, and its consumption counts for its caller too.
Return(failed) ==
    /\ frames # << >>
    /\ calls[Top].state = "metered" \/ (Running /\ calls[Top].program \in Native)
    /\ unwinding => failed
    /\ calls' = [i \in DOMAIN calls |->
          CASE i = Top -> [calls[i] EXCEPT !.state = "over", !.failed = failed]
            [] Len(frames) > 1 /\ i = frames[Len(frames) - 1] ->
                   [calls[i] EXCEPT !.cu = @ + calls[Top].cu]
            [] OTHER -> calls[i]]
    /\ frames' = Front(frames)
    /\ unwinding' = failed
    /\ Log([kind |-> IF failed THEN "failed" ELSE "success"], calls[Top].program)
    /\ UNCHANGED extra

Execute ==
    \/ \E act \in Acts : Invoke(act[1], act[2])
    \/ LogName
    \/ \E line \in Messages : LogMessage(line)
    \/ LogConsumed
    \/ \E failed \in BOOLEAN : Return(failed)

-----------------------------------------------------------------------------
(* The profile *)

TopLevel(s) == {i \in DOMAIN s : s[i].depth = 1}

\* computeUnitsConsumed of the transaction's meta.
ReportedTotal == SumFunction([i \in TopLevel(calls) |-> calls[i].cu])

\* A call without a consumption counts as a native one.
UnitsShown(c) == IF c.cu = NoUnits THEN NATIVE_PROGRAM_CU ELSE c.cu
ReconstructedTotal == SumFunction([i \in TopLevel(invocations) |-> UnitsShown(invocations[i])])

VerifiedAtMost == ReconstructedTotal <= ReportedTotal
Verified == ReconstructedTotal = ReportedTotal

\* top_level_with_children_sorted_by_cu: the calls grouped under a top level one.
Children(i) ==
    {j \in DOMAIN invocations :
        j > i /\ \A k \in i + 1 .. j : invocations[k].depth > 1}

-----------------------------------------------------------------------------
(* Properties *)

Finished == calls # << >> /\ frames = << >>
NestedIsListed == Len(frames) > 1 => Last(frames) \in Children(Head(frames))

\* A complete log of a finished transaction gives each call its own program,
\* depth, consumption and verdict, native ones none, and the badge says so; on
\* the way, a nested call is listed under the top level call that is open.
CompleteIsExact ==
    /\ ~truncated => NestedIsListed
    /\ ~truncated /\ Finished =>
        /\ Len(invocations) = Len(calls)
        /\ \A i \in DOMAIN calls :
            /\ invocations[i].program = calls[i].program
            /\ invocations[i].depth = calls[i].depth
            /\ invocations[i].failed = calls[i].failed
            /\ invocations[i].cu = IF calls[i].program \in Native THEN NoUnits ELSE calls[i].cu
        /\ Verified

\* docs/cu-attribution.md:85: lines lost to truncation show as a total that does
\* not add up.  A verified profile has every top level call, with its own units.
VerifiedIsExact ==
    Finished /\ Verified =>
        /\ Cardinality(TopLevel(invocations)) = Cardinality(TopLevel(calls))
        /\ \A i \in DOMAIN InOrder(TopLevel(calls)) :
            LET shown == invocations[InOrder(TopLevel(invocations))[i]]
                real == calls[InOrder(TopLevel(calls))[i]]
            IN  shown.program = real.program /\ (shown.cu = real.cu \/ real.program \in Native)

=============================================================================
