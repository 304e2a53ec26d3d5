------------------------------ MODULE ExplainTab ------------------------------
(***************************************************************************)
(* The Explain tab of the dashboard: the bytes of a call, their colours,   *)
(* the label of the byte under the cursor and the decoded arguments        *)
(* (tx_explain_lines in ui.rs), with the IDL that the registry has.        *)
(*                                                                         *)
(* The caller is external: it encodes a call argument by argument as the   *)
(* published IDL says (in Borsh), and may leave out the last bytes or put  *)
(* some behind.  A Codama IDL lists the constant arguments that make up    *)
(* the discriminator among the others.                                     *)
(***************************************************************************)
EXTENDS IdlDecode

CONSTANTS
    Published,      \* IDLs, as JSON
    MaxCut, MaxNest, MaxItems

VARIABLES
    raw,        \* the published IDL
    entry,      \* what the registry has of it, or Null
    call,       \* the instruction called, as the program knows it, or Null
    data,       \* its bytes
    written,    \* the arguments encoded: [name, at, len, readable]
    stage       \* "published", "registered", "calling" or "called"
vars == <<raw, entry, call, data, written, stage>>

-----------------------------------------------------------------------------
(* The caller *)

\* The values of a type: their bytes, and whether they are within the decoder's
\* scope (idl_decode.rs:1-3).
RECURSIVE Encodings(_, _, _, _)

EncodeAll(list, types, depth, nest) ==
    LET next(done, type) ==
            {[bytes |-> a.bytes \o b.bytes, readable |-> a.readable /\ b.readable] :
                a \in done, b \in Encodings(type, types, depth, nest)}
    IN  FoldLeft(next, {[bytes |-> << >>, readable |-> TRUE]}, list)

Prefixed(prefix, values) == {[v EXCEPT !.bytes = prefix \o @] : v \in values}

Encodings(type, types, depth, nest) ==
    CASE type.form = "scalar" ->
            LET samples ==
                    IF type.name \in {"string", "bytes"}
                    THEN {Little(n, 4) \o [k \in 1 .. n |-> 7] : n \in 0 .. MaxItems}
                    ELSE IF type.name = "bool" THEN {<<0>>, <<1>>}
                    ELSE {[k \in 1 .. ScalarWidth[type.name] |-> IF k = 1 THEN 5 ELSE 0]}
            IN  {[bytes |-> b, readable |-> depth <= MaxDepth] : b \in samples}
      [] type.form = "defined" ->
            LET t == types[SelectInSeq(types, LAMBDA u : u.name = type.name)]
            IN  (CASE t.body = "struct" -> EncodeAll(t.fields, types, depth + 1, nest)
                  [] t.body = "enum" ->
                        UNION {Prefixed(<<v - 1>>, EncodeAll(t.variants[v], types, depth + 1, nest)) :
                                v \in DOMAIN t.variants}
                  [] t.body = "tuple" ->
                        {[v EXCEPT !.readable = FALSE] : v \in EncodeAll(t.of, types, depth + 1, nest)})
      [] type.form = "vec" ->
            UNION {Prefixed(Little(n, PrefixSize(type.prefix, 4)),
                            EncodeAll([k \in 1 .. n |-> type.of], types, depth + 1, nest)) :
                    n \in 0 .. MaxItems}
      [] type.form = "option" ->
            LET size == PrefixSize(type.prefix, 1)
            IN  {[bytes |-> Little(0, size), readable |-> depth <= MaxDepth]}
                \cup IF nest = 0 THEN {}
                     ELSE Prefixed(Little(1, size), Encodings(type.of, types, depth + 1, nest - 1))
      [] type.form = "array" ->
            EncodeAll([k \in 1 .. type.count |-> type.of], types, depth + 1, nest)
      [] OTHER -> {[bytes |-> <<9>>, readable |-> FALSE]}

Format == DetectFormat(raw)
RawTypes == AsArray(Get(IF Format = "Codama" THEN Get(raw, "program") ELSE raw,
                        IF Format = "Codama" THEN "definedTypes" ELSE "types"))
RawCalls == AsArray(Get(IF Format = "Codama" THEN Get(raw, "program") ELSE raw, "instructions"))
RawArgs(ix) == AsArray(Get(ix, IF Format = "Codama" THEN "arguments" ELSE "args"))

\* What an Anchor program dispatches on comes before the arguments.
Tag(ix) == CASE Format = "Legacy" -> Derived[ix.name]
             [] Format = "AnchorV030" -> ix.discriminator
             [] OTHER -> << >>

Values(arg) == IF Get(arg, "default") # Null
               THEN {[bytes |-> EncodeDefault(arg), readable |-> TRUE]}
               ELSE Encodings(arg.type, RawTypes, 0, MaxNest)

Init ==
    /\ raw \in Published
    /\ entry = Null /\ call = Null /\ data = << >> /\ written = << >>
    /\ stage = "published"

\* A refused IDL leaves the registry as it was.
Register ==
    /\ stage = "published" /\ stage' = "registered"
    /\ entry' = IF IsBad(ParseIdl(raw)) THEN Null ELSE FromIdl(ParseIdl(raw).out)
    /\ UNCHANGED <<raw, call, data, written>>

Call ==
    /\ stage = "registered" /\ entry # Null /\ stage' = "calling"
    /\ \E i \in DOMAIN RawCalls :
        /\ call' = RawCalls[i] /\ data' = Tag(RawCalls[i])
    /\ UNCHANGED <<raw, entry, written>>

Encode ==
    /\ stage = "calling" /\ Len(written) < Len(RawArgs(call))
    /\ LET arg == RawArgs(call)[Len(written) + 1]
       IN  \E v \in Values(arg) :
            /\ data' = data \o v.bytes
            /\ written' = Append(written, [name |-> arg.name, at |-> Len(data),
                                           len |-> Len(v.bytes), readable |-> v.readable])
    /\ UNCHANGED <<raw, entry, call, stage>>

Send(bytes) ==
    /\ stage = "calling" /\ Len(written) = Len(RawArgs(call))
    /\ stage' = "called" /\ data' = bytes
    /\ UNCHANGED <<raw, entry, call, written>>

SendCut ==
    /\ stage = "calling"
    /\ \E n \in 0 .. Min({MaxCut, Len(data) - Len(Tag(call))}) : Send(SubSeq(data, 1, Len(data) - n))
SendPadded == Send(Append(data, 1))

Next == Register \/ Call \/ Encode \/ SendCut \/ SendPadded

Spec == Init /\ [][Next]_vars

-----------------------------------------------------------------------------
(* The worker and the tab *)

\* Only data of eight bytes have a discriminator for the worker.
WorkerName == IF entry = Null \/ Len(data) < 8 THEN Null
              ELSE InstructionNameFor(entry, SubSeq(data, 1, 8))

Found == IF entry = Null THEN Null ELSE InstructionFor(entry, data)
TabName == IF Found = Null THEN WorkerName ELSE Found.ix.name
DiscriminatorLen == IF Found = Null THEN 0 ELSE Found.len
Decoded == IF Found = Null THEN << >>
           ELSE DecodeArgs(Found.ix.args, data, Found.len, entry.idl.types)

Dim == -1
Discriminator == 0

ColorFromTheArguments(decoded, k) ==
    LET over == {i \in DOMAIN decoded : decoded[i].len # Failed /\
                    k + DiscriminatorLen \in decoded[i].at .. decoded[i].at + decoded[i].len - 1}
    IN  IF over # {} THEN Max(over) ELSE IF k < DiscriminatorLen THEN Discriminator ELSE Dim

\* The colour of a byte: that of the last argument drawn over it; drawing stops
\* at one that could not be decoded.
ByteColor(decoded, k) ==
    LET over == {i \in DOMAIN decoded :
                    decoded[i].len # Failed /\ k \in decoded[i].at .. decoded[i].at + decoded[i].len - 1}
    IN  IF over # {} THEN Max(over) ELSE IF k < DiscriminatorLen THEN Discriminator ELSE Dim

\* The label of the byte under the cursor.
CursorLabel(decoded, k) ==
    LET over == {i \in DOMAIN decoded :
                    /\ k >= decoded[i].at
                    /\ k < IF decoded[i].len = Failed THEN Len(data)
                           ELSE decoded[i].at + decoded[i].len}
    IN  IF k < DiscriminatorLen THEN Discriminator ELSE IF over # {} THEN Min(over) ELSE Dim

-----------------------------------------------------------------------------
(* Properties *)

Called == stage = "called" /\ entry # Null
Mine == CHOOSE ix \in ToSet(entry.idl.instructions) : ix.name = call.name

\* No other instruction has a discriminator that the data start with, and that is as long.
Unambiguous ==
    \A disc \in DOMAIN entry.named :
        \/ entry.named[disc] = call.name
        \/ Len(disc) < Len(Mine.disc)
        \/ Len(disc) > Len(data) \/ SubSeq(data, 1, Len(disc)) # disc

\* The arguments that are complete and in the decoder's scope, from the first on.
Readable ==
    LET bad == {i \in DOMAIN written : ~written[i].readable
                                        \/ written[i].at + written[i].len > Len(data)}
    IN  IF bad = {} THEN Len(written) ELSE Min(bad) - 1

\* The tab decodes a call as the caller encoded it: the instruction called, and
\* each argument at its bytes, up to the first that is incomplete or of a type
\* out of the decoder's scope, which is shown as such.  The arguments of a Codama
\* IDL are not claimed: their offsets start behind a discriminator that the list
\* contains (idl.rs:120-147, idl_decode.rs:16-72, ui.rs:1559-1576).
DecodesWhatWasEncoded ==
    Called /\ Unambiguous /\ Len(data) >= Len(Mine.disc) =>
        /\ TabName = call.name
        /\ Format # "Codama" =>
            LET readable == Readable
                shown(i) == [name |-> written[i].name, at |-> written[i].at,
                             len |-> IF i <= readable THEN written[i].len ELSE Failed]
            IN  Decoded = [i \in 1 .. Min({readable + 1, Len(written)}) |-> shown(i)]

\* The name the worker gave the instruction, for the list and the headline, is the
\* one the tab shows, if the worker had enough bytes for it: one looks up the first
\* eight bytes, the other the data (pipeline.rs:203-215, ui.rs:1559-1576).
WorkerAndTabAgree ==
    Called /\ Len(data) >= 8 /\ (\A disc \in DOMAIN entry.named : Len(disc) <= 8) =>
        WorkerName = TabName

\* The colour of each byte is that of what its label says, but for the bytes of an
\* argument that could not be decoded, which stay dim; the bytes behind the last
\* argument belong to nothing (ui.rs:1600-1614, 1648-1672).
ColoursMatchTheLabel ==
    Called =>
        LET decoded == Decoded
        IN  \A k \in 0 .. Len(data) - 1 :
                LET label == CursorLabel(decoded, k)
                IN  ByteColor(decoded, k) =
                        IF label > 0 /\ decoded[label].len = Failed THEN Dim ELSE label
=============================================================================
