------------------------------ MODULE IdlDecode -------------------------------
(***************************************************************************)
(* The decoder of an instruction's arguments (idl_decode.rs), as far as    *)
(* the bytes that each takes go.  A type is a record of one of the forms   *)
(*    scalar   [form, name]              vec, option [form, prefix, of]    *)
(*    array    [form, count, of]         defined     [form, name]          *)
(* and any other form is one the decoder has no case for.  A defined type  *)
(* is [name, body, fields] or [name, body, variants]: fields is a sequence *)
(* of types, Junk where a field has no name and type of its own, and a     *)
(* variant is such a sequence.  prefix is a number format or Null.         *)
(***************************************************************************)
EXTENDS IdlParser, Integers

Failed == -1
MaxDepth == 8
CountCap == 2^16      \* more than the length of any data

ScalarWidth ==
    [u8 |-> 1, u16 |-> 2, u32 |-> 4, u64 |-> 8, u128 |-> 16,
     i8 |-> 1, i16 |-> 2, i32 |-> 4, i64 |-> 8, bool |-> 1, pubkey |-> 32]

Drop(data, n) == SubSeq(data, n + 1, Len(data))
ReadLe(bytes) == FoldRight(LAMBDA b, n : Min({n, CountCap}) * 256 + b, bytes, 0)
PrefixSize(prefix, default) == IF prefix \in DOMAIN IntWidth THEN IntWidth[prefix] ELSE default

DecodeLenPrefixed(data) ==
    IF Len(data) < 4 \/ Len(data) - 4 < ReadLe(SubSeq(data, 1, 4)) THEN Failed
    ELSE 4 + ReadLe(SubSeq(data, 1, 4))

DecodeScalar(name, data) ==
    IF name \in {"string", "bytes"} THEN DecodeLenPrefixed(data)
    ELSE IF name \in DOMAIN ScalarWidth /\ Len(data) >= ScalarWidth[name] THEN ScalarWidth[name]
    ELSE Failed

\* How many bytes of the data a value of the type takes, or Failed.
RECURSIVE DecodeOne(_, _, _, _)

\* One value after the other.
DecodeAll(list, data, types, depth) ==
    LET next(used, type) ==
            LET n == DecodeOne(type, Drop(data, used), types, depth)
            IN  IF used = Failed \/ n = Failed THEN Failed ELSE used + n
    IN  FoldLeft(next, 0, list)

\* Values without bytes may be as many as they like: they change nothing.
DecodeVec(type, data, types, depth) ==
    LET size == PrefixSize(type.prefix, 4)
        count == Min({ReadLe(SubSeq(data, 1, size)), Len(data) + 1})
        n == DecodeAll([k \in 1 .. count |-> type.of], Drop(data, size), types, depth + 1)
    IN  IF Len(data) < size \/ n = Failed THEN Failed ELSE size + n

DecodeOption(type, data, types, depth) ==
    LET size == PrefixSize(type.prefix, 1)
        n == DecodeOne(type.of, Drop(data, size), types, depth + 1)
    IN  IF Len(data) < size THEN Failed
        ELSE IF \A k \in 1 .. size : data[k] = 0 THEN size
        ELSE IF n = Failed THEN Failed ELSE size + n

DecodeEnum(variants, data, types, depth) ==
    IF data = << >> \/ Head(data) >= Len(variants) THEN Failed
    ELSE LET n == DecodeAll(variants[Head(data) + 1], Tail(data), types, depth)
         IN  IF n = Failed THEN Failed ELSE 1 + n

DecodeDefined(name, data, types, depth) ==
    LET i == SelectInSeq(types, LAMBDA t : t.name = name)
    IN  IF i = 0 THEN Failed
        ELSE CASE types[i].body = "struct" -> DecodeAll(types[i].fields, data, types, depth + 1)
               [] types[i].body = "enum" -> DecodeEnum(types[i].variants, data, types, depth + 1)
               [] OTHER -> Failed

\* A nested value is not looked at before its prefix is there: conditions are
\* evaluated in this order.
DecodeOne(type, data, types, depth) ==
    IF depth > MaxDepth \/ type = Junk THEN Failed
    ELSE CASE type.form = "scalar" -> DecodeScalar(type.name, data)
           [] type.form = "defined" -> DecodeDefined(type.name, data, types, depth)
           [] type.form = "vec" -> DecodeVec(type, data, types, depth)
           [] type.form = "option" -> DecodeOption(type, data, types, depth)
           [] type.form = "array" ->
                DecodeAll([k \in 1 .. type.count |-> type.of], data, types, depth + 1)
           [] OTHER -> Failed

DecodeOnPastFailures(args, data, discLen, types) ==
    LET next(out, arg) ==
            LET at == IF out = << >> THEN discLen ELSE Last(out).at + Max({Last(out).len, 0})
            IN  Append(out, [name |-> NameIn(arg), at |-> at,
                             len |-> DecodeOne(arg.type, Drop(data, at), types, 0)])
    IN  FoldLeft(next, << >>, args)

\* The decoded arguments [name, at, len]; the first that fails is the last.
DecodeArgs(args, data, discLen, types) ==
    LET next(out, arg) ==
            LET at == IF out = << >> THEN discLen ELSE Last(out).at + Last(out).len
                n == IF Get(arg, "type") = Null THEN 0 ELSE DecodeOne(arg.type, Drop(data, at), types, 0)
            IN  IF arg = Junk \/ (out # << >> /\ Last(out).len = Failed) THEN out
                ELSE Append(out, [name |-> NameIn(arg), at |-> at, len |-> n])
    IN  FoldLeft(next, << >>, args)
=============================================================================
