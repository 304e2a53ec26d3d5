------------------------------ MODULE IdlParser -------------------------------
(***************************************************************************)
(* The parser of program IDLs and the registry entry made of one (idl.rs). *)
(*                                                                         *)
(* A JSON object is a record, an array a sequence, and Junk a value that   *)
(* is not of the type asked for.  A type has the same form however the     *)
(* format writes it (see IdlDecode).  Derived[n] is the SHA-256 prefix of  *)
(* an instruction's name.                                                  *)
(***************************************************************************)
EXTENDS Naturals, SequencesExt, FiniteSetsExt

CONSTANTS Null, Junk, Derived

Get(o, field) == IF o \notin {Null, Junk} /\ field \in DOMAIN o THEN o[field] ELSE Null
AsString(v) == IF v = Junk THEN Null ELSE v
AsArray(v) == IF v \in {Null, Junk} THEN << >> ELSE v
NameIn(o) == AsString(Get(o, "name"))

Good(x) == [err |-> "none", at |-> 0, out |-> x]
Bad(kind, i) == [err |-> kind, at |-> i, out |-> << >>]
Skip == Good(<< >>)
IsBad(got) == got.err # "none"

\* The first item that is refused decides.
Each(got) ==
    LET bad == {i \in DOMAIN got : IsBad(got[i])}
    IN  IF bad # {} THEN got[Min(bad)]
        ELSE Good(FlattenSeq([i \in DOMAIN got |-> got[i].out]))

-----------------------------------------------------------------------------
(* Anchor IDLs *)

ParseDiscArray(v) ==
    IF /\ v # Junk /\ Len(v) = 8
       /\ \A k \in DOMAIN v : v[k] # Junk /\ v[k] <= 255
    THEN v ELSE Junk

Instruction(name, disc, o) ==
    Good(<<[name |-> name, disc |-> disc, args |-> AsArray(Get(o, "args"))]>>)

ParseLegacyInstruction(i, o) ==
    IF NameIn(o) = Null THEN Bad("BadInstruction", i)
    ELSE Instruction(o.name, Derived[o.name], o)

ParseV030Instruction(i, o) ==
    IF NameIn(o) = Null \/ Get(o, "discriminator") = Null \/ ParseDiscArray(o.discriminator) = Junk
    THEN Bad("BadInstruction", i)
    ELSE Instruction(o.name, o.discriminator, o)

ParseTypeRef(i, o) ==
    IF o = Junk THEN Bad("BadAccount", i)
    ELSE IF NameIn(o) = Null THEN Skip
    ELSE LET disc == Get(o, "discriminator")
         IN  IF disc # Null /\ ParseDiscArray(disc) = Junk THEN Bad("BadAccount", i)
             ELSE Good(<<[name |-> o.name, disc |-> disc]>>)

ParseError(i, o) ==
    IF AsString(Get(o, "code")) = Null \/ NameIn(o) = Null THEN Bad("BadError", i)
    ELSE Good(<<[code |-> o.code, name |-> o.name]>>)

\* The parts are parsed in this order.
Document(format, name, instructions, accounts, events, errors, types) ==
    LET bad == SelectSeq(<<instructions, accounts, events, errors>>, IsBad)
    IN  IF name = Null THEN Bad("MissingName", 0)
        ELSE IF bad # << >> THEN bad[1]
        ELSE Good([format |-> format, name |-> name, instructions |-> instructions.out,
                   errors |-> errors.out, types |-> types])

ParseAnchor(format, v, name, instructions) ==
    LET refs(field) == LET items == AsArray(Get(v, field))
                       IN  Each([i \in DOMAIN items |-> ParseTypeRef(i, items[i])])
        errors == AsArray(Get(v, "errors"))
    IN  Document(format, name,
                 IF Get(v, "instructions") = Junk THEN Bad("BadInstruction", 0) ELSE instructions,
                 refs("accounts"), refs("events"),
                 Each([i \in DOMAIN errors |-> ParseError(i, errors[i])]),
                 AsArray(Get(v, "types")))

ParseLegacy(v) ==
    LET items == AsArray(Get(v, "instructions"))
    IN  ParseAnchor("Legacy", v, NameIn(v),
                    Each([i \in DOMAIN items |-> ParseLegacyInstruction(i, items[i])]))

ParseV030(v) ==
    LET items == AsArray(Get(v, "instructions"))
    IN  ParseAnchor("AnchorV030", v, NameIn(Get(v, "metadata")),
                    Each([i \in DOMAIN items |-> ParseV030Instruction(i, items[i])]))

-----------------------------------------------------------------------------
(* Codama IDLs *)

IntWidth == [u8 |-> 1, u16 |-> 2, u32 |-> 4, u64 |-> 8]
Little(n, width) == [k \in 1 .. width |-> IF k > 3 THEN 0 ELSE (n \div 256^(k - 1)) % 256]

DecodeBase16(digits) ==
    IF Len(digits) % 2 = 1 \/ \E k \in DOMAIN digits : digits[k] = Junk THEN Junk
    ELSE [k \in 1 .. Len(digits) \div 2 |-> 16 * digits[2 * k - 1] + digits[2 * k]]

\* The bytes of an argument with a constant value.
EncodeDefault(arg) ==
    LET value == Get(arg, "default")
        type == NameIn(Get(arg, "type"))
    IN  IF /\ Get(value, "number") # Null /\ type \in DOMAIN IntWidth
           /\ type = "u8" => value.number < 256
           /\ type = "u16" => value.number < 65536
        THEN Little(value.number, IntWidth[type])
        ELSE IF Get(value, "base16") # Null /\ type = "bytes" THEN DecodeBase16(value.base16)
        ELSE Junk

\* Contiguous field discriminators, each of an argument with a constant value.
ExtractDiscriminator(nodes, args) ==
    LET named(f) == {i \in DOMAIN args : NameIn(args[i]) = f}
        next(got, node) ==
            IF \/ got = Junk \/ Get(node, "kind") # "fieldDiscriminatorNode"
               \/ NameIn(node) = Null \/ named(NameIn(node)) = {}
               \/ (IF AsString(Get(node, "offset")) = Null THEN 0 ELSE node.offset) # Len(got)
               \/ EncodeDefault(args[Max(named(node.name))]) = Junk
            THEN Junk
            ELSE got \o EncodeDefault(args[Max(named(node.name))])
        bytes == FoldLeft(next, << >>, nodes)
    IN  IF bytes = << >> THEN Junk ELSE bytes

ParseCodamaInstruction(i, o) ==
    IF o = Junk THEN Skip
    ELSE LET args == AsArray(Get(o, "arguments"))
             disc == ExtractDiscriminator(AsArray(Get(o, "discriminators")), args)
         IN  IF NameIn(o) = Null \/ disc = Junk THEN Bad("BadInstruction", i)
             ELSE Instruction(o.name, disc, [args |-> args])

ParseCodamaTypeRef(i, o) == IF NameIn(o) = Null THEN Skip ELSE Good(<<[name |-> o.name]>>)
ParseCodamaError(i, o) == IF o = Junk THEN Skip ELSE ParseError(i, o)

ParseCodama(v) ==
    LET program == Get(v, "program")
        list(field) == AsArray(Get(program, field))
        each(field, Parse(_, _)) == Each([i \in DOMAIN list(field) |-> Parse(i, list(field)[i])])
    IN  IF AsString(program) = Null THEN Bad("UnknownFormat", 0)
        ELSE Document("Codama", NameIn(program),
                      each("instructions", ParseCodamaInstruction),
                      each("accounts", ParseCodamaTypeRef),
                      Skip,
                      each("errors", ParseCodamaError),
                      list("definedTypes"))

-----------------------------------------------------------------------------

DetectFormat(v) ==
    IF Get(v, "kind") = "rootNode" \/ Get(v, "standard") = "codama" THEN "Codama"
    ELSE IF AsString(Get(Get(v, "metadata"), "spec")) # Null THEN "AnchorV030"
    ELSE IF NameIn(v) # Null THEN "Legacy"
    ELSE "unknown"

ParseIdl(v) ==
    CASE DetectFormat(v) = "Codama" -> ParseCodama(v)
      [] DetectFormat(v) = "AnchorV030" -> ParseV030(v)
      [] DetectFormat(v) = "Legacy" -> ParseLegacy(v)
      [] OTHER -> Bad("UnknownFormat", 0)

\* The last of those with the same discriminator, or the same code, counts.
FromIdl(doc) ==
    LET last(seq, Key(_)) == [key \in {Key(seq[i]) : i \in DOMAIN seq} |->
                                seq[Max({i \in DOMAIN seq : Key(seq[i]) = key})].name]
    IN  [idl |-> doc,
         named |-> last(doc.instructions, LAMBDA ix : ix.disc),
         errors |-> last(doc.errors, LAMBDA e : e.code)]

KnownPrefixes(entry, data) ==
    {n \in {Len(disc) : disc \in DOMAIN entry.named} :
        n <= Len(data) /\ SubSeq(data, 1, n) \in DOMAIN entry.named}

\* The longest discriminator that the data begin with.
InstructionNameFor(entry, data) ==
    LET lengths == KnownPrefixes(entry, data)
    IN  IF lengths = {} THEN Null ELSE entry.named[SubSeq(data, 1, Max(lengths))]

ShortestFor(entry, data) ==
    LET lengths == KnownPrefixes(entry, data)
        ixs == entry.idl.instructions
    IN  IF lengths = {} THEN Null
        ELSE [ix |-> ixs[SelectInSeq(ixs, LAMBDA ix :
                            ix.name = entry.named[SubSeq(data, 1, Min(lengths))])],
              len |-> Min(lengths)]

InstructionFor(entry, data) ==
    LET lengths == KnownPrefixes(entry, data)
        ixs == entry.idl.instructions
    IN  IF lengths = {} THEN Null
        ELSE [ix |-> ixs[SelectInSeq(ixs, LAMBDA ix : ix.name = InstructionNameFor(entry, data))],
              len |-> Max(lengths)]
=============================================================================
