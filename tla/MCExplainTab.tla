---------------------------- MODULE MCExplainTab ------------------------------
(* Published IDLs of each format, with the types that a decoder can get wrong. *)
EXTENDS ExplainTab

Scalar(n) == [form |-> "scalar", name |-> n]
Defined(n) == [form |-> "defined", name |-> n]
Vec(t, p) == [form |-> "vec", prefix |-> p, of |-> t]
Option(t, p) == [form |-> "option", prefix |-> p, of |-> t]
ArrayOf(t, n) == [form |-> "array", count |-> n, of |-> t]
Arg(n, t) == [name |-> n, type |-> t]
Ix(n, args) == [name |-> n, args |-> args]

MCDerived == [swap |-> <<1, 2, 3, 4, 5, 6, 7, 8>>, close |-> <<1, 2, 3, 4, 5, 6, 7, 9>>,
              put |-> <<8, 7, 6, 5, 4, 3, 2, 1>>]

Types == <<[name |-> "List", body |-> "struct", fields |-> <<Option(Defined("List"), Null)>>],
           [name |-> "Side", body |-> "enum",
            variants |-> << << >>, <<Scalar("u16"), Scalar("bool")>> >>],
           [name |-> "Pair", body |-> "struct", fields |-> <<Scalar("u8"), Defined("Side")>>],
           [name |-> "Wrapper", body |-> "tuple", of |-> <<Scalar("u8")>>]>>

Legacy ==
    [name |-> "amm", types |-> Types,
     accounts |-> <<[name |-> "Pool"], [size |-> 1]>>, events |-> Junk,
     errors |-> <<[code |-> 6000, name |-> "Slippage"]>>,
     instructions |-> <<
        Ix("swap", <<Arg("amount", Scalar("u64")), Arg("side", Defined("Side")),
                     Arg("memo", Scalar("string")), Arg("legs", Vec(Defined("Pair"), Null))>>),
        Ix("close", << >>),
        Ix("put", <<Arg("list", Defined("List")), Arg("other", Option(Defined("List"), Null)), Arg("last", Scalar("bool"))>>)>>]

V030 ==
    [metadata |-> [spec |-> "0.1.0", name |-> "vault"], types |-> Types,
     instructions |-> <<
        [name |-> "swap", discriminator |-> MCDerived.swap,
         args |-> <<Arg("pairs", ArrayOf(Defined("Pair"), 2)), Arg("to", Option(Scalar("pubkey"), Null)),
                    Arg("tail", Scalar("u8"))>>],
        [name |-> "put", discriminator |-> MCDerived.put,
         args |-> <<Arg("raw", Scalar("bytes")), Arg("wrapped", Defined("Wrapper")), Arg("n", Scalar("u8"))>>],
        [name |-> "close", discriminator |-> MCDerived.close,
         args |-> <<Arg("odd", [form |-> "hashMap"]), Arg("n", Scalar("u8"))>>]>>]

Constant(n, t, v) == [name |-> n, type |-> Scalar(t), default |-> v]
Field(n, offset) == [kind |-> "fieldDiscriminatorNode", name |-> n, offset |-> offset]
CodamaIx(n, fields, args) == [name |-> n, discriminators |-> fields, arguments |-> args]
Codama(instructions) ==
    [kind |-> "rootNode", program |-> [name |-> "token", instructions |-> instructions]]

Token == Codama(<<
    CodamaIx("transfer", <<Field("tag", 0)>>,
             <<Constant("tag", "u8", [number |-> 3]), Arg("amount", Scalar("u64"))>>),
    CodamaIx("fee", <<Field("tag", 0), Field("sub", 1)>>,
             <<Constant("tag", "u8", [number |-> 3]), Constant("sub", "u16", [number |-> 1]),
               Arg("to", Option(Scalar("u32"), "u32"))>>),
    CodamaIx("init", <<Field("tag", 0)>>,
             <<Constant("tag", "bytes", [base16 |-> <<0, 9>>]), Arg("of", Vec(Scalar("u8"), "u8"))>>)>>)

\* Refused: no constant, a gap, another kind of node, a half byte, no discriminator.
Refused == {
    Codama(<<CodamaIx("a", <<Field("tag", 0)>>, <<Arg("tag", Scalar("u8"))>>)>>),
    Codama(<<CodamaIx("b", <<Field("tag", 1)>>, <<Constant("tag", "u8", [number |-> 1])>>)>>),
    Codama(<<CodamaIx("c", <<[kind |-> "sizeDiscriminatorNode"]>>, << >>)>>),
    Codama(<<CodamaIx("d", <<Field("tag", 0)>>, <<Constant("tag", "bytes", [base16 |-> <<1>>])>>)>>),
    Codama(<<CodamaIx("e", << >>, << >>)>>),
    [metadata |-> [spec |-> "0.1.0", name |-> "x"],
     instructions |-> <<[name |-> "swap", discriminator |-> <<1, 2>>]>>],
    [metadata |-> [spec |-> "0.1.0"]],
    [name |-> "y", instructions |-> Junk],
    [name |-> "z", errors |-> <<[name |-> "NoCode"]>>],
    [kind |-> "rootNode"],
    [version |-> "1"]}

MCPublished == {Legacy, V030, Token} \cup Refused
=============================================================================
