--------------------------- MODULE MCAbiArguments ---------------------------
(* Every string of a few tokens, the canonical forms of nested types, and   *)
(* functions of two parameters.                                             *)
EXTENDS AbiArguments

CONSTANT MaxLength  \* of the strings that are enumerated

Widths == [u8 |-> 1, u16 |-> 2, u32 |-> 3, u64 |-> 4, u128 |-> 5, u256 |-> 6]

At1(module, parses) == [address |-> Account(1), module |-> module, parses |-> parses]
Structs == [Option |-> At1("option", TRUE), String |-> At1("string", TRUE), Object |-> At1("object", TRUE),
            TCoin |-> [address |-> <<3, 3, 3>>, module |-> "coin", parses |-> FALSE]]

Tokens == {"<", ">", ",", " ", "&", "u8", "vector", "Option", "T0"}
Strings == UNION {[1 .. n -> Tokens] : n \in 1 .. MaxLength}

Struct(token, params) == StructTag(Structs[token].address, Structs[token].module, <<token>>, params)
Flat == {Primitive(p) : p \in PrimitiveTags} \cup {GenericTag(0), Struct("String", <<>>), Struct("TCoin", <<>>)}
Nested == {VectorTag(t) : t \in Flat} \cup {ReferenceTag(t) : t \in Flat} \cup {Struct("Option", <<t>>) : t \in Flat}
            \cup {Struct("Object", <<t, Primitive("u64")>>) : t \in Flat}
Deep == {VectorTag(t) : t \in Nested} \cup {Struct("Option", <<t>>) : t \in Nested}
          \cup {Struct("Object", <<Primitive("bool"), t>>) : t \in Nested}
TheTags == Flat \cup Nested \cup Deep

TheFunctions == {<<s>> : s \in Strings \cup {PrintTag(t) : t \in TheTags}}
                  \cup {<<PrintTag(s), PrintTag(t)>> : s \in {Primitive("u8"), ReferenceTag(Primitive("signer"))},
                                                       t \in Nested}

Number(go, n) == [go |-> go, val |-> n]
String(num, hex, word, address, chars) ==
  [go |-> "string", num |-> num, hex |-> hex, word |-> word, address |-> address, chars |-> chars]

TheArgs ==
  <<Number("int", 7), Number("int", -5), Number("uint", 300), Number("uint", 65535), Number("u8", 15),
    Number("u64", 40000), Number("big", 7), Number("big", -5), Number("big", 65543), Number("big", 1048576),
    Number("big", 16777221), [go |-> "bool", val |-> TRUE], [go |-> "address", val |-> <<3, 0, 1>>],
    [go |-> "nil"], [go |-> "bytes", val |-> <<9, 0>>], [go |-> "uints", of |-> "u16", val |-> <<1, 200>>],
    [go |-> "bigs", val |-> <<5, -2>>], [go |-> "bools", val |-> <<TRUE, FALSE>>],
    [go |-> "addresses", val |-> <<<<1, 2, 3>>>>],
    [go |-> "anys", val |-> <<Number("int", 3), Number("int", 20)>>],
    String({12}, {<<12>>}, {}, {}, <<1, 2>>), String({-5}, {}, {}, {}, <<13, 5>>),
    String({}, {}, {TRUE}, {}, <<8>>), String({}, {<<2>>}, {}, {<<0, 0, 2>>}, <<0, 14, 2>>)>>
==============================================================================
