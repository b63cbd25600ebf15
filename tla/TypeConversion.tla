---------------------------- MODULE TypeConversion ---------------------------
(***************************************************************************)
(* Arguments of entry functions, converted to BCS by their type tags.  An  *)
(* argument is a Go value: its type and its value, where "big" is big.Int  *)
(* or a pointer to one, "uints" and "bigs" are slices of numbers and       *)
(* "anys" a slice of any.  A string is what can be read in it: num, hex,   *)
(* word and address are sets of at most one number, byte sequence, boolean *)
(* and address, and chars are its characters.  Integer types keep their    *)
(* widths in Bcs's bytes; int and uint have 64 bits.  A conversion is an   *)
(* error and bytes.                                                        *)
(***************************************************************************)
EXTENDS TypeTags

CONSTANT MaxDepth  \* bound: deeper calls than any that ends

Small == {"u8", "u16", "u32", "u64"}
Abs1(n) == IF n < 0 THEN -n ELSE n

Good(bytes) == [err |-> "none", bytes |-> bytes]
Bad(err) == [err |-> err, bytes |-> <<>>]

\* A big.Int loses its sign and what is above 64 bits where it becomes a
\* smaller integer (Uint64), and its sign where it is serialised (FillBytes),
\* which panics when it does not fit.
WriteBig(type, n) == IF Abs1(n) >= Modulo(type) THEN Bad("panic") ELSE Good(WriteInt(type, Abs1(n)))

WriteSmall(type, n) == IF n < 0 \/ n >= Modulo(type) THEN Bad("error") ELSE Good(WriteInt(type, n))

\* What is read in a string, if it can be.
Read1(reading, Write(_)) == IF reading = {} THEN Bad("error") ELSE Write(CHOOSE x \in reading : TRUE)

\* Mutant: a number of 64 bits is cut, and not checked.
ConvertToUintUnchecked(type, arg) ==
  IF arg.go \in {"int", "uint", "big"} THEN Good(WriteInt(type, Abs1(arg.val) % Modulo(type)))
  ELSE Bad("error")

\* ConvertToU8, ..., ConvertToU256
ConvertToUint(type, arg) ==
  CASE arg.go \in {"int", "uint"}              -> WriteSmall(type, arg.val)
    [] arg.go = "string" /\ type \in Small     -> Read1(arg.num, LAMBDA n : WriteSmall(type, n))
    [] arg.go = "string" /\ type \notin Small  -> Read1(arg.num, LAMBDA n : WriteBig(type, n))
    [] arg.go = "big" /\ type \in Small        -> WriteSmall(type, Abs1(arg.val) % Modulo("u64"))
    [] arg.go = "big" /\ type \notin Small     -> WriteBig(type, arg.val)
    [] arg.go = type /\ type \in Small         -> Good(WriteInt(type, arg.val))
    [] OTHER                                   -> Bad("error")

ConvertToBool(arg) == CASE arg.go = "bool"   -> Good(Bool(arg.val))
                        [] arg.go = "string" -> Read1(arg.word, LAMBDA b : Good(Bool(b)))
                        [] OTHER             -> Bad("error")

ConvertToAddress(arg) == CASE arg.go = "address" -> Good(WriteAddress(arg.val))
                           [] arg.go = "string"  -> Read1(arg.address, LAMBDA a : Good(WriteAddress(a)))
                           [] OTHER              -> Bad("error")

ConvertToVectorU8(arg) == CASE arg.go = "bytes"  -> Good(WriteBytes(arg.val))
                            [] arg.go = "string" -> Read1(arg.hex, LAMBDA b : Good(WriteBytes(b)))
                            [] OTHER             -> Bad("error")

\* The members one after the other, behind their number; the first that fails
\* fails the sequence.
Concatenated(members) ==
  LET failed == {i \in DOMAIN members : members[i].err # "none"}
  IN  IF failed # {} THEN Bad(members[Min(failed)].err)
      ELSE Good(Uleb128[Len(members)] \o FlattenSeq([i \in DOMAIN members |-> members[i].bytes]))

\* Slices of the member's own Go type only.
ConvertToVectorUint(type, arg) ==
  IF arg.go = "bigs" /\ type \in {"u128", "u256"}
  THEN Concatenated([i \in DOMAIN arg.val |-> WriteBig(type, arg.val[i])])
  ELSE IF arg.go = "uints" /\ arg.of = type
  THEN Concatenated([i \in DOMAIN arg.val |-> WriteSmall(type, arg.val[i])])
  ELSE Bad("error")

-----------------------------------------------------------------------------

AtOne(t, module) == t.tag = "struct" /\ t.address = Account(1) /\ t.module = module

\* generics are what T0, T1, ... stand for; EntryFunctionFromAbi passes the
\* types of the function's parameters.
RECURSIVE ConvertArg(_, _, _, _)

ConvertMembers(type, arg, generics, depth) ==
  IF arg.go # "anys" THEN Bad("error")
  ELSE Concatenated([i \in DOMAIN arg.val |-> ConvertArg(type, arg.val[i], generics, depth + 1)])

ConvertToVectorGeneric(of, arg, generics, depth) ==
  IF of.num >= Len(generics) THEN Bad("error")
  ELSE ConvertMembers(generics[of.num + 1], arg, generics, depth)

ConvertToVectorReference(of, arg, generics, depth) == ConvertMembers(of.of, arg, generics, depth)

ConvertToVectorBool(arg) == IF arg.go = "bools" THEN Good(WriteSequence(arg.val, Bool)) ELSE Bad("error")
ConvertToVectorAddress(arg) ==
  IF arg.go = "addresses" THEN Good(WriteSequence(arg.val, WriteAddress)) ELSE Bad("error")

\* Vectors of vectors and of structs are not supported.
ConvertToVector(of, arg, generics, depth) ==
  CASE of.tag = "u8"                   -> ConvertToVectorU8(arg)
    [] of.tag \in IntTypes \ {"u8"}    -> ConvertToVectorUint(of.tag, arg)
    [] of.tag = "bool"                 -> ConvertToVectorBool(arg)
    [] of.tag \in {"address", "signer"} -> ConvertToVectorAddress(arg)
    [] of.tag = "generic"              -> ConvertToVectorGeneric(of, arg, generics, depth)
    [] of.tag = "reference"            -> ConvertToVectorReference(of, arg, generics, depth)
    [] OTHER                           -> Bad("error")

ConvertToString(arg) == IF arg.go = "string" THEN Good(WriteBytes(arg.chars)) ELSE Bad("error")

\* nil is none.
ConvertToOption(params, arg, generics, depth) ==
  LET some == ConvertArg(params[1], arg, generics, depth + 1)
  IN  IF Len(params) # 1 THEN Bad("error")
      ELSE IF arg.go = "nil" THEN Good(U8(0))
      ELSE IF some.err = "none" THEN Good(<<1>> \o some.bytes) ELSE some

ConvertArg(t, arg, generics, depth) ==
  LET Again(type) == ConvertArg(type, arg, generics, depth + 1)
  IN  CASE depth > MaxDepth       -> Bad("diverges")
        [] t.tag \in IntTypes     -> ConvertToUint(t.tag, arg)
        [] t.tag = "bool"         -> ConvertToBool(arg)
        [] t.tag = "address"      -> ConvertToAddress(arg)
        [] t.tag = "generic"      -> IF t.num >= Len(generics) THEN Bad("error")
                                     ELSE Again(generics[t.num + 1])
        [] t.tag = "reference"    -> Again(t.of)
        [] t.tag = "vector"       -> ConvertToVector(t.of, arg, generics, depth)
        [] AtOne(t, "object") /\ t.name = <<"Object">> -> ConvertToAddress(arg)
        [] AtOne(t, "string") /\ t.name = <<"String">> -> ConvertToString(arg)
        [] AtOne(t, "option") /\ t.name = <<"Option">> -> ConvertToOption(t.params, arg, generics, depth)
        [] OTHER                  -> Bad("error")
==============================================================================
