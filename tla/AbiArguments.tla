---------------------------- MODULE AbiArguments ----------------------------
(***************************************************************************)
(* EntryFunctionFromAbi: the function is looked up, the types of its       *)
(* parameters are parsed one after the other, signers are left out, and    *)
(* one argument for each is converted.                                     *)
(***************************************************************************)
EXTENDS TypeTagParser, TypeConversion

CONSTANTS Functions,  \* sequences of type strings: the parameters of a function
          Args        \* a sequence of Go values

VARIABLES paramTypes,     \* the type strings not yet parsed, the current one first
          argTypes,   \* the types of the arguments
          converted,  \* the conversions made: tag, argument and result
          phase

vars == <<parserVars, paramTypes, argTypes, converted, phase>>

Init == /\ paramTypes \in Functions
        /\ ParserInit(paramTypes[1])
        /\ argTypes = <<>> /\ converted = <<>> /\ phase = "lookup"

\* The function is in the ABI, it is an entry function, and there is one type
\* argument for each of its type parameters.
Lookup == /\ phase = "lookup" /\ phase' = "parse"
          /\ UNCHANGED <<parserVars, paramTypes, argTypes, converted>>

\* One of these is not so, or a type argument is not a type.
LookupFails == /\ phase = "lookup" /\ phase' = "error"
               /\ UNCHANGED <<parserVars, paramTypes, argTypes, converted>>

Parse == phase = "parse" /\ ParserNext /\ UNCHANGED <<paramTypes, argTypes, converted, phase>>

IsSigner(t) == t = Primitive("signer") \/ t = ReferenceTag(Primitive("signer"))

\* The type is kept, unless it is a signer's, and the next one is parsed.
NextParam ==
  /\ phase = "parse" /\ parsed.res = "ok"
  /\ argTypes' = IF IsSigner(parsed.tag) THEN argTypes ELSE Append(argTypes, parsed.tag)
  /\ paramTypes' = Tail(paramTypes)
  /\ IF Len(paramTypes) = 1 THEN phase' = "convert" /\ UNCHANGED parserVars
     ELSE phase' = "parse" /\ StartParsing(paramTypes[2])
  /\ UNCHANGED converted

ParamFails == /\ phase = "parse" /\ parsed.res \in {"error", "panic"}
              /\ phase' = parsed.res
              /\ UNCHANGED <<parserVars, paramTypes, argTypes, converted>>

\* The caller gave another number of arguments.
WrongCount == /\ phase = "convert" /\ converted = <<>>
              /\ phase' = "error"
              /\ UNCHANGED <<parserVars, paramTypes, argTypes, converted>>

Convert(arg) ==
  /\ phase = "convert" /\ Len(converted) < Len(argTypes)
  /\ LET t == argTypes[Len(converted) + 1]
         result == ConvertArg(t, arg, argTypes, 0)
     IN  /\ converted' = Append(converted, [tag |-> t, arg |-> arg, result |-> result])
         /\ phase' = IF result.err = "none" THEN phase ELSE result.err
  /\ UNCHANGED <<parserVars, paramTypes, argTypes>>

Finish == /\ phase = "convert" /\ Len(converted) = Len(argTypes)
          /\ phase' = "done"
          /\ UNCHANGED <<parserVars, paramTypes, argTypes, converted>>

Ended == phase \in {"done", "error", "panic", "diverges"} /\ UNCHANGED vars

Next == \/ Lookup \/ LookupFails
        \/ Parse \/ NextParam \/ ParamFails \/ WrongCount \/ Finish \/ Ended
        \/ \E i \in DOMAIN Args : Convert(Args[i])

Spec == Init /\ [][Next]_vars

-----------------------------------------------------------------------------
(* Properties.                                                              *)

CONSTANT PrintedTags  \* tags whose canonical form is among the inputs

\* What TypeTag.String prints for a tag is parsed as that tag, at any nesting,
\* but where it names a struct at an address that begins with a T.
RECURSIVE Parses(_)
Parses(t) == CASE t.tag \in {"vector", "reference"} -> Parses(t.of)
               [] t.tag = "struct" -> /\ StructTokens[t.name[1]].parses
                                      /\ \A i \in DOMAIN t.params : Parses(t.params[i])
               [] OTHER -> TRUE

PrintedParsesBack ==
  \A t \in PrintedTags :
    parsed.res # "running" /\ input = PrintTag(t) => parsed = IF Parses(t) THEN Outcome("ok", t) ELSE TagError

\* A string that is accepted has no name that its type has not: names are
\* neither lost nor doubled over the stack of open brackets, but for the type
\* arguments of a generic, which are passed by. No string panics but one that
\* ends with a space.
Count(s, x) == Cardinality({i \in DOMAIN s : s[i] = x})
Names(s) == {s[i] : i \in DOMAIN s} \ {"<", ">", ",", " "}

NothingIsLost ==
  /\ parsed.res = "ok" /\ "T0" \notin Names(input) =>
       /\ Names(PrintTag(parsed.tag)) = Names(input)
       /\ \A x \in Names(input) : Count(PrintTag(parsed.tag), x) = Count(input, x)
  /\ parsed.res = "panic" => Last(input) = " "

RECURSIVE Generic(_)
Generic(t) == \/ t.tag = "generic"
              \/ t.tag \in {"vector", "reference"} /\ Generic(t.of)
              \/ t.tag = "struct" /\ \E i \in DOMAIN t.params : Generic(t.params[i])

Numbers(arg) == CASE arg.go = "string" -> arg.num [] OTHER -> {arg.val}
Unsafe(n) == n < 0 \/ n >= Modulo("u64")

\* bytes are the argument at that type, and nothing else.
RECURSIVE Denote(_, _, _)
Denote(bytes, t, arg) ==
  LET read(Reader(_)) == Deserialize(bytes, Reader)
      is(Reader(_), value) == Ok(read(Reader)) /\ read(Reader).val = value
      number(r, n) == r = n \/ Unsafe(n)
  IN  CASE t.tag \in IntTypes ->
             LET r == Deserialize(bytes, LAMBDA d : ReadInt(d, t.tag))
             IN  Ok(r) /\ \A n \in Numbers(arg) : number(r.val, n)
        [] t.tag = "bool"    -> is(ReadBool, IF arg.go = "string" THEN TRUE \in arg.word ELSE arg.val)
        [] t.tag = "address" -> is(ReadAddress, IF arg.go = "string" THEN CHOOSE a \in arg.address : TRUE
                                                ELSE arg.val)
        [] t.tag = "reference" -> Denote(bytes, t.of, arg)
        [] t.tag = "vector" /\ t.of.tag \in IntTypes ->
             LET r == Deserialize(bytes, LAMBDA d : ReadSequence(d, LAMBDA e : ReadInt(e, t.of.tag)))
                 val == IF arg.go = "string" THEN CHOOSE b \in arg.hex : TRUE ELSE arg.val
             IN  Ok(r) /\ Len(r.val) = Len(val) /\ \A i \in DOMAIN val : number(r.val[i], val[i])
        [] AtOne(t, "option") /\ arg.go # "nil" -> bytes[1] = 1 /\ Denote(Tail(bytes), t.params[1], arg)
        [] AtOne(t, "option") /\ arg.go = "nil" -> bytes = <<0>>
        [] OTHER -> TRUE

\* A converted argument is read back at its type as the value it was, but for
\* numbers that are negative or beyond 64 bits, which only a big.Int or a string
\* holds. Only such a number panics, and only a generic type is never done.
ConvertedReadsBack ==
  \A i \in DOMAIN converted :
    LET c == converted[i] IN
    CASE c.result.err = "none"     -> Generic(c.tag) \/ Denote(c.result.bytes, c.tag, c.arg)
      [] c.result.err = "diverges" -> Generic(c.tag)
      [] c.result.err = "panic"    -> c.arg.go \in {"big", "bigs", "string", "anys"}
      [] OTHER                     -> TRUE
==============================================================================
