---------------------------- MODULE TypeTagParser ---------------------------
(***************************************************************************)
(* ParseTypeTag: one action per case of the loop over the characters.  The *)
(* input is a sequence of tokens, the characters of a name taken at once;  *)
(* the name that is being read is a sequence of tokens as well.            *)
(***************************************************************************)
EXTENDS TypeTags

CONSTANT StructTokens  \* token -> [address, module, parses]: names with two "::"

VARIABLES input, cur, saved, innerTypes, curTypes, currentStr, expectedTypes,
          parsed  \* [res |-> "running", "ok", "error" or "panic", tag |-> the tag]

parserVars == <<input, cur, saved, innerTypes, curTypes, currentStr, expectedTypes, parsed>>

NoTag == [tag |-> "none"]
Outcome(res, tag) == [res |-> res, tag |-> tag]
TagError == Outcome("error", NoTag)

\* ParseTypeTagInner.  What follows a struct's name is part of it; a name that
\* begins with a T is a generic's, also that of a struct whose address does
\* (parses is false), and a generic's type arguments are passed by.
RECURSIVE ParseTypeTagInner(_, _)
ParseTypeTagInner(str, types) ==
  LET inner == ParseTypeTagInner(Tail(str), types)
      rest == {str[i] : i \in 2 .. Len(str)}
      struct == StructTokens[str[1]]
  IN  CASE str = <<>> -> TagError
        [] Len(str) = 1 /\ str[1] \in PrimitiveTags ->
             IF types = <<>> THEN Outcome("ok", Primitive(str[1])) ELSE TagError
        [] str = <<"vector">> ->
             IF Len(types) = 1 THEN Outcome("ok", VectorTag(types[1])) ELSE TagError
        [] str[1] = "&" ->
             IF inner.res = "ok" THEN Outcome("ok", ReferenceTag(inner.tag)) ELSE TagError
        [] str = <<"T0">> -> Outcome("ok", GenericTag(0))
        [] /\ str[1] \in DOMAIN StructTokens
           /\ struct.parses
           /\ rest \cap ({"&"} \cup DOMAIN StructTokens) = {} ->
             Outcome("ok", StructTag(struct.address, struct.module, str, types))
        [] OTHER -> TagError

ParserInit(s) ==
  /\ input = s /\ cur = 1 /\ saved = <<>> /\ innerTypes = <<>> /\ curTypes = <<>>
  /\ currentStr = <<>> /\ expectedTypes = 1 /\ parsed = Outcome("running", NoTag)

StartParsing(s) ==
  /\ input' = s /\ cur' = 1 /\ saved' = <<>> /\ innerTypes' = <<>> /\ curTypes' = <<>>
  /\ currentStr' = <<>> /\ expectedTypes' = 1 /\ parsed' = Outcome("running", NoTag)

At(token) == parsed.res = "running" /\ cur <= Len(input) /\ input[cur] = token

Stop(outcome) == /\ parsed' = outcome
                 /\ UNCHANGED <<input, cur, saved, innerTypes, curTypes, currentStr, expectedTypes>>

Current == ParseTypeTagInner(currentStr, innerTypes)

\* Saves the state. The inner types of what came before stay.
OpenAngle ==
  /\ At("<")
  /\ saved' = Append(saved, [expectedTypes |-> expectedTypes, types |-> curTypes, str |-> currentStr])
  /\ currentStr' = <<>> /\ curTypes' = <<>> /\ expectedTypes' = 1 /\ cur' = cur + 1
  /\ UNCHANGED <<input, innerTypes, parsed>>

\* Mutant: the types saved are not brought back.
CloseAngleForgetting ==
  /\ At(">") /\ saved # <<>> /\ currentStr # <<>> /\ Current.res = "ok"
  /\ innerTypes' = Append(curTypes, Current.tag) /\ saved' = Front(saved)
  /\ curTypes' = <<>> /\ currentStr' = Last(saved).str
  /\ expectedTypes' = 1 /\ cur' = cur + 1
  /\ UNCHANGED <<input, parsed>>

CloseAngle ==
  /\ At(">")
  /\ LET types == IF currentStr = <<>> THEN curTypes ELSE Append(curTypes, Current.tag)
     IN  IF \/ currentStr # <<>> /\ Current.res # "ok"
            \/ saved = <<>>
            \/ expectedTypes # Len(types)
         THEN Stop(TagError)
         ELSE /\ innerTypes' = types /\ saved' = Front(saved)
              /\ curTypes' = Last(saved).types /\ currentStr' = Last(saved).str
              /\ expectedTypes' = Last(saved).expectedTypes /\ cur' = cur + 1
              /\ UNCHANGED <<input, parsed>>

Comma ==
  /\ At(",")
  /\ IF saved = <<>> \/ currentStr = <<>> \/ Current.res # "ok" THEN Stop(TagError)
     ELSE /\ innerTypes' = <<>> /\ curTypes' = Append(curTypes, Current.tag) /\ currentStr' = <<>>
          /\ expectedTypes' = expectedTypes + 1 /\ cur' = cur + 1
          /\ UNCHANGED <<input, saved, parsed>>

\* A name ends here, and all spaces are skipped; the character after them is
\* looked at, also when there is none.
Space ==
  /\ At(" ")
  /\ LET rest == {i \in cur .. Len(input) : input[i] # " "}
         named == currentStr # <<>>
     IN  IF named /\ Current.res # "ok" THEN Stop(TagError)
         ELSE IF rest = {} THEN Stop(Outcome("panic", NoTag))
         ELSE IF named /\ input[Min(rest)] \notin {",", ">"} THEN Stop(TagError)
         ELSE /\ cur' = Min(rest)
              /\ IF named THEN /\ innerTypes' = <<>> /\ currentStr' = <<>>
                               /\ curTypes' = Append(curTypes, Current.tag)
                 ELSE UNCHANGED <<innerTypes, currentStr, curTypes>>
              /\ UNCHANGED <<input, saved, expectedTypes, parsed>>

Character ==
  /\ parsed.res = "running" /\ cur <= Len(input) /\ input[cur] \notin {"<", ">", ",", " "}
  /\ currentStr' = Append(currentStr, input[cur]) /\ cur' = cur + 1
  /\ UNCHANGED <<input, saved, innerTypes, curTypes, expectedTypes, parsed>>

EndOfInput ==
  /\ parsed.res = "running" /\ cur > Len(input)
  /\ Stop(IF saved # <<>> THEN TagError
          ELSE IF curTypes = <<>> THEN Current
          ELSE IF Len(curTypes) = 1 /\ currentStr = <<>> THEN Outcome("ok", curTypes[1])
          ELSE TagError)

ParserNext == OpenAngle \/ CloseAngle \/ Comma \/ Space \/ Character \/ EndOfInput

-----------------------------------------------------------------------------
(* The canonical form: TypeTag.String.                                      *)

RECURSIVE PrintTag(_)
PrintVectorTag(t) == <<"vector", "<">> \o PrintTag(t.of) \o <<">">>
PrintReferenceTag(t) == <<"&">> \o PrintTag(t.of)
PrintGenericTag(t) == <<"T0">>
PrintParams(params) == <<"<">> \o PrintTag(params[1])
                         \o FlattenSeq([i \in 1 .. Len(params) - 1 |-> <<",">> \o PrintTag(params[i + 1])])
                         \o <<">">>
PrintStructTag(t) == t.name \o IF t.params = <<>> THEN <<>> ELSE PrintParams(t.params)
PrintTag(t) == CASE t.tag = "vector"    -> PrintVectorTag(t)
                 [] t.tag = "reference" -> PrintReferenceTag(t)
                 [] t.tag = "generic"   -> PrintGenericTag(t)
                 [] t.tag = "struct"    -> PrintStructTag(t)
                 [] OTHER               -> <<t.tag>>
==============================================================================
