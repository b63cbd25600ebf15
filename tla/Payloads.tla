------------------------------ MODULE Payloads ------------------------------
(***************************************************************************)
(* Transaction payloads and their BCS form.  A name is the sequence of its *)
(* bytes; a field that a kind of payload does not have is left out.        *)
(***************************************************************************)
EXTENDS TypeTags

ModuleId(address, name) == [address |-> address, name |-> name]
WriteModuleId(m) == WriteAddress(m.address) \o WriteBytes(m.name)
ReadModuleId(d) == Make(First2(d, ReadAddress, ReadBytes), LAMBDA v : ModuleId(v[1], v[2]))

-----------------------------------------------------------------------------
(* Entry functions.                                                         *)

EntryFunction(module, function, argTypes, args) ==
  [kind |-> "EntryFunction", module |-> module, function |-> function,
   argTypes |-> argTypes, args |-> args]

WriteEntryFunction(e) ==
  WriteModuleId(e.module) \o WriteBytes(e.function) \o WriteSequence(e.argTypes, WriteTag)
    \o WriteSequence(e.args, WriteBytes)

\* The arguments are read to the end, whether or not one fails.
ReadArguments(d) == ReadAll(d, ReadBytes)
ReadEntryFunction(d) == Make(First4(d, ReadModuleId, ReadBytes, ReadTags, ReadArguments),
                             LAMBDA v : EntryFunction(v[1], v[2], v[3], v[4]))

\* An entry function with the hash that keeps it from being run again.
SafeEntryFunction(e, hash) == [e EXCEPT !.kind = "SafeEntryFunction"] @@ [hash |-> hash]
WriteSafeEntryFunction(s) == WriteEntryFunction(s) \o s.hash
ReadSafeEntryFunction(d) == Make(First2(d, ReadEntryFunction, ReadAddress),  \* a hash is as long
                                 LAMBDA v : SafeEntryFunction(v[1], v[2]))

-----------------------------------------------------------------------------
(* Scripts.                                                                 *)

ScriptArgumentVariant == [u8 |-> 0, u64 |-> 1, u128 |-> 2, address |-> 3, u8vector |-> 4,
                          bool |-> 5, u16 |-> 6, u32 |-> 7, u256 |-> 8, serialized |-> 9]

ScriptArgument(variant, value) == [variant |-> variant, value |-> value]

\* Arguments whose Go type is not the one of their variant are left out.
WriteScriptArgument(a) ==
  Uleb128[ScriptArgumentVariant[a.variant]] \o
  CASE a.variant \in IntTypes                   -> WriteInt(a.variant, a.value)
    [] a.variant = "bool"                       -> Bool(a.value)
    [] a.variant = "address"                    -> WriteAddress(a.value)
    [] a.variant \in {"u8vector", "serialized"} -> WriteBytes(a.value)

Known(n) == {v \in DOMAIN ScriptArgumentVariant : ScriptArgumentVariant[v] = n}
ReadArgumentOf(d, variant) ==
  Make(CASE variant \in IntTypes -> ReadInt(d, variant)
         [] variant = "bool"     -> ReadBool(d)
         [] variant = "address"  -> ReadAddress(d)
         [] OTHER                -> ReadBytes(d),
       LAMBDA v : ScriptArgument(variant, v))

\* A variant that is not known is an argument without a value, and no error.
ReadScriptArgument(d) ==
  Then(ReadUleb128(d), LAMBDA r :
    IF Known(r.val) = {} THEN With(r, ScriptArgument("unknown", <<>>))
    ELSE ReadArgumentOf(r, CHOOSE v \in Known(r.val) : TRUE))

Script(code, argTypes, args) ==
  [kind |-> "Script", code |-> code, argTypes |-> argTypes, args |-> args]

WriteScript(s) == WriteBytes(s.code) \o WriteSequence(s.argTypes, WriteTag)
                    \o WriteSequence(s.args, WriteScriptArgument)

ReadScript(d) == Make(And(First2(d, ReadBytes, ReadTags), LAMBDA x : ReadSequence(x, ReadScriptArgument)),
                      LAMBDA v : Script(v[1], v[2], v[3]))

-----------------------------------------------------------------------------
(* On-chain multisig: payload is a sequence of at most one entry function.  *)

Multisig(address, payload) ==
  [kind |-> "Multisig", address |-> address, payload |-> payload]

\* MultisigTransactionPayload: an entry function behind its variant.
WriteMultisigPayload(e) == Uleb128[0] \o WriteEntryFunction(e)

ReadMultisigPayload(d) ==
  Then(ReadUleb128(d), LAMBDA variant : IF variant.val = 0 THEN ReadEntryFunction(variant)
                                        ELSE Fail(variant))

WriteMultisig(m) ==
  WriteAddress(m.address) \o IF m.payload = <<>> THEN Bool(FALSE)
                             ELSE Bool(TRUE) \o WriteMultisigPayload(m.payload[1])

ReadMultisig(d) ==
  Then(First2(d, ReadAddress, ReadBool), LAMBDA present :
    IF present.val[2] THEN Make(And(present, ReadMultisigPayload), LAMBDA v : Multisig(v[1], <<v[3]>>))
    ELSE Make(present, LAMBDA v : Multisig(v[1], <<>>)))

-----------------------------------------------------------------------------
(* TransactionPayload.  Module bundles are refused; safe scripts have a     *)
(* variant and no type.                                                     *)

PayloadVariant == [Script |-> 0, EntryFunction |-> 2, Multisig |-> 3, SafeEntryFunction |-> 5]

WritePayload(p) == Uleb128[PayloadVariant[p.kind]] \o
                   CASE p.kind = "Script"            -> WriteScript(p)
                     [] p.kind = "EntryFunction"     -> WriteEntryFunction(p)
                     [] p.kind = "Multisig"          -> WriteMultisig(p)
                     [] p.kind = "SafeEntryFunction" -> WriteSafeEntryFunction(p)

ReadPayload(d) ==
  Then(ReadUleb128(d), LAMBDA variant : CASE variant.val = 0 -> ReadScript(variant)
                                          [] variant.val = 2 -> ReadEntryFunction(variant)
                                          [] variant.val = 3 -> ReadMultisig(variant)
                                          [] variant.val = 5 -> ReadSafeEntryFunction(variant)
                                          [] OTHER           -> Fail(variant))
==============================================================================
