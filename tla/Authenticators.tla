--------------------------- MODULE Authenticators ---------------------------
(***************************************************************************)
(* Account authenticators: the public keys and signatures of one account.  *)
(* One record has the fields of every kind: keys and sigs are sequences,   *)
(* of one member for single keys, and a kind without thresholds or bitmap  *)
(* has 0 and <<>> there.  A nil signature is Nil.                          *)
(***************************************************************************)
EXTENDS Keys, KeyBitmap

CONSTANT MultiEd25519BitmapLen  \* 4

ASSUME AuthenticatorAssumption ==
  /\ 2 ^ Bits = Base
  /\ MultiEd25519BitmapLen \in 1 .. SignatureLength["Ed25519"] - 1

Nil == [type |-> "nil", bytes |-> <<>>]

Kinds == <<"Ed25519", "MultiEd25519", "SingleSender", "MultiKey", "MultiAuthKey">>
KindVariant(kind) == (CHOOSE i \in DOMAIN Kinds : Kinds[i] = kind) - 1

Authenticator(kind, keys, required, sigs, bitmap) ==
  [kind |-> kind, keys |-> keys, required |-> required, sigs |-> sigs, bitmap |-> bitmap]

AllBytes(s) == FlattenSeq([i \in DOMAIN s |-> s[i].bytes])

-----------------------------------------------------------------------------
(* BCS.                                                                     *)

\* The public keys' bytes, and the signatures'.
MultiEd25519KeyBytes(a) == AllBytes(a.keys) \o <<a.required>>
WriteMultiKey(a) == WriteSequence(a.keys, WriteAnyKey) \o U8(a.required)

MultiEd25519SignatureBytes(a) == AllBytes(a.sigs) \o a.bitmap
WriteBitmap(bitmap) == WriteBytes(bitmap)
WriteMultiKeySignature(a) == WriteSequence(a.sigs, WriteAnySignature) \o WriteBitmap(a.bitmap)

\* One operator for each kind: the keys, then the signatures.
WriteEd25519(a) == WriteKey(a.keys[1]) \o WriteKey(a.sigs[1])
WriteMultiEd25519(a) == WriteBytes(MultiEd25519KeyBytes(a)) \o WriteBytes(MultiEd25519SignatureBytes(a))
WriteSingleSender(a) == WriteAnyKey(a.keys[1]) \o WriteAnySignature(a.sigs[1])
WriteMultiKeyAuth(a) == WriteMultiKey(a) \o WriteMultiKeySignature(a)
WriteMultiAuthKey(a) == WriteSequence(a.keys, WriteAnyKey) \o WriteSequence(a.sigs, WriteAnySignature)

WriteInner(a) == CASE a.kind = "Ed25519"      -> WriteEd25519(a)
                   [] a.kind = "MultiEd25519" -> WriteMultiEd25519(a)
                   [] a.kind = "SingleSender" -> WriteSingleSender(a)
                   [] a.kind = "MultiKey"     -> WriteMultiKeyAuth(a)
                   [] a.kind = "MultiAuthKey" -> WriteMultiAuthKey(a)
WriteAuthenticator(a) == Uleb128[KindVariant(a.kind)] \o WriteInner(a)

\* The bytes of the public key, and the scheme that tells authentication keys
\* of one kind from another's. The last kind has no key of its own.
PublicKeyBytes(a) == CASE a.kind = "Ed25519"      -> a.keys[1].bytes
                       [] a.kind = "MultiEd25519" -> MultiEd25519KeyBytes(a)
                       [] a.kind = "MultiKey"     -> WriteMultiKey(a)
                       [] OTHER                   -> WriteAnyKey(a.keys[1])
FromBytesAndScheme(bytes, scheme) == Sha3256Hash(bytes \o <<scheme>>)
AuthKey(a) == FromBytesAndScheme(PublicKeyBytes(a), KindVariant(a.kind))

\* Addresses of objects are derived from another address, with schemes of their own.
DeriveObjectScheme == Base - 4
NamedObjectScheme == Base - 2
DerivedAddress(address, seed, scheme) == FromBytesAndScheme(address \o seed, scheme)
NamedObjectAddress(address, seed) == DerivedAddress(address, seed, NamedObjectScheme)
ObjectAddressFromObject(address, object) == DerivedAddress(address, object, DeriveObjectScheme)

Chunk(bytes, i, length) == SubSeq(bytes, length * (i - 1) + 1, length * i)

\* MultiEd25519PublicKey.FromBytes: the last byte is the threshold; bytes that
\* are left over are passed by, and no bytes at all panic.
ReadMultiEd25519Key(d) ==
  LET length == PublicKeyLength["Ed25519"]
      key(b, i) == [type |-> "Ed25519", bytes |-> Chunk(b, i, length)]
      keys(b) == [keys |-> [i \in 1 .. Len(b) \div length |-> key(b, i)], required |-> Last(b)]
      keysOf(bytes) == IF ~Ok(bytes) THEN bytes
                       ELSE IF bytes.val = <<>> THEN Panic(bytes) ELSE Make(bytes, keys)
  IN  keysOf(ReadBytes(d))

\* MultiEd25519Signature: the error of the bytes is not looked at, and fewer
\* bytes than the bitmap's panic.  When the bytes are signatures exactly, the
\* last one is not read.
ReadMultiEd25519Signature(d) ==
  LET length == SignatureLength["Ed25519"]
      sig(b, i) == IF i * length < Len(b) THEN [type |-> "Ed25519", bytes |-> Chunk(b, i, length)]
                   ELSE Nil
      sigs(b) == [sigs |-> [i \in 1 .. Len(b) \div length |-> sig(b, i)],
                  bitmap |-> SubSeq(b, Len(b) - MultiEd25519BitmapLen + 1, Len(b))]
      sigsOf(bytes) == IF Len(bytes.val) < MultiEd25519BitmapLen THEN Panic(bytes) ELSE Make(bytes, sigs)
  IN  sigsOf(ReadBytes(d))

ReadBitmap(d) == Then(ReadUleb128(d), LAMBDA n : IF n.val > BitmapBytes THEN Fail(n)
                                                 ELSE ReadFixedBytes(n, n.val))

\* The sequences of these are read to the end, failing or not.
ReadAnyKeys(d) == ReadAll(d, ReadAnyKey)
ReadAnySignatures(d) == ReadAll(d, ReadAnySignature)

ReadMultiKeyKeys(d) == Make(First2(d, ReadAnyKeys, ReadU8),
                            LAMBDA v : [keys |-> v[1], required |-> v[2]])
ReadMultiKeySignature(d) == Make(First2(d, ReadAnySignatures, ReadBitmap),
                                 LAMBDA v : [sigs |-> v[1], bitmap |-> v[2]])

\* A signature is read only behind a key.
KeyThenSignature(d, ReadKey(_), ReadSignature(_), F(_, _)) ==
  Then(First(d, ReadKey), LAMBDA key : IF ~Ok(key) THEN key
                                       ELSE Make(And(key, ReadSignature), LAMBDA v : F(v[1], v[2])))

OfMany(kind, key, sig) == Authenticator(kind, key.keys, key.required, sig.sigs, sig.bitmap)
ReadMultiKey(d) == KeyThenSignature(d, ReadMultiKeyKeys, ReadMultiKeySignature,
                                    LAMBDA key, sig : OfMany("MultiKey", key, sig))
ReadMultiEd25519(d) == KeyThenSignature(d, ReadMultiEd25519Key, ReadMultiEd25519Signature,
                                        LAMBDA key, sig : OfMany("MultiEd25519", key, sig))
ReadMultiAuthKey(d) == Make(First2(d, ReadAnyKeys, ReadAnySignatures),
                            LAMBDA v : Authenticator("MultiAuthKey", v[1], 0, v[2], <<>>))

OfOne(kind, key, sig) == Authenticator(kind, <<key>>, 0, <<sig>>, <<>>)
ReadEd25519(d) == KeyThenSignature(d, ReadEd25519PublicKey, ReadEd25519Signature,
                                   LAMBDA key, sig : OfOne("Ed25519", key, sig))
ReadSingleSender(d) == KeyThenSignature(d, ReadAnyKey, ReadAnySignature,
                                        LAMBDA key, sig : OfOne("SingleSender", key, sig))

ReadInner(d, kind) == CASE kind = "Ed25519"      -> ReadEd25519(d)
                        [] kind = "MultiEd25519" -> ReadMultiEd25519(d)
                        [] kind = "SingleSender" -> ReadSingleSender(d)
                        [] kind = "MultiKey"     -> ReadMultiKey(d)
                        [] kind = "MultiAuthKey" -> ReadMultiAuthKey(d)

\* The variant is a uint8: what is above it is lost.
ReadAuthenticator(d) ==
  Then(ReadUleb128(d), LAMBDA variant :
    LET kind == variant.val % Modulo("u8")
    IN  IF ~Ok(variant) THEN variant
        ELSE IF kind >= Len(Kinds) THEN Fail(variant)
        ELSE ReadInner(variant, Kinds[kind + 1]))

-----------------------------------------------------------------------------
(* Making and verifying.                                                    *)

\* NewMultiKeySignature: in order of the keys' indices, which count from 0;
\* a key that AddKey refuses fails the signature.
MultiKeySignature(indexed) ==
  LET sorted == SortSeq(indexed, LAMBDA a, b : a.index < b.index)
      add(r, s) == IF r.failed \/ AddKeyFails(r.bitmap, s.index) THEN [r EXCEPT !.failed = TRUE]
                   ELSE [r EXCEPT !.sigs = Append(@, s.sig), !.bitmap = AddKey(@, s.index)]
  IN  FoldLeft(add, [failed |-> FALSE, sigs |-> <<>>, bitmap |-> <<>>], sorted)

\* The first check of a sequence that does not pass decides.
FirstNot(checks) == LET bad == {i \in DOMAIN checks : checks[i] # "accepted"}
                    IN  IF bad = {} THEN "accepted" ELSE checks[Min(bad)]

Verdict(b) == IF b THEN "accepted" ELSE "refused"

\* Every key wants the signature at its place, whatever the bitmap says.
VerifyMultiEd25519(a, msg) ==
  LET verified == {i \in DOMAIN a.keys : VerifyKey(a.keys[i], msg, a.sigs[i])}
  IN  IF \E i \in DOMAIN a.keys : i > Len(a.sigs) \/ a.sigs[i] = Nil THEN "panic"
      ELSE Verdict(Cardinality(verified) >= a.required)

\* Only the signatures of the keys that the bitmap is seen to hold are looked
\* at; the others count.
VerifyMultiKey(a, msg) ==
  LET indices == Indices(a.bitmap)
      check(i) == IF indices[i] >= Len(a.keys) \/ i > Len(a.sigs) THEN "panic"
                  ELSE Verdict(VerifyKey(a.keys[indices[i] + 1], msg, a.sigs[i]))
  IN  IF a.required > Len(a.sigs) THEN "refused"
      ELSE FirstNot([i \in DOMAIN indices |-> check(i)])

VerifyMultiAuthKey(a, msg) ==
  Verdict(Len(a.keys) = Len(a.sigs) /\ \A i \in DOMAIN a.keys : VerifyKey(a.keys[i], msg, a.sigs[i]))

VerifyAuthenticator(a, msg) ==
  CASE a.kind = "MultiEd25519" -> VerifyMultiEd25519(a, msg)
    [] a.kind = "MultiKey"     -> VerifyMultiKey(a, msg)
    [] a.kind = "MultiAuthKey" -> VerifyMultiAuthKey(a, msg)
    [] OTHER                   -> Verdict(VerifyKey(a.keys[1], msg, a.sigs[1]))
==============================================================================
