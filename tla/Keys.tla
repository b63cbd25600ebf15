-------------------------------- MODULE Keys --------------------------------
(***************************************************************************)
(* Single public keys and signatures of package crypto, their wrapping as  *)
(* AnyPublicKey and AnySignature, and authentication keys.  A key and a    *)
(* signature are a type and bytes; curve membership is left out.           *)
(***************************************************************************)
EXTENDS Payloads

CONSTANTS PublicKeyLength,  \* by type: 32 and 65
          SignatureLength   \* by type: 64 and 64

KeyTypes == {"Ed25519", "Secp256k1"}

ASSUME KeysAssumption ==
  /\ PublicKeyLength \in [KeyTypes -> Nat \ {0}]
  /\ SignatureLength \in [KeyTypes -> Nat \ {0}]

\* Digests stand for SHA3 and for what the curves compute: a number made of the
\* length and every byte, by a tree of sums whose leaves they are. The
\* instances see no collision of it.
Digest(bytes, length) ==
  LET leaves == <<Len(bytes)>> \o bytes
      n == Len(leaves)
      hash[i \in 1 .. 2 * n - 1] ==
        IF i >= n THEN leaves[i - n + 1] + 1
        ELSE (31 * hash[2 * i] + (37 + 2 * i) * hash[2 * i + 1] + i) % Base ^ 4
  IN  LittleEndian(hash[1], length)

Sha3256Hash(bytes) == Digest(bytes, AddressLength)

Signature(type, bytes) == [type |-> type, bytes |-> Digest(bytes, SignatureLength[type])]

\* Secp256k1 signs the hash of a message.
Ed25519SignMessage(key, msg) == Signature("Ed25519", key.bytes \o msg)
Secp256k1SignMessage(key, msg) == Signature("Secp256k1", key.bytes \o Sha3256Hash(msg))

\* A signature of another type is not one.
Ed25519Verify(key, msg, sig) == sig = Ed25519SignMessage(key, msg)
Secp256k1Verify(key, msg, sig) == sig = Secp256k1SignMessage(key, msg)

SignMessage(key, msg) == IF key.type = "Ed25519" THEN Ed25519SignMessage(key, msg)
                         ELSE Secp256k1SignMessage(key, msg)
VerifyKey(key, msg, sig) == IF key.type = "Ed25519" THEN Ed25519Verify(key, msg, sig)
                            ELSE Secp256k1Verify(key, msg, sig)

-----------------------------------------------------------------------------
(* The BCS forms: bytes of the one length that the type has, but for a      *)
(* Secp256k1 key, which is read in its compressed form as well.             *)

WriteKey(k) == WriteBytes(k.bytes)

ReadMaterial(d, type, length) ==
  Then(ReadBytes(d), LAMBDA bytes : IF Ok(bytes) /\ Len(bytes.val) # length THEN Fail(bytes)
                                    ELSE With(bytes, [type |-> type, bytes |-> bytes.val]))

ReadEd25519PublicKey(d) == ReadMaterial(d, "Ed25519", PublicKeyLength["Ed25519"])

\* ParsePubKey: both coordinates of a point, or the first one and the sign of
\* the second, which the curve gives. A key is kept with both.
CompressedLength == (PublicKeyLength["Secp256k1"] + 1) \div 2
IsCompressed(b) == Len(b) = CompressedLength /\ b[1] \in {2, 3}
IsUncompressed(b) == Len(b) = PublicKeyLength["Secp256k1"] /\ b[1] \in {4, 6, 7}
ParsePubKey(b) ==
  [type |-> "Secp256k1",
   bytes |-> <<4>> \o Tail(b) \o IF IsCompressed(b) THEN Digest(b, CompressedLength - 1) ELSE <<>>]

\* The error of the bytes is not looked at, which are none then or zeros.
ReadSecp256k1PublicKey(d) ==
  Then(ReadBytes(d), LAMBDA bytes : IF IsCompressed(bytes.val) \/ IsUncompressed(bytes.val)
                                    THEN Make(bytes, ParsePubKey) ELSE Fail(bytes))

ReadEd25519Signature(d) == ReadMaterial(d, "Ed25519", SignatureLength["Ed25519"])
ReadSecp256k1Signature(d) == ReadMaterial(d, "Secp256k1", SignatureLength["Secp256k1"])

AnyVariant == [Ed25519 |-> 0, Secp256k1 |-> 1]

\* AnyPublicKey and AnySignature: the variant tells the type.
WriteAnyKey(k) == Uleb128[AnyVariant[k.type]] \o WriteKey(k)
WriteAnySignature(s) == Uleb128[AnyVariant[s.type]] \o WriteKey(s)

ReadAnyKey(d) ==
  Then(ReadUleb128(d), LAMBDA variant : CASE variant.val = 0 -> ReadEd25519PublicKey(variant)
                                          [] variant.val = 1 -> ReadSecp256k1PublicKey(variant)
                                          [] OTHER           -> Fail(variant))

ReadAnySignature(d) ==
  Then(ReadUleb128(d), LAMBDA variant : CASE variant.val = 0 -> ReadEd25519Signature(variant)
                                          [] variant.val = 1 -> ReadSecp256k1Signature(variant)
                                          [] OTHER           -> Fail(variant))
==============================================================================
