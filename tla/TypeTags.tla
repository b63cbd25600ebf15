------------------------------ MODULE TypeTags ------------------------------
(* Move's type tags and their BCS form: type TypeTag and its values.        *)
EXTENDS Bcs

CONSTANT AddressLength  \* 32

Address == [1 .. AddressLength -> Byte]

\* AccountZero, AccountOne: special addresses.
Account(n) == [i \in 1 .. AddressLength |-> IF i = AddressLength THEN n ELSE 0]

WriteAddress(a) == a
ReadAddress(d) == ReadFixedBytes(d, AddressLength)

-----------------------------------------------------------------------------

Primitive(t) == [tag |-> t]
PrimitiveTags == {"bool", "u8", "u16", "u32", "u64", "u128", "u256", "address", "signer"}
VectorTag(of) == [tag |-> "vector", of |-> of]
ReferenceTag(of) == [tag |-> "reference", of |-> of]
GenericTag(num) == [tag |-> "generic", num |-> num]
StructTag(address, module, name, params) ==
  [tag |-> "struct", address |-> address, module |-> module, name |-> name, params |-> params]

TypeTagVariant == [bool |-> 0, u8 |-> 1, u64 |-> 2, u128 |-> 3, address |-> 4, signer |-> 5,
                   vector |-> 6, struct |-> 7, u16 |-> 8, u32 |-> 9, u256 |-> 10,
                   generic |-> 254, reference |-> 255]

\* References and generics have a variant and nothing after it.
RECURSIVE WriteTag(_)
WriteVectorTag(t) == WriteTag(t.of)
WriteStructTag(t) == WriteAddress(t.address) \o WriteBytes(t.module) \o WriteBytes(t.name)
                       \o WriteSequence(t.params, WriteTag)
WriteTag(t) == Uleb128[TypeTagVariant[t.tag]] \o CASE t.tag = "vector" -> WriteVectorTag(t)
                                                   [] t.tag = "struct" -> WriteStructTag(t)
                                                   [] OTHER -> <<>>

\* The variants of references and generics are not read back.
RECURSIVE ReadTag(_)
ReadVectorTag(d) == Make(ReadTag(d), VectorTag)
ReadTags(d) == ReadSequence(d, ReadTag)
ReadStructTag(d) == Make(First4(d, ReadAddress, ReadBytes, ReadBytes, ReadTags),
                         LAMBDA v : StructTag(v[1], v[2], v[3], v[4]))
Readable(n) == {t \in DOMAIN TypeTagVariant \ {"generic", "reference"} : TypeTagVariant[t] = n}
ReadTagNamed(d, name) == CASE name = "vector" -> ReadVectorTag(d)
                           [] name = "struct" -> ReadStructTag(d)
                           [] OTHER           -> With(d, Primitive(name))
ReadTag(d) == Then(ReadUleb128(d), LAMBDA variant :
                IF Readable(variant.val) = {} THEN Fail(variant)
                ELSE ReadTagNamed(variant, CHOOSE t \in Readable(variant.val) : TRUE))
==============================================================================
