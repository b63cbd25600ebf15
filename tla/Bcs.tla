--------------------------------- MODULE Bcs --------------------------------
(***************************************************************************)
(* The BCS codec of package bcs.  A serializer is the sequence of bytes it *)
(* has written, so a Marshal function is an operator from values to byte   *)
(* sequences.  A deserializer is a record of its source, its position, its *)
(* error and, in this model, the value read last: an Unmarshal function is *)
(* an operator from deserializers to deserializers.  An error stays; reads *)
(* that follow it go on all the same, and give zero values when they fail. *)
(* "panic" is the error of code that has panicked.                         *)
(*                                                                         *)
(* Bytes and numbers keep their order of sizes but are smaller than Go's:  *)
(* a byte has Base values and an integer type the bytes that Width says.   *)
(***************************************************************************)
EXTENDS Integers, Sequences, SequencesExt, FiniteSetsExt

CONSTANTS Base,     \* 256
          Width,    \* Width["u64"], ..., in bytes
          UlebMax   \* largest value of an Uleb128, 2^32 - 1

IntTypes == {"u8", "u16", "u32", "u64", "u128", "u256"}

ASSUME BcsAssumption == /\ Base \in Nat /\ Base % 2 = 0 /\ Base >= 4
                        /\ Width \in [IntTypes -> Nat \ {0}] /\ Width["u8"] = 1
                        /\ UlebMax \in 0 .. Base ^ Width["u64"] - 1

Byte == 0 .. Base - 1
Modulo(type) == Base ^ Width[type]
Repeat(x, n) == [i \in 1 .. n |-> x]

-----------------------------------------------------------------------------
(* Serializer.                                                              *)

LittleEndian(n, width) == [i \in 1 .. width |-> (n \div Base ^ (i - 1)) % Base]

WriteInt(type, n) == LittleEndian(n, Width[type])
U8(n) == WriteInt("u8", n)
U64(n) == WriteInt("u64", n)
Bool(b) == U8(IF b THEN 1 ELSE 0)

\* The upper half of the byte values says that another byte follows.
Group == Base \div 2

Uleb128[n \in Nat] ==
  IF n < Group THEN <<n>> ELSE <<(n % Group) + Group>> \o Uleb128[n \div Group]

WriteBytes(b) == Uleb128[Len(b)] \o b

WriteSequence(s, Write(_)) ==
  Uleb128[Len(s)] \o FlattenSeq([i \in DOMAIN s |-> Write(s[i])])

\* Serialized holds bytes that are BCS already; a script argument made of one
\* is told by its variant.
Serialized(b) == WriteBytes(b)
SerializedForScriptFunction(b) == Uleb128[9] \o Serialized(b)

-----------------------------------------------------------------------------
(* Deserializer.                                                            *)

NewDeserializer(bytes) == [src |-> bytes, pos |-> 0, err |-> "none", val |-> 0]

Ok(d) == d.err = "none"
Remaining(d) == Len(d.src) - d.pos
With(d, v) == [d EXCEPT !.val = v]
Fail(d) == [d EXCEPT !.err = IF @ = "panic" THEN @ ELSE "error"]
Panic(d) == [d EXCEPT !.err = "panic"]

\* What is done with what was read.
Then(d, Do(_)) == Do(d)

\* A value read behind the others, values read in a row, and what they make.
Behind(d, read) == With(read, Append(d.val, read.val))
First(d, Read(_)) == Behind(With(d, <<>>), Read(d))
And(d, Read(_)) == Behind(d, Read(d))
First2(d, A(_), B(_)) == And(First(d, A), B)
First4(d, A(_), B(_), C(_), D(_)) == And(And(First2(d, A, B), C), D)
Make(d, F(_)) == IF d.err = "panic" THEN d ELSE With(d, F(d.val))

Taken(d, n) == SubSeq(d.src, d.pos + 1, d.pos + n)
Skip(d, n) == [d EXCEPT !.pos = @ + n]

\* The value of a little-endian string of digits.
Digits(s, base) ==
  LET from[i \in 1 .. Len(s) + 1] == IF i > Len(s) THEN 0 ELSE s[i] + base * from[i + 1]
  IN  from[1]

ReadSized(d, width, zero) == IF width > Remaining(d) THEN With(Fail(d), zero)
                             ELSE With(Skip(d, width), Digits(Taken(d, width), Base))

ReadInt(d, type) == ReadSized(d, Width[type], IF type \in {"u128", "u256"} THEN -1 ELSE 0)
ReadU8(d) == ReadInt(d, "u8")
ReadU64(d) == ReadInt(d, "u64")

ReadBool(d) == LET b == ReadU8(d)
               IN  IF Remaining(d) > 0 /\ b.val \notin {0, 1} THEN With(Fail(b), FALSE)
                   ELSE With(b, b.val = 1)

\* Groups of which some bit is still within a uint64.
UlebGroups == CHOOSE n \in 1 .. 2 * Width["u64"] :
                Group ^ n >= Modulo("u64") /\ Group ^ (n - 1) < Modulo("u64")

\* The number ends with the first byte that says so, or as soon as it is no
\* less than the maximum, whatever that byte says; zero groups may follow it,
\* and what is shifted out of a uint64 is lost.
ReadUleb128(d) ==
  LET kept(n) == IF n > UlebGroups THEN UlebGroups ELSE n
      value(n) == Digits([i \in 1 .. kept(n) |-> d.src[d.pos + i] % Group], Group) % Modulo("u64")
      ends(n) == d.src[d.pos + n] < Group \/ value(n) >= UlebMax
      isFirst(n) == ends(n) /\ \A m \in 1 .. n - 1 : ~ends(m)
      read(n) == IF value(n) > UlebMax THEN With(Fail(Skip(d, n)), 0) ELSE With(Skip(d, n), value(n))
  IN  IF \E n \in 1 .. Remaining(d) : isFirst(n)
      THEN read(CHOOSE n \in 1 .. Remaining(d) : isFirst(n))
      ELSE With(Fail(Skip(d, Remaining(d))), 0)

\* Mutant: what is left is read, however little it is.
ReadFixedBytesOrFewer(d, n) ==
  LET m == Min({n, Remaining(d)}) IN With(Skip(d, m), Taken(d, m) \o Repeat(0, n - m))

\* Bytes that are not there read as zeros, besides the error.
ReadFixedBytes(d, n) == IF n > Remaining(d) THEN With(Fail(d), Repeat(0, n))
                        ELSE With(Skip(d, n), Taken(d, n))

ReadBytes(d) == Then(ReadUleb128(d), LAMBDA n : IF Ok(n) THEN ReadFixedBytes(n, n.val) ELSE With(n, <<>>))

\* As many reads in a row as n says, one half after the other; a panic ends them.
Members(n, Read(_)) ==
  LET RECURSIVE read(_, _)
      read(r, count) ==
        CASE count = 0 -> r
          [] count = 1 -> Read(r)
          [] OTHER     -> LET half == read(r, count \div 2)
                          IN  IF half.err = "panic" THEN half ELSE read(half, count - count \div 2)
  IN  read(With(n, <<>>), n.val)

\* A sequence ends at the first member that fails, and is nil then.
OrNil(r) == IF Ok(r) THEN r ELSE With(r, <<>>)
ReadSequence(d, Read(_)) ==
  OrNil(Members(ReadUleb128(d), LAMBDA r : IF Ok(r) THEN And(r, Read) ELSE r))

\* A read of as many members as announced, whether or not one fails.
ReadAll(d, Read(_)) == Members(ReadUleb128(d), LAMBDA r : And(r, Read))

\* Deserialize: one item, and nothing after it.
Deserialize(bytes, Read(_)) ==
  Then(Read(NewDeserializer(bytes)), LAMBDA d : IF Ok(d) /\ Remaining(d) > 0 THEN Fail(d) ELSE d)
==============================================================================
