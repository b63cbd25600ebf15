----------------------------- MODULE KeyBitmap ------------------------------
(***************************************************************************)
(* MultiKeyBitmap: which keys of a multi-key signed.  A bitmap is the      *)
(* sequence of its bytes; index 0 is the leftmost bit of the first one.    *)
(***************************************************************************)
EXTENDS Integers, Sequences, SequencesExt

CONSTANTS Bits,        \* bits of a byte: 8
          BitmapBytes  \* MaxMultiKeyBitmapBytes: 4

ASSUME BitmapAssumption == Bits \in Nat \ {0} /\ BitmapBytes \in Nat

MaxMultiKeySignatures == BitmapBytes * Bits

NumByte(index) == (index \div Bits) + 1
Mask(index) == 2 ^ (Bits - 1 - (index % Bits))
IsSet(byte, mask) == (byte \div mask) % 2 = 1

\* The masked byte is compared with 1, which only the last bit of a byte is.
ContainsKey(bm, index) ==
  /\ index < MaxMultiKeySignatures
  /\ NumByte(index) <= Len(bm)
  /\ IsSet(bm[NumByte(index)], Mask(index)) /\ Mask(index) = 1

AddKeyFails(bm, index) == index >= MaxMultiKeySignatures \/ ContainsKey(bm, index)

AddKey(bm, index) ==
  LET grown == [i \in 1 .. (IF NumByte(index) > Len(bm) THEN NumByte(index) ELSE Len(bm)) |->
                  IF i <= Len(bm) THEN bm[i] ELSE 0]
  IN  [grown EXCEPT ![NumByte(index)] = IF IsSet(@, Mask(index)) THEN @ ELSE @ + Mask(index)]

Indices(bm) == SelectSeq([i \in 1 .. MaxMultiKeySignatures |-> i - 1], LAMBDA i : ContainsKey(bm, i))
==============================================================================
