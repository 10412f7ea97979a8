-------------------------------- MODULE Bits ---------------------------------
(***************************************************************************)
(* The reads of BitReader in utils/bits.rs, as operators on a reader: the  *)
(* bits of a slice and the number of those read.  A read returns whether   *)
(* it succeeded, the value, and the reader it leaves, failed or not.       *)
(***************************************************************************)
EXTENDS Integers, Sequences, SequencesExt

CONSTANTS
  ByteBits,  \* bits in a byte, 8 in the code
  WordBits   \* bits in a u32, 32 in the code

ASSUME WidthAssumption == ByteBits \in Nat \ {0} /\ WordBits \in Nat \ {0}

Reader(bits) == [data |-> bits, pos |-> 0]

available_bits(r) == Len(r.data) - r.pos

\* 2 ^ n.
Power2[n \in Nat] == IF n = 0 THEN 1 ELSE 2 * Power2[n - 1]

Value(bits) ==
  LET value[n \in 0 .. Len(bits)] == IF n = 0 THEN 0 ELSE 2 * value[n - 1] + bits[n]
  IN  value[Len(bits)]

Advanced(r, n) == [r EXCEPT !.pos = @ + n]

Got(r, n, v) == [ok |-> TRUE, value |-> v, reader |-> Advanced(r, n)]

Failed(r, n) == [ok |-> FALSE, value |-> 0, reader |-> Advanced(r, n)]

\* Bits are taken one by one: a read past the end takes what is left.
read_bits(r, n) ==
  IF n > WordBits THEN Failed(r, 0)
  ELSE IF n > available_bits(r) THEN Failed(r, available_bits(r))
  ELSE Got(r, n, Value(SubSeq(r.data, r.pos + 1, r.pos + n)))

skip_bits(r, n) ==
  IF n > available_bits(r) THEN Failed(r, available_bits(r)) ELSE Got(r, n, 0)

align_byte(r) == Got(r, (ByteBits - (r.pos % ByteBits)) % ByteBits, 0)

LeadingZeros(r) ==
  SelectInSubSeq(r.data, r.pos + 1, Len(r.data), LAMBDA b : b = 1) - r.pos - 1

MaxZerosLate == WordBits

\* Zeros without a one run into the end, or into the limit before it.
MaxZeros == WordBits - 1

read_golomb(r) ==
  LET zeros == LeadingZeros(r)
      info == read_bits(Advanced(r, zeros + 1), zeros)
  IN  IF zeros < 0 \/ zeros > MaxZeros
      THEN Failed(r, IF zeros > MaxZeros \/ available_bits(r) > MaxZeros
                     THEN MaxZeros + 1 ELSE available_bits(r))
      ELSE IF ~info.ok THEN info
      ELSE [info EXCEPT !.value = (Power2[zeros] + @ - 1) % Power2[WordBits]]

Signed(k) == IF k % 2 = 1 THEN (k + 1) \div 2 ELSE -((k + 1) \div 2)

read_signed_golomb(r) ==
  LET k == read_golomb(r) IN IF k.ok THEN [k EXCEPT !.value = Signed(@)] ELSE k

------------------------------------------------------------------------------
(* The codes of the standards, written by an encoder.                       *)

BitAt(v, i) == (v \div Power2[i]) % 2

FixedCode(v, n) == [i \in 1 .. n |-> BitAt(v, n - i)]

Magnitude(v) == CHOOSE m \in 0 .. WordBits : Power2[m] <= v + 1 /\ v + 1 < Power2[m + 1]

GolombCode(v) ==
  LET m == Magnitude(v) IN [i \in 1 .. m |-> 0] \o FixedCode(v + 1, m + 1)

SignedCode(v) == GolombCode(IF v > 0 THEN 2 * v - 1 ELSE -2 * v)
==============================================================================
