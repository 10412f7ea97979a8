------------------------------ MODULE BitReader ------------------------------
(***************************************************************************)
(* BitReader of utils/bits.rs: reads of any kind, one after another, over  *)
(* one slice, going on after a read that failed.                           *)
(***************************************************************************)
EXTENDS Bits

CONSTANT Slices  \* the slices read, of whole bytes

ASSUME SlicesAssumption ==
  /\ Slices \subseteq Seq({0, 1})
  /\ \A s \in Slices : Len(s) % ByteBits = 0

VARIABLES
  reader,    \* the BitReader
  last_read  \* the last read: what was asked, from where, and the outcome

bitvars == <<reader, last_read>>

NoRead == [ask |-> "none", n |-> 0, from |-> 0, ok |-> TRUE, value |-> 0]

BitsInit ==
  /\ reader = Reader(<<>>)
  /\ last_read = NoRead

\* BitReader::new.
Open ==
  /\ reader = Reader(<<>>) /\ last_read = NoRead
  /\ \E s \in Slices : reader' = Reader(s)
  /\ UNCHANGED last_read

Read(ask, n, outcome) ==
  /\ reader' = outcome.reader
  /\ last_read' = [ask |-> ask, n |-> n, from |-> reader.pos,
                   ok |-> outcome.ok, value |-> outcome.value]

ReadBits == \E n \in {0, 1, 3, WordBits, WordBits + 1} : Read("bits", n, read_bits(reader, n))

ReadGolomb == Read("golomb", 0, read_golomb(reader))

ReadSigned == Read("signed", 0, read_signed_golomb(reader))

SkipBits == \E n \in {1, WordBits + 2} : Read("skip", n, skip_bits(reader, n))

AlignByte == Read("align", 0, align_byte(reader))

BitsNext == Open \/ ReadBits \/ ReadGolomb \/ ReadSigned \/ SkipBits \/ AlignByte

------------------------------------------------------------------------------
(* What a read took, and the code of what it gave.                          *)

CodeOf(read) ==
  CASE read.ask = "bits"   -> FixedCode(read.value, read.n)
    [] read.ask = "golomb" -> GolombCode(read.value)
    [] read.ask = "signed" -> SignedCode(read.value)

\* A code of u32 starts at position from of data.
HasCode(data, from) ==
  \E m \in 0 .. WordBits - 1 :
    /\ from + 2 * m + 1 <= Len(data)
    /\ data[from + m + 1] = 1
    /\ \A i \in from + 1 .. from + m : data[i] = 0

Taken(read) == SubSeq(reader.data, read.from + 1, reader.pos)

\* A read that succeeds has taken exactly the code of the value it returns, in
\* a u32; one that fails did so because none was there, and whatever it took it
\* stays inside the slice: a word too wide takes nothing, a read past the end
\* takes all.  The reads of bits.rs, with the wrap of their arithmetic.
ReadsExact ==
  /\ reader.pos \in last_read.from .. Len(reader.data)
  /\ last_read.ask \in {"golomb", "signed"} =>
       (last_read.ok <=> HasCode(reader.data, last_read.from))
  /\ last_read.ok /\ last_read.ask \in {"bits", "golomb", "signed"} =>
       Taken(last_read) = CodeOf(last_read)
  /\ ~last_read.ok /\ last_read.ask \in {"bits", "skip"} =>
       \/ last_read.n > WordBits /\ last_read.ask = "bits" /\ Taken(last_read) = <<>>
       \/ available_bits(reader) = 0 /\ Len(Taken(last_read)) < last_read.n
  /\ last_read.ask = "align" =>
       reader.pos % ByteBits = 0 /\ Len(Taken(last_read)) < ByteBits
==============================================================================
