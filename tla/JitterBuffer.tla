----------------------------- MODULE JitterBuffer -----------------------------
(***************************************************************************)
(* The jitter buffer of format/rtp/mod.rs: an ordered map from 16-bit      *)
(* sequence numbers to packets, with the bounds min_seq and max_seq that   *)
(* decide which packet pop may return and when a push is taken for a wrap  *)
(* of the sequence numbers.  The caller is arbitrary: any packet may be    *)
(* pushed and pop may be called at any time.                               *)
(***************************************************************************)
EXTENDS SeqNumbers, FiniteSets, Functions

CONSTANTS
  LowMark,     \* numbers below it are "just after" a wrap: 0x4000
  HighMark,    \* numbers above it are "just before" a wrap: 0xC000
  BufferSize,  \* buffer_size, the bound on the packets stored
  Payload      \* the contents a packet can have

ASSUME BufferAssumption ==
  /\ LowMark \in 0 .. SeqMod
  /\ HighMark \in LowMark .. SeqMod
  /\ BufferSize \in Nat

VARIABLES
  packets,     \* the stored packets, a function from their sequence numbers
  min_seq,     \* lower bound of the numbers; pop returns only this number
  max_seq,     \* upper bound of the numbers
  returned     \* what the last call returned

jbvars == <<packets, min_seq, max_seq, returned>>

Stored == DOMAIN packets

Result(status, seq) == [status |-> status, seq |-> seq]
Statuses == {"new", "Ok", "SequenceWrapped", "BufferOverflow", "Some", "None"}

JBTypeOK ==
  /\ Stored \subseteq SeqNums
  /\ packets \in [Stored -> Payload]
  /\ min_seq \in SeqNums
  /\ max_seq \in SeqNums
  /\ returned \in [status : Statuses, seq : SeqNums]

------------------------------------------------------------------------------
(* Helpers of push and pop; a mutated form precedes the operator it alters. *)

\* The second comparison of push's wrap test is lost.
WrapsOneSided(seq) == seq < LowMark /\ max_seq > HighMark

\* push: the packet is on the other side of a wrap from those stored.
Wraps(seq) ==
  \/ seq < LowMark /\ max_seq > HighMark
  \/ seq > HighMark /\ min_seq < LowMark

\* The bound admits one packet too many.
FullLate == Cardinality(Stored) > BufferSize

Full == Cardinality(Stored) >= BufferSize

\* The lower bound is not moved down for a packet that arrives late.
LowerKept(seq) == min_seq

\* The lower bound follows every packet.
LowerFollows(seq) == seq

LowerBound(seq) == IF seq < min_seq THEN seq ELSE min_seq
UpperBound(seq) == IF seq > max_seq THEN seq ELSE max_seq

\* The first key of the ordered map.
FirstKey(seq) == seq \in Stored /\ \A s \in Stored : seq <= s

\* The first packet comes out even when the one before it is missing.
PoppableSkipping(seq) == FirstKey(seq)

\* Any stored packet comes out.
PoppableAny(seq) == seq \in Stored

\* pop returns the first packet only when it is the one at the lower bound.
Poppable(seq) == FirstKey(seq) /\ seq = min_seq

Insert(seq, p) ==
  packets' = [s \in Stored \cup {seq} |-> IF s = seq THEN p ELSE packets[s]]

------------------------------------------------------------------------------
(* push: four outcomes.  The bounds are moved before the size is looked at, *)
(* so an overflow leaves them moved for a packet that is not stored.        *)

PushFirst(seq, p) ==
  /\ Stored = {}
  /\ min_seq' = seq
  /\ max_seq' = seq
  /\ Insert(seq, p)
  /\ returned' = Result("Ok", seq)

PushWrapped(seq) ==
  /\ Stored # {}
  /\ Wraps(seq)
  /\ returned' = Result("SequenceWrapped", seq)
  /\ UNCHANGED <<packets, min_seq, max_seq>>

PushOverflow(seq) ==
  /\ Stored # {}
  /\ ~Wraps(seq)
  /\ Full
  /\ min_seq' = LowerBound(seq)
  /\ max_seq' = UpperBound(seq)
  /\ returned' = Result("BufferOverflow", seq)
  /\ UNCHANGED packets

PushStored(seq, p) ==
  /\ Stored # {}
  /\ ~Wraps(seq)
  /\ ~Full
  /\ min_seq' = LowerBound(seq)
  /\ max_seq' = UpperBound(seq)
  /\ Insert(seq, p)
  /\ returned' = Result("Ok", seq)

Push(seq, p) ==
  \/ PushFirst(seq, p)
  \/ PushWrapped(seq)
  \/ PushOverflow(seq)
  \/ PushStored(seq, p)

PopSome(seq) ==
  /\ Poppable(seq)
  /\ packets' = Restrict(packets, Stored \ {seq})
  /\ min_seq' = Successor(min_seq)
  /\ returned' = Result("Some", seq)
  /\ UNCHANGED max_seq

PopNone ==
  /\ ~\E seq \in Stored : Poppable(seq)
  /\ returned' = Result("None", 0)
  /\ UNCHANGED <<packets, min_seq, max_seq>>

Pop == PopNone \/ \E seq \in SeqNums : PopSome(seq)

JBInit ==
  /\ packets = [s \in {} |-> 0]
  /\ min_seq = 0
  /\ max_seq = 0
  /\ returned = Result("new", 0)

JBNext == Pop \/ \E seq \in SeqNums, p \in Payload : Push(seq, p)

JBSpec == JBInit /\ [][JBNext]_jbvars

------------------------------------------------------------------------------
(* Properties. *)

\* The two bounds enclose every stored packet.  pop compares the first key
\* with min_seq and the wrap test reads both bounds, so a stored packet
\* outside them would be stuck or would defeat the test.
BoundsEncloseStored ==
  Stored # {} => \A s \in Stored : min_seq <= s /\ s <= max_seq

\* Packets from the two sides of a wrap of the sequence numbers are never
\* stored together: the map orders them by number, which would deliver the
\* newer before the older.
NoMixAcrossWrap ==
  ~\E s, t \in Stored : s < LowMark /\ t > HighMark

\* The most the buffer can hold: the first packet is stored without looking
\* at buffer_size, so a buffer of size zero holds one.
Capacity == IF BufferSize = 0 THEN 1 ELSE BufferSize

\* The number of packets stored never exceeds the buffer's size.
CapacityRespected == Cardinality(Stored) <= Capacity

\* A packet below every stored one is missing, so pop has nothing to return.
Stalled == Stored # {} /\ \A s \in Stored : min_seq < s

\* Once the buffer is full and waits for a missing packet it is dead: every
\* later push fails, every pop returns None, and no packet ever leaves.  The
\* code has no call that drops the gap (pop never skips, push refuses).
FullStallIsPermanent ==
  [][Full /\ Stalled => Full' /\ Stalled' /\ packets' = packets]_jbvars

\* The invariant that carries the proofs.
JBInv == JBTypeOK /\ BoundsEncloseStored /\ CapacityRespected

\* The buffer does what an ordered bounded buffer promises.
Promised == INSTANCE OrderedBuffer
              WITH Numbers <- SeqNums, pending <- packets
Ordered == Promised!ASpec
==============================================================================
