------------------------------- MODULE TSMuxer -------------------------------
(***************************************************************************)
(* TSMuxer of format/ts/muxer.rs: the streams it has registered, their     *)
(* continuity counters, and the TS packets it has written for each.  A     *)
(* write that fails leaves the rest of the packet unwritten.               *)
(***************************************************************************)
EXTENDS Integers, Sequences

CONSTANTS
  PacketSize,  \* TS_PACKET_SIZE, 188 in the code
  HeaderSize,  \* 4 in the code
  CounterMod   \* values of a continuity counter, 16

ASSUME MuxerAssumption ==
  /\ PacketSize \in Nat /\ HeaderSize \in Nat /\ HeaderSize + 1 < PacketSize
  /\ CounterMod \in Nat \ {0}

VARIABLES
  registered,           \* codec types of the streams, which the PMT lists
  continuity_counters,
  output                \* TS packets written for each of them

muxvars == <<registered, continuity_counters, output>>

MuxInit == registered = <<>> /\ continuity_counters = <<>> /\ output = <<>>

\* Streams are registered before the tables are written, so also by a call
\* that fails, and come on top of those registered before.
Register(types) ==
  /\ registered' = registered \o types
  /\ continuity_counters' = continuity_counters \o [i \in DOMAIN types |-> 0]
  /\ output' = output \o [i \in DOMAIN types |-> <<>>]

adaptation_field_size(offset) == IF offset = 0 THEN 1 ELSE 0

max_payload_size(offset) == PacketSize - HeaderSize - adaptation_field_size(offset)

payload_size(len, offset) ==
  IF len - offset < max_payload_size(offset) THEN len - offset ELSE max_payload_size(offset)

stuffing_size(len, offset) == max_payload_size(offset) - payload_size(len, offset)

\* The length byte of an adaptation field is counted nowhere.
written_size(len, offset) ==
  HeaderSize + payload_size(len, offset)
  + LET field == adaptation_field_size(offset) + stuffing_size(len, offset)
    IN  IF field > 0 THEN 1 + field ELSE 0

\* Where the k-th TS packet of a packet begins, and how many there are.
OffsetOf(k) == IF k = 1 THEN 0 ELSE max_payload_size(0) + (k - 2) * max_payload_size(1)

PieceCount(len) ==
  IF len = 0 THEN 0 ELSE CHOOSE k \in 1 .. len : OffsetOf(k) < len /\ len <= OffsetOf(k + 1)

CounterUncut(i, k) == continuity_counters[i] + k

Counter(i, k) == (continuity_counters[i] + k) % CounterMod

Piece(pkt, k) ==
  [start |-> OffsetOf(k) = 0, counter |-> Counter(pkt.stream_index, k),
   source |-> pkt.source, pts |-> pkt.pts, len |-> pkt.len, offset |-> OffsetOf(k),
   bytes |-> payload_size(pkt.len, OffsetOf(k)), size |-> written_size(pkt.len, OffsetOf(k))]

\* The first n TS packets of pkt are written.
Writes(pkt, n, taken) ==
  /\ output' = [output EXCEPT ![pkt.stream_index] =
                  @ \o [k \in 1 .. n |-> Piece(pkt, k)]]
  /\ continuity_counters' = [continuity_counters EXCEPT ![pkt.stream_index] =
                               Counter(pkt.stream_index, taken)]
  /\ UNCHANGED registered

write_packet(pkt) == Writes(pkt, PieceCount(pkt.len), PieceCount(pkt.len))

TakenWhenWritten(n) == n

\* A counter is taken before each write, so also for the one that fails.
TakenBefore(n) == n + 1

WriteFails(pkt, n) == n < PieceCount(pkt.len) /\ Writes(pkt, n, TakenBefore(n))
==============================================================================
