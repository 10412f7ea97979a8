----------------------------- MODULE H264Decoder -----------------------------
(***************************************************************************)
(* codec/h264: NALUnit::find_units cuts a packet at its start codes, and   *)
(* H264Decoder keeps the parameter sets it meets and passes on a packet    *)
(* with a slice.  A packet is a sequence of units as an encoder wrote      *)
(* them, or a few bytes; a unit is its header byte, which is its type, and *)
(* a payload without a start code in it.                                   *)
(***************************************************************************)
EXTENDS Integers, Sequences, SequencesExt

CONSTANTS
  MaxUnits,  \* bound of the model: units of a packet
  Payloads   \* what stands in units behind their headers

StartsAt(data, i) == SubSeq(data, i, i + 2) = <<0, 0, 1>>

\* An encoder keeps start codes out of a payload, and no payload ends in a zero.
ASSUME PayloadsAssumption ==
  /\ MaxUnits \in Nat /\ Payloads # {} /\ Payloads \subseteq Seq(Nat)
  /\ \A p \in Payloads : /\ p # <<>> /\ p[Len(p)] # 0
                         /\ \A i \in 1 .. Len(p) - 2 : ~StartsAt(p, i)

VARIABLES
  h264,   \* the fields sps and pps
  frame,  \* what the last decode returned
  wrote   \* history: the parameter sets the decoder was sent, and its answer

h264vars == <<h264, frame, wrote>>

NoSet == <<>>
NoSets == [sps |-> NoSet, pps |-> NoSet]
NoFrame == [status |-> "none", key |-> FALSE]

H264Init == h264 = NoSets /\ frame = NoFrame /\ wrote = [sets |-> NoSets, answer |-> "none"]

------------------------------------------------------------------------------
NonIDR == 1
IDR == 5
SEI == 6
SPS == 7
PPS == 8
AUD == 9

SliceTypes == {NonIDR, IDR}

\* The types from_u8 knows; another is an error of the whole packet.
KnownTypes == {0, NonIDR, IDR, SEI, SPS, PPS}

\* start is 0 until a start code is met.  The one of a start code of four
\* bytes is met at its second zero: the first stays with the unit before it,
\* and the branch for it finds start moved already.
NextStart(data, acc, i) ==
  IF ~StartsAt(data, i) THEN acc
  ELSE [start |-> i + 3,
        units |-> IF acc.start > 0 /\ acc.start < i
                  THEN Append(acc.units, SubSeq(data, acc.start, i - 1)) ELSE acc.units]

\* A start code in the last three bytes is not looked for.
find_units(data) ==
  LET scan[i \in 0 .. Len(data) - 3] ==
        IF i = 0 THEN [start |-> 0, units |-> <<>>] ELSE NextStart(data, scan[i - 1], i)
      acc == scan[Len(data) - 3]
  IN  IF acc.start > 0 /\ acc.start <= Len(data)
      THEN Append(acc.units, SubSeq(data, acc.start, Len(data))) ELSE acc.units

nal_type(unit) == unit[1]

payload(unit) == Tail(unit)

\* One unit: a set is kept, and a slice or an unknown type is an answer.
TakeUnit(acc, unit) ==
  LET type == nal_type(unit) IN
  [status |-> IF type \notin KnownTypes THEN "error"
              ELSE IF type \in SliceTypes THEN "frame" ELSE acc.status,
   key    |-> IF type \in SliceTypes THEN type = IDR ELSE acc.key,
   sets   |-> [sps |-> IF type = SPS THEN payload(unit) ELSE acc.sets.sps,
               pps |-> IF type = PPS THEN payload(unit) ELSE acc.sets.pps]]

\* A slice is no end.
TakePastSlice(acc, unit) == IF acc.status = "error" THEN acc ELSE TakeUnit(acc, unit)

\* The units are taken in order up to a slice, or up to an error, which leaves
\* the sets met before it.
Take(acc, unit) == IF acc.status # "none" THEN acc ELSE TakeUnit(acc, unit)

TakeAll(sets, units) ==
  LET taken[n \in 0 .. Len(units)] ==
        IF n = 0 THEN [status |-> "none", key |-> FALSE, sets |-> sets]
        ELSE Take(taken[n - 1], units[n])
  IN  taken[Len(units)]

\* data.len() - 3 of fewer than three bytes.
Underflows(data) == Len(data) < 3

\* The data of a frame is the packet, which encode gives back unchanged:
\* extra_data is never set.
decode(found) ==
  LET end == TakeAll(h264, found) IN
  /\ h264' = end.sets
  /\ frame' = [status |-> end.status, key |-> end.key]

------------------------------------------------------------------------------
(* The encoder's side.                                                      *)

Payload1 == CHOOSE p \in Payloads : TRUE

UnitsSent ==
  [code : {3, 4}, type : {NonIDR, IDR, SEI, AUD}, payload : {Payload1}]
  \cup [code : {3, 4}, type : {SPS, PPS}, payload : Payloads]

Written(u) == (IF u.code = 4 THEN <<0>> ELSE <<>>) \o <<0, 0, 1, u.type>> \o u.payload

Packets == {s \in BoundedSeq(UnitsSent, MaxUnits) : s # <<>>}

\* What a decoder knows of a packet when it stops at its first slice, or at
\* the first unit of a type it does not know.
Known(sent, units) ==
  LET stops == {i \in DOMAIN units : units[i].type \in SliceTypes \cup {AUD}}
      seen == {i \in DOMAIN units : \A j \in stops : i <= j}
      Last_(type, old) ==
        LET is == {i \in seen : units[i].type = type}
        IN  IF is = {} THEN old
            ELSE LET i == CHOOSE i \in is : \A j \in is : j <= i IN units[i].payload
  IN  [sets |-> [sps |-> Last_(SPS, sent.sps), pps |-> Last_(PPS, sent.pps)],
       answer |-> IF stops = {} THEN "none"
                  ELSE LET first == CHOOSE i \in stops : i \in seen
                       IN  IF units[first].type = AUD THEN "error"
                           ELSE IF units[first].type = IDR THEN "key" ELSE "frame"]

\* Packets with the units found in them, computed once.
Found ==
  {[sent |-> units, found |-> find_units(FlattenSeq([i \in DOMAIN units |-> Written(units[i])]))] :
     units \in Packets}

DecodePacket(p) ==
  /\ frame.status # "panic"
  /\ decode(p.found)
  /\ wrote' = Known(wrote.sets, p.sent)

DecodeStub ==
  /\ frame.status # "panic"
  /\ \E data \in {<<>>, <<0, 1>>, <<0, 0, 1>>} :
       IF Underflows(data) THEN frame' = [NoFrame EXCEPT !.status = "panic"] /\ UNCHANGED h264
       ELSE decode(find_units(data))
  /\ wrote' = [wrote EXCEPT !.answer = "none"]

H264Next == (\E p \in Found : DecodePacket(p)) \/ DecodeStub

------------------------------------------------------------------------------
Trimmed(s) == IF s # <<>> /\ s[Len(s)] = 0 THEN Front(s) ELSE s

\* After any sequence of packets the decoder holds the last parameter sets it
\* was sent before the first slice or unknown unit of their packets, each with
\* at most one byte too many, the first zero of the start code behind it; the
\* sets of a packet that failed are kept; and a packet comes out as a frame, or
\* as a key frame, exactly when its first slice is met before a unit the parser
\* does not know.
DecoderHoldsSent ==
  frame.status # "panic" =>
    /\ Trimmed(h264.sps) = wrote.sets.sps /\ Trimmed(h264.pps) = wrote.sets.pps
    /\ frame.status = (IF wrote.answer = "key" THEN "frame" ELSE wrote.answer)
    /\ frame.key <=> wrote.answer = "key"
==============================================================================
