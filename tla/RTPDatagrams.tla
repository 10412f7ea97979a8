---------------------------- MODULE RTPDatagrams ----------------------------
(***************************************************************************)
(* RTPPacket::parse and RTCPPacket::parse on datagrams: where in the       *)
(* datagram each field is read.  A field is the pair of the offset of its  *)
(* first byte and the offset behind its last.  A sender follows the        *)
(* formats; the datagram may be cut, and what then ends it is any byte.    *)
(***************************************************************************)
EXTENDS Integers, Sequences

CONSTANTS
  MaxCSRC,     \* bound of the model, 15 in the format
  MaxReports,  \* bound of the model, 31 in the format
  Tails,       \* sizes of a payload, and of what follows an RTCP packet
  Pads         \* values of a byte that counts padding, or ends a cut datagram

ASSUME DatagramAssumption ==
  MaxCSRC \in Nat /\ MaxReports \in Nat /\ Tails \subseteq Nat /\ Pads \subseteq Nat

VARIABLES
  datagram,  \* the last one that arrived, with what the sender put in it
  parsed     \* what the parser made of it

datavars == <<datagram, parsed>>

\* Bytes of the fixed parts.
RTPHeader == 12
Word == 4
SenderInfo == 24
ReportSize == 24

Invalid == [outcome |-> "invalid"]
Unsupported == [outcome |-> "unsupported"]

Nothing == <<0, 0>>

DatagramsInit == datagram = [kind |-> "none"] /\ parsed = Invalid

------------------------------------------------------------------------------
\* RTP.  What a sender makes: the fields, then the size.  size and last are set
\* when the datagram arrives.
ExtensionBytes(d) == IF d.extension THEN Word + Word * d.ext_length ELSE 0

RTPWhole(d) == RTPHeader + Word * d.csrc_count + ExtensionBytes(d) + d.payload + d.pad

RTPSent ==
  {d \in [kind : {"rtp"}, version : {1, 2}, padding : BOOLEAN, extension : BOOLEAN,
          csrc_count : 0 .. MaxCSRC, ext_length : 0 .. 1, payload : Tails,
          pad : Pads, size : {0}, last : {0}] :
     /\ d.padding <=> d.pad > 0
     /\ ~d.extension => d.ext_length = 0}

\* parse: csrc, extension_data and payload follow each other, each checked
\* against the length first; the padding goes by the last byte.
AfterCSRC(d) == RTPHeader + Word * d.csrc_count

AfterExtensionData(d) == AfterCSRC(d) + IF d.extension THEN Word * d.ext_length ELSE 0

AfterExtension(d) == AfterCSRC(d) + ExtensionBytes(d)

PaddingFits(d) == d.last # 0 /\ AfterExtension(d) + d.last <= d.size

parse_rtp(d) ==
  IF \/ d.size < RTPHeader \/ d.version # 2
     \/ AfterExtension(d) > d.size
     \/ d.padding /\ ~PaddingFits(d)
  THEN Invalid
  ELSE [outcome |-> "ok",
        csrc |-> [i \in 1 .. d.csrc_count |-> RTPHeader + Word * (i - 1)],
        extension_data |-> IF d.extension THEN <<AfterCSRC(d) + Word, AfterExtension(d)>>
                           ELSE Nothing,
        payload |-> <<AfterExtension(d), d.size - (IF d.padding THEN d.last ELSE 0)>>]

------------------------------------------------------------------------------
\* RTCP.  length counts the words of the packet but the first; tail is what
\* follows it in the datagram, and only the last packet of one is padded.
RTCPPacketSize(d) == Word * (d.length + 1)

FixedSize(d) == IF d.packet_type = 200 THEN Word + SenderInfo ELSE Word + Word

RTCPFields ==
  [kind : {"rtcp"}, version : {1, 2}, packet_type : {200, 201, 202}, padding : BOOLEAN,
   count : 0 .. MaxReports, length : 0 .. 7 + 6 * MaxReports, tail : Tails,
   pad : Pads, size : {0}, last : {0}]

\* What a sender that follows the format makes.
Conforms(d) ==
  /\ d.version = 2
  /\ d.padding <=> d.pad > 0
  /\ d.padding => d.tail = 0 /\ d.pad % Word = 0
  /\ FixedSize(d) + ReportSize * d.count + d.pad = RTCPPacketSize(d)

\* The n bytes of a report block from offset k on, for a block at offset at.
BytesAt(at, k, n) == <<at + k, at + k + n>>

parse_reception_report(at) ==
  [ssrc |-> BytesAt(at, 0, 4), fraction_lost |-> BytesAt(at, 4, 1), packets_lost |-> BytesAt(at, 5, 3),
   highest_seq |-> BytesAt(at, 8, 4), jitter |-> BytesAt(at, 12, 4), last_sr |-> BytesAt(at, 16, 4),
   delay_last_sr |-> BytesAt(at, 20, 4)]

ReportAt(d, i) == FixedSize(d) + ReportSize * (i - 1)

\* A sender's or a receiver's report: its blocks.
Report(d) ==
  [outcome |-> "ok",
   reports |-> [i \in 1 .. d.count |-> parse_reception_report(ReportAt(d, i))]]

RTCPEnd(d) == d.size - (IF d.padding THEN d.last ELSE 0)

\* What parse takes one after the other: from where, the bytes it checks for,
\* 4 too few for type 200, and the bytes it reads.
Reads(d) ==
  <<[at |-> Word, checked |-> IF d.packet_type = 200 THEN 20 ELSE 4, taken |-> FixedSize(d) - Word]>>
  \o [i \in 1 .. d.count |-> [at |-> ReportAt(d, i), checked |-> ReportSize, taken |-> ReportSize]]

\* The subtractions are of unsigned numbers: below zero the build panics, or
\* wraps to a number that no check refuses.  A read behind the datagram panics.
ReadOutcome(d, overflow_checks, r) ==
  IF RTCPEnd(d) < r.at /\ overflow_checks THEN "panic"
  ELSE IF RTCPEnd(d) \in r.at .. r.at + r.checked - 1 THEN "invalid"
  ELSE IF r.at + r.taken > d.size THEN "panic" ELSE "ok"

parse_rtcp(d, overflow_checks) ==
  LET Outcome(i) == ReadOutcome(d, overflow_checks, Reads(d)[i])
      failing == {i \in DOMAIN Reads(d) : Outcome(i) # "ok"}
  IN  IF d.size < Word \/ d.version # 2 \/ d.size < RTCPPacketSize(d) THEN Invalid
      ELSE IF RTCPEnd(d) < 0 /\ overflow_checks THEN [outcome |-> "panic"]
      ELSE IF d.packet_type \notin {200, 201} THEN Unsupported
      ELSE IF failing # {}
      THEN [outcome |-> Outcome(CHOOSE i \in failing : \A k \in failing : i <= k)]
      ELSE Report(d)

------------------------------------------------------------------------------
Whole(d) == IF d.kind = "rtp" THEN RTPWhole(d) ELSE RTCPPacketSize(d) + d.tail

\* pad is the last byte the sender wrote; n bytes arrive.
LastBytes(d, n) == IF n = Whole(d) THEN {d.pad} ELSE Pads

Arrived(d, n, last) == [d EXCEPT !.size = n, !.last = last]

ReceiveRTP ==
  \E d \in RTPSent : \E n \in 0 .. Whole(d) : \E last \in LastBytes(d, n) :
    /\ datagram' = Arrived(d, n, last)
    /\ parsed' = parse_rtp(Arrived(d, n, last))

ReceiveRTCP ==
  \E d \in RTCPFields, overflow_checks \in BOOLEAN :
    \E n \in 0 .. Whole(d) : \E last \in LastBytes(d, n) :
      /\ datagram' = Arrived(d, n, last)
      /\ parsed' = parse_rtcp(Arrived(d, n, last), overflow_checks)

DatagramsNext == datagram.kind = "none" /\ (ReceiveRTP \/ ReceiveRTCP)

------------------------------------------------------------------------------
WasTaken(p) == p.outcome = "ok"

\* The fields of an RTP datagram that was taken, in their order.
RTPTiles(d, p) ==
  /\ \A i \in DOMAIN p.csrc : p.csrc[i] + Word <= p.payload[1]
  /\ p.extension_data = Nothing \/ p.extension_data[2] = p.payload[1]
  /\ p.payload[1] <= p.payload[2]
  /\ p.payload[2] <= d.size

\* The reports of an RTCP packet that was taken.
ReportsTile(d, p) ==
  \A i \in DOMAIN p.reports :
    p.reports[i].ssrc[1] = ReportAt(d, i)
    /\ p.reports[i].delay_last_sr[2] = ReportAt(d, i) + ReportSize

\* A datagram that arrives whole from a sender that follows the format is read
\* field by field as sent: the payload of an RTP packet is all that is neither
\* header nor padding, an RTCP packet of type 200 or 201, alone or the first of
\* several, gives the reports it counts.  One that was cut never gives a field
\* that is not within it, nor a report of an RTCP packet that it cuts.  A panic
\* needs a padding byte greater than the packet, or a type 200 without room for
\* the sender's numbers.
DatagramsExact ==
  /\ datagram.kind = "rtp" =>
       /\ WasTaken(parsed) => RTPTiles(datagram, parsed)
       /\ datagram.version = 2 /\ datagram.size = Whole(datagram) =>
            WasTaken(parsed) /\ parsed.payload[2] - parsed.payload[1] = datagram.payload
       /\ parsed.outcome # "panic"
  /\ datagram.kind = "rtcp" =>
       /\ WasTaken(parsed) =>
            ReportsTile(datagram, parsed) /\ RTCPPacketSize(datagram) <= datagram.size
       /\ Conforms(datagram) /\ datagram.packet_type # 202 /\ RTCPPacketSize(datagram) <= datagram.size
            => WasTaken(parsed) /\ Len(parsed.reports) = datagram.count
       /\ parsed.outcome = "panic" =>
            \/ datagram.padding /\ RTCPEnd(datagram) < FixedSize(datagram) + ReportSize * datagram.count
            \/ datagram.packet_type = 200 /\ datagram.size < FixedSize(datagram)
=============================================================================
