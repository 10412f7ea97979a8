------------------------------ MODULE TSFields ------------------------------
(***************************************************************************)
(* The fields of a TS packet and of a PES packet, as format/ts writes them *)
(* (types.rs, pes.rs, muxer.rs), as a sender that follows the format does, *)
(* and as parser.rs and demuxer.rs read them; and the clock arithmetic of  *)
(* types.rs.  Offsets are bytes of a TS packet.                            *)
(***************************************************************************)
EXTENDS TSMuxer, FiniteSets

CONSTANTS
  Second,    \* nanoseconds in a second, 10^9 in the code
  PTS_HZ,    \* 90000 in the code
  Ext,       \* ticks of the PCR for one of the PTS, 300 in the code
  ExtMod,    \* values of the field for them, 2^9 in the code
  PcrShift,  \* one tick of the base in a PCR, 2^15 in the code
  WordMod,   \* values of a u64
  StampMid,  \* values of the lower two of the three parts of a stamp, 2^15
  Times,     \* bound of the model: times in nanoseconds
  Lengths    \* bytes of a packet to write

ASSUME FieldsAssumption ==
  /\ Second \in Nat \ {0} /\ PTS_HZ \in Nat \ {0} /\ Ext \in Nat \ {0}
  /\ ExtMod \in Nat /\ Ext <= ExtMod /\ PcrShift \in Nat /\ PcrShift % ExtMod = 0
  /\ ExtMod < PcrShift /\ WordMod \in Nat \ {0} /\ StampMid \in Nat \ {0}
  /\ Times \subseteq Nat /\ Lengths \subseteq Nat
  /\ HeaderSize + 21 <= PacketSize  \* the fields of a sender fit a TS packet

VARIABLES
  written,  \* the field a writer made
  read      \* what the reader makes of it

fieldvars == <<written, read>>

FieldsInit == written = [kind |-> "none"] /\ read = [ok |-> FALSE]

------------------------------------------------------------------------------
\* A TS header: pid has 13 bits and the counter 4; the writer cuts them, and
\* the parser reads the bits it wrote.
PidMod == 8192

TSHeader(pid, start, field, counter) ==
  [pid |-> pid, payload_unit_start |-> start, transport_error |-> FALSE,
   adaptation_field_exists |-> field, contains_payload |-> TRUE,
   continuity_counter |-> counter]

write_ts_header(header) ==
  [header EXCEPT !.pid = @ % PidMod, !.continuity_counter = @ % CounterMod]

get_stream_pid(index) == 256 + index

------------------------------------------------------------------------------
\* An adaptation field: its length and its flags, and with "private" the length
\* byte of the private data.  Its flags are at offset 1, what they announce at 2.
Announced(flags) ==
  2 + 6 * Cardinality(flags \cap {"pcr", "opcr"}) + Cardinality(flags \cap {"splice"})

\* The field of the muxer: no flags in the first TS packet of a packet, and its
\* stuffing, which begins where flags are, in the others.
AllFlags == {"pcr", "opcr", "splice", "private"}

muxer_field(len, offset) ==
  [length |-> adaptation_field_size(offset) + stuffing_size(len, offset),
   flags |-> IF offset = 0 THEN {} ELSE AllFlags, private |-> 255]

\* Fields of a sender: as long as what they announce, and stuffing.
SentFields ==
  {f \in [length : {0, 1} \cup 8 .. 20, flags : SUBSET AllFlags, private : 0 .. 2] :
     /\ f.flags # {} => 1 + f.length >= Announced(f.flags)
     /\ "private" \in f.flags => 1 + f.length >= Announced(f.flags) + 1 + f.private}

\* The parser steps over the field when it reads one; private data that do not
\* leave a byte of the field behind them are not taken, an error when there is
\* none for their length.
NoField == [ok |-> TRUE, skip |-> 0, flags |-> {}, private |-> -1]

parse_adaptation_field(f) ==
  LET pos == Announced(f.flags)
      over == HeaderSize + pos > PacketSize
      missing == "private" \in f.flags /\ pos + 1 > f.length
  IN  IF f.length = 0 THEN NoField
      ELSE IF HeaderSize + f.length + 1 > PacketSize \/ over \/ missing
      THEN [NoField EXCEPT !.ok = FALSE]
      ELSE [ok |-> TRUE, skip |-> f.length + 1, flags |-> f.flags,
            private |-> IF "private" \in f.flags /\ f.private <= f.length - (pos + 1)
                        THEN f.private ELSE -1]

WriteField(f, by) ==
  /\ written' = [kind |-> "field", by |-> by,
                 length |-> f.length, flags |-> f.flags, private |-> f.private]
  /\ read' = parse_adaptation_field(f)

\* The k-th TS packet that write_packet makes of len bytes, if bytes are left for
\* it and it has a field.
WriteMuxerField(len) ==
  \E k \in 1 .. len :
    LET offset == OffsetOf(k)
        f == muxer_field(len, offset)
    IN  /\ offset < len /\ f.length > 0
        /\ WriteField(f, "muxer")

------------------------------------------------------------------------------
\* The clocks.  A product that does not fit a u64 panics or wraps.
PCR_HZ == PTS_HZ * Ext

Overflows(product) == product >= WordMod

Wrapped(product) == product % WordMod

time_to_pts(t) == Wrapped(t * PTS_HZ) \div Second

pts_to_time(pts) == Wrapped(pts * Second) \div PTS_HZ

\* The bits between the base and the extension of a PCR are set.
ReservedBits == PcrShift - ExtMod

time_to_pcr(t) ==
  LET ts == Wrapped(t * PCR_HZ) \div Second
  IN  PcrShift * (ts \div Ext) + ReservedBits + (ts % Ext)

ParsedTicks(pcr) == Ext * (pcr \div PcrShift) + (pcr % ExtMod)

pcr_to_time(pcr) == Wrapped(ParsedTicks(pcr) * Second) \div PCR_HZ

\* What multiplies without room.
ClockOverflows(t) ==
  Overflows(t * PCR_HZ) \/ Overflows(ParsedTicks(time_to_pcr(t)) * Second)

ConvertTime(t, overflow_checks) ==
  /\ written' = [kind |-> "time", t |-> t]
  /\ read' = IF overflow_checks /\ ClockOverflows(t) THEN [ok |-> FALSE]
             ELSE [ok |-> TRUE, pcr_time |-> pcr_to_time(time_to_pcr(t)),
                   pts_time |-> pts_to_time(time_to_pts(t))]

------------------------------------------------------------------------------
\* A stamp is written in three parts of 3, 15 and 15 bits, here the top, the
\* middle and the bottom; the rest of a stamp that does not fit is cut.
StampMod == 8 * StampMid * StampMid

write_timestamp(ts) ==
  LET pts == ts % StampMod
  IN  [top |-> pts \div (StampMid * StampMid), mid |-> (pts \div StampMid) % StampMid,
       bottom |-> pts % StampMid]

ReadStamp(s) == (s.top * StampMid + s.mid) * StampMid + s.bottom

\* The two bytes of flags behind the length of a PES packet, then the length of
\* the header behind them, then the stamps.  The writer puts the flags of the
\* stamps into the first byte, and the length of the header stays 0.
PESHeader(stamps) ==
  [flags |-> IF stamps # <<>> THEN {"stamps"} ELSE {}, flags2 |-> {},
   header_data_length |-> 0, packet_length |-> 0, stamps |-> stamps, payload |-> 0]

write_pes_header(header) ==
  [header EXCEPT !.stamps = [i \in DOMAIN @ |-> write_timestamp(@[i])]]

write_pes(stamps, payload) == [write_pes_header(PESHeader(stamps)) EXCEPT !.payload = payload]

conforming_pes_header(stamps, payload) ==
  [flags |-> {}, flags2 |-> IF stamps # <<>> THEN {"stamps"} ELSE {},
   header_data_length |-> 5 * Len(stamps),
   stamps |-> [i \in DOMAIN stamps |-> write_timestamp(stamps[i])],
   payload |-> payload, packet_length |-> 3 + 5 * Len(stamps) + payload]

PESLength(stamps, payload) == 9 + 5 * Len(stamps) + payload

WrittenBytes(pes) == 9 + 5 * Len(pes.stamps) + pes.payload

NoStamp == -1

\* The first bytes of a packet, as many as its first TS packet holds.
parse_pts(pes) ==
  IF WrittenBytes(pes) < 14 \/ "stamps" \notin pes.flags2 THEN NoStamp
  ELSE ReadStamp(pes.stamps[1])

\* With no stamp, the PTS, or the PTS and the DTS.
WritePES(t, n, payload, conforming) ==
  LET stamps == [i \in 1 .. n |-> time_to_pts(t)]
      pes == IF conforming THEN conforming_pes_header(stamps, payload)
             ELSE write_pes(stamps, payload)
  IN  /\ written' = [kind |-> "pes", t |-> t, pes |-> pes, len |-> PESLength(stamps, payload)]
      /\ read' = [ok |-> TRUE, pts |-> parse_pts(pes)]

FieldsNext ==
  /\ written.kind = "none"
  /\ \/ \E f \in SentFields : WriteField(f, "sender")
     \/ \E len \in Lengths : WriteMuxerField(len)
     \/ \E t \in Times, checks \in BOOLEAN : ConvertTime(t, checks)
     \/ \E t \in Times, n \in 0 .. 2, payload \in {0, 5}, conforming \in BOOLEAN :
          WritePES(t, n, payload, conforming)
  /\ UNCHANGED muxvars

------------------------------------------------------------------------------
\* Bytes of a field behind its private data.
Behind(f) == f.length + 1 - (Announced(f.flags) + 1 + f.private)

\* A field that a sender wrote is read with its flags, and its end is found,
\* with its private data when a byte follows them.  A TS packet of the muxer
\* has its end of the field found too, but is refused when it is not the first
\* of its packet and has 1 to 15 bytes of stuffing, which are read as flags.
FieldsReadBack ==
  written.kind = "field" =>
    LET exact == "private" \in written.flags => Behind(written) >= 1
        taken == IF written.by = "muxer"
                 THEN written.flags = {} \/ written.length > 15
                 ELSE exact \/ written.private > 0
    IN  /\ read.ok <=> taken \/ written.length = 0
        /\ read.ok /\ written.length > 0 => read.skip = written.length + 1
        /\ read.ok /\ written.by = "sender" /\ exact /\ written.length > 0 =>
             /\ read.flags = written.flags
             /\ "private" \in written.flags => read.private = written.private

\* a, read back from t in ticks of 1/hz s, is t to within a tick and a nanosecond.
WithinTick(t, a, hz) == a <= t /\ (t - a) * hz < Second + hz

\* A time converted to a clock and back has lost less than a tick, and a panic
\* means that the PCR multiplies beyond 64 bits.  A stamp that is read is the
\* one written, cut to 33 bits, and one that a sender wrote is read; a PES
\* packet has the length the writer says.
StampsReadBack ==
  /\ written.kind = "time" =>
       /\ ~read.ok => ClockOverflows(written.t)
       /\ ~ClockOverflows(written.t) =>
            /\ WithinTick(written.t, read.pcr_time, PCR_HZ)
            /\ WithinTick(written.t, read.pts_time, PTS_HZ)
  /\ written.kind = "pes" =>
       /\ read.pts # NoStamp => read.pts = time_to_pts(written.t) % StampMod
       /\ "stamps" \in written.pes.flags2 => read.pts # NoStamp
       /\ written.len = WrittenBytes(written.pes)
=============================================================================
