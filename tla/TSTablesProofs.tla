--------------------------- MODULE TSTablesProofs ----------------------------
(***************************************************************************)
(* What a transport stream is read back as, for every size of TS packets,  *)
(* every clock, and every table that fits: the fields and stamps of        *)
(* TSFields, and the tables of TSTables.                                   *)
(***************************************************************************)
EXTENDS TSTables, Remainders, SequenceTheorems, FiniteSetTheorems

------------------------------------------------------------------------------
(* Clocks and stamps. *)

\* A number below the modulus is its own remainder.
LEMMA Unwrapped ==
  ASSUME NEW x \in Nat, ~Overflows(x)
  PROVE  Wrapped(x) = x
<1>1. WordMod \in Nat \ {0}
  BY FieldsAssumption
<1>2. x \in 0 .. WordMod - 1 /\ x = WordMod * 0 + x /\ 0 \in Int /\ x \in Int
  BY <1>1 DEF Overflows
<1>3. x % WordMod = x
  BY <1>1, <1>2, ModUnique, Zenon
<1>. QED
  BY <1>3 DEF Wrapped

\* The base and the extension of a PCR are found on both sides of the reserved bits.
LEMMA TicksKept ==
  ASSUME NEW ts \in Nat
  PROVE  ParsedTicks(PcrShift * (ts \div Ext) + ReservedBits + (ts % Ext)) = ts
<1>1. /\ Ext \in Nat \ {0} /\ ExtMod \in Nat \ {0} /\ Ext <= ExtMod /\ PcrShift \in Nat \ {0}
      /\ ExtMod < PcrShift /\ PcrShift % ExtMod = 0
  BY FieldsAssumption
<1>2. PICK q \in Nat, r \in 0 .. Ext - 1 : q = ts \div Ext /\ r = ts % Ext /\ ts = Ext * q + r
  BY <1>1, DivNat
<1>3. PICK k \in Int : PcrShift = ExtMod * k
  <2>1. PcrShift = ExtMod * (PcrShift \div ExtMod) + (PcrShift % ExtMod) /\ PcrShift \div ExtMod \in Int
    BY <1>1, DivDef
  <2>2. PICK d \in Int : d = PcrShift \div ExtMod
    BY <2>1
  <2>3. PcrShift = ExtMod * d + 0 /\ ExtMod * d \in Int
    BY <1>1, <2>1, <2>2
  <2>. QED
    BY <2>2, <2>3
<1>4. PICK low \in 0 .. PcrShift - 1 : low = ReservedBits + r
  BY <1>1, <1>2 DEF ReservedBits
<1>5. PICK pcr \in Int : pcr = PcrShift * q + low /\ pcr = PcrShift * q + ReservedBits + r
  <2>1. PICK x \in Int : x = PcrShift * q
    BY <1>1, <1>2
  <2>2. ReservedBits \in Int
    BY <1>1 DEF ReservedBits
  <2>3. PICK s \in Int : s = ReservedBits /\ low = s + r
    BY <1>4, <2>2
  <2>4. x + low = x + s + r /\ x + low \in Int
    BY <1>1, <1>2, <1>4, <2>1, <2>3
  <2>. QED
    BY <2>1, <2>3, <2>4
<1>6. pcr \div PcrShift = q
  <2>1. q \in Int /\ PcrShift \in Nat \ {0}
    BY <1>1, <1>2
  <2>. QED
    BY <1>4, <1>5, <2>1, DivUnique, Zenon
<1>7. pcr % ExtMod = r
  <2>1. PICK x \in Int : x = k * q
    BY <1>2, <1>3
  <2>2. PcrShift * q = ExtMod * x
    <3>1. (k * ExtMod) * q = ExtMod * (k * q)
      BY <1>1, <1>2, <1>3, Associate
    <3>2. k * ExtMod = PcrShift
      BY <1>1, <1>3
    <3>. QED
      BY <2>1, <3>1, <3>2
  <2>3. ExtMod * (x + (k - 1)) = ExtMod * x + ExtMod * (k - 1) /\ ExtMod * (k - 1) = ExtMod * k - ExtMod * 1
    BY <1>1, <1>3, <2>1, Distribute
  <2>4. PICK a \in Int, b \in Int : a = ExtMod * x /\ b = ExtMod * (k - 1)
    BY <1>1, <1>3, <2>1
  <2>5. b = PcrShift - ExtMod /\ a = PcrShift * q
    BY <1>1, <1>3, <2>2, <2>3, <2>4
  <2>6. pcr = a + b + r
    BY <1>1, <1>2, <1>5, <2>4, <2>5 DEF ReservedBits
  <2>7. PICK m \in Int : m = x + (k - 1) /\ ExtMod * m = a + b
    BY <1>3, <2>1, <2>3, <2>4
  <2>8. r \in 0 .. ExtMod - 1
    BY <1>1, <1>2
  <2>9. pcr = ExtMod * m + r
    BY <1>2, <2>4, <2>6, <2>7
  <2>10. ExtMod \in Nat \ {0}
    BY <1>1
  <2>. QED
    BY <2>8, <2>9, <2>10, ModUnique
<1>8. PcrShift * (ts \div Ext) + ReservedBits + (ts % Ext) = pcr
  BY <1>2, <1>5
<1>. QED
  BY <1>2, <1>6, <1>7, <1>8 DEF ParsedTicks

\* A time converted to a clock and back, when nothing wraps.
LEMMA TimeKept ==
  ASSUME NEW t \in Nat, ~ClockOverflows(t)
  PROVE  /\ WithinTick(t, pcr_to_time(time_to_pcr(t)), PCR_HZ)
         /\ WithinTick(t, pts_to_time(time_to_pts(t)), PTS_HZ)
<1>1. PTS_HZ \in Nat \ {0} /\ Ext \in Nat \ {0} /\ Second \in Nat \ {0} /\ WordMod \in Nat \ {0}
  BY FieldsAssumption
<1>2. PICK hz \in Nat \ {0} : hz = PCR_HZ /\ PTS_HZ <= hz
  BY <1>1 DEF PCR_HZ
<1>3. PICK x \in Nat, y \in Nat : x = t * hz /\ y = t * PTS_HZ
  BY <1>1
<1>4. y <= x
  <2>1. t * (hz - PTS_HZ) >= 0 /\ t * (hz - PTS_HZ) = t * hz - t * PTS_HZ
    BY <1>1, <1>2
  <2>. QED
    BY <1>3, <2>1
<1>5. ~Overflows(x) /\ ~Overflows(y)
  BY <1>1, <1>2, <1>3, <1>4 DEF ClockOverflows, Overflows
<1>6. Wrapped(x) = x /\ Wrapped(y) = y
  BY <1>5, Unwrapped
<1>7. PICK ts, a : ts = (t * hz) \div Second /\ a = (ts * Second) \div hz
  OBVIOUS
<1>8. ts \in Nat /\ ts * Second <= t * hz /\ a \in Nat /\ a <= t /\ (t - a) * hz < Second + hz
  BY <1>1, <1>7, RoundTrip
<1>9. ParsedTicks(time_to_pcr(t)) = ts
  BY <1>2, <1>3, <1>6, <1>7, <1>8, TicksKept DEF time_to_pcr
<1>10. Wrapped(ts * Second) = ts * Second
  <2>1. ts * Second \in Nat
    BY <1>1, <1>8
  <2>2. ~Overflows(ts * Second)
    BY <1>9 DEF ClockOverflows
  <2>. QED
    BY <2>1, <2>2, Unwrapped
<1>11. pcr_to_time(time_to_pcr(t)) = a
  BY <1>2, <1>7, <1>9, <1>10 DEF pcr_to_time
<1>12. PICK p, b : p = (t * PTS_HZ) \div Second /\ b = (p * Second) \div PTS_HZ
  OBVIOUS
<1>13. p \in Nat /\ p * Second <= t * PTS_HZ /\ b \in Nat /\ b <= t /\ (t - b) * PTS_HZ < Second + PTS_HZ
  BY <1>1, <1>12, RoundTrip
<1>14. time_to_pts(t) = p
  BY <1>3, <1>6, <1>12 DEF time_to_pts
<1>15. Wrapped(p * Second) = p * Second
  <2>1. PICK z \in Nat : z = p * Second
    BY <1>1, <1>13
  <2>2. ~Overflows(z)
    BY <1>1, <1>3, <1>5, <1>13, <2>1 DEF Overflows
  <2>. QED
    BY <2>1, <2>2, Unwrapped
<1>16. pts_to_time(time_to_pts(t)) = b
  BY <1>12, <1>14, <1>15 DEF pts_to_time
<1>. QED
  BY <1>2, <1>8, <1>11, <1>13, <1>16 DEF WithinTick

\* A stamp is read as it was written, cut to its bits.
LEMMA StampKept ==
  ASSUME NEW ts \in Nat
  PROVE  ReadStamp(write_timestamp(ts)) = ts % StampMod /\ ts % StampMod \in Nat
<1>1. StampMid \in Nat \ {0}
  BY FieldsAssumption
<1>2. PICK M \in Nat \ {0} : M = StampMod
  BY <1>1 DEF StampMod
<1>3. PICK x \in Nat : x = ts % M
  BY <1>2, ModDef
<1>4. ((x \div (StampMid * StampMid)) * StampMid + ((x \div StampMid) % StampMid)) * StampMid
        + (x % StampMid) = x
  BY <1>1, <1>3, Digits
<1>. QED
  BY <1>2, <1>3, <1>4 DEF ReadStamp, write_timestamp

\* What FieldsNext writes of a time, and of a PES packet.
LEMMA TimeRead ==
  ASSUME NEW t \in Times, NEW checks \in BOOLEAN, ConvertTime(t, checks)
  PROVE  FieldsReadBack' /\ StampsReadBack'
<1>1. t \in Nat
  BY FieldsAssumption
<1>2. /\ written'.kind = "time" /\ written'.t = t
      /\ read' = IF checks /\ ClockOverflows(t) THEN [ok |-> FALSE]
                 ELSE [ok |-> TRUE, pcr_time |-> pcr_to_time(time_to_pcr(t)),
                       pts_time |-> pts_to_time(time_to_pts(t))]
  BY DEF ConvertTime
<1>3. CASE ClockOverflows(t)
  BY <1>2, <1>3 DEF FieldsReadBack, StampsReadBack
<1>4. CASE ~ClockOverflows(t)
  <2>1. /\ read'.ok = TRUE /\ read'.pcr_time = pcr_to_time(time_to_pcr(t))
        /\ read'.pts_time = pts_to_time(time_to_pts(t))
    BY <1>2, <1>4
  <2>2. /\ WithinTick(t, pcr_to_time(time_to_pcr(t)), PCR_HZ)
        /\ WithinTick(t, pts_to_time(time_to_pts(t)), PTS_HZ)
    BY <1>1, <1>4, TimeKept
  <2>. QED
    BY <1>2, <2>1, <2>2 DEF FieldsReadBack, StampsReadBack
<1>. QED
  BY <1>3, <1>4

LEMMA PESRead ==
  ASSUME NEW t \in Times, NEW n \in 0 .. 2, NEW payload \in {0, 5}, NEW conforming \in BOOLEAN,
         WritePES(t, n, payload, conforming)
  PROVE  FieldsReadBack' /\ StampsReadBack'
<1>1. PICK ts \in Nat : ts = time_to_pts(t)
  <2>1. t \in Nat /\ PTS_HZ \in Nat /\ WordMod \in Nat \ {0} /\ Second \in Nat \ {0}
    BY FieldsAssumption
  <2>2. PICK x \in Nat : x = (t * PTS_HZ) % WordMod
    <3>1. PICK y \in Nat : y = t * PTS_HZ
      BY <2>1
    <3>2. y % WordMod \in 0 .. WordMod - 1
      BY <2>1, <3>1, DivNat
    <3>. QED
      BY <2>1, <3>1, <3>2
  <2>3. x \div Second \in Nat
    BY <2>1, DivNat
  <2>. QED
    BY <2>2, <2>3 DEF time_to_pts, Wrapped
<1>2. PICK stamps : stamps = [i \in 1 .. n |-> ts]
  OBVIOUS
<1>3. stamps \in Seq(Nat) /\ Len(stamps) = n /\ (stamps = <<>> <=> n = 0) /\ DOMAIN stamps = 1 .. n
  BY <1>2
<1>4. PICK st : st = [i \in DOMAIN stamps |-> write_timestamp(stamps[i])]
  OBVIOUS
<1>5. Len(st) = n /\ (n > 0 => st[1] = write_timestamp(ts))
  BY <1>2, <1>3, <1>4
<1>6. PICK pes : pes = IF conforming THEN conforming_pes_header(stamps, payload)
                       ELSE write_pes(stamps, payload)
  OBVIOUS
<1>7. /\ pes.stamps = st /\ pes.payload = payload
      /\ pes.flags2 = IF conforming /\ n > 0 THEN {"stamps"} ELSE {}
  <2>1. CASE conforming
    BY <1>3, <1>4, <1>6, <2>1 DEF conforming_pes_header
  <2>2. CASE ~conforming
    BY <1>4, <1>6, <2>2 DEF write_pes, write_pes_header, PESHeader
  <2>. QED
    BY <2>1, <2>2
<1>8. /\ written'.kind = "pes" /\ written'.t = t /\ written'.pes = pes
      /\ written'.len = PESLength(stamps, payload) /\ read'.pts = parse_pts(pes)
  BY <1>1, <1>2, <1>6 DEF WritePES
<1>9. PESLength(stamps, payload) = WrittenBytes(pes)
  BY <1>3, <1>5, <1>7 DEF PESLength, WrittenBytes
<1>10. PICK x \in Nat : x = ReadStamp(write_timestamp(ts)) /\ x = ts % StampMod
  BY StampKept
<1>11. parse_pts(pes) = IF conforming /\ n > 0 THEN x ELSE NoStamp
  <2>1. CASE conforming /\ n > 0
    <3>1. ~(WrittenBytes(pes) < 14) /\ "stamps" \in pes.flags2
      BY <1>5, <1>7, <2>1 DEF WrittenBytes
    <3>2. ReadStamp(pes.stamps[1]) = x
      BY <1>5, <1>7, <1>10, <2>1
    <3>. QED
      BY <2>1, <3>1, <3>2 DEF parse_pts
  <2>2. CASE ~(conforming /\ n > 0)
    <3>1. "stamps" \notin pes.flags2
      BY <1>7, <2>2
    <3>. QED
      BY <2>2, <3>1 DEF parse_pts
  <2>. QED
    BY <2>1, <2>2
<1>12. FieldsReadBack'
  BY <1>8 DEF FieldsReadBack
<1>13. StampsReadBack'
  <2>1. read'.pts # NoStamp => read'.pts = time_to_pts(t) % StampMod
    BY <1>1, <1>8, <1>10, <1>11
  <2>2. "stamps" \in pes.flags2 => read'.pts # NoStamp
    BY <1>7, <1>8, <1>11 DEF NoStamp
  <2>3. (WrittenBytes(written.pes))' = WrittenBytes(pes)
    BY <1>8 DEF WrittenBytes
  <2>. QED
    BY <1>8, <1>9, <2>1, <2>2, <2>3 DEF StampsReadBack
<1>. QED
  BY <1>12, <1>13

------------------------------------------------------------------------------
(* Adaptation fields. *)

LEMMA AnnouncedIs ==
  /\ Announced({}) = 2 /\ Announced(AllFlags) = 15
  /\ \A flags \in SUBSET AllFlags : Announced(flags) \in 2 .. 15
<1>1. IsFiniteSet({}) /\ Cardinality({}) = 0
  BY FS_EmptySet
<1>2. IsFiniteSet({"splice"}) /\ Cardinality({"splice"}) = 1 /\ IsFiniteSet({"pcr"}) /\ Cardinality({"pcr"}) = 1
  BY FS_Singleton
<1>3. IsFiniteSet({"pcr", "opcr"}) /\ Cardinality({"pcr", "opcr"}) = 2
  <2>1. {"pcr", "opcr"} = {"pcr"} \cup {"opcr"} /\ "opcr" \notin {"pcr"}
    OBVIOUS
  <2>2. /\ IsFiniteSet({"pcr"} \cup {"opcr"})
        /\ Cardinality({"pcr"} \cup {"opcr"}) = IF "opcr" \in {"pcr"} THEN Cardinality({"pcr"})
                                               ELSE Cardinality({"pcr"}) + 1
    BY <1>2, FS_AddElement
  <2>. QED
    BY <1>2, <2>1, <2>2
<1>4. Announced({}) = 2
  <2>1. {} \cap {"pcr", "opcr"} = {} /\ {} \cap {"splice"} = {}
    OBVIOUS
  <2>. QED
    BY <1>1, <2>1 DEF Announced
<1>5. Announced(AllFlags) = 15
  <2>1. AllFlags \cap {"pcr", "opcr"} = {"pcr", "opcr"} /\ AllFlags \cap {"splice"} = {"splice"}
    BY DEF AllFlags
  <2>. QED
    BY <1>2, <1>3, <2>1 DEF Announced
<1>6. ASSUME NEW flags \in SUBSET AllFlags PROVE Announced(flags) \in 2 .. 15
  <2>1. PICK a : a = flags \cap {"pcr", "opcr"}
    OBVIOUS
  <2>2. PICK b : b = flags \cap {"splice"}
    OBVIOUS
  <2>3. a \in SUBSET {"pcr", "opcr"} /\ b \in SUBSET {"splice"}
    BY <2>1, <2>2
  <2>4. Cardinality(a) \in Nat /\ Cardinality(a) <= 2
    <3>1. IsFiniteSet(a) /\ Cardinality(a) <= Cardinality({"pcr", "opcr"})
      BY <1>3, <2>3, FS_Subset
    <3>. QED
      BY <1>3, <3>1, FS_CardinalityType
  <2>5. Cardinality(b) \in Nat /\ Cardinality(b) <= 1
    <3>1. IsFiniteSet(b) /\ Cardinality(b) <= Cardinality({"splice"})
      BY <1>2, <2>3, FS_Subset
    <3>. QED
      BY <1>2, <3>1, FS_CardinalityType
  <2>6. Announced(flags) = 2 + 6 * Cardinality(a) + Cardinality(b)
    BY <2>1, <2>2 DEF Announced
  <2>. QED
    BY <2>4, <2>5, <2>6
<1>. QED
  BY <1>4, <1>5, <1>6

LEMMA SenderFieldRead ==
  ASSUME NEW f \in SentFields, WriteField(f, "sender")
  PROVE  FieldsReadBack' /\ StampsReadBack'
<1>1. PICK len \in Nat, flags \in SUBSET AllFlags, priv \in 0 .. 2 :
        /\ len \in {0, 1} \cup 8 .. 20
        /\ len = f.length /\ flags = f.flags /\ priv = f.private
        /\ flags # {} => 1 + len >= Announced(flags)
        /\ "private" \in flags => 1 + len >= Announced(flags) + 1 + priv
  BY DEF SentFields
<1>2. PICK A \in 2 .. 15 : A = Announced(flags) /\ (flags = {} => A = 2)
  BY AnnouncedIs
<1>3. /\ written'.kind = "field" /\ written'.by = "sender" /\ written'.length = len
      /\ written'.flags = flags /\ written'.private = priv /\ read' = parse_adaptation_field(f)
  BY <1>1 DEF WriteField
<1>4. HeaderSize \in Nat /\ PacketSize \in Nat /\ HeaderSize + 21 <= PacketSize
  BY MuxerAssumption, FieldsAssumption
<1>5. (Behind(written))' = len + 1 - (A + 1 + priv)
  BY <1>2, <1>3 DEF Behind
<1>6. CASE len = 0
  <2>1. read' = NoField
    BY <1>1, <1>3, <1>6 DEF parse_adaptation_field
  <2>2. read'.ok = TRUE
    BY <2>1 DEF NoField
  <2>. QED
    BY <1>3, <1>6, <2>2 DEF FieldsReadBack, StampsReadBack
<1>7. CASE len # 0
  <2>1. ~(HeaderSize + len + 1 > PacketSize) /\ ~(HeaderSize + A > PacketSize)
    BY <1>1, <1>2, <1>4
  <2>2. CASE "private" \in flags /\ A + 1 > len
    <3>1. read' = [NoField EXCEPT !.ok = FALSE]
      BY <1>1, <1>2, <1>3, <1>7, <2>2 DEF parse_adaptation_field
    <3>2. read'.ok = FALSE
      BY <3>1 DEF NoField
    <3>3. ~((Behind(written))' >= 1) /\ ~(priv > 0)
      BY <1>1, <1>2, <1>5, <2>2
    <3>. QED
      BY <1>3, <1>7, <2>2, <3>2, <3>3 DEF FieldsReadBack, StampsReadBack
  <2>3. CASE ~("private" \in flags /\ A + 1 > len)
    <3>1. read' = [ok |-> TRUE, skip |-> len + 1, flags |-> flags,
                   private |-> IF "private" \in flags /\ priv <= len - (A + 1) THEN priv ELSE -1]
      BY <1>1, <1>2, <1>3, <1>7, <2>1, <2>3 DEF parse_adaptation_field
    <3>2. "private" \in flags => (Behind(written))' >= 1 \/ priv > 0
      BY <1>1, <1>2, <1>5, <2>3
    <3>3. "private" \in flags /\ (Behind(written))' >= 1 => priv <= len - (A + 1)
      BY <1>1, <1>2, <1>5, <2>3
    <3>. QED
      BY <1>3, <1>7, <3>1, <3>2, <3>3 DEF FieldsReadBack, StampsReadBack
  <2>. QED
    BY <2>2, <2>3
<1>. QED
  BY <1>6, <1>7

LEMMA MuxerFieldRead ==
  ASSUME NEW len \in Lengths, WriteMuxerField(len)
  PROVE  FieldsReadBack' /\ StampsReadBack'
<1>1. HeaderSize \in Nat /\ PacketSize \in Nat /\ HeaderSize + 21 <= PacketSize /\ len \in Nat
  BY MuxerAssumption, FieldsAssumption
<1>2. PICK k \in 1 .. len : /\ OffsetOf(k) < len /\ muxer_field(len, OffsetOf(k)).length > 0
                           /\ WriteField(muxer_field(len, OffsetOf(k)), "muxer")
  BY DEF WriteMuxerField
<1>3. PICK offset \in Int : offset = OffsetOf(k)
  <2>1. max_payload_size(0) \in Int /\ max_payload_size(1) \in Int /\ k \in Int
    BY <1>1 DEF max_payload_size, adaptation_field_size
  <2>2. (k - 2) * max_payload_size(1) \in Int
    BY <2>1
  <2>. QED
    BY <2>1, <2>2 DEF OffsetOf
<1>4. PICK room \in Int : /\ room = max_payload_size(offset) /\ room >= 20
                          /\ room = PacketSize - HeaderSize - adaptation_field_size(offset)
  <2>1. adaptation_field_size(offset) \in {0, 1}
    BY DEF adaptation_field_size
  <2>. QED
    BY <1>1, <2>1 DEF max_payload_size
<1>5. PICK n \in Int : n = payload_size(len, offset) /\ n >= 1 /\ n <= room
  BY <1>1, <1>2, <1>3, <1>4 DEF payload_size
<1>6. PICK m \in Int : /\ m = muxer_field(len, offset).length
                       /\ m = adaptation_field_size(offset) + (room - n)
                       /\ m > 0 /\ HeaderSize + m + 1 <= PacketSize
  BY <1>1, <1>2, <1>3, <1>4, <1>5 DEF muxer_field, stuffing_size, adaptation_field_size
<1>7. PICK flags : flags = (IF offset = 0 THEN {} ELSE AllFlags) /\ flags = muxer_field(len, offset).flags
  BY DEF muxer_field
<1>8. /\ written'.kind = "field" /\ written'.by = "muxer" /\ written'.length = m
      /\ written'.flags = flags /\ read' = parse_adaptation_field(muxer_field(len, offset))
  BY <1>2, <1>3, <1>6, <1>7 DEF WriteField
<1>9. CASE offset = 0
  <2>1. /\ flags = {} /\ Announced(flags) = 2 /\ "private" \notin flags
        /\ ~(HeaderSize + 2 > PacketSize) /\ ~(HeaderSize + m + 1 > PacketSize) /\ m # 0
    BY <1>1, <1>6, <1>7, <1>9, AnnouncedIs
  <2>2. read'.ok = TRUE /\ read'.skip = m + 1
    BY <1>6, <1>7, <1>8, <2>1 DEF parse_adaptation_field
  <2>. QED
    BY <1>8, <2>1, <2>2 DEF FieldsReadBack, StampsReadBack
<1>10. CASE offset # 0
  <2>1. /\ flags = AllFlags /\ Announced(flags) = 15 /\ "private" \in flags /\ flags # {}
        /\ ~(HeaderSize + 15 > PacketSize) /\ ~(HeaderSize + m + 1 > PacketSize) /\ m # 0
    BY <1>1, <1>6, <1>7, <1>10, AnnouncedIs DEF AllFlags
  <2>2. CASE m > 15
    <3>1. ~(15 + 1 > m)
      BY <2>2
    <3>2. read'.ok = TRUE /\ read'.skip = m + 1
      BY <1>6, <1>7, <1>8, <2>1, <3>1 DEF parse_adaptation_field
    <3>. QED
      BY <1>8, <2>1, <2>2, <3>2 DEF FieldsReadBack, StampsReadBack
  <2>3. CASE ~(m > 15)
    <3>1. 15 + 1 > m
      BY <2>3
    <3>2. read' = [NoField EXCEPT !.ok = FALSE]
      BY <1>6, <1>7, <1>8, <2>1, <3>1 DEF parse_adaptation_field
    <3>3. read'.ok = FALSE
      BY <3>2 DEF NoField
    <3>. QED
      BY <1>8, <2>1, <2>3, <3>3 DEF FieldsReadBack, StampsReadBack
  <2>. QED
    BY <2>2, <2>3
<1>. QED
  BY <1>9, <1>10

LEMMA FieldsStep == FieldsNext => FieldsReadBack' /\ StampsReadBack'
BY TimeRead, PESRead, SenderFieldRead, MuxerFieldRead DEF FieldsNext

------------------------------------------------------------------------------
(* Sums. *)

IsSums(s, g) ==
  /\ g \in [0 .. Len(s) -> Nat] /\ g[0] = 0
  /\ \A i \in 1 .. Len(s) : g[i] = g[i - 1] + s[i]

LEMMA SumsExist ==
  ASSUME NEW s \in Seq(Nat)
  PROVE  \E g : IsSums(s, g)
<1>. DEFINE Up(n) == \E g \in [0 .. n -> Nat] : g[0] = 0 /\ \A i \in 1 .. n : g[i] = g[i - 1] + s[i]
<1>1. Len(s) \in Nat /\ \A i \in 1 .. Len(s) : s[i] \in Nat
  OBVIOUS
<1>2. Up(0)
  <2>1. PICK g : g = [i \in 0 .. 0 |-> 0]
    OBVIOUS
  <2>2. g \in [0 .. 0 -> Nat] /\ g[0] = 0 /\ \A i \in 1 .. 0 : g[i] = g[i - 1] + s[i]
    BY <2>1
  <2>. QED
    BY <2>2
<1>3. ASSUME NEW n \in 0 .. Len(s) - 1, Up(n) PROVE Up(n + 1)
  <2>1. PICK g \in [0 .. n -> Nat] : g[0] = 0 /\ \A i \in 1 .. n : g[i] = g[i - 1] + s[i]
    BY <1>3
  <2>2. s[n + 1] \in Nat /\ n \in Nat /\ g[n] \in Nat
    BY <1>1
  <2>3. PICK h : h = [i \in 0 .. n + 1 |-> IF i = n + 1 THEN g[n] + s[n + 1] ELSE g[i]]
    OBVIOUS
  <2>4. h \in [0 .. n + 1 -> Nat]
    BY <2>2, <2>3
  <2>5. h[0] = 0
    BY <2>1, <2>2, <2>3
  <2>6. ASSUME NEW i \in 1 .. n + 1 PROVE h[i] = h[i - 1] + s[i]
    <3>1. h[i - 1] = g[i - 1]
      BY <2>2, <2>3
    <3>2. CASE i = n + 1
      <4>1. h[i] = g[n] + s[n + 1] /\ i - 1 = n
        BY <2>2, <2>3, <3>2
      <4>. QED
        BY <3>1, <3>2, <4>1
    <3>3. CASE i # n + 1
      <4>1. i \in 1 .. n /\ h[i] = g[i]
        BY <2>2, <2>3, <3>3
      <4>. QED
        BY <2>1, <3>1, <4>1
    <3>. QED
      BY <3>2, <3>3
  <2>. QED
    BY <2>4, <2>5, <2>6
<1>4. Up(Len(s))
  <2>. SUFFICES ASSUME ~Up(Len(s)) PROVE FALSE
    OBVIOUS
  <2>. DEFINE S == {n \in Nat : n <= Len(s) /\ ~Up(n)}
  <2>1. S \subseteq Nat /\ S # {}
    <3>. HIDE DEF Up
    <3>. QED
      BY <1>1
  <2>2. PICK n \in S : \A k \in S : n <= k
    <3>. HIDE DEF S
    <3>. QED
      BY <2>1, Least
  <2>. HIDE DEF Up
  <2>3. n \in Nat /\ n <= Len(s) /\ ~Up(n) /\ n # 0
    BY <1>2, <2>2
  <2>4. n - 1 \in 0 .. Len(s) - 1 /\ n - 1 \in Nat /\ ~(n <= n - 1)
    BY <1>1, <2>3
  <2>5. Up(n - 1)
    BY <1>1, <2>2, <2>3, <2>4
  <2>6. Up(n - 1 + 1)
    BY <1>3, <2>4, <2>5
  <2>7. n - 1 + 1 = n
    BY <2>3
  <2>. QED
    BY <2>3, <2>6, <2>7
<1>. QED
  BY <1>4 DEF IsSums

LEMMA TotalIs ==
  ASSUME NEW s \in Seq(Nat), NEW g, IsSums(s, g)
  PROVE  Total(s) = g[Len(s)] /\ Total(s) \in Nat
<1>. DEFINE F(f) == [i \in 0 .. Len(s) |-> IF i = 0 THEN 0 ELSE f[i - 1] + s[i]]
<1>1. Len(s) \in Nat /\ g \in [0 .. Len(s) -> Nat]
  BY DEF IsSums
<1>2. g = F(g)
  <2>1. \A i \in 0 .. Len(s) : g[i] = F(g)[i]
    BY <1>1 DEF IsSums
  <2>. QED
    BY <1>1, <2>1
<1>3. PICK f : f = CHOOSE h : h = F(h)
  OBVIOUS
<1>4. f = F(f)
  BY <1>2, <1>3
<1>5. Total(s) = f[Len(s)]
  BY <1>3 DEF Total
<1>6. \A i \in 0 .. Len(s) : f[i] = g[i]
  <2>. SUFFICES ASSUME NEW i \in 0 .. Len(s), f[i] # g[i] PROVE FALSE
    OBVIOUS
  <2>. DEFINE S == {n \in Nat : n <= Len(s) /\ f[n] # g[n]}
  <2>1. S \subseteq Nat /\ S # {}
    BY <1>1
  <2>2. PICK n \in S : \A k \in S : n <= k
    <3>. HIDE DEF S
    <3>. QED
      BY <2>1, Least
  <2>3. n # 0
    BY <1>1, <1>4, <2>2 DEF IsSums
  <2>4. n - 1 \in 0 .. Len(s) /\ f[n - 1] = g[n - 1]
    BY <1>1, <2>2, <2>3
  <2>5. n \in 1 .. Len(s) /\ g[n] = g[n - 1] + s[n]
    BY <1>1, <2>2, <2>3 DEF IsSums
  <2>6. f[n] = f[n - 1] + s[n]
    <3>1. F(f)[n] = f[n - 1] + s[n]
      BY <1>1, <2>5
    <3>. QED
      BY <1>4, <3>1, Zenon
  <2>. QED
    BY <2>2, <2>4, <2>5, <2>6
<1>. QED
  BY <1>1, <1>5, <1>6

LEMMA SumsGrow ==
  ASSUME NEW s \in Seq(Nat), NEW g, IsSums(s, g), NEW c \in Nat, \A i \in 1 .. Len(s) : s[i] >= c,
         NEW i \in 0 .. Len(s), NEW k \in 0 .. Len(s), i <= k
  PROVE  g[i] \in Nat /\ g[k] \in Nat /\ g[i] <= g[k] /\ (i < k => g[i] + c <= g[k])
<1>1. Len(s) \in Nat /\ \A j \in 0 .. Len(s) : g[j] \in Nat
  <2>1. g \in [0 .. Len(s) -> Nat]
    BY ONLY IsSums(s, g) DEF IsSums
  <2>2. Len(s) \in Nat
    BY ONLY s \in Seq(Nat)
  <2>. QED
    BY ONLY <2>1, <2>2
<1>. DEFINE Up(j) == g[i] <= g[j] /\ (i < j => g[i] + c <= g[j])
<1>2. \A j \in i .. Len(s) : Up(j)
  <2>. SUFFICES ASSUME NEW x \in i .. Len(s), ~Up(x) PROVE FALSE
    OBVIOUS
  <2>. DEFINE S == {j \in i .. Len(s) : ~Up(j)}
  <2>1. S \subseteq Nat /\ S # {}
    BY <1>1
  <2>2. PICK n \in S : \A j \in S : n <= j
    <3>. HIDE DEF S
    <3>. QED
      BY <2>1, Least
  <2>3. n \in i .. Len(s) /\ ~Up(n) /\ n # i /\ n \in Nat
    BY <1>1, <2>2
  <2>4. n - 1 \in i .. Len(s) /\ n \in 1 .. Len(s) /\ n - 1 \in 0 .. Len(s)
    BY <1>1, <2>3
  <2>5. n - 1 \notin S
    BY <1>1, <2>2, <2>3, <2>4
  <2>6. Up(n - 1)
    BY <2>4, <2>5
  <2>7. g[n - 1] \in Nat /\ g[n] \in Nat /\ s[n] \in Nat /\ g[i] \in Nat /\ n \in 0 .. Len(s)
    BY <1>1, <2>4
  <2>8. PICK a \in Nat, b \in Nat, d \in Nat, y \in Nat : a = g[n - 1] /\ b = g[n] /\ d = s[n] /\ y = g[i]
    BY <2>7
  <2>9. b = a + d /\ d >= c
    BY <2>4, <2>8 DEF IsSums
  <2>10. y <= a /\ (i < n - 1 => y + c <= a)
    BY <2>6, <2>8
  <2>11. i < n
    BY <2>3
  <2>12. y + c <= b /\ y <= b
    BY <2>9, <2>10
  <2>. QED
    BY <2>3, <2>8, <2>11, <2>12
<1>3. Up(k)
  BY <1>1, <1>2
<1>. QED
  BY <1>1, <1>3

LEMMA PrefixTotal ==
  ASSUME NEW s \in Seq(Nat), NEW g, IsSums(s, g), NEW k \in 0 .. Len(s)
  PROVE  Total(SubSeq(s, 1, k)) = g[k] /\ g[k] \in Nat
<1>1. Len(s) \in Nat /\ g \in [0 .. Len(s) -> Nat]
  BY DEF IsSums
<1>2. PICK t : t = SubSeq(s, 1, k)
  OBVIOUS
<1>3. t \in Seq(Nat) /\ Len(t) = k /\ \A i \in 1 .. k : t[i] = s[i]
  BY <1>1, <1>2
<1>4. PICK h : h = [i \in 0 .. k |-> g[i]]
  OBVIOUS
<1>5. h \in [0 .. k -> Nat] /\ h[0] = 0 /\ h[k] = g[k]
  BY <1>1, <1>4 DEF IsSums
<1>6. ASSUME NEW i \in 1 .. k PROVE h[i] = h[i - 1] + t[i]
  <2>1. h[i] = g[i] /\ h[i - 1] = g[i - 1] /\ t[i] = s[i] /\ i \in 1 .. Len(s)
    BY <1>1, <1>3, <1>4
  <2>. QED
    BY <2>1 DEF IsSums
<1>7. IsSums(t, h)
  BY <1>3, <1>5, <1>6 DEF IsSums
<1>8. Total(t) = h[Len(t)]
  BY <1>3, <1>7, TotalIs
<1>. QED
  BY <1>1, <1>2, <1>3, <1>5, <1>8

LEMMA BeginIs ==
  ASSUME NEW s \in Seq(Nat), NEW g, IsSums(s, g), NEW k \in 1 .. Len(s) + 1, NEW from \in Nat
  PROVE  BeginOf(s, from, k) = from + g[k - 1] /\ g[k - 1] \in Nat
<1>1. k - 1 \in 0 .. Len(s)
  OBVIOUS
<1>2. Total(SubSeq(s, 1, k - 1)) = g[k - 1] /\ g[k - 1] \in Nat
  BY <1>1, PrefixTotal
<1>. QED
  BY <1>2 DEF BeginOf

LEMMA CountAll ==
  ASSUME NEW n \in Nat
  PROVE  Cardinality(1 .. n) = n
<1>1. Cardinality(1 .. n) = IF 1 > n THEN 0 ELSE n - 1 + 1
  BY FS_Interval
<1>. QED
  BY <1>1

\* A list that reaches to the limit is taken whole.
LEMMA WalkAll ==
  ASSUME NEW s \in Seq(Nat), NEW from \in Nat, NEW fixed \in Nat,
         \A i \in 1 .. Len(s) : s[i] >= fixed
  PROVE  /\ Walk(s, from, fixed, from + Total(s)) = 1 .. Len(s)
         /\ ~Beyond(s, from, fixed, from + Total(s))
<1>1. PICK g : IsSums(s, g)
  BY SumsExist
<1>2. Total(s) = g[Len(s)] /\ Total(s) \in Nat
  BY <1>1, TotalIs
<1>3. PICK n \in Nat, t \in Nat : n = Len(s) /\ t = Total(s) /\ t = g[n]
  BY <1>2
<1>4. ASSUME NEW k \in 1 .. n
      PROVE  /\ BeginOf(s, from, k) + fixed <= from + t
             /\ ~(BeginOf(s, from, k + 1) > from + t)
  <2>1. BeginOf(s, from, k) = from + g[k - 1] /\ g[k - 1] \in Nat
    BY <1>1, <1>3, BeginIs
  <2>2. BeginOf(s, from, k + 1) = from + g[k] /\ g[k] \in Nat
    <3>2. PICK m : m = k + 1
      OBVIOUS
    <3>3. m \in 1 .. Len(s) + 1 /\ m - 1 = k
      BY <1>3, <3>2
    <3>4. BeginOf(s, from, m) = from + g[m - 1] /\ g[m - 1] \in Nat
      BY <1>1, <3>3, BeginIs
    <3>. QED
      BY <3>2, <3>3, <3>4
  <2>3. k - 1 \in 0 .. Len(s) /\ k \in 0 .. Len(s) /\ n \in 0 .. Len(s) /\ k - 1 <= k /\ k <= n /\ k - 1 < k
    BY <1>3
  <2>4. g[k - 1] + fixed <= g[k]
    BY <1>1, <2>3, SumsGrow
  <2>5. g[k] <= g[n]
    BY <1>1, <2>3, SumsGrow
  <2>6. PICK a \in Nat, b \in Nat : a = g[k - 1] /\ b = g[k]
    BY <2>1, <2>2
  <2>7. a + fixed <= b /\ b <= t
    BY <1>3, <2>4, <2>5, <2>6
  <2>8. from + a + fixed <= from + t /\ ~(from + b > from + t)
    <3>1. a \in Int /\ b \in Int /\ t \in Int /\ from \in Int /\ fixed \in Int
      BY <1>3, <2>6
    <3>. QED
      BY ONLY <2>7, <3>1
  <2>. QED
    BY <2>1, <2>2, <2>6, <2>8
<1>5. DOMAIN s = 1 .. n
  BY <1>3
<1>. QED
  BY <1>3, <1>4, <1>5 DEF Walk, Beyond

\* One byte short of it, a list of items without data lacks its last.
LEMMA WalkShort ==
  ASSUME NEW s \in Seq(Nat), NEW from \in Nat, NEW fixed \in Nat \ {0},
         \A i \in 1 .. Len(s) : s[i] = fixed
  PROVE  /\ Walk(s, from, fixed, from + Total(s) - 1) = 1 .. Len(s) - 1
         /\ ~Beyond(s, from, fixed, from + Total(s) - 1)
<1>1. PICK g : IsSums(s, g)
  BY SumsExist
<1>2. Total(s) = g[Len(s)] /\ Total(s) \in Nat
  BY <1>1, TotalIs
<1>3. PICK n \in Nat, t \in Nat : n = Len(s) /\ t = Total(s) /\ t = g[n]
  BY <1>2
<1>4. ASSUME NEW k \in 1 .. n
      PROVE  /\ BeginOf(s, from, k) + fixed = BeginOf(s, from, k + 1)
             /\ BeginOf(s, from, k + 1) \in Nat
             /\ k < n => BeginOf(s, from, k + 1) + fixed <= from + t
             /\ k = n => BeginOf(s, from, k + 1) = from + t
  <2>1. BeginOf(s, from, k) = from + g[k - 1] /\ g[k - 1] \in Nat
    BY <1>1, <1>3, BeginIs
  <2>2. BeginOf(s, from, k + 1) = from + g[k] /\ g[k] \in Nat
    <3>2. PICK m : m = k + 1
      OBVIOUS
    <3>3. m \in 1 .. Len(s) + 1 /\ m - 1 = k
      BY <1>3, <3>2
    <3>4. BeginOf(s, from, m) = from + g[m - 1] /\ g[m - 1] \in Nat
      BY <1>1, <3>3, BeginIs
    <3>. QED
      BY <3>2, <3>3, <3>4
  <2>3. k \in 0 .. Len(s) /\ n \in 0 .. Len(s) /\ k <= n /\ k \in 1 .. Len(s)
    BY <1>3
  <2>4. g[k] = g[k - 1] + fixed
    <3>1. g[k] = g[k - 1] + s[k] /\ s[k] = fixed
      BY <1>1, <2>3 DEF IsSums
    <3>. QED
      BY <3>1
  <2>5. \A i \in 1 .. Len(s) : s[i] >= fixed
    OBVIOUS
  <2>6. k < n => g[k] + fixed <= g[n]
    BY <1>1, <2>3, <2>5, SumsGrow
  <2>7. PICK a \in Nat, b \in Nat : a = g[k - 1] /\ b = g[k]
    BY <2>1, <2>2
  <2>8. b = a + fixed /\ (k < n => b + fixed <= t) /\ (k = n => b = t)
    BY <1>3, <2>4, <2>6, <2>7
  <2>9. /\ from + a + fixed = from + b /\ from + b \in Nat
        /\ k < n => from + b + fixed <= from + t
        /\ k = n => from + b = from + t
    <3>1. a \in Int /\ b \in Nat /\ t \in Int /\ from \in Nat /\ fixed \in Int
      BY <1>3, <2>7
    <3>. QED
      BY ONLY <2>8, <3>1
  <2>. QED
    BY <2>1, <2>2, <2>7, <2>9
<1>5. DOMAIN s = 1 .. n
  BY <1>3
<1>6. ASSUME NEW k \in 1 .. n
      PROVE  BeginOf(s, from, k) + fixed <= from + t - 1 <=> k <= n - 1
  <2>1. PICK b \in Nat : b = BeginOf(s, from, k + 1) /\ BeginOf(s, from, k) + fixed = b
    BY <1>4
  <2>2. (k < n => b + fixed <= from + t) /\ (k = n => b = from + t)
    BY <1>4, <2>1
  <2>. QED
    BY <2>1, <2>2
<1>7. Walk(s, from, fixed, from + t - 1) = 1 .. n - 1
  BY <1>5, <1>6 DEF Walk
<1>8. ~Beyond(s, from, fixed, from + t - 1)
  <2>. SUFFICES ASSUME NEW k \in 1 .. n - 1, BeginOf(s, from, k + 1) > from + t - 1 PROVE FALSE
    BY <1>7 DEF Beyond
  <2>1. k \in 1 .. n /\ k < n
    OBVIOUS
  <2>2. BeginOf(s, from, k + 1) \in Nat /\ BeginOf(s, from, k + 1) + fixed <= from + t
    BY <1>4, <2>1
  <2>. QED
    BY <2>2
<1>. QED
  BY <1>3, <1>7, <1>8

------------------------------------------------------------------------------
(* Tables as they are parsed. *)

EntryT == [type : STRING, pid : Nat, descriptors : Seq(Nat)]

Distinct(entries) ==
  \A i, k \in 1 .. Len(entries) : entries[i].pid = entries[k].pid => i = k

LEMMA EntrySizesAre ==
  ASSUME NEW entries \in Seq(EntryT)
  PROVE  /\ EntrySizes(entries) \in Seq(Nat) /\ Len(EntrySizes(entries)) = Len(entries)
         /\ \A i \in 1 .. Len(entries) :
              /\ EntrySizes(entries)[i] >= 5
              /\ entries[i].descriptors = <<>> => EntrySizes(entries)[i] = 5
              /\ parse_descriptors(entries[i]).ok = TRUE
         /\ pmt_len(entries) = 4 + Total(EntrySizes(entries)) /\ pmt_len(entries) \in Nat
<1>1. ASSUME NEW i \in 1 .. Len(entries)
      PROVE  /\ es_info_length(entries[i]) \in Nat
             /\ entries[i].descriptors = <<>> => es_info_length(entries[i]) = 0
             /\ parse_descriptors(entries[i]).ok = TRUE
  <2>1. PICK d \in Seq(Nat) : d = entries[i].descriptors
    <3>1. entries[i] \in EntryT
      OBVIOUS
    <3>. QED
      BY <3>1 DEF EntryT
  <2>2. PICK s : s = [k \in DOMAIN d |-> 2 + d[k]]
    OBVIOUS
  <2>3. s \in Seq(Nat) /\ Len(s) = Len(d) /\ \A k \in 1 .. Len(s) : s[k] >= 2
    <3>1. DOMAIN d = 1 .. Len(d) /\ Len(d) \in Nat /\ \A k \in 1 .. Len(d) : d[k] \in Nat
      BY <2>1
    <3>2. s = [k \in 1 .. Len(d) |-> 2 + d[k]]
      BY <2>2, <3>1
    <3>3. \A k \in 1 .. Len(d) : 2 + d[k] \in Nat /\ 2 + d[k] >= 2
      BY <3>1
    <3>4. s \in [1 .. Len(d) -> Nat] /\ \A k \in 1 .. Len(d) : s[k] >= 2
      BY <3>2, <3>3
    <3>5. s \in Seq(Nat) /\ Len(s) = Len(d)
      BY <3>1, <3>4
    <3>. QED
      BY <3>4, <3>5
  <2>4. DescriptorSizes(entries[i]) = s
    BY <2>1, <2>2 DEF DescriptorSizes
  <2>5. PICK g : IsSums(s, g)
    BY <2>3, SumsExist
  <2>6. Total(s) \in Nat /\ Total(s) = g[Len(s)]
    BY <2>3, <2>5, TotalIs
  <2>7. ~Beyond(s, 0, 2, 0 + Total(s))
    BY <2>3, WalkAll
  <2>8. 0 + Total(s) = Total(s)
    BY <2>6
  <2>9. es_info_length(entries[i]) = Total(s)
    BY <2>4 DEF es_info_length
  <2>10. parse_descriptors(entries[i]).ok = TRUE
    BY <2>4, <2>7, <2>8, <2>9 DEF parse_descriptors
  <2>11. d = <<>> => Total(s) = 0
    <3>. SUFFICES ASSUME d = <<>> PROVE g[Len(s)] = 0
      BY <2>6
    <3>1. Len(s) = 0
      BY <2>3
    <3>. QED
      BY <2>5, <3>1 DEF IsSums
  <2>. QED
    BY <2>1, <2>6, <2>9, <2>10, <2>11
<1>2. PICK s : s = EntrySizes(entries)
  OBVIOUS
<1>3. s = [i \in 1 .. Len(entries) |-> 5 + es_info_length(entries[i])] /\ Len(entries) \in Nat
  BY <1>2 DEF EntrySizes
<1>4. ASSUME NEW i \in 1 .. Len(entries)
      PROVE  s[i] \in Nat /\ s[i] >= 5 /\ (entries[i].descriptors = <<>> => s[i] = 5)
  <2>1. PICK x \in Nat : x = es_info_length(entries[i]) /\ (entries[i].descriptors = <<>> => x = 0)
    BY <1>1
  <2>2. s[i] = 5 + x
    BY <1>3, <2>1
  <2>. QED
    BY <2>1, <2>2
<1>5. s \in Seq(Nat) /\ Len(s) = Len(entries)
  BY <1>3, <1>4
<1>6. Total(s) \in Nat
  BY <1>5, SumsExist, TotalIs
<1>7. pmt_len(entries) = 4 + Total(s) /\ pmt_len(entries) \in Nat
  BY <1>2, <1>6 DEF pmt_len
<1>8. \A i \in 1 .. Len(entries) :
        /\ s[i] >= 5 /\ (entries[i].descriptors = <<>> => s[i] = 5)
        /\ parse_descriptors(entries[i]).ok = TRUE
  BY <1>1, <1>4
<1>. QED
  BY <1>2, <1>5, <1>7, <1>8

IsPAT(who, f) ==
  /\ f.kind = "pat" /\ f.size = PacketSize /\ f.pointer = 0
  /\ f.header.transport_error \in BOOLEAN
  /\ f.section.programs \in Seq(Nat)
  /\ f.section.section_length = pat_len(f.section.programs) + 5 + 4
  /\ who = "muxer" => f.section.programs = << 1 >> /\ ~f.header.transport_error

IsPMT(who, f) ==
  /\ f.kind = "pmt" /\ f.size \in Nat /\ f.size >= PacketSize /\ f.pointer \in Nat
  /\ ~f.header.transport_error /\ f.header.pid \in Nat
  /\ f.section.entries \in Seq(EntryT) /\ Distinct(f.section.entries)
  /\ who = "foreign" =>
       f.size = PacketSize /\ f.section.section_length = pmt_len(f.section.entries) + 5 + 4
  /\ who = "muxer" =>
       /\ f.header.pid = 4096 /\ f.section.section_length = pmt_len(f.section.entries) + 4 + 4
       /\ \A i \in 1 .. Len(f.section.entries) : f.section.entries[i].descriptors = <<>>

IsMedia(who, f) ==
  /\ who = "muxer" /\ f.kind = "media" /\ f.size \in Nat /\ f.size >= PacketSize /\ ~f.header.transport_error
  /\ f.header.pid \in 1 .. FirstMapPid - 1

\* The pid of a stream is below those that a PAT names.
LEMMA StreamPid ==
  ASSUME NEW n \in Int, 1 <= n, n <= FirstMapPid - 256
  PROVE  get_stream_pid(n - 1) % PidMod \in 1 .. FirstMapPid - 1
<1>1. n <= 3840
  BY DEF FirstMapPid
<1>2. PICK pid \in Int : pid = 256 + (n - 1) /\ 1 <= pid /\ pid <= 4095
  BY <1>1
<1>3. pid % 8192 = pid
  BY <1>2
<1>4. pid \in 1 .. 4095
  BY <1>2
<1>. QED
  BY <1>2, <1>3, <1>4 DEF FirstMapPid, PidMod, get_stream_pid

\* A pid that a PAT names, or none.
MapPid(pid) == pid = NoPid \/ pid = NetworkPid \/ (pid \in Nat /\ pid >= FirstMapPid)

LEMMA PidsDiffer ==
  ASSUME NEW pid \in 1 .. FirstMapPid - 1, NEW other, MapPid(other)
  PROVE  pid # other
<1>1. pid \in Int /\ 1 <= pid /\ pid <= 4095
  BY DEF FirstMapPid
<1>2. PICK q \in Int : q = other /\ (q = -1 \/ q = 0 \/ q >= 4096)
  BY DEF MapPid, NoPid, NetworkPid, FirstMapPid
<1>3. \A x \in Int, y \in Int : 1 <= x /\ x <= 4095 /\ (y = -1 \/ y = 0 \/ y >= 4096) => x # y
  OBVIOUS
<1>. QED
  BY <1>1, <1>2, <1>3

Kept(who, entries) == IF who = "muxer" THEN SubSeq(entries, 1, Len(entries) - 1) ELSE entries

LEMMA SubSeqWhole ==
  ASSUME NEW S, NEW s \in Seq(S)
  PROVE  SubSeq(s, 1, Len(s)) = s
OBVIOUS

LEMMA PATParsed ==
  ASSUME NEW who, NEW f, IsPAT(who, f)
  PROVE  (parse_pat(f).ok <=> Fits(f)) /\ parse_pat(f).programs = f.section.programs
<1>1. PICK ps \in Seq(Nat) : ps = f.section.programs
  BY DEF IsPAT
<1>2. PICK n \in Nat : n = Len(ps)
  OBVIOUS
<1>3. PICK s : s = [i \in 1 .. n |-> 4]
  OBVIOUS
<1>4. s \in Seq(Nat) /\ Len(s) = n /\ \A i \in 1 .. Len(s) : s[i] >= 4
  BY <1>3
<1>5. PATSizes(f) = s
  BY <1>1, <1>2, <1>3 DEF PATSizes
<1>6. PICK g : g = [i \in 0 .. n |-> 4 * i]
  OBVIOUS
<1>7. IsSums(s, g)
  <2>1. g \in [0 .. n -> Nat] /\ g[0] = 0
    BY <1>6
  <2>2. ASSUME NEW i \in 1 .. n PROVE g[i] = g[i - 1] + s[i]
    <3>1. g[i] = 4 * i /\ g[i - 1] = 4 * (i - 1) /\ s[i] = 4
      BY <1>3, <1>6
    <3>. QED
      BY <3>1
  <2>. QED
    BY <1>4, <2>1, <2>2 DEF IsSums
<1>8. Total(s) = 4 * n
  <2>1. Total(s) = g[Len(s)]
    BY <1>4, <1>7, TotalIs
  <2>. QED
    BY <1>4, <1>6, <2>1
<1>9. SectionEnd(f) = 3 + (4 * n + 5 + 4)
  BY <1>1, <1>2 DEF SectionEnd, IsPAT, pat_len
<1>10. Walk(s, 8, 4, 8 + Total(s)) = 1 .. n
  BY <1>4, WalkAll
<1>11. SectionEnd(f) - 4 = 8 + Total(s)
  BY <1>8, <1>9
<1>12. SubSeq(ps, 1, Cardinality(1 .. n)) = ps
  BY <1>2, CountAll, SubSeqWhole
<1>13. parse_pat(f).programs = ps
  BY <1>1, <1>5, <1>10, <1>11, <1>12 DEF parse_pat
<1>14. Available(f) \in Int
  BY MuxerAssumption DEF Available, IsPAT
<1>15. Fits(f) => Available(f) >= 8
  BY <1>9, <1>14 DEF Fits
<1>16. parse_pat(f).ok <=> Available(f) >= 8 /\ Fits(f)
  BY DEF parse_pat
<1>. QED
  BY <1>1, <1>13, <1>15, <1>16

LEMMA PMTParsed ==
  ASSUME NEW who \in {"muxer", "foreign"}, NEW f, IsPMT(who, f)
  PROVE  /\ parse_pmt(f).ok <=> Fits(f)
         /\ parse_pmt(f).entries = Kept(who, f.section.entries)
<1>1. PICK es \in Seq(EntryT) : es = f.section.entries
  BY DEF IsPMT
<1>2. PICK n \in Nat : n = Len(es)
  OBVIOUS
<1>3. PICK s \in Seq(Nat) :
        /\ s = EntrySizes(es) /\ Len(s) = n
        /\ \A i \in 1 .. Len(s) : s[i] >= 5
        /\ \A i \in 1 .. n : es[i].descriptors = <<>> => s[i] = 5
  BY <1>2, EntrySizesAre
<1>4. PICK t \in Nat : t = Total(s) /\ pmt_len(es) = 4 + t
  <2>1. Total(s) \in Nat
    BY SumsExist, TotalIs
  <2>2. pmt_len(es) = 4 + Total(s)
    BY <1>3, EntrySizesAre
  <2>. QED
    BY <2>1, <2>2
<1>5. PICK taken : taken = Walk(s, 12, 5, SectionEnd(f) - 4)
  OBVIOUS
<1>6. /\ taken = IF who = "muxer" THEN 1 .. n - 1 ELSE 1 .. n
      /\ ~Beyond(s, 12, 5, SectionEnd(f) - 4)
      /\ SectionEnd(f) \in Int /\ SectionEnd(f) >= 7
  <2>1. CASE who = "foreign"
    <3>1. SectionEnd(f) - 4 = 12 + t /\ SectionEnd(f) \in Int /\ SectionEnd(f) >= 7
      <4>1. SectionEnd(f) = 3 + (4 + t + 5 + 4)
        <5>1. f.section.section_length = pmt_len(es) + 5 + 4
          BY <1>1, <2>1 DEF IsPMT
        <5>2. pmt_len(es) = 4 + t
          BY <1>4
        <5>3. f.section.section_length = 4 + t + 5 + 4
          BY <5>1, <5>2
        <5>4. SectionEnd(f) = 3 + f.section.section_length
          BY DEF SectionEnd
        <5>. QED
          BY <1>4, <5>3, <5>4
      <4>. QED
        BY <4>1
    <3>2. Walk(s, 12, 5, 12 + Total(s)) = 1 .. Len(s) /\ ~Beyond(s, 12, 5, 12 + Total(s))
      BY <1>3, WalkAll
    <3>. QED
      BY <1>3, <1>4, <1>5, <2>1, <3>1, <3>2
  <2>2. CASE who = "muxer"
    <3>1. SectionEnd(f) - 4 = 12 + t - 1 /\ SectionEnd(f) \in Int /\ SectionEnd(f) >= 7
      <4>1. SectionEnd(f) = 3 + (4 + t + 4 + 4)
        <5>1. f.section.section_length = pmt_len(es) + 4 + 4
          BY <1>1, <2>2 DEF IsPMT
        <5>2. pmt_len(es) = 4 + t
          BY <1>4
        <5>3. f.section.section_length = 4 + t + 4 + 4
          BY <5>1, <5>2
        <5>4. SectionEnd(f) = 3 + f.section.section_length
          BY DEF SectionEnd
        <5>. QED
          BY <1>4, <5>3, <5>4
      <4>. QED
        BY <4>1
    <3>2. \A i \in 1 .. Len(s) : s[i] = 5
      <4>1. \A i \in 1 .. n : es[i].descriptors = <<>>
        BY <1>1, <1>2, <2>2 DEF IsPMT
      <4>. QED
        BY <1>3, <4>1
    <3>3. Walk(s, 12, 5, 12 + Total(s) - 1) = 1 .. Len(s) - 1 /\ ~Beyond(s, 12, 5, 12 + Total(s) - 1)
      BY <3>2, WalkShort
    <3>. QED
      BY <1>3, <1>4, <1>5, <2>2, <3>1, <3>3
  <2>. QED
    BY <2>1, <2>2
<1>7. \A k \in taken : parse_descriptors(es[k]).ok
  <2>1. taken \subseteq 1 .. n
    BY <1>6
  <2>. QED
    BY <1>2, <2>1, EntrySizesAre
<1>8. SubSeq(es, 1, Cardinality(taken)) = Kept(who, es)
  <2>1. CASE who = "foreign"
    <3>1. Cardinality(taken) = n
      BY <1>6, <2>1, CountAll
    <3>. QED
      BY <1>2, <2>1, <3>1, SubSeqWhole DEF Kept
  <2>2. CASE who = "muxer" /\ n > 0
    <3>1. n - 1 \in Nat
      BY <2>2
    <3>2. Cardinality(1 .. n - 1) = n - 1
      BY <3>1, CountAll
    <3>. QED
      BY <1>2, <1>6, <2>2, <3>2 DEF Kept
  <2>3. CASE who = "muxer" /\ n = 0
    <3>1. taken = {}
      BY <1>6, <2>3
    <3>2. Cardinality(taken) = 0
      BY <3>1, FS_EmptySet
    <3>3. SubSeq(es, 1, 0) = <<>> /\ SubSeq(es, 1, 0 - 1) = <<>>
      OBVIOUS
    <3>. QED
      BY <1>2, <2>3, <3>2, <3>3 DEF Kept
  <2>. QED
    BY <2>1, <2>2, <2>3
<1>9. Available(f) \in Int
  BY MuxerAssumption DEF Available, IsPMT
<1>10. Fits(f) => Available(f) >= 7
  BY <1>6, <1>9 DEF Fits
<1>11. parse_pmt(f).entries = SubSeq(es, 1, Cardinality(taken))
  BY <1>1, <1>3, <1>5 DEF parse_pmt
<1>12. parse_pmt(f).ok <=>
         /\ Available(f) >= 7 /\ Fits(f) /\ ~Beyond(s, 12, 5, SectionEnd(f) - 4)
         /\ \A k \in taken : parse_descriptors(es[k]).ok
  BY <1>1, <1>3, <1>5 DEF parse_pmt
<1>. QED
  BY <1>1, <1>6, <1>7, <1>8, <1>10, <1>11, <1>12

------------------------------------------------------------------------------
(* What is written into a file. *)

WrittenBy(who, f) == IsPAT(who, f) \/ IsPMT(who, f) \/ IsMedia(who, f)

FileIs(who, fs) ==
  /\ \E S : fs \in Seq(S)
  /\ \A i \in 1 .. Len(fs) : WrittenBy(who, fs[i])
  /\ who \notin {"muxer", "foreign"} => fs = <<>>

LEMMA FileGrows ==
  ASSUME NEW who \in {"muxer", "foreign"}, NEW w \in {"open", who}, NEW fs, FileIs(w, fs),
         NEW T, NEW ex \in Seq(T), \A i \in 1 .. Len(ex) : WrittenBy(who, ex[i])
  PROVE  FileIs(who, fs \o ex)
<1>1. \A i \in 1 .. Len(fs) : WrittenBy(who, fs[i])
  <2>1. CASE w = who
    BY <2>1 DEF FileIs
  <2>2. CASE w = "open"
    <3>1. fs = <<>>
      BY <2>2 DEF FileIs
    <3>2. Len(fs) = 0
      BY <3>1
    <3>. QED
      BY <3>2
  <2>. QED
    BY <2>1, <2>2
<1>2. PICK S : fs \in Seq(S)
  BY DEF FileIs
<1>3. PICK V : V = S \cup T
  OBVIOUS
<1>4. fs \in Seq(V) /\ ex \in Seq(V)
  BY <1>2, <1>3
<1>5. /\ fs \o ex \in Seq(V) /\ Len(fs \o ex) = Len(fs) + Len(ex)
      /\ \A i \in 1 .. Len(fs) + Len(ex) :
           (fs \o ex)[i] = IF i <= Len(fs) THEN fs[i] ELSE ex[i - Len(fs)]
  BY <1>4, ConcatProperties
<1>6. ASSUME NEW i \in 1 .. Len(fs \o ex) PROVE WrittenBy(who, (fs \o ex)[i])
  <2>1. Len(fs) \in Nat /\ Len(ex) \in Nat /\ i \in 1 .. Len(fs) + Len(ex)
    BY <1>4, <1>5
  <2>2. CASE i <= Len(fs)
    <3>1. i \in 1 .. Len(fs) /\ (fs \o ex)[i] = fs[i]
      BY <1>5, <2>1, <2>2
    <3>. QED
      BY <1>1, <3>1
  <2>3. CASE ~(i <= Len(fs))
    <3>1. i - Len(fs) \in 1 .. Len(ex) /\ (fs \o ex)[i] = ex[i - Len(fs)]
      BY <1>5, <2>1, <2>3
    <3>. QED
      BY <3>1
  <2>. QED
    BY <2>2, <2>3
<1>. QED
  BY <1>5, <1>6 DEF FileIs

LEMMA PATWritten ==
  ASSUME NEW who, NEW programs \in Seq(Nat), NEW error \in BOOLEAN,
         who = "muxer" => programs = << 1 >> /\ ~error
  PROVE  IsPAT(who, InPacket(PATSection(programs), PacketSize, 0, error))
<1>1. PICK section : section = PATSection(programs)
  OBVIOUS
<1>2. /\ section.kind = "pat" /\ section.programs = programs
      /\ section.section_length = pat_len(programs) + 5 + 4
  BY <1>1 DEF PATSection
<1>3. PICK f : f = InPacket(section, PacketSize, 0, error)
  OBVIOUS
<1>4. PacketSize \in Nat
  BY MuxerAssumption
<1>5. f.kind = "pat" /\ f.size = PacketSize /\ f.pointer = 0 /\ f.section = section
  BY <1>2, <1>3, <1>4 DEF InPacket
<1>6. f.header.transport_error = error
  BY <1>3 DEF InPacket, write_ts_header, TSHeader
<1>. QED
  BY <1>1, <1>2, <1>3, <1>5, <1>6 DEF IsPAT

LEMMA PMTWritten ==
  ASSUME NEW who \in {"muxer", "foreign"}, NEW program \in {1, 2}, NEW entries \in Seq(EntryT),
         Distinct(entries), NEW pointer \in Nat, NEW length, NEW size \in Nat,
         who = "foreign" => size = PacketSize /\ length = ConformingLength(entries),
         who = "muxer" =>
           /\ program = 1 /\ length = MuxerLength(entries)
           /\ \A i \in 1 .. Len(entries) : entries[i].descriptors = <<>>
  PROVE  IsPMT(who, InPacket(PMTSection(program, entries, length), size, pointer, FALSE))
<1>1. PICK section : section = PMTSection(program, entries, length)
  OBVIOUS
<1>2. /\ section.kind = "pmt" /\ section.entries = entries /\ section.section_length = length
      /\ section.pid = PmtPid(program)
  BY <1>1 DEF PMTSection
<1>3. PICK f : f = InPacket(section, size, pointer, FALSE)
  OBVIOUS
<1>4. PacketSize \in Nat
  BY MuxerAssumption
<1>5. /\ f.kind = "pmt" /\ f.size \in Nat /\ f.size >= PacketSize /\ (size = PacketSize => f.size = size)
      /\ f.pointer = pointer /\ f.section = section
  BY <1>2, <1>3, <1>4 DEF InPacket
<1>6. f.header.transport_error = FALSE /\ f.header.pid = section.pid % PidMod
  BY <1>3 DEF InPacket, write_ts_header, TSHeader
<1>7. f.header.pid \in Nat /\ (program = 1 => f.header.pid = 4096)
  <2>1. CASE program = 1
    <3>1. f.header.pid = 4096 % 8192
      BY <1>2, <1>6, <2>1 DEF PmtPid, PidMod, FirstMapPid
    <3>. QED
      BY <3>1
  <2>2. CASE program = 2
    <3>1. f.header.pid = 4097 % 8192
      BY <1>2, <1>6, <2>2 DEF PmtPid, PidMod, FirstMapPid
    <3>. QED
      BY <2>2, <3>1
  <2>. QED
    BY <2>1, <2>2
<1>8. who = "foreign" =>
        f.size = PacketSize /\ f.section.section_length = pmt_len(f.section.entries) + 5 + 4
  BY <1>2, <1>5 DEF ConformingLength
<1>9. who = "muxer" =>
        /\ f.header.pid = 4096 /\ f.section.section_length = pmt_len(f.section.entries) + 4 + 4
        /\ \A i \in 1 .. Len(f.section.entries) : f.section.entries[i].descriptors = <<>>
  BY <1>2, <1>5, <1>7 DEF MuxerLength
<1>10. f.section.entries \in Seq(EntryT) /\ Distinct(f.section.entries)
  BY <1>2, <1>5
<1>11. IsPMT(who, f)
  BY <1>5, <1>6, <1>7, <1>8, <1>9, <1>10 DEF IsPMT
<1>. QED
  BY <1>1, <1>3, <1>11

LEMMA RegisteredAre ==
  ASSUME NEW types \in Seq(STRING)
  PROVE  /\ RegisteredEntries(types) \in Seq(EntryT) /\ Distinct(RegisteredEntries(types))
         /\ \A i \in 1 .. Len(RegisteredEntries(types)) : RegisteredEntries(types)[i].descriptors = <<>>
<1>1. PICK n \in Nat : n = Len(types) /\ DOMAIN types = 1 .. n
  OBVIOUS
<1>2. PICK es : es = RegisteredEntries(types)
  OBVIOUS
<1>3. es = [i \in 1 .. n |-> [type |-> types[i], pid |-> 256 + (i - 1), descriptors |-> <<>>]]
  BY <1>1, <1>2 DEF RegisteredEntries, get_stream_pid
<1>4. \A i \in 1 .. n : es[i] \in EntryT /\ es[i].descriptors = <<>> /\ es[i].pid = 256 + (i - 1)
  <2>1. <<>> \in Seq(Nat)
    OBVIOUS
  <2>2. \A i \in 1 .. n : types[i] \in STRING /\ 256 + (i - 1) \in Nat
    BY <1>1
  <2>. QED
    BY <1>3, <2>1, <2>2 DEF EntryT
<1>5. es \in Seq(EntryT) /\ Len(es) = n
  BY <1>3, <1>4
<1>6. Distinct(es)
  BY <1>4, <1>5 DEF Distinct
<1>. QED
  BY <1>2, <1>4, <1>5, <1>6

LEMMA PieceCountIs ==
  ASSUME NEW len \in Nat
  PROVE  PieceCount(len) \in Nat
<1>. SUFFICES ASSUME len # 0 PROVE PieceCount(len) \in Nat
  BY DEF PieceCount
<1>1. PICK a \in Nat, b \in Nat : a = max_payload_size(0) /\ b = max_payload_size(1) /\ a >= 1 /\ b >= 1
  BY MuxerAssumption DEF max_payload_size, adaptation_field_size
<1>. DEFINE Off(k) == IF k = 1 THEN 0 ELSE a + (k - 2) * b
            S == {k \in 1 .. len : len <= Off(k + 1)}
<1>2. len \in S
  <2>1. (len - 1) * b >= len - 1
    <3>1. (len - 1) * (b - 1) >= 0 /\ (len - 1) * (b - 1) = (len - 1) * b - (len - 1)
      BY <1>1
    <3>. QED
      BY <1>1, <3>1
  <2>2. PICK x \in Int : x = (len - 1) * b
    BY <1>1
  <2>3. Off(len + 1) = a + x
    BY <2>2
  <2>. QED
    BY <1>1, <2>1, <2>2, <2>3
<1>3. PICK k \in S : \A i \in S : k <= i
  <2>. HIDE DEF Off
  <2>1. S \subseteq Nat
    OBVIOUS
  <2>. HIDE DEF S
  <2>. QED
    BY <1>2, <2>1, Least
<1>4. k \in 1 .. len /\ len <= Off(k + 1) /\ Off(k) < len
  <2>1. CASE k = 1
    BY <1>3, <2>1
  <2>2. CASE k # 1
    <3>1. k - 1 \in 1 .. len /\ k - 1 \notin S /\ k - 1 + 1 = k
      BY <1>3, <2>2
    <3>2. ~(len <= Off(k))
      BY <3>1
    <3>3. Off(k) \in Int
      BY <1>1, <3>1
    <3>. QED
      BY <1>3, <3>2, <3>3
  <2>. QED
    BY <2>1, <2>2
<1>5. OffsetOf(k) < len /\ len <= OffsetOf(k + 1)
  BY <1>1, <1>4 DEF OffsetOf
<1>6. PieceCount(len) \in 1 .. len
  BY <1>4, <1>5 DEF PieceCount
<1>. QED
  BY <1>6

LEMMA WrittenSizeIs ==
  ASSUME NEW len \in Nat, NEW k \in Nat
  PROVE  written_size(len, OffsetOf(k)) \in {PacketSize, PacketSize + 1}
<1>1. PICK offset \in Int : offset = OffsetOf(k)
  <2>1. max_payload_size(0) \in Int /\ max_payload_size(1) \in Int
    BY MuxerAssumption DEF max_payload_size, adaptation_field_size
  <2>2. (k - 2) * max_payload_size(1) \in Int
    BY <2>1
  <2>. QED
    BY <2>1, <2>2 DEF OffsetOf
<1>2. PICK field \in {0, 1} : field = adaptation_field_size(offset)
  BY DEF adaptation_field_size
<1>3. PICK room \in Int : room = max_payload_size(offset) /\ room = PacketSize - HeaderSize - field
  BY <1>2, MuxerAssumption DEF max_payload_size
<1>4. PICK n \in Int : n = payload_size(len, offset) /\ n <= room
  BY <1>3 DEF payload_size
<1>5. stuffing_size(len, offset) = room - n
  BY <1>3, <1>4 DEF stuffing_size
<1>6. written_size(len, offset) = HeaderSize + n + IF field + (room - n) > 0 THEN 1 + (field + (room - n)) ELSE 0
  BY <1>2, <1>4, <1>5 DEF written_size
<1>. QED
  BY <1>1, <1>2, <1>3, <1>4, <1>6, MuxerAssumption

------------------------------------------------------------------------------
(* The invariant of the reader. *)

SizesOf(fs) == [i \in 1 .. Len(fs) |-> fs[i].size]

\* The definitions of TSTables for a file fs.
Becomes(fs, k) ==
  /\ fs[k].kind = "pmt" /\ Fits(fs[k])
  /\ \E j \in 1 .. k - 1 :
       /\ Names(fs[j]) /\ PmtPid(fs[j].section.programs[1]) = fs[k].header.pid
       /\ \A i \in j + 1 .. k - 1 : ~Names(fs[i])

\* pid is the one that the last PAT among the first n TS packets names.
NamedAt(fs, n, pid) ==
  \/ pid = NoPid /\ \A j \in 1 .. n : ~Names(fs[j])
  \/ \E j \in 1 .. n : /\ Names(fs[j]) /\ PmtPid(fs[j].section.programs[1]) = pid
                       /\ \A i \in j + 1 .. n : ~Names(fs[i])

\* The reader is behind n TS packets that have their size, and has missed nothing.
OnTrack(fs, g, pl, pid, app, lr) ==
  \E n \in 0 .. Len(fs) :
    /\ pl = g[n] /\ \A i \in 1 .. n : fs[i].size = PacketSize
    /\ NamedAt(fs, n, pid)
    /\ \A k \in 1 .. n : Becomes(fs, k) => \E i \in 1 .. Len(app) : app[i] = k
    /\ lr # "bad_sync"

\* Or it is behind the first byte of one of the muxer that has not, and all
\* that a PAT of the muxer names is the same.
OffTrack(who, fs, g, pl, pid) ==
  /\ who = "muxer"
  /\ \E k \in 1 .. Len(fs) : g[k - 1] < pl /\ fs[k].size # PacketSize
  /\ \/ pid = NoPid
     \/ pid = 4096 /\ \E j \in 1 .. Len(fs) : Names(fs[j]) /\ g[j - 1] < pl

StreamsFrom(who, fs, st, app) ==
  \A p \in DOMAIN st : \E i \in 1 .. Len(app) :
    LET kept == Kept(who, fs[app[i]].section.entries)
    IN  /\ st[p].index + 1 \in DOMAIN kept
        /\ kept[st[p].index + 1].pid = p /\ kept[st[p].index + 1].type = st[p].type

LatestMap(who, fs, st, app) ==
  app # <<>> =>
    LET kept == Kept(who, fs[app[Len(app)]].section.entries)
    IN  \A i \in StreamsOf(kept) : kept[i].pid \in DOMAIN st /\ st[kept[i].pid].index = i - 1

AllBecame(fs, app) == \A i \in 1 .. Len(app) : Becomes(fs, app[i])

Fresh(st, pid, app, lr, drop, mis) ==
  ~drop /\ ~mis /\ pid = NoPid /\ DOMAIN st = {} /\ app = <<>> /\ lr = "none"

ReaderIs(who, fs, pl, pid, app, lr) ==
  /\ AllBecame(fs, app)
  /\ \E g : IsSums(SizesOf(fs), g) /\ (OnTrack(fs, g, pl, pid, app, lr) \/ OffTrack(who, fs, g, pl, pid))

\* The reader is behind the first byte of a TS packet that has not its size.
Strayed(fs, pl) ==
  \E g : IsSums(SizesOf(fs), g) /\ \E k \in 1 .. Len(fs) : g[k - 1] < pl /\ fs[k].size # PacketSize

\* Once bytes that are no table were parsed as one, the program map may be any;
\* this takes a read that was dropped or a TS packet that has not its size.
TablesInv ==
  /\ registered \in Seq(STRING) /\ Len(registered) <= FirstMapPid - 256
  /\ misread \in BOOLEAN
  /\ ts_writer \in {"open", "muxer", "foreign"} /\ FileIs(ts_writer, ts_file)
  /\ ts_place \in Nat /\ dropped \in BOOLEAN /\ applied \in Seq(1 .. Len(ts_file))
  /\ ts_place = 0 => Fresh(streams, pmt_pid, applied, last_result, dropped, misread)
  /\ ~misread => /\ MapPid(pmt_pid)
                 /\ StreamsFrom(ts_writer, ts_file, streams, applied)
                 /\ LatestMap(ts_writer, ts_file, streams, applied)
  /\ dropped \/ IF misread THEN Strayed(ts_file, ts_place)
                ELSE ReaderIs(ts_writer, ts_file, ts_place, pmt_pid, applied, last_result)

LEMMA SizesAre ==
  ASSUME NEW who, NEW fs, FileIs(who, fs)
  PROVE  /\ Len(fs) \in Nat /\ DOMAIN fs = 1 .. Len(fs)
         /\ SizesOf(fs) \in Seq(Nat) /\ Len(SizesOf(fs)) = Len(fs)
         /\ \A i \in 1 .. Len(fs) :
              /\ SizesOf(fs)[i] = fs[i].size /\ fs[i].size \in Nat /\ fs[i].size >= PacketSize
              /\ who = "foreign" => fs[i].size = PacketSize
<1>1. PICK S : fs \in Seq(S)
  BY DEF FileIs
<1>2. Len(fs) \in Nat /\ DOMAIN fs = 1 .. Len(fs)
  BY <1>1
<1>3. PacketSize \in Nat
  BY MuxerAssumption
<1>4. ASSUME NEW i \in 1 .. Len(fs)
      PROVE  fs[i].size \in Nat /\ fs[i].size >= PacketSize /\ (who = "foreign" => fs[i].size = PacketSize)
  <2>1. IsPAT(who, fs[i]) \/ IsPMT(who, fs[i]) \/ IsMedia(who, fs[i])
    BY DEF FileIs, WrittenBy
  <2>. QED
    BY <1>3, <2>1 DEF IsPAT, IsPMT, IsMedia
<1>5. PICK s : s = SizesOf(fs)
  OBVIOUS
<1>6. s \in Seq(Nat) /\ Len(s) = Len(fs) /\ \A i \in 1 .. Len(fs) : s[i] = fs[i].size
  BY <1>2, <1>4, <1>5 DEF SizesOf
<1>. QED
  BY <1>2, <1>4, <1>5, <1>6

LEMMA TablesInvInit == MuxInit /\ TablesInit => TablesInv
<1>. SUFFICES ASSUME MuxInit, TablesInit PROVE TablesInv
  OBVIOUS
<1>1. registered \in Seq(STRING) /\ Len(registered) = 0 /\ ts_file = <<>> /\ Len(ts_file) = 0 /\ misread = FALSE
  BY DEF MuxInit, TablesInit
<1>2. FileIs(ts_writer, ts_file)
  <2>1. ts_file \in Seq(Nat)
    BY <1>1
  <2>. QED
    BY <1>1, <2>1 DEF FileIs
<1>3. /\ ts_writer = "open" /\ ts_place = 0 /\ dropped = FALSE /\ applied = <<>> /\ last_result = "none"
      /\ pmt_pid = NoPid /\ DOMAIN streams = {} /\ Len(applied) = 0
  BY DEF TablesInit
<1>4. StreamsFrom(ts_writer, ts_file, streams, applied) /\ LatestMap(ts_writer, ts_file, streams, applied)
  BY <1>3 DEF StreamsFrom, LatestMap
<1>5. Fresh(streams, pmt_pid, applied, last_result, dropped, misread)
  BY <1>1, <1>3 DEF Fresh
<1>6. PICK g : IsSums(SizesOf(ts_file), g)
  BY <1>2, SizesAre, SumsExist
<1>7. g[0] = 0
  BY <1>6 DEF IsSums
<1>8. OnTrack(ts_file, g, ts_place, pmt_pid, applied, last_result)
  BY <1>1, <1>3, <1>7 DEF OnTrack, NamedAt
<1>9. ReaderIs(ts_writer, ts_file, ts_place, pmt_pid, applied, last_result)
  BY <1>3, <1>6, <1>8 DEF ReaderIs, AllBecame
<1>10. applied \in Seq(1 .. Len(ts_file))
  BY <1>3
<1>11. Len(registered) <= FirstMapPid - 256 /\ MapPid(pmt_pid)
  BY <1>1, <1>3 DEF MapPid, FirstMapPid
<1>. QED
  BY <1>1, <1>2, <1>3, <1>4, <1>5, <1>9, <1>10, <1>11 DEF TablesInv

\* A file grows only before it is read.
LEMMA FileWritten ==
  ASSUME TablesInv, NEW who \in {"muxer", "foreign"}, MayWriteTS(who), Reading_unchanged,
         ts_writer' = who, FileIs(who, ts_file'), registered' \in Seq(STRING),
         Len(registered') <= FirstMapPid - 256
  PROVE  TablesInv'
<1>1. PICK fs : fs = ts_file'
  OBVIOUS
<1>2. /\ ts_place = 0 /\ Fresh(streams, pmt_pid, applied, last_result, dropped, misread)
      /\ ts_place' = 0 /\ Fresh(streams', pmt_pid', applied', last_result', dropped', misread')
  BY DEF TablesInv, MayWriteTS, Reading_unchanged
<1>3. applied' = <<>> /\ Len(applied') = 0 /\ DOMAIN streams' = {} /\ pmt_pid' = NoPid /\ last_result' = "none"
      /\ ~dropped' /\ misread' = FALSE
  <2>1. misread' \in BOOLEAN
    BY DEF TablesInv, Reading_unchanged
  <2>. QED
    BY <1>2, <2>1 DEF Fresh
<1>4. Len(fs) \in Nat /\ SizesOf(fs) \in Seq(Nat)
  BY <1>1, SizesAre
<1>5. PICK g : IsSums(SizesOf(fs), g) /\ g[0] = 0
  BY <1>4, SumsExist DEF IsSums
<1>6. StreamsFrom(who, fs, streams', applied') /\ LatestMap(who, fs, streams', applied')
  BY <1>3 DEF StreamsFrom, LatestMap
<1>7. OnTrack(fs, g, ts_place', pmt_pid', applied', last_result')
  BY <1>2, <1>3, <1>4, <1>5 DEF OnTrack, NamedAt
<1>8. ReaderIs(who, fs, ts_place', pmt_pid', applied', last_result')
  BY <1>3, <1>5, <1>7 DEF ReaderIs, AllBecame
<1>9. dropped' \in BOOLEAN
  BY DEF TablesInv, Reading_unchanged
<1>10. applied' \in Seq(1 .. Len(fs))
  BY <1>3
<1>. QED
  BY <1>1, <1>2, <1>3, <1>6, <1>8, <1>9, <1>10 DEF TablesInv, MapPid

LEMMA WriteHeaderKeeps ==
  ASSUME TablesInv, NEW types \in Headers, write_header(types)
  PROVE  TablesInv'
<1>1. MayWriteTS("muxer") /\ Reading_unchanged /\ ts_writer' = "muxer"
  BY DEF write_header
<1>2. types \in Seq(STRING) /\ DOMAIN types = 1 .. Len(types) /\ Len(types) \in Nat
  BY TablesAssumption
<1>3. PICK bad, before : /\ bad = {i \in DOMAIN types : types[i] \notin Supported}
                        /\ before = {i \in DOMAIN types : \A k \in 1 .. i : k \notin bad}
  OBVIOUS
<1>4. PICK m \in 0 .. Len(types) : m = Cardinality(before)
  <2>1. before \in SUBSET (1 .. Len(types))
    BY <1>2, <1>3
  <2>2. IsFiniteSet(1 .. Len(types)) /\ Cardinality(1 .. Len(types)) = Len(types)
    BY <1>2, CountAll, FS_Interval
  <2>3. IsFiniteSet(before) /\ Cardinality(before) <= Cardinality(1 .. Len(types))
    BY <2>1, <2>2, FS_Subset
  <2>4. Cardinality(before) \in Nat
    BY <2>3, FS_CardinalityType
  <2>. QED
    BY <1>2, <2>2, <2>3, <2>4
<1>5. registered' = registered \o SubSeq(types, 1, m)
  BY <1>3, <1>4 DEF write_header, Register
<1>6. registered' \in Seq(STRING) /\ Len(registered') <= FirstMapPid - 256
  <2>1. SubSeq(types, 1, m) \in Seq(STRING) /\ Len(SubSeq(types, 1, m)) = m
    BY <1>2
  <2>2. registered \in Seq(STRING) /\ Len(registered) <= MaxStreams
    BY DEF TablesInv, write_header
  <2>3. MaxStreams \in Nat /\ MaxStreams + Len(types) <= FirstMapPid - 256
    BY TablesAssumption DEF get_stream_pid
  <2>4. registered' \in Seq(STRING) /\ Len(registered') = Len(registered) + m
    BY <1>5, <2>1, <2>2
  <2>. QED
    BY <1>2, <2>2, <2>3, <2>4 DEF FirstMapPid
<1>7. PICK pmt : pmt = PMTSection(1, RegisteredEntries(registered'), MuxerLength(RegisteredEntries(registered')))
  OBVIOUS
<1>8. PICK a, b : a = InPacket(PATSection(<< 1 >>), PacketSize, 0, FALSE) /\ b = InPacket(pmt, BytesOf(pmt, 1), 0, FALSE)
  OBVIOUS
<1>9. IsPAT("muxer", a)
  <2>1. << 1 >> \in Seq(Nat)
    OBVIOUS
  <2>. QED
    BY <1>8, <2>1, PATWritten
<1>10. IsPMT("muxer", b)
  <2>1. PICK es \in Seq(EntryT) : es = RegisteredEntries(registered')
    BY <1>6, RegisteredAre
  <2>2. Distinct(es) /\ \A i \in 1 .. Len(es) : es[i].descriptors = <<>>
    BY <1>6, <2>1, RegisteredAre
  <2>3. pmt.section_length \in Nat /\ pmt = PMTSection(1, es, MuxerLength(es))
    <3>1. PICK x \in Nat : x = pmt_len(es)
      BY EntrySizesAre
    <3>2. MuxerLength(es) \in Nat
      BY <3>1 DEF MuxerLength
    <3>3. pmt = PMTSection(1, es, MuxerLength(es))
      BY <1>7, <2>1
    <3>4. pmt.section_length = MuxerLength(es)
      BY <3>3 DEF PMTSection
    <3>. QED
      BY <3>2, <3>3, <3>4
  <2>4. BytesOf(pmt, 1) \in Nat
    BY <2>3, MuxerAssumption DEF BytesOf
  <2>. QED
    BY <1>8, <2>2, <2>3, <2>4, PMTWritten
<1>11. FileIs("muxer", ts_file')
  <2>1. ts_writer \in {"open", "muxer"} /\ FileIs(ts_writer, ts_file)
    BY <1>1 DEF TablesInv, MayWriteTS
  <2>2. CASE bad # {}
    <3>1. ts_file' = ts_file
      BY <1>3, <2>2 DEF write_header
    <3>2. CASE ts_writer = "open"
      <4>1. ts_file = <<>> /\ \E S : ts_file \in Seq(S)
        BY <2>1, <3>2 DEF FileIs
      <4>2. Len(ts_file) = 0
        BY <4>1
      <4>. QED
        BY <3>1, <4>1, <4>2 DEF FileIs
    <3>3. CASE ts_writer = "muxer"
      BY <2>1, <3>1, <3>3
    <3>. QED
      BY <2>1, <3>2, <3>3
  <2>3. CASE bad = {}
    <3>1. ts_file' = ts_file \o <<a, b>>
      BY <1>3, <1>7, <1>8, <2>3 DEF write_header
    <3>2. PICK ex : ex = <<a, b>>
      OBVIOUS
    <3>3. ex \in Seq({a, b}) /\ Len(ex) = 2 /\ ex[1] = a /\ ex[2] = b
      BY <3>2
    <3>4. \A i \in 1 .. Len(ex) : WrittenBy("muxer", ex[i])
      <4>1. WrittenBy("muxer", a) /\ WrittenBy("muxer", b)
        BY <1>9, <1>10 DEF WrittenBy
      <4>. QED
        BY <3>3, <4>1
    <3>. QED
      BY <2>1, <3>1, <3>2, <3>3, <3>4, FileGrows
  <2>. QED
    BY <2>2, <2>3
<1>. QED
  BY <1>1, <1>6, <1>11, FileWritten

LEMMA WriteMediaKeeps ==
  ASSUME TablesInv, NEW i \in DOMAIN registered, NEW len \in Lengths, WriteMedia(i, len)
  PROVE  TablesInv'
<1>1. MayWriteTS("muxer") /\ Reading_unchanged /\ ts_writer' = "muxer"
  BY DEF WriteMedia
<1>2. registered' = registered
  BY DEF WriteMedia, write_packet, Writes
<1>3. PICK n \in Nat : n = PieceCount(len)
  BY FieldsAssumption, PieceCountIs
<1>4. PICK ex : /\ ts_file' = ts_file \o ex
                /\ ex = [k \in 1 .. n |->
                     LET field == muxer_field(len, OffsetOf(k))
                     IN  [kind |-> "media", size |-> written_size(len, OffsetOf(k)), field |-> field,
                          header |-> write_ts_header(TSHeader(get_stream_pid(i - 1), k = 1, field.length > 0,
                                                              Counter(i, k)))]]
  BY <1>3 DEF WriteMedia
<1>5. ASSUME NEW k \in 1 .. n PROVE IsMedia("muxer", ex[k])
  <2>1. ex[k].kind = "media" /\ ex[k].size = written_size(len, OffsetOf(k))
    BY <1>4
  <2>2. ex[k].header.transport_error = FALSE
    BY <1>4 DEF write_ts_header, TSHeader
  <2>3. written_size(len, OffsetOf(k)) \in {PacketSize, PacketSize + 1}
    BY FieldsAssumption, WrittenSizeIs
  <2>4. PICK pid : pid = get_stream_pid(i - 1)
    OBVIOUS
  <2>5. ex[k].header.pid = pid % PidMod
    <3>1. PICK field, counter : ex[k].header = write_ts_header(TSHeader(pid, k = 1, field, counter))
      BY <1>4, <2>4
    <3>2. PICK h : h = TSHeader(pid, k = 1, field, counter)
      OBVIOUS
    <3>3. h.pid = pid /\ ex[k].header = write_ts_header(h) /\ "pid" \in DOMAIN h
      BY <3>1, <3>2 DEF TSHeader
    <3>4. write_ts_header(h).pid = h.pid % PidMod
      BY <3>2 DEF write_ts_header, TSHeader
    <3>. QED
      BY <3>3, <3>4
  <2>6. ex[k].header.pid \in 1 .. FirstMapPid - 1
    <3>1. PICK m \in Nat : m = Len(registered) /\ m <= FirstMapPid - 256 /\ DOMAIN registered = 1 .. m
      BY DEF TablesInv
    <3>2. PICK j \in Int : j = i /\ 1 <= j /\ j <= FirstMapPid - 256
      <4>1. i \in 1 .. m /\ FirstMapPid \in Int
        BY <3>1 DEF FirstMapPid
      <4>. QED
        BY <3>1, <4>1
    <3>3. get_stream_pid(j - 1) % PidMod \in 1 .. FirstMapPid - 1
      BY <3>2, StreamPid
    <3>. QED
      BY <2>4, <2>5, <3>2, <3>3
  <2>. QED
    BY <2>1, <2>2, <2>3, <2>6, MuxerAssumption DEF IsMedia
<1>6. PICK T : T = {ex[k] : k \in 1 .. n}
  OBVIOUS
<1>7. ex \in Seq(T) /\ Len(ex) = n
  BY <1>4, <1>6
<1>8. \A k \in 1 .. Len(ex) : WrittenBy("muxer", ex[k])
  BY <1>5, <1>7 DEF WrittenBy
<1>9. ts_writer \in {"open", "muxer"} /\ FileIs(ts_writer, ts_file)
  BY <1>1 DEF TablesInv, MayWriteTS
<1>10. FileIs("muxer", ts_file')
  BY <1>4, <1>7, <1>8, <1>9, FileGrows
<1>11. registered' \in Seq(STRING) /\ Len(registered') <= FirstMapPid - 256
  BY <1>2 DEF TablesInv
<1>. QED
  BY <1>1, <1>10, <1>11, FileWritten

LEMMA ForeignKeeps ==
  ASSUME TablesInv, NEW f, WrittenBy("foreign", f), ForeignPacket(f)
  PROVE  TablesInv'
<1>1. MayWriteTS("foreign") /\ Reading_unchanged /\ ts_writer' = "foreign" /\ ts_file' = Append(ts_file, f)
  BY DEF ForeignPacket
<1>2. ts_writer \in {"open", "foreign"} /\ FileIs(ts_writer, ts_file)
  BY <1>1 DEF TablesInv, MayWriteTS
<1>3. PICK ex : ex = <<f>>
  OBVIOUS
<1>4. ex \in Seq({f}) /\ Len(ex) = 1 /\ ex[1] = f
  BY <1>3
<1>5. ts_file' = ts_file \o ex
  <2>1. PICK S : ts_file \in Seq(S)
    BY <1>2 DEF FileIs
  <2>2. PICK V : V = S \cup {f}
    OBVIOUS
  <2>3. ts_file \in Seq(V) /\ f \in V
    BY <2>1, <2>2
  <2>. QED
    BY <1>1, <1>3, <2>3, AppendIsConcat
<1>6. FileIs("foreign", ts_file')
  <2>1. \A i \in 1 .. Len(ex) : WrittenBy("foreign", ex[i])
    BY <1>4
  <2>. QED
    BY <1>2, <1>4, <1>5, <2>1, FileGrows
<1>7. registered' \in Seq(STRING) /\ Len(registered') <= FirstMapPid - 256
  BY DEF TablesInv, ForeignPacket, muxvars
<1>. QED
  BY <1>1, <1>6, <1>7, FileWritten

LEMMA ForeignTablesKeep ==
  ASSUME TablesInv, ForeignPAT \/ ForeignPMT
  PROVE  TablesInv'
<1>1. CASE ForeignPAT
  <2>1. PICK programs \in PATs, error \in BOOLEAN :
          ForeignPacket(InPacket(PATSection(programs), PacketSize, 0, error))
    BY <1>1 DEF ForeignPAT
  <2>2. programs \in Seq(Nat)
    BY TablesAssumption
  <2>3. IsPAT("foreign", InPacket(PATSection(programs), PacketSize, 0, error))
    BY <2>2, PATWritten
  <2>. QED
    BY <2>1, <2>3, ForeignKeeps DEF WrittenBy
<1>2. CASE ForeignPMT
  <2>1. PICK program \in {1, 2}, entries \in PMTs, pointer \in Pointers :
          ForeignPacket(InPacket(PMTSection(program, entries, ConformingLength(entries)),
                                 PacketSize, pointer, FALSE))
    BY <1>2 DEF ForeignPMT
  <2>2. entries \in Seq(EntryT) /\ pointer \in Nat /\ PacketSize \in Nat
    BY TablesAssumption, MuxerAssumption DEF EntryT
  <2>3. Distinct(entries)
    BY <2>2, TablesAssumption DEF Distinct
  <2>4. IsPMT("foreign", InPacket(PMTSection(program, entries, ConformingLength(entries)),
                                 PacketSize, pointer, FALSE))
    BY <2>2, <2>3, PMTWritten
  <2>. QED
    BY <2>1, <2>4, ForeignKeeps DEF WrittenBy
<1>. QED
  BY <1>1, <1>2

------------------------------------------------------------------------------
(* Reading. *)

LEMMA StartIs ==
  ASSUME FileIs(ts_writer, ts_file), NEW g, IsSums(SizesOf(ts_file), g)
  PROVE  /\ ByteSize = g[Len(ts_file)]
         /\ \A k \in 1 .. Len(ts_file) : StartOf(k) = g[k - 1]
         /\ \A i \in 0 .. Len(ts_file) : g[i] \in Nat
         /\ \A i, k \in 0 .. Len(ts_file) : i < k => g[i] + PacketSize <= g[k]
         /\ \A i \in 1 .. Len(ts_file) : g[i] = g[i - 1] + ts_file[i].size
<1>1. PICK s \in Seq(Nat) : /\ s = SizesOf(ts_file) /\ Len(s) = Len(ts_file)
                           /\ \A i \in 1 .. Len(s) : s[i] = ts_file[i].size /\ s[i] >= PacketSize
  BY SizesAre
<1>2. Len(ts_file) \in Nat /\ DOMAIN ts_file = 1 .. Len(ts_file)
  BY SizesAre
<1>3. [i \in DOMAIN ts_file |-> ts_file[i].size] = s
  BY <1>1, <1>2 DEF SizesOf
<1>4. ByteSize = g[Len(ts_file)]
  <2>1. Total(s) = g[Len(s)]
    BY <1>1, TotalIs
  <2>. QED
    BY <1>1, <1>3, <2>1 DEF ByteSize
<1>5. ASSUME NEW k \in 1 .. Len(ts_file) PROVE StartOf(k) = g[k - 1]
  <2>1. k \in 1 .. Len(s) + 1
    BY <1>1, <1>2
  <2>2. BeginOf(s, 0, k) = 0 + g[k - 1] /\ g[k - 1] \in Nat
    BY <1>1, <2>1, BeginIs
  <2>. QED
    BY <1>3, <2>2 DEF StartOf
<1>6. PacketSize \in Nat
  BY MuxerAssumption
<1>7. ASSUME NEW i \in 0 .. Len(ts_file), NEW k \in 0 .. Len(ts_file), i < k
      PROVE  g[i] + PacketSize <= g[k]
  <2>1. i \in 0 .. Len(s) /\ k \in 0 .. Len(s) /\ i <= k /\ \A j \in 1 .. Len(s) : s[j] >= PacketSize
    BY <1>1, <1>2, <1>7
  <2>. QED
    BY <1>1, <1>6, <1>7, <2>1, SumsGrow
<1>8. \A i \in 0 .. Len(ts_file) : g[i] \in Nat
  BY <1>1 DEF IsSums
<1>9. \A i \in 1 .. Len(ts_file) : g[i] = g[i - 1] + ts_file[i].size
  BY <1>1 DEF IsSums
<1>. QED
  BY <1>4, <1>5, <1>7, <1>8, <1>9

\* What Inserted puts into the streams, and what it leaves.
LEMMA InsertedIs ==
  ASSUME NEW entries \in Seq(EntryT), Distinct(entries), NEW st, st = Inserted(entries)
  PROVE  /\ \A p \in DOMAIN st :
              \/ \E i \in 1 .. Len(entries) :
                   entries[i].pid = p /\ st[p].index = i - 1 /\ entries[i].type = st[p].type
              \/ p \in DOMAIN streams /\ st[p] = streams[p]
         /\ \A i \in StreamsOf(entries) :
              entries[i].pid \in DOMAIN st /\ st[entries[i].pid].index = i - 1
<1>1. PICK K : K = StreamsOf(entries) /\ K \subseteq 1 .. Len(entries)
  <2>1. DOMAIN entries = 1 .. Len(entries)
    OBVIOUS
  <2>. QED
    BY <2>1 DEF StreamsOf
<1>2. PICK pids : pids = {entries[i].pid : i \in K}
  OBVIOUS
<1>3. PICK place : place = [p \in pids |-> CHOOSE i \in K : entries[i].pid = p]
  OBVIOUS
<1>4. ASSUME NEW p \in pids PROVE place[p] \in K /\ entries[place[p]].pid = p
  <2>1. \E i \in K : entries[i].pid = p
    BY <1>2
  <2>. QED
    BY <1>3, <2>1
<1>5. st = [p \in pids \cup DOMAIN streams |->
              IF p \in pids THEN [index |-> place[p] - 1, type |-> entries[place[p]].type] ELSE streams[p]]
  BY <1>1, <1>2, <1>3 DEF Inserted
<1>6. ASSUME NEW p \in DOMAIN st
      PROVE  \/ \E i \in 1 .. Len(entries) :
                  entries[i].pid = p /\ st[p].index = i - 1 /\ entries[i].type = st[p].type
             \/ p \in DOMAIN streams /\ st[p] = streams[p]
  <2>1. CASE p \in pids
    <3>1. st[p].index = place[p] - 1 /\ st[p].type = entries[place[p]].type
      BY <1>5, <2>1
    <3>2. place[p] \in 1 .. Len(entries) /\ entries[place[p]].pid = p
      BY <1>1, <1>4, <2>1
    <3>. QED
      BY <3>1, <3>2
  <2>2. CASE p \notin pids
    BY <1>5, <2>2
  <2>. QED
    BY <2>1, <2>2
<1>7. ASSUME NEW i \in K PROVE entries[i].pid \in DOMAIN st /\ st[entries[i].pid].index = i - 1
  <2>1. PICK p \in pids : p = entries[i].pid
    BY <1>2
  <2>2. place[p] = i
    BY <1>1, <1>4, <2>1 DEF Distinct
  <2>. QED
    BY <1>5, <2>1, <2>2
<1>. QED
  BY <1>1, <1>6, <1>7

LEMMA KeptAre ==
  ASSUME NEW who, NEW entries \in Seq(EntryT), Distinct(entries)
  PROVE  Kept(who, entries) \in Seq(EntryT) /\ Distinct(Kept(who, entries))
<1>1. CASE who # "muxer"
  BY <1>1 DEF Kept
<1>2. CASE who = "muxer"
  <2>1. PICK n \in Nat : n = Len(entries)
    OBVIOUS
  <2>2. PICK kept : kept = SubSeq(entries, 1, n - 1)
    OBVIOUS
  <2>3. /\ kept \in Seq(EntryT) /\ Len(kept) = (IF n = 0 THEN 0 ELSE n - 1)
        /\ \A i \in 1 .. Len(kept) : kept[i] = entries[i]
    BY <2>1, <2>2
  <2>4. \A i \in 1 .. Len(kept) : i \in 1 .. Len(entries)
    BY <2>1, <2>3
  <2>5. Distinct(kept)
    BY <2>3, <2>4 DEF Distinct
  <2>. QED
    BY <1>2, <2>1, <2>2, <2>3, <2>5 DEF Kept
<1>. QED
  BY <1>1, <1>2

LEMMA MapKept ==
  ASSUME NEW who, NEW fs, NEW n \in Nat, NEW app \in Seq(1 .. n), NEW k \in 1 .. n,
         fs[k].section.entries \in Seq(EntryT), Distinct(fs[k].section.entries),
         StreamsFrom(who, fs, streams, app),
         NEW st, st = Inserted(Kept(who, fs[k].section.entries))
  PROVE  /\ Append(app, k) \in Seq(1 .. n)
         /\ StreamsFrom(who, fs, st, Append(app, k)) /\ LatestMap(who, fs, st, Append(app, k))
<1>1. PICK kept \in Seq(EntryT) : kept = Kept(who, fs[k].section.entries) /\ Distinct(kept)
  BY KeptAre
<1>2. PICK new : new = Append(app, k)
  OBVIOUS
<1>3. PICK m \in Nat : m = Len(app)
  OBVIOUS
<1>4. /\ new \in Seq(1 .. n) /\ Len(new) = m + 1 /\ new[m + 1] = k
      /\ \A i \in 1 .. m : new[i] = app[i]
  BY <1>2, <1>3
<1>5. st = Inserted(kept)
  BY <1>1
<1>6. /\ \A p \in DOMAIN st :
           \/ \E i \in 1 .. Len(kept) :
                kept[i].pid = p /\ st[p].index = i - 1 /\ kept[i].type = st[p].type
           \/ p \in DOMAIN streams /\ st[p] = streams[p]
      /\ \A i \in StreamsOf(kept) : kept[i].pid \in DOMAIN st /\ st[kept[i].pid].index = i - 1
  BY <1>1, <1>5, InsertedIs
<1>7. StreamsFrom(who, fs, st, new)
  <2>. SUFFICES ASSUME NEW p \in DOMAIN st
                PROVE  \E i \in 1 .. Len(new) :
                         LET ke == Kept(who, fs[new[i]].section.entries)
                         IN  /\ st[p].index + 1 \in DOMAIN ke
                             /\ ke[st[p].index + 1].pid = p /\ ke[st[p].index + 1].type = st[p].type
    BY DEF StreamsFrom
  <2>1. CASE \E i \in 1 .. Len(kept) :
               kept[i].pid = p /\ st[p].index = i - 1 /\ kept[i].type = st[p].type
    <3>1. PICK i \in 1 .. Len(kept) :
               kept[i].pid = p /\ st[p].index = i - 1 /\ kept[i].type = st[p].type
      BY <2>1
    <3>2. st[p].index + 1 = i /\ i \in DOMAIN kept
      BY <3>1
    <3>3. m + 1 \in 1 .. Len(new)
      BY <1>3, <1>4
    <3>. QED
      BY <1>1, <1>4, <3>1, <3>2, <3>3
  <2>2. CASE p \in DOMAIN streams /\ st[p] = streams[p]
    <3>1. PICK i \in 1 .. m :
            LET ke == Kept(who, fs[app[i]].section.entries)
            IN  /\ streams[p].index + 1 \in DOMAIN ke
                /\ ke[streams[p].index + 1].pid = p /\ ke[streams[p].index + 1].type = streams[p].type
      BY <1>3, <2>2 DEF StreamsFrom
    <3>2. i \in 1 .. Len(new) /\ new[i] = app[i]
      BY <1>3, <1>4
    <3>. QED
      BY <2>2, <3>1, <3>2
  <2>. QED
    BY <1>6, <2>1, <2>2
<1>8. LatestMap(who, fs, st, new)
  BY <1>1, <1>4, <1>6 DEF LatestMap
<1>. QED
  BY <1>2, <1>4, <1>7, <1>8

\* TS packet k is read, and changes the tables when it is one that can be read
\* and, for a PMT, has the pid that the reader waits for.
TSPacketRead(who, fs, k, pid, st, app, pid1, st1, app1) ==
  /\ pid1 = IF Names(fs[k]) THEN PmtPid(fs[k].section.programs[1]) ELSE pid
  /\ \/ /\ fs[k].kind = "pmt" /\ fs[k].header.pid = pid /\ Fits(fs[k])
        /\ st1 = Inserted(Kept(who, fs[k].section.entries)) /\ app1 = Append(app, k)
     \/ /\ ~(fs[k].kind = "pmt" /\ fs[k].header.pid = pid /\ Fits(fs[k]))
        /\ st1 = st /\ app1 = app

LEMMA PMTIs ==
  ASSUME NEW who, NEW fs, FileIs(who, fs), NEW k \in 1 .. Len(fs)
  PROVE  /\ fs[k].kind = "pmt" => IsPMT(who, fs[k])
         /\ fs[k].kind = "pat" => IsPAT(who, fs[k])
         /\ fs[k].kind = "media" => IsMedia(who, fs[k])
<1>1. IsPAT(who, fs[k]) \/ IsPMT(who, fs[k]) \/ IsMedia(who, fs[k])
  BY DEF FileIs, WrittenBy
<1>. QED
  BY <1>1 DEF IsPAT, IsPMT, IsMedia

LEMMA ReadPacketIs ==
  ASSUME NEW who \in {"muxer", "foreign"}, NEW fs, FileIs(who, fs), fs = ts_file, NEW k \in 1 .. Len(fs),
         NEW f, f = ts_file[k], ~misread, MapPid(pmt_pid),
         \/ /\ f.header.transport_error \/ (f.kind = "pmt" /\ f.header.pid # pmt_pid)
            /\ last_result' = "ok" /\ TablesUnchanged
         \/ ~f.header.transport_error /\ f.kind = "pat" /\ HandlePAT(f)
         \/ ~f.header.transport_error /\ f.kind = "pmt" /\ f.header.pid = pmt_pid /\ HandlePMT(k)
         \/ ~f.header.transport_error /\ f.kind = "media" /\ HandleMedia(f)
  PROVE  /\ TSPacketRead(who, fs, k, pmt_pid, streams, applied, pmt_pid', streams', applied')
         /\ last_result' # "bad_sync" /\ misread' = misread
<1>1. /\ f.kind = "pmt" => IsPMT(who, f)
      /\ f.kind = "pat" => IsPAT(who, f)
      /\ f.kind = "media" => IsMedia(who, f)
  BY PMTIs
<1>2. CASE /\ f.header.transport_error \/ (f.kind = "pmt" /\ f.header.pid # pmt_pid)
           /\ last_result' = "ok" /\ TablesUnchanged
  <2>1. ~Names(f) /\ ~(f.kind = "pmt" /\ f.header.pid = pmt_pid /\ Fits(f))
    BY <1>1, <1>2 DEF Names, IsPMT
  <2>. QED
    BY <1>2, <2>1 DEF TSPacketRead, TablesUnchanged
<1>3. CASE ~f.header.transport_error /\ f.kind = "pat" /\ HandlePAT(f)
  <2>1. (parse_pat(f).ok <=> Fits(f)) /\ parse_pat(f).programs = f.section.programs
    BY <1>1, <1>3, PATParsed
  <2>2. Names(f) <=> parse_pat(f).ok /\ parse_pat(f).programs # <<>>
    BY <1>3, <2>1 DEF Names
  <2>3. pmt_pid' = IF Names(f) THEN PmtPid(f.section.programs[1]) ELSE pmt_pid
    BY <1>3, <2>1, <2>2 DEF HandlePAT
  <2>4. /\ streams' = streams /\ applied' = applied /\ last_result' # "bad_sync"
        /\ misread' = misread
    BY <1>3 DEF HandlePAT
  <2>. QED
    BY <1>3, <2>3, <2>4 DEF TSPacketRead
<1>4. CASE ~f.header.transport_error /\ f.kind = "pmt" /\ f.header.pid = pmt_pid /\ HandlePMT(k)
  <2>1. (parse_pmt(f).ok <=> Fits(f)) /\ parse_pmt(f).entries = Kept(who, f.section.entries)
    BY <1>1, <1>4, PMTParsed
  <2>2. ~Names(f)
    BY <1>4 DEF Names
  <2>3. last_result' # "bad_sync" /\ pmt_pid' = pmt_pid /\ misread' = misread
    BY <1>4 DEF HandlePMT
  <2>4. CASE Fits(f)
    <3>1. streams' = Inserted(Kept(who, f.section.entries)) /\ applied' = Append(applied, k)
      BY <1>4, <2>1, <2>4 DEF HandlePMT
    <3>. QED
      BY <1>4, <2>2, <2>3, <2>4, <3>1 DEF TSPacketRead
  <2>5. CASE ~Fits(f)
    <3>1. streams' = streams /\ applied' = applied
      BY <1>4, <2>1, <2>5 DEF HandlePMT
    <3>. QED
      BY <1>4, <2>2, <2>3, <2>5, <3>1 DEF TSPacketRead
  <2>. QED
    BY <2>4, <2>5
<1>5. CASE ~f.header.transport_error /\ f.kind = "media" /\ HandleMedia(f)
  <2>1. f.header.pid # pmt_pid
    <3>1. f.header.pid \in 1 .. FirstMapPid - 1
      BY <1>1, <1>5 DEF IsMedia
    <3>. QED
      BY <3>1, PidsDiffer
  <2>2. last_result' # "bad_sync" /\ TablesUnchanged
    BY <1>5, <2>1 DEF HandleMedia
  <2>. QED
    BY <1>5, <2>2 DEF TablesUnchanged, TSPacketRead, Names
<1>. QED
  BY <1>2, <1>3, <1>4, <1>5

\* Whatever was misread, a TS packet that is read becomes the map or does not.
LEMMA ReadAppends ==
  ASSUME NEW k, NEW f, f = ts_file[k],
         \/ /\ f.header.transport_error \/ (f.kind = "pmt" /\ f.header.pid # pmt_pid)
            /\ last_result' = "ok" /\ TablesUnchanged
         \/ ~f.header.transport_error /\ f.kind = "pat" /\ HandlePAT(f)
         \/ ~f.header.transport_error /\ f.kind = "pmt" /\ f.header.pid = pmt_pid /\ HandlePMT(k)
         \/ ~f.header.transport_error /\ f.kind = "media" /\ HandleMedia(f)
  PROVE  applied' \in {applied, Append(applied, k)} /\ misread' \in {misread, TRUE}
BY DEF TablesUnchanged, HandlePAT, HandlePMT, HandleMedia, ParseFails, ParseAsPMT

LEMMA NamedNext ==
  ASSUME NEW fs, NEW n \in Nat, NEW pid, NamedAt(fs, n, pid),
         NEW pid1, pid1 = IF Names(fs[n + 1]) THEN PmtPid(fs[n + 1].section.programs[1]) ELSE pid
  PROVE  NamedAt(fs, n + 1, pid1)
<1>1. CASE Names(fs[n + 1])
  <2>1. n + 1 \in 1 .. n + 1 /\ \A i \in n + 1 + 1 .. n + 1 : ~Names(fs[i])
    OBVIOUS
  <2>. QED
    BY <1>1, <2>1 DEF NamedAt
<1>2. CASE ~Names(fs[n + 1])
  <2>1. pid1 = pid
    BY <1>2
  <2>2. CASE pid = NoPid /\ \A j \in 1 .. n : ~Names(fs[j])
    <3>1. \A j \in 1 .. n + 1 : j \in 1 .. n \/ j = n + 1
      OBVIOUS
    <3>2. \A j \in 1 .. n + 1 : ~Names(fs[j])
      BY <1>2, <2>2, <3>1
    <3>. QED
      BY <2>1, <2>2, <3>2 DEF NamedAt
  <2>3. CASE \E j \in 1 .. n : /\ Names(fs[j]) /\ PmtPid(fs[j].section.programs[1]) = pid
                              /\ \A i \in j + 1 .. n : ~Names(fs[i])
    <3>1. PICK j \in 1 .. n : /\ Names(fs[j]) /\ PmtPid(fs[j].section.programs[1]) = pid
                             /\ \A i \in j + 1 .. n : ~Names(fs[i])
      BY <2>3
    <3>2. j \in 1 .. n + 1 /\ \A i \in j + 1 .. n + 1 : i \in j + 1 .. n \/ i = n + 1
      OBVIOUS
    <3>3. \A i \in j + 1 .. n + 1 : ~Names(fs[i])
      BY <1>2, <3>1, <3>2
    <3>. QED
      BY <2>1, <3>1, <3>2, <3>3 DEF NamedAt
  <2>. QED
    BY <2>2, <2>3 DEF NamedAt
<1>. QED
  BY <1>1, <1>2

\* A PMT becomes the program map when its pid is the one that has been named.
LEMMA BecomesWhenNamed ==
  ASSUME NEW fs, NEW n \in Nat, NEW pid, NamedAt(fs, n, pid),
         fs[n + 1].kind = "pmt", Fits(fs[n + 1]), fs[n + 1].header.pid \in Nat
  PROVE  Becomes(fs, n + 1) <=> fs[n + 1].header.pid = pid
<1>1. PICK k \in Nat : k = n + 1 /\ k - 1 = n
  OBVIOUS
<1>2. ASSUME fs[k].header.pid = pid PROVE Becomes(fs, k)
  <2>1. pid # NoPid
    BY <1>1, <1>2 DEF NoPid
  <2>2. \E j \in 1 .. n : /\ Names(fs[j]) /\ PmtPid(fs[j].section.programs[1]) = pid
                          /\ \A i \in j + 1 .. n : ~Names(fs[i])
    BY <2>1 DEF NamedAt
  <2>. QED
    BY <1>1, <1>2, <2>2 DEF Becomes
<1>3. ASSUME Becomes(fs, k) PROVE fs[k].header.pid = pid
  <2>1. PICK j \in 1 .. n : /\ Names(fs[j]) /\ PmtPid(fs[j].section.programs[1]) = fs[k].header.pid
                           /\ \A i \in j + 1 .. n : ~Names(fs[i])
    BY <1>1, <1>3 DEF Becomes
  <2>2. PICK h \in 1 .. n : /\ Names(fs[h]) /\ PmtPid(fs[h].section.programs[1]) = pid
                           /\ \A i \in h + 1 .. n : ~Names(fs[i])
    BY <2>1 DEF NamedAt
  <2>3. j = h
    <3>1. ~(j < h)
      BY <2>1, <2>2
    <3>2. ~(h < j)
      BY <2>1, <2>2
    <3>. QED
      BY <3>1, <3>2
  <2>. QED
    BY <2>1, <2>2, <2>3
<1>. QED
  BY <1>1, <1>2, <1>3

LEMMA LastNamed ==
  ASSUME NEW fs, NEW k \in Nat, NEW h \in 1 .. k - 1, Names(fs[h])
  PROVE  \E j \in 1 .. k - 1 : Names(fs[j]) /\ \A i \in j + 1 .. k - 1 : ~Names(fs[i])
<1>. DEFINE S == {x \in 1 .. k - 1 : Names(fs[k - x])}
<1>1. k - h \in S
  <2>1. k - h \in 1 .. k - 1 /\ k - (k - h) = h
    OBVIOUS
  <2>. QED
    BY <2>1
<1>2. S \subseteq Nat
  OBVIOUS
<1>3. PICK x \in S : \A y \in S : x <= y
  <2>. HIDE DEF S
  <2>. QED
    BY <1>1, <1>2, Least
<1>4. PICK j \in 1 .. k - 1 : j = k - x /\ Names(fs[j])
  BY <1>3
<1>5. ASSUME NEW i \in j + 1 .. k - 1, Names(fs[i]) PROVE FALSE
  <2>1. PICK y \in 1 .. k - 1 : y = k - i /\ k - y = i /\ y < x
    BY <1>3, <1>4
  <2>2. y \in S
    BY <1>5, <2>1
  <2>. QED
    BY <1>3, <2>1, <2>2
<1>. QED
  BY <1>4, <1>5

\* All that a PAT of the muxer names has pid 4096.
LEMMA MuxerNames ==
  ASSUME NEW fs, FileIs("muxer", fs), NEW j \in 1 .. Len(fs), Names(fs[j])
  PROVE  PmtPid(fs[j].section.programs[1]) = 4096
<1>1. IsPAT("muxer", fs[j])
  BY PMTIs DEF Names
<1>2. fs[j].section.programs[1] = 1
  BY <1>1 DEF IsPAT
<1>. QED
  BY <1>2 DEF PmtPid, FirstMapPid

LEMMA OnTrackRead ==
  ASSUME NEW who \in {"muxer", "foreign"}, NEW fs, FileIs(who, fs), NEW n \in 0 .. Len(fs) - 1, NEW g,
         \A i \in 0 .. Len(fs) : g[i] \in Nat,
         \A i, k \in 0 .. Len(fs) : i < k => g[i] + PacketSize <= g[k],
         \A i \in 1 .. Len(fs) : g[i] = g[i - 1] + fs[i].size,
         NEW pid, NEW st, NEW app \in Seq(1 .. Len(fs)), NEW pid1, NEW st1, NEW app1, NEW lr1,
         \A i \in 1 .. n : fs[i].size = PacketSize,
         NamedAt(fs, n, pid), AllBecame(fs, app),
         \A k \in 1 .. n : Becomes(fs, k) => \E i \in 1 .. Len(app) : app[i] = k,
         TSPacketRead(who, fs, n + 1, pid, st, app, pid1, st1, app1), lr1 # "bad_sync"
  PROVE  /\ AllBecame(fs, app1)
         /\ \/ OnTrack(fs, g, g[n] + PacketSize, pid1, app1, lr1)
            \/ OffTrack(who, fs, g, g[n] + PacketSize, pid1)
<1>1. PICK k \in 1 .. Len(fs) : k = n + 1 /\ k - 1 = n /\ n \in Nat
  OBVIOUS
<1>2. /\ fs[k].kind = "pmt" => IsPMT(who, fs[k])
      /\ fs[k].size \in Nat /\ fs[k].size >= PacketSize
      /\ who = "foreign" => fs[k].size = PacketSize
  BY PMTIs, SizesAre
<1>3. fs[k].kind = "pmt" /\ Fits(fs[k]) => (Becomes(fs, k) <=> fs[k].header.pid = pid)
  <2>. SUFFICES ASSUME fs[k].kind = "pmt", Fits(fs[k]) PROVE Becomes(fs, k) <=> fs[k].header.pid = pid
    OBVIOUS
  <2>1. fs[k].header.pid \in Nat
    BY <1>2 DEF IsPMT
  <2>. QED
    BY <1>1, <2>1, BecomesWhenNamed
<1>4. Becomes(fs, k) => fs[k].kind = "pmt" /\ Fits(fs[k])
  BY DEF Becomes
<1>5. \/ Becomes(fs, k) /\ app1 = Append(app, k)
      \/ ~Becomes(fs, k) /\ app1 = app
  BY <1>1, <1>3, <1>4 DEF TSPacketRead
<1>6. PICK m \in Nat : m = Len(app)
  OBVIOUS
<1>7. /\ \A i \in 1 .. m : i \in 1 .. Len(app1) /\ app1[i] = app[i]
      /\ \A i \in 1 .. Len(app1) : i \in 1 .. m \/ (Becomes(fs, k) /\ app1[i] = k)
      /\ Becomes(fs, k) => m + 1 \in 1 .. Len(app1) /\ app1[m + 1] = k
  <2>1. CASE Becomes(fs, k)
    <3>1. Len(app1) = m + 1 /\ app1[m + 1] = k /\ \A i \in 1 .. m : app1[i] = app[i]
      BY <1>5, <1>6, <2>1
    <3>. QED
      BY <1>6, <2>1, <3>1
  <2>2. CASE ~Becomes(fs, k)
    BY <1>5, <1>6, <2>2
  <2>. QED
    BY <2>1, <2>2
<1>8. AllBecame(fs, app1)
  BY <1>6, <1>7 DEF AllBecame
<1>9. ASSUME NEW j \in 1 .. k, Becomes(fs, j) PROVE \E i \in 1 .. Len(app1) : app1[i] = j
  <2>1. CASE j = k
    BY <1>7, <1>9, <2>1
  <2>2. CASE j # k
    <3>1. j \in 1 .. n
      BY <1>1, <2>2
    <3>2. PICK i \in 1 .. m : app[i] = j
      BY <1>6, <1>9, <3>1
    <3>. QED
      BY <1>7, <3>2
  <2>. QED
    BY <2>1, <2>2
<1>10. NamedAt(fs, k, pid1)
  <2>1. pid1 = IF Names(fs[n + 1]) THEN PmtPid(fs[n + 1].section.programs[1]) ELSE pid
    BY DEF TSPacketRead
  <2>. QED
    BY <1>1, <2>1, NamedNext
<1>11. PICK P \in Nat \ {0} : P = PacketSize
  BY MuxerAssumption
<1>12. g[n] \in Nat /\ g[k] \in Nat /\ g[k] = g[n] + fs[k].size
  <2>1. n \in 0 .. Len(fs) /\ k \in 0 .. Len(fs)
    BY <1>1
  <2>. QED
    BY <1>1, <2>1
<1>13. CASE fs[k].size = PacketSize
  <2>1. \A i \in 1 .. k : fs[i].size = PacketSize
    <3>1. \A i \in 1 .. k : i \in 1 .. n \/ i = k
      BY <1>1
    <3>. QED
      BY <1>13, <3>1
  <2>2. k \in 0 .. Len(fs) /\ g[n] + PacketSize = g[k]
    BY <1>1, <1>12, <1>13
  <2>3. OnTrack(fs, g, g[n] + PacketSize, pid1, app1, lr1)
    BY <1>9, <1>10, <2>1, <2>2 DEF OnTrack
  <2>. QED
    BY <1>8, <2>3
<1>14. CASE fs[k].size # PacketSize
  <2>1. who = "muxer"
    BY <1>2, <1>14
  <2>2. g[k - 1] < g[n] + PacketSize
    BY <1>1, <1>11, <1>12
  <2>3. ASSUME NEW j \in 1 .. k, Names(fs[j]), PmtPid(fs[j].section.programs[1]) = pid1
        PROVE  pid1 = 4096 /\ \E h \in 1 .. Len(fs) : Names(fs[h]) /\ g[h - 1] < g[n] + PacketSize
    <3>1. j \in 1 .. Len(fs)
      BY <1>1
    <3>2. pid1 = 4096
      BY <2>1, <2>3, <3>1, MuxerNames
    <3>3. g[j - 1] < g[n] + PacketSize
      <4>1. CASE j = k
        BY <2>2, <4>1
      <4>2. CASE j # k
        <5>1. j - 1 \in 0 .. Len(fs) /\ n \in 0 .. Len(fs) /\ j - 1 < n
          BY <1>1, <4>2
        <5>2. g[j - 1] + PacketSize <= g[n] /\ g[j - 1] \in Nat
          BY <5>1
        <5>. QED
          BY <1>11, <1>12, <5>2
      <4>. QED
        BY <4>1, <4>2
    <3>. QED
      BY <2>3, <3>1, <3>2, <3>3
  <2>4. \/ pid1 = NoPid
        \/ pid1 = 4096 /\ \E j \in 1 .. Len(fs) : Names(fs[j]) /\ g[j - 1] < g[n] + PacketSize
    BY <1>10, <2>3 DEF NamedAt
  <2>5. OffTrack(who, fs, g, g[n] + PacketSize, pid1)
    BY <1>14, <2>1, <2>2, <2>4 DEF OffTrack
  <2>. QED
    BY <1>8, <2>5
<1>. QED
  BY <1>13, <1>14

LEMMA OffTrackRead ==
  ASSUME NEW who, NEW fs, FileIs(who, fs), NEW k \in 1 .. Len(fs), NEW g, NEW pl \in Nat, g[k - 1] = pl,
         \A i \in 0 .. Len(fs) : g[i] \in Nat,
         \A i, h \in 0 .. Len(fs) : i < h => g[i] + PacketSize <= g[h],
         NEW pid, NEW st, NEW app \in Seq(1 .. Len(fs)), NEW pid1, NEW st1, NEW app1,
         AllBecame(fs, app), OffTrack(who, fs, g, pl, pid),
         TSPacketRead(who, fs, k, pid, st, app, pid1, st1, app1)
  PROVE  AllBecame(fs, app1) /\ OffTrack(who, fs, g, pl + PacketSize, pid1)
<1>1. who = "muxer"
  BY DEF OffTrack
<1>2. PICK P \in Nat \ {0} : P = PacketSize
  BY MuxerAssumption
<1>3. \A i \in 1 .. Len(fs) : i - 1 \in 0 .. Len(fs) /\ g[i - 1] \in Nat
  OBVIOUS
<1>4. pl + PacketSize \in Nat /\ pl < pl + PacketSize
  BY <1>2
<1>5. \A i \in 1 .. Len(fs) : g[i - 1] < pl => g[i - 1] < pl + PacketSize
  BY <1>2, <1>3
<1>6. OffTrack(who, fs, g, pl + PacketSize, pid1)
  <2>1. PICK h \in 1 .. Len(fs) : g[h - 1] < pl /\ fs[h].size # PacketSize
    BY DEF OffTrack
  <2>2. \/ pid1 = NoPid
        \/ pid1 = 4096 /\ \E j \in 1 .. Len(fs) : Names(fs[j]) /\ g[j - 1] < pl + PacketSize
    <3>1. CASE Names(fs[k])
      <4>1. pid1 = 4096
        BY <1>1, <3>1, MuxerNames DEF TSPacketRead
      <4>. QED
        BY <1>4, <3>1, <4>1
    <3>2. CASE ~Names(fs[k])
      <4>1. pid1 = pid
        BY <3>2 DEF TSPacketRead
      <4>. QED
        BY <1>5, <4>1 DEF OffTrack
    <3>. QED
      BY <3>1, <3>2
  <2>. QED
    BY <1>1, <1>5, <2>1, <2>2 DEF OffTrack
<1>7. CASE ~(fs[k].kind = "pmt" /\ fs[k].header.pid = pid /\ Fits(fs[k]))
  <2>1. app1 = app
    BY <1>7 DEF TSPacketRead
  <2>. QED
    BY <1>6, <2>1
<1>8. CASE fs[k].kind = "pmt" /\ fs[k].header.pid = pid /\ Fits(fs[k])
  <2>1. app1 = Append(app, k)
    BY <1>8 DEF TSPacketRead
  <2>2. pid = 4096
    <3>1. fs[k].header.pid \in Nat
      BY <1>8, PMTIs DEF IsPMT
    <3>. QED
      BY <1>8, <3>1 DEF OffTrack, NoPid
  <2>3. PICK h \in 1 .. Len(fs) : Names(fs[h]) /\ g[h - 1] < g[k - 1]
    BY <2>2 DEF OffTrack, NoPid
  <2>4. h \in 1 .. k - 1
    <3>1. CASE h = k
      BY <1>3, <2>3, <3>1
    <3>2. CASE h > k
      <4>1. h - 1 \in 0 .. Len(fs) /\ k - 1 \in 0 .. Len(fs) /\ k - 1 < h - 1
        BY <3>2
      <4>2. g[k - 1] + PacketSize <= g[h - 1] /\ g[h - 1] \in Nat /\ g[k - 1] \in Nat
        BY <4>1
      <4>. QED
        BY <1>2, <2>3, <4>2
    <3>. QED
      BY <3>1, <3>2
  <2>5. PICK j \in 1 .. k - 1 : Names(fs[j]) /\ \A i \in j + 1 .. k - 1 : ~Names(fs[i])
    <3>1. k \in Nat
      OBVIOUS
    <3>. QED
      BY <2>3, <2>4, <3>1, LastNamed
  <2>6. j \in 1 .. Len(fs)
    OBVIOUS
  <2>7. PmtPid(fs[j].section.programs[1]) = 4096
    BY <1>1, <2>5, <2>6, MuxerNames
  <2>8. Becomes(fs, k)
    BY <1>8, <2>2, <2>5, <2>7 DEF Becomes
  <2>9. AllBecame(fs, app1)
    <3>1. PICK m \in Nat : m = Len(app)
      OBVIOUS
    <3>2. Len(app1) = m + 1 /\ app1[m + 1] = k /\ \A i \in 1 .. m : app1[i] = app[i]
      BY <2>1, <3>1
    <3>3. ASSUME NEW i \in 1 .. Len(app1) PROVE Becomes(fs, app1[i])
      <4>1. CASE i = m + 1
        BY <2>8, <3>2, <4>1
      <4>2. CASE i # m + 1
        <5>1. i \in 1 .. m /\ i \in 1 .. Len(app)
          BY <3>1, <3>2, <4>2
        <5>. QED
          BY <3>2, <5>1 DEF AllBecame
      <4>. QED
        BY <4>1, <4>2
    <3>. QED
      BY <3>3 DEF AllBecame
  <2>. QED
    BY <1>6, <2>9
<1>. QED
  BY <1>7, <1>8

\* A reader between two TS packets is where the second begins.
LEMMA HereOnTrack ==
  ASSUME NEW L \in Nat, DOMAIN ts_file = 1 .. L, NEW g,
         \A k \in 1 .. L : StartOf(k) = g[k - 1],
         \A i \in 0 .. L : g[i] \in Nat,
         \A i, k \in 0 .. L : i < k => g[i] + PacketSize <= g[k],
         NEW n \in 0 .. L, ts_place = g[n], ts_place < g[L]
  PROVE  n \in 0 .. L - 1 /\ Here = {n + 1} /\ g[n] + PacketSize <= g[L]
<1>1. PICK P \in Nat \ {0} : P = PacketSize
  BY MuxerAssumption
<1>2. g[n] \in Nat /\ g[L] \in Nat /\ n # L
  <2>1. g[n] \in Nat /\ g[L] \in Nat
    OBVIOUS
  <2>2. g[n] < g[L]
    OBVIOUS
  <2>3. n # L
    <3>. SUFFICES ASSUME n = L PROVE FALSE
      OBVIOUS
    <3>1. PICK x \in Nat : x = g[n]
      BY <2>1
    <3>2. x < x
      BY <2>2, <3>1
    <3>. QED
      BY <3>2
  <2>. QED
    BY <2>1, <2>3
<1>3. PICK m \in 1 .. L : m = n + 1 /\ m - 1 = n
  BY <1>2
<1>4. g[n] + PacketSize <= g[L]
  <2>1. L \in 0 .. L /\ n < L
    BY <1>2
  <2>. QED
    BY <2>1
<1>5. m \in Here
  BY <1>3 DEF Here
<1>6. ASSUME NEW k \in Here PROVE k = m
  <2>1. k \in 1 .. L /\ g[k - 1] = g[n]
    BY DEF Here
  <2>2. PICK h \in 0 .. L : h = k - 1
    BY <2>1
  <2>3. g[h] = g[n] /\ g[h] \in Nat
    BY <2>1, <2>2
  <2>4. ~(h < n)
    <3>. SUFFICES ASSUME h < n PROVE FALSE
      OBVIOUS
    <3>1. g[h] + PacketSize <= g[n]
      OBVIOUS
    <3>. QED
      BY <1>1, <1>2, <2>3, <3>1
  <2>5. ~(n < h)
    <3>. SUFFICES ASSUME n < h PROVE FALSE
      OBVIOUS
    <3>1. g[n] + PacketSize <= g[h]
      OBVIOUS
    <3>. QED
      BY <1>1, <1>2, <2>3, <3>1
  <2>. QED
    BY <1>3, <2>1, <2>2, <2>4, <2>5
<1>7. Here = {m}
  BY <1>5, <1>6
<1>. QED
  BY <1>2, <1>3, <1>4, <1>7

LEMMA ReadKeeps ==
  ASSUME TablesInv, ReadTS
  PROVE  TablesInv'
<1>. DEFINE Taken(k) ==
       /\ applied' \in {applied, Append(applied, k)} /\ misread' \in {misread, TRUE}
       /\ ~misread => /\ TSPacketRead(ts_writer, ts_file, k, pmt_pid, streams, applied, pmt_pid', streams', applied')
                      /\ last_result' # "bad_sync" /\ misread' = misread
<1>1. PICK fs : fs = ts_file
  OBVIOUS
<1>2. PICK who \in {"muxer", "foreign"} : who = ts_writer
  BY DEF TablesInv, ReadTS
<1>3. FileIs(who, fs) /\ ts_file' = fs /\ ts_writer' = who /\ dropped' = dropped /\ registered' = registered
  BY <1>1, <1>2 DEF TablesInv, ReadTS, muxvars
<1>4. Len(fs) \in Nat /\ DOMAIN fs = 1 .. Len(fs) /\ SizesOf(fs) \in Seq(Nat)
  BY <1>3, SizesAre
<1>5. \A g : IsSums(SizesOf(fs), g) =>
        /\ ByteSize = g[Len(fs)]
        /\ \A k \in 1 .. Len(fs) : StartOf(k) = g[k - 1]
        /\ \A i \in 0 .. Len(fs) : g[i] \in Nat
        /\ \A i, k \in 0 .. Len(fs) : i < k => g[i] + PacketSize <= g[k]
        /\ \A i \in 1 .. Len(fs) : g[i] = g[i - 1] + fs[i].size
  BY <1>1, <1>2, <1>3, StartIs
<1>6. PICK P \in Nat \ {0} : P = PacketSize
  BY MuxerAssumption
<1>7. PICK size \in Nat : size = ByteSize
  <2>1. PICK g : IsSums(SizesOf(fs), g)
    BY <1>4, SumsExist
  <2>2. Len(fs) \in 0 .. Len(fs)
    BY <1>4
  <2>. QED
    BY <1>5, <2>1, <2>2
<1>8. ts_place \in Nat /\ ts_place < size
  BY <1>7 DEF TablesInv, ReadTS
<1>9. ts_place' \in Nat /\ ts_place' # 0 /\ ts_place < ts_place'
  <2>1. ts_place' = size \/ ts_place' = ts_place + P
    BY <1>6, <1>7 DEF ReadTS
  <2>. QED
    BY <1>6, <1>7, <1>8, <2>1
<1>10. \/ ts_place + P > size /\ TablesUnchanged
       \/ ts_place' = ts_place + P /\ Here = {} /\ ReadOutOfPlace
       \/ ts_place' = ts_place + P /\ \E k \in Here : Taken(k)
  <2>1. CASE ts_place + PacketSize > ByteSize
    BY <1>6, <1>7, <1>8, <2>1 DEF ReadTS
  <2>2. CASE ~(ts_place + PacketSize > ByteSize)
    <3>1. ts_place' = ts_place + P
      <4>1. ts_place' = ts_place + PacketSize
        BY <2>2 DEF ReadTS
      <4>. QED
        BY <1>6, <4>1
    <3>2. CASE Here = {} /\ ReadOutOfPlace
      BY <3>1, <3>2
    <3>3. ASSUME NEW k \in Here, NEW f, f = ts_file[k],
                 \/ /\ f.header.transport_error \/ (f.kind = "pmt" /\ f.header.pid # pmt_pid)
                    /\ last_result' = "ok" /\ TablesUnchanged
                 \/ ~f.header.transport_error /\ f.kind = "pat" /\ HandlePAT(f)
                 \/ ~f.header.transport_error /\ f.kind = "pmt" /\ f.header.pid = pmt_pid /\ HandlePMT(k)
                 \/ ~f.header.transport_error /\ f.kind = "media" /\ HandleMedia(f)
          PROVE  Taken(k)
      <4>1. k \in 1 .. Len(fs)
        BY <1>1, <1>4 DEF Here
      <4>2. applied' \in {applied, Append(applied, k)} /\ misread' \in {misread, TRUE}
        BY <3>3, ReadAppends
      <4>3. ASSUME ~misread
            PROVE  /\ TSPacketRead(who, fs, k, pmt_pid, streams, applied, pmt_pid', streams', applied')
                   /\ last_result' # "bad_sync" /\ misread' = misread
        <5>1. MapPid(pmt_pid)
          BY <4>3 DEF TablesInv
        <5>. QED
          BY <1>1, <1>3, <3>3, <4>1, <4>3, <5>1, ReadPacketIs
      <4>. QED
        BY <1>1, <1>2, <4>2, <4>3 DEF Taken
    <3>4. \/ Here = {} /\ ReadOutOfPlace
          \/ \E k \in Here :
               LET f == ts_file[k]
               IN  \/ /\ f.header.transport_error \/ (f.kind = "pmt" /\ f.header.pid # pmt_pid)
                      /\ last_result' = "ok" /\ TablesUnchanged
                   \/ ~f.header.transport_error /\ f.kind = "pat" /\ HandlePAT(f)
                   \/ ~f.header.transport_error /\ f.kind = "pmt" /\ f.header.pid = pmt_pid /\ HandlePMT(k)
                   \/ ~f.header.transport_error /\ f.kind = "media" /\ HandleMedia(f)
      BY <2>2 DEF ReadTS
    <3>. QED
      BY <3>1, <3>2, <3>3, <3>4
  <2>. QED
    BY <2>1, <2>2
<1>11. misread \in BOOLEAN /\ misread' \in BOOLEAN /\ (misread => misread')
  <2>1. misread \in BOOLEAN
    BY DEF TablesInv
  <2>2. misread' \in {misread, TRUE}
    BY <1>10 DEF Taken, TablesUnchanged, ReadOutOfPlace, ParseFails, ParseAsPAT, ParseAsPMT
  <2>. QED
    BY <2>1, <2>2
<1>12. applied \in Seq(1 .. Len(fs)) /\ applied' \in Seq(1 .. Len(fs))
  <2>1. applied \in Seq(1 .. Len(fs))
    BY <1>1 DEF TablesInv
  <2>2. ASSUME NEW k \in Here PROVE Append(applied, k) \in Seq(1 .. Len(fs))
    BY <1>1, <1>4, <2>1 DEF Here
  <2>3. applied' = applied \/ \E k \in Here : applied' = Append(applied, k)
    BY <1>10 DEF Taken, TablesUnchanged, ReadOutOfPlace, ParseFails, ParseAsPAT, ParseAsPMT
  <2>. QED
    BY <2>1, <2>2, <2>3
<1>13. ASSUME ~misread'
       PROVE  /\ ~misread /\ MapPid(pmt_pid)
              /\ StreamsFrom(who, fs, streams, applied) /\ LatestMap(who, fs, streams, applied)
              /\ \/ ts_place + P > size /\ TablesUnchanged
                 \/ Here = {} /\ TablesUnchanged
                 \/ ts_place' = ts_place + P /\ last_result' # "bad_sync" /\ \E k \in Here :
                      TSPacketRead(who, fs, k, pmt_pid, streams, applied, pmt_pid', streams', applied')
  <2>1. ~misread
    BY <1>11, <1>13
  <2>2. ReadOutOfPlace => TablesUnchanged
    BY <1>13 DEF ReadOutOfPlace, ParseFails, ParseAsPAT, ParseAsPMT
  <2>3. \A k \in Here : Taken(k) =>
          /\ TSPacketRead(who, fs, k, pmt_pid, streams, applied, pmt_pid', streams', applied')
          /\ last_result' # "bad_sync"
    BY <1>1, <1>2, <2>1 DEF Taken
  <2>4. /\ MapPid(pmt_pid)
        /\ StreamsFrom(who, fs, streams, applied) /\ LatestMap(who, fs, streams, applied)
    BY <1>1, <1>2, <2>1 DEF TablesInv
  <2>. HIDE DEF Taken
  <2>. QED
    BY <1>10, <2>1, <2>2, <2>3, <2>4
<1>. HIDE DEF Taken
<1>14. ASSUME ~misread'
       PROVE  /\ MapPid(pmt_pid')
              /\ StreamsFrom(who, fs, streams', applied') /\ LatestMap(who, fs, streams', applied')
  <2>1. CASE TablesUnchanged
    <3>1. streams' = streams /\ applied' = applied /\ pmt_pid' = pmt_pid
      BY <2>1 DEF TablesUnchanged
    <3>. QED
      BY <1>13, <1>14, <3>1
  <2>2. ASSUME NEW k \in Here, TSPacketRead(who, fs, k, pmt_pid, streams, applied, pmt_pid', streams', applied')
        PROVE  /\ MapPid(pmt_pid')
               /\ StreamsFrom(who, fs, streams', applied') /\ LatestMap(who, fs, streams', applied')
    <3>1. k \in 1 .. Len(fs)
      BY <1>1, <1>4 DEF Here
    <3>2. MapPid(pmt_pid')
      <4>1. CASE Names(fs[k])
        <5>1. fs[k].section.programs \in Seq(Nat) /\ fs[k].section.programs # <<>>
          BY <1>3, <3>1, <4>1, PMTIs DEF Names, IsPAT
        <5>2. PICK q \in Nat : q = fs[k].section.programs[1]
          BY <5>1
        <5>3. pmt_pid' = PmtPid(q)
          BY <2>2, <4>1, <5>2 DEF TSPacketRead
        <5>. QED
          BY <5>3 DEF MapPid, PmtPid, NetworkPid, FirstMapPid
      <4>2. CASE ~Names(fs[k])
        <5>1. pmt_pid' = pmt_pid
          BY <2>2, <4>2 DEF TSPacketRead
        <5>. QED
          BY <1>13, <1>14, <5>1
      <4>. QED
        BY <4>1, <4>2
    <3>3. CASE streams' = streams /\ applied' = applied
      BY <1>13, <1>14, <3>2, <3>3
    <3>4. CASE /\ fs[k].kind = "pmt" /\ streams' = Inserted(Kept(who, fs[k].section.entries))
               /\ applied' = Append(applied, k)
      <4>1. fs[k].section.entries \in Seq(EntryT) /\ Distinct(fs[k].section.entries)
        BY <1>3, <3>1, <3>4, PMTIs DEF IsPMT
      <4>2. StreamsFrom(who, fs, streams, applied) /\ LatestMap(who, fs, streams, applied)
        BY <1>13, <1>14
      <4>3. /\ Append(applied, k) \in Seq(1 .. Len(fs))
            /\ StreamsFrom(who, fs, streams', Append(applied, k))
            /\ LatestMap(who, fs, streams', Append(applied, k))
        BY <1>4, <1>12, <3>1, <3>4, <4>1, <4>2, MapKept
      <4>. QED
        BY <3>2, <3>4, <4>3
    <3>. QED
      BY <2>2, <3>3, <3>4 DEF TSPacketRead
  <2>. QED
    BY <1>13, <1>14, <2>1, <2>2
<1>15. ASSUME NEW g, IsSums(SizesOf(fs), g)
       PROVE  /\ size = g[Len(fs)]
              /\ \A k \in 1 .. Len(fs) : StartOf(k) = g[k - 1]
              /\ \A i \in 0 .. Len(fs) : g[i] \in Nat
              /\ \A i, k \in 0 .. Len(fs) : i < k => g[i] + PacketSize <= g[k]
              /\ \A i \in 1 .. Len(fs) : g[i] = g[i - 1] + fs[i].size
              /\ \A i \in 1 .. Len(fs) : g[i - 1] < ts_place => g[i - 1] < ts_place'
  <2>1. /\ size = g[Len(fs)]
        /\ \A k \in 1 .. Len(fs) : StartOf(k) = g[k - 1]
        /\ \A i \in 0 .. Len(fs) : g[i] \in Nat
        /\ \A i, k \in 0 .. Len(fs) : i < k => g[i] + PacketSize <= g[k]
        /\ \A i \in 1 .. Len(fs) : g[i] = g[i - 1] + fs[i].size
    BY <1>5, <1>7, <1>15
  <2>2. ASSUME NEW i \in 1 .. Len(fs), g[i - 1] < ts_place PROVE g[i - 1] < ts_place'
    <3>1. i - 1 \in 0 .. Len(fs)
      BY <1>4
    <3>2. g[i - 1] \in Nat
      BY <2>1, <3>1
    <3>. QED
      BY <1>8, <1>9, <2>2, <3>2
  <2>. QED
    BY <2>1, <2>2
<1>16. ASSUME ~dropped, misread' PROVE Strayed(fs, ts_place')
  <2>1. CASE misread
    <3>1. PICK g : IsSums(SizesOf(fs), g) /\ \E k \in 1 .. Len(fs) : g[k - 1] < ts_place /\ fs[k].size # PacketSize
      BY <1>1, <1>16, <2>1 DEF TablesInv, Strayed
    <3>2. \A i \in 1 .. Len(fs) : g[i - 1] < ts_place => g[i - 1] < ts_place'
      BY <1>15, <3>1
    <3>. QED
      BY <3>1, <3>2 DEF Strayed
  <2>2. CASE ~misread
    <3>1. Here = {}
      <4>1. ~TablesUnchanged
        BY <1>16, <2>2 DEF TablesUnchanged
      <4>2. \A k \in Here : ~Taken(k)
        BY <1>16, <2>2 DEF Taken
      <4>. QED
        BY <1>10, <4>1, <4>2
    <3>2. ReaderIs(who, fs, ts_place, pmt_pid, applied, last_result)
      BY <1>1, <1>2, <1>16, <2>2 DEF TablesInv
    <3>3. PICK g : /\ IsSums(SizesOf(fs), g)
                   /\ \/ OnTrack(fs, g, ts_place, pmt_pid, applied, last_result)
                      \/ OffTrack(who, fs, g, ts_place, pmt_pid)
      BY <3>2 DEF ReaderIs
    <3>4. CASE OnTrack(fs, g, ts_place, pmt_pid, applied, last_result)
      <4>1. PICK n \in 0 .. Len(fs) : ts_place = g[n]
        BY <3>4 DEF OnTrack
      <4>2. ts_place < g[Len(fs)]
        BY <1>8, <1>15, <3>3
      <4>3. /\ \A k \in 1 .. Len(fs) : StartOf(k) = g[k - 1]
            /\ \A i \in 0 .. Len(fs) : g[i] \in Nat
            /\ \A i, k \in 0 .. Len(fs) : i < k => g[i] + PacketSize <= g[k]
        BY <1>15, <3>3
      <4>4. Here = {n + 1}
        BY <1>1, <1>4, <4>1, <4>2, <4>3, HereOnTrack
      <4>. QED
        BY <3>1, <4>4
    <3>5. CASE OffTrack(who, fs, g, ts_place, pmt_pid)
      <4>1. \A i \in 1 .. Len(fs) : g[i - 1] < ts_place => g[i - 1] < ts_place'
        BY <1>15, <3>3
      <4>. QED
        BY <3>3, <3>5, <4>1 DEF OffTrack, Strayed
    <3>. QED
      BY <3>3, <3>4, <3>5
  <2>. QED
    BY <2>1, <2>2
<1>17. ASSUME ~dropped, ~misread' PROVE ReaderIs(who, fs, ts_place', pmt_pid', applied', last_result')
  <2>1. ReaderIs(who, fs, ts_place, pmt_pid, applied, last_result) /\ ~misread
    BY <1>1, <1>2, <1>13, <1>17 DEF TablesInv
  <2>2. PICK g : /\ IsSums(SizesOf(fs), g)
                 /\ \/ OnTrack(fs, g, ts_place, pmt_pid, applied, last_result)
                    \/ OffTrack(who, fs, g, ts_place, pmt_pid)
    BY <2>1 DEF ReaderIs
  <2>3. AllBecame(fs, applied)
    BY <2>1 DEF ReaderIs
  <2>4. /\ size = g[Len(fs)]
        /\ \A k \in 1 .. Len(fs) : StartOf(k) = g[k - 1]
        /\ \A i \in 0 .. Len(fs) : g[i] \in Nat
        /\ \A i, k \in 0 .. Len(fs) : i < k => g[i] + PacketSize <= g[k]
        /\ \A i \in 1 .. Len(fs) : g[i] = g[i - 1] + fs[i].size
        /\ \A i \in 1 .. Len(fs) : g[i - 1] < ts_place => g[i - 1] < ts_place'
    BY <1>15, <2>2
  <2>5. CASE OnTrack(fs, g, ts_place, pmt_pid, applied, last_result)
    <3>1. PICK n \in 0 .. Len(fs) :
            /\ ts_place = g[n] /\ \A i \in 1 .. n : fs[i].size = PacketSize
            /\ NamedAt(fs, n, pmt_pid)
            /\ \A k \in 1 .. n : Becomes(fs, k) => \E i \in 1 .. Len(applied) : applied[i] = k
      BY <2>5 DEF OnTrack
    <3>2. ts_place < g[Len(fs)]
      BY <1>8, <2>4
    <3>3. n \in 0 .. Len(fs) - 1 /\ Here = {n + 1} /\ g[n] + PacketSize <= g[Len(fs)]
      BY <1>1, <1>4, <2>4, <3>1, <3>2, HereOnTrack
    <3>4. ~(ts_place + P > size)
      BY <1>6, <1>7, <1>8, <2>4, <3>1, <3>3
    <3>5. /\ ts_place' = ts_place + P /\ last_result' # "bad_sync"
          /\ TSPacketRead(who, fs, n + 1, pmt_pid, streams, applied, pmt_pid', streams', applied')
      BY <1>13, <1>17, <3>3, <3>4
    <3>6. /\ AllBecame(fs, applied')
          /\ \/ OnTrack(fs, g, g[n] + PacketSize, pmt_pid', applied', last_result')
             \/ OffTrack(who, fs, g, g[n] + PacketSize, pmt_pid')
      BY <1>3, <1>12, <2>3, <2>4, <3>1, <3>3, <3>5, OnTrackRead
    <3>7. ts_place' = g[n] + PacketSize
      BY <1>6, <3>1, <3>5
    <3>. QED
      BY <2>2, <3>6, <3>7 DEF ReaderIs
  <2>6. CASE OffTrack(who, fs, g, ts_place, pmt_pid)
    <3>1. CASE TablesUnchanged
      <4>1. AllBecame(fs, applied') /\ pmt_pid' = pmt_pid
        BY <2>3, <3>1 DEF TablesUnchanged
      <4>2. OffTrack(who, fs, g, ts_place', pmt_pid')
        BY <2>4, <2>6, <4>1 DEF OffTrack
      <4>. QED
        BY <2>2, <4>1, <4>2 DEF ReaderIs
    <3>2. ASSUME NEW k \in Here, ts_place' = ts_place + P,
                 TSPacketRead(who, fs, k, pmt_pid, streams, applied, pmt_pid', streams', applied')
          PROVE  ReaderIs(who, fs, ts_place', pmt_pid', applied', last_result')
      <4>1. k \in 1 .. Len(fs) /\ g[k - 1] = ts_place
        BY <1>1, <1>4, <2>4 DEF Here
      <4>2. AllBecame(fs, applied') /\ OffTrack(who, fs, g, ts_place + PacketSize, pmt_pid')
        BY <1>3, <1>8, <1>12, <2>3, <2>4, <2>6, <3>2, <4>1, OffTrackRead
      <4>. QED
        BY <1>6, <2>2, <3>2, <4>2 DEF ReaderIs
    <3>. QED
      BY <1>13, <1>17, <3>1, <3>2
  <2>. QED
    BY <2>2, <2>5, <2>6
<1>18. registered' \in Seq(STRING) /\ Len(registered') <= FirstMapPid - 256 /\ dropped' \in BOOLEAN
  BY <1>3 DEF TablesInv
<1>. QED
  BY <1>2, <1>3, <1>9, <1>11, <1>12, <1>14, <1>16, <1>17, <1>18 DEF TablesInv

LEMMA DropKeeps ==
  ASSUME TablesInv, NEW n \in Drops, DropRead(n)
  PROVE  TablesInv'
<1>1. /\ ts_place' = ts_place + n /\ dropped' = TRUE /\ ts_file' = ts_file /\ ts_writer' = ts_writer
      /\ pmt_pid' = pmt_pid /\ streams' = streams /\ applied' = applied /\ registered' = registered
      /\ misread' = misread
  BY DEF DropRead, muxvars
<1>2. PacketSize \in Nat /\ n \in 1 .. PacketSize - 1 /\ ts_place \in Nat
  BY MuxerAssumption, TablesAssumption DEF TablesInv
<1>3. ts_place' \in Nat /\ ts_place' # 0
  BY <1>1, <1>2
<1>. QED
  BY <1>1, <1>3 DEF TablesInv

LEMMA TablesInvStep == TablesInv /\ TablesNext => TablesInv'
BY WriteHeaderKeeps, WriteMediaKeeps, ForeignTablesKeep, ReadKeeps, DropKeeps DEF TablesNext

LEMMA TablesAreReadBack == TablesInv => TablesReadBack
<1>. SUFFICES ASSUME TablesInv PROVE TablesReadBack
  OBVIOUS
<1>1. PICK fs, who : fs = ts_file /\ who = ts_writer
  OBVIOUS
<1>2. FileIs(who, fs)
  BY <1>1 DEF TablesInv
<1>3. Len(fs) \in Nat /\ DOMAIN fs = 1 .. Len(fs) /\ SizesOf(fs) \in Seq(Nat)
  BY <1>2, SizesAre
<1>4. applied \in Seq(1 .. Len(fs)) /\ DOMAIN applied = 1 .. Len(applied)
  BY <1>1 DEF TablesInv
<1>5. \A entries : KeptOf(entries) = Kept(who, entries)
  BY <1>1 DEF KeptOf, Kept
<1>6. \A k : BecomesMap(k) <=> Becomes(fs, k)
  BY <1>1 DEF BecomesMap, Becomes
<1>7. \A i \in DOMAIN applied : /\ Kept(who, fs[applied[i]].section.entries) = KeptOf(fs[applied[i]].section.entries)
                                /\ BecomesMap(applied[i]) <=> Becomes(fs, applied[i])
  BY <1>5, <1>6
<1>8. ASSUME ~misread PROVE \A i \in DOMAIN applied : BecomesMap(applied[i]) \/ dropped
  BY <1>1, <1>4, <1>6, <1>8 DEF TablesInv, ReaderIs, AllBecame
<1>9. ASSUME ~misread, NEW p \in DOMAIN streams
      PROVE  \E i \in DOMAIN applied :
               LET kept == KeptOf(ts_file[applied[i]].section.entries)
               IN  /\ streams[p].index + 1 \in DOMAIN kept
                   /\ kept[streams[p].index + 1].pid = p
                   /\ kept[streams[p].index + 1].type = streams[p].type
  <2>1. PICK i \in 1 .. Len(applied) :
          LET kept == Kept(who, fs[applied[i]].section.entries)
          IN  /\ streams[p].index + 1 \in DOMAIN kept
              /\ kept[streams[p].index + 1].pid = p
              /\ kept[streams[p].index + 1].type = streams[p].type
    BY <1>1, <1>9 DEF TablesInv, StreamsFrom
  <2>2. KeptOf(ts_file[applied[i]].section.entries) = Kept(who, fs[applied[i]].section.entries)
    BY <1>1, <1>5
  <2>. QED
    BY <1>4, <2>1, <2>2
<1>10. ASSUME ~misread
       PROVE  applied # <<>> =>
         LET kept == KeptOf(ts_file[applied[Len(applied)]].section.entries)
         IN  \A i \in StreamsOf(kept) :
               kept[i].pid \in DOMAIN streams /\ streams[kept[i].pid].index = i - 1
  <2>1. KeptOf(ts_file[applied[Len(applied)]].section.entries) = Kept(who, fs[applied[Len(applied)]].section.entries)
    BY <1>1, <1>5
  <2>. QED
    BY <1>1, <1>10, <2>1 DEF TablesInv, LatestMap
<1>11. ASSUME Undisturbed
       PROVE  /\ ~misread /\ last_result # "bad_sync"
              /\ \A k \in DOMAIN ts_file :
                   StartOf(k) < ts_place /\ BecomesMap(k) => \E i \in DOMAIN applied : applied[i] = k
  <2>0. ~misread
    <3>. SUFFICES ASSUME misread PROVE FALSE
      OBVIOUS
    <3>1. Strayed(fs, ts_place)
      BY <1>1, <1>11 DEF TablesInv, Undisturbed
    <3>2. PICK g : IsSums(SizesOf(fs), g) /\ \E k \in 1 .. Len(fs) : g[k - 1] < ts_place /\ fs[k].size # PacketSize
      BY <3>1 DEF Strayed
    <3>3. PICK k \in 1 .. Len(fs) : g[k - 1] < ts_place /\ fs[k].size # PacketSize
      BY <3>2
    <3>4. \A i \in 1 .. Len(fs) : StartOf(i) = g[i - 1]
      BY <1>1, <1>2, <3>2, StartIs
    <3>. QED
      BY <1>1, <1>3, <1>11, <3>3, <3>4 DEF Undisturbed
  <2>1. ReaderIs(who, fs, ts_place, pmt_pid, applied, last_result)
    BY <1>1, <1>11, <2>0 DEF TablesInv, Undisturbed
  <2>2. PICK g : /\ IsSums(SizesOf(fs), g)
                 /\ \/ OnTrack(fs, g, ts_place, pmt_pid, applied, last_result)
                    \/ OffTrack(who, fs, g, ts_place, pmt_pid)
    BY <2>1 DEF ReaderIs
  <2>3. /\ \A k \in 1 .. Len(fs) : StartOf(k) = g[k - 1]
        /\ \A i \in 0 .. Len(fs) : g[i] \in Nat
        /\ \A i, k \in 0 .. Len(fs) : i < k => g[i] + PacketSize <= g[k]
    BY <1>1, <1>2, <2>2, StartIs
  <2>4. ~OffTrack(who, fs, g, ts_place, pmt_pid)
    BY <1>1, <1>3, <1>11, <2>3 DEF OffTrack, Undisturbed
  <2>5. PICK n \in 0 .. Len(fs) :
          /\ ts_place = g[n] /\ last_result # "bad_sync"
          /\ \A k \in 1 .. n : Becomes(fs, k) => \E i \in 1 .. Len(applied) : applied[i] = k
    BY <2>2, <2>4 DEF OnTrack
  <2>6. ASSUME NEW k \in 1 .. Len(fs), g[k - 1] < g[n] PROVE k \in 1 .. n
    <3>. SUFFICES ASSUME k > n PROVE FALSE
      BY <2>5
    <3>1. Len(fs) \in Nat
      BY <1>3
    <3>2. PICK h \in 0 .. Len(fs) : h = k - 1 /\ (h = n \/ n < h)
      BY <2>5, <3>1
    <3>3. g[h] \in Nat /\ g[n] \in Nat /\ g[h] < g[n]
      BY <2>3, <2>5, <2>6, <3>2
    <3>4. CASE h = n
      BY <3>3, <3>4
    <3>5. CASE n < h
      <4>1. g[n] + PacketSize <= g[h] /\ PacketSize \in Nat
        BY <2>3, <2>5, <3>2, <3>5, MuxerAssumption
      <4>. QED
        BY <3>3, <4>1
    <3>. QED
      BY <3>2, <3>4, <3>5
  <2>. QED
    BY <1>1, <1>3, <1>4, <1>6, <2>0, <2>3, <2>5, <2>6
<1>. QED
  BY <1>8, <1>9, <1>10, <1>11 DEF TablesReadBack
==============================================================================
