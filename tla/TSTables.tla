------------------------------ MODULE TSTables ------------------------------
(***************************************************************************)
(* A transport stream as a file: what write_header and write_packet of     *)
(* TSMuxer write, or what another program that follows the format wrote,   *)
(* and the reader of TSDemuxer: where it is in the bytes, and the program  *)
(* tables it has found.  streams() and read_packet() look at a TS packet   *)
(* the same way.  Bytes that are no table can be parsed as one: any byte    *)
(* out of place may look like the sync byte.                               *)
(***************************************************************************)
EXTENDS TSFields, SequencesExt

CONSTANTS
  Headers,     \* codec types given to a call of write_header
  PATs,        \* program numbers of a PAT
  PMTs,        \* entries of a PMT: type, pid and sizes of the descriptors' data
  Pointers,    \* bytes before a section
  Drops,       \* bytes a dropped read has taken
  MaxPackets,  \* bound of the model: TS packets of a file of the muxer
  MaxStreams,  \* bound of the model: streams before the last call of write_header
  MaxForeign   \* bound of the model: TS packets of another file

NoPid == -1
NetworkPid == 0
FirstMapPid == 4096
PmtPid(program) == IF program = 0 THEN NetworkPid ELSE FirstMapPid + program - 1

ASSUME TablesAssumption ==
  /\ MaxPackets \in Nat /\ MaxStreams \in Nat /\ MaxForeign \in Nat
  /\ Drops \subseteq 1 .. PacketSize - 1
  /\ Headers \subseteq Seq(STRING) /\ PATs \subseteq Seq(Nat) /\ Pointers \subseteq Nat
  /\ PMTs \subseteq Seq([type : STRING, pid : Nat, descriptors : Seq(Nat)])
  /\ \A types \in Headers :  \* no stream has the pid of a PMT
       MaxStreams + Len(types) <= FirstMapPid - get_stream_pid(0)
  /\ \A entries \in PMTs :  \* each stream of a program has a pid of its own
       \A i, k \in DOMAIN entries : entries[i].pid = entries[k].pid => i = k

VARIABLES
  ts_file,      \* the TS packets
  ts_writer,    \* "open", or whose file it is
  ts_place,     \* bytes read
  dropped,      \* history: a read was dropped
  pmt_pid,
  streams,      \* pid of a stream to its index and codec type
  applied,      \* history: the PMTs that became the program map
  misread,      \* history: bytes that are no table may have been parsed as one
  last_result   \* of the last read

tablevars == <<ts_file, ts_writer, ts_place, dropped, pmt_pid, streams, applied, misread, last_result>>

Supported == {"H264", "H265", "AAC"}

TablesInit ==
  /\ ts_file = <<>> /\ ts_writer = "open" /\ ts_place = 0 /\ dropped = FALSE
  /\ pmt_pid = NoPid /\ streams = [p \in {} |-> {}] /\ applied = <<>>
  /\ misread = FALSE /\ last_result = "none"

------------------------------------------------------------------------------
\* Sizes.  A descriptor has two bytes before its data, an entry of a PMT five
\* before its descriptors; the fixed part of a section has 8 bytes, and a PMT
\* four more before its entries.
Total(sizes) ==
  LET sum[i \in 0 .. Len(sizes)] == IF i = 0 THEN 0 ELSE sum[i - 1] + sizes[i]
  IN  sum[Len(sizes)]

DescriptorSizes(e) == [i \in DOMAIN e.descriptors |-> 2 + e.descriptors[i]]

es_info_length(e) == Total(DescriptorSizes(e))

EntrySizes(entries) == [i \in DOMAIN entries |-> 5 + es_info_length(entries[i])]

pat_len(programs) == 4 * Len(programs)

pmt_len(entries) == 4 + Total(EntrySizes(entries))

\* A section: its length counts what follows it, with the CRC.  The PMT of the
\* muxer is counted one byte short.
PATSection(programs) == [kind |-> "pat", pid |-> 0, programs |-> programs,
                         section_length |-> pat_len(programs) + 5 + 4]

PMTSection(program, entries, section_length) ==
  [kind |-> "pmt", pid |-> PmtPid(program), entries |-> entries, section_length |-> section_length]

ConformingLength(entries) == pmt_len(entries) + 5 + 4

MuxerLength(entries) == pmt_len(entries) + 4 + 4

\* A section in a TS packet, stuffed to its size when it fits.
BytesOf(section, rest) == HeaderSize + 1 + 3 + section.section_length + rest

InPacket(section, size, pointer, error) ==
  [kind |-> section.kind, section |-> section, pointer |-> pointer,
   size |-> IF size < PacketSize THEN PacketSize ELSE size,
   header |-> [write_ts_header(TSHeader(section.pid, TRUE, FALSE, 0)) EXCEPT !.transport_error = error]]

------------------------------------------------------------------------------
\* A file is read when it is complete.
MayWriteTS(who) ==
  ts_writer \in {"open", who} /\ ts_place = 0 /\ ~dropped /\ last_result = "none"

Reading_unchanged ==
  UNCHANGED <<ts_place, dropped, pmt_pid, streams, applied, misread, last_result>>

\* The pmt keeps what earlier calls put into it.
RegisteredEntries(types) ==
  [i \in DOMAIN types |-> [type |-> types[i], pid |-> get_stream_pid(i - 1), descriptors |-> <<>>]]

\* write_header: the streams up to the first that no table can hold are
\* registered, and with none of those the tables of all are written.
write_header(types) ==
  LET bad == {i \in DOMAIN types : types[i] \notin Supported}
      before == {i \in DOMAIN types : \A k \in 1 .. i : k \notin bad}
      pmt == PMTSection(1, RegisteredEntries(registered'), MuxerLength(RegisteredEntries(registered')))
  IN  /\ MayWriteTS("muxer") /\ Len(ts_file) + 2 <= MaxPackets /\ Len(registered) <= MaxStreams
      /\ Register(SubSeq(types, 1, Cardinality(before)))
      /\ ts_writer' = "muxer"
      /\ ts_file' = IF bad # {} THEN ts_file
                    ELSE ts_file \o <<InPacket(PATSection(<<1>>), PacketSize, 0, FALSE),
                                      InPacket(pmt, BytesOf(pmt, 1), 0, FALSE)>>
      /\ Reading_unchanged

\* write_packet of len bytes for stream i.
WriteMedia(i, len) ==
  /\ MayWriteTS("muxer") /\ Len(ts_file) + PieceCount(len) <= MaxPackets
  /\ write_packet([stream_index |-> i, len |-> len, source |-> 0, pts |-> 0])
  /\ ts_writer' = "muxer"
  /\ ts_file' = ts_file \o
       [k \in 1 .. PieceCount(len) |->
          LET field == muxer_field(len, OffsetOf(k))
          IN  [kind |-> "media", size |-> written_size(len, OffsetOf(k)), field |-> field,
               header |-> write_ts_header(TSHeader(get_stream_pid(i - 1), k = 1, field.length > 0,
                                                   Counter(i, k)))]]
  /\ Reading_unchanged

\* Environment: a TS packet of a sender that follows the format.
ForeignPacket(f) ==
  /\ MayWriteTS("foreign") /\ Len(ts_file) < MaxForeign
  /\ ts_writer' = "foreign"
  /\ ts_file' = Append(ts_file, f)
  /\ UNCHANGED muxvars /\ Reading_unchanged

ForeignPAT ==
  \E programs \in PATs, error \in BOOLEAN :
    ForeignPacket(InPacket(PATSection(programs), PacketSize, 0, error))

ForeignPMT ==
  \E program \in {1, 2}, entries \in PMTs, pointer \in Pointers :
    ForeignPacket(InPacket(PMTSection(program, entries, ConformingLength(entries)),
                           PacketSize, pointer, FALSE))

------------------------------------------------------------------------------
\* Which items of a list of these sizes, from byte from on, a loop takes that
\* needs the fixed bytes of each before limit, and whether one goes beyond it.
BeginOf(sizes, from, k) == from + Total(SubSeq(sizes, 1, k - 1))

Walk(sizes, from, fixed, limit) ==
  {k \in DOMAIN sizes : BeginOf(sizes, from, k) + fixed <= limit}

Beyond(sizes, from, fixed, limit) ==
  \E k \in Walk(sizes, from, fixed, limit) : BeginOf(sizes, from, k + 1) > limit

\* The bytes of a TS packet from its section on, and those of the section.
Available(f) == PacketSize - HeaderSize - 1 - f.pointer

SectionEnd(f) == 3 + f.section.section_length

Fits(f) == Available(f) >= SectionEnd(f)

PATSizes(f) == [i \in DOMAIN f.section.programs |-> 4]

parse_pat(f) ==
  [ok |-> Available(f) >= 8 /\ Fits(f),
   programs |-> SubSeq(f.section.programs, 1, Cardinality(Walk(PATSizes(f), 8, 4, SectionEnd(f) - 4)))]

parse_descriptors(e) ==
  [ok |-> ~Beyond(DescriptorSizes(e), 0, 2, es_info_length(e)),
   taken |-> Walk(DescriptorSizes(e), 0, 2, es_info_length(e))]

\* The entries are read up to the end of the section, with its CRC.
parse_pmtToEnd(f) ==
  LET sizes == EntrySizes(f.section.entries)
      taken == Walk(sizes, 12, 5, SectionEnd(f))
  IN  [ok |-> Available(f) >= 7 /\ Fits(f), entries |-> SubSeq(f.section.entries, 1, Cardinality(taken))]

parse_pmt(f) ==
  LET sizes == EntrySizes(f.section.entries)
      limit == SectionEnd(f) - 4
      taken == Walk(sizes, 12, 5, limit)
  IN  [ok |-> /\ Available(f) >= 7 /\ Fits(f) /\ ~Beyond(sizes, 12, 5, limit)
              /\ \A k \in taken : parse_descriptors(f.section.entries[k]).ok,
       entries |-> SubSeq(f.section.entries, 1, Cardinality(taken))]

StreamsOf(entries) ==
  {i \in DOMAIN entries : entries[i].type \in Supported}

\* An index that counts the streams of known type.
InsertedDense(entries) ==
  LET pids == {entries[i].pid : i \in StreamsOf(entries)}
      Place(p) == CHOOSE i \in StreamsOf(entries) : entries[i].pid = p
  IN  [p \in pids \cup DOMAIN streams |->
         IF p \in pids
         THEN [index |-> Cardinality({i \in StreamsOf(entries) : i < Place(p)}),
               type |-> entries[Place(p)].type]
         ELSE streams[p]]

\* The streams of a program map, at their place in it; those of unknown type
\* are left out, and the ones of an earlier map stay.
Inserted(entries) ==
  LET pids == {entries[i].pid : i \in StreamsOf(entries)}
      Place(p) == CHOOSE i \in StreamsOf(entries) : entries[i].pid = p
  IN  [p \in pids \cup DOMAIN streams |->
         IF p \in pids THEN [index |-> Place(p) - 1, type |-> entries[Place(p)].type] ELSE streams[p]]

------------------------------------------------------------------------------
ByteSize == Total([i \in DOMAIN ts_file |-> ts_file[i].size])

StartOf(k) == BeginOf([i \in DOMAIN ts_file |-> ts_file[i].size], 0, k)

\* The TS packet that begins where the reader is, if one does.
Here == {k \in DOMAIN ts_file : StartOf(k) = ts_place}

TablesUnchanged == UNCHANGED <<pmt_pid, streams, applied, misread>>

HandlePAT(f) ==
  LET pat == parse_pat(f)
  IN  /\ pmt_pid' = IF pat.ok /\ pat.programs # <<>> THEN PmtPid(pat.programs[1]) ELSE pmt_pid
      /\ last_result' = IF pat.ok THEN "ok" ELSE "bad_section"
      /\ UNCHANGED <<streams, applied, misread>>

HandlePMT(k) ==
  LET pmt == parse_pmt(ts_file[k])
  IN  /\ IF pmt.ok
         THEN streams' = Inserted(pmt.entries) /\ applied' = Append(applied, k)
         ELSE UNCHANGED <<streams, applied>>
      /\ last_result' = IF pmt.ok THEN "ok" ELSE "bad_section"
      /\ UNCHANGED <<pmt_pid, misread>>

\* Bytes that are no table, parsed as one: they name any program, list any
\* streams, or cannot be parsed, which an index beyond the data turns into a panic.
ParseAsPAT ==
  /\ pmt_pid' \in {NetworkPid} \cup {ts_file[k].header.pid : k \in DOMAIN ts_file}
  /\ last_result' = "ok" /\ misread' = TRUE /\ UNCHANGED <<streams, applied>>

ParseAsPMT ==
  /\ \E entries \in PMTs : streams' = Inserted(entries)
  /\ last_result' = "ok" /\ misread' = TRUE /\ UNCHANGED <<pmt_pid, applied>>

ParseFails(results) ==
  last_result' \in results /\ misread' = TRUE /\ UNCHANGED <<pmt_pid, streams, applied>>

\* Bytes out of place pass for a TS packet when the first of them is a sync byte.
ReadOutOfPlace ==
  \/ last_result' = "bad_sync" /\ TablesUnchanged
  \/ ParseFails({"ok", "bad_field", "bad_section", "panic"})
  \/ ParseAsPAT
  \/ pmt_pid # NoPid /\ ParseAsPMT

\* Media are parsed as a PMT when their pid is the one that misread bytes named.
HandleMedia(f) ==
  LET bad == f.header.adaptation_field_exists /\ ~parse_adaptation_field(f.field).ok
      taken == f.header.payload_unit_start /\ f.header.pid = pmt_pid
  IN  \/ bad /\ last_result' = "bad_field" /\ TablesUnchanged
      \/ ~bad /\ ~taken /\ last_result' = "ok" /\ TablesUnchanged
      \/ ~bad /\ taken /\ (ParseFails({"bad_section", "panic"}) \/ ParseAsPMT)

ReadTS ==
  /\ ts_writer # "open" /\ last_result # "panic"
  /\ ts_place < ByteSize
  /\ IF ts_place + PacketSize > ByteSize
     THEN ts_place' = ByteSize /\ last_result' = "eof" /\ TablesUnchanged
     ELSE /\ ts_place' = ts_place + PacketSize
          /\ \/ Here = {} /\ ReadOutOfPlace
             \/ \E k \in Here :
                  LET f == ts_file[k]
                  IN  \/ /\ f.header.transport_error \/ (f.kind = "pmt" /\ f.header.pid # pmt_pid)
                         /\ last_result' = "ok" /\ TablesUnchanged
                      \/ ~f.header.transport_error /\ f.kind = "pat" /\ HandlePAT(f)
                      \/ ~f.header.transport_error /\ f.kind = "pmt" /\ f.header.pid = pmt_pid /\ HandlePMT(k)
                      \/ ~f.header.transport_error /\ f.kind = "media" /\ HandleMedia(f)
  /\ UNCHANGED <<ts_file, ts_writer, dropped>> /\ UNCHANGED muxvars

\* Environment: the future of a read is dropped with n bytes taken.
DropRead(n) ==
  /\ ts_writer # "open" /\ last_result # "panic" /\ ~dropped
  /\ ts_place + n < ByteSize
  /\ ts_place' = ts_place + n
  /\ dropped' = TRUE
  /\ last_result' = "dropped"
  /\ UNCHANGED <<ts_file, ts_writer, pmt_pid, streams, applied, misread>> /\ UNCHANGED muxvars

TablesNext ==
  \/ \E types \in Headers : write_header(types)
  \/ \E i \in DOMAIN registered, len \in Lengths : i \in {1, Len(registered)} /\ WriteMedia(i, len)
  \/ ForeignPAT \/ ForeignPMT
  \/ ReadTS
  \/ \E n \in Drops : DropRead(n)

------------------------------------------------------------------------------
\* Entries of a table that its reader keeps: all, but the last of the muxer's.
KeptOf(entries) ==
  IF ts_writer = "muxer" THEN SubSeq(entries, 1, Len(entries) - 1) ELSE entries

\* A PAT that can be read and names a program.
Names(f) ==
  f.kind = "pat" /\ ~f.header.transport_error /\ Fits(f) /\ f.section.programs # <<>>

\* TS packet k, read, becomes the program map.
BecomesMap(k) ==
  /\ ts_file[k].kind = "pmt" /\ Fits(ts_file[k])
  /\ \E j \in 1 .. k - 1 :
       /\ Names(ts_file[j]) /\ PmtPid(ts_file[j].section.programs[1]) = ts_file[k].header.pid
       /\ \A i \in j + 1 .. k - 1 : ~Names(ts_file[i])

Undisturbed == ~dropped /\ \A k \in DOMAIN ts_file : StartOf(k) < ts_place => ts_file[k].size = PacketSize

\* Of a table that was read from its first byte: the streams of the program map
\* are those of known type in the PMT that the last PAT names first, with their
\* places in it; the muxer's own lacks its last.  A stream that a later map lists
\* no more stays, with the place it had in an earlier one.  This holds until
\* bytes that are no table are parsed as one, after which the map may be any.
\* As long as every TS packet has its size and no read is dropped, that does not
\* happen: no byte out of place is looked at, and no PMT that fits is missed.
TablesReadBack ==
  /\ ~misread =>
       /\ \A i \in DOMAIN applied : BecomesMap(applied[i]) \/ dropped
       /\ \A p \in DOMAIN streams : \E i \in DOMAIN applied :
            LET kept == KeptOf(ts_file[applied[i]].section.entries)
            IN  /\ streams[p].index + 1 \in DOMAIN kept
                /\ kept[streams[p].index + 1].pid = p
                /\ kept[streams[p].index + 1].type = streams[p].type
       /\ applied # <<>> =>
            LET kept == KeptOf(ts_file[applied[Len(applied)]].section.entries)
            IN  \A i \in StreamsOf(kept) :
                  kept[i].pid \in DOMAIN streams /\ streams[kept[i].pid].index = i - 1
  /\ Undisturbed =>
       /\ ~misread /\ last_result # "bad_sync"
       /\ \A k \in DOMAIN ts_file :
            StartOf(k) < ts_place /\ BecomesMap(k) => \E i \in DOMAIN applied : applied[i] = k

\* A comment of the reader says that it takes the PMT of the first program: the
\* pid it looks for is that of the first entry of the last PAT read that is one,
\* also when the entry of the network comes before.
FirstProgramUsed ==
  Undisturbed =>
    \A k \in DOMAIN ts_file :
      LET programs == SelectSeq(ts_file[k].section.programs, LAMBDA p : p # 0)
      IN  (/\ StartOf(k) < ts_place /\ Names(ts_file[k])
           /\ \A i \in DOMAIN ts_file : StartOf(k) < StartOf(i) /\ StartOf(i) < ts_place => ~Names(ts_file[i]))
          => (programs # <<>> => pmt_pid = PmtPid(programs[1]))

\* A defect of the muxer's tables: the reader finds no more than the streams
\* before the last that the map it has lists, and never the last, which is the
\* only one of most files, until a later map that lists more streams is read.
LastStreamLost ==
  ~misread /\ ts_writer = "muxer" /\ applied # <<>> =>
    LET entries == ts_file[applied[Len(applied)]].section.entries
        found == {entries[i].pid : i \in 1 .. Len(entries) - 1}
    IN  DOMAIN streams = found /\ entries[Len(entries)].pid \notin found
=============================================================================
