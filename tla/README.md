# Verification of vdkio

vdkio turns RTSP camera streams into HLS: an RTSP client receives RTP packets,
a demuxer and codec parsers look into them, a TS muxer packs them and an HLS
segmenter writes segment files and playlists.  This directory holds TLA+ modules
of its components, TLC configurations that check them on small instances, and
theorems about them that TLAPS proves for every value of the constants.

Run `tlc -config X.cfg M` for a run of the table below and `tlapm M.tla` for a
module of proofs.  `PROJECT.json` maps every definition to the lines it models, and
lists the components, what is hard in them line by line, and the theorems.

## 1. Inventory

| Component | Source (under `src/src/`) | State | Operations | Interaction |
|---|---|---|---|---|
| Jitter buffer | `format/rtp/mod.rs` | `packets`, `min_seq`, `max_seq`, `buffer_size` | `push`, `pop` | owned by a `MediaStream`; the application calls both |
| RTP, RTCP packets | `format/rtp/mod.rs`, `format/rtcp/mod.rs` | none | `parse`, builders | bytes from and to the sockets |
| Media stream | `format/rtsp/stream.rs` | statistics, sockets, packet sender, jitter buffer | `update_statistics`, `generate_rtcp_report`, `setup_transport` | made by `setup`, its socket is taken by the task of `play` |
| RTSP client | `format/rtsp/client.rs`, `connection.rs` | connection, session, streams, CSeq, auth, retry counters, packet channel | `connect`, `describe`, `setup`, `play`, `teardown`, `reconnect`, `get_packet_receiver` | requests to the server; one receive task for each playing stream sends into the channel |
| RTSP text formats | `format/rtsp/mod.rs`, `transport.rs`, `sdp.rs` | none | parse, format | used by the client |
| HLS segmenter | `format/ts/hls.rs` | open segment, playlist, media sequence, next number; the output directory | `start_segment`, `finish_segment`, `should_start_new_segment`, `write_playlist` | driven by the application; players read playlist and files |
| TS muxer | `format/ts/muxer.rs`, `pes.rs`, `types.rs` | continuity counters, PCR, discontinuity flag | `write_header`, `write_packet`, `write_trailer` | writes to a segment's file |
| TS demuxer | `format/ts/demuxer.rs`, `parser.rs` | program tables, PES builders | `streams`, `read_packet` | reads what a muxer wrote |
| AAC | `format/aac`, `codec/aac` | reader position | ADTS header, mux, demux | |
| H.264, H.265 | `codec/h264`, `codec/h265` | decoder and encoder configuration | NAL splitting, parameter sets | |
| Transcoder | `av/transcode/mod.rs` | timelines, decoders, encoders | `transcode_packet`, `close` | calls the codecs |
| Bits, CRC | `utils/` | position in a buffer | `read_bits`, Exp-Golomb codes | used by the codecs |

What is hard in it:

* **Ordering and loss.**  UDP loses, duplicates and reorders; the jitter buffer
  and the statistics both reason with 16-bit numbers that wrap, the statistics
  moreover use number 0 for "none yet".  A correct buffer never mixes the sides
  of a wrap, never gives an older packet out behind a newer one and never gets stuck; correct
  statistics count what was lost.
* **Partial failure.**  `finish_segment` awaits a deletion in the middle of its
  updates.  A correct segmenter keeps numbers, list and files in agreement
  whatever call fails, is dropped or panics.
* **Restarts.**  The reconnect code of the application makes a new segmenter over
  the directory of the old one.
* **Sessions and tasks.**  The client's state (session, streams, channel, retry
  counters) is changed by calls that can fail at each await, while receive tasks
  hold clones of a sender.
* **Reassembly.**  A transport stream cuts packets into frames and loses some;
  the demuxer must find its way back to the start of a packet, and the muxer
  must leave a trace of what it failed to write.
* **Boundaries.**  The u8, u16 and u32 arithmetic of counters, and empty and full buffers.
* **Formats.**  Parsers and writers keep their place in bits, bytes, units or lines;
  a length that is off by one, a field read where it does not lie, or a read that
  failed and is not undone, moves everything behind it.  Correct ones give back what
  was written, also by other programs, or refuse it.

## 2. Modules

| Module | What it is |
|---|---|
| `SeqNumbers` | the 16-bit numbers, `SeqMod` of them |
| `OrderedBuffer` | abstract specification: what a reordering buffer promises |
| `JitterBuffer` | the buffer of `format/rtp/mod.rs`; implements `OrderedBuffer` |
| `RTPNetwork` | environment: the sender of a stream and the UDP path |
| `StreamStatistics` | the counters and the receiver report of `format/rtsp/stream.rs` |
| `MediaStream` | composition: network, statistics and jitter buffer |
| `HLSSegmenter` | the segmenter of `format/ts/hls.rs` and its directory |
| `HLSSegmenterProofs` | its theorems |
| `RTSPConnection` | requests and answers over one connection, `connect` and `reconnect`; environment: the server |
| `RTSPClient` | extends it: session, streams, ports, receive tasks and channels; environment: the application |
| `TSSource` | environment: a conforming transport stream that loses frames |
| `TSDemuxer` | extends it: tables and builders of `format/ts/demuxer.rs` |
| `Transcoder` | streams and timelines of `av/transcode/mod.rs` |
| `TSMuxer` | counters and TS packets of `format/ts/muxer.rs` |
| `TSPipeline` | composition: an application that demuxes, transcodes and muxes |
| `TSPipelineProofs` | theorems of the pipeline |
| `MediaStreamProofs` | theorems of the jitter buffer and of the media stream |
| `RTSPClientProofs` | theorems of the client: types and answers, then sessions, tasks and ports |
| `Remainders` | lemmas about remainders, quotients and least numbers |
| `Bits`, `BitReader` | the reads of `utils/bits.rs` and the codes they read as operators, and a reader as a state machine |
| `H265Parser` | parameter sets and units of `codec/h265` |
| `H264Decoder` | units and decoder of `codec/h264` |
| `ADTSFile` | muxer, demuxer and parser of `format/aac` and `codec/aac` |
| `RTPDatagrams` | the parsers of `format/rtp/mod.rs` and `format/rtcp/mod.rs` |
| `TSFields` | extends `TSMuxer`: adaptation fields, PES headers, time stamps and clocks of `format/ts` |
| `TSTables` | extends it: a transport stream as a file, its tables, their writers and their reader |
| `TextFormats` | Transport headers, session descriptions, playlists |
| `Formats` | composition: the formats side by side |
| `CodecProofs` | invariants of the bit reader, the H.264 decoder and the H.265 parser |
| `TSTablesProofs` | invariants of the fields and of the tables of a transport stream |
| `FormatsProofs` | invariants of ADTS files, datagrams and texts, and the theorems of `Formats` |
| `MC...` | the instances TLC checks |

### Jitter buffer

`packets` is the `BTreeMap`, a function from the stored numbers; `min_seq` and
`max_seq` are the fields of the same name; `returned` is the result of the last
call.  The outcomes of `push` are the actions `PushFirst`, `PushWrapped`,
`PushOverflow` and `PushStored`, in the order of the code's returns: the bounds
move before the size is looked at, so `PushOverflow` changes them.  `pop` is
`PopSome` and `PopNone`.  A packet's contents is a member of `Payload`.

`OrderedBuffer` keeps only the set of packets and the answer; a packet offered is
stored or refused, and only the least can be taken.  The map of `packets` to
`pending` is the identity, but the abstract buffer knows no bounds and no marks:
that the first key compared with `min_seq` is all `pop` needs is what `Ordered` says.

### Media stream

`RTPNetwork` numbers packets from `FirstSeq` and lets a packet be overtaken by at
most `Reorder` later ones, be lost or be delivered again.  On arrival the
application (the library has no caller of its own: its task forwards raw bytes)
calls `update_statistics` and `push`, one after the other, on one `MediaStream`
that it owns: one atomic action, because both take `&mut self`.  The payload of a
packet is its index in the sender's stream, so that outputs can be compared with
what was sent.  `first`, `skipped`, `truth`, `last_out` and `in_run` are history
variables.  A packet is sent only once no packet on the way is older by more than `Reorder`: any order of
arrivals is still possible, with fewer states.  A report is what the call returns, and gone with the next step.  u32 additions wrap, as they do in a release build.

What the buffer delivers of a stream that arrives in order is less than its comments say.
Behind a lost packet the others wait, and `push` goes on: it refuses numbers on the other side of
the wrap, but a number in the *middle* of the space is no wrap to it, so it becomes the new `min_seq` and is
popped next (`mod.rs:303`-`310`).  The properties say what is left.  In the first turn of the
numbers (`WithinTurn`) the order is kept all the same (`InOrderDelivery`), because what is passed over can only come out
when the numbers come round; a lost packet holds the delivery up until the stream is a quarter of the space
further (`GapHoldsDelivery`).  After a turn old packets do come out behind newer ones, but only with the number
that is next (`OutOfOrderIsNext`, for streams of any length).  So "the next sequential
packet" of the comment at `mod.rs:323` is not what `pop` gives out: with 65529 lost and 65530 waiting in a buffer with room, 0 to 16383
are refused, and 16384 is stored below 65530 and popped next.  The instance has such numbers and comes to such states.

### HLS segmenter

`current`, `segments`, `media_sequence`, `sequence_number` are the fields; `files`
is the output directory, from a number to the recording stored under the name with
that number; `published` is the playlist as last written.  `finish_segment` is cut at its
awaits: `FinishTakes` runs to the first deletion, each turn of the loop is
`RemoveOld`, and `FinishDone` is the end.  `RemoveFails` is a deletion that fails,
or a future dropped while the deletion runs on in its blocking thread.  `StartFails` is the same
for `File::create`.  `CheckPanics` and `FinishPanics` are the subtraction of two
`Duration`s.  `ForeignDeletion` is an operator, `Restart` a new segmenter over the
same directory.

### RTSP client

A call is two steps, for its future can be dropped at the await between them: it
sends a request (`Begin...`), and when the answer is read it changes the client
(`Described`, `SetUp`, `Played`, ...).  `Fails` is any other status or an I/O error.
`DropCall` leaves the answer, or the rest of one half read, in the connection.  `Reads(k)` is what one
`read_response` takes: the first `k` answers (`ReadsWhole`), or the last of them in part (`ReadsInPart`), since an
answer whose bytes so far are not UTF-8 has no `Content-Length` for `get_content_length` and counts as complete
as soon as its headers end (`connection.rs:84`-`91`), and behind one whole answer anything is complete.  The tail is read by the next call;
the code looks only at the first status line and never at the CSeq.  A description cut in its body is a
description or an error; one cut behind a tail may lack its headers (`Headless`) and is an error.  `handle_auth` sends the request again
under the next CSeq, without the Transport and Session headers of the first.

The server answers in order, may refuse, ask for credentials, put the
headers in any order, and insists on a session it knows.  It is one server; a session is the
number of the request that made it.  A slot is a pair of client ports.  `streams` and `tasks`
say who holds the RTP socket of a slot: a stream until `play`, then the task.
Channel 0 is the one `new` makes, whose receiver it drops.  `waiting` lists the tasks that have a packet to send, in
the order they got it: the permits of a tokio channel are given out in that order, so a task that waits is not
passed over by another one of the same channel (`FirstInLine`).

`mishap`, `crowded`, `collided`, `slips` (calls dropped and answers read in part on this connection) and `cuts` are
history variables: what the properties exclude is there in the model and named.  `InStep` excludes nothing: it counts
what may be outstanding by `slips`.  `SessionsAgree`, `TasksStartPlaying` and `NoOwnCollision` need `Smooth`, that nothing
was left unread and no connection lost.  Text, digests, TCP interleaving, writes that
fail half way and ports used by other programs are left out.

### Transport stream

`TSSource` sends units (PES packets) in frames of at most `FrameSize` payload bytes, in
any interleaving of streams, with tables anywhere.  The demuxer collects *runs* of bytes of
those units, so that what it returns can be compared with what was sent.
`HandleFrame` is the body of the arm for elementary streams in `read_packet`, with
its three returns; `streams()` treats frames the same way until the map is known, so one
action stands for both.  `Stray` is the adaptation field of length 0, which the parser
answers with `None`: its length byte then stays in front of the payload, and at a start
frame moves the header under it.

`Transcoder` has one step for a packet: passed on, or `k` packets with times popped from
the timeline, where `k = 0` is a codec that fails or holds back.  `TSMuxer` keeps the
TS packets by stream, with offset, counter and size in bytes; a write
fails before any of them.  `TSPipeline` calls them one after the other,
as one task does; `streams()` lists a `HashMap`, in any order.  `given`, `fate` and
`cut_at` are history variables.

What a muxer writes is not read back by the demuxer of the pipeline: by `ts_packets` the
output is out of step after its first packet.  `TSTables` reads it byte by byte.

### Formats

The readers and writers of bytes share no state, so `Formats` puts them side by side: `format`
says which of them a behaviour is about, and the others stay as they begin.  Each has a
few variables: what was written or sent, the reader, and what the reader has given.
Bytes are abstracted to what they *are* in the format: a cell of an ADTS file is byte `k` of
header `n`, a field of a datagram is the pair of its offsets, a line of a description is its kind.

* **Bits.**  A read is an operator on a reader (slice and position) that returns success,
  value and the reader left behind, because a failed read of the code consumes what it
  consumed.  `ReadsExact` compares every read with a declarative reading of the same bits.
* **H.265.**  A unit is a type and bytes of bits.  The syntax is written once, as the list of
  reads that `parse_vps`, `parse_sps` and `parse_pps` make; the encoder of the environment
  writes by the standard, so that the sub-layers of the SPS, which the parser does not step over
  (`h265/parser.rs:193`), show: `ParameterSetsWhole` asks that an active set is all of one unit
  accepted, never a mixture with one that failed or was cut, and of an SPS with sub-layers only its head.
* **H.264.**  `find_units` over start codes of 3 and 4 bytes in a packet of bytes, and a decoder
  that keeps parameter sets and passes packets with slices on.
* **AAC.**  A 13-bit length counts the header in; the muxer puts a header of its own before
  frames that have one; `streams()` eats the first header, and 7350 Hz falls
  back to 44100.  `FramesInOrder` relates what is read to what was written under all of that.
* **Datagrams.**  Whole, padded, extended and cut datagrams of a sender that follows RFC 3550.
  The check of a sender report is 4 bytes short, and the padding is subtracted without
  a look at the length: the least read that fails decides whether the parser returns, refuses or panics.
  `DatagramsSpec` is `Formats!Spec` on its datagram behaviours.
* **TS fields and clocks.**  The muxer's one byte of adaptation field is short by its length byte, and stuffing
  bytes 1 to 15 are taken for flags; `header_data_length` and `packet_length` stay 0; the PTS flag is
  written to byte 6 of the header and read from byte 7; private data
  that reach the field's last byte end in an error.  Clock conversions are in 64 bits and wrap
  (after 683 seconds for the PCR).
* **TS tables.**  `write_header` and `write_packet` of the library, or another program
  (a network entry first, several programs, descriptors, unknown types, a pointer field),
  write a file; the reader has a place in it, loses it when a read is dropped or a packet has 189 bytes, and
  finds it again at a sync byte.  Out of place any byte may be 0x47, the only thing `parse_header` looks
  at (`parser.rs:40`), so the bytes behind it can be parsed as a PAT or a PMT and the map can become any (`ReadOutOfPlace`,
  and `HandleMedia` when the pid so found is that of media); `misread` records that it has happened.
  The section of the muxer's PMT is one byte short (`muxer.rs:245` counts four of the five bytes in front of its content), so
  the reader of this library never finds the last stream of a file that its own muxer wrote, the only one of most files: that is a defect, and
  `LastStreamLost` states it.  A PAT that names the network first hides its programs
  (`FirstProgramUsed` is refuted); the index of a stream counts the
  entries it left out; streams of an earlier PMT stay (`demuxer.rs:211`).  `StreamReadBack`
  says what is read back until bytes that are no table are parsed as one, and that this never happens while no read is dropped and
  each TS packet has its size.
* **Texts.**  One missing port of a Transport header loses both; attributes below a media
  line that cannot be parsed count as those of the session (`client.rs:253`-`276`);
  `write_trailer` writes a media playlist and then the master playlist into the
  same file, and never an end tag.

## 3. Runs

| Run | Shows | Instance and why it is enough |
|---|---|---|
| `media_stream` | the buffer: bounds, wrap separation, permanence of a full stall, refinement of `OrderedBuffer` (its capacity with it), that what can be popped is; the stream: loss accounting and exact reports, the order of delivery, how far a gap holds it up | 6 numbers, two on each side of the wrap and two in the middle; 8 packets from number 3 on, so that the stream passes the middle, the wrap and number 0 and comes round to its first numbers; 5 of them received, the others lost; one packet may overtake, the one with number 0 may be repeated; a buffer of 2: full, stalled and empty all occur |
| `jitter_stall` | **refutes** "a buffer for handling out-of-order RTP packets" | 12 numbers, packets from the middle of them on; reordering by two, nothing lost, nothing repeated |
| `lost_count` | **refutes** "number of packets lost during transmission" | same |
| `hls_segmenter` | numbering, window, files behind the playlist, panics, permanence of a stuck prune | window of 2, 6 recordings (three turns of the window), 3 faults, one restart |
| `media_sequence` | **refutes** "first sequence number in the playlist" after a failed deletion | window of 1 |
| `rtsp_client` | answers matched with requests, agreement on sessions, own ports, when tasks start, giving up for good, every task gets its packets through | two media types (two tasks on one channel), 3 requests (setup, play and one more, or with credentials), 2 connects, 1 call dropped or answer read in part, channel of 1, 1 receiver |
| `rtsp_teardown` | **refutes** "Stops streaming and tears down the session" | one media type, no call dropped, sockets work |
| `rtsp_receiver` | **refutes** "An mpsc::Receiver for receiving media packets" | same |
| `ts_pipeline` | order of what the demuxer gives, whole units while nothing befalls a stream, a cut that never heals, truncation seen in the counters, times that advance | frames of 4 bytes, units of 3, 5 and 6: one frame or two, each kind of last frame; three units of one stream (cut, spoiled, spoiled) and one of another; one loss, one failing write, a repeated table; counters modulo 4, so that they wrap |
| `ts_packets` | **refutes** "one or more TS packets" | one stream, no faults |
| `formats` | each reader gives back what was written, or refuses it, at every length and cut | see below |
| `first_program` | **refutes** "use first program's PMT" | the instance of `formats` |

`formats` scales the widths so that every boundary is near: bytes of 4 bits and words of 8
(codes of 0, 1, 3, 6, 7 and 8 zeros, on both sides of the limit), ADTS lengths modulo 8 with frames of 1, 2, 5
and 7 bytes, clocks of 40 and 4 ticks whose products wrap at 8192 within 800 time stamps, two
CSRCs and one report block (each loop is passed and repeated), paddings of 0, 4 and more than
the datagram, parameter sets cut after 0, 1 and 4 bytes, payloads of an H.264 unit with the bytes of a
start code out of order and with zeros before its last byte.  TS packets keep their 188 bytes, because what is
wrong with them depends on them: payloads of 100, 351 and 366 bytes leave stuffing of none, one
and many bytes; tables have one, two, 34 and 36 entries, the last two beyond a
packet.  Files have at most 4 packets of the library or 3 of another program, and one read may be dropped, after its first byte: where a
reader is out of place does not matter, for there `ReadOutOfPlace` allows everything.

Every run bounds the packets sent, the files created, the requests or the inputs, so it ends in states where
nothing is left to do; deadlock is not checked.

Liveness and its fairness:

* `media_stream`, `jitter_stall`: the network delivers what is in flight unless it
  loses it (weak fairness of sending and receiving), and the application keeps
  polling `pop` (a task in a loop, which tokio schedules again and again).
* `rtsp_client`, `rtsp_receiver`: packets keep arriving at every port while the
  server plays, tokio runs every receive task again and again, and the application
  drains the receivers it holds.  A task takes its turn in the order of `waiting`, which is the code's own
  (`send` of a tokio channel is fair), not an assumption about the scheduler.  Calls, the server's answers, faults and drops are not fair.

Losing and duplicating packets is never fair.

The seven runs that refute a comment:

* `jitter_stall`: the buffer is full, a late packet with a smaller number arrives,
  `push` lowers `min_seq` and then refuses the packet.  `pop` waits for that number ever after.
* `lost_count`: packet n+1 overtakes n; n is then below the expected number, which is
  taken for a wrap, and almost 2^16 is added to `packets_lost`.
* `rtsp_teardown`: `teardown` clears the map of streams, but `play` has moved the sockets
  into tasks that nothing stops; task and port stay.
* `rtsp_receiver`: streams set up before `get_packet_receiver` keep a sender of the channel
  that it replaces, whose receiver is gone; their tasks end at the first packet.
* `ts_packets`: the length byte of the adaptation field is written but not
  counted, so such a TS packet has 189 bytes.
* `first_program`: the first entry of the PAT is the network, `parse_pat` gives it `program_map_pid` 0, and the PMT of the
  program after it is never read.
* `media_sequence`: `remove_file` fails, `finish_segment` returns before
  `sequence_number += 1`; the next segment has the same number and file, and once
  the first of them leaves the window `media_sequence` is one ahead.

## 4. Proofs

All theorems hold for every value of the constants that satisfies the named
assumptions of the modules (natural numbers, a modulus that is not zero, marks in order, room in a
TS packet for the header and the fields of a sender, fewer streams than pids below the first of a PMT (3840), no pid twice in a PMT, slices of whole bytes, H.264 payloads that hold
no start code and do not end in a zero, words of at least 3 bits and units of H.265 cut by whole bytes,
sets of media that are finite), and one, `TruncationAlwaysSeen`, states one more, below.

`MediaStreamProofs`, the buffer: `JBInv` is the type, the bounds enclosing what is stored, and
the capacity.  It is inductive: `pop` may move `min_seq` past a number only because
that number was the least stored, and wraps to 0 only when nothing is left, for
`max_seq` bounds every number.  From it follow `BoundsEncloseStored`,
`CapacityRespected`, `NoMixAcrossWrap` (a push on the other side of the wrap is seen by the
comparison with the bound that encloses the stored one), `FullStallIsPermanent`, and the
refinement `Ordered`, action by action.

`MediaStreamProofs`, the stream: `StreamInv` is the type with the buffer's invariant.  `LossInv` relates
the counters to the newest index by sums modulo the number space, with the lemmas of
`Remainders`.  Order and gaps are about indices of
the sender, while the buffer compares numbers.  `OrderInv` says, of an orderly stream in
its first turn, that a stored packet older than the last given out has a number not below that of the first packet received,
while `min_seq` is below it: so it cannot be popped before the stream comes round.  `RunInv` says what `min_seq`
means (`Ahead`): in a run it is the number next to the last one given out, or that of a stored packet at least `LowMark`
newer, or a full buffer waits for ever (here the assumption `LowMark <= SeqMod - HighMark` of the buffer is used: a packet
that is nearer cannot be below `min_seq`).  `GapAlwaysHolds` needs both, and
`MisorderedOnlyAsNext` no bound on the stream.  `ReportsAlwaysExact` is about the first turn too: a loss of a whole turn is invisible.  The theorems about the buffer alone are about
`JBSpec`, where any packet may be pushed at any time; the runs check its type in `MSTypeOK` and its capacity in `Ordered`.

`HLSSegmenterProofs`: `HLSInv` adds to the type the accounting of numbers and
`OpenIsNext` (the open file carries the next number, nothing is open while
`finish_segment` runs, without faults nothing is unfinished).  `PositionIsNumber` needs the
accounting; `ListedFilesIntact` needs `PositionIsNumber`, because a new
recording must not fall on a listed file and a deletion must not hit
another listed file.  `StuckPruneIsPermanent` needs only the type.
`WindowInv` bounds the list also while `finish_segment` runs, where it may be one longer; `PanicInv`
bounds the open segment's time by the clock; `PublishedInv` says that what the last playlist lists
has been numbered before, under the name of its file.

`RTSPClientProofs`: `TypeInv`; `StepInv`, by which what is on the way is in
the order asked, with the request of the call in progress last and at most one more for each slip; `AgreeInv`, which adds what the server knows of the
session whose answer is still to come: that is what makes `SessionsAgree` inductive; `PortsInv`, by which no
slot is taken beyond the number of streams.

`TSPipelineProofs`: for every program and every size of frames and units.
`OrderInv` is `Flow`: packets given and bytes collected are in order and all of them were sent before the
source's position; a frame is behind that position.  `PipeInv` is
the type, with what ties the application to the other three (a held packet has a
timeline; nothing is held before output starts).  `TimesInv` follows a time from the timeline through the packets to be
written into the output.  `SeenInv` counts, since the last TS packet of a stream,
the counters taken by writes that failed; it needs that a packet's TS packets tile it
(`PieceFacts`).  `TruncationAlwaysSeen` assumes `MaxFaults < CounterMod`: sixteen failures in a row
bring the counter back to where it was.

`CleanUnitsWhole` and `CutNeverHeals` follow a unit through its frames.  `ShapeInv` and `FateInv` say what the
builder of a stream holds: exactly the bytes sent so far of the unit under way or, once a frame of it was
cut short, at least a frame less than that, until the unit is given out.  They rest
on `PesPrefix < FrameSize - 1`, so that a start frame holds its header, and on the fate of units whose last frame is
read as something else (`Awkward`): those are named by the model, and the properties are about the others.

`CodecProofs`, bits: for any widths of a byte and of a word and any slices.  A number read is a sum of bits by powers of
two, built up from below (`Power2` and the values of prefixes are recursive functions); `Magnitude` has one value for a signed code.
`BitsInv` keeps the reader in its slice and its last read exact, whatever failed before.

`CodecProofs`, H.264: for packets of any number of units.  `Flattened` and `PacketLays` say where each unit lies
in the bytes of a packet; `StartsOnly` that a start code is found only where a unit begins, although a payload may
begin with zeros and the code before a unit may have four bytes; `UnitsFound` that the scan, a recursive function over
those bytes, gives each unit with at most the first zero of the code behind it; `Decoded` that what the decoder takes of them
is what its sender expects, up to the first slice or unknown type.

`CodecProofs`, H.265: for any word, cuts and announced sub-layers.  The bytes that an encoder puts in are the ones that
`remove_emulation_prevention` takes out, also at the end of a cut unit, so the bits received are a beginning of those
written (`PrefixOf`).  A read that succeeds lies wholly in that beginning and takes
the code of its field: fixed, Exp-Golomb and signed codes are read back (`Magnitude` of a code has one value), a word
being wide enough for each.  `Reached` carries the agreement of what has been read with what was written from
read to read along the syntax, past fields that are absent; a read that fails stops all behind it.  Of an SPS with
sub-layers the fields of the head were read before the two part, and later reads add names without
changing those (`With`).  The reader's place behind a *failed* read needs no care: nothing is stored then.

`TSTablesProofs`: fields and stamps are arithmetic (`RoundTrip`, `Digits`), with quotients and remainders of the
clocks.  `TablesInv` says where a reader of a file of tables is: on track, behind a whole number of TS packets with all
of their tables applied, or strayed (`Strayed`), behind the first packet of the muxer that has a byte too many.  Bytes that are no table
are parsed as one only there or after a dropped read, or where media have the pid of the PMT, which `PidsDiffer` excludes: the
muxer numbers its streams from 256 up and the first PMT has pid 4096.

`FormatsProofs`, ADTS: `ADTSInv` says where every frame lies in the file (`Layout`: a length counts its header in, and a header
is met only where a frame begins), that what was given lies before the reader's place, and that it is
all of it, unless `streams()` read on into a file of another program.

`FormatsProofs`, datagrams: for any numbers of CSRCs and report blocks, any padding and any cut, what the two parsers
read lies where the sender put it.  The steps are the reads in the parsers' order; a
datagram is refused or panics at the least read that fails (`RTPArrived`, `RTCPArrived`).

`FormatsProofs`, texts: `TextReadBack` speaks of one step, so it is shown for whatever header, description or
playlist is taken.  A Transport header is read by the last place of each name; formatting
lists the names in a fixed order, and the parameters of a concatenation are found in its parts.  For descriptions
the loop over the lines is followed from the first line on: its media are those of the readable media lines
in order, each with the attributes up to the next readable one.  A playlist is
lines that pair up: tiles of two for the segments, the header before them, so what a client pairs is what was written; the announced
target duration is the ceiling of seconds that rounding to milliseconds does not exceed.

`Formats` composes the formats by interleaving, so each theorem about it is the invariant of one format, and a step of
another format is a stutter.

What a recursive function computes is proved here by a least counterexample (`Least` in `Remainders`: a set of natural
numbers that is not empty has a least one), which needs no induction theorem with an operator as its parameter.

Only model-checked: liveness (`PoppableIsPopped`, `EveryTaskGetsThrough`; fairness is out of the
prover's reach, and so is ENABLED).  Every safety invariant and action property that a passing run checks, but `LastStreamLost`, is
stated by a theorem; what TLC adds to it is a check of the model (that its steps do happen, and that a
mutated step is found).

## 5. Plan

1. The segmenter composed with the muxer that writes its segments.
2. Two hazards have no property: the repeated request after a challenge (`client.rs:666`), whose
   effect is a refusal by the server, which the model includes anyway; and the order of streams
   (`demuxer.rs:336`), which `TSPipeline` takes in every order, for the code meets no property of it.

## 6. Not modelled

* `rtsp/sdp.rs` and `rtcp/tests.rs`, which no build includes; `utils/crc.rs`: no reader checks a CRC.
* The muxer's PCR: `update_pcr`, `mark_discontinuity`, `reset_pcr`.  `last_pcr` is never set, so
  `update_pcr` never marks a discontinuity, and nothing reads the mark.  `current_pcr` is only the time
  that `write_trailer` gives to `finish_segment`, which `HLSSegmenter` takes to be any time.
* `get_ntp_timestamp` (a clock), `is_keyframe` (a test of a type), `H264Encoder` (gives back what it gets), the
  floating-point jitter and the byte counts of the statistics.
* Configuration, error types, traits, logging, the examples.
* Digests, TCP interleaving, writes that fail half way, ports used by other programs.

See `components` in `PROJECT.json`, and its `hazards` for what no property covers and why.
