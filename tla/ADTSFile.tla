------------------------------ MODULE ADTSFile -------------------------------
(***************************************************************************)
(* An ADTS file of format/aac: packets that AACMuxer writes, or frames     *)
(* that another program wrote, and AACDemuxer reading them.  A file is a   *)
(* sequence of cells, one for a byte: the header it belongs to and its     *)
(* place there, or the raw frame.  Bytes that are no header's first do not *)
(* look like a sync word.                                                  *)
(***************************************************************************)
EXTENDS Integers, Sequences, SequencesExt

CONSTANTS
  ADTSHeader,  \* 7 in the code
  LengthMod,   \* frame_length has 13 bits, 2^13 in the code
  RawSizes,    \* sizes of raw frames
  MaxFrames    \* bound of the model: frames of a file

ASSUME ADTSAssumption ==
  /\ ADTSHeader \in Nat \ {0} /\ LengthMod \in Nat \ {0} /\ MaxFrames \in Nat
  /\ RawSizes \subseteq Nat \ {0}

VARIABLES
  file,      \* the cells written
  frames,    \* history: what was written, frame by frame
  writer,    \* "open", "muxer", "foreign"; "short_packet" or "bad_length" by a panic
  rate,      \* sample rate index of the file
  place,     \* cells the demuxer has read
  probed,    \* streams() has been called
  given,     \* packets returned
  pts,       \* current_pts
  config     \* of the AACParser that gets the same packets, and its last frame

adtsvars == <<file, frames, writer, rate, place, probed, given, pts, config>>

NoConfig == [known |-> FALSE, frame |-> <<>>]

\* Index 4 stands for those both tables know, index 12 is 7350 Hz.
Rates == {4, 12}

ADTSInit ==
  /\ file = <<>> /\ frames = <<>> /\ writer = "open" /\ rate \in Rates
  /\ place = 0 /\ probed = FALSE /\ given = <<>> /\ pts = 0 /\ config = NoConfig

\* The cells of header h of a frame of that length; the length field wraps.
HeaderCells(h, length) ==
  [i \in 1 .. ADTSHeader |-> [head |-> h, at |-> i, length |-> length % LengthMod]]

RawCells(h, n) == [i \in 1 .. n |-> [head |-> 0, at |-> i, length |-> h]]

\* Seven bytes are a header when they are one, from its first byte on.
parse_adts_header(cells) ==
  [ok |-> Len(cells) = ADTSHeader /\ cells[1].head > 0 /\ cells[1].at = 1,
   length |-> IF cells = <<>> THEN 0 ELSE cells[1].length]

Packet(h, n) == HeaderCells(h, ADTSHeader + n) \o RawCells(h, n)

------------------------------------------------------------------------------
\* A file is read when it is complete.
MayWrite(how) ==
  writer \in {"open", how} /\ Len(frames) < MaxFrames /\ place = 0 /\ ~probed

\* The length of the second header counts the packet alone.
WriteADTSPacketShort(n) ==
  LET h == 2 * Len(frames) + 1
      packet == Packet(h + 1, n)
  IN  /\ MayWrite("muxer")
      /\ file' = file \o HeaderCells(h, Len(packet)) \o packet
      /\ frames' = Append(frames, packet)
      /\ writer' = "muxer"
      /\ UNCHANGED <<rate, place, probed, given, pts, config>>

\* write_packet of a packet with its header: a second one goes before it,
\* which counts both.
WriteADTSPacket(n) ==
  LET h == 2 * Len(frames) + 1
      packet == Packet(h + 1, n)
      header == HeaderCells(h, Len(packet) + ADTSHeader)
  IN  /\ MayWrite("muxer")
      /\ file' = file \o header \o packet
      /\ frames' = Append(frames, packet)
      /\ writer' = "muxer"
      /\ UNCHANGED <<rate, place, probed, given, pts, config>>

\* A raw packet is refused, and one shorter than a header panics.
WriteRawPacket(n) ==
  /\ MayWrite("muxer")
  /\ writer' = IF n < ADTSHeader THEN "short_packet" ELSE "muxer"
  /\ UNCHANGED <<file, frames, rate, place, probed, given, pts, config>>

\* Environment: a frame of a file that conforms.
ForeignFrame(n) ==
  /\ MayWrite("foreign") /\ ADTSHeader + n < LengthMod
  /\ file' = file \o Packet(2 * Len(frames) + 1, n)
  /\ frames' = Append(frames, RawCells(2 * Len(frames) + 1, n))
  /\ writer' = "foreign"
  /\ UNCHANGED <<rate, place, probed, given, pts, config>>

------------------------------------------------------------------------------
Left == Len(file) - place

Reading == writer \in {"muxer", "foreign"}

\* The n cells of s from i on, or those that there are.
Slice(s, i, n) == SubSeq(s, i, IF i + n - 1 <= Len(s) THEN i + n - 1 ELSE Len(s))

\* read_exact of a header: what is left, when it is too little, is gone too.
AfterHeader == IF Left < ADTSHeader THEN Len(file) ELSE place + ADTSHeader

Streams ==
  /\ Reading /\ ~probed /\ place = 0
  /\ probed' = TRUE
  /\ place' = AfterHeader
  /\ UNCHANGED <<file, frames, writer, rate, given, pts, config>>

\* Nanoseconds of a frame in units of one at index 4; the table of read_packet
\* ends at index 11 and takes any other for 44100 Hz.
TrueDuration(index) == IF index = 12 THEN 6 ELSE 1

Duration(index) == TrueDuration(IF index \in 0 .. 11 THEN index ELSE 4)

ReadPacket ==
  LET header == parse_adts_header(Slice(file, place + 1, ADTSHeader))
      body == header.length - ADTSHeader
      start == place + ADTSHeader
  IN  /\ Reading /\ Left > 0
      /\ IF header.ok /\ body >= 0 /\ start + body <= Len(file)
         THEN /\ given' = Append(given, SubSeq(file, start + 1, start + body))
              /\ pts' = pts + Duration(rate)
              /\ place' = start + body
         ELSE /\ place' = IF header.ok /\ body >= 0 THEN Len(file) ELSE AfterHeader
              /\ UNCHANGED <<given, pts>>
      /\ UNCHANGED <<file, frames, writer, rate, probed, config>>

\* AACParser::parse_frame of the last packet given: a header sets the
\* configuration and is cut off, anything else needs one set before.
ParseFrame ==
  LET data == given[Len(given)]
      header == parse_adts_header(Slice(data, 1, ADTSHeader))
      end == IF header.length <= Len(data) THEN header.length ELSE Len(data)
  IN  /\ Reading /\ given # <<>>
      /\ IF header.ok /\ end < ADTSHeader
         THEN writer' = "bad_length" /\ UNCHANGED config
         ELSE /\ config' =
                   IF header.ok
                   THEN [known |-> TRUE, frame |-> SubSeq(data, ADTSHeader + 1, end)]
                   ELSE IF config.known THEN [config EXCEPT !.frame = data] ELSE config
              /\ UNCHANGED writer
      /\ UNCHANGED <<file, frames, rate, place, probed, given, pts>>

ADTSNext ==
  \/ \E n \in RawSizes : WriteADTSPacket(n) \/ WriteRawPacket(n) \/ ForeignFrame(n)
  \/ Streams \/ ReadPacket \/ ParseFrame

------------------------------------------------------------------------------
\* A packet or frame without the header that it may begin with.
Raw(j) ==
  IF frames[j][1].head = 0 THEN frames[j] ELSE SubSeq(frames[j], ADTSHeader + 1, Len(frames[j]))

\* A length that does not fit its field.
Overlong == \E j \in DOMAIN frames : Len(frames[j]) + ADTSHeader >= LengthMod

\* Packet g is frame j; streams() has eaten the outer header of the first.
Is(g, j) == g = frames[j] \/ (j = 1 /\ probed /\ writer = "muxer" /\ g = Raw(1))

FrameOf(g) == CHOOSE j \in DOMAIN frames : Is(g, j)

\* What is read from a file was written as one packet or frame: whole, in order
\* and once, all of them when AACMuxer wrote the file, only the first without
\* its header if streams() was called; the time counts the frames given, except
\* at 7350 Hz; and a frame parsed is the raw part of one written.  Lengths
\* beyond the 13 bits of the field are left out: with them the reader loses its
\* place, and a slice may panic.
FramesInOrder ==
  ~Overlong =>
    /\ \A i \in DOMAIN given : \E j \in DOMAIN frames : Is(given[i], j)
    /\ \A i, k \in DOMAIN given : i < k => FrameOf(given[i]) < FrameOf(given[k])
    /\ (writer = "muxer" \/ ~probed) /\ Left = 0 => Len(given) = Len(frames)
    /\ rate # 12 => pts = Len(given) * TrueDuration(rate)
    /\ config.known => \E j \in DOMAIN frames : config.frame = Raw(j)
    /\ writer # "bad_length"
==============================================================================
