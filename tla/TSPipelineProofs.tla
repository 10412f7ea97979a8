-------------------------- MODULE TSPipelineProofs ---------------------------
(***************************************************************************)
(* Theorems of TSPipeline for every program, every size of frames, units   *)
(* and TS packets, and every bound.                                        *)
(***************************************************************************)
EXTENDS TSPipeline, Remainders, SequenceTheorems

------------------------------------------------------------------------------
(* The cutting of packets. *)

Room == PacketSize - HeaderSize

LEMMA RoomType == Room \in Nat /\ Room >= 2 /\ Room - 1 \in Nat \ {0}
BY MuxerAssumption DEF Room

\* A product of natural numbers, one of them not zero.
LEMMA ProductGrows ==
  ASSUME NEW x \in Int, NEW y \in Int, NEW d \in Nat, x <= y
  PROVE  x * d \in Int /\ y * d \in Int /\ x * d <= y * d
<1>1. PICK z \in Nat : z = y - x
  OBVIOUS
<1>2. z * d >= 0 /\ z * d \in Int
  OBVIOUS
<1>3. y * d = x * d + z * d
  <2>1. y = x + z
    BY <1>1
  <2>. QED
    BY <2>1
<1>. QED
  BY <1>2, <1>3

\* Each TS packet but the first begins where the one before is full.
LEMMA OffsetStep ==
  ASSUME NEW k \in Nat \ {0}
  PROVE  /\ OffsetOf(k) \in Nat /\ (OffsetOf(k) = 0 <=> k = 1)
         /\ max_payload_size(OffsetOf(k)) = (IF k = 1 THEN Room - 1 ELSE Room)
         /\ OffsetOf(k + 1) = OffsetOf(k) + max_payload_size(OffsetOf(k))
<1>1. max_payload_size(0) = Room - 1
      /\ \A offset : offset # 0 => max_payload_size(offset) = Room
  BY RoomType, MuxerAssumption DEF max_payload_size, adaptation_field_size, Room
<1>2. CASE k = 1
  <2>1. OffsetOf(k) = 0 /\ OffsetOf(k + 1) = (Room - 1) + 0 * Room
    BY <1>1, <1>2, RoomType DEF OffsetOf
  <2>. QED
    BY <1>1, <1>2, <2>1, RoomType
<1>3. CASE k > 1
  <2>1. PICK j \in Nat : j = k - 2
    BY <1>3
  <2>2. max_payload_size(1) = Room
    BY <1>1
  <2>3. OffsetOf(k) = (Room - 1) + j * Room /\ OffsetOf(k + 1) = (Room - 1) + (j + 1) * Room
    <3>1. k - 2 = j /\ (k + 1) - 2 = j + 1 /\ k # 1 /\ k + 1 # 1
      BY <1>3, <2>1
    <3>. QED
      BY <1>1, <2>2, <3>1 DEF OffsetOf
  <2>4. j * Room \in Nat /\ (j + 1) * Room = j * Room + Room
    BY RoomType
  <2>5. OffsetOf(k) \in Nat /\ OffsetOf(k) # 0 /\ OffsetOf(k + 1) = OffsetOf(k) + Room
    BY <2>3, <2>4, RoomType
  <2>. QED
    BY <1>1, <1>3, <2>5
<1>. QED
  BY <1>2, <1>3

LEMMA OffsetsGrow ==
  ASSUME NEW k \in Nat \ {0}, NEW n \in Nat \ {0}, k <= n
  PROVE  OffsetOf(k) <= OffsetOf(n)
<1>1. OffsetOf(k) \in Nat /\ OffsetOf(n) \in Nat
  BY OffsetStep
<1>2. CASE k = 1
  BY <1>1, <1>2, OffsetStep
<1>3. CASE k # 1
  <2>1. PICK i \in Int, j \in Int : i = k - 2 /\ j = n - 2 /\ i <= j
    OBVIOUS
  <2>2. i * Room <= j * Room /\ i * Room \in Int /\ j * Room \in Int
    BY <2>1, ProductGrows, RoomType
  <2>3. max_payload_size(0) \in Int /\ max_payload_size(1) = Room
    BY RoomType, MuxerAssumption DEF max_payload_size, adaptation_field_size, Room
  <2>4. OffsetOf(k) = max_payload_size(0) + i * Room /\ OffsetOf(n) = max_payload_size(0) + j * Room
    BY <1>3, <2>1, <2>3 DEF OffsetOf
  <2>. QED
    BY <2>2, <2>3, <2>4
<1>. QED
  BY <1>2, <1>3

\* A packet of some bytes has a last TS packet.
LEMMA LastPiece ==
  ASSUME NEW len \in Nat \ {0}
  PROVE  \E k \in 1 .. len : OffsetOf(k) < len /\ len <= OffsetOf(k + 1)
<1>1. OffsetOf(1) = 0 /\ OffsetOf(2) = Room - 1
  BY OffsetStep, RoomType
<1>2. CASE len <= Room - 1
  BY <1>1, <1>2
<1>3. CASE len > Room - 1
  <2>1. PICK a \in Nat : a = len - Room
    BY <1>3, RoomType
  <2>2. PICK q \in Int : a = Room * q + (a % Room)
    <3>1. Room \in Nat \ {0} /\ a \in Int
      BY RoomType
    <3>. QED
      BY <3>1, ModDef, Zenon
  <2>3. PICK r \in 0 .. Room - 1 : r = a % Room
    BY ModDef, RoomType
  <2>4. PICK x \in Int : x = Room * q
    BY RoomType
  <2>5. a = x + r
    BY <2>2, <2>3, <2>4
  <2>6. q >= 0
    <3> SUFFICES ASSUME q <= -1 PROVE FALSE
      OBVIOUS
    <3>1. x <= -Room
      BY <2>4, RoomType
    <3>. QED
      BY <2>1, <2>3, <2>5, <3>1, RoomType
  <2>7. q + q <= x
    BY <2>4, <2>6, RoomType
  <2>8. PICK k \in Nat : k = q + 2
    BY <2>6
  <2>9. OffsetOf(k) = (Room - 1) + x
    <3>1. max_payload_size(0) = Room - 1 /\ max_payload_size(1) = Room
      BY MuxerAssumption DEF max_payload_size, adaptation_field_size, Room
    <3>2. OffsetOf(k) = (Room - 1) + q * Room
      BY <2>6, <2>8, <3>1 DEF OffsetOf
    <3>. QED
      BY <2>4, <3>2, RoomType
  <2>10. OffsetOf(k + 1) = OffsetOf(k) + Room
    BY <2>6, <2>8, OffsetStep
  <2>11. k \in 1 .. len
    BY <2>1, <2>3, <2>5, <2>6, <2>7, <2>8, RoomType
  <2>12. OffsetOf(k) < len /\ len <= OffsetOf(k + 1)
    BY <2>1, <2>3, <2>5, <2>9, <2>10, RoomType
  <2>. QED
    BY <2>11, <2>12
<1>. QED
  BY <1>2, <1>3, RoomType

LEMMA PieceFacts ==
  ASSUME NEW len \in Nat
  PROVE  /\ PieceCount(len) \in Nat
         /\ \A k \in 1 .. PieceCount(len) :
              /\ OffsetOf(k) \in Nat /\ (OffsetOf(k) = 0 <=> k = 1)
              /\ payload_size(len, OffsetOf(k)) \in Nat
              /\ k = PieceCount(len) => OffsetOf(k) + payload_size(len, OffsetOf(k)) = len
              /\ k < PieceCount(len) =>
                   OffsetOf(k) + payload_size(len, OffsetOf(k)) = OffsetOf(k + 1)
<1>1. CASE len = 0
  BY <1>1 DEF PieceCount
<1>2. CASE len # 0
  <2>1. PICK n \in 1 .. len : n = PieceCount(len) /\ OffsetOf(n) < len /\ len <= OffsetOf(n + 1)
    <3>1. \E k \in 1 .. len : OffsetOf(k) < len /\ len <= OffsetOf(k + 1)
      BY <1>2, LastPiece
    <3>. QED
      BY <1>2, <3>1 DEF PieceCount
  <2>2. ASSUME NEW k \in 1 .. n
        PROVE  /\ OffsetOf(k) \in Nat /\ (OffsetOf(k) = 0 <=> k = 1)
               /\ payload_size(len, OffsetOf(k)) \in Nat
               /\ k = n => OffsetOf(k) + payload_size(len, OffsetOf(k)) = len
               /\ k < n => OffsetOf(k) + payload_size(len, OffsetOf(k)) = OffsetOf(k + 1)
    <3>1. /\ OffsetOf(k) \in Nat /\ (OffsetOf(k) = 0 <=> k = 1)
          /\ max_payload_size(OffsetOf(k)) \in Nat
          /\ OffsetOf(k + 1) = OffsetOf(k) + max_payload_size(OffsetOf(k))
      BY OffsetStep, RoomType
    <3>2. OffsetOf(n) \in Nat /\ OffsetOf(k) <= OffsetOf(n)
      BY OffsetStep, OffsetsGrow
    <3>3. k < n => OffsetOf(k + 1) <= OffsetOf(n)
      BY OffsetsGrow
    <3>. QED
      BY <2>1, <3>1, <3>2, <3>3 DEF payload_size
  <2>. QED
    BY <2>1, <2>2
<1>. QED
  BY <1>1, <1>2

------------------------------------------------------------------------------
(* Types. *)

Runs == [unit : Nat, from : Nat, bytes : Nat, stray : BOOLEAN]
Packets == [pts : Nat, len : Nat, data : Seq(Runs)]
Builders == [pts : Nat, size : Int, len : Nat, data : Seq(Runs)]
MediaPackets == [stream_index : Pids, pts : Int, source : Pids \X Nat, len : Nat]
Counters == 0 .. CounterMod - 1
Pieces == [start : BOOLEAN, counter : Counters, source : Pids \X Nat, pts : Int,
           len : Nat, offset : Nat, bytes : Nat, size : Int]

\* The first frame of a unit carries some of it.
SourceT ==
  /\ units \in [Pids -> Seq(Nat)] /\ sent \in [Pids -> Nat]
  /\ \A p \in Pids : units[p] # <<>> => sent[p] > 0

DemuxT ==
  /\ pmt_pid \in BOOLEAN
  /\ DOMAIN streams \in {{}, Pids} /\ streams \in [DOMAIN streams -> Builders]
  /\ given \in [Pids -> Seq(Packets)]

MuxT ==
  /\ registered \in Seq(STRING) /\ continuity_counters \in Seq(Counters)
  /\ output \in Seq(Seq(Pieces))
  /\ Len(continuity_counters) = Len(registered) /\ Len(output) = Len(registered)

TransT == timelines \in [DOMAIN codecs -> Int]

\* Before the copying begins nothing is on its way to the muxer.
AppT ==
  /\ held \in Seq(MediaPackets) /\ todo \in Seq(MediaPackets)
  /\ Len(held) <= 1 /\ Len(todo) <= MaxEncoded + 1
  /\ phase \in {"probing", "listed", "copying"}
  /\ phase = "probing" => DOMAIN streams = {}
  /\ phase # "probing" => listing \in Orders /\ DOMAIN streams = Pids
  /\ phase = "copying" => DOMAIN codecs = Pids /\ Pids \subseteq DOMAIN output
  /\ phase # "copying" => held = <<>> /\ todo = <<>> /\ DOMAIN codecs = {}
  /\ faults \in 0 .. MaxFaults
  /\ fate \in [Pids -> {"clean", "cut", "other"}]

PipeInv == SourceT /\ DemuxT /\ MuxT /\ TransT /\ AppT

LEMMA PidsType == Len(Program) \in Nat /\ Pids \subseteq Int /\ Pids = 1 .. Len(Program)
BY SourceAssumption DEF Pids

------------------------------------------------------------------------------
(* What a frame does to the source and to the demuxer. *)

LEMMA FrameFields ==
  ASSUME NEW p \in Pids, NEW u \in Nat, NEW n \in Nat, NEW k \in Nat, k < n
  PROVE  /\ Frame(p, u, n, k).pid = p /\ Frame(p, u, n, k).unit = u
         /\ Frame(p, u, n, k).size = n /\ Frame(p, u, n, k).from = k
         /\ Frame(p, u, n, k).start = (k = 0)
         /\ Frame(p, u, n, k).bytes \in Nat \ {0} /\ Frame(p, u, n, k).length \in Int
<1>1. FrameSize \in Nat /\ FrameSize > 0 /\ PesPrefix \in Nat
  BY SourceAssumption
<1>2. PICK b \in Nat \ {0} : b = IF n - k < FrameSize THEN n - k ELSE FrameSize
  BY <1>1
<1>3. PICK l : l = IF p \in Unbounded THEN 0 ELSE n - PesPrefix
  OBVIOUS
<1>4. l \in Int
  <2>1. n - PesPrefix \in Int
    BY <1>1
  <2>. QED
    BY <1>3, <2>1
<1>. QED
  BY <1>2, <1>3, <1>4 DEF Frame

LEMMA FrameFacts ==
  ASSUME SourceT, NEW p \in Pids, NEW f \in NextFrames(p)
  PROVE  /\ f.pid = p /\ f.unit \in Nat /\ f.size \in Nat /\ f.start \in BOOLEAN
         /\ f.from \in Nat /\ f.bytes \in Nat \ {0} /\ f.length \in Int
         /\ f.start => f.unit = Len(units[p]) + 1 /\ f.from = 0
         /\ ~f.start => f.unit = Len(units[p]) /\ f.from = sent[p]
<1>1. FrameSize \in Nat /\ FrameSize > 0 /\ PesPrefix \in Nat
  BY SourceAssumption
<1>2. units[p] \in Seq(Nat) /\ sent[p] \in Nat /\ Len(units[p]) \in Nat
  BY DEF SourceT
<1>3. CASE MidUnit(p)
  <2>1. f = Frame(p, Len(units[p]), Current(p), sent[p])
    BY <1>3 DEF NextFrames
  <2>2. Current(p) \in Nat /\ sent[p] < Current(p) /\ sent[p] # 0
    BY <1>2, <1>3 DEF MidUnit, Current, SourceT
  <2>3. PICK u \in Nat, n \in Nat, k \in Nat :
          f = Frame(p, u, n, k) /\ k < n /\ k # 0 /\ u = Len(units[p]) /\ k = sent[p]
    BY <1>2, <2>1, <2>2
  <2>4. /\ f.pid = p /\ f.unit = u /\ f.size = n /\ f.from = k /\ f.start = (k = 0)
        /\ f.bytes \in Nat \ {0} /\ f.length \in Int
    BY <2>3, FrameFields
  <2>5. f.start = FALSE
    BY <2>3, <2>4
  <2>. QED
    BY <2>3, <2>4, <2>5
<1>4. CASE ~MidUnit(p)
  <2>1. PICK n \in UnitSizes[p] : f = Frame(p, Len(units[p]) + 1, n, 0)
    BY <1>4 DEF NextFrames
  <2>2. n \in Nat /\ 0 < n /\ Len(units[p]) + 1 \in Nat
    BY <1>1, <1>2, SourceAssumption
  <2>3. PICK u \in Nat, m \in Nat, k \in Nat :
          f = Frame(p, u, m, k) /\ k < m /\ k = 0 /\ u = Len(units[p]) + 1
    BY <1>2, <2>1, <2>2
  <2>4. /\ f.pid = p /\ f.unit = u /\ f.size = m /\ f.from = k /\ f.start = (k = 0)
        /\ f.bytes \in Nat \ {0} /\ f.length \in Int
    BY <2>3, FrameFields
  <2>5. f.start = TRUE
    BY <2>3, <2>4
  <2>. QED
    BY <2>3, <2>4, <2>5
<1>. QED
  BY <1>3, <1>4

LEMMA SourceStep ==
  ASSUME SourceT, NEW p \in Pids, NEW f \in NextFrames(p), Sends(f)
  PROVE  /\ SourceT'
         /\ Len(units'[p]) = f.unit /\ sent'[p] = f.from + f.bytes
         /\ \A q \in Pids : q # p => units'[q] = units[q] /\ sent'[q] = sent[q]
<1>1. /\ f.pid = p /\ f.unit \in Nat /\ f.size \in Nat /\ f.start \in BOOLEAN
      /\ f.from \in Nat /\ f.bytes \in Nat \ {0}
      /\ f.start => f.unit = Len(units[p]) + 1 /\ f.from = 0
      /\ ~f.start => f.unit = Len(units[p]) /\ f.from = sent[p]
  BY FrameFacts
<1>2. /\ units' = [units EXCEPT ![p] = IF f.start THEN Append(units[p], f.size) ELSE units[p]]
      /\ sent' = [sent EXCEPT ![p] = f.from + f.bytes]
  BY <1>1 DEF Sends
<1>3. units[p] \in Seq(Nat) /\ f.from + f.bytes \in Nat /\ f.from + f.bytes > 0
  BY <1>1 DEF SourceT
<1>4. PICK u \in Seq(Nat) : /\ u = IF f.start THEN Append(units[p], f.size) ELSE units[p]
                            /\ Len(u) = f.unit
  <2>1. Append(units[p], f.size) \in Seq(Nat) /\ Len(Append(units[p], f.size)) = Len(units[p]) + 1
    BY <1>1, <1>3, AppendProperties
  <2>. QED
    BY <1>1, <1>3, <2>1
<1>. QED
  BY <1>2, <1>3, <1>4 DEF SourceT

\* A frame of a stream that the demuxer follows: it makes a packet of what is
\* collected and is dropped, it completes a packet, it is collected, or it is
\* ignored.
DropsStart(b, pk, pes, f) == f.start /\ b.data = <<>> /\ pk.data = pes.data
Completes(b, pk, pes, f) == b.data = <<>> /\ pk.data = Append(pes.data, Run(f))
Collects(b, pes, f) == b.data = Append(pes.data, Run(f))
Ignores(b, pes, f) == b.data = pes.data

LEMMA FrameEffect ==
  ASSUME SourceT, DemuxT, NEW p \in Pids, NEW f \in NextFrames(p), ReadFrame(f),
         p \in DOMAIN streams
  PROVE  \E b \in Builders :
           /\ streams' = [streams EXCEPT ![p] = b]
           /\ \/ /\ given' = given
                 /\ Collects(b, streams[p], f) \/ Ignores(b, streams[p], f)
              \/ \E pk \in Packets :
                   /\ given' = [given EXCEPT ![p] = Append(given[p], pk)]
                   /\ DropsStart(b, pk, streams[p], f) \/ Completes(b, pk, streams[p], f)
<1>1. /\ f.pid = p /\ f.unit \in Nat /\ f.start \in BOOLEAN /\ f.size \in Nat
      /\ f.from \in Nat /\ f.bytes \in Nat /\ f.length \in Int
  BY FrameFacts
<1>2. FrameSize \in Nat /\ PesPrefix \in Nat
  BY SourceAssumption
<1>3. PICK pes \in Builders : pes = streams[p]
  BY DEF DemuxT
<1>4. given[p] \in Seq(Packets) /\ given \in [Pids -> Seq(Packets)]
  BY DEF DemuxT
<1>5. Run(f) \in Runs /\ RunLength(f) \in Nat /\ LengthRead(f) \in Int
  BY <1>1, <1>2 DEF Run, Runs, RunLength, LengthRead, Stray
<1>6. PICK run \in Runs, n \in Nat : run = Run(f) /\ n = RunLength(f)
  BY <1>5
<1>7. ASSUME NEW x \in Builders
      PROVE  /\ Pushed(x, f) \in Builders /\ Pushed(x, f).data = Append(x.data, run)
             /\ Pushed(x, f).size = x.size
             /\ Emptied(x) \in Builders /\ Emptied(x).data = <<>>
             /\ Packet(x) \in Packets /\ Packet(x).data = x.data
  <2>1. x.data \in Seq(Runs) /\ x.len \in Nat /\ x.pts \in Nat /\ x.size \in Int
    BY DEF Builders
  <2>2. Append(x.data, run) \in Seq(Runs) /\ <<>> \in Seq(Runs)
    BY <2>1, AppendProperties
  <2>3. Pushed(x, f) = [x EXCEPT !.len = x.len + n, !.data = Append(x.data, run)]
    BY <1>6 DEF Pushed
  <2>4. PICK d \in Seq(Runs) : d = Append(x.data, run)
    BY <2>2
  <2>8. PICK l \in Nat : l = x.len + n
    BY <2>1
  <2>5. [x EXCEPT !.len = l, !.data = d] \in Builders /\ [x EXCEPT !.len = l, !.data = d].data = d
        /\ [x EXCEPT !.len = l, !.data = d].size = x.size
    BY DEF Builders
  <2>6. Emptied(x) \in Builders /\ Emptied(x).data = <<>>
    BY <2>2 DEF Emptied, Builders
  <2>7. Packet(x) \in Packets /\ Packet(x).data = x.data
    BY <2>1 DEF Packet, Packets
  <2>. QED
    BY <2>3, <2>4, <2>5, <2>6, <2>7, <2>8
<1>8. StartedAnew(pes, f) \in Builders /\ StartedAnew(pes, f).data = <<>>
  BY <1>1, <1>5 DEF StartedAnew, Builders
<1>9. /\ streams' = [streams EXCEPT ![p] = HandleFrame(f)[1]]
      /\ given' = [given EXCEPT ![p] = given[p] \o HandleFrame(f)[2]]
  BY <1>1 DEF ReadFrame
<1>10. CASE GivesOnStart(pes, f)
  <2>1. HandleFrame(f) = <<Emptied(pes), <<Packet(pes)>>>>
    BY <1>1, <1>3, <1>10 DEF HandleFrame
  <2>2. given[p] \o <<Packet(pes)>> = Append(given[p], Packet(pes))
    BY <1>4, <1>7, AppendIsConcat
  <2>3. f.start /\ Emptied(pes).data = <<>> /\ Packet(pes).data = pes.data
    BY <1>7, <1>10 DEF GivesOnStart
  <2>4. PICK b \in Builders, pk \in Packets : b = Emptied(pes) /\ pk = Packet(pes)
    BY <1>7
  <2>5. streams' = [streams EXCEPT ![p] = b] /\ given' = [given EXCEPT ![p] = Append(given[p], pk)]
    <3>1. HandleFrame(f)[1] = b /\ HandleFrame(f)[2] = <<pk>>
      BY <2>1, <2>4
    <3>2. given[p] \o <<pk>> = Append(given[p], pk)
      BY <2>2, <2>4
    <3>. QED
      BY <1>9, <3>1, <3>2, Zenon
  <2>6. DropsStart(b, pk, streams[p], f)
    BY <1>3, <2>3, <2>4 DEF DropsStart
  <2>. QED
    BY <2>5, <2>6, Zenon
<1>11. CASE ~GivesOnStart(pes, f)
  <2>1. PICK b : b = Collected(pes, f)
    OBVIOUS
  <2>2. /\ b \in Builders
        /\ b.data = Append(pes.data, run) \/ (b = pes /\ ~is_complete(b))
    <3>1. CASE f.start
      <4>1. pes.data = <<>>
        BY <1>11, <3>1 DEF GivesOnStart
      <4>. QED
        BY <1>7, <1>8, <2>1, <3>1, <4>1 DEF Collected
    <3>2. CASE ~f.start /\ pes.size >= 0
      BY <1>7, <2>1, <3>2 DEF Collected
    <3>3. CASE ~f.start /\ ~(pes.size >= 0)
      BY <2>1, <3>3 DEF Collected, is_complete
    <3>. QED
      BY <1>1, <3>1, <3>2, <3>3
  <2>3. CASE is_complete(b)
    <3>1. HandleFrame(f) = <<Emptied(b), <<Packet(b)>>>>
      BY <1>1, <1>3, <1>11, <2>1, <2>3 DEF HandleFrame
    <3>2. given[p] \o <<Packet(b)>> = Append(given[p], Packet(b))
      BY <1>4, <1>7, <2>2, AppendIsConcat
    <3>3. Emptied(b).data = <<>> /\ Packet(b).data = Append(pes.data, Run(f))
      BY <1>6, <1>7, <2>2, <2>3
    <3>4. PICK e \in Builders, pk \in Packets : e = Emptied(b) /\ pk = Packet(b)
      BY <1>7, <2>2
    <3>5. streams' = [streams EXCEPT ![p] = e] /\ given' = [given EXCEPT ![p] = Append(given[p], pk)]
      <4>1. HandleFrame(f)[1] = e /\ HandleFrame(f)[2] = <<pk>>
        BY <3>1, <3>4
      <4>2. given[p] \o <<pk>> = Append(given[p], pk)
        BY <3>2, <3>4
      <4>. QED
        BY <1>9, <4>1, <4>2, Zenon
    <3>6. Completes(e, pk, streams[p], f)
      BY <1>3, <3>3, <3>4 DEF Completes
    <3>. QED
      BY <3>5, <3>6, Zenon
  <2>4. CASE ~is_complete(b)
    <3>1. HandleFrame(f) = <<b, <<>>>>
      BY <1>1, <1>3, <1>11, <2>1, <2>4 DEF HandleFrame
    <3>2. given' = given
      BY <1>4, <1>9, <3>1, ConcatEmptySeq
    <3>3. b \in Builders /\ streams' = [streams EXCEPT ![p] = b]
      BY <1>9, <2>2, <3>1
    <3>4. Collects(b, streams[p], f) \/ Ignores(b, streams[p], f)
      BY <1>3, <1>6, <2>2 DEF Collects, Ignores
    <3>. QED
      BY <3>2, <3>3, <3>4, Zenon
  <2>. QED
    BY <2>3, <2>4
<1>. QED
  BY <1>10, <1>11

\* A frame of a stream the demuxer does not follow.
LEMMA FrameIgnored ==
  ASSUME SourceT, NEW p \in Pids, NEW f \in NextFrames(p), ReadFrame(f), p \notin DOMAIN streams
  PROVE  UNCHANGED <<streams, given>>
BY FrameFacts DEF ReadFrame

\* The source and the demuxer keep their types.
LEMMA SourceDemuxStep ==
  ASSUME SourceT, DemuxT, [Next]_vars
  PROVE  SourceT' /\ DemuxT'
<1>1. ASSUME NEW p \in Pids, NEW f \in NextFrames(p), Receive(f)
      PROVE  SourceT' /\ DemuxT'
  <2>1. Sends(f) /\ ReadFrame(f) /\ pmt_pid' = pmt_pid
    BY <1>1 DEF Receive, Arrives, ReadFrame
  <2>2. SourceT'
    BY <2>1, SourceStep
  <2>3. CASE p \in DOMAIN streams
    <3>1. PICK b \in Builders :
            /\ streams' = [streams EXCEPT ![p] = b]
            /\ \/ given' = given
               \/ \E pk \in Packets : given' = [given EXCEPT ![p] = Append(given[p], pk)]
      BY <2>1, <2>3, FrameEffect, Zenon
    <3>2. given' \in [Pids -> Seq(Packets)]
      <4>1. ASSUME NEW pk \in Packets, given' = [given EXCEPT ![p] = Append(given[p], pk)]
            PROVE  given' \in [Pids -> Seq(Packets)]
        <5>1. Append(given[p], pk) \in Seq(Packets)
          BY AppendProperties DEF DemuxT
        <5>. QED
          BY <4>1, <5>1 DEF DemuxT
      <4>. QED
        BY <3>1, <4>1 DEF DemuxT
    <3>. QED
      BY <2>1, <2>2, <3>1, <3>2 DEF DemuxT
  <2>4. CASE p \notin DOMAIN streams
    BY <2>1, <2>2, <2>4, FrameIgnored DEF DemuxT
  <2>. QED
    BY <2>3, <2>4
<1>2. ASSUME NEW p \in Pids, NEW f \in NextFrames(p), LoseFrame(f)
      PROVE  SourceT' /\ DemuxT'
  <2>1. Sends(f) /\ UNCHANGED demuxvars
    BY <1>2 DEF LoseFrame, Lost
  <2>. QED
    BY <2>1, SourceStep DEF demuxvars, DemuxT
<1>3. CASE ReceivePAT
  BY <1>3 DEF ReceivePAT, SendsTable, ReadPAT, SourceT, DemuxT
<1>4. CASE ReceivePMT
  <2>1. /\ UNCHANGED <<units, sent, pmt_pid, given>>
        /\ streams' = IF pmt_pid THEN [p \in Pids |-> NoBuilder] ELSE streams
    BY <1>4 DEF ReceivePMT, SendsTable, ReadPMT
  <2>2. NoBuilder \in Builders
    BY DEF NoBuilder, Builders
  <2>. QED
    BY <2>1, <2>2 DEF SourceT, DemuxT
<1>5. CASE StartOutput \/ HeaderFails \/ Transcode \/ Write \/ UNCHANGED vars
  <2>1. UNCHANGED <<sourcevars, demuxvars>>
    BY <1>5 DEF StartOutput, HeaderFails, Transcode, Write, vars
  <2>. QED
    BY <2>1 DEF sourcevars, demuxvars, SourceT, DemuxT
<1>. QED
  BY <1>1, <1>2, <1>3, <1>4, <1>5 DEF Next

LEMMA SourceDemuxInit == Init => SourceT /\ DemuxT
<1> SUFFICES ASSUME Init PROVE SourceT /\ DemuxT
  OBVIOUS
<1>1. SourceT
  BY DEF Init, SourceInit, SourceT
<1>2. streams = [p \in {} |-> NoBuilder] /\ given = [p \in Pids |-> <<>>] /\ pmt_pid = FALSE
  BY DEF Init, DemuxInit
<1>3. DOMAIN streams = {} /\ streams \in [DOMAIN streams -> Builders]
  BY <1>2
<1>4. given \in [Pids -> Seq(Packets)]
  BY <1>2, EmptySeq
<1>. QED
  BY <1>1, <1>2, <1>3, <1>4 DEF DemuxT

------------------------------------------------------------------------------
(* The order of what the demuxer gives. *)

Pairwise(d) == \A i, j \in DOMAIN d : i < j => Before(d[i], d[j])

AllBefore(d, e) == \A a \in DOMAIN d, b \in DOMAIN e : Before(d[a], e[b])

\* All of d was sent before byte k of unit u.
Passed(d, u, k) ==
  \A i \in DOMAIN d : d[i].unit < u \/ (d[i].unit = u /\ d[i].from + d[i].bytes <= k)

\* The packets g and what is collected after them, d, are in order.
Flow(g, d, u, k) ==
  /\ \A i \in DOMAIN g : Pairwise(g[i].data) /\ Passed(g[i].data, u, k)
  /\ \A i, j \in DOMAIN g : i < j => AllBefore(g[i].data, g[j].data)
  /\ Pairwise(d) /\ Passed(d, u, k)
  /\ \A i \in DOMAIN g : AllBefore(g[i].data, d)

Pending(p) == IF p \in DOMAIN streams THEN streams[p].data ELSE <<>>

OrderInv == \A p \in Pids : Flow(given[p], Pending(p), Len(units[p]), sent[p])

LEMMA PassedLater ==
  ASSUME NEW d \in Seq(Runs), NEW u \in Nat, NEW k \in Nat, NEW v \in Nat, NEW l \in Nat,
         u < v \/ (u = v /\ k <= l), Passed(d, u, k)
  PROVE  Passed(d, v, l)
<1> SUFFICES ASSUME NEW i \in DOMAIN d
             PROVE  d[i].unit < v \/ (d[i].unit = v /\ d[i].from + d[i].bytes <= l)
  BY DEF Passed
<1>1. PICK r \in Runs : r = d[i]
  OBVIOUS
<1>2. r.unit < u \/ (r.unit = u /\ r.from + r.bytes <= k)
  BY <1>1 DEF Passed
<1>3. r.unit \in Nat /\ r.from \in Nat /\ r.bytes \in Nat
  BY DEF Runs
<1>. QED
  BY <1>1, <1>2, <1>3

\* A run that begins where the sender was follows everything sent.
LEMMA RunFollows ==
  ASSUME NEW d \in Seq(Runs), NEW u \in Nat, NEW k \in Nat, NEW r \in Runs,
         u < r.unit \/ (u = r.unit /\ k <= r.from), Passed(d, u, k)
  PROVE  \A i \in DOMAIN d : Before(d[i], r)
<1> SUFFICES ASSUME NEW i \in DOMAIN d PROVE Before(d[i], r)
  OBVIOUS
<1>1. PICK s \in Runs : s = d[i]
  OBVIOUS
<1>2. s.unit < u \/ (s.unit = u /\ s.from + s.bytes <= k)
  BY <1>1 DEF Passed
<1>3. s.unit \in Nat /\ s.from \in Nat /\ s.bytes \in Nat /\ r.unit \in Nat /\ r.from \in Nat
  BY DEF Runs
<1>. QED
  BY <1>1, <1>2, <1>3 DEF Before

LEMMA FlowLater ==
  ASSUME NEW g \in Seq(Packets), NEW d \in Seq(Runs), NEW u \in Nat, NEW k \in Nat,
         NEW v \in Nat, NEW l \in Nat, u < v \/ (u = v /\ k <= l), Flow(g, d, u, k)
  PROVE  Flow(g, d, v, l)
<1>1. \A i \in DOMAIN g : g[i].data \in Seq(Runs)
  <2>1. \A i \in DOMAIN g : g[i] \in Packets
    OBVIOUS
  <2>2. \A x \in Packets : x.data \in Seq(Runs)
    BY DEF Packets
  <2>. QED
    BY <2>1, <2>2
<1>2. \A i \in DOMAIN g : Passed(g[i].data, v, l)
  BY <1>1, PassedLater DEF Flow
<1>3. Passed(d, v, l)
  BY PassedLater DEF Flow
<1>. QED
  BY <1>2, <1>3 DEF Flow

LEMMA FlowEmptied ==
  ASSUME NEW g, NEW d, NEW u, NEW k, Flow(g, d, u, k)
  PROVE  Flow(g, <<>>, u, k)
<1>1. Pairwise(<<>>) /\ Passed(<<>>, u, k) /\ \A e : AllBefore(e, <<>>)
  BY DEF Pairwise, Passed, AllBefore
<1>. QED
  BY <1>1 DEF Flow

\* What was collected is given out.
LEMMA FlowGiven ==
  ASSUME NEW g \in Seq(Packets), NEW d, NEW u, NEW k, NEW pk \in Packets, pk.data = d,
         Flow(g, d, u, k)
  PROVE  Flow(Append(g, pk), <<>>, u, k)
<1>1. PICK h : h = Append(g, pk)
  OBVIOUS
<1>2. /\ DOMAIN g = 1 .. Len(g) /\ Len(g) \in Nat /\ DOMAIN h = 1 .. Len(g) + 1
      /\ \A i \in 1 .. Len(g) : h[i] = g[i]
      /\ h[Len(g) + 1] = pk
  BY <1>1, AppendProperties, LenProperties
<1>3. \A i \in DOMAIN h : Pairwise(h[i].data) /\ Passed(h[i].data, u, k)
  BY <1>2 DEF Flow
<1>4. \A i, j \in DOMAIN h : i < j => AllBefore(h[i].data, h[j].data)
  BY <1>2 DEF Flow
<1>5. Pairwise(<<>>) /\ Passed(<<>>, u, k) /\ \A e : AllBefore(e, <<>>)
  BY DEF Pairwise, Passed, AllBefore
<1>. QED
  BY <1>1, <1>3, <1>4, <1>5 DEF Flow

\* A run is collected.
LEMMA FlowCollected ==
  ASSUME NEW g \in Seq(Packets), NEW d \in Seq(Runs), NEW u \in Nat, NEW k \in Nat,
         NEW r \in Runs, u < r.unit \/ (u = r.unit /\ k <= r.from), Flow(g, d, u, k)
  PROVE  Flow(g, Append(d, r), r.unit, r.from + r.bytes)
<1>1. PICK e : e = Append(d, r)
  OBVIOUS
<1>2. /\ DOMAIN d = 1 .. Len(d) /\ Len(d) \in Nat /\ DOMAIN e = 1 .. Len(d) + 1
      /\ \A i \in 1 .. Len(d) : e[i] = d[i]
      /\ e[Len(d) + 1] = r
  BY <1>1, AppendProperties, LenProperties
<1>3. r.unit \in Nat /\ r.from \in Nat /\ r.bytes \in Nat /\ r.from + r.bytes \in Nat
      /\ r.from <= r.from + r.bytes
  BY DEF Runs
<1>4. Flow(g, d, r.unit, r.from + r.bytes)
  BY <1>3, FlowLater
<1>5. \A i \in DOMAIN d : Before(d[i], r)
  BY RunFollows DEF Flow
<1>6. \A i \in DOMAIN g : \A a \in DOMAIN g[i].data : Before(g[i].data[a], r)
  <2>1. \A i \in DOMAIN g : g[i].data \in Seq(Runs)
    <3>1. \A i \in DOMAIN g : g[i] \in Packets
      OBVIOUS
    <3>2. \A x \in Packets : x.data \in Seq(Runs)
      BY DEF Packets
    <3>. QED
      BY <3>1, <3>2
  <2>. QED
    BY <2>1, RunFollows DEF Flow
<1>7. Pairwise(e)
  <2>1. Pairwise(d)
    BY DEF Flow
  <2>. QED
    BY <1>2, <1>5, <2>1 DEF Pairwise
<1>8. Passed(e, r.unit, r.from + r.bytes)
  <2>1. Passed(d, r.unit, r.from + r.bytes)
    BY <1>4 DEF Flow
  <2>. QED
    BY <1>2, <1>3, <2>1 DEF Passed
<1>9. \A i \in DOMAIN g : AllBefore(g[i].data, e)
  <2>1. \A i \in DOMAIN g : AllBefore(g[i].data, d)
    BY DEF Flow
  <2>. QED
    BY <1>2, <1>6, <2>1 DEF AllBefore
<1>. QED
  BY <1>1, <1>4, <1>7, <1>8, <1>9 DEF Flow

LEMMA PendingType ==
  ASSUME DemuxT, NEW p \in Pids
  PROVE  Pending(p) \in Seq(Runs) /\ given[p] \in Seq(Packets)
<1>1. \A b \in Builders : b.data \in Seq(Runs)
  BY DEF Builders
<1>2. <<>> \in Seq(Runs)
  BY EmptySeq
<1>. QED
  BY <1>1, <1>2 DEF Pending, DemuxT

\* A frame sent, whether it arrives or not, comes after all that was sent.
LEMMA FrameIsLater ==
  ASSUME SourceT, NEW p \in Pids, NEW f \in NextFrames(p)
  PROVE  /\ Run(f) \in Runs /\ Run(f).unit = f.unit /\ Run(f).from = f.from
         /\ Run(f).bytes = f.bytes /\ f.unit \in Nat /\ f.from + f.bytes \in Nat
         /\ Len(units[p]) \in Nat /\ sent[p] \in Nat
         /\ Len(units[p]) < f.unit \/ (Len(units[p]) = f.unit /\ sent[p] <= f.from)
         /\ Len(units[p]) < f.unit \/ (Len(units[p]) = f.unit /\ sent[p] <= f.from + f.bytes)
<1>1. /\ f.unit \in Nat /\ f.from \in Nat /\ f.bytes \in Nat \ {0} /\ f.start \in BOOLEAN
      /\ f.start => f.unit = Len(units[p]) + 1 /\ f.from = 0
      /\ ~f.start => f.unit = Len(units[p]) /\ f.from = sent[p]
  BY FrameFacts
<1>2. Len(units[p]) \in Nat /\ sent[p] \in Nat
  BY DEF SourceT
<1>3. Stray(f) \in BOOLEAN
  BY DEF Stray
<1>4. Run(f) \in Runs /\ Run(f).unit = f.unit /\ Run(f).from = f.from /\ Run(f).bytes = f.bytes
  BY <1>1, <1>3 DEF Run, Runs
<1>. QED
  BY <1>1, <1>2, <1>4

LEMMA OrderReceived ==
  ASSUME SourceT, DemuxT, OrderInv, NEW p \in Pids, NEW f \in NextFrames(p), Receive(f)
  PROVE  OrderInv'
<1>1. Sends(f) /\ ReadFrame(f)
  BY DEF Receive, Arrives
<1>2. Len(units'[p]) = f.unit /\ sent'[p] = f.from + f.bytes
      /\ \A q \in Pids : q # p => units'[q] = units[q] /\ sent'[q] = sent[q]
  BY <1>1, SourceStep
<1>3. PICK u \in Nat, k \in Nat : u = Len(units[p]) /\ k = sent[p]
  BY FrameIsLater
<1>4. PICK r \in Runs : r = Run(f) /\ r.unit = f.unit /\ r.from = f.from /\ r.bytes = f.bytes
  BY FrameIsLater
<1>5. /\ f.unit \in Nat /\ f.from + f.bytes \in Nat
      /\ u < r.unit \/ (u = r.unit /\ k <= r.from)
      /\ u < f.unit \/ (u = f.unit /\ k <= f.from + f.bytes)
  BY <1>3, <1>4, FrameIsLater
<1>6. PICK g \in Seq(Packets), d \in Seq(Runs) : g = given[p] /\ d = Pending(p)
  BY PendingType
<1>7. Flow(g, d, u, k)
  BY <1>3, <1>6 DEF OrderInv
<1>8. Flow(g, d, f.unit, f.from + f.bytes)
  BY <1>5, <1>7, FlowLater
<1>9. Flow(g, Append(d, r), f.unit, f.from + f.bytes)
  BY <1>4, <1>5, <1>7, FlowCollected
<1>10. CASE p \notin DOMAIN streams
  <2>1. UNCHANGED <<streams, given>>
    BY <1>1, <1>10, FrameIgnored
  <2>. QED
    BY <1>2, <1>6, <1>8, <2>1 DEF OrderInv, Pending
<1>11. CASE p \in DOMAIN streams
  <2>1. d = streams[p].data
    BY <1>6, <1>11 DEF Pending
  <2>2. PICK b \in Builders :
          /\ streams' = [streams EXCEPT ![p] = b]
          /\ \/ /\ given' = given
                /\ Collects(b, streams[p], f) \/ Ignores(b, streams[p], f)
             \/ \E pk \in Packets :
                  /\ given' = [given EXCEPT ![p] = Append(given[p], pk)]
                  /\ DropsStart(b, pk, streams[p], f) \/ Completes(b, pk, streams[p], f)
    BY <1>1, <1>11, FrameEffect, Zenon
  <2>3. /\ \A q \in Pids : q # p => Pending(q)' = Pending(q)
        /\ Pending(p)' = b.data
    BY <1>11, <2>2 DEF Pending, DemuxT
  <2>4. ASSUME given' = given, Collects(b, streams[p], f) \/ Ignores(b, streams[p], f)
        PROVE  OrderInv'
    <3>1. b.data = Append(d, r) \/ b.data = d
      BY <1>4, <2>1, <2>4 DEF Collects, Ignores
    <3>2. Flow(given'[p], Pending(p)', Len(units'[p]), sent'[p])
      BY <1>2, <1>6, <1>8, <1>9, <2>3, <2>4, <3>1
    <3>. QED
      BY <1>2, <2>3, <2>4, <3>2 DEF OrderInv
  <2>5. ASSUME NEW pk \in Packets, given' = [given EXCEPT ![p] = Append(given[p], pk)],
               DropsStart(b, pk, streams[p], f) \/ Completes(b, pk, streams[p], f)
        PROVE  OrderInv'
    <3>1. b.data = <<>> /\ (pk.data = d \/ pk.data = Append(d, r))
      BY <1>4, <2>1, <2>5 DEF DropsStart, Completes
    <3>2. Flow(Append(g, pk), <<>>, f.unit, f.from + f.bytes)
      BY <1>8, <1>9, <3>1, FlowGiven
    <3>3. given'[p] = Append(g, pk) /\ \A q \in Pids : q # p => given'[q] = given[q]
      BY <1>6, <2>5 DEF DemuxT
    <3>4. Flow(given'[p], Pending(p)', Len(units'[p]), sent'[p])
      BY <1>2, <2>3, <3>1, <3>2, <3>3
    <3>. QED
      BY <1>2, <2>3, <3>3, <3>4 DEF OrderInv
  <2>. QED
    BY <2>2, <2>4, <2>5
<1>. QED
  BY <1>10, <1>11

LEMMA OrderStep ==
  ASSUME SourceT, DemuxT, OrderInv, [Next]_vars
  PROVE  OrderInv'
<1>1. ASSUME NEW p \in Pids, NEW f \in NextFrames(p), LoseFrame(f)
      PROVE  OrderInv'
  <2>1. Sends(f) /\ UNCHANGED demuxvars
    BY <1>1 DEF LoseFrame, Lost
  <2>2. Len(units'[p]) = f.unit /\ sent'[p] = f.from + f.bytes
        /\ \A q \in Pids : q # p => units'[q] = units[q] /\ sent'[q] = sent[q]
    BY <2>1, SourceStep
  <2>3. PICK g \in Seq(Packets), d \in Seq(Runs) : g = given[p] /\ d = Pending(p)
    BY PendingType
  <2>4. Flow(g, d, Len(units[p]), sent[p])
    BY <2>3 DEF OrderInv
  <2>5. Flow(g, d, f.unit, f.from + f.bytes)
    BY <2>4, FrameIsLater, FlowLater
  <2>. QED
    BY <2>1, <2>2, <2>3, <2>5 DEF OrderInv, Pending, demuxvars
<1>2. CASE ReceivePMT
  <2>1. /\ UNCHANGED <<units, sent, pmt_pid, given>>
        /\ streams' = IF pmt_pid THEN [p \in Pids |-> NoBuilder] ELSE streams
    BY <1>2 DEF ReceivePMT, SendsTable, ReadPMT
  <2>2. \A p \in Pids : Pending(p)' = Pending(p) \/ Pending(p)' = <<>>
    BY <2>1 DEF Pending, NoBuilder
  <2>. QED
    BY <2>1, <2>2, FlowEmptied DEF OrderInv
<1>3. CASE ReceivePAT \/ StartOutput \/ HeaderFails \/ Transcode \/ Write \/ UNCHANGED vars
  <2>1. UNCHANGED <<units, sent, streams, given>>
    BY <1>3 DEF ReceivePAT, SendsTable, ReadPAT, StartOutput, HeaderFails, Transcode, Write, vars,
       sourcevars, demuxvars
  <2>. QED
    BY <2>1 DEF OrderInv, Pending
<1>. QED
  BY <1>1, <1>2, <1>3, OrderReceived DEF Next

LEMMA OrderInit == Init => OrderInv
<1>1. \A u, k : Flow(<<>>, <<>>, u, k)
  BY DEF Flow, Pairwise, Passed, AllBefore
<1>2. Init => \A p \in Pids : given[p] = <<>> /\ Pending(p) = <<>>
  BY DEF Init, DemuxInit, Pending
<1>. QED
  BY <1>1, <1>2 DEF OrderInv

LEMMA FlowIsOrder ==
  ASSUME SourceT, DemuxT, OrderInv
  PROVE  GivenInOrder
<1> SUFFICES ASSUME NEW p \in DOMAIN streams,
                    NEW ends, ends = given[p] \o <<[data |-> streams[p].data]>>
             PROVE  /\ \A i \in DOMAIN ends : Ascending(ends[i].data)
                    /\ \A i, j \in DOMAIN ends : i < j =>
                         \A a \in DOMAIN ends[i].data, b \in DOMAIN ends[j].data :
                           Before(ends[i].data[a], ends[j].data[b])
  BY DEF GivenInOrder
<1>1. p \in Pids
  BY DEF DemuxT
<1>2. PICK g \in Seq(Packets), d \in Seq(Runs) : g = given[p] /\ d = streams[p].data
  BY <1>1, PendingType DEF Pending
<1>3. Flow(g, d, Len(units[p]), sent[p])
  BY <1>1, <1>2 DEF OrderInv, Pending
<1>4. PICK last : last = [data |-> d]
  OBVIOUS
<1>5. /\ DOMAIN ends = 1 .. Len(g) + 1 /\ Len(g) \in Nat /\ DOMAIN g = 1 .. Len(g)
      /\ \A i \in 1 .. Len(g) : ends[i] = g[i]
      /\ ends[Len(g) + 1].data = d
  <2>1. PICK S : S = Packets \cup {last}
    OBVIOUS
  <2>2. g \in Seq(S) /\ last \in S
    BY <2>1, SeqMonotonic
  <2>3. ends = Append(g, last)
    BY <1>2, <1>4, <2>2, AppendIsConcat
  <2>4. /\ Append(g, last) \in Seq(S) /\ Len(Append(g, last)) = Len(g) + 1
        /\ \A i \in 1 .. Len(g) : Append(g, last)[i] = g[i]
        /\ Append(g, last)[Len(g) + 1] = last
    BY <2>2, AppendProperties
  <2>5. DOMAIN ends = 1 .. Len(g) + 1 /\ DOMAIN g = 1 .. Len(g) /\ Len(g) \in Nat
    BY <2>3, <2>4, LenProperties
  <2>6. last.data = d
    BY <1>4
  <2>. QED
    BY <2>3, <2>4, <2>5, <2>6
<1>6. \A i \in DOMAIN ends : ends[i].data \in Seq(Runs) /\ Pairwise(ends[i].data)
  <2>1. \A i \in DOMAIN g : g[i] \in Packets
    OBVIOUS
  <2>2. \A x \in Packets : x.data \in Seq(Runs)
    BY DEF Packets
  <2>. QED
    <3>1. ASSUME NEW i \in DOMAIN ends
          PROVE  ends[i].data \in Seq(Runs) /\ Pairwise(ends[i].data)
      <4>1. CASE i = Len(g) + 1
        BY <1>3, <1>5, <4>1 DEF Flow
      <4>2. CASE i # Len(g) + 1
        <5>1. i \in DOMAIN g /\ ends[i] = g[i]
          BY <1>5, <4>2
        <5>. QED
          BY <1>3, <2>1, <2>2, <5>1 DEF Flow
      <4>. QED
        BY <4>1, <4>2
    <3>. QED
      BY <3>1
<1>7. \A i, j \in DOMAIN ends : i < j => AllBefore(ends[i].data, ends[j].data)
  <2>1. ASSUME NEW i \in DOMAIN ends, NEW j \in DOMAIN ends, i < j
        PROVE  AllBefore(ends[i].data, ends[j].data)
    <3>1. i \in DOMAIN g /\ ends[i] = g[i]
      BY <1>5, <2>1
    <3>2. CASE j = Len(g) + 1
      BY <1>3, <1>5, <3>1, <3>2 DEF Flow
    <3>3. CASE j # Len(g) + 1
      <4>1. j \in DOMAIN g /\ ends[j] = g[j]
        BY <1>5, <3>3
      <4>. QED
        BY <1>3, <2>1, <3>1, <4>1 DEF Flow
    <3>. QED
      BY <3>2, <3>3
  <2>. QED
    BY <2>1
<1>8. ASSUME NEW e \in Seq(Runs), Pairwise(e)
      PROVE  Ascending(e)
  BY <1>8 DEF Ascending, Pairwise
<1>. QED
  BY <1>6, <1>7, <1>8 DEF AllBefore

\* Whatever is lost or repeated, what the demuxer gives out of a stream and
\* then holds is in the order it was sent, and nothing comes twice.
THEOREM AlwaysGivenInOrder == Spec => []GivenInOrder
<1>1. Init => SourceT /\ DemuxT /\ OrderInv
  BY SourceDemuxInit, OrderInit
<1>2. SourceT /\ DemuxT /\ OrderInv /\ [Next]_vars => (SourceT /\ DemuxT /\ OrderInv)'
  BY SourceDemuxStep, OrderStep
<1>3. SourceT /\ DemuxT /\ OrderInv => GivenInOrder
  BY FlowIsOrder
<1>. QED
  BY <1>1, <1>2, <1>3, PTL DEF Spec

------------------------------------------------------------------------------
(* The muxer and the application. *)

LEMMA FunctionIsSeq ==
  ASSUME NEW S, NEW n \in Nat, NEW s \in [1 .. n -> S]
  PROVE  s \in Seq(S) /\ Len(s) = n /\ DOMAIN s = 1 .. n
<1>1. s \in Seq(S)
  BY SeqDef
<1>. QED
  BY <1>1, LenProperties

LEMMA RegisterEffect ==
  ASSUME MuxT, NEW types \in Seq(STRING), Register(types)
  PROVE  /\ MuxT'
         /\ Len(output') = Len(output) + Len(types)
         /\ \A i \in DOMAIN output :
              output'[i] = output[i] /\ continuity_counters'[i] = continuity_counters[i]
         /\ \A i \in DOMAIN output' : i \notin DOMAIN output => output'[i] = <<>>
<1>1. PICK n \in Nat : n = Len(types) /\ DOMAIN types = 1 .. n
  BY LenProperties
<1>2. 0 \in Counters /\ <<>> \in Seq(Pieces)
  BY MuxerAssumption, EmptySeq DEF Counters
<1>3. PICK zeros \in Seq(Counters) : zeros = [i \in DOMAIN types |-> 0] /\ Len(zeros) = n
  <2>1. [i \in DOMAIN types |-> 0] \in [1 .. n -> Counters]
    BY <1>1, <1>2
  <2>. QED
    BY <2>1, FunctionIsSeq
<1>4. PICK none \in Seq(Seq(Pieces)) :
        none = [i \in DOMAIN types |-> <<>>] /\ Len(none) = n /\ \A i \in 1 .. n : none[i] = <<>>
  <2>1. PICK s \in [1 .. n -> Seq(Pieces)] : s = [i \in DOMAIN types |-> <<>>]
    BY <1>1, <1>2
  <2>2. s \in Seq(Seq(Pieces)) /\ Len(s) = n
    BY FunctionIsSeq
  <2>3. \A i \in 1 .. n : s[i] = <<>>
    BY <1>1, <2>1
  <2>. QED
    BY <2>1, <2>2, <2>3
<1>5. registered' = registered \o types /\ continuity_counters' = continuity_counters \o zeros
      /\ output' = output \o none
  BY <1>3, <1>4 DEF Register
<1>6. /\ registered \in Seq(STRING) /\ continuity_counters \in Seq(Counters)
      /\ output \in Seq(Seq(Pieces)) /\ Len(output) \in Nat
      /\ Len(continuity_counters) = Len(output) /\ Len(registered) = Len(output)
      /\ DOMAIN output = 1 .. Len(output)
  BY LenProperties DEF MuxT
<1>7. registered' \in Seq(STRING) /\ Len(registered') = Len(output) + n
  <2>1. Len(registered \o types) = Len(registered) + Len(types) /\ registered \o types \in Seq(STRING)
    BY <1>6, ConcatProperties
  <2>. QED
    BY <1>1, <1>5, <1>6, <2>1
<1>8. /\ continuity_counters' \in Seq(Counters) /\ Len(continuity_counters') = Len(output) + n
      /\ \A i \in 1 .. Len(output) : continuity_counters'[i] = continuity_counters[i]
  BY <1>3, <1>5, <1>6, ConcatProperties
<1>9. /\ output' \in Seq(Seq(Pieces)) /\ Len(output') = Len(output) + n
      /\ \A i \in 1 .. Len(output) + n :
           output'[i] = IF i <= Len(output) THEN output[i] ELSE none[i - Len(output)]
  BY <1>4, <1>5, <1>6, ConcatProperties
<1>10. DOMAIN output' = 1 .. Len(output) + n
  BY <1>9, LenProperties
<1>11. ASSUME NEW i \in DOMAIN output', i \notin DOMAIN output
       PROVE  output'[i] = <<>>
  <2>1. i - Len(output) \in 1 .. n /\ ~(i <= Len(output))
    BY <1>6, <1>10, <1>11
  <2>. QED
    BY <1>4, <1>9, <1>10, <2>1
<1>. QED
  BY <1>1, <1>6, <1>7, <1>8, <1>9, <1>11 DEF MuxT

LEMMA PieceType ==
  ASSUME MuxT, NEW pkt \in MediaPackets, pkt.stream_index \in DOMAIN output,
         NEW k \in 1 .. PieceCount(pkt.len)
  PROVE  /\ Piece(pkt, k) \in Pieces
         /\ continuity_counters[pkt.stream_index] \in Counters
         /\ Piece(pkt, k).start = (k = 1) /\ Piece(pkt, k).source = pkt.source
         /\ Piece(pkt, k).pts = pkt.pts /\ Piece(pkt, k).len = pkt.len
         /\ Piece(pkt, k).offset = OffsetOf(k)
         /\ Piece(pkt, k).bytes = payload_size(pkt.len, OffsetOf(k))
         /\ Piece(pkt, k).counter = Counter(pkt.stream_index, k)
<1>1. PICK len \in Nat : len = pkt.len /\ pkt.source \in Pids \X Nat /\ pkt.pts \in Int
  BY DEF MediaPackets
<1>2. PieceCount(len) \in Nat /\ OffsetOf(k) \in Nat /\ (OffsetOf(k) = 0 <=> k = 1)
      /\ payload_size(len, OffsetOf(k)) \in Nat /\ k \in Int
  <2>1. PieceCount(len) \in Nat
    BY PieceFacts
  <2>2. k \in 1 .. PieceCount(len) /\ k \in Int
    BY <1>1, <2>1
  <2>. QED
    BY <2>1, <2>2, PieceFacts
<1>3. PICK o \in Nat, b \in Nat : o = OffsetOf(k) /\ b = payload_size(len, o)
  BY <1>2
<1>4. DOMAIN continuity_counters = DOMAIN output
  BY LenProperties DEF MuxT
<1>5. PICK c \in Counters : c = continuity_counters[pkt.stream_index]
  BY <1>4, LenProperties DEF MuxT
<1>6. c + k \in Int /\ CounterMod \in Nat \ {0}
  BY <1>2, MuxerAssumption DEF Counters
<1>7. PICK d \in Counters : d = Counter(pkt.stream_index, k)
  <2>1. (c + k) % CounterMod \in 0 .. CounterMod - 1
    BY <1>6, ModDef
  <2>. QED
    BY <1>5, <2>1 DEF Counter, Counters
<1>8. written_size(len, o) \in Int
  <2>1. adaptation_field_size(o) \in Int /\ max_payload_size(o) \in Int /\ HeaderSize \in Int
    BY MuxerAssumption DEF adaptation_field_size, max_payload_size
  <2>2. stuffing_size(len, o) \in Int
    BY <1>3, <2>1 DEF stuffing_size
  <2>3. PICK x \in Int : x = adaptation_field_size(o) + stuffing_size(len, o)
    BY <2>1, <2>2
  <2>. QED
    BY <1>3, <2>1, <2>3 DEF written_size
<1>9. PICK w \in Int : w = written_size(len, o)
  BY <1>8
<1>10. PICK first \in BOOLEAN : first = (o = 0)
  OBVIOUS
<1>11. Piece(pkt, k) =
         [start |-> first, counter |-> d, source |-> pkt.source, pts |-> pkt.pts,
          len |-> len, offset |-> o, bytes |-> b, size |-> w]
  BY <1>1, <1>3, <1>7, <1>9, <1>10 DEF Piece
<1>12. first = (k = 1)
  BY <1>2, <1>3, <1>10
<1>. QED
  BY <1>1, <1>3, <1>5, <1>7, <1>11, <1>12 DEF Pieces

LEMMA WriteEffect ==
  ASSUME MuxT, NEW pkt \in MediaPackets, pkt.stream_index \in DOMAIN output,
         NEW n \in 0 .. PieceCount(pkt.len), NEW taken \in Nat, Writes(pkt, n, taken)
  PROVE  LET i == pkt.stream_index IN
         /\ MuxT' /\ DOMAIN output' = DOMAIN output
         /\ Len(output[i]) \in Nat /\ Len(output'[i]) = Len(output[i]) + n
         /\ DOMAIN output[i] = 1 .. Len(output[i]) /\ DOMAIN output'[i] = 1 .. Len(output[i]) + n
         /\ \A j \in 1 .. Len(output[i]) : output'[i][j] = output[i][j]
         /\ \A k \in 1 .. n : output'[i][Len(output[i]) + k] = Piece(pkt, k)
         /\ \A j \in DOMAIN output : j # i =>
              output'[j] = output[j] /\ continuity_counters'[j] = continuity_counters[j]
         /\ continuity_counters'[i] = Counter(i, taken)
<1>1. PICK i \in DOMAIN output : i = pkt.stream_index
  OBVIOUS
<1>2. PieceCount(pkt.len) \in Nat
  BY PieceFacts DEF MediaPackets
<1>3. n \in Nat /\ \A k \in 1 .. n : k \in 1 .. PieceCount(pkt.len) /\ k \in Int
  BY <1>2
<1>4. PICK P \in Seq(Pieces) :
        P = [k \in 1 .. n |-> Piece(pkt, k)] /\ Len(P) = n /\ \A k \in 1 .. n : P[k] = Piece(pkt, k)
  <2>1. PICK s \in [1 .. n -> Pieces] : s = [k \in 1 .. n |-> Piece(pkt, k)]
    BY <1>3, PieceType
  <2>2. s \in Seq(Pieces) /\ Len(s) = n
    BY <1>3, FunctionIsSeq
  <2>3. \A k \in 1 .. n : s[k] = Piece(pkt, k)
    BY <2>1
  <2>. QED
    BY <2>1, <2>2, <2>3
<1>5. /\ output \in Seq(Seq(Pieces)) /\ continuity_counters \in Seq(Counters)
      /\ DOMAIN output = 1 .. Len(output) /\ Len(continuity_counters) = Len(output)
      /\ DOMAIN continuity_counters = DOMAIN output
  BY LenProperties DEF MuxT
<1>6. PICK o \in Seq(Pieces) : o = output[i]
  BY <1>5
<1>7. PICK new \in Seq(Pieces) : new = o \o P
  BY <1>4, <1>6, ConcatProperties
<1>8. /\ Len(o) \in Nat /\ DOMAIN o = 1 .. Len(o) /\ Len(new) = Len(o) + n
      /\ DOMAIN new = 1 .. Len(o) + n
      /\ \A j \in 1 .. Len(o) + n : new[j] = IF j <= Len(o) THEN o[j] ELSE P[j - Len(o)]
  BY <1>4, <1>6, <1>7, ConcatProperties, LenProperties
<1>9. /\ \A j \in 1 .. Len(o) : new[j] = o[j]
      /\ \A k \in 1 .. n : new[Len(o) + k] = Piece(pkt, k)
  <2>1. ASSUME NEW k \in 1 .. n
        PROVE  new[Len(o) + k] = Piece(pkt, k)
    <3>1. Len(o) + k \in 1 .. Len(o) + n /\ ~(Len(o) + k <= Len(o)) /\ (Len(o) + k) - Len(o) = k
      BY <1>3, <1>8
    <3>. QED
      BY <1>4, <1>8, <3>1
  <2>2. \A j \in 1 .. Len(o) : j \in 1 .. Len(o) + n /\ j <= Len(o)
    BY <1>3, <1>8
  <2>3. \A j \in 1 .. Len(o) : new[j] = o[j]
    BY <1>8, <2>2
  <2>. QED
    BY <2>1, <2>3
<1>10. PICK c \in Counters : c = Counter(i, taken)
  <2>1. continuity_counters[i] \in Counters /\ CounterMod \in Nat \ {0}
    BY <1>5, MuxerAssumption
  <2>2. PICK x \in Int : x = continuity_counters[i] + taken
    BY <2>1, MuxerAssumption DEF Counters
  <2>. QED
    BY <2>1, <2>2, ModDef DEF Counter, Counters
<1>11. /\ output' = [output EXCEPT ![i] = new]
       /\ continuity_counters' = [continuity_counters EXCEPT ![i] = c]
       /\ registered' = registered
  BY <1>1, <1>4, <1>6, <1>7, <1>10 DEF Writes
<1>12. /\ output' \in Seq(Seq(Pieces)) /\ Len(output') = Len(output)
       /\ \A j \in 1 .. Len(output) : output'[j] = IF j = i THEN new ELSE output[j]
  BY <1>5, <1>11, ExceptSeq
<1>13. /\ continuity_counters' \in Seq(Counters) /\ Len(continuity_counters') = Len(output)
       /\ \A j \in 1 .. Len(output) :
            continuity_counters'[j] = IF j = i THEN c ELSE continuity_counters[j]
  BY <1>5, <1>11, ExceptSeq
<1>14. MuxT' /\ DOMAIN output' = DOMAIN output
  BY <1>5, <1>11, <1>12, <1>13, LenProperties DEF MuxT
<1>. QED
  BY <1>1, <1>5, <1>6, <1>8, <1>9, <1>10, <1>12, <1>13, <1>14

LEMMA GivenType ==
  ASSUME SourceT, DemuxT, NEW p \in Pids, NEW f \in NextFrames(p), ReadFrame(f)
  PROVE  /\ DOMAIN streams' = DOMAIN streams
         /\ p \notin DOMAIN streams => given' = given
         /\ given'[p] # given[p] => Given(p) \in MediaPackets /\ Given(p).stream_index = p
<1>1. CASE p \notin DOMAIN streams
  BY <1>1, FrameIgnored
<1>2. CASE p \in DOMAIN streams
  <2>1. PICK b \in Builders :
          /\ streams' = [streams EXCEPT ![p] = b]
          /\ \/ given' = given
             \/ \E pk \in Packets : given' = [given EXCEPT ![p] = Append(given[p], pk)]
    BY <1>2, FrameEffect, Zenon
  <2>2. ASSUME NEW pk \in Packets, given' = [given EXCEPT ![p] = Append(given[p], pk)]
        PROVE  Given(p) \in MediaPackets /\ Given(p).stream_index = p
    <3>1. PICK g \in Seq(Packets) : g = given[p] /\ given'[p] = Append(g, pk)
      BY <2>2 DEF DemuxT
    <3>2. PICK n \in Nat : n = Len(g) + 1
      BY LenProperties
    <3>3. Len(given'[p]) = n /\ given'[p][n] = pk
      BY <3>1, <3>2, AppendProperties
    <3>4. Given(p) = [stream_index |-> p, pts |-> pk.pts, source |-> <<p, n>>, len |-> pk.len]
      BY <3>3 DEF Given
    <3>5. pk.pts \in Nat /\ pk.len \in Nat
      BY DEF Packets
    <3>. QED
      BY <3>4, <3>5 DEF MediaPackets
  <2>3. DOMAIN streams' = DOMAIN streams
    BY <2>1
  <2>4. given'[p] # given[p] => Given(p) \in MediaPackets /\ Given(p).stream_index = p
    BY <2>1, <2>2, Zenon
  <2>. QED
    BY <1>2, <2>3, <2>4
<1>. QED
  BY <1>1, <1>2

LEMMA TypesType ==
  ASSUME listing \in Orders
  PROVE  Types \in Seq(STRING) /\ Len(Types) = Len(Program) /\ DOMAIN Types = Pids
<1>1. Len(Program) \in Nat /\ Pids = 1 .. Len(Program) /\ Program \in [Pids -> STRING]
  BY SourceAssumption, LenProperties DEF Pids
<1>2. listing \in [Pids -> Pids]
  BY DEF Orders
<1>3. PICK s \in [1 .. Len(Program) -> STRING] : s = Types
  BY <1>1, <1>2 DEF Types
<1>. QED
  BY <1>1, <1>3, FunctionIsSeq

LEMMA HeldPacket ==
  ASSUME PipeInv, held # <<>>
  PROVE  /\ Head(held) \in MediaPackets /\ phase = "copying"
         /\ timelines[Head(held).stream_index] \in Int
         /\ Head(held).stream_index \in Pids /\ Pids = DOMAIN codecs
<1>1. Head(held) \in MediaPackets
  BY HeadTailProperties DEF PipeInv, AppT
<1>2. Head(held).stream_index \in Pids
  BY <1>1 DEF MediaPackets
<1>. QED
  BY <1>1, <1>2 DEF PipeInv, AppT, TransT

\* What the encoder makes of a packet.
LEMMA EncodedType ==
  ASSUME NEW pkt \in MediaPackets, timelines[pkt.stream_index] \in Int, NEW k \in Nat
  PROVE  /\ Encoded(pkt, k) \in Seq(MediaPackets) /\ Len(Encoded(pkt, k)) = k
         /\ \A j \in 1 .. k :
              /\ Encoded(pkt, k)[j].pts = timelines[pkt.stream_index] + (j - 1) * Duration
              /\ Encoded(pkt, k)[j].stream_index = pkt.stream_index
<1>1. Duration \in Nat
  BY TranscoderAssumption
<1>2. PICK t \in Int : t = timelines[pkt.stream_index]
  OBVIOUS
<1>3. ASSUME NEW j \in 1 .. k
      PROVE  /\ [pkt EXCEPT !.pts = t + (j - 1) * Duration] \in MediaPackets
             /\ [pkt EXCEPT !.pts = t + (j - 1) * Duration].pts = t + (j - 1) * Duration
             /\ [pkt EXCEPT !.pts = t + (j - 1) * Duration].stream_index = pkt.stream_index
  <2>1. PICK x \in Int : x = t + (j - 1) * Duration
    BY <1>1
  <2>2. /\ [pkt EXCEPT !.pts = x] \in MediaPackets /\ [pkt EXCEPT !.pts = x].pts = x
        /\ [pkt EXCEPT !.pts = x].stream_index = pkt.stream_index
    BY DEF MediaPackets
  <2>. QED
    BY <2>1, <2>2
<1>4. PICK s : s = [j \in 1 .. k |-> [pkt EXCEPT !.pts = t + (j - 1) * Duration]]
  OBVIOUS
<1>5. s \in [1 .. k -> MediaPackets]
  BY <1>3, <1>4
<1>6. s = Encoded(pkt, k)
  BY <1>2, <1>4 DEF Encoded
<1>7. s \in Seq(MediaPackets) /\ Len(s) = k
  BY <1>5, FunctionIsSeq
<1>8. \A j \in 1 .. k : s[j] = [pkt EXCEPT !.pts = t + (j - 1) * Duration]
  BY <1>4
<1>. QED
  BY <1>2, <1>3, <1>6, <1>7, <1>8

\* What the transcoder does with the packet held.
LEMMA TranscodeEffect ==
  ASSUME PipeInv, Transcode
  PROVE  LET pkt == Head(held)
             i == pkt.stream_index
         IN
         /\ held' = <<>> /\ codecs' = codecs
         /\ \/ Passes(pkt) /\ todo' = held /\ timelines' = timelines
            \/ /\ ~Passes(pkt)
               /\ \E k \in 0 .. MaxEncoded :
                    /\ todo' = Encoded(pkt, k)
                    /\ timelines' = [timelines EXCEPT ![i] = timelines[i] + k * Duration]
<1>1. PICK k \in 0 .. MaxEncoded :
        todo' = IF Passes(Head(held)) THEN held ELSE Encoded(Head(held), k)
  BY DEF Transcode
<1>2. held' = <<>> /\ MaxEncoded \in Nat /\ k \in Nat
  BY <1>1, TranscoderAssumption DEF Transcode
<1>3. Head(held) \in MediaPackets /\ timelines[Head(held).stream_index] \in Int
  BY HeldPacket DEF Transcode
<1>4. transcode_packet(Head(held), todo')
  BY DEF Transcode
<1>5. CASE Passes(Head(held))
  <2>1. UNCHANGED transcodervars
    BY <1>4, <1>5 DEF transcode_packet
  <2>. QED
    BY <1>1, <1>2, <1>5, <2>1 DEF transcodervars
<1>6. CASE ~Passes(Head(held))
  <2>1. todo' = Encoded(Head(held), k)
    BY <1>1, <1>6
  <2>2. Len(todo') = k
    BY <1>2, <1>3, <2>1, EncodedType
  <2>3. /\ timelines' = [timelines EXCEPT ![Head(held).stream_index] =
                           timelines[Head(held).stream_index] + k * Duration]
        /\ codecs' = codecs
    BY <1>4, <1>6, <2>2 DEF transcode_packet, Popped
  <2>. QED
    BY <1>2, <1>6, <2>1, <2>3
<1>. QED
  BY <1>5, <1>6

\* What the application writes, all of it or its first n TS packets.
WroteAll(pkt, n, taken) == n = PieceCount(pkt.len) /\ taken = n /\ faults' = faults
WroteSome(n, taken) == taken = n + 1 /\ faults < MaxFaults /\ faults' = faults + 1

LEMMA TodoPacket ==
  ASSUME PipeInv, todo # <<>>
  PROVE  /\ Head(todo) \in MediaPackets /\ Head(todo).stream_index \in DOMAIN output
         /\ Tail(todo) \in Seq(MediaPackets) /\ Len(Tail(todo)) = Len(todo) - 1
         /\ \A m \in DOMAIN Tail(todo) : Tail(todo)[m] = todo[m + 1]
         /\ Head(todo) = todo[1] /\ phase = "copying"
<1>1. todo \in Seq(MediaPackets)
  BY DEF PipeInv, AppT
<1>2. /\ Head(todo) \in MediaPackets /\ Tail(todo) \in Seq(MediaPackets)
      /\ Head(todo) = todo[1] /\ Len(Tail(todo)) = Len(todo) - 1
      /\ \A m \in 1 .. Len(todo) - 1 : Tail(todo)[m] = todo[m + 1]
  BY <1>1, HeadTailProperties
<1>3. DOMAIN Tail(todo) = 1 .. Len(todo) - 1
  BY <1>2, LenProperties
<1>4. phase = "copying" /\ Pids \subseteq DOMAIN output
  BY DEF PipeInv, AppT
<1>5. Head(todo).stream_index \in Pids
  BY <1>2 DEF MediaPackets
<1>. QED
  BY <1>2, <1>3, <1>4, <1>5

LEMMA WriteParts ==
  ASSUME PipeInv, Write
  PROVE  \E n \in 0 .. PieceCount(Head(todo).len), taken \in Nat :
           /\ Writes(Head(todo), n, taken)
           /\ WroteAll(Head(todo), n, taken) \/ WroteSome(n, taken)
<1>1. PieceCount(Head(todo).len) \in Nat
  <2>1. Head(todo).len \in Nat
    BY TodoPacket DEF Write, MediaPackets
  <2>. QED
    BY <2>1, PieceFacts
<1>2. CASE write_packet(Head(todo)) /\ UNCHANGED faults
  <2>1. PICK n \in Nat : n = PieceCount(Head(todo).len)
    BY <1>1
  <2>2. Writes(Head(todo), n, n) /\ faults' = faults /\ n \in 0 .. PieceCount(Head(todo).len)
    BY <1>2, <2>1 DEF write_packet
  <2>. QED
    BY <2>1, <2>2, Zenon DEF WroteAll
<1>3. ASSUME faults < MaxFaults, faults' = faults + 1,
             NEW n \in 0 .. PieceCount(Head(todo).len), WriteFails(Head(todo), n)
      PROVE  \E m \in 0 .. PieceCount(Head(todo).len), taken \in Nat :
               /\ Writes(Head(todo), m, taken)
               /\ WroteAll(Head(todo), m, taken) \/ WroteSome(m, taken)
  <2>1. n + 1 \in Nat
    BY <1>1
  <2>2. Writes(Head(todo), n, n + 1)
    BY <1>3 DEF WriteFails, TakenBefore
  <2>3. WroteSome(n, n + 1)
    BY <1>3 DEF WroteSome
  <2>. QED
    BY <2>1, <2>2, <2>3, Zenon
<1>. QED
  BY <1>2, <1>3 DEF Write

\* Every step keeps the types.
LEMMA PipeInit == Init => PipeInv
<1> SUFFICES ASSUME Init PROVE PipeInv
  OBVIOUS
<1>1. MuxT
  <2>1. registered = <<>> /\ continuity_counters = <<>> /\ output = <<>>
    BY DEF Init, MuxInit
  <2>. QED
    BY <2>1, EmptySeq DEF MuxT
<1>2. codecs = <<>> /\ timelines = <<>> /\ DOMAIN codecs = {}
  BY EmptySeq DEF Init, TranscoderInit
<1>3. TransT
  BY <1>2 DEF TransT
<1>4. /\ held = <<>> /\ todo = <<>> /\ phase = "probing" /\ faults = 0
      /\ fate = [p \in Pids |-> "clean"] /\ DOMAIN streams = {}
  BY DEF Init, DemuxInit
<1>5. MaxEncoded \in Nat /\ MaxFaults \in Nat
  BY TranscoderAssumption, FaultsAssumption
<1>6. AppT
  BY <1>2, <1>4, <1>5, EmptySeq DEF AppT
<1>. QED
  BY <1>1, <1>3, <1>6, SourceDemuxInit DEF PipeInv

LEMMA FateStep ==
  ASSUME PipeInv, [Next]_vars
  PROVE  fate' \in [Pids -> {"clean", "cut", "other"}]
<1>1. fate \in [Pids -> {"clean", "cut", "other"}]
  BY DEF PipeInv, AppT
<1>2. ASSUME NEW p \in Pids, NEW f \in NextFrames(p), Receive(f)
      PROVE  fate' \in [Pids -> {"clean", "cut", "other"}]
  BY <1>1, <1>2 DEF Receive, BefallsRead
<1>3. ASSUME NEW p \in Pids, NEW f \in NextFrames(p), LoseFrame(f)
      PROVE  fate' \in [Pids -> {"clean", "cut", "other"}]
  BY <1>1, <1>3 DEF LoseFrame, BefallsLost, history
<1>4. CASE ReceivePMT
  BY <1>1, <1>4 DEF ReceivePMT, BefallsTable
<1>5. CASE ReceivePAT \/ StartOutput \/ HeaderFails \/ Transcode \/ Write \/ UNCHANGED vars
  <2>1. UNCHANGED history
    BY <1>5 DEF ReceivePAT, StartOutput, HeaderFails, Transcode, Write, vars
  <2>. QED
    BY <1>1, <2>1 DEF history
<1>. QED
  BY <1>2, <1>3, <1>4, <1>5 DEF Next

LEMMA PipeStep ==
  ASSUME PipeInv, [Next]_vars
  PROVE  PipeInv'
<1>1. SourceT' /\ DemuxT'
  BY SourceDemuxStep DEF PipeInv
<1>2. fate' \in [Pids -> {"clean", "cut", "other"}]
  BY FateStep
<1>3. MaxEncoded \in Nat /\ MaxFaults \in Nat
  BY TranscoderAssumption, FaultsAssumption
<1>4. ASSUME NEW p \in Pids, NEW f \in NextFrames(p), Receive(f)
      PROVE  MuxT' /\ TransT' /\ AppT'
  <2>1. /\ UNCHANGED <<transcodervars, muxvars, phase, listing, todo, faults>>
        /\ ReadFrame(f) /\ Reading /\ f.pid = p
        /\ held' = IF given'[p] = given[p] THEN <<>> ELSE <<Given(p)>>
    BY <1>4, FrameFacts DEF Receive, PipeInv
  <2>2. MuxT' /\ TransT'
    BY <2>1 DEF PipeInv, muxvars, transcodervars, MuxT, TransT
  <2>3. /\ DOMAIN streams' = DOMAIN streams
        /\ p \notin DOMAIN streams => given' = given
        /\ given'[p] # given[p] => Given(p) \in MediaPackets
    BY <2>1, GivenType DEF PipeInv
  <2>4. held' \in Seq(MediaPackets) /\ Len(held') <= 1
    BY <2>1, <2>3, EmptySeq
  <2>5. phase = "probing" \/ phase = "copying"
    BY <2>1 DEF Reading
  <2>6. phase = "probing" => held' = <<>>
    BY <2>1, <2>3 DEF PipeInv, AppT
  <2>7. AppT'
    BY <1>2, <2>1, <2>3, <2>4, <2>5, <2>6
       DEF PipeInv, AppT, muxvars, transcodervars
  <2>. QED
    BY <2>2, <2>7
<1>5. ASSUME NEW p \in Pids, NEW f \in NextFrames(p), LoseFrame(f)
      PROVE  MuxT' /\ TransT' /\ AppT'
  <2>1. UNCHANGED <<demuxvars, transcodervars, muxvars, appvars, faults>>
    BY <1>5 DEF LoseFrame
  <2>. QED
    BY <1>2, <2>1 DEF PipeInv, MuxT, TransT, AppT, demuxvars, transcodervars, muxvars, appvars
<1>6. CASE ReceivePAT
  <2>1. /\ UNCHANGED <<transcodervars, muxvars, appvars, faults>> /\ streams' = streams
    BY <1>6 DEF ReceivePAT, ReadPAT
  <2>. QED
    BY <1>1, <1>2, <2>1 DEF PipeInv, MuxT, TransT, AppT, transcodervars, muxvars, appvars
<1>7. CASE ReceivePMT
  <2>1. /\ UNCHANGED <<transcodervars, muxvars, held, todo, faults>>
        /\ streams' = IF pmt_pid THEN [p \in Pids |-> NoBuilder] ELSE streams
        /\ IF phase = "probing" /\ pmt_pid
           THEN phase' = "listed" /\ listing' \in Orders
           ELSE UNCHANGED <<phase, listing>>
        /\ Reading
    BY <1>7 DEF ReceivePMT, ReadPMT
  <2>2. phase = "probing" \/ phase = "copying"
    BY <2>1 DEF Reading
  <2>. QED
    BY <1>1, <1>2, <2>1, <2>2 DEF PipeInv, MuxT, TransT, AppT, transcodervars, muxvars
<1>8. CASE StartOutput
  <2>1. /\ phase = "listed" /\ phase' = "copying" /\ codecs' = Types
        /\ timelines' = [i \in DOMAIN Types |-> 0] /\ Register(Types)
        /\ UNCHANGED <<streams, listing, held, todo, faults>>
    BY <1>8 DEF StartOutput, NewTranscoder, demuxvars
  <2>2. Types \in Seq(STRING) /\ Len(Types) = Len(Program) /\ DOMAIN Types = Pids
    BY <2>1, TypesType DEF PipeInv, AppT
  <2>3. MuxT' /\ Len(output') = Len(output) + Len(Types)
    BY <2>1, <2>2, RegisterEffect DEF PipeInv
  <2>4. Pids \subseteq DOMAIN output'
    <3>1. Len(output) \in Nat /\ DOMAIN output' = 1 .. Len(output) + Len(Types)
      BY <2>3, LenProperties DEF PipeInv, MuxT
    <3>. QED
      BY <2>2, <3>1, PidsType
  <2>5. TransT'
    BY <2>1, <2>2 DEF TransT
  <2>6. AppT'
    BY <1>2, <2>1, <2>2, <2>4 DEF PipeInv, AppT
  <2>. QED
    BY <1>1, <2>3, <2>5, <2>6 DEF PipeInv
<1>9. CASE HeaderFails
  <2>1. /\ phase = "listed" /\ faults < MaxFaults /\ faults' = faults + 1 /\ Register(Types)
        /\ UNCHANGED <<demuxvars, transcodervars, appvars>>
    BY <1>9 DEF HeaderFails
  <2>2. Types \in Seq(STRING)
    BY <2>1, TypesType DEF PipeInv, AppT
  <2>3. MuxT'
    BY <2>1, <2>2, RegisterEffect DEF PipeInv
  <2>. QED
    BY <1>1, <1>2, <1>3, <2>1, <2>3 DEF PipeInv, TransT, AppT, demuxvars, transcodervars, appvars
<1>10. CASE Transcode
  <2>1. /\ UNCHANGED <<streams, muxvars, phase, listing, faults>> /\ held # <<>> /\ held' = <<>>
    BY <1>10 DEF Transcode, demuxvars
  <2>2. PICK pkt \in MediaPackets : /\ pkt = Head(held) /\ phase = "copying"
                                    /\ timelines[pkt.stream_index] \in Int
                                    /\ pkt.stream_index \in Pids /\ Pids = DOMAIN codecs
    BY <2>1, HeldPacket
  <2>3. codecs' = codecs
    BY <1>10, TranscodeEffect
  <2>4. todo' \in Seq(MediaPackets) /\ Len(todo') <= MaxEncoded + 1 /\ TransT'
    <3>1. CASE todo' = held /\ timelines' = timelines
      BY <1>3, <2>3, <3>1 DEF PipeInv, AppT, TransT
    <3>2. ASSUME NEW k \in 0 .. MaxEncoded, todo' = Encoded(pkt, k),
                 timelines' = [timelines EXCEPT ![pkt.stream_index] =
                                 timelines[pkt.stream_index] + k * Duration]
          PROVE  todo' \in Seq(MediaPackets) /\ Len(todo') <= MaxEncoded + 1 /\ TransT'
      <4>1. k \in Nat
        BY <1>3
      <4>2. todo' \in Seq(MediaPackets) /\ Len(todo') = k
        BY <2>2, <3>2, <4>1, EncodedType
      <4>3. PICK t \in Int : t = timelines[pkt.stream_index] + k * Duration
        BY <2>2, <4>1, TranscoderAssumption
      <4>4. TransT'
        BY <2>3, <3>2, <4>3 DEF PipeInv, TransT
      <4>. QED
        BY <1>3, <4>1, <4>2, <4>4
    <3>. QED
      BY <1>10, <2>2, <3>1, <3>2, TranscodeEffect, Zenon
  <2>5. MuxT'
    BY <2>1 DEF PipeInv, MuxT, muxvars
  <2>6. AppT'
    BY <1>2, <2>1, <2>2, <2>3, <2>4, EmptySeq DEF PipeInv, AppT, muxvars
  <2>. QED
    BY <1>1, <2>4, <2>5, <2>6 DEF PipeInv
<1>11. CASE Write
  <2>1. /\ UNCHANGED <<streams, transcodervars, phase, listing, held>>
        /\ todo # <<>> /\ todo' = Tail(todo)
    BY <1>11 DEF Write, demuxvars
  <2>2. PICK pkt \in MediaPackets : pkt = Head(todo) /\ pkt.stream_index \in DOMAIN output
    BY <2>1, TodoPacket
  <2>3. PICK n \in 0 .. PieceCount(pkt.len), taken \in Nat :
          Writes(pkt, n, taken) /\ (WroteAll(pkt, n, taken) \/ WroteSome(n, taken))
    BY <1>11, <2>2, WriteParts
  <2>4. MuxT' /\ DOMAIN output' = DOMAIN output
    BY <2>2, <2>3, WriteEffect, Zenon DEF PipeInv
  <2>5. faults' \in 0 .. MaxFaults
    BY <1>3, <2>3 DEF WroteAll, WroteSome, PipeInv, AppT
  <2>6. todo' \in Seq(MediaPackets) /\ Len(todo') <= MaxEncoded + 1 /\ phase = "copying"
    BY <1>3, <2>1, TodoPacket, LenProperties DEF PipeInv, AppT
  <2>7. TransT'
    BY <2>1 DEF PipeInv, TransT, transcodervars
  <2>8. AppT'
    BY <1>2, <2>1, <2>4, <2>5, <2>6 DEF PipeInv, AppT, transcodervars
  <2>. QED
    BY <1>1, <2>4, <2>7, <2>8 DEF PipeInv
<1>12. CASE UNCHANGED vars
  BY <1>1, <1>2, <1>12 DEF PipeInv, MuxT, TransT, AppT, vars, demuxvars, transcodervars, muxvars, appvars, history
<1>. QED
  BY <1>1, <1>4, <1>5, <1>6, <1>7, <1>8, <1>9, <1>10, <1>11, <1>12 DEF Next, PipeInv

LEMMA PipeInvType == PipeInv => TypeOK
<1> SUFFICES ASSUME PipeInv PROVE TypeOK
  OBVIOUS
<1>1. \A i \in DOMAIN continuity_counters : continuity_counters[i] \in 0 .. CounterMod - 1
  BY LenProperties DEF PipeInv, MuxT, Counters
<1>. QED
  BY <1>1 DEF PipeInv, DemuxT, MuxT, AppT, TypeOK

\* The states of the demuxer, the transcoder, the muxer and the application fit
\* together: a list of streams is there when output starts, every stream of a
\* packet has a timeline and a counter below its modulus, and no more is held or
\* to be written than one packet makes.
THEOREM PipelineTypeCorrect == Spec => []TypeOK
<1>1. Init => PipeInv
  BY PipeInit
<1>2. PipeInv /\ [Next]_vars => PipeInv'
  BY PipeStep
<1>. QED
  BY <1>1, <1>2, PipeInvType, PTL DEF Spec

------------------------------------------------------------------------------
(* The times of transcoded streams. *)

\* What is in o has passed before time t.
Over(o, t) == \A j \in DOMAIN o : o[j].pts + Duration <= t

Advances(o) ==
  \A j, k \in DOMAIN o : j < k /\ o[k].start => o[k].pts >= o[j].pts + Duration

\* The packets of w that belong to stream i follow on o and on each other, and
\* end before t.
Follows(w, i, o, t) ==
  /\ \A m \in DOMAIN w : w[m].stream_index = i => Over(o, w[m].pts) /\ w[m].pts + Duration <= t
  /\ \A m, n \in DOMAIN w : m < n /\ w[m].stream_index = i /\ w[n].stream_index = i =>
       w[m].pts + Duration <= w[n].pts

\* Times are taken from the timeline in the order in which they are written.
TimesInv ==
  /\ phase # "copying" => \A i \in DOMAIN output : output[i] = <<>>
  /\ \A i \in DOMAIN codecs : codecs[i] \in Transcoded =>
       /\ Over(output[i], timelines[i]) /\ Follows(todo, i, output[i], timelines[i])
       /\ Advances(output[i])

LEMMA EmptyFollows ==
  ASSUME NEW o, NEW t, NEW i
  PROVE  Follows(<<>>, i, o, t) /\ Over(<<>>, t) /\ Advances(<<>>)
<1>1. DOMAIN <<>> = {}
  BY EmptySeq
<1>. QED
  BY <1>1 DEF Follows, Over, Advances

\* The TS packets of one packet follow on those before it.
LEMMA WrittenFollows ==
  ASSUME PipeInv, TimesInv, Write, Head(todo).stream_index \in DOMAIN codecs,
         codecs[Head(todo).stream_index] \in Transcoded
  PROVE  LET i == Head(todo).stream_index IN
         /\ Over(output'[i], timelines[i]) /\ Follows(Tail(todo), i, output'[i], timelines[i])
         /\ Advances(output'[i])
<1>1. todo # <<>>
  BY DEF Write
<1>2. PICK pkt \in MediaPackets, i \in DOMAIN output :
        pkt = Head(todo) /\ i = pkt.stream_index /\ pkt = todo[1]
  BY <1>1, TodoPacket
<1>3. PICK n \in 0 .. PieceCount(pkt.len), taken \in Nat : Writes(pkt, n, taken)
  BY <1>2, WriteParts
<1>4. PICK len \in Nat : /\ len = Len(output[i]) /\ DOMAIN output[i] = 1 .. len
                         /\ DOMAIN output'[i] = 1 .. len + n
                         /\ \A j \in 1 .. len : output'[i][j] = output[i][j]
                         /\ \A k \in 1 .. n : output'[i][len + k] = Piece(pkt, k)
  BY <1>2, <1>3, WriteEffect, Zenon DEF PipeInv
<1>5. PieceCount(pkt.len) \in Nat /\ n \in Nat /\ pkt.pts \in Int /\ Duration \in Int
  <2>1. PieceCount(pkt.len) \in Nat
    BY PieceFacts DEF MediaPackets
  <2>. QED
    BY <2>1, TranscoderAssumption DEF MediaPackets
<1>6. PICK t \in Int, x \in Int : t = timelines[i] /\ x = pkt.pts
  BY <1>2, <1>5 DEF PipeInv, TransT
<1>7. \A k \in 1 .. n : Piece(pkt, k).pts = x /\ (Piece(pkt, k).start <=> k = 1)
  <2>1. ASSUME NEW k \in 1 .. n
        PROVE  Piece(pkt, k).pts = x /\ (Piece(pkt, k).start <=> k = 1)
    <3>1. k \in 1 .. PieceCount(pkt.len)
      BY <1>5
    <3>2. Piece(pkt, k).pts = pkt.pts /\ Piece(pkt, k).start = (k = 1)
      BY <1>2, <3>1, PieceType DEF PipeInv
    <3>. QED
      BY <1>6, <3>2
  <2>. QED
    BY <2>1
<1>8. /\ Over(output[i], t) /\ Advances(output[i])
      /\ \A m \in DOMAIN todo : todo[m].stream_index = i =>
           Over(output[i], todo[m].pts) /\ todo[m].pts + Duration <= t
      /\ \A m, l \in DOMAIN todo : m < l /\ todo[m].stream_index = i /\ todo[l].stream_index = i =>
           todo[m].pts + Duration <= todo[l].pts
  BY <1>2, <1>6 DEF TimesInv, Follows
<1>9. Len(todo) \in Nat /\ Len(todo) >= 1 /\ DOMAIN todo = 1 .. Len(todo)
  BY <1>1, LenProperties, EmptySeq DEF PipeInv, AppT
<1>10. Over(output[i], x) /\ x + Duration <= t
  BY <1>2, <1>6, <1>8, <1>9
<1>11. \A j \in 1 .. len : output[i][j].pts \in Int
  <2>1. PICK o \in Seq(Pieces) : o = output[i]
    BY LenProperties DEF PipeInv, MuxT
  <2>2. \A j \in 1 .. len : o[j] \in Pieces
    BY <1>4, <2>1, LenProperties
  <2>. QED
    BY <2>1, <2>2 DEF Pieces
<1>12. ASSUME NEW j \in DOMAIN output'[i]
       PROVE  \/ j \in 1 .. len /\ output'[i][j] = output[i][j]
              \/ j > len /\ output'[i][j].pts = x /\ (output'[i][j].start <=> j = len + 1)
  <2>1. CASE j <= len
    BY <1>4, <1>5, <2>1
  <2>2. CASE j > len
    <3>1. PICK k \in 1 .. n : j = len + k
      <4>1. j - len \in 1 .. n /\ j = len + (j - len)
        BY <1>4, <1>5, <2>2
      <4>. QED
        BY <4>1
    <3>2. output'[i][j] = Piece(pkt, k) /\ (k = 1 <=> j = len + 1)
      BY <1>4, <1>5, <3>1
    <3>3. output'[i][j].pts = x /\ (output'[i][j].start <=> k = 1)
      BY <1>7, <3>2
    <3>. QED
      BY <2>2, <3>2, <3>3
  <2>. QED
    BY <1>4, <1>5, <2>1, <2>2
<1>13. ASSUME NEW s \in Int, Over(output[i], s), x + Duration <= s
       PROVE  Over(output'[i], s)
  <2>1. ASSUME NEW j \in DOMAIN output'[i]
        PROVE  output'[i][j].pts + Duration <= s
    <3>1. CASE j \in 1 .. len /\ output'[i][j] = output[i][j]
      BY <1>4, <1>13, <3>1 DEF Over
    <3>2. CASE output'[i][j].pts = x
      BY <1>13, <3>2
    <3>. QED
      BY <1>12, <3>1, <3>2
  <2>. QED
    BY <2>1 DEF Over
<1>14. Over(output'[i], t)
  BY <1>8, <1>10, <1>13
<1>15. Advances(output'[i])
  <2>1. ASSUME NEW j \in DOMAIN output'[i], NEW k \in DOMAIN output'[i], j < k, output'[i][k].start
        PROVE  output'[i][k].pts >= output'[i][j].pts + Duration
    <3>1. j \in Int /\ k \in Int
      BY <1>4
    <3>2. CASE k \in 1 .. len /\ output'[i][k] = output[i][k]
      <4>1. j \in 1 .. len /\ output'[i][j] = output[i][j]
        BY <1>4, <1>12, <2>1, <3>1, <3>2
      <4>. QED
        BY <1>4, <1>8, <2>1, <3>2, <4>1 DEF Advances
    <3>3. CASE k > len /\ output'[i][k].pts = x /\ k = len + 1
      <4>1. j \in 1 .. len /\ output'[i][j] = output[i][j]
        BY <1>4, <1>12, <2>1, <3>1, <3>3
      <4>2. output[i][j].pts + Duration <= x
        BY <1>4, <1>10, <4>1 DEF Over
      <4>. QED
        BY <1>5, <1>6, <1>11, <3>3, <4>1, <4>2
    <3>. QED
      BY <1>12, <2>1, <3>2, <3>3
  <2>. QED
    BY <2>1 DEF Advances
<1>16. Follows(Tail(todo), i, output'[i], t)
  <2>1. PICK w \in Seq(MediaPackets) : /\ w = Tail(todo) /\ DOMAIN w = 1 .. Len(todo) - 1
                                       /\ \A m \in DOMAIN w : w[m] = todo[m + 1]
    BY <1>1, <1>9, TodoPacket, LenProperties
  <2>2. ASSUME NEW m \in DOMAIN w, w[m].stream_index = i
        PROVE  Over(output'[i], w[m].pts) /\ w[m].pts + Duration <= t
    <3>1. m + 1 \in DOMAIN todo /\ 1 \in DOMAIN todo /\ 1 < m + 1 /\ w[m] = todo[m + 1]
      BY <1>9, <2>1
    <3>2. Over(output[i], w[m].pts) /\ w[m].pts + Duration <= t /\ x + Duration <= w[m].pts
      BY <1>2, <1>6, <1>8, <2>2, <3>1
    <3>3. w[m].pts \in Int
      <4>1. w[m] \in MediaPackets
        BY <2>1, LenProperties
      <4>. QED
        BY <4>1 DEF MediaPackets
    <3>. QED
      BY <1>13, <3>2, <3>3
  <2>3. ASSUME NEW m \in DOMAIN w, NEW l \in DOMAIN w, m < l,
               w[m].stream_index = i, w[l].stream_index = i
        PROVE  w[m].pts + Duration <= w[l].pts
    <3>1. /\ m + 1 \in DOMAIN todo /\ l + 1 \in DOMAIN todo /\ m + 1 < l + 1
          /\ w[m] = todo[m + 1] /\ w[l] = todo[l + 1]
      BY <1>9, <2>1, <2>3
    <3>. QED
      BY <1>8, <2>3, <3>1
  <2>4. Follows(w, i, output'[i], t)
    BY <2>2, <2>3, Zenon DEF Follows
  <2>. QED
    BY <2>1, <2>4
<1>. QED
  BY <1>2, <1>6, <1>14, <1>15, <1>16

\* The packets that the encoder makes take their times from the timeline.
LEMMA EncodedFollows ==
  ASSUME NEW pkt \in MediaPackets, NEW i, i = pkt.stream_index, timelines[i] \in Int,
         NEW k \in Nat, NEW o, Over(o, timelines[i]), \A j \in DOMAIN o : o[j].pts \in Int
  PROVE  /\ Over(o, timelines[i] + k * Duration)
         /\ Follows(Encoded(pkt, k), i, o, timelines[i] + k * Duration)
<1>1. PICK t \in Int, d \in Nat : t = timelines[i] /\ d = Duration
  BY TranscoderAssumption
<1>2. PICK w \in Seq(MediaPackets) :
        /\ w = Encoded(pkt, k) /\ DOMAIN w = 1 .. k
        /\ \A m \in 1 .. k : w[m].pts = t + (m - 1) * d
  <2>1. /\ Encoded(pkt, k) \in Seq(MediaPackets) /\ Len(Encoded(pkt, k)) = k
        /\ \A m \in 1 .. k :
             Encoded(pkt, k)[m].pts = timelines[pkt.stream_index] + (m - 1) * Duration
    BY EncodedType, Zenon
  <2>2. DOMAIN Encoded(pkt, k) = 1 .. k
    BY <2>1, LenProperties
  <2>. QED
    BY <1>1, <2>1, <2>2, Zenon
<1>3. ASSUME NEW x \in Int, t <= x
      PROVE  Over(o, x)
  BY <1>1, <1>3 DEF Over
<1>4. PICK e \in Int : e = t + k * d /\ t <= e
  <2>1. 0 * d <= k * d /\ k * d \in Int /\ 0 * d = 0
    BY ProductGrows
  <2>. QED
    BY <2>1
<1>5. ASSUME NEW m \in 1 .. k
      PROVE  /\ (m - 1) * d \in Int /\ 0 <= (m - 1) * d
             /\ (m - 1) * d + d <= k * d
             /\ \A n \in 1 .. k : m < n => (m - 1) * d + d <= (n - 1) * d
  <2>1. PICK a \in Nat : a = m - 1
    OBVIOUS
  <2>2. /\ 0 * d <= a * d /\ 0 * d = 0 /\ a * d \in Int
        /\ (a + 1) * d <= k * d /\ k * d \in Int
    BY <2>1, ProductGrows
  <2>3. (a + 1) * d = a * d + d
    BY <2>1
  <2>4. ASSUME NEW n \in 1 .. k, m < n
        PROVE  (a + 1) * d <= (n - 1) * d
    <3>1. a + 1 <= n - 1 /\ n - 1 \in Int /\ a + 1 \in Int
      BY <2>1, <2>4
    <3>. QED
      BY <3>1, ProductGrows
  <2>. QED
    BY <2>1, <2>2, <2>3, <2>4
<1>6. ASSUME NEW m \in DOMAIN w
      PROVE  Over(o, w[m].pts) /\ w[m].pts + Duration <= e
  <2>1. PICK y \in Int : y = (m - 1) * d /\ 0 <= y /\ y + d <= k * d /\ w[m].pts = t + y
    BY <1>2, <1>5
  <2>2. PICK z \in Int : z = k * d
    OBVIOUS
  <2>3. y + d <= z /\ e = t + z /\ 0 <= y
    BY <1>4, <2>1, <2>2, Zenon
  <2>4. t <= t + y /\ t + y \in Int /\ (t + y) + d <= e
    BY <2>3
  <2>. QED
    BY <1>1, <1>3, <2>1, <2>4
<1>7. ASSUME NEW m \in DOMAIN w, NEW n \in DOMAIN w, m < n
      PROVE  w[m].pts + Duration <= w[n].pts
  <2>1. PICK y \in Int : y = (m - 1) * d /\ w[m].pts = t + y /\ y + d <= (n - 1) * d
    BY <1>2, <1>5, <1>7
  <2>2. PICK z \in Int : z = (n - 1) * d /\ w[n].pts = t + z
    BY <1>2, <1>5
  <2>3. y + d <= z
    BY <2>1, <2>2, Zenon
  <2>4. w[m].pts = t + y /\ w[n].pts = t + z
    BY <2>1, <2>2, Zenon
  <2>5. (t + y) + d <= t + z
    BY <2>3
  <2>. QED
    BY <1>1, <2>4, <2>5
<1>8. Follows(w, i, o, e)
  BY <1>6, <1>7, Zenon DEF Follows
<1>. QED
  BY <1>1, <1>2, <1>3, <1>4, <1>8

LEMMA PiecePts ==
  ASSUME PipeInv, NEW i \in DOMAIN output
  PROVE  \A j \in DOMAIN output[i] : output[i][j].pts \in Int
<1>1. PICK o \in Seq(Pieces) : o = output[i]
  BY LenProperties DEF PipeInv, MuxT
<1>2. \A j \in DOMAIN o : o[j] \in Pieces
  BY <1>1, LenProperties
<1>. QED
  BY <1>1, <1>2 DEF Pieces

\* New streams have nothing written.
LEMMA NothingWritten ==
  ASSUME PipeInv, TimesInv, phase = "listed", Register(Types)
  PROVE  \A i \in DOMAIN output' : output'[i] = <<>>
<1>1. Types \in Seq(STRING)
  BY TypesType DEF PipeInv, AppT
<1>2. \A i \in DOMAIN output' : i \in DOMAIN output => output'[i] = output[i]
  BY <1>1, RegisterEffect DEF PipeInv
<1>3. \A i \in DOMAIN output' : i \notin DOMAIN output => output'[i] = <<>>
  BY <1>1, RegisterEffect DEF PipeInv
<1>. QED
  BY <1>2, <1>3 DEF TimesInv

LEMMA TimesStep ==
  ASSUME PipeInv, TimesInv, [Next]_vars
  PROVE  TimesInv'
<1>1. CASE /\ UNCHANGED <<transcodervars, muxvars, todo>>
           /\ phase' = "copying" <=> phase = "copying"
  BY <1>1 DEF TimesInv, Over, Follows, Advances, transcodervars, muxvars
<1>2. ASSUME NEW p \in Pids, NEW f \in NextFrames(p), Receive(f) \/ LoseFrame(f)
      PROVE  TimesInv'
  <2>1. UNCHANGED <<transcodervars, muxvars, todo, phase>>
    BY <1>2 DEF Receive, LoseFrame, appvars
  <2>. QED
    BY <1>1, <2>1
<1>3. CASE ReceivePAT \/ UNCHANGED vars
  <2>1. UNCHANGED <<transcodervars, muxvars, todo, phase>>
    BY <1>3 DEF ReceivePAT, appvars, vars
  <2>. QED
    BY <1>1, <2>1
<1>4. CASE ReceivePMT
  <2>1. UNCHANGED <<transcodervars, muxvars, todo>>
    BY <1>4 DEF ReceivePMT
  <2>2. phase' = "copying" <=> phase = "copying"
    BY <1>4 DEF ReceivePMT
  <2>. QED
    BY <1>1, <2>1, <2>2
<1>5. CASE StartOutput
  <2>1. /\ phase = "listed" /\ phase' = "copying" /\ codecs' = Types /\ Register(Types)
        /\ todo' = todo /\ todo = <<>> /\ Types \in Seq(STRING) /\ DOMAIN Types = Pids
    BY <1>5, TypesType DEF StartOutput, NewTranscoder, PipeInv, AppT
  <2>2. \A i \in DOMAIN codecs' : output'[i] = <<>>
    <3>1. \A i \in DOMAIN output' : output'[i] = <<>>
      BY <2>1, NothingWritten
    <3>2. AppT'
      BY PipeStep DEF PipeInv
    <3>. QED
      BY <2>1, <3>1, <3>2 DEF AppT
  <2>3. ASSUME NEW i \in DOMAIN codecs'
        PROVE  /\ Over(output'[i], timelines'[i]) /\ Follows(todo', i, output'[i], timelines'[i])
               /\ Advances(output'[i])
    BY <2>1, <2>2, EmptyFollows
  <2>4. \A i \in DOMAIN codecs' :
          (/\ Over(output[i], timelines[i]) /\ Follows(todo, i, output[i], timelines[i])
           /\ Advances(output[i]))'
    BY <2>3 DEF Over, Follows, Advances
  <2>. QED
    BY <2>1, <2>4, Zenon DEF TimesInv
<1>6. CASE HeaderFails
  <2>1. UNCHANGED <<transcodervars, phase, todo>> /\ phase = "listed" /\ Register(Types)
    BY <1>6 DEF HeaderFails, appvars
  <2>2. \A i \in DOMAIN output' : output'[i] = <<>>
    BY <2>1, NothingWritten
  <2>3. DOMAIN codecs' = {}
    BY <2>1 DEF PipeInv, AppT, transcodervars
  <2>. QED
    BY <2>2, <2>3 DEF TimesInv
<1>7. CASE Transcode
  <2>1. UNCHANGED muxvars /\ phase' = phase /\ held # <<>>
    BY <1>7 DEF Transcode
  <2>2. PICK pkt \in MediaPackets :
          /\ pkt = Head(held) /\ phase = "copying" /\ timelines[pkt.stream_index] \in Int
          /\ pkt.stream_index \in Pids /\ Pids = DOMAIN codecs
    BY <2>1, HeldPacket
  <2>3. codecs' = codecs /\ output' = output
    BY <1>7, <2>1, TranscodeEffect DEF muxvars
  <2>4. ASSUME NEW i \in DOMAIN codecs, codecs[i] \in Transcoded
        PROVE  Over(output[i], timelines'[i]) /\ Follows(todo', i, output[i], timelines'[i])
    <3>1. Over(output[i], timelines[i])
      BY <2>4 DEF TimesInv
    <3>2. CASE Passes(pkt) /\ todo' = held /\ timelines' = timelines
      <4>1. pkt.stream_index # i
        BY <2>2, <2>4, <3>2 DEF Passes
      <4>2. \A m \in DOMAIN todo' : todo'[m] = pkt
        <5>1. held \in Seq(MediaPackets) /\ Len(held) <= 1
          BY DEF PipeInv, AppT
        <5>2. DOMAIN held = 1 .. Len(held) /\ Len(held) \in Nat /\ pkt = held[1]
          BY <2>1, <2>2, <5>1, LenProperties, HeadTailProperties
        <5>. QED
          BY <3>2, <5>1, <5>2
      <4>3. Follows(todo', i, output[i], timelines'[i])
        BY <4>1, <4>2 DEF Follows
      <4>. QED
        BY <3>1, <3>2, <4>3
    <3>3. ASSUME NEW k \in 0 .. MaxEncoded, todo' = Encoded(pkt, k),
                 timelines' = [timelines EXCEPT ![pkt.stream_index] =
                                 timelines[pkt.stream_index] + k * Duration]
          PROVE  Over(output[i], timelines'[i]) /\ Follows(todo', i, output[i], timelines'[i])
      <4>1. k \in Nat /\ DOMAIN timelines = DOMAIN codecs
        BY TranscoderAssumption DEF PipeInv, TransT
      <4>2. CASE i = pkt.stream_index
        <5>1. timelines'[i] = timelines[i] + k * Duration
          BY <2>4, <3>3, <4>1, <4>2
        <5>2. i \in DOMAIN output
          BY <2>2, <2>4 DEF PipeInv, AppT
        <5>3. /\ Over(output[i], timelines[i] + k * Duration)
              /\ Follows(Encoded(pkt, k), i, output[i], timelines[i] + k * Duration)
          BY <2>2, <3>1, <4>1, <4>2, <5>2, PiecePts, EncodedFollows
        <5>. QED
          BY <3>3, <5>1, <5>3
      <4>3. CASE i # pkt.stream_index
        <5>1. timelines'[i] = timelines[i]
          BY <2>4, <3>3, <4>1, <4>3
        <5>2. PICK w \in Seq(MediaPackets) :
                w = todo' /\ \A m \in DOMAIN w : w[m].stream_index = pkt.stream_index
          <6>1. /\ Encoded(pkt, k) \in Seq(MediaPackets) /\ Len(Encoded(pkt, k)) = k
                /\ \A j \in 1 .. k : Encoded(pkt, k)[j].stream_index = pkt.stream_index
            BY <2>2, <4>1, EncodedType
          <6>2. DOMAIN Encoded(pkt, k) = 1 .. k
            BY <6>1, LenProperties
          <6>. QED
            BY <3>3, <6>1, <6>2
        <5>3. Follows(w, i, output[i], timelines[i])
          BY <4>3, <5>2 DEF Follows
        <5>. QED
          BY <3>1, <5>1, <5>2, <5>3
      <4>. QED
        BY <4>2, <4>3
    <3>. QED
      BY <1>7, <2>2, <3>2, <3>3, TranscodeEffect, Zenon
  <2>5. ASSUME NEW i \in DOMAIN codecs', codecs'[i] \in Transcoded
        PROVE  (/\ Over(output[i], timelines[i]) /\ Follows(todo, i, output[i], timelines[i])
                /\ Advances(output[i]))'
    <3>1. Advances(output[i])
      BY <2>3, <2>5 DEF TimesInv
    <3>2. Over(output[i], timelines'[i]) /\ Follows(todo', i, output[i], timelines'[i])
      BY <2>3, <2>4, <2>5
    <3>. QED
      BY <2>3, <3>1, <3>2 DEF Over, Follows, Advances
  <2>. QED
    BY <2>1, <2>2, <2>5, Zenon DEF TimesInv
<1>8. CASE Write
  <2>1. UNCHANGED <<transcodervars, phase>> /\ todo # <<>> /\ todo' = Tail(todo)
    BY <1>8 DEF Write
  <2>2. PICK pkt \in MediaPackets :
          pkt = Head(todo) /\ pkt.stream_index \in DOMAIN output /\ phase = "copying"
    BY <2>1, TodoPacket
  <2>3. PICK n \in 0 .. PieceCount(pkt.len), taken \in Nat : Writes(pkt, n, taken)
    BY <1>8, <2>2, WriteParts
  <2>4. \A j \in DOMAIN output : j # pkt.stream_index => output'[j] = output[j]
    BY <2>2, <2>3, WriteEffect, Zenon DEF PipeInv
  <2>5. PICK w \in Seq(MediaPackets) :
          /\ w = Tail(todo) /\ \A m \in DOMAIN w : w[m] = todo[m + 1] /\ m + 1 \in DOMAIN todo
          /\ DOMAIN w \subseteq Nat
    <3>1. PICK w \in Seq(MediaPackets) : /\ w = Tail(todo) /\ Len(w) = Len(todo) - 1
                                         /\ \A m \in DOMAIN w : w[m] = todo[m + 1]
      BY <2>1, TodoPacket
    <3>2. DOMAIN w = 1 .. Len(w) /\ DOMAIN todo = 1 .. Len(todo) /\ Len(w) \in Nat /\ Len(todo) \in Nat
      BY LenProperties DEF PipeInv, AppT
    <3>. QED
      BY <3>1, <3>2
  <2>6. ASSUME NEW i \in DOMAIN codecs, codecs[i] \in Transcoded
        PROVE  /\ Over(output'[i], timelines[i]) /\ Follows(w, i, output'[i], timelines[i])
               /\ Advances(output'[i])
    <3>1. CASE i = pkt.stream_index
      BY <1>8, <2>2, <2>5, <2>6, <3>1, WrittenFollows
    <3>2. CASE i # pkt.stream_index
      <4>1. i \in DOMAIN output
        BY <2>2, <2>6 DEF PipeInv, AppT
      <4>2. output'[i] = output[i]
        BY <2>4, <3>2, <4>1
      <4>3. /\ Over(output[i], timelines[i]) /\ Follows(todo, i, output[i], timelines[i])
            /\ Advances(output[i])
        BY <2>6 DEF TimesInv
      <4>4. Follows(w, i, output[i], timelines[i])
        BY <2>5, <4>3 DEF Follows
      <4>. QED
        BY <4>2, <4>3, <4>4
    <3>. QED
      BY <3>1, <3>2
  <2>7. ASSUME NEW i \in DOMAIN codecs', codecs'[i] \in Transcoded
        PROVE  (/\ Over(output[i], timelines[i]) /\ Follows(todo, i, output[i], timelines[i])
                /\ Advances(output[i]))'
    BY <2>1, <2>5, <2>6, <2>7 DEF transcodervars, Over, Follows, Advances
  <2>. QED
    BY <2>1, <2>2, <2>7, Zenon DEF TimesInv
<1>. QED
  BY <1>2, <1>3, <1>4, <1>5, <1>6, <1>7, <1>8 DEF Next

\* The times of a transcoded stream advance by a packet's duration at least, for
\* whatever the codecs hold back, refuse or give out at once and whichever
\* writes fail (transcode_packet of av/transcode/mod.rs, write_packet of
\* format/ts/muxer.rs).
THEOREM TimesAlwaysAdvance == Spec => []TimesAdvance
<1>1. Init => PipeInv /\ TimesInv
  <2>1. Init => codecs = <<>> /\ output = <<>>
    BY DEF Init, TranscoderInit, MuxInit
  <2>2. Init => TimesInv
    BY <2>1, EmptySeq DEF TimesInv
  <2>. QED
    BY <2>2, PipeInit
<1>2. PipeInv /\ TimesInv /\ [Next]_vars => (PipeInv /\ TimesInv)'
  BY PipeStep, TimesStep
<1>3. PipeInv /\ TimesInv => TimesAdvance
  BY DEF TimesInv, TimesAdvance, Advances
<1>. QED
  BY <1>1, <1>2, <1>3, PTL DEF Spec

------------------------------------------------------------------------------
(* Failed writes and continuity counters. *)

LastOf(o) == o[Len(o)]

\* What a reader sees of two neighbours of the output.
SeenAt(a, b, faulty) ==
  IF b.counter = (a.counter + 1) % CounterMod
  THEN Continues(a, b) \/ (b.start /\ a.offset + a.bytes = a.len)
  ELSE faulty > 0 /\ b.start

Seen(o, faulty) == \A k \in 1 .. Len(o) - 1 : SeenAt(o[k], o[k + 1], faulty)

\* Since the last TS packet of o the counter, now c, has been taken d times by
\* writes that failed.
Skipped(o, c, d) ==
  /\ c = (LastOf(o).counter + d) % CounterMod
  /\ d = 0 => LastOf(o).offset + LastOf(o).bytes = LastOf(o).len

SeenInv ==
  \A i \in DOMAIN output :
    /\ output[i] # <<>> => \E d \in 0 .. faults : Skipped(output[i], continuity_counters[i], d)
    /\ Seen(output[i], faults)

\* The same of one stream whose output is o and counter c.
SeenSoFar(o, c, faulty) ==
  /\ o # <<>> => \E d \in 0 .. faulty : Skipped(o, c, d)
  /\ Seen(o, faulty)

\* In new the first n TS packets of one packet come after those of old.
Extends(old, new, c, n) ==
  /\ Len(new) = Len(old) + n
  /\ \A j \in 1 .. Len(old) : new[j] = old[j]
  /\ \A k \in 1 .. n : /\ new[Len(old) + k].counter = (c + k) % CounterMod
                       /\ new[Len(old) + k].start <=> k = 1
  /\ \A k \in 1 .. n - 1 : Continues(new[Len(old) + k], new[Len(old) + (k + 1)])

Whole(new) == LastOf(new).offset + LastOf(new).bytes = LastOf(new).len

\* A gap smaller than the turn of the counter shows.
LEMMA GapShows ==
  ASSUME NEW M \in Nat \ {0}, NEW y \in Int, NEW d \in 0 .. M - 1, d # 0
  PROVE  (y + d) % M # y % M
<1>1. PICK z \in 0 .. M - 1 : z = 0
  OBVIOUS
<1>2. (y + d) % M # (y + z) % M
  BY <1>1, ModDistinct
<1>3. y + z = y
  BY <1>1
<1>. QED
  BY <1>2, <1>3

\* One packet written, all of it or a part, after the others of its stream.
LEMMA WrittenSeen ==
  ASSUME NEW old \in Seq(Pieces), NEW new \in Seq(Pieces), NEW c \in Counters, NEW e \in Counters,
         NEW n \in Nat, NEW taken \in Nat, taken = n \/ taken = n + 1,
         NEW few \in Nat, NEW more \in Nat, few <= more, more < CounterMod,
         taken = n + 1 => more = few + 1,
         Extends(old, new, c, n), n > 0 /\ taken = n => Whole(new),
         e = (c + taken) % CounterMod, SeenSoFar(old, c, few)
  PROVE  SeenSoFar(new, e, more)
<1>1. /\ Len(new) = Len(old) + n
      /\ \A j \in 1 .. Len(old) : new[j] = old[j]
      /\ \A k \in 1 .. n : /\ new[Len(old) + k].counter = (c + k) % CounterMod
                           /\ new[Len(old) + k].start <=> k = 1
      /\ \A k \in 1 .. n - 1 : Continues(new[Len(old) + k], new[Len(old) + (k + 1)])
      /\ n > 0 /\ taken = n => LastOf(new).offset + LastOf(new).bytes = LastOf(new).len
      /\ old # <<>> => \E d \in 0 .. few : Skipped(old, c, d)
      /\ Seen(old, few)
  BY DEF Extends, Whole, SeenSoFar
<1>2. PICK M \in Nat \ {0} : M = CounterMod
  BY MuxerAssumption
<1>3. PICK len \in Nat : len = Len(old)
  BY LenProperties
<1>4. c \in Int /\ n \in Int /\ c \in 0 .. M - 1
  BY <1>2 DEF Counters
<1>5. c = c % M
  <2>1. PICK z \in Int : c = M * z + c
    <3>1. c = M * 0 + c
      BY <1>4
    <3>. QED
      BY <1>1, <3>1
  <2>. QED
    BY <1>4, <2>1, ModUnique
<1>6. \A k \in 1 .. len + n : new[k].counter \in Int
  <2>1. ASSUME NEW k \in 1 .. len + n
        PROVE  new[k].counter \in Int
    <3>1. PICK r \in Pieces : r = new[k]
      BY <1>1, <1>3, LenProperties
    <3>2. r.counter \in Counters
      BY DEF Pieces
    <3>. QED
      BY <1>2, <3>1, <3>2 DEF Counters
  <2>. QED
    BY <2>1
<1>7. PICK one \in Int : one = 1
  OBVIOUS
<1>8. \A x, d \in Int : (x + d) % M = ((x % M) + d) % M
  BY ModAdd, Zenon
<1>9. \A x \in Int : (x + 1) % M = ((x % M) + 1) % M
  <2>1. \A x \in Int : (x + one) % M = ((x % M) + one) % M
    BY <1>8, Zenon
  <2>. QED
    BY <1>7, <2>1, Zenon
<1>10. ASSUME new # <<>>
      PROVE  \E d \in 0 .. more : Skipped(new, e, d)
  <2>1. CASE n = 0
    <3>1. len > 0
      BY <1>1, <1>3, <1>10, <2>1, EmptySeq
    <3>2. PICK d \in 0 .. few : Skipped(old, c, d)
      BY <1>1, <1>3, <3>1, EmptySeq
    <3>3. Len(new) = len /\ new[len] = old[len] /\ LastOf(new) = LastOf(old)
      BY <1>1, <1>3, <2>1, <3>1 DEF LastOf
    <3>4. PICK a \in Int : a = LastOf(old).counter
      BY <1>1, <1>3, <1>6, <3>1, <3>3 DEF LastOf
    <3>5. CASE taken = 0
      <4>1. e = c
        BY <1>2, <1>4, <1>5, <3>5
      <4>2. Skipped(new, e, d) /\ d \in 0 .. more
        BY <3>2, <3>3, <4>1 DEF Skipped
      <4>. QED
        BY <4>2
    <3>6. CASE taken = 1
      <4>1. PICK x \in Int : x = a + d
        OBVIOUS
      <4>2. c = x % M
        BY <1>2, <3>2, <3>4, <4>1 DEF Skipped
      <4>3. (x + 1) % M = ((x % M) + 1) % M
        BY <1>9, Zenon
      <4>4. e = (c + 1) % M
        BY <1>2, <3>6
      <4>5. x + 1 = a + (d + 1)
        BY <4>1
      <4>6. e = (a + (d + 1)) % M
        BY <4>2, <4>3, <4>4, <4>5
      <4>7. d + 1 \in 0 .. more /\ d + 1 # 0
        BY <2>1, <3>6
      <4>8. Skipped(new, e, d + 1)
        BY <1>2, <3>3, <3>4, <4>6, <4>7 DEF Skipped
      <4>. QED
        BY <4>7, <4>8
    <3>. QED
      BY <2>1, <3>5, <3>6
  <2>2. CASE n > 0
    <3>1. PICK d \in 0 .. 1 : d = taken - n /\ d <= more
      BY <2>2
    <3>2. LastOf(new).counter = (c + n) % M
      BY <1>1, <1>2, <1>3, <2>2 DEF LastOf
    <3>3. PICK x \in Int : x = c + n /\ c + taken = x + d
      BY <1>4, <3>1
    <3>4. (x + d) % M = ((x % M) + d) % M
      <4>1. d \in Int
        BY <1>1, <3>1
      <4>. QED
        BY <1>8, <4>1, Zenon
    <3>5. e = (LastOf(new).counter + d) % M
      BY <1>2, <3>2, <3>3, <3>4
    <3>6. d = 0 => LastOf(new).offset + LastOf(new).bytes = LastOf(new).len
      BY <1>1, <2>2, <3>1
    <3>7. Skipped(new, e, d)
      BY <1>2, <3>5, <3>6 DEF Skipped
    <3>. QED
      BY <3>1, <3>7
  <2>. QED
    BY <2>1, <2>2
<1>11. ASSUME NEW k \in 1 .. Len(new) - 1
      PROVE  SeenAt(new[k], new[k + 1], more)
  <2>1. CASE k < len
    <3>1. new[k] = old[k] /\ new[k + 1] = old[k + 1] /\ k \in 1 .. Len(old) - 1
      BY <1>1, <1>3, <2>1
    <3>2. SeenAt(old[k], old[k + 1], few)
      BY <1>1, <3>1 DEF Seen
    <3>. QED
      BY <3>1, <3>2 DEF SeenAt
  <2>2. CASE k = len
    <3>1. /\ 1 \in 1 .. n /\ len > 0 /\ old # <<>>
          /\ new[k] = old[k] /\ LastOf(old) = old[k]
          /\ new[k + 1].counter = (c + 1) % M /\ new[k + 1].start
      <4>1. 1 \in 1 .. n /\ len > 0 /\ k \in 1 .. len /\ k + 1 = len + 1
        BY <1>1, <1>3, <1>11, <2>2
      <4>2. old # <<>> /\ LastOf(old) = old[k] /\ new[k] = old[k]
        BY <1>1, <1>3, <2>2, <4>1, EmptySeq DEF LastOf
      <4>. QED
        BY <1>1, <1>2, <1>3, <4>1, <4>2
    <3>2. PICK d \in 0 .. few : Skipped(old, c, d)
      BY <1>1, <3>1
    <3>3. PICK a \in Int : a = old[k].counter
      BY <1>1, <1>3, <1>6, <2>2, <3>1
    <3>4. PICK x \in Int, y \in Int : x = a + d /\ y = a + 1
      OBVIOUS
    <3>5. c = x % M
      BY <1>2, <3>1, <3>2, <3>3, <3>4 DEF Skipped
    <3>6. (x + 1) % M = ((x % M) + 1) % M
      BY <1>9, Zenon
    <3>7. new[k + 1].counter = (y + d) % M
      <4>1. x + 1 = y + d
        BY <3>4
      <4>. QED
        BY <3>1, <3>5, <3>6, <4>1
    <3>8. CASE d = 0
      <4>1. old[k].offset + old[k].bytes = old[k].len
        BY <3>1, <3>2, <3>8 DEF Skipped
      <4>2. y + d = old[k].counter + 1
        BY <3>3, <3>4, <3>8
      <4>3. new[k + 1].counter = (old[k].counter + 1) % CounterMod
        BY <1>2, <3>7, <4>2
      <4>. QED
        BY <3>1, <4>1, <4>3 DEF SeenAt
    <3>9. CASE d # 0
      <4>1. PICK f \in 0 .. M - 1 : f = d /\ f # 0
        BY <1>2, <3>9
      <4>2. (y + f) % M # y % M
        BY <4>1, GapShows
      <4>3. new[k + 1].counter # (old[k].counter + 1) % CounterMod
        BY <1>2, <3>3, <3>4, <3>7, <4>1, <4>2
      <4>4. more > 0
        BY <3>9
      <4>. QED
        BY <3>1, <4>3, <4>4 DEF SeenAt
    <3>. QED
      BY <3>8, <3>9
  <2>3. CASE k > len
    <3>1. PICK j \in 1 .. n - 1 : k = len + j
      <4>1. k - len \in 1 .. n - 1 /\ k = len + (k - len)
        BY <1>1, <1>3, <1>11, <2>3
      <4>. QED
        BY <4>1
    <3>2. /\ j \in 1 .. n /\ j + 1 \in 1 .. n /\ k + 1 = len + (j + 1)
      BY <1>1, <3>1
    <3>3. Continues(new[k], new[k + 1])
      BY <1>1, <1>3, <3>1, <3>2
    <3>4. new[k].counter = (c + j) % M /\ new[k + 1].counter = (c + (j + 1)) % M
      BY <1>1, <1>2, <1>3, <3>1, <3>2
    <3>5. PICK x \in Int : x = c + j /\ c + (j + 1) = x + 1
      BY <1>4
    <3>6. (x + 1) % M = ((x % M) + 1) % M
      BY <1>9, Zenon
    <3>7. new[k + 1].counter = (new[k].counter + 1) % CounterMod
      BY <1>2, <3>4, <3>5, <3>6
    <3>. QED
      BY <3>3, <3>7 DEF SeenAt
  <2>. QED
    BY <1>1, <1>3, <1>11, <2>1, <2>2, <2>3
<1>. QED
  BY <1>10, <1>11 DEF SeenSoFar, Seen

\* The TS packets of one packet go on where the one before ends.
LEMMA PiecesContinue ==
  ASSUME MuxT, NEW pkt \in MediaPackets, pkt.stream_index \in DOMAIN output,
         NEW k \in 1 .. PieceCount(pkt.len)
  PROVE  /\ Piece(pkt, k).counter = (continuity_counters[pkt.stream_index] + k) % CounterMod
         /\ Piece(pkt, k).start <=> k = 1
         /\ k = PieceCount(pkt.len) =>
              Piece(pkt, k).offset + Piece(pkt, k).bytes = Piece(pkt, k).len
         /\ k < PieceCount(pkt.len) => Continues(Piece(pkt, k), Piece(pkt, k + 1))
<1>1. PICK len \in Nat : len = pkt.len
  BY DEF MediaPackets
<1>2. PieceCount(len) \in Nat
  BY PieceFacts
<1>3. k \in 1 .. PieceCount(len)
  BY <1>1
<1>4. /\ k = PieceCount(len) => OffsetOf(k) + payload_size(len, OffsetOf(k)) = len
      /\ k < PieceCount(len) =>
           OffsetOf(k) + payload_size(len, OffsetOf(k)) = OffsetOf(k + 1)
  BY <1>3, PieceFacts
<1>5. /\ Piece(pkt, k).start = (k = 1) /\ Piece(pkt, k).source = pkt.source
      /\ Piece(pkt, k).pts = pkt.pts /\ Piece(pkt, k).len = pkt.len
      /\ Piece(pkt, k).offset = OffsetOf(k)
      /\ Piece(pkt, k).bytes = payload_size(pkt.len, OffsetOf(k))
      /\ Piece(pkt, k).counter = Counter(pkt.stream_index, k)
  BY PieceType
<1>6. ASSUME k < PieceCount(len)
      PROVE  Continues(Piece(pkt, k), Piece(pkt, k + 1))
  <2>1. PICK l \in 1 .. PieceCount(len) : l = k + 1 /\ l # 1
    BY <1>2, <1>3, <1>6
  <2>2. /\ Piece(pkt, l).start = (l = 1) /\ Piece(pkt, l).source = pkt.source
        /\ Piece(pkt, l).pts = pkt.pts /\ Piece(pkt, l).offset = OffsetOf(l)
    BY <1>1, PieceType
  <2>. QED
    BY <1>1, <1>4, <1>5, <1>6, <2>1, <2>2 DEF Continues
<1>. QED
  BY <1>1, <1>4, <1>5, <1>6 DEF Counter

LEMMA SeenWritten ==
  ASSUME MaxFaults < CounterMod, PipeInv, SeenInv, Write
  PROVE  SeenInv'
<1>1. todo # <<>>
  BY DEF Write
<1>2. PICK pkt \in MediaPackets, i \in DOMAIN output : pkt = Head(todo) /\ i = pkt.stream_index
  BY <1>1, TodoPacket
<1>3. PICK n \in 0 .. PieceCount(pkt.len), taken \in Nat :
        Writes(pkt, n, taken) /\ (WroteAll(pkt, n, taken) \/ WroteSome(n, taken))
  BY <1>2, WriteParts
<1>4. /\ DOMAIN output' = DOMAIN output
      /\ \A j \in DOMAIN output : j # i =>
           output'[j] = output[j] /\ continuity_counters'[j] = continuity_counters[j]
      /\ Len(output'[i]) = Len(output[i]) + n
      /\ \A j \in 1 .. Len(output[i]) : output'[i][j] = output[i][j]
      /\ \A k \in 1 .. n : output'[i][Len(output[i]) + k] = Piece(pkt, k)
      /\ continuity_counters'[i] = Counter(i, taken)
  BY <1>2, <1>3, WriteEffect, Zenon DEF PipeInv
<1>5. PieceCount(pkt.len) \in Nat /\ n \in Nat /\ MaxFaults \in Nat
  <2>1. PieceCount(pkt.len) \in Nat
    BY PieceFacts DEF MediaPackets
  <2>. QED
    BY <2>1, FaultsAssumption
<1>6. PICK few \in Nat : few = faults /\ few <= MaxFaults
  BY <1>5 DEF PipeInv, AppT
<1>7. PICK more \in Nat : more = faults' /\ few <= more /\ more <= MaxFaults
  BY <1>3, <1>5, <1>6 DEF WroteAll, WroteSome
<1>8. /\ taken = n \/ (taken = n + 1 /\ more = few + 1)
      /\ taken = n => n = PieceCount(pkt.len)
  <2>1. CASE WroteAll(pkt, n, taken)
    BY <1>5, <2>1 DEF WroteAll
  <2>2. CASE WroteSome(n, taken)
    BY <1>5, <1>6, <1>7, <2>2 DEF WroteSome
  <2>. QED
    BY <1>3, <2>1, <2>2
<1>9. PICK old \in Seq(Pieces), c \in Counters : old = output[i] /\ c = continuity_counters[i]
  BY LenProperties DEF PipeInv, MuxT
<1>10. PICK new \in Seq(Pieces), e \in Counters : new = output'[i] /\ e = continuity_counters'[i]
  <2>1. MuxT' /\ i \in DOMAIN output'
    BY <1>4, PipeStep DEF PipeInv, Next
  <2>. QED
    BY <2>1, LenProperties DEF MuxT
<1>11. /\ Len(new) = Len(old) + n
       /\ \A j \in 1 .. Len(old) : new[j] = old[j]
       /\ \A k \in 1 .. n : new[Len(old) + k] = Piece(pkt, k)
       /\ e = (c + taken) % CounterMod
  BY <1>4, <1>9, <1>10 DEF Counter
<1>12. ASSUME NEW k \in 1 .. n
       PROVE  /\ new[Len(old) + k].counter = (c + k) % CounterMod
              /\ new[Len(old) + k].start <=> k = 1
              /\ k = PieceCount(pkt.len) =>
                   new[Len(old) + k].offset + new[Len(old) + k].bytes = new[Len(old) + k].len
              /\ k < PieceCount(pkt.len) => Continues(new[Len(old) + k], Piece(pkt, k + 1))
  <2>1. k \in 1 .. PieceCount(pkt.len)
    BY <1>5
  <2>2. /\ Piece(pkt, k).counter = (c + k) % CounterMod
        /\ Piece(pkt, k).start <=> k = 1
        /\ k = PieceCount(pkt.len) =>
             Piece(pkt, k).offset + Piece(pkt, k).bytes = Piece(pkt, k).len
        /\ k < PieceCount(pkt.len) => Continues(Piece(pkt, k), Piece(pkt, k + 1))
    BY <1>2, <1>9, <2>1, PiecesContinue DEF PipeInv
  <2>3. new[Len(old) + k] = Piece(pkt, k)
    BY <1>11
  <2>. QED
    BY <2>2, <2>3
<1>13. \A k \in 1 .. n - 1 : Continues(new[Len(old) + k], new[Len(old) + (k + 1)])
  <2>1. ASSUME NEW k \in 1 .. n - 1
        PROVE  Continues(new[Len(old) + k], new[Len(old) + (k + 1)])
    <3>1. k \in 1 .. n /\ k + 1 \in 1 .. n /\ k < PieceCount(pkt.len)
      BY <1>5
    <3>2. Continues(new[Len(old) + k], Piece(pkt, k + 1))
      BY <1>12, <3>1
    <3>. QED
      BY <1>11, <3>1, <3>2
  <2>. QED
    BY <2>1
<1>14. n > 0 /\ taken = n => Whole(new)
  <2>1. ASSUME n > 0, taken = n
        PROVE  Whole(new)
    <3>1. n \in 1 .. n /\ n = PieceCount(pkt.len)
      BY <1>5, <1>8, <2>1
    <3>. QED
      BY <1>11, <1>12, <3>1 DEF LastOf, Whole
  <2>. QED
    BY <2>1
<1>15. SeenSoFar(old, c, few)
  BY <1>6, <1>9 DEF SeenInv, SeenSoFar
<1>16. taken = n + 1 => more = few + 1
  BY <1>5, <1>8
<1>17. more < CounterMod
  BY <1>5, <1>7, MuxerAssumption
<1>18. SeenSoFar(new, e, more)
  <2>1. Extends(old, new, c, n)
    BY <1>11, <1>12, <1>13 DEF Extends
  <2>2. few <= more /\ (taken = n \/ taken = n + 1)
    BY <1>7, <1>8
  <2>3. e = (c + taken) % CounterMod
    BY <1>11
  <2>. QED
    BY <1>5, <1>14, <1>15, <1>16, <1>17, <2>1, <2>2, <2>3, WrittenSeen, Zenon
<1>19. ASSUME NEW j \in DOMAIN output, j # i
       PROVE  /\ output[j] # <<>> =>
                   \E d \in 0 .. more : Skipped(output[j], continuity_counters[j], d)
              /\ Seen(output[j], more)
  <2>1. \A d \in 0 .. few : d \in 0 .. more
    BY <1>7
  <2>2. few > 0 => more > 0
    BY <1>7
  <2>3. output[j] # <<>> => \E d \in 0 .. few : Skipped(output[j], continuity_counters[j], d)
    BY <1>6 DEF SeenInv
  <2>4. Seen(output[j], few)
    BY <1>6 DEF SeenInv
  <2>5. Seen(output[j], more)
    BY <2>2, <2>4 DEF Seen, SeenAt
  <2>. QED
    BY <2>1, <2>3, <2>5
<1>20. ASSUME NEW j \in DOMAIN output'
       PROVE  /\ output'[j] # <<>> =>
                   \E d \in 0 .. faults' : Skipped(output'[j], continuity_counters'[j], d)
              /\ Seen(output'[j], faults')
  <2>1. CASE j = i
    BY <1>7, <1>10, <1>18, <2>1 DEF SeenSoFar
  <2>2. CASE j # i
    <3>1. j \in DOMAIN output
      BY <1>4
    <3>. QED
      BY <1>4, <1>7, <1>19, <2>2, <3>1
  <2>. QED
    BY <2>1, <2>2
<1>. QED
  BY <1>20 DEF SeenInv, Skipped, Seen, SeenAt, LastOf, Continues

\* More faults, and nothing written.
LEMMA SeenKept ==
  ASSUME PipeInv, SeenInv, faults' \in Nat, faults <= faults',
         \A i \in DOMAIN output' : i \in DOMAIN output =>
           output'[i] = output[i] /\ continuity_counters'[i] = continuity_counters[i],
         \A i \in DOMAIN output' : i \notin DOMAIN output => output'[i] = <<>>
  PROVE  SeenInv'
<1>1. MaxFaults \in Nat /\ faults \in Nat
  BY FaultsAssumption DEF PipeInv, AppT
<1>2. ASSUME NEW i \in DOMAIN output'
      PROVE  /\ output'[i] # <<>> =>
                  \E d \in 0 .. faults' : Skipped(output'[i], continuity_counters'[i], d)
             /\ Seen(output'[i], faults')
  <2>1. CASE i \in DOMAIN output
    <3>1. \A d \in 0 .. faults : d \in 0 .. faults'
      BY <1>1
    <3>2. faults > 0 => faults' > 0
      BY <1>1
    <3>3. output[i] # <<>> => \E d \in 0 .. faults : Skipped(output[i], continuity_counters[i], d)
      BY <2>1 DEF SeenInv
    <3>4. Seen(output[i], faults)
      BY <2>1 DEF SeenInv
    <3>5. Seen(output[i], faults')
      BY <3>2, <3>4 DEF Seen, SeenAt
    <3>. QED
      BY <2>1, <3>1, <3>3, <3>5
  <2>2. CASE i \notin DOMAIN output
    <3>1. output'[i] = <<>>
      BY <2>2
    <3>. QED
      BY <3>1, EmptySeq DEF Seen
  <2>. QED
    BY <2>1, <2>2
<1>. QED
  BY <1>2 DEF SeenInv, Skipped, Seen, SeenAt, LastOf, Continues

LEMMA SeenStep ==
  ASSUME MaxFaults < CounterMod, PipeInv, SeenInv, [Next]_vars
  PROVE  SeenInv'
<1>1. MaxFaults \in Nat /\ faults \in Nat
  BY FaultsAssumption DEF PipeInv, AppT
<1>2. CASE UNCHANGED <<muxvars, faults>>
  BY <1>1, <1>2, SeenKept DEF muxvars
<1>3. ASSUME NEW p \in Pids, NEW f \in NextFrames(p), Receive(f) \/ LoseFrame(f)
      PROVE  SeenInv'
  <2>1. UNCHANGED <<muxvars, faults>>
    BY <1>3 DEF Receive, LoseFrame
  <2>. QED
    BY <1>2, <2>1
<1>4. CASE ReceivePAT \/ ReceivePMT \/ Transcode \/ UNCHANGED vars
  <2>1. UNCHANGED <<muxvars, faults>>
    BY <1>4 DEF ReceivePAT, ReceivePMT, Transcode, vars
  <2>. QED
    BY <1>2, <2>1
<1>5. CASE StartOutput \/ HeaderFails
  <2>1. /\ phase = "listed" /\ Register(Types)
        /\ faults' = faults \/ faults' = faults + 1
    BY <1>5 DEF StartOutput, HeaderFails
  <2>2. Types \in Seq(STRING)
    BY <2>1, TypesType DEF PipeInv, AppT
  <2>3. /\ \A i \in DOMAIN output :
             output'[i] = output[i] /\ continuity_counters'[i] = continuity_counters[i]
        /\ \A i \in DOMAIN output' : i \notin DOMAIN output => output'[i] = <<>>
    BY <2>1, <2>2, RegisterEffect DEF PipeInv
  <2>4. faults' \in Nat /\ faults <= faults'
    BY <1>1, <2>1
  <2>. QED
    BY <2>3, <2>4, SeenKept
<1>6. CASE Write
  BY <1>6, SeenWritten
<1>. QED
  BY <1>3, <1>4, <1>5, <1>6 DEF Next

LEMMA SeenEverywhere == SeenInv => TruncationIsSeen
BY DEF SeenInv, Seen, SeenAt, TruncationIsSeen

\* While fewer writes fail than the counter has values, its gaps tell every
\* packet that was left incomplete from one that was written whole
\* (write_packet and write_pes_packet of format/ts/muxer.rs).
THEOREM TruncationAlwaysSeen ==
  ASSUME MaxFaults < CounterMod
  PROVE  Spec => []TruncationIsSeen
<1>1. Init => PipeInv /\ SeenInv
  <2>1. Init => output = <<>>
    BY DEF Init, MuxInit
  <2>2. Init => SeenInv
    BY <2>1, EmptySeq DEF SeenInv
  <2>. QED
    BY <2>2, PipeInit
<1>2. PipeInv /\ SeenInv /\ [Next]_vars => (PipeInv /\ SeenInv)'
  BY PipeStep, SeenStep
<1>3. PipeInv /\ SeenInv => TruncationIsSeen
  BY SeenEverywhere
<1>. QED
  BY <1>1, <1>2, <1>3, PTL DEF Spec

------------------------------------------------------------------------------
(* What befalls a stream. *)

\* A unit of n bytes is awkward by its size alone.
AwkwardSize(p, n) ==
  LET last == n % FrameSize
  IN  \/ last = FrameSize - 1
      \/ n > FrameSize /\ (last \in 1 .. PesPrefix \/ p \in Unbounded)

BytesOf(n, k) == IF n - k < FrameSize THEN n - k ELSE FrameSize

LengthSent(p, n) == IF p \in Unbounded THEN 0 ELSE n - PesPrefix

\* Where a frame begins, the frames before it were full; and a unit that is not
\* awkward has no stray byte, and more to come than its length leaves out.
LEMMA FrameShape ==
  ASSUME NEW p \in Pids, NEW n \in Nat, NEW k \in Nat, n > PesPrefix, k < n, k % FrameSize = 0
  PROVE  /\ BytesOf(n, k) \in Nat \ {0} /\ BytesOf(n, k) <= FrameSize /\ k + BytesOf(n, k) <= n
         /\ k > 0 => k >= FrameSize
         /\ k + BytesOf(n, k) < n => BytesOf(n, k) = FrameSize /\ (k + FrameSize) % FrameSize = 0
         /\ ~AwkwardSize(p, n) =>
              /\ BytesOf(n, k) # FrameSize - 1
              /\ k > 0 => n - k > PesPrefix /\ p \notin Unbounded
<1>1. FrameSize \in Nat \ {0} /\ PesPrefix \in Nat /\ PesPrefix < FrameSize - 1
  BY SourceAssumption
<1>2. PICK F \in Nat \ {0} : F = FrameSize
  BY <1>1
<1>3. /\ k > 0 => k >= F
      /\ (k + F) % F = 0
      /\ n - k < F => n % F = n - k
  <2>1. PICK a \in Int, m \in Int : a = k /\ m = n /\ a % F = 0 /\ 0 <= a /\ a < m
    BY <1>1, <1>2
  <2>2. (a > 0 => a >= F) /\ (a + F) % F = 0 /\ (m - a < F => m % F = m - a)
    BY <2>1, Blocks, Zenon
  <2>. QED
    BY <2>1, <2>2
<1>4. PICK b \in Nat \ {0} : b = BytesOf(n, k)
  BY <1>1 DEF BytesOf
<1>5. /\ b <= F /\ k + b <= n /\ (k + b < n => b = F)
      /\ b # F => b = n - k /\ n - k < F
  BY <1>1, <1>2, <1>4 DEF BytesOf
<1>6. ASSUME ~AwkwardSize(p, n)
      PROVE  b # F - 1 /\ (k > 0 => n - k > PesPrefix /\ p \notin Unbounded)
  <2>1. n % F # F - 1 /\ (n > F => ~(n % F \in 1 .. PesPrefix) /\ p \notin Unbounded)
    BY <1>2, <1>6 DEF AwkwardSize
  <2>2. b # F - 1
    BY <1>1, <1>2, <1>3, <1>5, <2>1
  <2>3. ASSUME k > 0 PROVE n - k > PesPrefix /\ p \notin Unbounded
    BY <1>1, <1>2, <1>3, <2>1, <2>3
  <2>. QED
    BY <2>2, <2>3
<1>7. (k + FrameSize) % FrameSize = 0
  BY <1>2, <1>3
<1>. QED
  BY <1>2, <1>3, <1>4, <1>5, <1>6, <1>7

Mid(us, k) == us # <<>> /\ k < us[Len(us)]

\* The units sent so far, us, and the bytes sent of the last of them.
Shape(us, k) ==
  /\ \A u \in DOMAIN us : us[u] > PesPrefix
  /\ us # <<>> => k <= us[Len(us)]
  /\ Mid(us, k) => k % FrameSize = 0

ShapeInv == \A p \in Pids : Shape(units[p], sent[p])

\* A frame, exactly.
LEMMA FrameExact ==
  ASSUME SourceT, ShapeInv, NEW p \in Pids, NEW f \in NextFrames(p)
  PROVE  /\ f.size \in Nat /\ f.size > PesPrefix /\ f.from \in Nat /\ f.from < f.size
         /\ f.from % FrameSize = 0
         /\ f.bytes = BytesOf(f.size, f.from) /\ f.length = LengthSent(p, f.size)
         /\ f.start => f.from = 0 /\ ~Mid(units[p], sent[p])
         /\ ~f.start => /\ f.from > 0 /\ f.from = sent[p] /\ Mid(units[p], sent[p])
                        /\ f.size = units[p][Len(units[p])]
<1>1. FrameSize \in Nat \ {0} /\ PesPrefix \in Nat
  BY SourceAssumption
<1>2. PICK us \in Seq(Nat), k \in Nat : us = units[p] /\ k = sent[p] /\ (us # <<>> => k > 0)
  BY DEF SourceT
<1>3. Shape(us, k) /\ (MidUnit(p) <=> Mid(us, k))
  BY <1>2 DEF ShapeInv, MidUnit, Mid, Current
<1>4. CASE MidUnit(p)
  <2>1. f = Frame(p, Len(us), us[Len(us)], k)
    BY <1>2, <1>4 DEF NextFrames, Current
  <2>2. us # <<>> /\ Len(us) \in DOMAIN us /\ us[Len(us)] \in Nat /\ Len(us) \in Nat
    BY <1>3, <1>4, LenProperties, EmptySeq DEF Mid
  <2>3. PICK n \in Nat : n = us[Len(us)] /\ n > PesPrefix /\ k < n /\ k % FrameSize = 0 /\ k > 0 /\ k # 0
    BY <1>2, <1>3, <1>4, <2>2 DEF Shape, Mid
  <2>4. /\ f.size = n /\ f.from = k /\ f.start = (k = 0) /\ f.bytes = BytesOf(n, k)
        /\ f.length = LengthSent(p, n)
    BY <2>1, <2>3 DEF Frame, BytesOf, LengthSent
  <2>5. f.start = FALSE
    BY <2>3, <2>4
  <2>. QED
    BY <1>2, <1>3, <1>4, <2>3, <2>4, <2>5
<1>5. CASE ~MidUnit(p)
  <2>1. PICK n \in UnitSizes[p] : f = Frame(p, Len(us) + 1, n, 0)
    BY <1>2, <1>5 DEF NextFrames
  <2>2. n \in Nat /\ n > PesPrefix /\ 0 < n
    BY <1>1, SourceAssumption
  <2>3. /\ f.size = n /\ f.from = 0 /\ f.start = (0 = 0) /\ f.bytes = BytesOf(n, 0)
        /\ f.length = LengthSent(p, n)
    BY <2>1 DEF Frame, BytesOf, LengthSent
  <2>4. 0 % FrameSize = 0
    <3>1. PICK M \in Nat \ {0} : M = FrameSize
      BY <1>1
    <3>2. 0 = M * 0 + 0
      OBVIOUS
    <3>. QED
      BY <3>1, <3>2, ModUnique
  <2>5. f.start = TRUE
    BY <2>3
  <2>. QED
    BY <1>1, <1>2, <1>3, <1>5, <2>2, <2>3, <2>4, <2>5
<1>. QED
  BY <1>4, <1>5

\* Packet pk is unit u of us, all of it and nothing else.
IsUnitOf(pk, us, u) ==
  /\ pk.pts = u /\ pk.len = us[u] /\ pk.data[1].from = 0
  /\ \A i \in DOMAIN pk.data : pk.data[i].unit = u /\ ~pk.data[i].stray

\* The packets g are the units of us up to the c-th.
WholeTo(g, us, c) ==
  /\ Len(g) <= c /\ c <= Len(us)
  /\ \A i \in DOMAIN g : IsUnitOf(g[i], us, c - Len(g) + i)

Complete(us, k) == IF Mid(us, k) THEN Len(us) - 1 ELSE Len(us)

\* The builder holds the first k bytes of the last unit.
Gathers(pes, us, k, p) ==
  LET n == us[Len(us)]
  IN  /\ ~AwkwardSize(p, n)
      /\ pes.pts = Len(us) /\ pes.size = LengthSent(p, n) /\ pes.len = k
      /\ pes.data # <<>> /\ pes.data[1].from = 0
      /\ \A i \in DOMAIN pes.data : pes.data[i].unit = Len(us) /\ ~pes.data[i].stray

\* A stream joined in the middle of a unit: the rest of that is ignored.
Joined(g, pes) == g = <<>> /\ pes.size < 0 /\ pes.data = <<>>

\* Stream p while nothing has befallen it.
CleanAt(g, pes, us, k, p) ==
  /\ WholeTo(g, us, Complete(us, k))
  /\ IF Mid(us, k) THEN Joined(g, pes) \/ Gathers(pes, us, k, p) ELSE pes.data = <<>>

SameSize(us) == \A u, v \in DOMAIN us : us[u] = us[v]

\* Stream p after a cut, when its units are of one size: its builder stays as far
\* behind the unit on its way as the frame that was lost, or, when that was the
\* last of its unit, as much as it carried.
CutAt(c, g, pes, us, k, p) ==
  /\ us # <<>>
  /\ SameSize(us) =>
       LET s == us[Len(us)]
       IN  /\ s > FrameSize /\ ~AwkwardSize(p, s) /\ pes.size = s - PesPrefix
           /\ IF k < s THEN pes.len + FrameSize <= k /\ (k > FrameSize => pes.data # <<>>)
              ELSE pes.data # <<>> /\ pes.len < s - PesPrefix
           /\ \A i \in c + 1 .. Len(g) : g[i].len < s - PesPrefix

FateT == fate \in [Pids -> {"clean", "cut", "other"}] /\ cut_at \in [Pids -> Nat]

FateInv ==
  /\ FateT
  /\ DOMAIN streams = {} => \A p \in Pids : given[p] = <<>> /\ fate[p] # "cut"
  /\ \A p \in DOMAIN streams :
       /\ fate[p] = "clean" => CleanAt(given[p], streams[p], units[p], sent[p], p)
       /\ fate[p] = "cut" => CutAt(cut_at[p], given[p], streams[p], units[p], sent[p], p)

LEMMA FateInit == Init => ShapeInv /\ FateInv
<1> SUFFICES ASSUME Init PROVE ShapeInv /\ FateInv
  OBVIOUS
<1>1. /\ units = [p \in Pids |-> <<>>] /\ given = [p \in Pids |-> <<>>] /\ DOMAIN streams = {}
      /\ fate = [p \in Pids |-> "clean"] /\ cut_at = [p \in Pids |-> 0]
  BY DEF Init, SourceInit, DemuxInit
<1>2. ShapeInv
  BY <1>1 DEF ShapeInv, Shape, Mid
<1>. QED
  BY <1>1, <1>2 DEF FateInv, FateT

\* The units of a stream and the bytes of its last one after a frame.
Sent(us, k, f) ==
  /\ us \in Seq(Nat) /\ Len(us) = f.unit /\ us # <<>> /\ us[Len(us)] = f.size
  /\ k \in Nat /\ k = f.from + f.bytes /\ Shape(us, k)

LEMMA SentShape ==
  ASSUME SourceT, ShapeInv, NEW p \in Pids, NEW f \in NextFrames(p), Sends(f)
  PROVE  /\ Sent(units'[p], sent'[p], f)
         /\ units'[p] = IF f.start THEN Append(units[p], f.size) ELSE units[p]
         /\ \A q \in Pids : q # p => units'[q] = units[q] /\ sent'[q] = sent[q]
<1>1. /\ f.pid = p /\ f.start \in BOOLEAN /\ f.unit \in Nat
      /\ f.start => f.unit = Len(units[p]) + 1
      /\ ~f.start => f.unit = Len(units[p])
  BY FrameFacts
<1>2. PICK us \in Seq(Nat) : us = units[p] /\ Shape(us, sent[p])
  BY DEF SourceT, ShapeInv
<1>3. PICK n \in Nat, k \in Nat :
        /\ n = f.size /\ k = f.from /\ n > PesPrefix /\ k < n /\ k % FrameSize = 0
        /\ f.bytes = BytesOf(n, k)
  BY FrameExact
<1>4. PICK b \in Nat : /\ b = f.bytes /\ k + b <= n
                       /\ k + b < n => b = FrameSize /\ (k + FrameSize) % FrameSize = 0
  <2>1. PICK b : b = BytesOf(n, k)
    OBVIOUS
  <2>2. /\ BytesOf(n, k) \in Nat \ {0} /\ k + BytesOf(n, k) <= n
        /\ k + BytesOf(n, k) < n => BytesOf(n, k) = FrameSize /\ (k + FrameSize) % FrameSize = 0
    BY <1>3, FrameShape, Zenon
  <2>3. /\ b \in Nat \ {0} /\ k + b <= n
        /\ k + b < n => b = FrameSize /\ (k + FrameSize) % FrameSize = 0
    BY <2>1, <2>2, Zenon
  <2>. QED
    BY <1>3, <2>1, <2>3
<1>5. units'[p] = IF f.start THEN Append(us, n) ELSE us
  BY <1>1, <1>2, <1>3 DEF Sends, SourceT
<1>6. sent'[p] = k + b
  BY <1>1, <1>3, <1>4 DEF Sends, SourceT
<1>7. PICK vs \in Seq(Nat) : /\ vs = units'[p] /\ Len(vs) = f.unit /\ vs # <<>> /\ vs[Len(vs)] = n
                             /\ \A u \in DOMAIN vs : vs[u] > PesPrefix
  <2>1. CASE f.start
    <3>1. /\ Append(us, n) \in Seq(Nat) /\ Len(Append(us, n)) = Len(us) + 1
          /\ Append(us, n)[Len(us) + 1] = n /\ Append(us, n) # <<>>
          /\ \A u \in 1 .. Len(us) : Append(us, n)[u] = us[u]
      BY AppendProperties
    <3>2. Len(us) \in Nat /\ DOMAIN us = 1 .. Len(us) /\ DOMAIN Append(us, n) = 1 .. Len(us) + 1
      BY <3>1, LenProperties
    <3>3. \A u \in DOMAIN Append(us, n) : Append(us, n)[u] > PesPrefix
      BY <1>2, <1>3, <3>1, <3>2 DEF Shape
    <3>4. PICK vs \in Seq(Nat) : vs = Append(us, n)
      BY <3>1
    <3>5. Len(vs) = Len(us) + 1 /\ vs[Len(us) + 1] = n /\ vs # <<>> /\ \A u \in DOMAIN vs : vs[u] > PesPrefix
      BY <3>1, <3>3, <3>4
    <3>6. vs = units'[p] /\ Len(vs) = f.unit
      BY <1>1, <1>2, <1>5, <2>1, <3>4, <3>5
    <3>. QED
      BY <3>5, <3>6
  <2>2. CASE ~f.start
    <3>1. Mid(us, sent[p]) /\ n = us[Len(us)]
      BY <1>2, <1>3, <2>2, FrameExact
    <3>. QED
      BY <1>1, <1>2, <1>5, <2>2, <3>1 DEF Shape, Mid
  <2>. QED
    BY <2>1, <2>2
<1>8. Shape(vs, k + b)
  BY <1>4, <1>7 DEF Shape, Mid
<1>9. Sent(units'[p], sent'[p], f)
  BY <1>3, <1>4, <1>6, <1>7, <1>8 DEF Sent
<1>10. \A q \in Pids : q # p => units'[q] = units[q] /\ sent'[q] = sent[q]
  BY SourceStep
<1>. QED
  BY <1>2, <1>3, <1>5, <1>9, <1>10

\* What becomes of a builder at a frame: a unit begun, one gone on with, and one
\* that has been given out; and the packet that a builder makes.
Begun(b, f) == b.pts = f.unit /\ b.size = f.length /\ b.len = f.bytes /\ b.data = <<Run(f)>>

GoesOn(b, pes, f) ==
  b.pts = pes.pts /\ b.size = pes.size /\ b.len = pes.len + f.bytes /\ b.data = Append(pes.data, Run(f))

GivenOut(b, pes) == b.size = pes.size /\ b.len = 0 /\ b.data = <<>>

PacketOf(pk, pes) == pk.pts = pes.pts /\ pk.len = pes.len /\ pk.data = pes.data

\* The start of a unit that finds the one before it not complete.
Interrupts(b, new, pes, f) ==
  f.start /\ pes.data # <<>> /\ GivenOut(b, pes) /\ \E pk \in Packets : PacketOf(pk, pes) /\ new = <<pk>>

Ignored(b, new, pes, f) == ~f.start /\ pes.size < 0 /\ b = pes /\ new = <<>>

Builds(full, pes, f) ==
  \/ f.start /\ pes.data = <<>> /\ Begun(full, f)
  \/ ~f.start /\ pes.size >= 0 /\ GoesOn(full, pes, f)

GivesIt(b, new, full) ==
  /\ full.size >= 0 /\ full.len >= full.size
  /\ GivenOut(b, full) /\ \E pk \in Packets : PacketOf(pk, full) /\ new = <<pk>>

KeepsIt(b, new, full) == ~(full.size >= 0 /\ full.len >= full.size) /\ b = full /\ new = <<>>

StreamReads(b, new, pes, f) ==
  \/ Interrupts(b, new, pes, f)
  \/ Ignored(b, new, pes, f)
  \/ \E full \in Builders : Builds(full, pes, f) /\ (GivesIt(b, new, full) \/ KeepsIt(b, new, full))

LEMMA PesFields ==
  ASSUME NEW pes \in Builders
  PROVE  /\ pes.pts \in Nat /\ pes.size \in Int /\ pes.len \in Nat /\ pes.data \in Seq(Runs)
         /\ Emptied(pes) \in Builders /\ GivenOut(Emptied(pes), pes)
         /\ Packet(pes) \in Packets /\ PacketOf(Packet(pes), pes)
<1>1. pes.pts \in Nat /\ pes.size \in Int /\ pes.len \in Nat /\ pes.data \in Seq(Runs)
  BY DEF Builders
<1>2. <<>> \in Seq(Runs)
  BY EmptySeq
<1>3. Emptied(pes) \in Builders /\ GivenOut(Emptied(pes), pes)
  BY <1>2 DEF Emptied, Builders, GivenOut
<1>4. Packet(pes) \in Packets /\ PacketOf(Packet(pes), pes)
  BY <1>1 DEF Packet, Packets, PacketOf
<1>. QED
  BY <1>1, <1>3, <1>4

\* A frame without a stray byte, read by the builder of its stream.
LEMMA StreamRead ==
  ASSUME SourceT, DemuxT, NEW p \in Pids, NEW f \in NextFrames(p), ReadFrame(f),
         p \in DOMAIN streams, f.bytes # FrameSize - 1
  PROVE  \E b \in Builders, new \in Seq(Packets) :
           /\ streams' = [streams EXCEPT ![p] = b]
           /\ given' = [given EXCEPT ![p] = given[p] \o new]
           /\ StreamReads(b, new, streams[p], f)
<1>1. /\ f.pid = p /\ f.unit \in Nat /\ f.start \in BOOLEAN
      /\ f.from \in Nat /\ f.bytes \in Nat /\ f.length \in Int
  BY FrameFacts
<1>2. PICK pes \in Builders : pes = streams[p]
  BY DEF DemuxT
<1>3. ~Stray(f)
  BY DEF Stray
<1>4. PICK run \in Runs : run = Run(f)
  BY FrameIsLater
<1>5. RunLength(f) = f.bytes /\ LengthRead(f) = f.length
  BY <1>3 DEF RunLength, LengthRead
<1>6. PICK h : h = HandleFrame(f)
  OBVIOUS
<1>7. streams' = [streams EXCEPT ![p] = h[1]] /\ given' = [given EXCEPT ![p] = given[p] \o h[2]]
  BY <1>1, <1>2, <1>6 DEF ReadFrame
<1>8. /\ pes.pts \in Nat /\ pes.size \in Int /\ pes.len \in Nat /\ pes.data \in Seq(Runs)
      /\ \A x \in Builders : /\ Emptied(x) \in Builders /\ GivenOut(Emptied(x), x)
                             /\ Packet(x) \in Packets /\ PacketOf(Packet(x), x)
  BY PesFields
<1>9. /\ \A pk \in Packets : <<pk>> \in Seq(Packets)
      /\ <<>> \in Seq(Packets)
  BY EmptySeq
<1>10. h[1] \in Builders /\ h[2] \in Seq(Packets) /\ StreamReads(h[1], h[2], pes, f)
  <2>1. CASE GivesOnStart(pes, f)
    <3>1. h = <<Emptied(pes), <<Packet(pes)>>>>
      BY <1>1, <1>2, <1>6, <2>1 DEF HandleFrame
    <3>2. PICK b \in Builders, pk \in Packets :
            b = Emptied(pes) /\ pk = Packet(pes) /\ GivenOut(b, pes) /\ PacketOf(pk, pes)
      BY <1>8
    <3>3. h[1] = b /\ h[2] = <<pk>>
      BY <3>1, <3>2
    <3>4. f.start /\ pes.data # <<>>
      BY <2>1 DEF GivesOnStart
    <3>5. Interrupts(h[1], h[2], pes, f)
      BY <3>2, <3>3, <3>4, Zenon DEF Interrupts
    <3>. QED
      BY <1>9, <3>2, <3>3, <3>5, Zenon DEF StreamReads
  <2>2. CASE ~GivesOnStart(pes, f) /\ ~f.start /\ pes.size < 0
    <3>1. Collected(pes, f) = pes /\ ~is_complete(pes)
      BY <1>8, <2>2 DEF Collected, is_complete
    <3>2. h = <<pes, <<>>>>
      BY <1>1, <1>2, <1>6, <2>2, <3>1 DEF HandleFrame
    <3>3. h[1] = pes /\ h[2] = <<>>
      BY <3>2
    <3>4. Ignored(h[1], h[2], pes, f)
      BY <2>2, <3>3, Zenon DEF Ignored
    <3>. QED
      BY <1>9, <3>3, <3>4, Zenon DEF StreamReads
  <2>3. CASE ~GivesOnStart(pes, f) /\ (f.start \/ ~(pes.size < 0))
    <3>1. PICK full \in Builders : full = Collected(pes, f) /\ Builds(full, pes, f)
      <4>1. CASE f.start
        <5>1. pes.data = <<>>
          BY <2>3, <4>1 DEF GivesOnStart
        <5>2. Collected(pes, f) = Pushed(StartedAnew(pes, f), f)
          BY <4>1 DEF Collected
        <5>3. StartedAnew(pes, f) = [pts |-> f.unit, size |-> f.length, len |-> 0, data |-> <<>>]
          BY <1>3, <1>5 DEF StartedAnew
        <5>4. PICK s : /\ s = StartedAnew(pes, f)
                        /\ s = [pts |-> f.unit, size |-> f.length, len |-> 0, data |-> <<>>]
          BY <5>3
        <5>5. s.pts = f.unit /\ s.size = f.length /\ s.len = 0 /\ s.data = <<>>
          BY <5>4
        <5>6. <<>> \in Seq(Runs)
          BY EmptySeq
        <5>7. s \in Builders
          BY <1>1, <5>4, <5>6 DEF Builders
        <5>8. Pushed(s, f) = [s EXCEPT !.len = s.len + f.bytes, !.data = Append(s.data, run)]
          BY <1>4, <1>5 DEF Pushed
        <5>9. s.len + f.bytes = f.bytes /\ Append(s.data, run) = <<run>>
          BY <1>1, <5>4, <5>5
        <5>10. PICK d \in Seq(Runs) : d = <<run>>
          <6>1. Append(s.data, run) \in Seq(Runs)
            BY <5>5, <5>6, AppendProperties
          <6>. QED
            BY <1>4, <5>9, <6>1
        <5>11. Pushed(s, f) = [s EXCEPT !.len = f.bytes, !.data = d]
          BY <5>8, <5>9, <5>10
        <5>12. PICK l \in Nat : l = f.bytes
          BY <1>1
        <5>13. PICK full : full = [s EXCEPT !.len = l, !.data = d] /\ full = Collected(pes, f)
          BY <5>2, <5>4, <5>5, <5>11, <5>12
        <5>14. full \in Builders /\ full.len = l /\ full.data = d /\ full.pts = s.pts /\ full.size = s.size
          BY <5>13, <5>7 DEF Builders
        <5>15. Begun(full, f)
          BY <1>4, <5>4, <5>5, <5>10, <5>12, <5>14 DEF Begun
        <5>. QED
          BY <4>1, <5>1, <5>13, <5>14, <5>15 DEF Builds
      <4>2. CASE ~f.start
        <5>1. pes.size >= 0
          BY <1>8, <2>3, <4>2
        <5>2. Collected(pes, f) = Pushed(pes, f)
          BY <4>2, <5>1 DEF Collected
        <5>3. PICK l \in Nat : l = pes.len + f.bytes
          BY <1>1, <1>8
        <5>4. Append(pes.data, run) \in Seq(Runs)
          BY <1>8, AppendProperties
        <5>5. PICK d \in Seq(Runs) : d = Append(pes.data, run)
          BY <5>4
        <5>6. Pushed(pes, f) = [pes EXCEPT !.len = l, !.data = d]
          BY <1>4, <1>5, <5>5, <5>3 DEF Pushed
        <5>7. PICK full : full = [pes EXCEPT !.len = l, !.data = d] /\ full = Collected(pes, f)
          BY <5>2, <5>6
        <5>8. full \in Builders /\ full.len = l /\ full.data = d /\ full.pts = pes.pts /\ full.size = pes.size
          BY <5>7 DEF Builders
        <5>9. GoesOn(full, pes, f)
          BY <1>4, <5>5, <5>8, <5>3 DEF GoesOn
        <5>. QED
          BY <4>2, <5>1, <5>7, <5>8, <5>9 DEF Builds
      <4>. QED
        BY <1>1, <4>1, <4>2
    <3>2. CASE is_complete(full)
      <4>1. h = <<Emptied(full), <<Packet(full)>>>>
        BY <1>1, <1>2, <1>6, <2>3, <3>1, <3>2 DEF HandleFrame
      <4>2. PICK b \in Builders, pk \in Packets :
              b = Emptied(full) /\ pk = Packet(full) /\ GivenOut(b, full) /\ PacketOf(pk, full)
        BY <1>8
      <4>3. h[1] = b /\ h[2] = <<pk>>
        BY <4>1, <4>2
      <4>4. full.size >= 0 /\ full.len >= full.size
        BY <3>2 DEF is_complete
      <4>5. GivesIt(h[1], h[2], full)
        BY <4>2, <4>3, <4>4, Zenon DEF GivesIt
      <4>. QED
        BY <1>9, <3>1, <4>2, <4>3, <4>5, Zenon DEF StreamReads
    <3>3. CASE ~is_complete(full)
      <4>1. h = <<full, <<>>>>
        BY <1>1, <1>2, <1>6, <2>3, <3>1, <3>3 DEF HandleFrame
      <4>2. h[1] = full /\ h[2] = <<>>
        BY <4>1
      <4>3. ~(full.size >= 0 /\ full.len >= full.size)
        BY <3>3 DEF is_complete
      <4>4. KeepsIt(h[1], h[2], full)
        BY <4>2, <4>3, Zenon DEF KeepsIt
      <4>. QED
        BY <1>9, <3>1, <4>2, <4>4, Zenon DEF StreamReads
    <3>. QED
      BY <3>2, <3>3
  <2>. QED
    BY <1>1, <2>1, <2>2, <2>3
<1>. QED
  BY <1>2, <1>7, <1>10, Zenon

\* The facts of a frame of a unit that is not awkward.
LEMMA FrameMeets ==
  ASSUME SourceT, ShapeInv, NEW p \in Pids, NEW f \in NextFrames(p), ~AwkwardSize(p, f.size)
  PROVE  /\ f.bytes \in Nat \ {0} /\ f.bytes # FrameSize - 1
         /\ f.from + f.bytes <= f.size /\ f.bytes <= FrameSize
         /\ ~f.start => f.from >= FrameSize /\ f.size - f.from > PesPrefix /\ p \notin Unbounded
         /\ f.from + f.bytes < f.size =>
              f.bytes = FrameSize /\ f.size - (f.from + f.bytes) > PesPrefix /\ p \notin Unbounded
<1>1. PICK n \in Nat, k \in Nat :
        /\ n = f.size /\ k = f.from /\ n > PesPrefix /\ k < n /\ k % FrameSize = 0
        /\ f.bytes = BytesOf(n, k) /\ (~f.start => k > 0)
  BY FrameExact
<1>2. ~AwkwardSize(p, n)
  BY <1>1
<1>3. /\ BytesOf(n, k) \in Nat \ {0} /\ BytesOf(n, k) <= FrameSize /\ k + BytesOf(n, k) <= n
      /\ k > 0 => k >= FrameSize
      /\ k + BytesOf(n, k) < n => BytesOf(n, k) = FrameSize /\ (k + FrameSize) % FrameSize = 0
      /\ BytesOf(n, k) # FrameSize - 1
      /\ k > 0 => n - k > PesPrefix /\ p \notin Unbounded
  BY <1>1, <1>2, FrameShape, Zenon
<1>4. PICK b : b = f.bytes /\ b = BytesOf(n, k)
  BY <1>1
<1>5. /\ b \in Nat \ {0} /\ b <= FrameSize /\ k + b <= n
      /\ k > 0 => k >= FrameSize
      /\ k + b < n => b = FrameSize /\ (k + FrameSize) % FrameSize = 0
      /\ b # FrameSize - 1
      /\ k > 0 => n - k > PesPrefix /\ p \notin Unbounded
  BY <1>3, <1>4, Zenon
<1>6. ASSUME k + b < n PROVE n - (k + b) > PesPrefix /\ p \notin Unbounded
  <2>1. PICK m \in Nat : m = k + b /\ m < n /\ m % FrameSize = 0 /\ m > 0
    BY <1>5, <1>6
  <2>2. m > 0 => n - m > PesPrefix /\ p \notin Unbounded
    BY <1>1, <1>2, <2>1, FrameShape, Zenon
  <2>. QED
    BY <2>1, <2>2
<1>. QED
  BY <1>1, <1>4, <1>5, <1>6

\* A unit that is being put together, after one more frame.
LEMMA UnitGrows ==
  ASSUME SourceT, ShapeInv, NEW p \in Pids, NEW f \in NextFrames(p), ~AwkwardSize(p, f.size),
         NEW us \in Seq(Nat), NEW k \in Nat, NEW g, us = units[p], k = sent[p],
         NEW pes \in Builders, CleanAt(g, pes, us, k, p),
         NEW us2, NEW k2, Sent(us2, k2, f), us2 = IF f.start THEN Append(us, f.size) ELSE us,
         NEW full \in Builders, Builds(full, pes, f)
  PROVE  Gathers(full, us2, k2, p)
<1>1. /\ f.start \in BOOLEAN /\ f.from \in Nat /\ f.bytes \in Nat
      /\ f.start => f.from = 0 /\ ~Mid(us, k)
      /\ ~f.start => Mid(us, k) /\ f.size = us[Len(us)] /\ f.from = k
      /\ f.length = LengthSent(p, f.size)
  BY FrameFacts, FrameExact
<1>2. ~Stray(f)
  BY FrameMeets DEF Stray
<1>3. PICK run \in Runs : run = Run(f) /\ run.unit = f.unit /\ run.from = f.from
  BY FrameIsLater
<1>4. ~run.stray
  BY <1>2, <1>3 DEF Run
<1>5. us2[Len(us2)] = f.size /\ Len(us2) = f.unit /\ k2 = f.from + f.bytes
  BY DEF Sent
<1>6. ASSUME NEW n, n = us2[Len(us2)], full.pts = Len(us2), full.size = LengthSent(p, n), full.len = k2,
             full.data # <<>>, full.data[1].from = 0,
             \A i \in DOMAIN full.data : full.data[i].unit = Len(us2) /\ ~full.data[i].stray
      PROVE  Gathers(full, us2, k2, p)
  BY <1>5, <1>6 DEF Gathers
<1>7. CASE f.start
  <2>1. Begun(full, f)
    BY <1>7 DEF Builds
  <2>2. PICK d \in Seq(Runs) : d = full.data /\ d = <<run>>
    BY <1>3, <2>1, PesFields DEF Begun
  <2>3. d # <<>> /\ d[1] = run /\ DOMAIN d = {1}
    BY <2>2
  <2>4. k2 = f.bytes
    BY <1>1, <1>5, <1>7
  <2>. QED
    BY <1>1, <1>3, <1>4, <1>5, <1>6, <1>7, <2>1, <2>2, <2>3, <2>4 DEF Begun
<1>8. CASE ~f.start
  <2>1. pes.size >= 0 /\ GoesOn(full, pes, f) /\ us2 = us
    BY <1>8 DEF Builds
  <2>2. Gathers(pes, us, k, p)
    BY <1>1, <1>8, <2>1, PesFields DEF CleanAt, Joined
  <2>3. /\ pes.pts = Len(us) /\ pes.size = LengthSent(p, us[Len(us)]) /\ pes.len = k
        /\ pes.data # <<>> /\ pes.data[1].from = 0
        /\ \A i \in DOMAIN pes.data : pes.data[i].unit = Len(us) /\ ~pes.data[i].stray
    BY <2>2 DEF Gathers
  <2>4. PICK d \in Seq(Runs), e \in Seq(Runs) :
          d = full.data /\ e = pes.data /\ d = Append(e, run)
    BY <1>3, <2>1, PesFields DEF GoesOn
  <2>5. /\ Len(d) = Len(e) + 1 /\ \A i \in 1 .. Len(e) : d[i] = e[i]
        /\ d[Len(e) + 1] = run
    BY <2>4, AppendProperties
  <2>6. Len(e) \in Nat /\ Len(e) > 0 /\ DOMAIN e = 1 .. Len(e) /\ DOMAIN d = 1 .. Len(e) + 1
    BY <2>3, <2>4, <2>5, LenProperties, EmptySeq
  <2>7. d # <<>> /\ d[1] = e[1]
    BY <2>5, <2>6
  <2>8. \A i \in DOMAIN d : d[i].unit = Len(us) /\ ~d[i].stray
    BY <1>3, <1>4, <1>5, <2>1, <2>3, <2>4, <2>5, <2>6
  <2>. QED
    BY <1>1, <1>5, <1>6, <1>8, <2>1, <2>3, <2>4, <2>7, <2>8 DEF GoesOn
<1>. QED
  BY <1>1, <1>7, <1>8

LEMMA WholeLater ==
  ASSUME NEW us \in Seq(Nat), NEW n \in Nat, NEW g \in Seq(Packets), NEW c \in Nat, WholeTo(g, us, c)
  PROVE  WholeTo(g, Append(us, n), c)
<1>1. Len(us) \in Nat /\ Len(Append(us, n)) = Len(us) + 1 /\ \A i \in 1 .. Len(us) : Append(us, n)[i] = us[i]
  BY AppendProperties
<1>2. Len(g) \in Nat /\ DOMAIN g = 1 .. Len(g) /\ Len(g) <= c /\ c <= Len(us)
  BY LenProperties DEF WholeTo
<1>3. ASSUME NEW i \in DOMAIN g
      PROVE  IsUnitOf(g[i], Append(us, n), c - Len(g) + i)
  <2>1. PICK u \in 1 .. Len(us) : u = c - Len(g) + i
    BY <1>1, <1>2
  <2>2. IsUnitOf(g[i], us, u)
    BY <2>1 DEF WholeTo
  <2>3. Append(us, n)[u] = us[u]
    BY <1>1
  <2>4. IsUnitOf(g[i], Append(us, n), u)
    BY <2>2, <2>3 DEF IsUnitOf
  <2>. QED
    BY <2>1, <2>4
<1>. QED
  BY <1>1, <1>2, <1>3 DEF WholeTo

LEMMA WholeGiven ==
  ASSUME NEW us \in Seq(Nat), NEW g \in Seq(Packets), NEW c \in Nat, WholeTo(g, us, c),
         c + 1 <= Len(us), NEW pk \in Packets, IsUnitOf(pk, us, c + 1)
  PROVE  WholeTo(Append(g, pk), us, c + 1)
<1>1. /\ Len(g) \in Nat /\ Len(Append(g, pk)) = Len(g) + 1 /\ \A i \in 1 .. Len(g) : Append(g, pk)[i] = g[i]
      /\ Append(g, pk)[Len(g) + 1] = pk /\ Append(g, pk) \in Seq(Packets)
  BY AppendProperties
<1>2. DOMAIN g = 1 .. Len(g) /\ DOMAIN Append(g, pk) = 1 .. Len(g) + 1 /\ Len(g) <= c
  BY <1>1, LenProperties DEF WholeTo
<1>3. ASSUME NEW i \in DOMAIN Append(g, pk)
      PROVE  IsUnitOf(Append(g, pk)[i], us, (c + 1) - Len(Append(g, pk)) + i)
  <2>1. CASE i = Len(g) + 1
    <3>1. (c + 1) - Len(Append(g, pk)) + i = c + 1
      BY <1>1, <2>1
    <3>. QED
      BY <1>1, <2>1, <3>1
  <2>2. CASE i # Len(g) + 1
    <3>1. i \in DOMAIN g /\ Append(g, pk)[i] = g[i]
      BY <1>1, <1>2, <2>2
    <3>2. (c + 1) - Len(Append(g, pk)) + i = c - Len(g) + i
      BY <1>1, <1>2
    <3>3. IsUnitOf(g[i], us, c - Len(g) + i)
      BY <3>1 DEF WholeTo
    <3>. QED
      BY <3>1, <3>2, <3>3
  <2>. QED
    BY <2>1, <2>2
<1>. QED
  BY <1>1, <1>2, <1>3 DEF WholeTo

\* A clean stream stays so with every frame of a unit that is not awkward.
LEMMA CleanRead ==
  ASSUME SourceT, ShapeInv, NEW p \in Pids, NEW f \in NextFrames(p), ~AwkwardSize(p, f.size),
         NEW us \in Seq(Nat), NEW k \in Nat, NEW g \in Seq(Packets), us = units[p], k = sent[p],
         NEW pes \in Builders, CleanAt(g, pes, us, k, p),
         NEW us2, NEW k2, Sent(us2, k2, f), us2 = IF f.start THEN Append(us, f.size) ELSE us,
         NEW b \in Builders, NEW new \in Seq(Packets), StreamReads(b, new, pes, f)
  PROVE  CleanAt(g \o new, b, us2, k2, p)
<1>1. /\ f.start \in BOOLEAN /\ f.from \in Nat /\ f.bytes \in Nat /\ f.size \in Nat /\ f.size > PesPrefix
      /\ f.start => f.from = 0 /\ ~Mid(us, k) /\ f.unit = Len(us) + 1
      /\ ~f.start => Mid(us, k) /\ f.size = us[Len(us)] /\ f.unit = Len(us)
      /\ f.from + f.bytes <= f.size
  BY FrameFacts, FrameExact, FrameMeets
<1>2. PesPrefix \in Nat
  BY SourceAssumption
<1>3. /\ us2 \in Seq(Nat) /\ us2[Len(us2)] = f.size /\ Len(us2) = f.unit /\ us2 # <<>>
      /\ k2 = f.from + f.bytes /\ k2 \in Nat /\ Len(us2) \in Nat
  BY LenProperties DEF Sent
<1>4. Mid(us2, k2) <=> k2 < f.size
  BY <1>3 DEF Mid
<1>5. PICK c \in Nat : /\ c = Complete(us, k) /\ WholeTo(g, us2, c) /\ Len(us2) = c + 1
                       /\ ~f.start => c = Len(us) - 1
  <2>1. WholeTo(g, us, Complete(us, k))
    BY DEF CleanAt
  <2>2. CASE f.start
    <3>1. Complete(us, k) = Len(us) /\ Len(us) \in Nat
      BY <1>1, <2>2, LenProperties DEF Complete
    <3>2. us2 = Append(us, f.size)
      BY <2>2
    <3>3. WholeTo(g, us2, Len(us))
      BY <1>1, <2>1, <3>1, <3>2, WholeLater
    <3>. QED
      BY <1>1, <1>3, <2>2, <3>1, <3>3
  <2>3. CASE ~f.start
    <3>1. Complete(us, k) = Len(us) - 1 /\ us2 = us
      BY <1>1, <2>3 DEF Complete
    <3>2. Len(us) \in Nat /\ Len(us) > 0
      BY <1>1, <2>3, LenProperties, EmptySeq DEF Mid
    <3>3. Len(us) - 1 \in Nat
      BY <3>2
    <3>4. PICK c \in Nat : c = Len(us) - 1
      BY <3>3
    <3>5. c = Complete(us, k)
      BY <3>1, <3>4
    <3>. QED
      BY <1>1, <1>3, <2>1, <2>3, <3>1, <3>2, <3>4, <3>5
  <2>. QED
    BY <1>1, <2>2, <2>3
<1>6. Complete(us2, k2) = IF k2 < f.size THEN c ELSE c + 1
  BY <1>4, <1>5 DEF Complete
<1>7. ~Interrupts(b, new, pes, f)
  BY <1>1 DEF Interrupts, CleanAt
<1>8. CASE Ignored(b, new, pes, f)
  <2>1. ~f.start /\ pes.size < 0 /\ b = pes /\ new = <<>>
    BY <1>8 DEF Ignored
  <2>2. ~Gathers(pes, us, k, p)
    BY <1>1, <1>2, <2>1 DEF Gathers, LengthSent
  <2>3. g = <<>> /\ pes.data = <<>> /\ Joined(g, pes)
    BY <1>1, <2>1, <2>2 DEF CleanAt, Joined
  <2>4. g \o new = <<>>
    BY <2>1, <2>3, ConcatEmptySeq
  <2>5. WholeTo(<<>>, us2, c) /\ WholeTo(<<>>, us2, c + 1)
    <3>1. Len(<<>>) = 0 /\ DOMAIN <<>> = {}
      OBVIOUS
    <3>. QED
      BY <1>5, <3>1 DEF WholeTo
  <2>6. WholeTo(<<>>, us2, Complete(us2, k2))
    BY <1>6, <2>5
  <2>. QED
    BY <1>4, <2>1, <2>3, <2>4, <2>6 DEF CleanAt
<1>9. ASSUME NEW full \in Builders, Builds(full, pes, f), GivesIt(b, new, full) \/ KeepsIt(b, new, full)
      PROVE  CleanAt(g \o new, b, us2, k2, p)
  <2>1. Gathers(full, us2, k2, p)
    BY <1>9, UnitGrows
  <2>2. full.pts = Len(us2) /\ full.size = LengthSent(p, f.size) /\ full.len = k2
    BY <1>3, <2>1 DEF Gathers
  <2>3. CASE k2 < f.size
    <3>1. f.size - k2 > PesPrefix /\ p \notin Unbounded
      BY <1>3, <2>3, FrameMeets
    <3>2. full.size = f.size - PesPrefix
      BY <2>2, <3>1 DEF LengthSent
    <3>3. ~(full.len >= full.size)
      BY <1>1, <1>2, <1>3, <2>2, <3>1, <3>2
    <3>4. b = full /\ new = <<>>
      BY <1>9, <3>3 DEF GivesIt, KeepsIt
    <3>5. g \o new = g
      BY <3>4, ConcatEmptySeq
    <3>. QED
      BY <1>4, <1>5, <1>6, <2>1, <2>3, <3>4, <3>5 DEF CleanAt
  <2>4. CASE ~(k2 < f.size)
    <3>1. k2 = f.size
      BY <1>1, <1>3, <2>4
    <3>2. full.size >= 0 /\ full.len >= full.size
      BY <1>1, <1>2, <2>2, <3>1 DEF LengthSent
    <3>3. GivenOut(b, full) /\ \E pk \in Packets : PacketOf(pk, full) /\ new = <<pk>>
      BY <1>9, <3>2 DEF GivesIt, KeepsIt
    <3>4. PICK pk \in Packets : PacketOf(pk, full) /\ new = <<pk>>
      BY <3>3
    <3>5. g \o new = Append(g, pk)
      BY <3>4, AppendIsConcat
    <3>6. IsUnitOf(pk, us2, Len(us2))
      BY <1>3, <2>1, <2>2, <3>1, <3>4 DEF IsUnitOf, Gathers, PacketOf
    <3>7. IsUnitOf(pk, us2, c + 1) /\ c + 1 <= Len(us2)
      BY <1>5, <3>6
    <3>8. WholeTo(Append(g, pk), us2, c + 1)
      BY <1>3, <1>5, <3>7, WholeGiven
    <3>. QED
      BY <1>4, <1>6, <2>4, <3>3, <3>5, <3>8 DEF CleanAt, GivenOut
  <2>. QED
    BY <2>3, <2>4
<1>. QED
  BY <1>7, <1>8, <1>9 DEF StreamReads

\* The packets from the c-th on are too short for a unit of s bytes.
Short(g, c, s) == \A i \in c + 1 .. Len(g) : g[i].len < s - PesPrefix

LEMMA ShortGiven ==
  ASSUME NEW g \in Seq(Packets), NEW c \in Nat, NEW s \in Nat, Short(g, c, s),
         NEW pk \in Packets, pk.len < s - PesPrefix
  PROVE  Short(Append(g, pk), c, s)
<1>1. /\ Len(g) \in Nat /\ Len(Append(g, pk)) = Len(g) + 1 /\ \A i \in 1 .. Len(g) : Append(g, pk)[i] = g[i]
      /\ Append(g, pk)[Len(g) + 1] = pk
  BY AppendProperties
<1>. QED
  BY <1>1 DEF Short

\* The builder of a cut stream with units of s bytes.
CutBuilder(pes, k, s, p) ==
  /\ s > FrameSize /\ ~AwkwardSize(p, s) /\ pes.size = s - PesPrefix
  /\ IF k < s THEN pes.len + FrameSize <= k /\ (k > FrameSize => pes.data # <<>>)
     ELSE pes.data # <<>> /\ pes.len < s - PesPrefix

LEMMA CutParts ==
  ASSUME NEW c, NEW g, NEW pes, NEW us, NEW k, NEW p
  PROVE  CutAt(c, g, pes, us, k, p) <=>
           us # <<>> /\ (SameSize(us) => CutBuilder(pes, k, us[Len(us)], p) /\ Short(g, c, us[Len(us)]))
BY DEF CutAt, CutBuilder, Short

\* A cut stream stays behind with every frame.
LEMMA CutRead ==
  ASSUME SourceT, ShapeInv, NEW p \in Pids, NEW f \in NextFrames(p), ~AwkwardSize(p, f.size),
         NEW us \in Seq(Nat), NEW k \in Nat, NEW g \in Seq(Packets), us = units[p], k = sent[p],
         NEW pes \in Builders, NEW c \in Nat, CutAt(c, g, pes, us, k, p),
         NEW us2, NEW k2, Sent(us2, k2, f), us2 = IF f.start THEN Append(us, f.size) ELSE us,
         NEW b \in Builders, NEW new \in Seq(Packets), StreamReads(b, new, pes, f)
  PROVE  CutAt(c, g \o new, b, us2, k2, p)
<1>1. /\ f.start \in BOOLEAN /\ f.from \in Nat /\ f.bytes \in Nat \ {0} /\ f.size \in Nat
      /\ f.start => f.from = 0 /\ ~Mid(us, k)
      /\ ~f.start => Mid(us, k) /\ f.from = k /\ f.size = us[Len(us)]
      /\ f.from + f.bytes <= f.size /\ f.bytes <= FrameSize
      /\ f.from + f.bytes < f.size => f.bytes = FrameSize
  BY FrameFacts, FrameExact, FrameMeets
<1>2. PesPrefix \in Nat /\ FrameSize \in Nat /\ PesPrefix < FrameSize
  BY SourceAssumption
<1>3. /\ us2 \in Seq(Nat) /\ us2[Len(us2)] = f.size /\ us2 # <<>>
      /\ k2 = f.from + f.bytes /\ k2 \in Nat
  BY DEF Sent
<1>4. us # <<>> /\ Shape(us, k)
  BY DEF CutAt, ShapeInv
<1> SUFFICES ASSUME SameSize(us2)
             PROVE  CutBuilder(b, k2, f.size, p) /\ Short(g \o new, c, f.size)
  BY <1>3, CutParts
<1>5. SameSize(us) /\ us[Len(us)] = f.size
  <2>1. CASE ~f.start
    BY <1>1, <2>1
  <2>2. CASE f.start
    <3>1. Len(us) \in Nat /\ Len(us) > 0 /\ DOMAIN us = 1 .. Len(us)
      BY <1>4, LenProperties, EmptySeq
    <3>2. /\ us2 = Append(us, f.size) /\ Len(us2) = Len(us) + 1 /\ DOMAIN us2 = 1 .. Len(us) + 1
          /\ \A i \in 1 .. Len(us) : us2[i] = us[i]
      BY <1>1, <1>3, <2>2, AppendProperties, LenProperties
    <3>3. \A i \in 1 .. Len(us) : us[i] = f.size
      <4>1. Len(us2) \in DOMAIN us2 /\ \A i \in 1 .. Len(us) : i \in DOMAIN us2
        BY <3>1, <3>2
      <4>2. \A i \in DOMAIN us2 : us2[i] = us2[Len(us2)]
        BY <4>1 DEF SameSize
      <4>. QED
        BY <1>3, <3>2, <4>1, <4>2
    <3>4. \A u, v \in DOMAIN us : us[u] = us[v]
      BY <3>1, <3>3
    <3>5. Len(us) \in 1 .. Len(us)
      BY <3>1
    <3>6. us[Len(us)] = f.size
      BY <3>3, <3>5
    <3>. QED
      BY <3>4, <3>6 DEF SameSize
  <2>. QED
    BY <1>1, <2>1, <2>2
<1>6. CutBuilder(pes, k, f.size, p) /\ Short(g, c, f.size)
  BY <1>5, CutParts
<1>7. /\ f.size > FrameSize /\ ~AwkwardSize(p, f.size) /\ pes.size = f.size - PesPrefix
      /\ k < f.size => pes.len + FrameSize <= k /\ (k > FrameSize => pes.data # <<>>)
      /\ ~(k < f.size) => pes.data # <<>> /\ pes.len < f.size - PesPrefix
  BY <1>6 DEF CutBuilder
<1>8. /\ f.start => ~(k < f.size)
      /\ ~f.start => k < f.size
  BY <1>1, <1>4, <1>5 DEF Mid
<1>9. pes.len \in Nat /\ pes.size \in Int
  BY PesFields
<1>10. CASE Interrupts(b, new, pes, f)
  <2>1. f.start /\ b.size = pes.size /\ b.len = 0 /\ b.data = <<>>
    BY <1>10 DEF Interrupts, GivenOut
  <2>2. PICK pk \in Packets : pk.len = pes.len /\ new = <<pk>>
    BY <1>10 DEF Interrupts, PacketOf
  <2>3. pk.len < f.size - PesPrefix
    BY <1>7, <1>8, <2>1, <2>2
  <2>4. g \o new = Append(g, pk)
    BY <2>2, AppendIsConcat
  <2>5. Short(g \o new, c, f.size)
    BY <1>1, <1>6, <2>3, <2>4, ShortGiven
  <2>6. k2 = FrameSize /\ k2 < f.size
    BY <1>1, <1>2, <1>3, <1>7, <2>1
  <2>7. CutBuilder(b, k2, f.size, p)
    BY <1>2, <1>7, <2>1, <2>6 DEF CutBuilder
  <2>. QED
    BY <2>5, <2>7
<1>11. CASE Ignored(b, new, pes, f)
  BY <1>1, <1>2, <1>7, <1>11 DEF Ignored
<1>12. ASSUME NEW full \in Builders, Builds(full, pes, f), GivesIt(b, new, full) \/ KeepsIt(b, new, full)
       PROVE  CutBuilder(b, k2, f.size, p) /\ Short(g \o new, c, f.size)
  <2>1. ~f.start /\ GoesOn(full, pes, f)
    BY <1>7, <1>8, <1>12 DEF Builds
  <2>2. PICK l \in Nat : l = full.len /\ l = pes.len + f.bytes
    BY <2>1, PesFields DEF GoesOn
  <2>3. full.size = pes.size /\ f.from = k
    BY <1>1, <2>1 DEF GoesOn
  <2>4. full.size = f.size - PesPrefix /\ l + FrameSize <= k2
    <3>1. pes.len + FrameSize <= k
      BY <1>7, <1>8, <2>1
    <3>2. k2 = k + f.bytes
      BY <1>3, <2>3
    <3>. QED
      <4>1. l + FrameSize <= k2
        <5>1. PICK a \in Nat, m \in Nat : a = f.bytes /\ m = pes.len
          BY <1>1, <1>9
        <5>2. l = m + a /\ m + FrameSize <= k /\ k2 = k + a
          BY <2>2, <3>1, <3>2, <5>1
        <5>. QED
          BY <1>2, <5>2
      <4>. QED
        BY <1>7, <2>3, <4>1
  <2>5. l < f.size - PesPrefix
    BY <1>1, <1>2, <1>3, <2>4
  <2>6. b = full /\ new = <<>>
    <3>1. ~(full.len >= full.size)
      BY <1>1, <1>2, <2>2, <2>4, <2>5
    <3>. QED
      BY <1>12, <3>1 DEF GivesIt, KeepsIt
  <2>7. full.data # <<>>
    <3>1. full.data = Append(pes.data, Run(f)) /\ pes.data \in Seq(Runs) /\ Run(f) \in Runs
      BY <2>1, PesFields, FrameIsLater DEF GoesOn
    <3>2. Append(pes.data, Run(f)) # <<>>
      <4>1. PICK d \in Seq(Runs), r \in Runs : d = pes.data /\ r = Run(f)
        BY <3>1
      <4>2. Append(d, r) # <<>>
        BY AppendProperties
      <4>. QED
        BY <4>1, <4>2
    <3>. QED
      BY <3>1, <3>2
  <2>8. g \o new = g
    BY <2>6, ConcatEmptySeq
  <2>9. CutBuilder(b, k2, f.size, p)
    BY <1>7, <2>2, <2>4, <2>5, <2>6, <2>7 DEF CutBuilder
  <2>. QED
    BY <1>6, <2>8, <2>9
<1>. QED
  BY <1>10, <1>11, <1>12 DEF StreamReads

\* The loss of a frame in the middle of a clean stream's unit.
LEMMA CutBegins ==
  ASSUME SourceT, ShapeInv, NEW p \in Pids, NEW f \in NextFrames(p), ~AwkwardSize(p, f.size), ~f.start,
         NEW us \in Seq(Nat), NEW k \in Nat, NEW g \in Seq(Packets), us = units[p], k = sent[p],
         NEW pes \in Builders, CleanAt(g, pes, us, k, p), pes.data # <<>>,
         NEW k2, Sent(us, k2, f)
  PROVE  CutAt(Len(g), g, pes, us, k2, p)
<1>1. /\ f.from = k /\ f.bytes \in Nat \ {0} /\ f.size \in Nat /\ Mid(us, k) /\ f.size = us[Len(us)]
      /\ k + f.bytes <= f.size /\ k >= FrameSize /\ f.size - k > PesPrefix /\ p \notin Unbounded
      /\ k + f.bytes < f.size => f.bytes = FrameSize
  BY FrameFacts, FrameExact, FrameMeets
<1>2. PesPrefix \in Nat /\ FrameSize \in Nat /\ PesPrefix < FrameSize
  BY SourceAssumption
<1>3. us # <<>> /\ k2 = k + f.bytes
  BY <1>1 DEF Sent
<1>4. Gathers(pes, us, k, p)
  BY <1>1 DEF CleanAt, Joined
<1>5. pes.len = k /\ pes.size = f.size - PesPrefix
  BY <1>1, <1>4 DEF Gathers, LengthSent
<1>6. CutBuilder(pes, k2, f.size, p)
  <2>1. f.size > FrameSize
    BY <1>1, <1>2
  <2>2. k2 < f.size => pes.len + FrameSize <= k2
    BY <1>1, <1>2, <1>3, <1>5
  <2>3. ~(k2 < f.size) => pes.len < f.size - PesPrefix
    BY <1>1, <1>2, <1>3, <1>5
  <2>. QED
    BY <1>5, <2>1, <2>2, <2>3 DEF CutBuilder
<1>7. Short(g, Len(g), f.size)
  <2>1. Len(g) \in Nat
    BY LenProperties
  <2>. QED
    BY <2>1 DEF Short
<1>. QED
  BY <1>1, <1>3, <1>6, <1>7, CutParts


\* What FateInv says of one stream.
FateAt(p) ==
  /\ fate[p] = "clean" => CleanAt(given[p], streams[p], units[p], sent[p], p)
  /\ fate[p] = "cut" => CutAt(cut_at[p], given[p], streams[p], units[p], sent[p], p)

LEMMA FateStays ==
  ASSUME FateInv, NEW q \in DOMAIN streams,
         UNCHANGED <<fate[q], cut_at[q], given[q], streams[q], units[q], sent[q]>>
  PROVE  FateAt(q)'
<1>1. FateAt(q)
  BY DEF FateInv, FateAt
<1>. QED
  BY <1>1, Zenon DEF FateAt

LEMMA AwkwardFrame ==
  ASSUME SourceT, NEW p \in Pids, NEW f \in NextFrames(p)
  PROVE  Awkward(f) <=> AwkwardSize(p, f.size)
BY FrameFacts DEF Awkward, AwkwardSize

LEMMA FateReceived ==
  ASSUME SourceT, DemuxT, ShapeInv, FateInv, NEW p \in Pids, NEW f \in NextFrames(p), Receive(f)
  PROVE  ShapeInv' /\ FateInv'
<1>1. /\ Sends(f) /\ ReadFrame(f) /\ cut_at' = cut_at /\ f.pid = p
      /\ fate' = [fate EXCEPT ![p] = IF Awkward(f) THEN "other" ELSE fate[p]]
  BY FrameFacts DEF Receive, Arrives, BefallsRead
<1>2. /\ Sent(units'[p], sent'[p], f)
      /\ units'[p] = IF f.start THEN Append(units[p], f.size) ELSE units[p]
      /\ \A q \in Pids : q # p => units'[q] = units[q] /\ sent'[q] = sent[q]
  BY <1>1, SentShape
<1>3. ShapeInv'
  BY <1>2 DEF ShapeInv, Sent
<1>4. FateT' /\ fate \in [Pids -> {"clean", "cut", "other"}]
  BY <1>1 DEF FateInv, FateT
<1>5. CASE p \notin DOMAIN streams
  <2>1. UNCHANGED <<streams, given>> /\ DOMAIN streams = {}
    BY <1>1, <1>5, FrameIgnored DEF DemuxT
  <2>2. \A q \in Pids : given'[q] = <<>> /\ fate'[q] # "cut"
    BY <1>1, <1>4, <2>1 DEF FateInv
  <2>. QED
    BY <1>3, <1>4, <2>1, <2>2 DEF FateInv
<1>6. CASE p \in DOMAIN streams
  <2>1. /\ DOMAIN streams' = DOMAIN streams /\ DOMAIN streams = Pids /\ DOMAIN streams # {}
        /\ \A q \in Pids : q # p => streams'[q] = streams[q] /\ given'[q] = given[q]
    BY <1>1, <1>6 DEF ReadFrame, DemuxT
  <2>2. ASSUME NEW q \in Pids, q # p PROVE FateAt(q)'
    BY <1>1, <1>2, <1>4, <2>1, <2>2, FateStays
  <2>3. FateAt(p)'
    <3>1. CASE Awkward(f)
      BY <1>1, <1>4, <3>1 DEF FateAt
    <3>2. CASE ~Awkward(f)
      <4>1. ~AwkwardSize(p, f.size) /\ fate'[p] = fate[p] /\ cut_at'[p] = cut_at[p]
        BY <1>1, <1>4, <3>2, AwkwardFrame
      <4>2. f.bytes # FrameSize - 1
        BY <4>1, FrameMeets
      <4>3. PICK b \in Builders, new \in Seq(Packets) :
              /\ streams' = [streams EXCEPT ![p] = b]
              /\ given' = [given EXCEPT ![p] = given[p] \o new]
              /\ StreamReads(b, new, streams[p], f)
        BY <1>1, <1>6, <4>2, StreamRead, Zenon
      <4>4. PICK us \in Seq(Nat), k \in Nat, g \in Seq(Packets), pes \in Builders :
              us = units[p] /\ k = sent[p] /\ g = given[p] /\ pes = streams[p]
        BY <1>6 DEF SourceT, DemuxT
      <4>5. PICK us2, k2 : us2 = units'[p] /\ k2 = sent'[p]
        OBVIOUS
      <4>6. Sent(us2, k2, f) /\ us2 = (IF f.start THEN Append(us, f.size) ELSE us)
        BY <1>2, <4>4, <4>5
      <4>7. streams'[p] = b /\ given'[p] = g \o new
        BY <1>6, <4>3, <4>4 DEF DemuxT
      <4>8. StreamReads(b, new, pes, f)
        BY <4>3, <4>4
      <4>9. FateAt(p)
        BY <1>6 DEF FateInv, FateAt
      <4>10. CASE fate[p] = "clean"
        <5>1. CleanAt(g, pes, us, k, p)
          BY <4>4, <4>9, <4>10 DEF FateAt
        <5>2. CleanAt(g \o new, b, us2, k2, p)
          BY <4>1, <4>4, <4>6, <4>8, <5>1, CleanRead
        <5>. QED
          BY <4>1, <4>5, <4>7, <4>10, <5>2 DEF FateAt
      <4>11. CASE fate[p] = "cut"
        <5>1. PICK c \in Nat : c = cut_at[p]
          BY DEF FateInv, FateT
        <5>2. CutAt(c, g, pes, us, k, p)
          BY <4>4, <4>9, <4>11, <5>1 DEF FateAt
        <5>3. CutAt(c, g \o new, b, us2, k2, p)
          BY <4>1, <4>4, <4>6, <4>8, <5>2, CutRead
        <5>. QED
          BY <4>1, <4>5, <4>7, <4>11, <5>1, <5>3 DEF FateAt
      <4>. QED
        BY <4>1, <4>10, <4>11 DEF FateAt
    <3>. QED
      BY <3>1, <3>2
  <2>4. \A q \in DOMAIN streams' : FateAt(q)'
    BY <2>1, <2>2, <2>3
  <2>. QED
    BY <1>3, <1>4, <2>1, <2>4 DEF FateInv, FateAt
<1>. QED
  BY <1>5, <1>6

LEMMA FateLost ==
  ASSUME SourceT, DemuxT, ShapeInv, FateInv, NEW p \in Pids, NEW f \in NextFrames(p), LoseFrame(f)
  PROVE  ShapeInv' /\ FateInv'
<1>1. /\ Sends(f) /\ streams' = streams /\ given' = given /\ f.pid = p
      /\ IF p \in DOMAIN streams THEN BefallsLost(f) ELSE UNCHANGED history
  BY FrameFacts DEF LoseFrame, Lost, demuxvars
<1>2. /\ Sent(units'[p], sent'[p], f)
      /\ units'[p] = IF f.start THEN Append(units[p], f.size) ELSE units[p]
      /\ \A q \in Pids : q # p => units'[q] = units[q] /\ sent'[q] = sent[q]
  BY <1>1, SentShape
<1>3. ShapeInv'
  BY <1>2 DEF ShapeInv, Sent
<1>4. FateT
  BY DEF FateInv
<1>5. CASE p \notin DOMAIN streams
  <2>1. UNCHANGED <<fate, cut_at>> /\ DOMAIN streams = {}
    BY <1>1, <1>5 DEF history, DemuxT
  <2>. QED
    BY <1>1, <1>3, <1>4, <2>1 DEF FateInv, FateT
<1>6. CASE p \in DOMAIN streams
  <2>1. DOMAIN streams = Pids /\ DOMAIN streams # {}
    BY <1>6 DEF DemuxT
  <2>2. PICK us \in Seq(Nat), k \in Nat, g \in Seq(Packets), pes \in Builders :
          us = units[p] /\ k = sent[p] /\ g = given[p] /\ pes = streams[p]
    BY <1>6 DEF SourceT, DemuxT
  <2>3. PICK cuts : cuts <=> ~Awkward(f) /\ fate[p] = "clean" /\ ~f.start /\ pes.data # <<>>
    OBVIOUS
  <2>4. PICK fresh : fresh = IF cuts THEN "cut" ELSE "other"
    OBVIOUS
  <2>5. fate' = [fate EXCEPT ![p] = fresh] /\ cut_at' = [cut_at EXCEPT ![p] = Len(g)]
    BY <1>1, <1>6, <2>2, <2>3, <2>4 DEF BefallsLost
  <2>6. Len(g) \in Nat
    BY LenProperties
  <2>7. FateT' /\ fate'[p] = fresh /\ cut_at'[p] = Len(g)
    BY <1>4, <2>4, <2>5, <2>6 DEF FateT
  <2>8. ASSUME NEW q \in Pids, q # p PROVE FateAt(q)'
    BY <1>1, <1>2, <1>4, <2>1, <2>5, <2>8, FateStays DEF FateT
  <2>9. FateAt(p)'
    <3>1. CASE cuts
      <4>1. ~AwkwardSize(p, f.size) /\ fate[p] = "clean" /\ ~f.start /\ pes.data # <<>>
        BY <2>3, <3>1, AwkwardFrame
      <4>2. CleanAt(g, pes, us, k, p)
        BY <1>6, <2>2, <4>1 DEF FateInv
      <4>3. PICK k2 : k2 = sent'[p] /\ Sent(us, k2, f) /\ units'[p] = us
        BY <1>2, <2>2, <4>1
      <4>4. CutAt(Len(g), g, pes, us, k2, p)
        BY <2>2, <4>1, <4>2, <4>3, CutBegins
      <4>. QED
        BY <1>1, <2>2, <2>4, <2>7, <3>1, <4>3, <4>4 DEF FateAt
    <3>2. CASE ~cuts
      BY <2>4, <2>7, <3>2 DEF FateAt
    <3>. QED
      BY <3>1, <3>2
  <2>10. \A q \in DOMAIN streams' : FateAt(q)'
    BY <1>1, <2>1, <2>8, <2>9
  <2>. QED
    BY <1>1, <1>3, <2>1, <2>7, <2>10 DEF FateInv, FateAt
<1>. QED
  BY <1>5, <1>6

LEMMA FateTable ==
  ASSUME SourceT, DemuxT, ShapeInv, FateInv, ReceivePMT
  PROVE  ShapeInv' /\ FateInv'
<1>1. /\ UNCHANGED <<units, sent, given, cut_at>>
      /\ streams' = IF pmt_pid THEN [p \in Pids |-> NoBuilder] ELSE streams
      /\ fate' = [p \in Pids |-> IF p \in DOMAIN streams /\ (MidUnit(p) \/ fate[p] = "cut")
                                 THEN "other" ELSE fate[p]]
  BY DEF ReceivePMT, SendsTable, ReadPMT, BefallsTable
<1>2. ShapeInv'
  BY <1>1 DEF ShapeInv
<1>3. FateT' /\ fate \in [Pids -> {"clean", "cut", "other"}]
  BY <1>1 DEF FateInv, FateT
<1>4. DOMAIN streams' = {} => \A p \in Pids : given'[p] = <<>> /\ fate'[p] # "cut"
  <2> SUFFICES ASSUME DOMAIN streams' = {}, NEW p \in Pids
               PROVE  given'[p] = <<>> /\ fate'[p] # "cut"
    OBVIOUS
  <2>1. DOMAIN streams = {}
    BY <1>1 DEF DemuxT
  <2>. QED
    BY <1>1, <2>1 DEF FateInv
<1>5. ASSUME NEW p \in DOMAIN streams' PROVE FateAt(p)'
  <2>1. p \in Pids /\ DOMAIN streams \in {{}, Pids}
    BY <1>1 DEF DemuxT
  <2>2. fate'[p] # "cut"
    BY <1>1, <2>1 DEF FateInv
  <2>3. ASSUME fate'[p] = "clean"
        PROVE  CleanAt(given'[p], streams'[p], units'[p], sent'[p], p)
    <3>1. PICK us \in Seq(Nat), k \in Nat, g \in Seq(Packets) : us = units[p] /\ k = sent[p] /\ g = given[p]
      BY <2>1 DEF SourceT, DemuxT
    <3>2. fate[p] = "clean" /\ (p \in DOMAIN streams => ~Mid(us, k))
      BY <1>1, <2>1, <2>3, <3>1 DEF MidUnit, Mid, Current
    <3>3. CASE p \in DOMAIN streams
      <4>1. CleanAt(g, streams[p], us, k, p)
        BY <3>1, <3>2, <3>3 DEF FateInv
      <4>2. NoBuilder.data = <<>>
        BY DEF NoBuilder
      <4>3. streams'[p] = NoBuilder \/ streams'[p] = streams[p]
        BY <1>1, <2>1
      <4>4. CleanAt(g, streams'[p], us, k, p)
        BY <3>2, <3>3, <4>1, <4>2, <4>3 DEF CleanAt
      <4>. QED
        BY <1>1, <3>1, <4>4
    <3>4. CASE p \notin DOMAIN streams
      <4>1. g = <<>> /\ streams'[p] = NoBuilder
        BY <1>1, <2>1, <3>1, <3>4 DEF FateInv
      <4>2. Joined(g, NoBuilder) /\ NoBuilder.data = <<>>
        BY <4>1 DEF Joined, NoBuilder
      <4>3. Complete(us, k) \in Nat /\ Complete(us, k) <= Len(us)
        <5>1. Len(us) \in Nat /\ (us # <<>> => Len(us) > 0)
          BY LenProperties, EmptySeq
        <5>. QED
          BY <5>1 DEF Complete, Mid
      <4>4. WholeTo(g, us, Complete(us, k))
        <5>1. Len(g) = 0 /\ DOMAIN g = {}
          BY <4>1
        <5>. QED
          BY <4>3, <5>1 DEF WholeTo
      <4>5. CleanAt(g, NoBuilder, us, k, p)
        BY <4>2, <4>4 DEF CleanAt
      <4>. QED
        BY <1>1, <3>1, <4>1, <4>5
    <3>. QED
      BY <3>3, <3>4
  <2>. QED
    BY <2>2, <2>3 DEF FateAt
<1>. QED
  BY <1>2, <1>3, <1>4, <1>5 DEF FateInv, FateAt

LEMMA FatesStep ==
  ASSUME SourceT, DemuxT, ShapeInv, FateInv, [Next]_vars
  PROVE  ShapeInv' /\ FateInv'
<1>1. CASE ReceivePAT \/ StartOutput \/ HeaderFails \/ Transcode \/ Write \/ UNCHANGED vars
  <2>1. UNCHANGED <<units, sent, streams, given, fate, cut_at>>
    BY <1>1 DEF ReceivePAT, SendsTable, ReadPAT, StartOutput, HeaderFails, Transcode, Write, vars,
       sourcevars, demuxvars, history
  <2>. QED
    BY <2>1 DEF ShapeInv, FateInv, FateT
<1>. QED
  BY <1>1, FateReceived, FateLost, FateTable DEF Next

\* The invariant of the two theorems below.
DemuxInv == SourceT /\ DemuxT /\ ShapeInv /\ FateInv

LEMMA DemuxInvInit == Init => DemuxInv
BY SourceDemuxInit, FateInit DEF DemuxInv

LEMMA DemuxInvStep == DemuxInv /\ [Next]_vars => DemuxInv'
BY SourceDemuxStep, FatesStep DEF DemuxInv

LEMMA CleanIsWhole == DemuxInv => CleanUnitsWhole
<1> SUFFICES ASSUME DemuxInv, NEW p \in Pids, fate[p] = "clean", DOMAIN streams = Pids,
                    NEW complete, complete = Len(units[p]) - (IF MidUnit(p) THEN 1 ELSE 0),
                    NEW i \in DOMAIN given[p]
             PROVE  IsUnit(given[p][i], p, complete - Len(given[p]) + i)
  BY DEF CleanUnitsWhole
<1>1. PICK us \in Seq(Nat), g \in Seq(Packets) : us = units[p] /\ g = given[p]
  BY DEF DemuxInv, SourceT, DemuxT
<1>2. CleanAt(g, streams[p], us, sent[p], p)
  BY <1>1 DEF DemuxInv, FateInv
<1>3. Complete(us, sent[p]) = complete
  <2>1. Len(us) \in Nat /\ us = units[p] /\ (MidUnit(p) <=> Mid(us, sent[p]))
    BY <1>1, LenProperties DEF MidUnit, Mid, Current
  <2>2. CASE MidUnit(p)
    <3>1. Mid(us, sent[p]) /\ complete = Len(us) - 1
      BY <2>1, <2>2
    <3>. QED
      BY <3>1 DEF Complete
  <2>3. CASE ~MidUnit(p)
    <3>1. ~Mid(us, sent[p]) /\ complete = Len(us)
      BY <2>1, <2>3
    <3>. QED
      BY <3>1 DEF Complete
  <2>. QED
    BY <2>2, <2>3
<1>4. IsUnitOf(g[i], us, complete - Len(g) + i)
  BY <1>1, <1>2, <1>3 DEF CleanAt, WholeTo
<1>. QED
  BY <1>1, <1>4 DEF IsUnit, IsUnitOf

LEMMA CutIsShort == DemuxInv => CutNeverHeals
<1> SUFFICES ASSUME DemuxInv, NEW p \in Pids, fate[p] = "cut",
                    \A u, v \in DOMAIN units[p] : units[p][u] = units[p][v],
                    NEW i \in cut_at[p] + 1 .. Len(given[p]), NEW u \in DOMAIN units[p]
             PROVE  ~IsUnit(given[p][i], p, u)
  BY DEF CutNeverHeals
<1>1. PICK us \in Seq(Nat), g \in Seq(Packets), c \in Nat : us = units[p] /\ g = given[p] /\ c = cut_at[p]
  BY DEF DemuxInv, SourceT, DemuxT, FateInv, FateT
<1>2. p \in DOMAIN streams
  BY DEF DemuxInv, DemuxT, FateInv
<1>3. CutAt(c, g, streams[p], us, sent[p], p) /\ SameSize(us)
  BY <1>1, <1>2 DEF DemuxInv, FateInv, SameSize
<1>4. us # <<>> /\ Short(g, c, us[Len(us)])
  BY <1>3, CutParts
<1>5. us[Len(us)] = us[u] /\ us[u] \in Nat /\ PesPrefix \in Nat
  <2>1. Len(us) \in DOMAIN us
    BY <1>4, LenProperties, EmptySeq
  <2>. QED
    BY <1>1, <1>3, <2>1, SourceAssumption DEF SameSize
<1>6. g[i].len < us[u] - PesPrefix
  BY <1>1, <1>4, <1>5 DEF Short
<1>7. g[i].len # us[u]
  <2>1. g[i] \in Packets
    <3>1. i \in DOMAIN g
      BY <1>1, LenProperties
    <3>. QED
      BY <3>1
  <2>2. g[i].len \in Nat
    BY <2>1 DEF Packets
  <2>. QED
    BY <1>5, <1>6, <2>2
<1>. QED
  BY <1>1, <1>7 DEF IsUnit

\* While nothing befalls a stream, read_packet gives its units one by one, whole,
\* with their times, and up to the last that was sent completely: for every size
\* of frames and units, but for those whose last frame is one byte short of full
\* or is not counted by the length of their PES header.
THEOREM CleanUnitsAlwaysWhole == Spec => []CleanUnitsWhole
<1>1. Init => DemuxInv
  BY DemuxInvInit
<1>2. DemuxInv /\ [Next]_vars => DemuxInv'
  BY DemuxInvStep
<1>3. DemuxInv => CleanUnitsWhole
  BY CleanIsWhole
<1>. QED
  BY <1>1, <1>2, <1>3, PTL DEF Spec

\* After the loss of one frame a stream of units of one size never gives a whole
\* unit again: is_complete waits for bytes that the next start frame cuts off.
THEOREM CutAlwaysNeverHeals == Spec => []CutNeverHeals
<1>1. Init => DemuxInv
  BY DemuxInvInit
<1>2. DemuxInv /\ [Next]_vars => DemuxInv'
  BY DemuxInvStep
<1>3. DemuxInv => CutNeverHeals
  BY CutIsShort
<1>. QED
  BY <1>1, <1>2, <1>3, PTL DEF Spec

==============================================================================
