----------------------------- MODULE TSPipeline ------------------------------
(***************************************************************************)
(* An application that copies a transport stream: it asks the demuxer for  *)
(* its streams, gives them to a transcoder and to the header of a muxer,   *)
(* and then takes packet after packet through the three.  It goes on after *)
(* a packet that fails.                                                    *)
(***************************************************************************)
EXTENDS TSDemuxer, Transcoder, TSMuxer

CONSTANT MaxFaults  \* bound of the model: writes that fail

ASSUME FaultsAssumption == MaxFaults \in Nat

VARIABLES
  phase,    \* "probing" for streams, "listed", or "copying"
  listing,  \* the streams in the order streams() gave them
  held,     \* the packet read, none or one
  todo,     \* packets to be written
  faults,   \* writes that failed
  fate,     \* by stream: "clean", "cut" by the loss of one frame, or "other"
  cut_at    \* packets the stream had given when it was cut

appvars == <<phase, listing, held, todo>>
history == <<fate, cut_at>>
vars == <<sourcevars, demuxvars, transcodervars, muxvars, appvars, faults, history>>

Orders == {s \in [Pids -> Pids] : \A p, q \in Pids : s[p] = s[q] => p = q}

Init ==
  /\ SourceInit /\ DemuxInit /\ TranscoderInit /\ MuxInit
  /\ phase = "probing" /\ listing = <<>> /\ held = <<>> /\ todo = <<>>
  /\ faults = 0
  /\ fate = [p \in Pids |-> "clean"] /\ cut_at = [p \in Pids |-> 0]

------------------------------------------------------------------------------
(* What may befall a stream.                                                *)

\* A unit with a frame one byte short of full, with a last frame that its
\* length does not need, or without a length and longer than a frame.
Awkward(f) ==
  LET last == f.size % FrameSize
  IN  \/ last = FrameSize - 1
      \/ f.size > FrameSize /\ (last \in 1 .. PesPrefix \/ f.pid \in Unbounded)

BefallsRead(f) ==
  /\ fate' = [fate EXCEPT ![f.pid] = IF Awkward(f) THEN "other" ELSE @]
  /\ UNCHANGED cut_at

\* One lost frame cuts a unit whose first frame was read.
BefallsLost(f) ==
  /\ fate' = [fate EXCEPT ![f.pid] =
       IF ~Awkward(f) /\ @ = "clean" /\ ~f.start /\ streams[f.pid].data # <<>>
       THEN "cut" ELSE "other"]
  /\ cut_at' = [cut_at EXCEPT ![f.pid] = Len(given[f.pid])]

\* A repeated table falls into the middle of a unit, or ends a cut.
BefallsTable ==
  /\ fate' = [p \in Pids |->
       IF p \in DOMAIN streams /\ (MidUnit(p) \/ fate[p] = "cut") THEN "other" ELSE fate[p]]
  /\ UNCHANGED cut_at

------------------------------------------------------------------------------
Reading == phase \in {"probing", "copying"} /\ held = <<>> /\ todo = <<>>

\* The packet that the last frame of p has made, as the application gets it;
\* the demuxer gives it no duration, the application gives it Duration.
Given(p) ==
  LET n == Len(given'[p]) IN
  [stream_index |-> p, pts |-> given'[p][n].pts, source |-> <<p, n>>,
   len |-> given'[p][n].len]

Receive(f) ==
  /\ Reading
  /\ Arrives(f) /\ ReadFrame(f) /\ BefallsRead(f)
  /\ held' = IF given'[f.pid] = given[f.pid] THEN <<>> ELSE <<Given(f.pid)>>
  /\ UNCHANGED <<transcodervars, muxvars, phase, listing, todo, faults>>

LoseFrame(f) ==
  /\ Reading
  /\ Lost(f)
  /\ IF f.pid \in DOMAIN streams THEN BefallsLost(f) ELSE UNCHANGED history
  /\ UNCHANGED <<demuxvars, transcodervars, muxvars, appvars, faults>>

ReceivePAT ==
  /\ Reading
  /\ SendsTable /\ ReadPAT
  /\ UNCHANGED <<transcodervars, muxvars, appvars, faults, history>>

\* streams() lists a HashMap, in any order.
ReceivePMT ==
  /\ Reading
  /\ SendsTable /\ ReadPMT /\ BefallsTable
  /\ IF phase = "probing" /\ pmt_pid
     THEN phase' = "listed" /\ listing' \in Orders
     ELSE UNCHANGED <<phase, listing>>
  /\ UNCHANGED <<transcodervars, muxvars, held, todo, faults>>

Types == [i \in Pids |-> Program[listing[i]]]

StartOutput ==
  /\ phase = "listed"
  /\ NewTranscoder(Types)
  /\ Register(Types)
  /\ phase' = "copying"
  /\ UNCHANGED <<sourcevars, demuxvars, listing, held, todo, faults, history>>

\* The tables cannot be written; the application tries again.
HeaderFails ==
  /\ phase = "listed" /\ faults < MaxFaults
  /\ Register(Types)
  /\ faults' = faults + 1
  /\ UNCHANGED <<sourcevars, demuxvars, transcodervars, appvars, history>>

Transcode ==
  /\ held # <<>>
  /\ \E k \in 0 .. MaxEncoded :
       todo' = IF Passes(Head(held)) THEN held ELSE Encoded(Head(held), k)
  /\ transcode_packet(Head(held), todo')
  /\ held' = <<>>
  /\ UNCHANGED <<sourcevars, demuxvars, muxvars, phase, listing, faults, history>>

Write ==
  /\ todo # <<>>
  /\ \/ write_packet(Head(todo)) /\ UNCHANGED faults
     \/ /\ faults < MaxFaults
        /\ \E n \in 0 .. PieceCount(Head(todo).len) : WriteFails(Head(todo), n)
        /\ faults' = faults + 1
  /\ todo' = Tail(todo)
  /\ UNCHANGED <<sourcevars, demuxvars, transcodervars, phase, listing, held, history>>

Next ==
  \/ \E p \in Pids : \E f \in NextFrames(p) : Receive(f) \/ LoseFrame(f)
  \/ ReceivePAT \/ ReceivePMT
  \/ StartOutput \/ HeaderFails
  \/ Transcode \/ Write

Spec == Init /\ [][Next]_vars

------------------------------------------------------------------------------
(* Properties. *)

TypeOK ==
  /\ pmt_pid \in BOOLEAN
  /\ DOMAIN streams \in {{}, Pids}
  /\ phase \in {"probing", "listed", "copying"}
  /\ (phase # "probing" => listing \in Orders /\ DOMAIN streams = Pids)
  /\ Len(held) <= 1 /\ Len(todo) <= MaxEncoded + 1
  /\ Len(registered) = Len(continuity_counters) /\ Len(output) = Len(registered)
  /\ \A i \in DOMAIN continuity_counters : continuity_counters[i] \in 0 .. CounterMod - 1
  /\ faults \in 0 .. MaxFaults
  /\ fate \in [Pids -> {"clean", "cut", "other"}]

Before(r, s) == r.unit < s.unit \/ (r.unit = s.unit /\ r.from + r.bytes <= s.from)

Ascending(data) == \A i \in 1 .. Len(data) - 1 : Before(data[i], data[i + 1])

\* Whatever is lost or repeated, the bytes the demuxer gives out for a stream,
\* and after them those it has collected, are in the order they were sent, and
\* none comes twice.
GivenInOrder ==
  \A p \in DOMAIN streams :
    LET ends == given[p] \o <<[data |-> streams[p].data]>>
    IN  /\ \A i \in DOMAIN ends : Ascending(ends[i].data)
        /\ \A i, j \in DOMAIN ends : i < j =>
             \A a \in DOMAIN ends[i].data, b \in DOMAIN ends[j].data :
               Before(ends[i].data[a], ends[j].data[b])

\* Packet pk is unit u of p, all of it, nothing else, and with its time.
IsUnit(pk, p, u) ==
  /\ pk.pts = u /\ pk.len = units[p][u]
  /\ pk.data[1].from = 0
  /\ \A i \in DOMAIN pk.data : pk.data[i].unit = u /\ ~pk.data[i].stray

\* While nothing befalls a stream, read_packet gives its units one by one, whole
\* and up to the last that was sent completely.
CleanUnitsWhole ==
  \A p \in Pids : fate[p] = "clean" /\ DOMAIN streams = Pids =>
    LET complete == Len(units[p]) - (IF MidUnit(p) THEN 1 ELSE 0)
        skipped == complete - Len(given[p])
    IN  \A i \in DOMAIN given[p] : IsUnit(given[p][i], p, skipped + i)

\* A stream of units of one size never recovers from the loss of one frame: no
\* unit is given whole after that, however many follow, because each start frame
\* finds the rest of the unit before it and is dropped, until another frame is
\* lost or the table is repeated.
CutNeverHeals ==
  \A p \in Pids :
    fate[p] = "cut" /\ (\A u, v \in DOMAIN units[p] : units[p][u] = units[p][v]) =>
      \A i \in cut_at[p] + 1 .. Len(given[p]) :
        \A u \in DOMAIN units[p] : ~IsUnit(given[p][i], p, u)

\* One TS packet goes on where the other ends.
Continues(a, b) ==
  b.source = a.source /\ b.pts = a.pts /\ ~b.start /\ b.offset = a.offset + a.bytes

\* A reader that watches the continuity counter of a muxed stream sees every
\* packet that a failed write has left incomplete; without failures the
\* counter has no gap.
TruncationIsSeen ==
  \A i \in DOMAIN output : \A k \in 1 .. Len(output[i]) - 1 :
    LET a == output[i][k]
        b == output[i][k + 1]
    IN  IF b.counter = (a.counter + 1) % CounterMod
        THEN Continues(a, b) \/ (b.start /\ a.offset + a.bytes = a.len)
        ELSE faults > 0 /\ b.start

\* The times of a transcoded stream advance from packet to packet, across
\* frames that the codecs refuse or hold back and writes that fail.
TimesAdvance ==
  \A i \in DOMAIN codecs : codecs[i] \in Transcoded =>
    \A j, k \in DOMAIN output[i] :
      j < k /\ output[i][k].start => output[i][k].pts >= output[i][j].pts + Duration

\* What the comments of write_packet and TS_PACKET_SIZE promise.
WritesTSPackets ==
  \A i \in DOMAIN output : \A k \in DOMAIN output[i] : output[i][k].size = PacketSize
==============================================================================
