------------------------------ MODULE TSDemuxer ------------------------------
(***************************************************************************)
(* TSDemuxer of format/ts/demuxer.rs: the tables it follows and the PES    *)
(* packets it puts together from frames.  streams() and read_packet() look *)
(* at a frame the same way until the program map is known; then the first  *)
(* returns, and the second goes on until it has a packet.  The bytes       *)
(* collected are runs of bytes of the sender's units.                      *)
(***************************************************************************)
EXTENDS TSSource

VARIABLES
  pmt_pid,  \* whether a PAT has named the PMT
  streams,  \* elementary streams to their builders, empty before a PMT
  given     \* packets returned, by stream

demuxvars == <<pmt_pid, streams, given>>

NoBuilder == [pts |-> 0, size |-> -1, len |-> 0, data |-> <<>>]

DemuxInit ==
  /\ pmt_pid = FALSE
  /\ streams = [p \in {} |-> NoBuilder]
  /\ given = [p \in Pids |-> <<>>]

\* A frame one byte short of full has an adaptation field of length 0, which
\* is not stepped over: its length byte stays in front of the payload.
Stray(f) == f.bytes = FrameSize - 1

Run(f) == [unit |-> f.unit, from |-> f.from, bytes |-> f.bytes, stray |-> Stray(f)]

RunLength(f) == IF Stray(f) THEN f.bytes + 1 ELSE f.bytes

\* Behind a stray byte the stream id is taken for the length.
LengthRead(f) == IF Stray(f) THEN 256 * FrameSize ELSE f.length

\* A builder starts with every start frame that finds nothing collected.
StartedAnew(pes, f) ==
  [pts |-> IF Stray(f) THEN 0 ELSE f.unit, size |-> LengthRead(f), len |-> 0, data |-> <<>>]

Pushed(pes, f) ==
  [pes EXCEPT !.len = @ + RunLength(f), !.data = Append(@, Run(f))]

CompleteLate(pes) == pes.size >= 0 /\ pes.len > pes.size + PesPrefix

is_complete(pes) == pes.size >= 0 /\ pes.len >= pes.size

EmptiedKept(pes) == [pes EXCEPT !.len = 0]

\* Taking the data leaves the builder, with its time and its size.
Emptied(pes) == [pes EXCEPT !.len = 0, !.data = <<>>]

Packet(pes) == [pts |-> pes.pts, len |-> pes.len, data |-> pes.data]

GivesNever(pes, f) == FALSE

\* A start frame that finds data collected gives that out and is dropped.
GivesOnStart(pes, f) == f.start /\ pes.data # <<>>

\* The builder after frame f.
Collected(pes, f) ==
  IF f.start THEN Pushed(StartedAnew(pes, f), f)
  ELSE IF pes.size >= 0 THEN Pushed(pes, f) ELSE pes

\* A frame of an elementary stream: the builder it leaves and the packets,
\* one or none, that it makes read_packet return.
HandleFrame(f) ==
  LET pes == streams[f.pid]
      b == Collected(pes, f)
  IN  IF GivesOnStart(pes, f) THEN <<Emptied(pes), <<Packet(pes)>>>>
      ELSE IF is_complete(b) THEN <<Emptied(b), <<Packet(b)>>>>
      ELSE <<b, <<>>>>

ReadFrame(f) ==
  /\ IF f.pid \in DOMAIN streams
     THEN /\ streams' = [streams EXCEPT ![f.pid] = HandleFrame(f)[1]]
          /\ given' = [given EXCEPT ![f.pid] = @ \o HandleFrame(f)[2]]
     ELSE UNCHANGED <<streams, given>>
  /\ UNCHANGED pmt_pid

ReadPAT ==
  /\ pmt_pid' = TRUE
  /\ UNCHANGED <<streams, given>>

\* Every PMT, the first or a repetition, makes all streams anew.
ReadPMT ==
  /\ streams' = IF pmt_pid THEN [p \in Pids |-> NoBuilder] ELSE streams
  /\ UNCHANGED <<pmt_pid, given>>
==============================================================================
