------------------------------ MODULE Transcoder ------------------------------
(***************************************************************************)
(* Transcoder of av/transcode/mod.rs: each stream is passed on, or decoded *)
(* and encoded again with times of its own timeline.  A decoder may fail   *)
(* or hold a frame back, and an encoder may fail or give several packets.  *)
(* Streams are numbered from 1; every packet has the same Duration.        *)
(***************************************************************************)
EXTENDS Integers, Sequences

CONSTANTS
  Transcoded,  \* codec types that the options name codecs for
  Duration,    \* of every packet
  MaxEncoded   \* bound of the model: packets from one frame

ASSUME TranscoderAssumption == Duration \in Nat /\ MaxEncoded \in Nat

VARIABLES
  codecs,    \* codec types of the streams
  timelines  \* time of the next encoded packet, by stream

transcodervars == <<codecs, timelines>>

TranscoderInit == codecs = <<>> /\ timelines = <<>>

NewTranscoder(types) ==
  /\ codecs' = types
  /\ timelines' = [i \in DOMAIN types |-> 0]

Passes(pkt) == codecs[pkt.stream_index] \notin Transcoded

\* The k packets made of one, each with a time popped from the timeline.
Encoded(pkt, k) ==
  [j \in 1 .. k |->
     [pkt EXCEPT !.pts = timelines[pkt.stream_index] + (j - 1) * Duration]]

PoppedOnce(i, k) == timelines[i] + Duration

\* The time is moved only by packets that come out.
Popped(i, k) == timelines[i] + k * Duration

\* With k = 0 nothing came out of the decoder, or one of the two failed.
transcode_packet(pkt, out) ==
  \/ /\ Passes(pkt)
     /\ out = <<pkt>>
     /\ UNCHANGED transcodervars
  \/ /\ ~Passes(pkt)
     /\ out = Encoded(pkt, Len(out))
     /\ timelines' = [timelines EXCEPT ![pkt.stream_index] =
                        Popped(pkt.stream_index, Len(out))]
     /\ UNCHANGED codecs
==============================================================================
