---------------------------- MODULE MCTSPipeline -----------------------------
(***************************************************************************)
(* Frames of 4 bytes, so that units of 3 to 6 bytes take one frame or two, *)
(* with every kind of last frame; TS packets of 8.  The units of stream 1  *)
(* carry their length, those of stream 2 do not.                           *)
(***************************************************************************)
EXTENDS TSPipeline

TwoStreams == <<"H264", "AAC">>
OneStream == <<"H264">>
Sizes == [p \in Pids |-> IF p = 1 THEN {3, 5, 6} ELSE {6}]
UnitBounds == [p \in Pids |-> IF p = 1 THEN 3 ELSE 1]
==============================================================================
