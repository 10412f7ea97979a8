------------------------------ MODULE MCFormats ------------------------------
(* Instances of the formats for TLC.                                          *)
EXTENDS Formats

\* Bits of a slice, in bytes: runs of zeros up to and beyond the limit, then
\* anything, then both bits in turn.
Filled8(s) == s \o [i \in 1 .. (8 - (Len(s) % 8)) % 8 |-> 0]

MCSlices ==
  {Filled8([i \in 1 .. z |-> 0] \o x \o [i \in 1 .. 12 |-> i % 2]) :
     z \in {0, 1, 3, 6, 7, 8}, x \in [1 .. 5 -> {0, 1}]}

\* A byte, and bytes with what is written in the place of a start code.
MCPayloads == {<<2>>, <<3, 0, 0, 3, 1>>}

MCTimes == 0 .. 800

\* Streams that a muxer is given, one of them that no table can hold, and more
\* than one PMT holds.
MCHeaders ==
  {<<"H264">>, <<"AAC", "H265">>, <<"H264", "Opus">>, [i \in 1 .. 34 |-> "H264"]}

\* An empty table, one program, the network before it, and two programs.
MCPATs == {<<>>, <<1>>, <<0, 1>>, <<2, 1>>}

Entry(type, pid, descriptors) == [type |-> type, pid |-> pid, descriptors |-> descriptors]

\* One stream; an unknown type between two streams; more than fit.
MCPMTs ==
  {<<Entry("H264", 256, <<>>)>>,
   <<Entry("H264", 257, <<3, 0>>), Entry("private", 258, <<>>), Entry("AAC", 259, <<1>>)>>,
   [i \in 1 .. 36 |-> Entry("AAC", 255 + i, <<>>)]}
==============================================================================
