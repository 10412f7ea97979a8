------------------------------- MODULE Formats -------------------------------
(***************************************************************************)
(* The formats of the library side by side: bits, parameter sets, access   *)
(* units, ADTS files, datagrams, transport streams and texts.  Their       *)
(* readers and writers share no state, so a behaviour is one format's and  *)
(* the others stay as they begin.                                          *)
(***************************************************************************)
EXTENDS BitReader, H265Parser, H264Decoder, ADTSFile, RTPDatagrams, TSTables, TextFormats

VARIABLE format  \* the one this behaviour is about

formatvars ==
  <<format, bitvars, h265vars, h264vars, adtsvars, datavars, muxvars, fieldvars, tablevars, textvars>>

Init ==
  /\ format \in {"bits", "h265", "h264", "adts", "datagrams", "fields", "tables", "texts"}
  /\ BitsInit /\ H265Init /\ H264Init /\ ADTSInit /\ DatagramsInit
  /\ MuxInit /\ FieldsInit /\ TablesInit /\ TextInit
  /\ format # "adts" => rate = 4

Next ==
  /\ UNCHANGED format
  /\ \/ /\ format = "bits" /\ BitsNext
        /\ UNCHANGED <<h265vars, h264vars, adtsvars, datavars, muxvars, fieldvars, tablevars, textvars>>
     \/ /\ format = "h265" /\ H265Next
        /\ UNCHANGED <<bitvars, h264vars, adtsvars, datavars, muxvars, fieldvars, tablevars, textvars>>
     \/ /\ format = "h264" /\ H264Next
        /\ UNCHANGED <<bitvars, h265vars, adtsvars, datavars, muxvars, fieldvars, tablevars, textvars>>
     \/ /\ format = "adts" /\ ADTSNext
        /\ UNCHANGED <<bitvars, h265vars, h264vars, datavars, muxvars, fieldvars, tablevars, textvars>>
     \/ /\ format = "datagrams" /\ DatagramsNext
        /\ UNCHANGED <<bitvars, h265vars, h264vars, adtsvars, muxvars, fieldvars, tablevars, textvars>>
     \/ /\ format = "fields" /\ FieldsNext
        /\ UNCHANGED <<bitvars, h265vars, h264vars, adtsvars, datavars, tablevars, textvars>>
     \/ /\ format = "tables" /\ TablesNext
        /\ UNCHANGED <<bitvars, h265vars, h264vars, adtsvars, datavars, fieldvars, textvars>>
     \/ /\ format = "texts" /\ TextNext
        /\ UNCHANGED <<bitvars, h265vars, h264vars, adtsvars, datavars, muxvars, fieldvars, tablevars>>

Spec == Init /\ [][Next]_formatvars

\* What the library or a sender that follows the format wrote into a transport
\* stream is read back: the fields and stamps of its packets, and its tables.
StreamReadBack == FieldsReadBack /\ StampsReadBack /\ TablesReadBack
=============================================================================
