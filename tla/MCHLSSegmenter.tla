---------------------------- MODULE MCHLSSegmenter ----------------------------
(***************************************************************************)
(* A window of two segments, up to six recordings, three faults and one     *)
(* restart over the same directory.                                        *)
(***************************************************************************)
EXTENDS HLSSegmenter
==============================================================================
