---------------------------- MODULE MCMediaStream ----------------------------
(***************************************************************************)
(* Six sequence numbers, two on each side of the wrap and two between, and *)
(* eight packets, so that the stream passes the wrap and the middle of the *)
(* numbers and comes round to where it began; a buffer of two.  The two    *)
(* runs that refute a comment send four packets from the middle of twelve  *)
(* numbers.                                                                *)
(***************************************************************************)
EXTENDS MediaStream
==============================================================================
