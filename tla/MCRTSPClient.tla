----------------------------- MODULE MCRTSPClient -----------------------------
(***************************************************************************)
(* Two media types, so that two streams bind ports and play, three         *)
(* requests, one call dropped or answer read in part, and two connects;    *)
(* the runs that refute a comment need one media type and no fault.        *)
(***************************************************************************)
EXTENDS RTSPClient
==============================================================================
