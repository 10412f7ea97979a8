----------------------------- MODULE SeqNumbers -----------------------------
(***************************************************************************)
(* The sequence numbers of RTP, u16 in the code, shared by the network,    *)
(* the jitter buffer and the stream statistics.                            *)
(***************************************************************************)
EXTENDS Integers

CONSTANT SeqMod   \* number of sequence numbers: 2^16 in the code

ASSUME SeqModAssumption == SeqMod \in Nat \ {0}

SeqNums == 0 .. SeqMod - 1

\* wrapping_add(1) of a u16.
Successor(seq) == (seq + 1) % SeqMod
==============================================================================
