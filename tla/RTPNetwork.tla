----------------------------- MODULE RTPNetwork -----------------------------
(***************************************************************************)
(* The sender of an RTP stream and the UDP path to the client: packets are *)
(* numbered in the order they are sent, and each may be lost, duplicated,  *)
(* or overtaken by at most Reorder later packets.  The position of a       *)
(* packet in the stream is its index; the number it carries is the index   *)
(* modulo SeqMod, counted from FirstSeq.                                   *)
(***************************************************************************)
EXTENDS SeqNumbers, FiniteSetsExt

CONSTANTS
  FirstSeq,      \* sequence number of the first packet
  Reorder,       \* how many later packets may overtake a packet
  MayLose,       \* whether the network loses packets
  Repeatable,    \* indices of the packets that the network may deliver again
  MaxSent        \* bound of the model: packets sent

ASSUME NetworkAssumption ==
  /\ FirstSeq \in 0 .. SeqMod - 1
  /\ Reorder \in Nat
  /\ MayLose \in BOOLEAN
  /\ Repeatable \subseteq Nat
  /\ MaxSent \in Nat

VARIABLES
  sent,       \* packets sent so far; their indices are 0 .. sent - 1
  inflight,   \* indices of the packets on the way
  latest,     \* greatest index that has arrived, -1 before the first
  orderly     \* no packet has arrived late or twice

netvars == <<sent, inflight, latest, orderly>>

Indices == 0 .. MaxSent - 1
SeqOf(n) == (FirstSeq + n) % SeqMod

NetInit ==
  /\ sent = 0
  /\ inflight = {}
  /\ latest = -1
  /\ orderly = TRUE

\* No packet is sent before it could overtake all that are on the way: one sent
\* earlier could not arrive earlier.
Send ==
  /\ sent < MaxSent
  /\ \A n \in inflight : sent <= n + Reorder
  /\ sent' = sent + 1
  /\ inflight' = inflight \cup {sent}
  /\ UNCHANGED <<latest, orderly>>

Lose(n) ==
  /\ MayLose
  /\ n \in inflight
  /\ inflight' = inflight \ {n}
  /\ UNCHANGED <<sent, latest, orderly>>

\* Packet n reaches the client; the network may keep a copy to deliver again.
Arrive(n) ==
  /\ n \in inflight
  /\ n <= Min(inflight) + Reorder
  /\ \/ inflight' = inflight \ {n}
     \/ n \in Repeatable /\ UNCHANGED inflight
  /\ latest' = IF n > latest THEN n ELSE latest
  /\ orderly' = (orderly /\ n > latest)
  /\ UNCHANGED sent
==============================================================================
