---------------------------- MODULE OrderedBuffer ----------------------------
(***************************************************************************)
(* What a reordering buffer promises its caller, whatever it keeps inside: *)
(* a bounded set of numbered packets, where a packet offered is either     *)
(* stored or refused, and the only packet that can be taken is the one     *)
(* with the least number.  A buffer may always refuse, and may always      *)
(* answer that it has nothing to give.                                     *)
(***************************************************************************)
EXTENDS Naturals, FiniteSets

CONSTANTS
  Numbers,   \* the numbers a packet can carry
  Payload,   \* what a packet can hold
  Capacity   \* the most packets stored at once

VARIABLES
  pending,   \* the stored packets: a function from their numbers to payloads
  returned   \* what the last call answered

avars == <<pending, returned>>

Answer(status, n) == [status |-> status, seq |-> n]

AInit ==
  /\ pending = [n \in {} |-> 0]
  /\ returned = Answer("new", 0)

\* The packet is stored; one already stored under its number is replaced.
Store(n, p) ==
  /\ Cardinality(DOMAIN pending \cup {n}) <= Capacity
  /\ pending' = [m \in DOMAIN pending \cup {n} |-> IF m = n THEN p ELSE pending[m]]
  /\ returned' = Answer("Ok", n)

Refuse(n, why) ==
  /\ UNCHANGED pending
  /\ returned' = Answer(why, n)

\* The packet taken has the least number of those stored.
Take(n) ==
  /\ n \in DOMAIN pending
  /\ \A m \in DOMAIN pending : n <= m
  /\ pending' = [m \in DOMAIN pending \ {n} |-> pending[m]]
  /\ returned' = Answer("Some", n)

Nothing ==
  /\ UNCHANGED pending
  /\ returned' = Answer("None", 0)

ANext ==
  \/ \E n \in Numbers, p \in Payload : Store(n, p)
  \/ \E n \in Numbers, why \in {"SequenceWrapped", "BufferOverflow"} : Refuse(n, why)
  \/ \E n \in Numbers : Take(n)
  \/ Nothing

ASpec == AInit /\ [][ANext]_avars
==============================================================================
