----------------------------- MODULE MediaStream -----------------------------
(***************************************************************************)
(* A MediaStream of format/rtsp/stream.rs fed by a network: for every RTP  *)
(* packet that arrives the application updates the statistics and pushes   *)
(* the packet into the jitter buffer, and it pops packets and makes        *)
(* receiver reports when it likes.  A packet's payload is its index in the *)
(* sender's stream, so what comes out can be compared with what was sent.  *)
(***************************************************************************)
EXTENDS RTPNetwork, JitterBuffer, StreamStatistics

CONSTANT MaxReceived   \* bound of the model: packets received, copies included

\* The marks are a quarter and three quarters of the number space in the code.
ASSUME StreamAssumption ==
  /\ Payload = Indices
  /\ LowMark <= SeqMod - HighMark
  /\ MaxReceived \in Nat

VARIABLES
  first,       \* index of the first packet received, -1 before
  skipped,     \* losses not counted because the packet before was number 0
  truth,       \* what the report just returned ought to say
  last_out,    \* index of the last packet popped, -1 before
  in_run       \* a packet was popped since the buffer was last empty at a push

course == <<first, skipped, last_out, in_run>>
history == <<course, truth>>
vars == <<netvars, jbvars, statvars, history>>

NoTruth == [lost |-> 0, highest |-> 0]

MSInit ==
  /\ NetInit /\ JBInit /\ StatsInit
  /\ first = -1
  /\ skipped = 0
  /\ truth = NoTruth
  /\ last_out = -1
  /\ in_run = FALSE

\* No report is returned by this step.
Unreported == report' = NoReport /\ truth' = NoTruth

Transmit == Send /\ Unreported /\ UNCHANGED <<jbvars, counts, course>>

LoseOne ==
  (\E n \in inflight : Lose(n)) /\ Unreported /\ UNCHANGED <<jbvars, counts, course>>

Receive(n) ==
  /\ packets_received < MaxReceived
  /\ Arrive(n)
  /\ update_statistics(SeqOf(n))
  /\ Push(SeqOf(n), n)
  /\ first' = IF first = -1 THEN n ELSE first
  /\ skipped' = IF first = -1 \/ CountsLoss THEN skipped ELSE skipped + Gap(SeqOf(n))
  /\ in_run' = (in_run /\ Stored # {})
  /\ Unreported
  /\ UNCHANGED last_out

PopPacket ==
  /\ Pop
  /\ IF returned'.status = "Some"
       THEN last_out' = packets[returned'.seq] /\ in_run' = TRUE
       ELSE UNCHANGED <<last_out, in_run>>
  /\ Unreported
  /\ UNCHANGED <<netvars, counts, first, skipped>>

\* Packets before the latest that have not been received, in an orderly stream.
Missing == IF first = -1 THEN 0 ELSE latest - first + 1 - packets_received

Report ==
  /\ generate_rtcp_report
  /\ truth' = [lost |-> Missing, highest |-> IF latest = -1 THEN 0 ELSE SeqOf(latest)]
  /\ UNCHANGED <<netvars, jbvars, counts, course>>

MSNext ==
  \/ Transmit
  \/ LoseOne
  \/ \E n \in inflight : Receive(n)
  \/ PopPacket
  \/ Report

MSSpec == MSInit /\ [][MSNext]_vars

\* The network delivers or loses what is sent and the application keeps
\* popping: a task that polls the buffer is scheduled again and again.
FairSpec ==
  /\ MSSpec
  /\ WF_vars(Transmit)
  /\ WF_vars(\E n \in inflight : Receive(n))
  /\ WF_vars(PopPacket)

------------------------------------------------------------------------------
MSTypeOK ==
  /\ JBTypeOK
  /\ StatsTypeOK
  /\ sent \in 0 .. MaxSent /\ inflight \subseteq Indices
  /\ latest \in -1 .. MaxSent - 1 /\ orderly \in BOOLEAN
  /\ first \in -1 .. MaxSent - 1 /\ last_out \in -1 .. MaxSent - 1
  /\ skipped \in Nat /\ in_run \in BOOLEAN

\* Whatever the network does, the counters account for the distance between
\* the first number and the last one modulo 2^16: packets received, packets
\* counted as lost, and those the "last_seq is 0" mark left out.
LossCongruence ==
  first # -1 =>
    (SeqOf(first) + packets_received - 1 + packets_lost + skipped) % SeqMod = last_seq

\* The newest packet received has not come round to the number of the first
\* one received: fewer than 2^16 packets were sent from the one to the other.
WithinTurn == latest - first < SeqMod - 1

\* In a stream that arrives in order, and for the first turn of the numbers
\* (WithinTurn), a receiver report carries the exact number of packets lost
\* before it, except losses right after number 0, and the number of the newest
\* packet.  The loss of a whole turn cannot be seen.
ReportExact ==
  orderly /\ WithinTurn /\ skipped = 0 =>
    /\ report.packets_lost = truth.lost
    /\ report.highest_seq = truth.highest

\* In a stream that arrives in order, and for the first turn of the numbers
\* (WithinTurn), packets are popped in the order they were sent, across a wrap
\* of the numbers and whatever was lost.  After a turn it is false: packets left
\* behind a gap come out when the numbers reach them again.
InOrderDelivery ==
  [][orderly /\ WithinTurn /\ last_out' # last_out => last_out' > last_out]_vars

\* In a stream of any length that arrives in order, a packet popped behind a
\* newer one carries the number next to it: that is the only way the buffer
\* ever gives out an old packet late.
OutOfOrderIsNext ==
  [][orderly /\ last_out' # last_out =>
       last_out' > last_out \/ SeqOf(last_out') = Successor(SeqOf(last_out))]_vars

\* In a stream that arrives in order, for the first turn of the numbers
\* (WithinTurn), a lost packet holds the delivery up until the stream is a
\* quarter of the number space further or the buffer was empty at a push: the
\* packet popped is the successor of the one before, or one so far ahead that
\* its number is in the middle of the space and push took it for the lowest.
GapHoldsDelivery ==
  [][orderly /\ WithinTurn /\ in_run /\ last_out' # last_out =>
       last_out' = last_out + 1 \/ last_out' >= last_out + LowMark]_vars

\* While the stream arrives in order, a packet that pop may return stays so,
\* whatever is pushed behind it or refused, until it is popped or the stream is
\* a quarter of the number space further (such a packet can be taken for a
\* lower one, see GapHoldsDelivery).
PoppableIsPopped ==
  \A s \in {SeqOf(n) : n \in Indices} :
    (orderly /\ Poppable(s)) ~>
      (s \notin Stored \/ ~orderly \/ latest - packets[s] >= LowMark)

\* What the field's comment says of packets_lost: packets that were sent
\* before the newest one received and have not arrived.
LostCountIsReal ==
  packets_lost <= latest + 1

\* A packet the buffer has taken is given out at some time.
StoredIsDelivered ==
  \A s \in {SeqOf(n) : n \in Indices} : (s \in Stored) ~> (s \notin Stored)
==============================================================================
