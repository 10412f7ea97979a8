--------------------------- MODULE StreamStatistics ---------------------------
(***************************************************************************)
(* StreamStatistics of format/rtsp/stream.rs: the counters a MediaStream   *)
(* updates for every RTP packet, and the receiver report made from them.   *)
(* Counters are u32 (CounterMod values), fraction_lost is a u8 (Scale      *)
(* values).  Byte counts and the floating-point jitter are left out.       *)
(***************************************************************************)
EXTENDS SeqNumbers

CONSTANTS
  CounterMod,   \* 2^32
  Scale         \* 256, the unit of fraction_lost and the range of a u8

ASSUME CounterAssumption ==
  /\ Scale \in Nat \ {0}
  /\ \E k \in 1 .. CounterMod : CounterMod = k * SeqMod

VARIABLES
  packets_received,
  packets_lost,
  last_seq,        \* number of the last packet; 0 also stands for "none yet"
  report           \* the receiver report just returned

counts == <<packets_received, packets_lost, last_seq>>
statvars == <<counts, report>>

Counters == 0 .. CounterMod - 1

StatsTypeOK ==
  /\ packets_received \in Counters
  /\ packets_lost \in Counters
  /\ last_seq \in SeqNums
  /\ report \in [fraction_lost : 0 .. Scale - 1, packets_lost : Counters,
                 highest_seq : SeqNums]

Expected == Successor(last_seq)

\* The packets between the expected one and seq, a wrap counted as one off.
GapOffByOne(seq) ==
  IF seq < Expected THEN SeqMod - Expected + seq - 1 ELSE seq - Expected

\* A number below the expected one is taken for a wrap.
Gap(seq) ==
  IF seq < Expected THEN SeqMod - Expected + seq ELSE seq - Expected

\* Every packet counts as a successor, the first one too.
CountsAlways == TRUE

\* Losses are counted except after a packet numbered 0, the mark of "none".
CountsLoss == last_seq # 0

update_statistics(seq) ==
  /\ packets_received' = (packets_received + 1) % CounterMod
  /\ packets_lost' = IF CountsLoss THEN (packets_lost + Gap(seq)) % CounterMod
                                   ELSE packets_lost
  /\ last_seq' = seq

\* The quotient is not cut to a u8.
FractionUncut ==
  IF packets_received > 0
    THEN ((packets_lost * Scale) % CounterMod) \div packets_received
    ELSE 0

\* The multiplication is done in u32, the quotient cut to a u8.
FractionLost ==
  IF packets_received > 0
    THEN (((packets_lost * Scale) % CounterMod) \div packets_received) % Scale
    ELSE 0

\* No report is returned.
NoReport == [fraction_lost |-> 0, packets_lost |-> 0, highest_seq |-> 0]

generate_rtcp_report ==
  report' = [fraction_lost |-> FractionLost,
             packets_lost |-> packets_lost,
             highest_seq |-> last_seq]

StatsInit ==
  /\ packets_received = 0
  /\ packets_lost = 0
  /\ last_seq = 0
  /\ report = NoReport
==============================================================================
