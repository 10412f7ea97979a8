------------------------------ MODULE TSSource ------------------------------
(***************************************************************************)
(* A transport stream as a conforming sender makes it: tables, and for     *)
(* each elementary stream PES packets, here units, cut into frames of at   *)
(* most FrameSize payload bytes.  A frame that is lost, or flagged with a  *)
(* transport error, never reaches the demuxer.  A stream is known by its   *)
(* place in the program map table.                                         *)
(***************************************************************************)
EXTENDS Integers, Sequences

CONSTANTS
  Program,    \* codec types of the streams, in the order of the table
  Unbounded,  \* streams whose units carry length 0
  FrameSize,  \* payload bytes of a frame, 184 in a real stream
  PesPrefix,  \* bytes of a unit that its length does not count, 6
  UnitSizes,  \* bytes a unit may have, by stream
  MaxUnits,   \* bound of the model: units sent, by stream
  MaxTables,  \* bound of the model: tables sent
  MaxLosses   \* bound of the model: frames lost

Pids == 1 .. Len(Program)

ASSUME SourceAssumption ==
  /\ Program \in Seq(STRING) /\ Unbounded \subseteq Pids
  /\ FrameSize \in Nat /\ PesPrefix \in Nat /\ PesPrefix < FrameSize - 1
  /\ UnitSizes \in [Pids -> SUBSET {n \in Nat : n > PesPrefix}]
  /\ MaxUnits \in [Pids -> Nat] /\ MaxTables \in Nat /\ MaxLosses \in Nat

VARIABLES
  units,   \* sizes of the units begun, by stream
  sent,    \* bytes of its last unit that a stream has sent
  tables,  \* tables sent
  losses   \* frames lost

sourcevars == <<units, sent, tables, losses>>

SourceInit ==
  /\ units = [p \in Pids |-> <<>>]
  /\ sent = [p \in Pids |-> 0]
  /\ tables = 0 /\ losses = 0

Current(p) == units[p][Len(units[p])]

MidUnit(p) == units[p] # <<>> /\ sent[p] < Current(p)

\* The frame of p with the bytes of unit u, of size n, from byte k on.
Frame(p, u, n, k) ==
  [pid |-> p, unit |-> u, size |-> n, start |-> k = 0, from |-> k,
   bytes |-> IF n - k < FrameSize THEN n - k ELSE FrameSize,
   length |-> IF p \in Unbounded THEN 0 ELSE n - PesPrefix]

\* The frames that p may send next.
NextFrames(p) ==
  IF MidUnit(p) THEN {Frame(p, Len(units[p]), Current(p), sent[p])}
  ELSE {Frame(p, Len(units[p]) + 1, n, 0) :
          n \in {s \in UnitSizes[p] : Len(units[p]) < MaxUnits[p]}}

Sends(f) ==
  /\ units' = [units EXCEPT ![f.pid] = IF f.start THEN Append(@, f.size) ELSE @]
  /\ sent' = [sent EXCEPT ![f.pid] = f.from + f.bytes]
  /\ UNCHANGED tables

Arrives(f) == Sends(f) /\ UNCHANGED losses

Lost(f) ==
  /\ losses < MaxLosses
  /\ Sends(f)
  /\ losses' = losses + 1

SendsTable ==
  /\ tables < MaxTables
  /\ tables' = tables + 1
  /\ UNCHANGED <<units, sent, losses>>
==============================================================================
