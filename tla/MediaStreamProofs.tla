-------------------------- MODULE MediaStreamProofs --------------------------
(***************************************************************************)
(* Theorems of the jitter buffer and of the media stream that owns it, for *)
(* every network, every number space, every pair of marks and every buffer *)
(* size.  The invariant JBInv ties the two bounds of the buffer to the     *)
(* stored packets: the wrap test, the capacity, the permanence of a full   *)
(* stall and the refinement rest on it.  Then the losses counted, the      *)
(* reports, and the order of delivery.                                     *)
(***************************************************************************)
EXTENDS MediaStream, Remainders, FiniteSetTheorems, TLAPS

------------------------------------------------------------------------------
(* The jitter buffer by itself.                                             *)

\* A set of sequence numbers is finite, so its cardinality is a number.
LEMMA StoredFinite ==
  ASSUME JBTypeOK
  PROVE  IsFiniteSet(Stored) /\ Cardinality(Stored) \in Nat /\ Stored \subseteq SeqNums
<1>1. Stored \in SUBSET SeqNums
  BY DEF JBTypeOK, Stored
<1>2. IsFiniteSet(SeqNums)
  BY SeqModAssumption, BufferAssumption, FS_Interval DEF SeqNums
<1>3. IsFiniteSet(Stored)
  BY <1>1, <1>2, FS_Subset
<1>. QED
  BY <1>1, <1>3, FS_CardinalityType

\* Storing one more packet adds its number to the map.
LEMMA InsertDomain ==
  ASSUME JBTypeOK, NEW seq \in SeqNums, NEW p \in Payload, Insert(seq, p)
  PROVE  /\ Stored' = Stored \cup {seq}
         /\ Stored' \subseteq SeqNums /\ packets' \in [Stored' -> Payload]
<1>1. Stored' = Stored \cup {seq}
  BY DEF Insert, Stored
<1>2. packets' \in [Stored \cup {seq} -> Payload]
  BY DEF Insert, Stored, JBTypeOK
<1>3. Stored \cup {seq} \in SUBSET SeqNums
  BY DEF Stored, JBTypeOK
<1>. QED
  BY <1>1, <1>2, <1>3

\* Returning a packet removes its number from the map.
LEMMA RestrictDomainOf ==
  ASSUME JBTypeOK, NEW seq \in SeqNums, packets' = Restrict(packets, Stored \ {seq})
  PROVE  /\ Stored' = Stored \ {seq}
         /\ Stored' \subseteq SeqNums /\ packets' \in [Stored' -> Payload]
<1>1. Stored' = Stored \ {seq}
  BY DEF Restrict, Stored
<1>2. packets' \in [Stored \ {seq} -> Payload]
  BY DEF Restrict, Stored, JBTypeOK
<1>3. Stored \ {seq} \in SUBSET SeqNums
  BY DEF Stored, JBTypeOK
<1>. QED
  BY <1>1, <1>2, <1>3

------------------------------------------------------------------------------
(* The invariant: types, bounds and capacity. *)

LEMMA InitInv == JBInit => JBInv
<1> SUFFICES ASSUME JBInit PROVE JBInv
  OBVIOUS
<1>1. Stored = {}
  BY DEF JBInit, Stored
<1>2. packets \in [{} -> Payload]
  BY DEF JBInit
<1>3. JBTypeOK
  <2>1. Stored \subseteq SeqNums /\ packets \in [Stored -> Payload]
    BY <1>1, <1>2 DEF Stored
  <2>2. 0 \in SeqNums
    BY SeqModAssumption, BufferAssumption DEF SeqNums
  <2>. QED
    BY <2>1, <2>2 DEF JBInit, JBTypeOK, Result, Statuses
<1>4. CapacityRespected
  BY <1>1, FS_EmptySet, SeqModAssumption, BufferAssumption DEF CapacityRespected, Capacity
<1>. QED
  BY <1>1, <1>3, <1>4 DEF JBInv, BoundsEncloseStored

LEMMA PushInv ==
  ASSUME JBInv, NEW seq \in SeqNums, NEW p \in Payload, Push(seq, p)
  PROVE  JBInv'
<1> USE DEF JBInv
<1>1. JBTypeOK /\ BoundsEncloseStored /\ CapacityRespected
  OBVIOUS
<1>2. CASE PushFirst(seq, p)
  <2>1. /\ Stored' = {seq}
        /\ Stored' \subseteq SeqNums /\ packets' \in [Stored' -> Payload]
    BY <1>2, InsertDomain DEF PushFirst
  <2>2. JBTypeOK'
    BY <1>2, <2>1 DEF PushFirst, JBTypeOK, Result, Statuses
  <2>3. BoundsEncloseStored'
    BY <1>2, <2>1 DEF PushFirst, BoundsEncloseStored, SeqNums
  <2>4. CapacityRespected'
    <3>1. Cardinality(Stored') = 1
      BY <2>1, FS_Singleton
    <3>. QED
      BY <3>1, BufferAssumption DEF CapacityRespected, Capacity
  <2>. QED
    BY <2>2, <2>3, <2>4
<1>3. CASE PushWrapped(seq)
  BY <1>1, <1>3 DEF PushWrapped, JBTypeOK, BoundsEncloseStored, CapacityRespected,
                    Stored, Result, Statuses
<1>4. CASE PushOverflow(seq)
  <2>1. Stored' = Stored /\ packets' = packets
    BY <1>4 DEF PushOverflow, Stored
  <2>2. JBTypeOK'
    BY <1>1, <1>4, <2>1 DEF PushOverflow, JBTypeOK, LowerBound, UpperBound, Result, Statuses
  <2>3. BoundsEncloseStored'
    BY <1>1, <1>4, <2>1, StoredFinite
       DEF PushOverflow, BoundsEncloseStored, LowerBound, UpperBound, SeqNums, JBTypeOK
  <2>4. CapacityRespected'
    BY <1>1, <2>1 DEF CapacityRespected
  <2>. QED
    BY <2>2, <2>3, <2>4
<1>5. CASE PushStored(seq, p)
  <2>1. /\ Stored' = Stored \cup {seq}
        /\ Stored' \subseteq SeqNums /\ packets' \in [Stored' -> Payload]
    BY <1>5, InsertDomain DEF PushStored
  <2>2. JBTypeOK'
    BY <1>1, <1>5, <2>1 DEF PushStored, JBTypeOK, LowerBound, UpperBound, Result, Statuses
  <2>3. BoundsEncloseStored'
    BY <1>1, <1>5, <2>1, StoredFinite
       DEF PushStored, BoundsEncloseStored, LowerBound, UpperBound, SeqNums, JBTypeOK
  <2>4. Cardinality(Stored') <= Cardinality(Stored) + 1
    BY <1>1, <2>1, StoredFinite, FS_AddElement
  <2>5. Cardinality(Stored) < BufferSize
    BY <1>1, <1>5, StoredFinite, SeqModAssumption, BufferAssumption DEF PushStored, Full
  <2>6. Cardinality(Stored') \in Nat
    BY <1>1, <2>1, StoredFinite, FS_AddElement, FS_CardinalityType
  <2>7. CapacityRespected'
    BY <1>1, <2>4, <2>5, <2>6, StoredFinite, SeqModAssumption, BufferAssumption DEF CapacityRespected, Capacity
  <2>. QED
    BY <2>2, <2>3, <2>7
<1>. QED
  BY <1>2, <1>3, <1>4, <1>5 DEF Push

LEMMA PopInv ==
  ASSUME JBInv, Pop
  PROVE  JBInv'
<1>1. JBTypeOK /\ BoundsEncloseStored /\ CapacityRespected
  BY DEF JBInv
<1>2. CASE PopNone
  BY <1>1, <1>2, SeqModAssumption, BufferAssumption
     DEF PopNone, JBInv, JBTypeOK, BoundsEncloseStored, CapacityRespected,
         Stored, Result, Statuses, SeqNums
<1>3. ASSUME NEW seq \in SeqNums, PopSome(seq)
      PROVE  JBInv'
  <2>1. /\ Stored' = Stored \ {seq}
        /\ Stored' \subseteq SeqNums /\ packets' \in [Stored' -> Payload]
    BY <1>1, <1>3, RestrictDomainOf DEF PopSome
  <2>2. seq = min_seq /\ seq \in Stored /\ \A s \in Stored : seq <= s
    BY <1>3 DEF PopSome, Poppable, FirstKey
  <2>3. min_seq' = IF min_seq = SeqMod - 1 THEN 0 ELSE min_seq + 1
    BY <1>1, <1>3, SeqModAssumption, BufferAssumption DEF PopSome, JBTypeOK, SeqNums, Successor
  <2>4. JBTypeOK'
    <3>1. min_seq' \in SeqNums
      BY <1>1, <2>3, SeqModAssumption, BufferAssumption DEF JBTypeOK, SeqNums
    <3>2. max_seq' \in SeqNums /\ returned' \in [status : Statuses, seq : SeqNums]
      BY <1>1, <1>3 DEF PopSome, JBTypeOK, Result, Statuses
    <3>. QED
      BY <2>1, <3>1, <3>2 DEF JBTypeOK
  <2>5. BoundsEncloseStored'
    <3> SUFFICES ASSUME NEW s \in Stored', s \in SeqNums
                 PROVE  min_seq' <= s /\ s <= max_seq'
      BY <1>1, <2>1, StoredFinite DEF BoundsEncloseStored
    <3>1. s \in Stored /\ s # seq /\ seq <= s
      BY <2>1, <2>2
    <3>2. min_seq # SeqMod - 1
      BY <2>2, <3>1, SeqModAssumption, BufferAssumption DEF SeqNums
    <3>. QED
      BY <1>1, <1>3, <2>2, <2>3, <3>1, <3>2
         DEF PopSome, BoundsEncloseStored, SeqNums, JBTypeOK
  <2>6. CapacityRespected'
    <3>1. IsFiniteSet(Stored) /\ Cardinality(Stored) \in Nat /\ Stored' \in SUBSET Stored
      BY <1>1, <2>1, StoredFinite
    <3>2. IsFiniteSet(Stored') /\ Cardinality(Stored') <= Cardinality(Stored)
      BY <3>1, FS_Subset
    <3>3. Cardinality(Stored') \in Nat
      BY <3>2, FS_CardinalityType
    <3>. QED
      BY <1>1, <3>1, <3>2, <3>3, SeqModAssumption, BufferAssumption DEF CapacityRespected, Capacity
  <2>. QED
    BY <2>4, <2>5, <2>6 DEF JBInv
<1>. QED
  BY <1>2, <1>3 DEF Pop

LEMMA StutterInv == JBInv /\ UNCHANGED jbvars => JBInv'
  BY DEF JBInv, jbvars, JBTypeOK, BoundsEncloseStored, CapacityRespected, Stored

LEMMA NextInv == JBInv /\ [JBNext]_jbvars => JBInv'
  BY PushInv, PopInv, StutterInv DEF JBNext

\* The stored packets lie between the bounds, there are never more of them
\* than the buffer admits, and the state keeps its types.
THEOREM JBInvariant == JBSpec => []JBInv
<1>1. JBInit => JBInv
  BY InitInv
<1>2. JBInv /\ [JBNext]_jbvars => JBInv'
  BY NextInv
<1>. QED
  BY <1>1, <1>2, PTL DEF JBSpec

\* Type correctness of the buffer.
THEOREM JBTypeCorrect == JBSpec => []JBTypeOK
<1>1. JBInv => JBTypeOK
  BY DEF JBInv
<1>. QED
  BY <1>1, JBInvariant, PTL

\* pop's comparison and push's wrap test read bounds that enclose the map.
THEOREM BoundsAlwaysEnclose == JBSpec => []BoundsEncloseStored
<1>1. JBInv => BoundsEncloseStored
  BY DEF JBInv
<1>. QED
  BY <1>1, JBInvariant, PTL

\* The buffer never holds more packets than its size (one if the size is 0).
THEOREM CapacityAlwaysRespected == JBSpec => []CapacityRespected
<1>1. JBInv => CapacityRespected
  BY DEF JBInv
<1>. QED
  BY <1>1, JBInvariant, PTL
------------------------------------------------------------------------------
(* The wrap of the sequence numbers. *)

\* A state of JBInv in which no two packets face each other across the wrap
\* is followed by another: push refuses the packet that would.
LEMMA NoMixStep ==
  ASSUME JBInv, NoMixAcrossWrap, [JBNext]_jbvars
  PROVE  NoMixAcrossWrap'
<1>1. JBTypeOK /\ BoundsEncloseStored /\ Stored \subseteq SeqNums
  BY StoredFinite DEF JBInv
<1>2. ASSUME NEW seq \in SeqNums, NEW p \in Payload, Push(seq, p)
      PROVE  NoMixAcrossWrap'
  <2>1. CASE PushFirst(seq, p)
    <3>1. Stored' = {seq}
      BY <1>1, <1>2, <2>1, InsertDomain DEF PushFirst
    <3>. QED
      BY <3>1, SeqModAssumption, BufferAssumption DEF NoMixAcrossWrap, SeqNums
  <2>2. CASE PushWrapped(seq) \/ PushOverflow(seq)
    BY <2>2 DEF PushWrapped, PushOverflow, NoMixAcrossWrap, Stored
  <2>3. CASE PushStored(seq, p)
    <3>1. Stored' = Stored \cup {seq}
      BY <1>1, <1>2, <2>3, InsertDomain DEF PushStored
    <3> SUFFICES ASSUME NEW s \in Stored', NEW t \in Stored', s < LowMark, t > HighMark
                 PROVE  FALSE
      BY DEF NoMixAcrossWrap
    <3>2. ~Wraps(seq)
      BY <2>3 DEF PushStored
    <3>3. CASE s \in Stored /\ t \in Stored
      BY <3>3 DEF NoMixAcrossWrap
    <3>4. CASE s = seq /\ t \in Stored
      <4>1. t <= max_seq
        BY <1>1, <3>4 DEF BoundsEncloseStored
      <4>2. max_seq > HighMark
        BY <1>1, <3>4, <4>1, SeqModAssumption, BufferAssumption DEF JBTypeOK, SeqNums
      <4>. QED
        BY <3>2, <3>4, <4>2 DEF Wraps
    <3>5. CASE s \in Stored /\ t = seq
      <4>1. min_seq <= s
        BY <1>1, <3>5 DEF BoundsEncloseStored
      <4>2. min_seq < LowMark
        BY <1>1, <3>5, <4>1, SeqModAssumption, BufferAssumption DEF JBTypeOK, SeqNums
      <4>. QED
        BY <3>2, <3>5, <4>2 DEF Wraps
    <3>6. CASE s = seq /\ t = seq
      BY <3>6, SeqModAssumption, BufferAssumption DEF SeqNums
    <3>. QED
      BY <3>1, <3>3, <3>4, <3>5, <3>6
  <2>. QED
    BY <1>2, <2>1, <2>2, <2>3 DEF Push
<1>3. CASE Pop
  <2>1. Stored' \subseteq Stored
    <3>1. CASE PopNone
      BY <3>1 DEF PopNone, Stored
    <3>2. ASSUME NEW seq \in SeqNums, PopSome(seq)
          PROVE  Stored' \subseteq Stored
      BY <1>1, <3>2, RestrictDomainOf DEF PopSome
    <3>. QED
      BY <1>3, <3>1, <3>2 DEF Pop
  <2>. QED
    BY <2>1 DEF NoMixAcrossWrap
<1>4. CASE UNCHANGED jbvars
  BY <1>4 DEF jbvars, NoMixAcrossWrap, Stored
<1>. QED
  BY <1>2, <1>3, <1>4 DEF JBNext

\* Packets from both sides of a wrap are never in the map together, so the
\* order of the map is the order of the stream.
THEOREM WrapNeverMixes == JBSpec => []NoMixAcrossWrap
<1>1. JBInit => NoMixAcrossWrap
  BY DEF JBInit, NoMixAcrossWrap, Stored
<1>2. JBInv /\ NoMixAcrossWrap /\ [JBNext]_jbvars => NoMixAcrossWrap'
  BY NoMixStep
<1>. QED
  BY <1>1, <1>2, JBInvariant, PTL DEF JBSpec
------------------------------------------------------------------------------
(* A full buffer that waits for a missing packet. *)

LEMMA FullStallStep ==
  ASSUME JBInv, JBNext, Full, Stalled
  PROVE  Full' /\ Stalled' /\ packets' = packets
<1>1. JBTypeOK /\ Stored \subseteq SeqNums /\ Stored # {}
  BY StoredFinite DEF JBInv, Stalled
<1>2. SUFFICES packets' = packets /\ min_seq' \in SeqNums /\ min_seq' <= min_seq
  <2>1. ASSUME packets' = packets, min_seq' \in SeqNums, min_seq' <= min_seq
        PROVE  Full' /\ Stalled'
    <3>1. Stored' = Stored
      BY <2>1 DEF Stored
    <3>2. \A s \in Stored : min_seq' < s
      BY <1>1, <2>1, SeqModAssumption, BufferAssumption DEF Stalled, SeqNums, JBTypeOK
    <3>. QED
      BY <1>1, <3>1, <3>2 DEF Full, Stalled
  <2>. QED
    BY <2>1
<1>3. ASSUME NEW seq \in SeqNums, NEW p \in Payload, Push(seq, p)
      PROVE  packets' = packets /\ min_seq' \in SeqNums /\ min_seq' <= min_seq
  <2>1. CASE PushWrapped(seq)
    BY <1>1, <2>1, SeqModAssumption, BufferAssumption DEF PushWrapped, JBTypeOK, SeqNums
  <2>2. CASE PushOverflow(seq)
    BY <1>1, <2>2, SeqModAssumption, BufferAssumption DEF PushOverflow, LowerBound, JBTypeOK, SeqNums
  <2>. QED
    BY <1>1, <1>3, <2>1, <2>2 DEF Push, PushFirst, PushStored
<1>4. CASE PopNone
  BY <1>1, <1>4, SeqModAssumption, BufferAssumption DEF PopNone, JBTypeOK, SeqNums
<1>5. ASSUME NEW seq \in SeqNums, PopSome(seq)
      PROVE  FALSE
  <2>1. seq \in Stored /\ seq = min_seq
    BY <1>5 DEF PopSome, Poppable, FirstKey
  <2>. QED
    BY <2>1, <1>1 DEF Stalled, SeqNums
<1>. QED
  BY <1>3, <1>4, <1>5 DEF JBNext, Pop

\* A full buffer whose next packet is missing never changes again: the loss
\* of one packet, once the buffer has filled behind it, ends the delivery.
THEOREM FullStallLasts == JBSpec => FullStallIsPermanent
<1>1. JBInv /\ [JBNext]_jbvars
        => [Full /\ Stalled => Full' /\ Stalled' /\ packets' = packets]_jbvars
  BY FullStallStep
<1>. QED
  BY <1>1, JBInvariant, PTL DEF JBSpec, FullStallIsPermanent

------------------------------------------------------------------------------
(* The refinement: each outcome of push and pop is a step of OrderedBuffer. *)

\* The instance counts a set as this module does.
LEMMA SameCardinality == \A S : Promised!Cardinality(S) = Cardinality(S)
  BY DEF Promised!Cardinality, Cardinality, Promised!IsFiniteSet, IsFiniteSet

LEMMA PushRefines ==
  ASSUME JBInv, NEW seq \in SeqNums, NEW p \in Payload, Push(seq, p)
  PROVE  Promised!ANext
<1>1. JBTypeOK
  BY DEF JBInv
<1>2. CASE PushFirst(seq, p)
  <2>1. Stored \cup {seq} = {seq}
    BY <1>2 DEF PushFirst
  <2>2. Cardinality(Stored \cup {seq}) <= Capacity
    BY <2>1, FS_Singleton, SeqModAssumption, BufferAssumption DEF Capacity
  <2>3. Promised!Store(seq, p)
    BY <1>2, <2>2, SameCardinality DEF Promised!Store, PushFirst, Insert, Stored, Promised!Answer, Result
  <2>. QED
    BY <2>3 DEF Promised!ANext
<1>3. CASE PushWrapped(seq)
  BY <1>3 DEF PushWrapped, Promised!ANext, Promised!Refuse, Promised!Answer, Result
<1>4. CASE PushOverflow(seq)
  BY <1>4 DEF PushOverflow, Promised!ANext, Promised!Refuse, Promised!Answer, Result
<1>5. CASE PushStored(seq, p)
  <2>1. Cardinality(Stored) < BufferSize
    BY <1>1, <1>5, StoredFinite, SeqModAssumption, BufferAssumption DEF PushStored, Full
  <2>2. Cardinality(Stored \cup {seq}) <= Capacity
    <3>1. IsFiniteSet(Stored) /\ Cardinality(Stored) \in Nat
      BY <1>1, StoredFinite
    <3>2. Cardinality(Stored \cup {seq}) \in {Cardinality(Stored), Cardinality(Stored) + 1}
      BY <3>1, FS_AddElement
    <3>. QED
      BY <2>1, <3>1, <3>2, SeqModAssumption, BufferAssumption DEF Capacity
  <2>3. Promised!Store(seq, p)
    BY <1>5, <2>2, SameCardinality DEF Promised!Store, PushStored, Insert, Stored, Promised!Answer, Result
  <2>. QED
    BY <2>3 DEF Promised!ANext
<1>. QED
  BY <1>2, <1>3, <1>4, <1>5 DEF Push

LEMMA PopRefines ==
  ASSUME JBInv, Pop
  PROVE  Promised!ANext
<1>1. CASE PopNone
  BY <1>1 DEF PopNone, Promised!ANext, Promised!Nothing, Promised!Answer, Result
<1>2. ASSUME NEW seq \in SeqNums, PopSome(seq)
      PROVE  Promised!Take(seq)
  BY <1>2 DEF PopSome, Poppable, FirstKey, Promised!Take, Promised!Answer,
              Result, Stored, Restrict
<1>. QED
  BY <1>1, <1>2 DEF Pop, Promised!ANext

\* The jitter buffer implements an ordered bounded buffer: it stores at most
\* its capacity, refuses without losing what it holds, and gives packets out
\* least number first.
THEOREM BufferImplementsOrdered == JBSpec => Ordered
<1>1. JBInit => Promised!AInit
  BY DEF JBInit, Promised!AInit, Promised!Answer, Result
<1>2. JBInv /\ [JBNext]_jbvars => [Promised!ANext]_(Promised!avars)
  BY PushRefines, PopRefines DEF JBNext, jbvars, Promised!avars
<1>. QED
  BY <1>1, <1>2, JBInvariant, PTL DEF JBSpec, Ordered, Promised!ASpec

------------------------------------------------------------------------------
(* The numbers of the packets. *)

LEMMA SeqOfType ==
  ASSUME NEW n \in Int
  PROVE  SeqOf(n) \in SeqNums /\ FirstSeq \in SeqNums /\ FirstSeq \in Int
<1>1. FirstSeq \in Int /\ FirstSeq \in SeqNums
  BY NetworkAssumption, SeqModAssumption DEF SeqNums
<1>. QED
  BY <1>1, SeqModAssumption, ModDef DEF SeqOf, SeqNums

\* A packet's number and its index say the same of packets sent within one
\* turn of the numbers.
LEMMA SeqOfInjective ==
  ASSUME NEW m \in Nat, NEW n \in Nat, m < SeqMod, n < SeqMod, SeqOf(m) = SeqOf(n)
  PROVE  m = n
<1>1. m \in 0 .. SeqMod - 1 /\ n \in 0 .. SeqMod - 1 /\ FirstSeq \in Int
  BY SeqOfType, SeqModAssumption
<1>. QED
  BY <1>1, SeqModAssumption, ModCancel DEF SeqOf

\* The gap is how far a number is from the one expected.
LEMMA GapReaches ==
  ASSUME last_seq \in SeqNums, NEW seq \in SeqNums
  PROVE  /\ Gap(seq) \in 0 .. SeqMod - 1
         /\ (last_seq + 1 + Gap(seq)) % SeqMod = seq
<1>1. PICK e \in 0 .. SeqMod - 1 : e = Expected /\ e = (last_seq + 1) % SeqMod
  BY SeqModAssumption, ModDef DEF Expected, Successor, SeqNums
<1>2. Gap(seq) \in 0 .. SeqMod - 1 /\ (e + Gap(seq) = SeqMod + seq \/ e + Gap(seq) = seq)
  <2>1. Gap(seq) = IF seq < e THEN SeqMod - e + seq ELSE seq - e
    BY <1>1 DEF Gap
  <2>2. seq \in 0 .. SeqMod - 1 /\ SeqMod \in Nat
    BY SeqModAssumption DEF SeqNums
  <2>. QED
    BY <2>1, <2>2
<1>3. PICK s \in Int : s = e + Gap(seq)
  BY <1>2
<1>4. s % SeqMod = seq
  <2>1. CASE s = SeqMod + seq
    <3>1. s = SeqMod * 1 + seq
      BY <2>1, SeqModAssumption DEF SeqNums
    <3>. QED
      BY <3>1, SeqModAssumption, ModUnique DEF SeqNums
  <2>2. CASE s = seq
    <3>1. s = SeqMod * 0 + seq
      BY <2>2, SeqModAssumption DEF SeqNums
    <3>. QED
      BY <3>1, SeqModAssumption, ModUnique DEF SeqNums
  <2>. QED
    BY <1>2, <1>3, <2>1, <2>2
<1>5. (last_seq + 1 + Gap(seq)) % SeqMod = (e + Gap(seq)) % SeqMod
  <2>1. PICK l \in Int : l = last_seq + 1
    BY SeqModAssumption DEF SeqNums
  <2>2. PICK g \in Int : g = Gap(seq)
    BY <1>2
  <2>3. (l + g) % SeqMod = ((l % SeqMod) + g) % SeqMod
    BY SeqModAssumption, ModAdd
  <2>. QED
    BY <1>1, <2>1, <2>2, <2>3
<1>. QED
  BY <1>1, <1>2, <1>3, <1>4, <1>5

\* A packet with no greater number than an earlier one, and not on the other
\* side of a wrap from it, is a quarter of the number space or more after it.
LEMMA FarBehind ==
  ASSUME NEW m \in Nat, NEW n \in Nat, m < n, SeqOf(n) <= SeqOf(m),
         ~(SeqOf(n) < LowMark /\ SeqOf(m) > HighMark)
  PROVE  n - m >= LowMark
<1>1. PICK s \in 0 .. SeqMod - 1 : s = SeqOf(m) /\ \E p \in Int : FirstSeq + m = SeqMod * p + s
  <2>1. FirstSeq + m \in Int
    BY SeqOfType
  <2>. QED
    BY <2>1, SeqModAssumption, ModDef DEF SeqOf
<1>2. PICK t \in 0 .. SeqMod - 1 : t = SeqOf(n) /\ \E q \in Int : FirstSeq + n = SeqMod * q + t
  <2>1. FirstSeq + n \in Int
    BY SeqOfType
  <2>. QED
    BY <2>1, SeqModAssumption, ModDef DEF SeqOf
<1>3. PICK p \in Int : FirstSeq + m = SeqMod * p + s
  BY <1>1
<1>4. PICK q \in Int : FirstSeq + n = SeqMod * q + t
  BY <1>2
<1>5. PICK x \in Int : x = SeqMod * p
  BY SeqModAssumption
<1>6. PICK y \in Int : y = SeqMod * q
  BY SeqModAssumption
<1>7. SeqMod * (q - p) = y - x
  BY <1>5, <1>6, SeqModAssumption, Distribute
<1>8. n - m = (y - x) + (t - s) /\ y - x > 0
  BY <1>1, <1>2, <1>3, <1>4, <1>5, <1>6, SeqOfType
<1>9. y - x >= SeqMod
  <2>1. q - p >= 1
    <3>1. CASE q - p <= 0
      <4>1. SeqMod * (q - p) <= 0
        BY <3>1, SeqModAssumption
      <4>. QED
        BY <1>7, <1>8, <4>1
    <3>. QED
      BY <3>1
  <2>2. PICK d \in Int : d = q - p
    OBVIOUS
  <2>3. SeqMod * d >= SeqMod
    BY <2>1, <2>2, SeqModAssumption
  <2>. QED
    BY <1>7, <2>2, <2>3
<1>. QED
  BY <1>1, <1>2, <1>8, <1>9, SeqModAssumption, BufferAssumption, StreamAssumption

------------------------------------------------------------------------------
(* Types. *)

StreamInv == MSTypeOK /\ JBInv /\ NoMixAcrossWrap

LEMMA StreamInit == MSInit => StreamInv
<1> SUFFICES ASSUME MSInit PROVE StreamInv
  OBVIOUS
<1>1. JBInv /\ Stored = {}
  BY InitInv DEF MSInit, JBInit, Stored
<1>2. 0 \in SeqNums /\ 0 \in Counters /\ 0 \in 0 .. Scale - 1 /\ 0 \in 0 .. MaxSent
  BY SeqModAssumption, CounterAssumption, NetworkAssumption DEF SeqNums, Counters
<1>3. StatsTypeOK
  BY <1>2 DEF MSInit, StatsInit, StatsTypeOK, NoReport
<1>4. -1 \in -1 .. MaxSent - 1
  BY NetworkAssumption
<1>5. MSTypeOK
  BY <1>1, <1>2, <1>3, <1>4 DEF MSInit, NetInit, MSTypeOK, JBInv
<1>. QED
  BY <1>1, <1>5 DEF StreamInv, NoMixAcrossWrap

\* The buffer of a stream takes the steps of the buffer of an arbitrary caller.
LEMMA BufferStep ==
  ASSUME MSTypeOK, [MSNext]_vars
  PROVE  [JBNext]_jbvars
<1>1. ASSUME NEW n \in inflight, Receive(n)
      PROVE  JBNext
  <2>1. n \in Indices /\ n \in Int
    BY NetworkAssumption DEF MSTypeOK, Indices
  <2>2. Push(SeqOf(n), n) /\ SeqOf(n) \in SeqNums /\ n \in Payload
    BY <1>1, <2>1, SeqOfType, StreamAssumption DEF Receive
  <2>. QED
    BY <2>2 DEF JBNext
<1>2. CASE PopPacket
  BY <1>2 DEF PopPacket, JBNext
<1>3. CASE Transmit \/ LoseOne \/ Report \/ UNCHANGED vars
  BY <1>3 DEF Transmit, LoseOne, Report, vars
<1>. QED
  BY <1>1, <1>2, <1>3 DEF MSNext

\* No report is a report.
LEMMA UnreportedType ==
  NoReport \in [fraction_lost : 0 .. Scale - 1, packets_lost : Counters, highest_seq : SeqNums]
<1>1. 0 \in SeqNums /\ 0 \in Counters /\ 0 \in 0 .. Scale - 1
  BY SeqModAssumption, CounterAssumption DEF SeqNums, Counters
<1>. QED
  BY <1>1 DEF NoReport

\* The counters after a packet.
LEMMA StatsStep ==
  ASSUME StatsTypeOK, NEW seq \in SeqNums, update_statistics(seq), report' = NoReport
  PROVE  StatsTypeOK'
<1>1. CounterMod \in Nat \ {0}
  BY SeqModAssumption, CounterAssumption
<1>2. \A x \in Int : x % CounterMod \in Counters
  BY <1>1, ModDef DEF Counters
<1>3. Gap(seq) \in Int /\ packets_received + 1 \in Int /\ packets_lost + Gap(seq) \in Int
  BY <1>1, GapReaches DEF StatsTypeOK, Counters
<1>4. packets_received' \in Counters
  BY <1>2, <1>3 DEF update_statistics
<1>5. packets_lost' \in Counters
  BY <1>2, <1>3 DEF update_statistics, StatsTypeOK
<1>. QED
  BY <1>4, <1>5, UnreportedType DEF update_statistics, StatsTypeOK

\* The report.
LEMMA ReportStep ==
  ASSUME StatsTypeOK, generate_rtcp_report, UNCHANGED <<packets_received, packets_lost, last_seq>>
  PROVE  StatsTypeOK'
<1>1. CounterMod \in Nat \ {0} /\ Scale \in Nat \ {0}
  BY SeqModAssumption, CounterAssumption
<1>2. PICK x \in Int : x = (packets_lost * Scale) % CounterMod
  <2>1. PICK y \in Int : y = packets_lost * Scale
    BY <1>1 DEF StatsTypeOK, Counters
  <2>. QED
    BY <1>1, <2>1, ModDef
<1>3. FractionLost \in 0 .. Scale - 1
  <2>1. CASE packets_received > 0
    <3>1. packets_received \in Nat \ {0}
      BY <1>1, <2>1 DEF StatsTypeOK, Counters
    <3>2. PICK z \in Int : z = x \div packets_received
      BY <3>1
    <3>3. FractionLost = z % Scale
      BY <1>2, <2>1, <3>2 DEF FractionLost
    <3>. QED
      BY <1>1, <3>3, ModDef
  <2>2. CASE ~(packets_received > 0)
    BY <1>1, <2>2 DEF FractionLost
  <2>. QED
    BY <2>1, <2>2
<1>. QED
  BY <1>3 DEF generate_rtcp_report, StatsTypeOK

LEMMA StreamStep ==
  ASSUME StreamInv, [MSNext]_vars
  PROVE  StreamInv'
<1>0. MSTypeOK /\ JBInv /\ StatsTypeOK /\ NoMixAcrossWrap
  BY DEF StreamInv, MSTypeOK
<1>1. JBInv' /\ NoMixAcrossWrap' /\ JBTypeOK'
  <2>1. [JBNext]_jbvars
    BY <1>0, BufferStep
  <2>2. JBInv' /\ NoMixAcrossWrap'
    BY <1>0, <2>1, NextInv, NoMixStep
  <2>. QED
    BY <2>2 DEF JBInv
<1>2. SUFFICES MSTypeOK'
  BY <1>1 DEF StreamInv
<1>3. CASE Transmit
  <2>1. /\ sent < MaxSent /\ sent' = sent + 1 /\ inflight' = inflight \cup {sent}
        /\ UNCHANGED <<latest, orderly, counts, course>> /\ report' = NoReport
    BY <1>3 DEF Transmit, Send, Unreported
  <2>2. sent' \in 0 .. MaxSent /\ inflight' \subseteq Indices
    BY <1>0, <2>1, NetworkAssumption DEF MSTypeOK, Indices
  <2>. QED
    BY <1>0, <1>1, <2>1, <2>2, UnreportedType DEF MSTypeOK, StatsTypeOK, counts, course
<1>4. CASE LoseOne
  BY <1>0, <1>1, <1>4, UnreportedType
  DEF LoseOne, Lose, Unreported, MSTypeOK, StatsTypeOK, counts, course
<1>5. ASSUME NEW n \in inflight, Receive(n)
      PROVE  MSTypeOK'
  <2>1. n \in Indices /\ n \in Int /\ n \in -1 .. MaxSent - 1
    BY <1>0, NetworkAssumption DEF MSTypeOK, Indices
  <2>2. SeqOf(n) \in SeqNums
    BY <2>1, SeqOfType
  <2>3. StatsTypeOK'
    BY <1>0, <1>5, <2>2, StatsStep DEF Receive, Unreported
  <2>4. Gap(SeqOf(n)) \in Nat
    BY <1>0, <2>2, SeqModAssumption, GapReaches DEF StatsTypeOK
  <2>5. /\ sent' \in 0 .. MaxSent /\ inflight' \subseteq Indices
        /\ latest' \in -1 .. MaxSent - 1 /\ orderly' \in BOOLEAN
    BY <1>0, <1>5, <2>1 DEF Receive, Arrive, MSTypeOK
  <2>6. first' \in -1 .. MaxSent - 1 /\ last_out' \in -1 .. MaxSent - 1
    BY <1>0, <1>5, <2>1 DEF Receive, MSTypeOK
  <2>7. skipped' \in Nat
    BY <1>0, <1>5, <2>4 DEF Receive, MSTypeOK
  <2>8. in_run' \in BOOLEAN
    BY <1>5 DEF Receive
  <2>. QED
    BY <1>1, <2>3, <2>5, <2>6, <2>7, <2>8 DEF MSTypeOK
<1>6. CASE PopPacket
  <2>1. UNCHANGED <<netvars, counts, first, skipped>> /\ report' = NoReport
    BY <1>6 DEF PopPacket, Unreported
  <2>2. last_out' \in -1 .. MaxSent - 1 /\ in_run' \in BOOLEAN
    <3>1. CASE returned'.status = "Some"
      <4>1. last_out' = packets[returned'.seq] /\ in_run' = TRUE
        BY <1>6, <3>1 DEF PopPacket
      <4>2. PICK seq \in SeqNums : PopSome(seq)
        BY <1>6, <3>1 DEF PopPacket, Pop, PopNone, Result
      <4>3. returned'.seq \in Stored
        BY <4>2 DEF PopSome, Poppable, FirstKey, Result
      <4>4. packets[returned'.seq] \in Indices
        BY <1>0, <4>3, StreamAssumption DEF MSTypeOK, JBTypeOK
      <4>. QED
        BY <4>1, <4>4, NetworkAssumption DEF Indices
    <3>2. CASE returned'.status # "Some"
      BY <1>0, <1>6, <3>2 DEF PopPacket, MSTypeOK
    <3>. QED
      BY <3>1, <3>2
  <2>. QED
    BY <1>0, <1>1, <2>1, <2>2, UnreportedType DEF MSTypeOK, StatsTypeOK, netvars, counts
<1>7. CASE Report
  <2>1. StatsTypeOK'
    BY <1>0, <1>7, ReportStep DEF Report, counts
  <2>. QED
    BY <1>0, <1>1, <1>7, <2>1 DEF Report, MSTypeOK, netvars, course
<1>8. CASE UNCHANGED vars
  BY <1>0, <1>1, <1>8 DEF vars, netvars, statvars, counts, history, course, MSTypeOK, StatsTypeOK
<1>. QED
  BY <1>3, <1>4, <1>5, <1>6, <1>7, <1>8 DEF MSNext

\* Type correctness of the network, the buffer, the counters and the history.
THEOREM StreamTypeCorrect == MSSpec => []MSTypeOK
<1>1. StreamInv => MSTypeOK
  BY DEF StreamInv
<1>. QED
  BY <1>1, StreamInit, StreamStep, PTL DEF MSSpec

------------------------------------------------------------------------------
(* The losses counted. *)

\* Before the first packet nothing is counted.
NothingYet ==
  first = -1 => packets_received = 0 /\ packets_lost = 0 /\ skipped = 0 /\ last_seq = 0

LossInv == LossCongruence /\ NothingYet

\* Two numbers that stand for the same sequence number.
Same(a, b) == a % SeqMod = b % SeqMod

LEMMA SameShifted ==
  ASSUME NEW a \in Int, NEW b \in Int, NEW x \in Int, NEW y \in Int,
         Same(a, b), x - a = y - b
  PROVE  Same(x, y)
<1>1. PICK c \in Int : c = x - a
  OBVIOUS
<1>2. (a + c) % SeqMod = ((a % SeqMod) + c) % SeqMod
  BY SeqModAssumption, ModAdd, Zenon
<1>3. (b + c) % SeqMod = ((b % SeqMod) + c) % SeqMod
  BY SeqModAssumption, ModAdd, Zenon
<1>4. x = a + c /\ y = b + c
  BY <1>1
<1>. QED
  BY <1>2, <1>3, <1>4 DEF Same

LEMMA SameIsTransitive ==
  ASSUME NEW a, NEW b, NEW c, Same(a, b), Same(b, c)
  PROVE  Same(a, c)
  BY DEF Same

\* A sequence number is its own remainder.
LEMMA SameAsNumber ==
  ASSUME NEW x \in Int, NEW seq \in SeqNums
  PROVE  Same(x, seq) <=> x % SeqMod = seq
<1>1. seq \in 0 .. SeqMod - 1 /\ seq \in Int /\ seq = SeqMod * 0 + seq
  BY SeqModAssumption DEF SeqNums
<1>2. seq % SeqMod = seq
  BY <1>1, SeqModAssumption, ModUnique
<1>. QED
  BY <1>2 DEF Same

\* A counter that wraps keeps its remainder.
LEMMA CounterWraps ==
  ASSUME NEW x \in Int
  PROVE  x % CounterMod \in Nat /\ Same(x % CounterMod, x)
<1>1. PICK k \in Int : k \in 1 .. CounterMod /\ CounterMod = k * SeqMod
  BY CounterAssumption
<1>2. CounterMod \in Nat \ {0} /\ SeqMod \in Nat \ {0}
  BY <1>1, SeqModAssumption, CounterAssumption
<1>3. x % CounterMod \in 0 .. CounterMod - 1
  BY <1>2, ModDef
<1>4. (x % CounterMod) % SeqMod = x % SeqMod
  BY <1>1, <1>2, ModMultiple, Zenon
<1>. QED
  BY <1>3, <1>4 DEF Same

LEMMA LossReceived ==
  ASSUME StreamInv, LossInv, NEW n \in inflight, Receive(n)
  PROVE  LossInv'
<1>1. n \in Int /\ n # -1
  BY NetworkAssumption DEF StreamInv, MSTypeOK, Indices
<1>2. PICK seq \in SeqNums : seq = SeqOf(n)
  BY <1>1, SeqOfType
<1>3. PICK r \in Int, l \in Int, s \in Int : r = packets_received /\ l = packets_lost /\ s = skipped
  BY CounterAssumption DEF StreamInv, MSTypeOK, StatsTypeOK, Counters
<1>4. last_seq \in SeqNums /\ first \in Int
  BY CounterAssumption DEF StreamInv, MSTypeOK, StatsTypeOK
<1>5. PICK last \in Int : last = last_seq
  BY <1>4, SeqModAssumption DEF SeqNums
<1>6. PICK g \in Int : g = Gap(seq)
  BY <1>4, SeqModAssumption, GapReaches
<1>7. (last + 1 + g) % SeqMod = seq
  BY <1>4, <1>5, <1>6, GapReaches
<1>8. /\ packets_received' = (r + 1) % CounterMod
      /\ packets_lost' = IF CountsLoss THEN (l + g) % CounterMod ELSE l
      /\ last_seq' = seq
      /\ first' = IF first = -1 THEN n ELSE first
      /\ skipped' = IF first = -1 \/ CountsLoss THEN s ELSE s + g
  BY <1>2, <1>3, <1>6 DEF Receive, update_statistics
<1>9. PICK r1 \in Int : r1 = packets_received' /\ Same(r1, r + 1)
  <2>1. PICK x \in Int : x = r + 1
    OBVIOUS
  <2>. QED
    BY <1>8, <2>1, CounterWraps
<1>10. PICK l1 \in Int : l1 = packets_lost' /\ IF CountsLoss THEN Same(l1, l + g) ELSE l1 = l
  <2>1. PICK x \in Int : x = l + g
    OBVIOUS
  <2>. QED
    BY <1>8, <2>1, CounterWraps
<1>11. PICK s1 \in Int : s1 = skipped' /\ s1 = IF first = -1 \/ CountsLoss THEN s ELSE s + g
  BY <1>8
<1>12. NothingYet'
  BY <1>1, <1>8 DEF NothingYet
<1>13. PICK f \in Int : f = SeqOf(first')
  BY <1>1, <1>4, <1>8, SeqOfType, SeqModAssumption DEF SeqNums
<1>14. PICK w \in Int : w = f + r1 - 1 + l1 + s1
  OBVIOUS
<1>15. seq \in Int
  BY SeqModAssumption DEF SeqNums
<1>16. PICK p \in Int : p = r + 1
  OBVIOUS
<1>17. Same(r1, p)
  BY <1>9, <1>16
<1>18. Same(w, seq)
  <2>1. CASE first = -1
    <3>1. r = 0 /\ l1 = 0 /\ s1 = 0 /\ f = seq
      BY <1>2, <1>3, <1>8, <1>10, <1>11, <1>13, <2>1 DEF LossInv, NothingYet, CountsLoss
    <3>2. w - r1 = seq - p
      BY <1>14, <1>15, <1>16, <3>1
    <3>. QED
      BY <1>15, <1>17, <3>2, SameShifted
  <2>2. CASE first # -1
    <3>1. PICK t \in Int : t = f + r - 1 + l + s
      OBVIOUS
    <3>2. Same(t, last)
      <4>1. (f + r - 1 + l + s) % SeqMod = last
        BY <1>3, <1>5, <1>8, <1>13, <2>2 DEF LossInv, LossCongruence
      <4>. QED
        BY <1>4, <1>5, <3>1, <4>1, SameAsNumber
    <3>3. PICK u \in Int : u = t + 1 + g
      OBVIOUS
    <3>4. PICK e \in Int : e = last + 1 + g
      OBVIOUS
    <3>5. Same(e, seq)
      BY <1>7, <3>4, SameAsNumber
    <3>6. Same(u, e)
      BY <3>2, <3>3, <3>4, SameShifted
    <3>7. PICK v \in Int : v = f + r + l1 + s1
      OBVIOUS
    <3>8. Same(w, v)
      <4>1. w - r1 = v - p
        BY <1>14, <1>16, <3>7
      <4>. QED
        BY <1>17, <4>1, SameShifted
    <3>9. Same(v, u)
      <4>1. CASE CountsLoss
        <5>1. PICK q \in Int : q = l + g
          OBVIOUS
        <5>2. Same(l1, q) /\ s1 = s
          BY <1>10, <1>11, <4>1, <5>1
        <5>3. v - l1 = u - q
          BY <3>1, <3>3, <3>7, <5>1, <5>2
        <5>. QED
          BY <5>2, <5>3, SameShifted
      <4>2. CASE ~CountsLoss
        <5>1. l1 = l /\ s1 = s + g
          BY <1>10, <1>11, <2>2, <4>2
        <5>2. v = u
          BY <3>1, <3>3, <3>7, <5>1
        <5>. QED
          BY <5>2 DEF Same
      <4>. QED
        BY <4>1, <4>2
    <3>. QED
      BY <3>5, <3>6, <3>8, <3>9, SameIsTransitive
  <2>. QED
    BY <2>1, <2>2
<1>19. w % SeqMod = seq
  BY <1>18, SameAsNumber
<1>20. LossCongruence'
  BY <1>8, <1>9, <1>10, <1>11, <1>13, <1>14, <1>19 DEF LossCongruence, SeqOf
<1>. QED
  BY <1>12, <1>20 DEF LossInv

LEMMA LossStep ==
  ASSUME StreamInv, LossInv, [MSNext]_vars
  PROVE  LossInv'
<1>1. UNCHANGED <<packets_received, packets_lost, last_seq, first, skipped>> => LossInv'
  BY DEF LossInv, LossCongruence, NothingYet, SeqOf
<1>2. CASE Transmit \/ LoseOne \/ PopPacket \/ Report \/ UNCHANGED vars
  BY <1>1, <1>2 DEF Transmit, LoseOne, PopPacket, Report, vars, statvars, counts, history, course
<1>. QED
  BY <1>2, LossReceived DEF MSNext

\* The counters account for the distance between the first number and the
\* last, whatever the network loses, repeats and reorders, and however often
\* the numbers and the counters wrap.
THEOREM LossesAccountedFor == MSSpec => []LossCongruence
<1>1. MSInit => LossInv
  BY DEF MSInit, StatsInit, LossInv, LossCongruence, NothingYet
<1>2. LossInv => LossCongruence
  BY DEF LossInv
<1>. QED
  BY <1>1, <1>2, StreamInit, StreamStep, LossStep, PTL DEF MSSpec

------------------------------------------------------------------------------
(* The order of delivery. *)

\* What a push does to the packets stored.
LEMMA PushEffect ==
  ASSUME JBTypeOK, NEW seq \in SeqNums, NEW n \in Payload, Push(seq, n)
  PROVE  /\ Stored' \subseteq Stored \cup {seq} /\ Stored \subseteq Stored'
         /\ \A s \in Stored' : \/ s \in Stored /\ packets'[s] = packets[s]
                               \/ s = seq /\ packets'[s] = n
<1>1. CASE UNCHANGED packets
  BY <1>1 DEF Stored
<1>2. CASE Insert(seq, n)
  <2>1. Stored' = Stored \cup {seq}
    BY <1>2, InsertDomain
  <2>2. packets' = [s \in Stored \cup {seq} |-> IF s = seq THEN n ELSE packets[s]]
    BY <1>2 DEF Insert
  <2>. QED
    BY <2>1, <2>2
<1>. QED
  BY <1>1, <1>2 DEF Push, PushFirst, PushWrapped, PushOverflow, PushStored

\* What a pop does.
LEMMA PopEffect ==
  ASSUME JBTypeOK, PopPacket
  PROVE  \/ UNCHANGED <<packets, min_seq, last_out, in_run>>
         \/ \E q \in Stored :
              /\ Poppable(q) /\ Stored' = Stored \ {q} /\ last_out' = packets[q]
              /\ \A t \in Stored' : packets'[t] = packets[t]
              /\ min_seq' = Successor(min_seq) /\ in_run' = TRUE
<1>1. CASE PopNone
  BY <1>1 DEF PopNone, PopPacket, Result
<1>2. ASSUME NEW q \in SeqNums, PopSome(q)
      PROVE  /\ q \in Stored /\ Poppable(q) /\ Stored' = Stored \ {q}
             /\ last_out' = packets[q] /\ in_run' = TRUE /\ min_seq' = Successor(min_seq)
             /\ \A t \in Stored' : packets'[t] = packets[t]
  <2>1. q \in Stored /\ Poppable(q) /\ returned' = Result("Some", q)
        /\ packets' = Restrict(packets, Stored \ {q}) /\ min_seq' = Successor(min_seq)
    BY <1>2 DEF PopSome, Poppable, FirstKey
  <2>2. Stored' = Stored \ {q}
    BY <1>2, <2>1, RestrictDomainOf
  <2>3. \A t \in Stored' : packets'[t] = packets[t]
    BY <2>1, <2>2 DEF Restrict
  <2>4. last_out' = packets[q] /\ in_run' = TRUE
    BY <2>1 DEF PopPacket, Result
  <2>. QED
    BY <2>1, <2>2, <2>3, <2>4
<1>. QED
  BY <1>1, <1>2 DEF PopPacket, Pop

\* The number of a packet, counted from another at most a turn before it.
LEMMA TurnNumber ==
  ASSUME NEW f \in Nat, NEW i \in Nat, i < SeqMod
  PROVE  SeqOf(f + i) = IF SeqOf(f) + i < SeqMod THEN SeqOf(f) + i ELSE SeqOf(f) + i - SeqMod
<1>1. PICK a \in Int : a = FirstSeq + f
  BY SeqOfType
<1>2. PICK s \in 0 .. SeqMod - 1 : s = a % SeqMod
  BY SeqModAssumption, ModDef
<1>3. (a + i) % SeqMod = (s + i) % SeqMod
  <2>1. i \in Int
    OBVIOUS
  <2>2. (a + i) % SeqMod = ((a % SeqMod) + i) % SeqMod
    BY <2>1, SeqModAssumption, ModAdd
  <2>. QED
    BY <1>2, <2>2
<1>4. CASE s + i < SeqMod
  <2>1. s + i \in 0 .. SeqMod - 1 /\ s + i = SeqMod * 0 + (s + i)
    BY <1>4, SeqModAssumption
  <2>2. (s + i) % SeqMod = s + i
    BY <2>1, SeqModAssumption, ModUnique
  <2>3. a + i = FirstSeq + (f + i)
    BY <1>1, SeqOfType
  <2>. QED
    BY <1>1, <1>2, <1>3, <1>4, <2>2, <2>3 DEF SeqOf
<1>5. CASE s + i >= SeqMod
  <2>1. s + i - SeqMod \in 0 .. SeqMod - 1 /\ s + i = SeqMod * 1 + (s + i - SeqMod)
    BY <1>5, SeqModAssumption
  <2>2. (s + i) % SeqMod = s + i - SeqMod
    BY <2>1, SeqModAssumption, ModUnique
  <2>3. a + i = FirstSeq + (f + i)
    BY <1>1, SeqOfType
  <2>4. ~(s + i < SeqMod)
    BY <1>5, SeqModAssumption
  <2>. QED
    BY <1>1, <1>2, <1>3, <2>2, <2>3, <2>4 DEF SeqOf
<1>. QED
  BY <1>4, <1>5, SeqModAssumption

\* Within one turn that begins at packet f, a later packet with a smaller
\* number is past the wrap and below f's number, an earlier one with a greater
\* number is not.
LEMMA TurnOrder ==
  ASSUME NEW f \in Nat, NEW a \in Nat, NEW b \in Nat,
         f <= a, a < b, b - f < SeqMod - 1, SeqOf(b) < SeqOf(a)
  PROVE  SeqOf(b) + 1 < SeqOf(f) /\ SeqOf(a) >= SeqOf(f)
<1>1. PICK i \in Nat : a = f + i /\ i < SeqMod - 1
  <2>1. a - f \in Nat /\ a = f + (a - f) /\ a - f < SeqMod - 1
    BY SeqModAssumption
  <2>. QED
    BY <2>1
<1>2. PICK j \in Nat : b = f + j /\ j < SeqMod - 1
  <2>1. b - f \in Nat /\ b = f + (b - f)
    OBVIOUS
  <2>. QED
    BY <2>1
<1>3. PICK g \in 0 .. SeqMod - 1 : g = SeqOf(f)
  BY SeqOfType DEF SeqNums
<1>4. SeqOf(a) = IF g + i < SeqMod THEN g + i ELSE g + i - SeqMod
  <2>1. i < SeqMod
    BY <1>1, SeqModAssumption
  <2>2. SeqOf(f + i) = IF SeqOf(f) + i < SeqMod THEN SeqOf(f) + i ELSE SeqOf(f) + i - SeqMod
    BY <2>1, TurnNumber
  <2>. QED
    BY <1>1, <1>3, <2>2
<1>5. SeqOf(b) = IF g + j < SeqMod THEN g + j ELSE g + j - SeqMod
  <2>1. j < SeqMod
    BY <1>2, SeqModAssumption
  <2>2. SeqOf(f + j) = IF SeqOf(f) + j < SeqMod THEN SeqOf(f) + j ELSE SeqOf(f) + j - SeqMod
    BY <2>1, TurnNumber
  <2>. QED
    BY <1>2, <1>3, <2>2
<1>6. PICK x, y \in Int : x = SeqOf(a) /\ y = SeqOf(b)
  BY <1>1, <1>2, <1>3, <1>4, <1>5, SeqModAssumption
<1>7. i < j /\ y < x
  BY <1>1, <1>2, <1>6
<1>. QED
  BY <1>1, <1>2, <1>3, <1>4, <1>5, <1>6, <1>7, SeqModAssumption

\* Each packet is stored under its own number; in an orderly stream of at most
\* a turn, a packet older than the one popped last lies in the part of the
\* numbers from the first one on, which the lower bound has left for good.
OrderInv ==
  /\ \A s \in Stored : packets[s] \in Nat /\ packets[s] <= latest /\ SeqOf(packets[s]) = s
  /\ last_out <= latest /\ first <= latest
  /\ first = -1 => Stored = {} /\ last_out = -1
  /\ orderly => \A s \in Stored : first <= packets[s]
  /\ orderly /\ WithinTurn =>
       \A s \in Stored : packets[s] < last_out => min_seq < SeqOf(first) /\ SeqOf(first) <= s

\* A push does not raise the lower bound of a buffer that is not empty.
LEMMA PushLowers ==
  ASSUME JBTypeOK, NEW seq \in SeqNums, NEW n \in Payload, Push(seq, n), Stored # {}
  PROVE  min_seq' <= min_seq /\ min_seq' \in SeqNums
<1>1. min_seq \in SeqNums /\ \A s \in SeqNums : s \in Int
  BY SeqModAssumption DEF JBTypeOK, SeqNums
<1>. QED
  BY <1>1 DEF Push, PushFirst, PushWrapped, PushOverflow, PushStored, LowerBound

LEMMA OrderStep ==
  ASSUME StreamInv, OrderInv, [MSNext]_vars
  PROVE  OrderInv'
<1>0. /\ JBTypeOK /\ latest \in Int /\ last_out \in Int /\ first \in Int /\ first >= -1
      /\ min_seq \in SeqNums /\ \A s \in SeqNums : s \in Int /\ s < SeqMod
  BY NetworkAssumption, SeqModAssumption DEF StreamInv, MSTypeOK, JBTypeOK, SeqNums
<1>1. ASSUME NEW n \in inflight, Receive(n)
      PROVE  OrderInv'
  <2>1. n \in Indices /\ n \in Nat /\ n \in Payload
    BY NetworkAssumption, StreamAssumption DEF StreamInv, MSTypeOK, Indices
  <2>2. PICK seq \in SeqNums : seq = SeqOf(n)
    BY <2>1, SeqOfType
  <2>3. /\ Push(seq, n) /\ UNCHANGED last_out
        /\ latest' = (IF n > latest THEN n ELSE latest) /\ orderly' = (orderly /\ n > latest)
        /\ first' = (IF first = -1 THEN n ELSE first)
    BY <1>1, <2>2 DEF Receive, Arrive
  <2>4. \A s \in Stored' : \/ s \in Stored /\ packets'[s] = packets[s]
                           \/ s = seq /\ packets'[s] = n
    BY <1>0, <2>1, <2>3, PushEffect
  <2>5. latest' >= latest /\ n <= latest' /\ latest' \in Int /\ first' \in Nat /\ first' <= latest'
    BY <1>0, <2>1, <2>3 DEF OrderInv
  <2>6. \A s \in Stored' : /\ packets'[s] \in Nat /\ packets'[s] <= latest'
                           /\ SeqOf(packets'[s]) = s
    <3> SUFFICES ASSUME NEW s \in Stored'
                 PROVE  packets'[s] \in Nat /\ packets'[s] <= latest' /\ SeqOf(packets'[s]) = s
      OBVIOUS
    <3>1. CASE s \in Stored /\ packets'[s] = packets[s]
      BY <1>0, <2>5, <3>1 DEF OrderInv
    <3>2. CASE s = seq /\ packets'[s] = n
      BY <2>1, <2>2, <2>5, <3>2
    <3>. QED
      BY <2>4, <3>1, <3>2
  <2>7. last_out' <= latest'
    BY <1>0, <2>3, <2>5 DEF OrderInv
  <2>8. ASSUME orderly', NEW s \in Stored'
        PROVE  first' <= packets'[s]
    <3>1. orderly /\ n > latest
      BY <2>3, <2>8
    <3>2. CASE s \in Stored /\ packets'[s] = packets[s]
      BY <2>3, <3>1, <3>2 DEF OrderInv
    <3>3. CASE s = seq /\ packets'[s] = n
      BY <1>0, <2>1, <2>3, <3>1, <3>3 DEF OrderInv
    <3>. QED
      BY <2>4, <3>2, <3>3
  <2>9. ASSUME orderly', WithinTurn', NEW s \in Stored', packets'[s] < last_out'
        PROVE  min_seq' < SeqOf(first') /\ SeqOf(first') <= s
    <3>1. orderly /\ n > latest
      BY <2>3, <2>9
    <3>2. s \in Stored /\ packets'[s] = packets[s]
      <4>1. ~(packets'[s] = n)
        BY <1>0, <2>1, <2>3, <2>9, <3>1 DEF OrderInv
      <4>. QED
        BY <2>4, <4>1
    <3>3. first' = first /\ first \in Nat
      BY <1>0, <2>3, <3>2 DEF OrderInv
    <3>4. WithinTurn
      <4>1. latest' - first' < SeqMod - 1
        BY <2>9 DEF WithinTurn
      <4>2. latest' >= latest /\ latest' \in Int /\ latest \in Int /\ first \in Int /\ SeqMod \in Int
        BY <1>0, <2>5, SeqModAssumption
      <4>3. PICK a, b, c \in Int : a = latest' /\ b = latest /\ c = first
        BY <4>2
      <4>4. b <= a /\ a - c < SeqMod - 1
        BY <3>3, <4>1, <4>2, <4>3
      <4>5. b - c < SeqMod - 1
        BY <4>2, <4>4
      <4>. QED
        BY <4>3, <4>5 DEF WithinTurn
    <3>5. min_seq < SeqOf(first) /\ SeqOf(first) <= s
      BY <2>3, <2>9, <3>1, <3>2, <3>4 DEF OrderInv
    <3>6. min_seq' <= min_seq /\ min_seq' \in SeqNums
      BY <1>0, <2>1, <2>3, <3>2, PushLowers
    <3>7. SeqOf(first) \in SeqNums
      BY <3>3, SeqOfType
    <3>. QED
      BY <1>0, <3>3, <3>5, <3>6, <3>7
  <2>10. \A s \in Stored' : SeqOf(packets[s])' = s
    BY <2>6 DEF SeqOf
  <2>11. SeqOf(first)' = SeqOf(first')
    BY DEF SeqOf
  <2>12. first' # -1
    BY <2>5
  <2>. QED
    BY <2>5, <2>6, <2>7, <2>8, <2>9, <2>10, <2>11, <2>12 DEF OrderInv
<1>2. ASSUME UNCHANGED <<packets, min_seq, latest, orderly, first, last_out>>
      PROVE  OrderInv'
  BY <1>2 DEF OrderInv, WithinTurn, Stored, SeqOf
<1>3. CASE PopPacket
  <2>1. UNCHANGED <<latest, orderly, first>>
    BY <1>3 DEF PopPacket, netvars
  <2>2. CASE UNCHANGED <<packets, min_seq, last_out, in_run>>
    BY <1>2, <2>1, <2>2
  <2>3. ASSUME NEW q \in Stored, Poppable(q), Stored' = Stored \ {q}, last_out' = packets[q],
               \A t \in Stored' : packets'[t] = packets[t], min_seq' = Successor(min_seq)
        PROVE  OrderInv'
    <3>1. ASSUME orderly, WithinTurn, NEW t \in Stored', packets[t] < packets[q]
          PROVE  Successor(min_seq) < SeqOf(first) /\ SeqOf(first) <= t
      <4>1. t \in Stored /\ q < t /\ q = min_seq /\ t \in SeqNums
        BY <1>0, <2>3, SeqModAssumption DEF Poppable, FirstKey, JBTypeOK, SeqNums
      <4>2. PICK a \in Nat : a = packets[t] /\ a <= latest /\ SeqOf(a) = t /\ first <= a
        BY <3>1, <4>1 DEF OrderInv
      <4>3. PICK b \in Nat : b = packets[q] /\ b <= latest /\ SeqOf(b) = q
        BY DEF OrderInv
      <4>4. first \in Nat
        BY <1>0, <4>1 DEF OrderInv
      <4>5. a < b /\ b - first < SeqMod - 1
        BY <1>0, <3>1, <4>2, <4>3, <4>4, SeqModAssumption DEF WithinTurn
      <4>6. SeqOf(b) + 1 < SeqOf(first) /\ SeqOf(a) >= SeqOf(first)
        BY <4>1, <4>2, <4>3, <4>4, <4>5, TurnOrder
      <4>7. SeqOf(first) \in SeqNums
        BY <4>4, SeqOfType
      <4>8. q + 1 < SeqMod /\ q + 1 \in 0 .. SeqMod - 1
        BY <1>0, <4>1, <4>3, <4>6, <4>7, SeqModAssumption DEF SeqNums
      <4>9. Successor(min_seq) = q + 1
        <5>1. q + 1 = SeqMod * 0 + (q + 1)
          BY <4>8, SeqModAssumption
        <5>. QED
          BY <4>1, <4>8, <5>1, SeqModAssumption, ModUnique DEF Successor
      <4>. QED
        BY <1>0, <4>1, <4>2, <4>3, <4>6, <4>7, <4>9
    <3>2. \A t \in Stored' : packets[t] \in Nat /\ packets[t] <= latest /\ SeqOf(packets[t]) = t
      BY <2>3 DEF OrderInv
    <3>3. packets[q] <= latest /\ first <= latest
      BY DEF OrderInv
    <3>4. first # -1
      BY DEF OrderInv
    <3>5. orderly => \A t \in Stored' : first <= packets[t]
      BY <2>3 DEF OrderInv
    <3>6. WithinTurn' = WithinTurn /\ SeqOf(first)' = SeqOf(first)
      BY <2>1 DEF WithinTurn, SeqOf
    <3>7. \A t \in Stored' : SeqOf(packets[t])' = t
      BY <2>3, <3>2 DEF SeqOf
    <3>. QED
      BY <2>1, <2>3, <3>1, <3>2, <3>3, <3>4, <3>5, <3>6, <3>7 DEF OrderInv
  <2>. QED
    BY <1>0, <1>3, <2>2, <2>3, PopEffect
<1>4. CASE Transmit \/ LoseOne \/ Report \/ UNCHANGED vars
  BY <1>2, <1>4 DEF Transmit, Send, LoseOne, Lose, Report, vars, netvars, jbvars, history, course
<1>. QED
  BY <1>1, <1>3, <1>4 DEF MSNext

LEMMA OrderInit == MSInit => OrderInv
  BY DEF MSInit, NetInit, JBInit, OrderInv, Stored

\* In a stream that arrives in order, and for the first turn of its numbers,
\* packets come out in the order they were sent, whatever was lost: also where
\* push takes a packet far ahead for the lowest and leaves older ones behind.
THEOREM DeliveredInOrder == MSSpec => InOrderDelivery
<1>1. StreamInv /\ OrderInv /\ [MSNext]_vars =>
        [orderly /\ WithinTurn /\ last_out' # last_out => last_out' > last_out]_vars
  <2> SUFFICES ASSUME StreamInv, OrderInv, [MSNext]_vars, orderly, WithinTurn,
                      last_out' # last_out
               PROVE  last_out' > last_out
    OBVIOUS
  <2>1. PopPacket
    BY DEF MSNext, Transmit, LoseOne, Receive, Report, vars, history, course
  <2>2. JBTypeOK /\ last_out \in Int /\ first \in Int /\ min_seq \in Int
    BY NetworkAssumption, SeqModAssumption DEF StreamInv, MSTypeOK, JBTypeOK, SeqNums
  <2>3. PICK q \in Stored : last_out' = packets[q] /\ q = min_seq
    BY <2>1, <2>2, PopEffect DEF Poppable
  <2>4. packets[q] \in Nat /\ SeqOf(first) \in Int
    BY <2>2, SeqOfType, SeqModAssumption DEF OrderInv, SeqNums
  <2>5. ~(packets[q] < last_out)
    <3>1. packets[q] < last_out => min_seq < SeqOf(first) /\ SeqOf(first) <= q
      BY DEF OrderInv
    <3>. QED
      BY <2>2, <2>3, <2>4, <3>1
  <2>. QED
    BY <2>2, <2>3, <2>4, <2>5
<1>. QED
  BY <1>1, StreamInit, StreamStep, OrderInit, OrderStep, PTL DEF MSSpec, InOrderDelivery

------------------------------------------------------------------------------
(* The order of delivery, with gaps. *)

\* The packet that pop may return is the next one, or at least k later than
\* the last one, or there is none for ever.
Ahead(k) ==
  \/ min_seq = Successor(SeqOf(last_out))
  \/ min_seq \in Stored /\ packets[min_seq] >= last_out + k
  \/ Full /\ Stalled

RunInv ==
  orderly =>
    /\ Stored # {} => Ahead(1)
    /\ in_run => last_out \in Nat /\ SeqOf(last_out) <= max_seq /\ Ahead(LowMark)

LEMMA NextNumber ==
  ASSUME NEW n \in Int
  PROVE  Successor(SeqOf(n)) = SeqOf(n + 1)
<1>1. PICK a \in Int : a = FirstSeq + n
  BY SeqOfType
<1>2. (a + 1) % SeqMod = ((a % SeqMod) + 1) % SeqMod
  <2>1. 1 \in Int
    OBVIOUS
  <2>. QED
    BY <2>1, SeqModAssumption, ModAdd, Zenon
<1>3. a + 1 = FirstSeq + (n + 1)
  BY <1>1, SeqOfType
<1>. QED
  BY <1>1, <1>2, <1>3 DEF Successor, SeqOf

\* A push keeps the packet to come ahead, if one that lowers the bound below
\* the successor of the last packet is itself so far ahead.
LEMMA PushAhead ==
  ASSUME StreamInv, OrderInv, NEW k \in Nat, Ahead(k), Stored # {},
         NEW n \in Payload, NEW seq \in SeqNums, Push(seq, n), n > latest, UNCHANGED last_out,
         min_seq = Successor(SeqOf(last_out)) /\ seq < min_seq /\ ~Wraps(seq) => n >= last_out + k
  PROVE  Ahead(k)'
<1>0. /\ JBTypeOK /\ JBInv /\ BoundsEncloseStored /\ Stored \subseteq SeqNums
      /\ min_seq \in SeqNums /\ \A s \in SeqNums : s \in Int
      /\ latest \in Int /\ last_out \in Int /\ n \in Int
  BY SeqModAssumption, NetworkAssumption, StreamAssumption
  DEF StreamInv, MSTypeOK, JBInv, JBTypeOK, SeqNums, Indices
<1>1. CASE UNCHANGED <<packets, min_seq>>
  BY <1>1 DEF Ahead, Full, Stalled, Stored, SeqOf
<1>2. CASE Full /\ Stalled
  <2>1. JBNext
    BY DEF JBNext
  <2>2. Full' /\ Stalled'
    BY <1>0, <1>2, <2>1, FullStallStep
  <2>. QED
    BY <2>2 DEF Ahead
<1>3. CASE PushOverflow(seq) /\ seq < min_seq
  <2>1. Full /\ min_seq' = seq /\ packets' = packets
    BY <1>3 DEF PushOverflow, LowerBound
  <2>2. \A s \in Stored : seq < s
    BY <1>0, <1>3 DEF BoundsEncloseStored
  <2>3. Full' /\ Stalled'
    BY <2>1, <2>2 DEF Full, Stalled, Stored
  <2>. QED
    BY <2>3 DEF Ahead
<1>4. CASE PushStored(seq, n)
  <2>1. Insert(seq, n) /\ ~Full /\ min_seq' = LowerBound(seq) /\ ~Wraps(seq)
    BY <1>4 DEF PushStored
  <2>2. Stored' = Stored \cup {seq}
    BY <1>0, <2>1, InsertDomain
  <2>3. packets' = [s \in Stored \cup {seq} |-> IF s = seq THEN n ELSE packets[s]]
    BY <2>1 DEF Insert
  <2>4. CASE seq < min_seq
    <3>1. min_seq' = seq /\ min_seq' \in Stored' /\ packets'[min_seq'] = n
      BY <2>1, <2>2, <2>3, <2>4 DEF LowerBound
    <3>2. n >= last_out + k
      <4>1. CASE min_seq = Successor(SeqOf(last_out))
        BY <2>1, <2>4, <4>1
      <4>2. CASE min_seq \in Stored /\ packets[min_seq] >= last_out + k
        <5>1. packets[min_seq] \in Nat /\ packets[min_seq] <= latest
          BY <4>2 DEF OrderInv
        <5>. QED
          BY <1>0, <4>2, <5>1
      <4>. QED
        BY <2>1, <4>1, <4>2 DEF Ahead
    <3>. QED
      BY <3>1, <3>2 DEF Ahead
  <2>5. CASE ~(seq < min_seq)
    <3>1. min_seq' = min_seq
      BY <2>1, <2>5 DEF LowerBound
    <3>2. CASE min_seq = Successor(SeqOf(last_out))
      BY <3>1, <3>2 DEF Ahead, SeqOf
    <3>3. CASE min_seq \in Stored /\ packets[min_seq] >= last_out + k
      <4>1. packets[min_seq] \in Nat /\ packets[min_seq] <= latest
        BY <3>3 DEF OrderInv
      <4>2. min_seq \in Stored' /\ packets'[min_seq] = (IF min_seq = seq THEN n ELSE packets[min_seq])
        BY <2>2, <2>3, <3>3
      <4>3. packets'[min_seq] >= last_out + k
        BY <1>0, <3>3, <4>1, <4>2
      <4>. QED
        BY <3>1, <4>2, <4>3 DEF Ahead
    <3>. QED
      BY <2>1, <3>2, <3>3 DEF Ahead
  <2>. QED
    BY <2>4, <2>5
<1>5. CASE PushOverflow(seq) /\ ~(seq < min_seq)
  <2>1. UNCHANGED <<packets, min_seq>>
    BY <1>5 DEF PushOverflow, LowerBound
  <2>. QED
    BY <1>1, <2>1
<1>. QED
  BY <1>1, <1>3, <1>4, <1>5 DEF Push, PushFirst, PushWrapped

\* The first packet in an empty buffer is the one pop returns.
LEMMA PushFirstAhead ==
  ASSUME StreamInv, OrderInv, Stored = {}, NEW n \in Payload, NEW seq \in SeqNums,
         Push(seq, n), n > latest, UNCHANGED last_out
  PROVE  Ahead(1)'
<1>1. PushFirst(seq, n)
  BY DEF Push, PushFirst, PushWrapped, PushOverflow, PushStored
<1>2. Insert(seq, n) /\ min_seq' = seq
  BY <1>1 DEF PushFirst
<1>3. Stored' = Stored \cup {seq}
  BY <1>2, InsertDomain DEF StreamInv, JBInv
<1>4. packets'[seq] = n
  BY <1>2 DEF Insert
<1>5. n \in Int /\ latest \in Int /\ last_out \in Int /\ last_out <= latest
  BY NetworkAssumption, StreamAssumption DEF StreamInv, MSTypeOK, OrderInv, Indices
<1>6. n >= last_out + 1
  BY <1>5
<1>. QED
  BY <1>2, <1>3, <1>4, <1>6 DEF Ahead

LEMMA RunStep ==
  ASSUME StreamInv, OrderInv, RunInv, [MSNext]_vars
  PROVE  RunInv'
<1>0. /\ JBTypeOK /\ latest \in Int /\ last_out \in Int /\ LowMark \in Nat /\ HighMark \in Int
      /\ min_seq \in SeqNums /\ max_seq \in SeqNums /\ \A s \in SeqNums : s \in Int /\ s >= 0
  BY SeqModAssumption, NetworkAssumption, BufferAssumption
  DEF StreamInv, MSTypeOK, JBTypeOK, SeqNums
<1>1. ASSUME NEW n \in inflight, Receive(n), orderly'
      PROVE  /\ Stored' # {} => Ahead(1)'
             /\ in_run' => last_out' \in Nat /\ SeqOf(last_out)' <= max_seq' /\ Ahead(LowMark)'
  <2>1. n \in Indices /\ n \in Nat /\ n \in Payload
    BY NetworkAssumption, StreamAssumption DEF StreamInv, MSTypeOK, Indices
  <2>2. PICK seq \in SeqNums : seq = SeqOf(n) /\ seq \in Int
    BY <1>0, <2>1, SeqOfType
  <2>3. /\ Push(seq, n) /\ UNCHANGED last_out /\ n > latest /\ orderly
        /\ in_run' = (in_run /\ Stored # {})
    BY <1>1, <2>2 DEF Receive, Arrive
  <2>4. last_out <= latest /\ n >= last_out + 1
    BY <1>0, <2>1, <2>3 DEF OrderInv
  <2>5. Ahead(1)'
    <3>1. CASE Stored = {}
      BY <2>1, <2>3, <3>1, PushFirstAhead
    <3>2. CASE Stored # {}
      <4>1. Ahead(1)
        BY <2>3, <3>2 DEF RunInv
      <4>. QED
        BY <2>1, <2>3, <2>4, <3>2, <4>1, PushAhead
    <3>. QED
      BY <3>1, <3>2
  <2>6. ASSUME in_run'
        PROVE  last_out' \in Nat /\ SeqOf(last_out)' <= max_seq' /\ Ahead(LowMark)'
    <3>1. in_run /\ Stored # {}
      BY <2>3, <2>6
    <3>2. last_out \in Nat /\ SeqOf(last_out) <= max_seq /\ Ahead(LowMark)
      BY <2>3, <3>1 DEF RunInv
    <3>3. PICK s \in SeqNums : s = SeqOf(last_out)
      BY <3>2, SeqOfType
    <3>4. max_seq <= max_seq' /\ max_seq' \in Int
      BY <1>0, <2>2, <2>3, <3>1
      DEF Push, PushFirst, PushWrapped, PushOverflow, PushStored, UpperBound
    <3>5. SeqOf(last_out)' <= max_seq'
      <4>1. SeqOf(last_out)' = s
        BY <2>3, <3>3 DEF SeqOf
      <4>. QED
        BY <1>0, <3>2, <3>3, <3>4, <4>1
    <3>6. ASSUME min_seq = Successor(SeqOf(last_out)), seq < min_seq, ~Wraps(seq)
          PROVE  n >= last_out + LowMark
      <4>1. min_seq <= s + 1
        <5>1. CASE s + 1 < SeqMod
          <6>1. s + 1 \in 0 .. SeqMod - 1 /\ s + 1 = SeqMod * 0 + (s + 1)
            BY <1>0, <5>1, SeqModAssumption
          <6>2. (s + 1) % SeqMod = s + 1
            BY <6>1, SeqModAssumption, ModUnique
          <6>. QED
            BY <1>0, <3>3, <3>6, <6>2 DEF Successor
        <5>2. CASE ~(s + 1 < SeqMod)
          BY <1>0, <5>2, SeqModAssumption DEF SeqNums
        <5>. QED
          BY <5>1, <5>2
      <4>2. seq <= s
        BY <1>0, <2>2, <3>6, <4>1
      <4>3. ~(seq < LowMark /\ s > HighMark)
        BY <1>0, <3>2, <3>3, <3>6 DEF Wraps
      <4>4. n - last_out >= LowMark
        BY <1>0, <2>1, <2>2, <2>4, <3>2, <3>3, <4>2, <4>3, FarBehind
      <4>. QED
        BY <1>0, <2>1, <4>4
    <3>7. Ahead(LowMark)'
      BY <1>0, <2>1, <2>3, <3>1, <3>2, <3>6, PushAhead
    <3>. QED
      BY <2>3, <3>2, <3>5, <3>7
  <2>. QED
    BY <2>5, <2>6
<1>2. ASSUME UNCHANGED <<packets, min_seq, max_seq, orderly, last_out, in_run>>
      PROVE  RunInv'
  BY <1>2 DEF RunInv, Ahead, Full, Stalled, Stored, SeqOf
<1>3. CASE PopPacket
  <2>1. UNCHANGED <<orderly, max_seq>>
    BY <1>3 DEF PopPacket, netvars, Pop, PopSome, PopNone
  <2>2. CASE UNCHANGED <<packets, min_seq, last_out, in_run>>
    BY <1>2, <2>1, <2>2
  <2>3. ASSUME NEW q \in Stored, Poppable(q), last_out' = packets[q],
               min_seq' = Successor(min_seq)
        PROVE  RunInv'
    <3>1. packets[q] \in Nat /\ SeqOf(packets[q]) = q /\ q = min_seq /\ q <= max_seq
      BY <2>3 DEF OrderInv, Poppable, StreamInv, JBInv, BoundsEncloseStored
    <3>2. min_seq' = Successor(SeqOf(last_out)')
      BY <2>3, <3>1 DEF SeqOf
    <3>3. SeqOf(last_out)' = q
      BY <2>3, <3>1 DEF SeqOf
    <3>4. Ahead(1)' /\ Ahead(LowMark)'
      BY <3>2 DEF Ahead
    <3>. QED
      BY <2>1, <2>3, <3>1, <3>3, <3>4 DEF RunInv
  <2>. QED
    BY <1>0, <1>3, <2>2, <2>3, PopEffect
<1>4. CASE Transmit \/ LoseOne \/ Report \/ UNCHANGED vars
  BY <1>2, <1>4 DEF Transmit, Send, LoseOne, Lose, Report, vars, netvars, jbvars, history, course
<1>5. ASSUME NEW n \in inflight, Receive(n)
      PROVE  RunInv'
  BY <1>1, <1>5 DEF RunInv
<1>. QED
  BY <1>3, <1>4, <1>5 DEF MSNext

LEMMA RunInit == MSInit => RunInv
  BY DEF MSInit, JBInit, RunInv, Stored

\* What is popped is ahead of the last packet by its number or by k.
LEMMA PoppedAhead ==
  ASSUME JBTypeOK, NEW k \in Nat, NEW q \in Stored, Poppable(q), Ahead(k)
  PROVE  q = Successor(SeqOf(last_out)) \/ packets[q] >= last_out + k
<1>1. q = min_seq /\ q \in Int
  BY SeqModAssumption DEF Poppable, JBTypeOK, SeqNums
<1>2. ~Stalled
  BY <1>1 DEF Stalled
<1>. QED
  BY <1>1, <1>2 DEF Ahead

\* In a stream of any length that arrives in order, an old packet comes out
\* behind a newer one only when its number is the next.
THEOREM MisorderedOnlyAsNext == MSSpec => OutOfOrderIsNext
<1>1. StreamInv /\ OrderInv /\ RunInv /\ [MSNext]_vars =>
        [orderly /\ last_out' # last_out =>
           last_out' > last_out \/ SeqOf(last_out') = Successor(SeqOf(last_out))]_vars
  <2> SUFFICES ASSUME StreamInv, OrderInv, RunInv, [MSNext]_vars, orderly, last_out' # last_out
               PROVE  last_out' > last_out \/ SeqOf(last_out') = Successor(SeqOf(last_out))
    OBVIOUS
  <2>1. PopPacket
    BY DEF MSNext, Transmit, LoseOne, Receive, Report, vars, history, course
  <2>2. JBTypeOK /\ last_out \in Int
    BY NetworkAssumption DEF StreamInv, MSTypeOK
  <2>3. PICK q \in Stored : last_out' = packets[q] /\ Poppable(q)
    BY <2>1, <2>2, PopEffect
  <2>4. packets[q] \in Nat /\ SeqOf(packets[q]) = q
    BY DEF OrderInv
  <2>5. q = Successor(SeqOf(last_out)) \/ packets[q] >= last_out + 1
    BY <2>2, <2>3, PoppedAhead DEF RunInv
  <2>. QED
    BY <2>2, <2>3, <2>4, <2>5
<1>. QED
  BY <1>1, StreamInit, StreamStep, OrderInit, OrderStep, RunInit, RunStep, PTL
  DEF MSSpec, OutOfOrderIsNext

\* In a stream that arrives in order, and for the first turn of its numbers, a
\* lost packet holds the delivery up until the stream is a quarter of the
\* number space further, or the buffer was empty at a push.
THEOREM GapAlwaysHolds == MSSpec => GapHoldsDelivery
<1>1. StreamInv /\ OrderInv /\ RunInv /\ [MSNext]_vars =>
        [orderly /\ WithinTurn /\ in_run /\ last_out' # last_out =>
           last_out' = last_out + 1 \/ last_out' >= last_out + LowMark]_vars
  <2> SUFFICES ASSUME StreamInv, OrderInv, RunInv, [MSNext]_vars, orderly, WithinTurn, in_run,
                      last_out' # last_out
               PROVE  last_out' = last_out + 1 \/ last_out' >= last_out + LowMark
    OBVIOUS
  <2>1. PopPacket
    BY DEF MSNext, Transmit, LoseOne, Receive, Report, vars, history, course
  <2>2. /\ JBTypeOK /\ latest \in Int /\ first \in Int /\ last_out \in Nat
        /\ min_seq \in Int /\ LowMark \in Nat
    BY NetworkAssumption, BufferAssumption, SeqModAssumption
    DEF StreamInv, MSTypeOK, JBTypeOK, SeqNums, RunInv
  <2>3. PICK q \in Stored : last_out' = packets[q] /\ Poppable(q) /\ q = min_seq
    BY <2>1, <2>2, PopEffect DEF Poppable
  <2>4. /\ packets[q] \in Nat /\ packets[q] <= latest /\ SeqOf(packets[q]) = q
        /\ first <= packets[q] /\ first \in Nat
    BY <2>2, NetworkAssumption DEF OrderInv, StreamInv, MSTypeOK
  <2>5. q = Successor(SeqOf(last_out)) \/ packets[q] >= last_out + LowMark
    BY <2>2, <2>3, PoppedAhead DEF RunInv
  <2>6. packets[q] > last_out
    <3>1. SeqOf(first) \in Int
      BY <2>4, SeqOfType, SeqModAssumption DEF SeqNums
    <3>2. packets[q] < last_out => min_seq < SeqOf(first) /\ SeqOf(first) <= q
      BY DEF OrderInv
    <3>. QED
      BY <2>2, <2>3, <2>4, <3>1, <3>2
  <2>7. ASSUME q = Successor(SeqOf(last_out)), ~(packets[q] >= last_out + LowMark)
        PROVE  packets[q] = last_out + 1
    <3>1. SeqOf(packets[q]) = SeqOf(last_out + 1)
      BY <2>2, <2>4, <2>7, NextNumber
    <3>2. PICK d \in Nat : packets[q] = last_out + 1 + d
      <4>1. PICK x, y \in Nat : x = packets[q] /\ y = last_out /\ x > y
        BY <2>2, <2>4, <2>6
      <4>2. PICK z \in Int : z = x - y - 1
        OBVIOUS
      <4>3. z \in Nat /\ x = y + 1 + z
        BY <4>1, <4>2
      <4>. QED
        BY <4>1, <4>3
    <3>3. d < LowMark /\ d < SeqMod
      BY <2>2, <2>4, <2>7, <3>2, BufferAssumption, SeqModAssumption
    <3>4. d = 0
      <4>1. PICK e \in Int : e = FirstSeq + last_out + 1
        BY <2>2, SeqOfType
      <4>2. (e + d) % SeqMod = (e + 0) % SeqMod
        <5>1. e + d = FirstSeq + packets[q] /\ e + 0 = FirstSeq + (last_out + 1)
          BY <2>2, <2>4, <3>2, <4>1, SeqOfType
        <5>. QED
          BY <3>1, <5>1 DEF SeqOf
      <4>3. d \in 0 .. SeqMod - 1 /\ 0 \in 0 .. SeqMod - 1
        BY <3>3, SeqModAssumption
      <4>. QED
        BY <4>2, <4>3, SeqModAssumption, ModCancel
    <3>. QED
      BY <2>2, <3>2, <3>4
  <2>. QED
    BY <2>3, <2>5, <2>7
<1>. QED
  BY <1>1, StreamInit, StreamStep, OrderInit, OrderStep, RunInit, RunStep, PTL
  DEF MSSpec, GapHoldsDelivery

------------------------------------------------------------------------------
(* The reports. *)

\* While the stream arrives in order and nothing was left out of the count,
\* the counters are those of the packets between the first and the newest.
ExactInv ==
  /\ (first = -1) <=> (latest = -1)
  /\ orderly /\ first # -1 => last_seq = SeqOf(latest) /\ first <= latest /\ 0 <= first
  /\ orderly /\ WithinTurn /\ skipped = 0 /\ first # -1 =>
       packets_received + packets_lost = latest - first + 1

\* After the newest packet, the gap to a later one less than a turn ahead is
\* what lies between the two.
LEMMA GapIsDistance ==
  ASSUME last_seq \in SeqNums, NEW m \in Int, last_seq = SeqOf(m),
         NEW n \in Int, n - m - 1 \in 0 .. SeqMod - 1
  PROVE  Gap(SeqOf(n)) = n - m - 1
<1>1. PICK seq \in SeqNums : seq = SeqOf(n)
  BY SeqOfType
<1>2. PICK g \in 0 .. SeqMod - 1 : g = Gap(seq) /\ (last_seq + 1 + g) % SeqMod = seq
  BY GapReaches
<1>3. PICK f \in Int : f = FirstSeq
  BY SeqOfType
<1>4. last_seq \in Int /\ last_seq = (f + m) % SeqMod /\ seq = (f + n) % SeqMod
  BY <1>1, <1>3, SeqModAssumption DEF SeqOf, SeqNums
<1>5. PICK c \in Int : c = 1 + g
  OBVIOUS
<1>6. PICK a \in Int : a = f + m
  OBVIOUS
<1>7. (a + c) % SeqMod = ((a % SeqMod) + c) % SeqMod
  BY SeqModAssumption, ModAdd, Zenon
<1>8. (a % SeqMod) + c = last_seq + 1 + g
  BY <1>4, <1>5, <1>6
<1>9. PICK e \in Int : e = f + m + 1
  OBVIOUS
<1>10. PICK d \in 0 .. SeqMod - 1 : d = n - m - 1
  OBVIOUS
<1>11. a + c = e + g /\ f + n = e + d
  BY <1>5, <1>6, <1>9, <1>10
<1>12. (e + g) % SeqMod = (e + d) % SeqMod
  BY <1>2, <1>4, <1>7, <1>8, <1>11
<1>13. g = d
  BY <1>12, SeqModAssumption, ModCancel
<1>. QED
  BY <1>1, <1>2, <1>10, <1>13

LEMMA ExactReceived ==
  ASSUME StreamInv, NothingYet, ExactInv, NEW n \in inflight, Receive(n)
  PROVE  ExactInv'
<1>0. /\ n \in 0 .. MaxSent - 1 /\ latest \in -1 .. MaxSent - 1 /\ first \in -1 .. MaxSent - 1
      /\ skipped \in Nat /\ orderly \in BOOLEAN /\ MaxSent \in Nat /\ last_seq \in SeqNums
      /\ packets_received \in Nat /\ packets_lost \in Nat
  BY NetworkAssumption DEF StreamInv, MSTypeOK, StatsTypeOK, Counters, Indices
<1>1. /\ latest' = IF n > latest THEN n ELSE latest
      /\ orderly' = (orderly /\ n > latest)
      /\ first' = IF first = -1 THEN n ELSE first
      /\ skipped' = IF first = -1 \/ CountsLoss THEN skipped ELSE skipped + Gap(SeqOf(n))
      /\ packets_received' = (packets_received + 1) % CounterMod
      /\ packets_lost' = IF CountsLoss THEN (packets_lost + Gap(SeqOf(n))) % CounterMod
                                       ELSE packets_lost
      /\ last_seq' = SeqOf(n)
  BY DEF Receive, Arrive, update_statistics
<1>2. \A x \in 0 .. SeqMod - 1 : x % CounterMod = x
  <2>1. CounterMod \in Nat \ {0} /\ SeqMod <= CounterMod
    <3>1. PICK k \in 1 .. CounterMod : CounterMod = k * SeqMod
      BY CounterAssumption
    <3>. QED
      BY <3>1, SeqModAssumption
  <2>. QED
    BY <2>1, SeqModAssumption
<1>3. (first' = -1) <=> (latest' = -1)
  BY <1>0, <1>1 DEF ExactInv
<1>4. ASSUME orderly', first' # -1
      PROVE  last_seq' = SeqOf(latest') /\ first' <= latest' /\ 0 <= first'
  <2>1. latest' = n /\ orderly /\ n > latest
    BY <1>1, <1>4
  <2>2. CASE first = -1
    BY <1>0, <1>1, <2>1, <2>2
  <2>3. CASE first # -1
    <3>1. first <= latest /\ 0 <= first /\ first' = first
      BY <1>1, <2>1, <2>3 DEF ExactInv
    <3>. QED
      BY <1>0, <1>1, <2>1, <3>1
  <2>. QED
    BY <2>2, <2>3
<1>5. ASSUME orderly', WithinTurn', skipped' = 0, first' # -1
      PROVE  packets_received' + packets_lost' = latest' - first' + 1
  <2>1. latest' = n /\ orderly /\ n > latest
    BY <1>1, <1>5
  <2>2. CASE first = -1
    <3>1. ~CountsLoss /\ packets_received = 0 /\ packets_lost = 0
      BY <2>2 DEF NothingYet, CountsLoss
    <3>2. 1 \in 0 .. SeqMod - 1
      BY <1>0, <1>1, <1>5, <2>1, <2>2, SeqModAssumption DEF WithinTurn
    <3>. QED
      BY <1>0, <1>1, <1>2, <2>1, <2>2, <3>1, <3>2
  <2>3. CASE first # -1
    <3>1. first <= latest /\ 0 <= first /\ first' = first /\ last_seq = SeqOf(latest)
      BY <1>1, <2>1, <2>3 DEF ExactInv
    <3>2. /\ n - latest - 1 \in 0 .. SeqMod - 1 /\ latest \in Int /\ n \in Int
          /\ n - first < SeqMod - 1 /\ WithinTurn
      <4>1. n - first < SeqMod - 1
        BY <1>5, <2>1, <3>1 DEF WithinTurn
      <4>. QED
        BY <1>0, <2>1, <3>1, <4>1, SeqModAssumption DEF WithinTurn
    <3>3. Gap(SeqOf(n)) = n - latest - 1
      BY <1>0, <3>1, <3>2, GapIsDistance
    <3>4. skipped = 0 /\ (~CountsLoss => n = latest + 1)
      BY <1>0, <1>1, <1>5, <2>3, <3>2, <3>3
    <3>5. packets_received + packets_lost = latest - first + 1
      BY <2>1, <2>3, <3>2, <3>4 DEF ExactInv
    <3>6. packets_received' = packets_received + 1
      <4>1. packets_received + 1 \in 0 .. SeqMod - 1
        BY <1>0, <2>1, <3>1, <3>2, <3>5, SeqModAssumption
      <4>. QED
        BY <1>1, <1>2, <4>1
    <3>7. packets_lost' = packets_lost + (n - latest - 1)
      <4>1. CASE CountsLoss
        <5>1. packets_lost + (n - latest - 1) \in 0 .. SeqMod - 1
          BY <1>0, <2>1, <3>1, <3>2, <3>5, SeqModAssumption
        <5>2. packets_lost' = (packets_lost + (n - latest - 1)) % CounterMod
          BY <1>1, <3>3, <4>1
        <5>. QED
          BY <1>2, <5>1, <5>2
      <4>2. CASE ~CountsLoss
        BY <1>0, <1>1, <3>4, <4>2
      <4>. QED
        BY <4>1, <4>2
    <3>. QED
      BY <1>0, <2>1, <3>1, <3>5, <3>6, <3>7
  <2>. QED
    BY <2>2, <2>3
<1>. QED
  BY <1>3, <1>4, <1>5 DEF ExactInv, SeqOf, WithinTurn

LEMMA ExactStep ==
  ASSUME StreamInv, NothingYet, ExactInv, [MSNext]_vars
  PROVE  ExactInv'
<1>1. UNCHANGED <<first, latest, orderly, skipped, packets_received, packets_lost, last_seq>>
        => ExactInv'
  BY DEF ExactInv, SeqOf, WithinTurn
<1>2. CASE Transmit \/ LoseOne \/ PopPacket \/ Report \/ UNCHANGED vars
  BY <1>1, <1>2 DEF Transmit, Send, LoseOne, Lose, PopPacket, Report, vars, netvars, statvars,
     counts, history, course
<1>. QED
  BY <1>2, ExactReceived DEF MSNext

\* A report made while the stream arrives in order is exact.
LEMMA ReportExactStep ==
  ASSUME StreamInv, NothingYet, ExactInv, ReportExact, [MSNext]_vars
  PROVE  ReportExact'
<1>1. CASE Report
  <2>1. /\ report'.packets_lost = packets_lost /\ report'.highest_seq = last_seq
        /\ truth'.lost = Missing
        /\ truth'.highest = IF latest = -1 THEN 0 ELSE SeqOf(latest)
        /\ UNCHANGED <<orderly, skipped, latest, first>>
    BY <1>1 DEF Report, generate_rtcp_report, netvars, course
  <2>2. latest \in Int /\ first \in Int /\ packets_received \in Int /\ packets_lost \in Int
    BY NetworkAssumption, CounterAssumption DEF StreamInv, MSTypeOK, StatsTypeOK, Counters
  <2>3. ASSUME orderly, WithinTurn, skipped = 0
        PROVE  packets_lost = Missing /\ last_seq = IF latest = -1 THEN 0 ELSE SeqOf(latest)
    <3>1. CASE first = -1
      BY <3>1 DEF NothingYet, ExactInv, Missing
    <3>2. CASE first # -1
      BY <2>2, <2>3, <3>2 DEF ExactInv, Missing
    <3>. QED
      BY <3>1, <3>2
  <2>. QED
    BY <2>1, <2>3 DEF ReportExact, WithinTurn
<1>2. CASE Unreported
  BY <1>2 DEF Unreported, NoReport, NoTruth, ReportExact
<1>3. CASE UNCHANGED vars
  BY <1>3 DEF vars, netvars, statvars, counts, history, course, ReportExact, WithinTurn
<1>. QED
  BY <1>1, <1>2, <1>3 DEF MSNext, Transmit, LoseOne, Receive, PopPacket

\* In a stream that arrives in order, and for the first turn of its numbers,
\* each receiver report names the number of packets lost before it and the
\* newest packet, unless a loss followed number 0.
THEOREM ReportsAlwaysExact == MSSpec => []ReportExact
<1>1. MSInit => NothingYet /\ ExactInv /\ ReportExact
  BY DEF MSInit, NetInit, StatsInit, NoReport, NoTruth, NothingYet, ExactInv, ReportExact
<1>2. MSInit => LossInv
  BY <1>1 DEF MSInit, LossInv, LossCongruence
<1>3. StreamInv /\ LossInv /\ [MSNext]_vars => LossInv'
  BY LossStep
<1>4. StreamInv /\ LossInv /\ ExactInv /\ [MSNext]_vars => ExactInv'
  BY ExactStep DEF LossInv
<1>5. StreamInv /\ LossInv /\ ExactInv /\ ReportExact /\ [MSNext]_vars => ReportExact'
  BY ReportExactStep DEF LossInv
<1>. QED
  BY <1>1, <1>2, <1>3, <1>4, <1>5, StreamInit, StreamStep, PTL DEF MSSpec
==============================================================================
