-------------------------- MODULE HLSSegmenterProofs --------------------------
(***************************************************************************)
(* Theorems of HLSSegmenter for every window length and every bound: the   *)
(* accounting of the numbers, the agreement of position, number and file,  *)
(* the integrity of the listed files, the permanence of a stuck prune, the  *)
(* length of the window after failed calls, the panics of the subtraction  *)
(* of time stamps, and what has become of the segments of the playlist     *)
(* last written.                                                           *)
(***************************************************************************)
EXTENDS HLSSegmenter, TLAPS

\* A bounded counter below its bound can be incremented.
LEMMA Increment ==
  ASSUME NEW m \in Nat, NEW x \in 0 .. m, x < m
  PROVE  x + 1 \in 0 .. m
  OBVIOUS

\* Creating the file of a number: the other files keep their recordings.
LEMMA CreatedFile ==
  ASSUME TypeOK, recorded < MaxRecordings
  PROVE  /\ DOMAIN Created(FileName) = DOMAIN files \cup {sequence_number}
         /\ DOMAIN Created(FileName) \subseteq Nat
         /\ Created(FileName) \in [DOMAIN Created(FileName) -> Recordings]
         /\ Created(FileName)[sequence_number] = recorded + 1
         /\ \A m \in DOMAIN files \ {sequence_number} : Created(FileName)[m] = files[m]
         /\ recorded + 1 \in Recordings
<1>1. recorded + 1 \in Recordings
  BY HLSAssumption DEF TypeOK, Recordings
<1>2. sequence_number \in Nat /\ DOMAIN files \subseteq Nat /\ files \in [DOMAIN files -> Recordings]
  BY DEF TypeOK
<1>. QED
  BY <1>1, <1>2 DEF Created, FileName

\* Deleting a file: the other files keep their recordings.
LEMMA DeletedFile ==
  ASSUME TypeOK, NEW n
  PROVE  /\ DOMAIN Deleted(n) = DOMAIN files \ {n}
         /\ DOMAIN Deleted(n) \subseteq Nat
         /\ Deleted(n) \in [DOMAIN Deleted(n) -> Recordings]
         /\ \A m \in DOMAIN files \ {n} : Deleted(n)[m] = files[m]
  BY DEF TypeOK, Deleted, Restrict

\* A timestamp given keeps the clock's type.
LEMMA GiveType ==
  ASSUME TypeOK, NEW t \in Times, Give(t)
  PROVE  now' \in Times /\ regressed' \in BOOLEAN
  BY HLSAssumption DEF TypeOK, Give, Times

\* What is known of a segment of the list.
LEMMA ListedSegment ==
  ASSUME TypeOK, NEW i \in DOMAIN segments
  PROVE  /\ segments[i] \in Segment
         /\ segments[i].file \in Nat /\ segments[i].sequence_number \in Nat
         /\ i \in 1 .. Len(segments) /\ Len(segments) \in Nat
<1>1. segments \in Seq(Segment)
  BY DEF TypeOK
<1>2. segments[i] \in Segment /\ i \in 1 .. Len(segments) /\ Len(segments) \in Nat
  BY <1>1
<1>. QED
  BY <1>2 DEF Segment

\* What is known of the open segment.
LEMMA OpenOne ==
  ASSUME TypeOK, current # <<>>
  PROVE  /\ current[1] \in OpenSegment
         /\ current[1].file \in Nat /\ current[1].start \in Times
         /\ current[1].rec \in Recordings
<1>1. current \in Seq(OpenSegment)
  BY DEF TypeOK
<1>2. current[1] \in OpenSegment
  BY <1>1
<1>. QED
  BY <1>2 DEF OpenSegment

\* What finish_segment lists.
LEMMA TakenSegment ==
  ASSUME TypeOK, current # <<>>
  PROVE  [file |-> current[1].file, sequence_number |-> sequence_number,
          rec |-> current[1].rec] \in Segment
  BY OpenOne DEF Segment, TypeOK

\* A window that is too long is not empty.
LEMMA OverfullNonempty ==
  ASSUME TypeOK, Overfull
  PROVE  segments # <<>> /\ Len(segments) \in Nat \ {0} /\ segments \in Seq(Segment)
<1>1. segments \in Seq(Segment) /\ MaxSegments \in Nat /\ Len(segments) > MaxSegments
  BY HLSAssumption DEF TypeOK, Overfull
<1>2. Len(segments) \in Nat
  BY <1>1
<1>3. Len(segments) \in Nat \ {0}
  BY <1>1, <1>2
<1>. QED
  BY <1>1, <1>3

------------------------------------------------------------------------------
LEMMA InitType == Init => TypeOK
<1> SUFFICES ASSUME Init PROVE TypeOK
  OBVIOUS
<1>1. files \in [DOMAIN files -> Recordings] /\ DOMAIN files \subseteq Nat
  BY DEF Init
<1>2. published \in [media_sequence : Nat, segments : Seq(Segment), life : 0 .. MaxRestarts]
  BY HLSAssumption DEF Init
<1>3. /\ recorded \in 0 .. MaxRecordings /\ faults \in 0 .. MaxFaults
      /\ restarts \in 0 .. MaxRestarts /\ now \in Times
  BY HLSAssumption DEF Init, Times
<1>4. current \in Seq(OpenSegment) /\ Len(current) <= 1 /\ segments \in Seq(Segment)
  BY DEF Init
<1>5. media_sequence \in Nat /\ sequence_number \in Nat /\ unfinished \in Nat
  BY DEF Init
<1>. QED
  BY <1>1, <1>2, <1>3, <1>4, <1>5 DEF Init, TypeOK

LEMMA NextType ==
  ASSUME TypeOK, [Next]_vars
  PROVE  TypeOK'
<1> USE HLSAssumption
<1>1. ASSUME NEW t \in Times, StartSegment(t)
      PROVE  TypeOK'
  <2>1. sequence_number \in Nat /\ recorded + 1 \in Recordings
    BY <1>1, CreatedFile DEF TypeOK, StartSegment
  <2>2. current' \in Seq(OpenSegment) /\ Len(current') <= 1
    BY <1>1, <2>1 DEF StartSegment, OpenSegment, FileName
  <2>3. DOMAIN files' \subseteq Nat /\ files' \in [DOMAIN files' -> Recordings]
    BY <1>1, CreatedFile DEF StartSegment
  <2>4. recorded' \in 0 .. MaxRecordings
    BY <1>1, Increment DEF StartSegment, TypeOK
  <2>. QED
    BY <1>1, <2>2, <2>3, <2>4, GiveType DEF StartSegment, TypeOK, playlist
<1>2. ASSUME NEW t \in Times, StartFails(t)
      PROVE  TypeOK'
  <2>1. DOMAIN files' \subseteq Nat /\ files' \in [DOMAIN files' -> Recordings]
    BY <1>2, CreatedFile DEF StartFails, TypeOK
  <2>2. recorded' \in 0 .. MaxRecordings /\ faults' \in 0 .. MaxFaults
    BY <1>2, Increment DEF StartFails, TypeOK
  <2>. QED
    BY <1>2, <2>1, <2>2, GiveType DEF StartFails, TypeOK, playlist
<1>3. ASSUME NEW t \in Times, CheckPanics(t)
      PROVE  TypeOK'
  BY <1>3, GiveType DEF CheckPanics, TypeOK, playlist, bookkeeping
<1>4. ASSUME NEW t \in Times, FinishPanics(t)
      PROVE  TypeOK'
  BY <1>4, GiveType DEF FinishPanics, TypeOK, playlist, bookkeeping
<1>5. ASSUME NEW t \in Times, FinishTakes(t)
      PROVE  TypeOK'
  <2>1. [file |-> current[1].file, sequence_number |-> sequence_number,
         rec |-> current[1].rec] \in Segment
    BY <1>5, TakenSegment DEF FinishTakes
  <2>2. segments' \in Seq(Segment)
    BY <1>5, <2>1 DEF FinishTakes, TypeOK
  <2>. QED
    BY <1>5, <2>2, GiveType DEF FinishTakes, TypeOK, bookkeeping
<1>6. ASSUME RemoveOld
      PROVE  TypeOK'
  <2>1. DOMAIN files' \subseteq Nat /\ files' \in [DOMAIN files' -> Recordings]
    BY <1>6, DeletedFile DEF RemoveOld
  <2>2. segments # <<>>
    BY <1>6, OverfullNonempty DEF RemoveOld
  <2>3. segments' \in Seq(Segment)
    <3>1. segments \in Seq(Segment) /\ segments' = Tail(segments)
      BY <1>6 DEF RemoveOld, Slide, TypeOK
    <3>. QED
      BY <3>1, <2>2
  <2>4. media_sequence' \in Nat
    BY <1>6 DEF RemoveOld, Slide, TypeOK
  <2>. QED
    BY <1>6, <2>1, <2>3, <2>4 DEF RemoveOld, TypeOK, bookkeeping
<1>7. ASSUME RemoveFails
      PROVE  TypeOK'
  <2>1. DOMAIN files' \subseteq Nat /\ files' \in [DOMAIN files' -> Recordings]
    BY <1>7, DeletedFile DEF RemoveFails, TypeOK
  <2>2. faults' \in 0 .. MaxFaults
    <3>1. faults \in 0 .. MaxFaults
      BY DEF TypeOK
    <3>2. CASE ~Removable /\ UNCHANGED <<files, faults>>
      BY <3>1, <3>2
    <3>3. CASE faults < MaxFaults /\ faults' = faults + 1
      BY <3>1, <3>3, Increment
    <3>. QED
      BY <1>7, <3>2, <3>3 DEF RemoveFails
  <2>3. unfinished' \in Nat
    BY <1>7 DEF RemoveFails, TypeOK
  <2>. QED
    BY <1>7, <2>1, <2>2, <2>3 DEF RemoveFails, TypeOK, playlist, bookkeeping
<1>8. ASSUME FinishDone
      PROVE  TypeOK'
  <2>1. sequence_number' \in Nat /\ pc' \in {"idle", "removing", "panicked"}
    BY <1>8 DEF FinishDone, NextNumber, TypeOK
  <2>2. UNCHANGED <<current, segments, media_sequence, files, published, recorded, unfinished,
                    faults, restarts, now, regressed>>
    BY <1>8 DEF FinishDone, playlist, bookkeeping
  <2>. QED
    BY <2>1, <2>2 DEF TypeOK
<1>9. ASSUME WritePlaylist
      PROVE  TypeOK'
  <2>1. published' \in [media_sequence : Nat, segments : Seq(Segment), life : 0 .. MaxRestarts]
    BY <1>9 DEF WritePlaylist, TypeOK
  <2>. QED
    BY <1>9, <2>1 DEF WritePlaylist, TypeOK, playlist
<1>10. ASSUME NEW n \in DOMAIN files, ForeignDeletion(n)
       PROVE  TypeOK'
  <2>1. DOMAIN files' \subseteq Nat /\ files' \in [DOMAIN files' -> Recordings]
    BY <1>10, DeletedFile DEF ForeignDeletion
  <2>2. faults' \in 0 .. MaxFaults
    BY <1>10, Increment DEF ForeignDeletion, TypeOK
  <2>. QED
    BY <1>10, <2>1, <2>2 DEF ForeignDeletion, TypeOK, playlist, bookkeeping
<1>11. ASSUME Restart
       PROVE  TypeOK'
  <2>1. restarts' \in 0 .. MaxRestarts
    BY <1>11, Increment DEF Restart, TypeOK
  <2>2. now' \in Times
    BY <1>11 DEF Restart, Times
  <2>3. current' \in Seq(OpenSegment) /\ Len(current') <= 1
    BY <1>11 DEF Restart
  <2>4. segments' \in Seq(Segment)
    BY <1>11 DEF Restart
  <2>5. media_sequence' \in Nat /\ sequence_number' \in Nat /\ unfinished' \in Nat
    BY <1>11 DEF Restart
  <2>. QED
    BY <1>11, <2>1, <2>2, <2>3, <2>4, <2>5 DEF Restart, TypeOK
<1>12. CASE UNCHANGED vars
  BY <1>12 DEF vars, TypeOK, playlist, bookkeeping
<1>. QED
  BY <1>1, <1>2, <1>3, <1>4, <1>5, <1>6, <1>7, <1>8, <1>9, <1>10, <1>11, <1>12 DEF Next

\* Type correctness of the segmenter.
THEOREM HLSTypeCorrect == Spec => []TypeOK
<1>1. Init => TypeOK
  BY InitType
<1>2. TypeOK /\ [Next]_vars => TypeOK'
  BY NextType
<1>. QED
  BY <1>1, <1>2, PTL DEF Spec

------------------------------------------------------------------------------
\* The list without its first segment.
LEMMA Shifted ==
  ASSUME TypeOK, segments # <<>>
  PROVE  /\ Len(Tail(segments)) = Len(segments) - 1
         /\ 1 \in DOMAIN segments /\ Head(segments) = segments[1]
         /\ \A i \in DOMAIN Tail(segments) :
              i \in Nat \ {0} /\ i + 1 \in DOMAIN segments /\ Tail(segments)[i] = segments[i + 1]
<1>1. segments \in Seq(Segment)
  BY DEF TypeOK
<1>2. Len(segments) \in Nat \ {0} /\ DOMAIN segments = 1 .. Len(segments)
  BY <1>1
<1>3. Len(Tail(segments)) = Len(segments) - 1
  BY <1>1
<1>4. DOMAIN Tail(segments) = 1 .. Len(segments) - 1
  BY <1>1, <1>2
<1>5. \A i \in 1 .. Len(segments) - 1 : Tail(segments)[i] = segments[i + 1]
  BY <1>1, <1>2
<1>6. \A i \in 1 .. Len(segments) - 1 : i \in Nat \ {0} /\ i + 1 \in 1 .. Len(segments)
  BY <1>2
<1>7. 1 \in DOMAIN segments /\ Head(segments) = segments[1]
  BY <1>1, <1>2
<1>. QED
  BY <1>2, <1>3, <1>4, <1>5, <1>6, <1>7

\* The list with one more segment.
LEMMA Extended ==
  ASSUME TypeOK, NEW s \in Segment
  PROVE  /\ Len(Append(segments, s)) = Len(segments) + 1
         /\ Append(segments, s) # <<>>
         /\ \A i \in DOMAIN Append(segments, s) :
              \/ i \in DOMAIN segments /\ Append(segments, s)[i] = segments[i]
              \/ i = Len(segments) + 1 /\ Append(segments, s)[i] = s
         /\ segments # <<>> => Head(Append(segments, s)) = Head(segments)
<1>1. segments \in Seq(Segment) /\ Len(segments) \in Nat /\ DOMAIN segments = 1 .. Len(segments)
  BY DEF TypeOK
<1>2. Append(segments, s) \in Seq(Segment) /\ Len(Append(segments, s)) = Len(segments) + 1
  BY <1>1
<1>3. DOMAIN Append(segments, s) = 1 .. Len(segments) + 1
  BY <1>1, <1>2
<1>4. Append(segments, s)[Len(segments) + 1] = s
  BY <1>1
<1>5. \A i \in 1 .. Len(segments) : Append(segments, s)[i] = segments[i]
  BY <1>1
<1>6. segments # <<>> => Head(Append(segments, s)) = Head(segments)
  BY <1>1, <1>2
<1>7. Append(segments, s) # <<>>
  BY <1>1, <1>2
<1>8. \A i \in 1 .. Len(segments) + 1 : i \in 1 .. Len(segments) \/ i = Len(segments) + 1
  BY <1>1
<1>. QED
  BY <1>1, <1>2, <1>3, <1>4, <1>5, <1>6, <1>7, <1>8

\* While no call failed, the listed numbers and files lie below the next number.
LEMMA ListedBelowNext ==
  ASSUME HLSInv, Clean, pc # "removing", NEW i \in DOMAIN segments
  PROVE  segments[i].file # sequence_number
<1>1. media_sequence + Len(segments) = sequence_number
  BY DEF HLSInv, TypeOK, SequenceAccounting, OpenIsNext
<1>2. segments[i].file = media_sequence + i - 1
  BY DEF HLSInv, PositionIsNumber
<1>3. i \in 1 .. Len(segments) /\ Len(segments) \in Nat /\ media_sequence \in Nat
  BY ListedSegment DEF HLSInv, TypeOK
<1>4. media_sequence + i - 1 # media_sequence + Len(segments)
  BY <1>3
<1>. QED
  BY <1>1, <1>2, <1>4

------------------------------------------------------------------------------
LEMMA NextAccounting ==
  ASSUME HLSInv, Next
  PROVE  SequenceAccounting'
<1>0. /\ media_sequence \in Nat /\ sequence_number \in Nat /\ unfinished \in Nat
      /\ Len(segments) \in Nat
  BY DEF HLSInv, TypeOK
<1> USE DEF HLSInv, SequenceAccounting
<1>1. ASSUME NEW t \in Times, StartSegment(t) \/ StartFails(t) \/ CheckPanics(t) \/ FinishPanics(t)
      PROVE  SequenceAccounting'
  BY <1>1 DEF StartSegment, StartFails, CheckPanics, FinishPanics, playlist
<1>2. ASSUME NEW t \in Times, FinishTakes(t)
      PROVE  SequenceAccounting'
  <2>1. Len(segments') = Len(segments) + 1
    BY <1>2, TakenSegment, Extended DEF FinishTakes
  <2>. QED
    BY <1>0, <1>2, <2>1 DEF FinishTakes
<1>3. ASSUME RemoveOld
      PROVE  SequenceAccounting'
  <2>1. Len(segments') = Len(segments) - 1
    BY <1>3, OverfullNonempty, Shifted DEF RemoveOld, Slide
  <2>2. media_sequence' = media_sequence + 1
    BY <1>3 DEF RemoveOld, Slide
  <2>3. media_sequence' + Len(segments') = media_sequence + Len(segments)
    BY <1>0, <2>1, <2>2
  <2>4. pc = "removing" /\ UNCHANGED <<pc, sequence_number, unfinished>>
    BY <1>3 DEF RemoveOld
  <2>. QED
    BY <1>0, <2>3, <2>4
<1>4. ASSUME RemoveFails
      PROVE  SequenceAccounting'
  BY <1>0, <1>4 DEF RemoveFails, playlist
<1>5. ASSUME FinishDone
      PROVE  SequenceAccounting'
  BY <1>0, <1>5 DEF FinishDone, NextNumber, playlist
<1>6. ASSUME WritePlaylist \/ (\E n \in DOMAIN files : ForeignDeletion(n))
      PROVE  SequenceAccounting'
  BY <1>6 DEF WritePlaylist, ForeignDeletion, playlist
<1>7. ASSUME Restart
      PROVE  SequenceAccounting'
  <2>1. Len(segments') = 0
    BY <1>7 DEF Restart
  <2>. QED
    BY <1>7, <2>1 DEF Restart
<1>. QED
  BY <1>1, <1>2, <1>3, <1>4, <1>5, <1>6, <1>7 DEF Next

\* Without faults every listed file is there, so a deletion does not fail.
LEMMA RemoveFailsFaulty ==
  ASSUME HLSInv, RemoveFails
  PROVE  ~Clean'
<1>1. CASE faults < MaxFaults /\ faults' = faults + 1
  <2>1. faults \in Nat
    BY HLSAssumption DEF HLSInv, TypeOK
  <2>. QED
    BY <1>1, <2>1 DEF Clean
<1>2. CASE ~Removable /\ UNCHANGED <<files, faults>>
  <2>1. 1 \in DOMAIN segments /\ Head(segments) = segments[1]
    BY OverfullNonempty, Shifted DEF RemoveFails, HLSInv
  <2>2. ~Clean
    BY <1>2, <2>1 DEF HLSInv, ListedFilesIntact, Intact, Removable
  <2>. QED
    BY <1>2, <2>2 DEF Clean
<1>. QED
  BY <1>1, <1>2 DEF RemoveFails

\* Faults are counted up only; the steps that are faults end without it.
LEMMA CleanBefore ==
  ASSUME HLSInv, Next, Clean'
  PROVE  /\ Clean
         /\ ~RemoveFails
         /\ \A t \in Times : ~StartFails(t)
         /\ \A n \in DOMAIN files : ~ForeignDeletion(n)
<1>1. faults \in Nat
  BY HLSAssumption DEF HLSInv, TypeOK
<1>2. ~RemoveFails
  BY RemoveFailsFaulty
<1>3. \A t \in Times : ~StartFails(t)
  BY <1>1 DEF StartFails, Clean
<1>4. \A n \in DOMAIN files : ~ForeignDeletion(n)
  BY <1>1 DEF ForeignDeletion, Clean
<1>5. UNCHANGED faults
  BY <1>2, <1>3, <1>4 DEF Next, StartSegment, CheckPanics, FinishPanics, FinishTakes,
    RemoveOld, FinishDone, WritePlaylist, Restart
<1>. QED
  BY <1>2, <1>3, <1>4, <1>5 DEF Clean

LEMMA NextOpen ==
  ASSUME HLSInv, Next
  PROVE  OpenIsNext'
<1>1. pc' = "removing" => current' = <<>>
  BY DEF HLSInv, OpenIsNext, Next, StartSegment, StartFails, CheckPanics, FinishPanics,
    FinishTakes, RemoveOld, RemoveFails, FinishDone, WritePlaylist, ForeignDeletion, Restart
<1>2. current' # <<>> => current'[1].file = sequence_number'
  BY DEF HLSInv, OpenIsNext, Next, StartSegment, StartFails, CheckPanics, FinishPanics,
    FinishTakes, RemoveOld, RemoveFails, FinishDone, WritePlaylist, ForeignDeletion, Restart,
    FileName
<1>3. ASSUME Clean'
      PROVE  unfinished' = 0 /\ (current' # <<>> => Intact(current[1])')
  <2>1. Clean /\ unfinished = 0
    BY <1>3, CleanBefore DEF HLSInv, OpenIsNext
  <2>2. unfinished' = 0
    BY <1>3, <2>1, CleanBefore DEF Next, StartSegment, CheckPanics, FinishPanics,
      FinishTakes, RemoveOld, FinishDone, WritePlaylist, Restart
  <2>3. ASSUME NEW t \in Times, StartSegment(t)
        PROVE  Intact(current[1])'
    <3>1. current'[1].file = sequence_number /\ current'[1].rec = recorded + 1
      BY <2>3 DEF StartSegment, FileName
    <3>2. sequence_number \in DOMAIN files' /\ files'[sequence_number] = recorded + 1
      BY <2>3, CreatedFile DEF StartSegment, HLSInv
    <3>. QED
      BY <3>1, <3>2 DEF Intact
  <2>4. CASE UNCHANGED <<current, files>>
    BY <2>1, <2>2, <2>4 DEF HLSInv, OpenIsNext, Intact
  <2>5. current' # <<>> => UNCHANGED <<current, files>> \/ \E t \in Times : StartSegment(t)
    BY <1>3, CleanBefore DEF Next, CheckPanics, FinishPanics, FinishTakes, RemoveOld,
      FinishDone, WritePlaylist, Restart, HLSInv, OpenIsNext, playlist, bookkeeping
  <2>. QED
    BY <2>2, <2>3, <2>4, <2>5
<1>. QED
  BY <1>1, <1>2, <1>3 DEF OpenIsNext

LEMMA NextPosition ==
  ASSUME HLSInv, Next
  PROVE  PositionIsNumber'
<1> SUFFICES ASSUME Clean', NEW i \in DOMAIN segments'
             PROVE  /\ segments'[i].sequence_number = media_sequence' + i - 1
                    /\ segments'[i].file = segments'[i].sequence_number
  BY DEF PositionIsNumber
<1>1. Clean /\ unfinished = 0 /\ media_sequence \in Nat /\ Len(segments) \in Nat
  BY CleanBefore DEF HLSInv, OpenIsNext, TypeOK
<1>2. ASSUME NEW t \in Times, FinishTakes(t)
      PROVE  /\ segments'[i].sequence_number = media_sequence' + i - 1
             /\ segments'[i].file = segments'[i].sequence_number
  <2> DEFINE s == [file |-> current[1].file, sequence_number |-> sequence_number,
                   rec |-> current[1].rec]
  <2>1. segments' = Append(segments, s) /\ s \in Segment /\ UNCHANGED media_sequence
    BY <1>2, TakenSegment DEF FinishTakes, HLSInv
  <2>2. CASE i \in DOMAIN segments /\ segments'[i] = segments[i]
    <3>1. /\ segments[i].sequence_number = media_sequence + i - 1
          /\ segments[i].file = segments[i].sequence_number
      BY <1>1, <2>2 DEF HLSInv, PositionIsNumber
    <3>. QED
      BY <2>1, <2>2, <3>1
  <2>3. CASE i = Len(segments) + 1 /\ segments'[i] = s
    <3>1. media_sequence + Len(segments) = sequence_number
      BY <1>1, <1>2 DEF HLSInv, SequenceAccounting, TypeOK, FinishTakes
    <3>2. s.file = sequence_number /\ s.sequence_number = sequence_number
      BY <1>2 DEF HLSInv, OpenIsNext, FinishTakes
    <3>3. media_sequence + i - 1 = media_sequence + Len(segments)
      BY <1>1, <2>3
    <3>. QED
      BY <2>1, <2>3, <3>1, <3>2, <3>3
  <2>4. \/ i \in DOMAIN segments /\ segments'[i] = segments[i]
        \/ i = Len(segments) + 1 /\ segments'[i] = s
    BY <2>1, Extended DEF HLSInv
  <2>. QED
    BY <2>2, <2>3, <2>4
<1>3. ASSUME RemoveOld
      PROVE  /\ segments'[i].sequence_number = media_sequence' + i - 1
             /\ segments'[i].file = segments'[i].sequence_number
  <2>1. segments' = Tail(segments) /\ media_sequence' = media_sequence + 1
    BY <1>3 DEF RemoveOld, Slide
  <2>2. i \in Nat \ {0} /\ i + 1 \in DOMAIN segments /\ segments'[i] = segments[i + 1]
    BY <1>3, <2>1, OverfullNonempty, Shifted DEF RemoveOld, HLSInv
  <2>3. /\ segments[i + 1].sequence_number = media_sequence + (i + 1) - 1
        /\ segments[i + 1].file = segments[i + 1].sequence_number
    BY <1>1, <2>2 DEF HLSInv, PositionIsNumber
  <2>4. media_sequence + (i + 1) - 1 = (media_sequence + 1) + i - 1
    BY <1>1, <2>2
  <2>. QED
    BY <2>1, <2>2, <2>3, <2>4
<1>4. CASE UNCHANGED playlist
  BY <1>1, <1>4 DEF HLSInv, PositionIsNumber, playlist
<1>5. CASE Restart
  <2>1. segments' = <<>>
    BY <1>5 DEF Restart
  <2>. QED
    BY <2>1
<1>6. \/ \E t \in Times : FinishTakes(t)
      \/ RemoveOld \/ Restart \/ UNCHANGED playlist
  BY DEF Next, StartSegment, StartFails, CheckPanics, FinishPanics, RemoveFails,
    FinishDone, WritePlaylist, ForeignDeletion
<1>. QED
  BY <1>2, <1>3, <1>4, <1>5, <1>6

LEMMA NextListed ==
  ASSUME HLSInv, Next
  PROVE  ListedFilesIntact'
<1> SUFFICES ASSUME Clean', NEW i \in DOMAIN segments'
             PROVE  Intact(segments[i])'
  BY DEF ListedFilesIntact
<1>1. Clean /\ unfinished = 0 /\ media_sequence \in Nat /\ Len(segments) \in Nat
  BY CleanBefore DEF HLSInv, OpenIsNext, TypeOK
<1>2. ASSUME NEW t \in Times, StartSegment(t)
      PROVE  Intact(segments[i])'
  <2>1. UNCHANGED segments /\ pc # "removing" /\ files' = Created(FileName)
    BY <1>2 DEF StartSegment, playlist
  <2>2. segments[i].file # sequence_number
    BY <1>1, <2>1, ListedBelowNext
  <2>3. segments[i].file \in DOMAIN files /\ files[segments[i].file] = segments[i].rec
    BY <1>1, <2>1 DEF HLSInv, ListedFilesIntact, Intact
  <2>4. segments[i].file \in DOMAIN files' /\ files'[segments[i].file] = files[segments[i].file]
    BY <1>2, <2>1, <2>2, <2>3, CreatedFile DEF StartSegment, HLSInv
  <2>. QED
    BY <2>1, <2>3, <2>4 DEF Intact
<1>3. ASSUME NEW t \in Times, FinishTakes(t)
      PROVE  Intact(segments[i])'
  <2> DEFINE s == [file |-> current[1].file, sequence_number |-> sequence_number,
                   rec |-> current[1].rec]
  <2>1. segments' = Append(segments, s) /\ s \in Segment /\ UNCHANGED files
    BY <1>3, TakenSegment DEF FinishTakes, HLSInv
  <2>2. Intact(current[1])
    BY <1>1, <1>3 DEF HLSInv, OpenIsNext, FinishTakes
  <2>3. \/ i \in DOMAIN segments /\ segments'[i] = segments[i]
        \/ i = Len(segments) + 1 /\ segments'[i] = s
    BY <2>1, Extended DEF HLSInv
  <2>. QED
    BY <1>1, <2>1, <2>2, <2>3 DEF HLSInv, ListedFilesIntact, Intact
<1>4. ASSUME RemoveOld
      PROVE  Intact(segments[i])'
  <2>1. segments' = Tail(segments) /\ files' = Deleted(Head(segments).file)
    BY <1>4 DEF RemoveOld, Slide
  <2>2. /\ i \in Nat \ {0} /\ i + 1 \in DOMAIN segments /\ segments'[i] = segments[i + 1]
        /\ 1 \in DOMAIN segments /\ Head(segments) = segments[1]
    BY <1>4, <2>1, OverfullNonempty, Shifted DEF RemoveOld, HLSInv
  <2>3. segments[i + 1].file = media_sequence + (i + 1) - 1
    BY <1>1, <2>2 DEF HLSInv, PositionIsNumber
  <2>4. segments[1].file = media_sequence + 1 - 1
    BY <1>1, <2>2 DEF HLSInv, PositionIsNumber
  <2>5. media_sequence + (i + 1) - 1 # media_sequence + 1 - 1
    BY <1>1, <2>2
  <2>6. segments[i + 1].file # Head(segments).file
    BY <2>2, <2>3, <2>4, <2>5
  <2>7. Intact(segments[i + 1])
    BY <1>1, <2>2 DEF HLSInv, ListedFilesIntact
  <2>8. /\ segments[i + 1].file \in DOMAIN files'
        /\ files'[segments[i + 1].file] = files[segments[i + 1].file]
    BY <2>1, <2>6, <2>7, DeletedFile DEF Intact, HLSInv
  <2>. QED
    BY <2>2, <2>7, <2>8 DEF Intact
<1>5. CASE UNCHANGED <<segments, files>>
  BY <1>1, <1>5 DEF HLSInv, ListedFilesIntact, Intact
<1>6. CASE Restart
  <2>1. segments' = <<>>
    BY <1>6 DEF Restart
  <2>. QED
    BY <2>1
<1>7. \/ \E t \in Times : StartSegment(t) \/ FinishTakes(t)
      \/ RemoveOld \/ Restart \/ UNCHANGED <<segments, files>>
  BY CleanBefore DEF Next, CheckPanics, FinishPanics, FinishDone, WritePlaylist, playlist
<1>. QED
  BY <1>2, <1>3, <1>4, <1>5, <1>6, <1>7

\* The inductive invariant: the numbers add up, and without faults positions,
\* numbers, file names and contents agree.
THEOREM HLSInvariant == Spec => []HLSInv
<1>1. Init => HLSInv
  <2> SUFFICES ASSUME Init PROVE HLSInv
    OBVIOUS
  <2>1. segments = <<>> /\ current = <<>> /\ Len(segments) = 0
    BY DEF Init
  <2>2. SequenceAccounting
    BY <2>1 DEF Init, SequenceAccounting
  <2>3. OpenIsNext /\ PositionIsNumber /\ ListedFilesIntact
    BY <2>1 DEF Init, OpenIsNext, PositionIsNumber, ListedFilesIntact
  <2>. QED
    BY <2>2, <2>3, InitType DEF HLSInv
<1>2. HLSInv /\ [Next]_vars => HLSInv'
  <2> SUFFICES ASSUME HLSInv, [Next]_vars PROVE HLSInv'
    OBVIOUS
  <2>1. CASE Next
    BY <2>1, NextType, NextAccounting, NextOpen, NextPosition, NextListed DEF HLSInv
  <2>2. CASE UNCHANGED vars
    <3>1. TypeOK'
      BY <2>2, NextType DEF HLSInv
    <3>. QED
      BY <2>2, <3>1 DEF HLSInv, vars, playlist, bookkeeping, SequenceAccounting, OpenIsNext,
        PositionIsNumber, ListedFilesIntact, Intact, Clean
  <2>. QED
    BY <2>1, <2>2
<1>. QED
  BY <1>1, <1>2, PTL DEF Spec

\* The media sequence number, the list and the next number of finish_segment
\* add up after any history of failed, dropped and panicked calls.
THEOREM AccountingHolds == Spec => []SequenceAccounting
<1>1. HLSInv => SequenceAccounting
  BY DEF HLSInv
<1>. QED
  BY <1>1, HLSInvariant, PTL

\* Without faults the number of a listed segment is its position's and its
\* file's.
THEOREM PositionsHold == Spec => []PositionIsNumber
<1>1. HLSInv => PositionIsNumber
  BY DEF HLSInv
<1>. QED
  BY <1>1, HLSInvariant, PTL

\* Without faults every listed file exists with the recording finished under
\* it, over any number of segmenters on one directory.
THEOREM ListedFilesHold == Spec => []ListedFilesIntact
<1>1. HLSInv => ListedFilesIntact
  BY DEF HLSInv
<1>. QED
  BY <1>1, HLSInvariant, PTL

------------------------------------------------------------------------------
\* A stuck prune outlives every step of the same segmenter.
LEMMA StuckStep ==
  ASSUME TypeOK, [Next]_vars, StuckPrune, restarts' = restarts
  PROVE  StuckPrune' /\ UNCHANGED <<sequence_number, media_sequence>>
<1>1. /\ segments # <<>> /\ Head(segments).file \notin DOMAIN files
      /\ Head(segments).file # sequence_number
      /\ Len(segments) \in Nat /\ MaxSegments \in Nat /\ restarts \in Nat
  BY HLSAssumption DEF StuckPrune, Removable, TypeOK
<1>2. pc = "removing" => Overfull
  BY DEF StuckPrune
<1>3. pc # "removing" => Len(segments) >= MaxSegments
  BY DEF StuckPrune
<1>4. Overfull => Len(segments) >= MaxSegments
  BY <1>1 DEF Overfull
<1>5. ~RemoveOld /\ ~FinishDone /\ ~Restart
  BY <1>1, <1>2 DEF RemoveOld, FinishDone, Restart, Removable
<1>6. ASSUME NEW t \in Times, FinishTakes(t)
      PROVE  StuckPrune' /\ UNCHANGED <<sequence_number, media_sequence>>
  <2>1. /\ segments' # <<>> /\ Head(segments') = Head(segments)
        /\ Len(segments') = Len(segments) + 1
    BY <1>1, <1>6, TakenSegment, Extended DEF FinishTakes
  <2>2. pc' = "removing" /\ UNCHANGED <<files, sequence_number, media_sequence>>
    BY <1>6 DEF FinishTakes
  <2>3. Len(segments) >= MaxSegments
    BY <1>3, <1>6 DEF FinishTakes
  <2>4. Len(segments') > MaxSegments
    BY <1>1, <2>1, <2>3
  <2>. QED
    BY <1>1, <2>1, <2>2, <2>4 DEF StuckPrune, Removable, Overfull
<1>7. ASSUME UNCHANGED <<playlist, sequence_number>>,
             Head(segments).file \notin DOMAIN files',
             pc' = "removing" => pc = "removing"
      PROVE  StuckPrune' /\ UNCHANGED <<sequence_number, media_sequence>>
  <2>1. UNCHANGED <<segments, sequence_number, media_sequence>>
    BY <1>7 DEF playlist
  <2>2. pc' # "removing" => Len(segments') >= MaxSegments
    BY <1>2, <1>3, <1>4, <2>1
  <2>3. pc' = "removing" => Overfull'
    BY <1>2, <1>7, <2>1 DEF Overfull
  <2>. QED
    BY <1>1, <1>7, <2>1, <2>2, <2>3 DEF StuckPrune, Removable
<1>8. ASSUME NEW t \in Times, StartSegment(t) \/ StartFails(t)
      PROVE  StuckPrune' /\ UNCHANGED <<sequence_number, media_sequence>>
  <2>1. /\ UNCHANGED <<playlist, sequence_number, pc>>
        /\ files' = Created(FileName) \/ files' = files
    BY <1>8 DEF StartSegment, StartFails
  <2>2. DOMAIN files' = DOMAIN files \cup {sequence_number} \/ files' = files
    BY <1>8, <2>1, CreatedFile DEF StartSegment, StartFails
  <2>. QED
    BY <1>1, <1>7, <2>1, <2>2
<1>9. ASSUME NEW t \in Times, CheckPanics(t) \/ FinishPanics(t)
      PROVE  StuckPrune' /\ UNCHANGED <<sequence_number, media_sequence>>
  <2>1. UNCHANGED <<playlist, sequence_number, files>> /\ pc' = "panicked"
    BY <1>9 DEF CheckPanics, FinishPanics
  <2>. QED
    BY <1>1, <1>7, <2>1
<1>10. ASSUME RemoveFails \/ WritePlaylist \/ (\E n \in DOMAIN files : ForeignDeletion(n))
       PROVE  StuckPrune' /\ UNCHANGED <<sequence_number, media_sequence>>
  <2>1. UNCHANGED <<playlist, sequence_number>> /\ (pc' = "idle" \/ pc' = pc)
    BY <1>10 DEF RemoveFails, WritePlaylist, ForeignDeletion
  <2>2. files' = files \/ \E n : files' = Deleted(n)
    BY <1>10 DEF RemoveFails, WritePlaylist, ForeignDeletion
  <2>3. DOMAIN files' \subseteq DOMAIN files
    BY <2>2, DeletedFile
  <2>. QED
    BY <1>1, <1>7, <2>1, <2>3
<1>11. CASE UNCHANGED vars
  BY <1>1, <1>7, <1>11 DEF vars, playlist
<1>. QED
  BY <1>5, <1>6, <1>8, <1>9, <1>10, <1>11 DEF Next

\* Once the oldest listed file is gone and the window is full, finish_segment
\* never numbers or unlists a segment again.
THEOREM StuckPruneLasts == Spec => StuckPruneIsPermanent
<1>1. TypeOK /\ [Next]_vars =>
        [StuckPrune /\ restarts' = restarts
           => StuckPrune' /\ UNCHANGED <<sequence_number, media_sequence>>]_vars
  BY StuckStep
<1>. QED
  BY <1>1, HLSTypeCorrect, PTL DEF Spec, StuckPruneIsPermanent

------------------------------------------------------------------------------
(* The window, the panics and the playlist last written. *)

\* The window is bounded between the calls and inside one; a segmenter that
\* panicked does nothing more.
WindowInv ==
  /\ pc = "idle" => Len(segments) <= MaxSegments + unfinished
  /\ pc = "removing" => Len(segments) <= MaxSegments + unfinished + 1

\* The clock of the model is not behind the open segment.
PanicInv ==
  /\ current # <<>> => current[1].start <= now
  /\ PanicOnlyOnRegress

\* What the playlist last written by this segmenter lists has been numbered
\* before, under the name of its file.
PublishedInv ==
  /\ published.life <= restarts
  /\ Clean /\ published.life = restarts =>
       \A i \in DOMAIN published.segments :
         /\ published.segments[i].file = published.segments[i].sequence_number
         /\ published.segments[i].sequence_number < sequence_number
  /\ PublishedLostToWindow

------------------------------------------------------------------------------
LEMMA NextWindow ==
  ASSUME TypeOK, WindowInv, [Next]_vars
  PROVE  WindowInv'
<1>0. /\ unfinished \in Nat /\ Len(segments) \in Nat /\ MaxSegments \in Nat
  BY HLSAssumption DEF TypeOK
<1> USE DEF WindowInv
<1>1. ASSUME NEW t \in Times, FinishTakes(t)
      PROVE  WindowInv'
  <2>1. Len(segments') = Len(segments) + 1
    BY <1>1, TakenSegment, Extended DEF FinishTakes
  <2>2. pc = "idle" /\ pc' = "removing" /\ unfinished' = unfinished
    BY <1>1 DEF FinishTakes
  <2>. QED
    BY <1>0, <2>1, <2>2
<1>2. CASE RemoveOld
  <2>1. Len(segments') = Len(segments) - 1
    BY <1>2, OverfullNonempty, Shifted DEF RemoveOld, Slide
  <2>2. pc = "removing" /\ pc' = "removing" /\ unfinished' = unfinished
    BY <1>2 DEF RemoveOld
  <2>. QED
    BY <1>0, <2>1, <2>2
<1>3. CASE RemoveFails
  <2>1. pc = "removing" /\ pc' = "idle" /\ unfinished' = unfinished + 1 /\ segments' = segments
    BY <1>3 DEF RemoveFails, playlist
  <2>. QED
    BY <1>0, <2>1
<1>4. CASE FinishDone
  <2>1. pc' = "idle" /\ unfinished' = unfinished /\ segments' = segments
    BY <1>4 DEF FinishDone, playlist
  <2>2. Len(segments) <= MaxSegments
    BY <1>0, <1>4 DEF FinishDone, Overfull
  <2>. QED
    BY <1>0, <2>1, <2>2
<1>5. CASE Restart
  <2>1. Len(segments') = 0 /\ pc' = "idle" /\ unfinished' = 0
    BY <1>5 DEF Restart
  <2>. QED
    BY <1>0, <2>1
<1>6. ASSUME UNCHANGED <<segments, unfinished>>, pc' = pc \/ pc' = "panicked"
      PROVE  WindowInv'
  BY <1>6
<1>7. \/ \E t \in Times : FinishTakes(t)
      \/ RemoveOld \/ RemoveFails \/ FinishDone \/ Restart
      \/ UNCHANGED <<segments, unfinished>> /\ (pc' = pc \/ pc' = "panicked")
  BY DEF Next, StartSegment, StartFails, CheckPanics, FinishPanics, WritePlaylist,
    ForeignDeletion, playlist, vars
<1>. QED
  BY <1>1, <1>2, <1>3, <1>4, <1>5, <1>6, <1>7

\* Between its calls the segmenter lists no more segments than its window and
\* one for each finish_segment that failed.
THEOREM WindowAlwaysBounded == Spec => []WindowBounded
<1>1. Init => WindowInv
  <2> SUFFICES ASSUME Init PROVE WindowInv
    OBVIOUS
  <2>1. Len(segments) = 0 /\ unfinished = 0 /\ pc = "idle"
    BY DEF Init
  <2>. QED
    BY <2>1, HLSAssumption DEF WindowInv
<1>2. TypeOK /\ WindowInv /\ [Next]_vars => WindowInv'
  BY NextWindow
<1>3. WindowInv => WindowBounded
  BY DEF WindowInv, WindowBounded
<1>. QED
  BY <1>1, <1>2, <1>3, HLSTypeCorrect, PTL DEF Spec

------------------------------------------------------------------------------
\* The clock never goes back, and notes when a caller does.
LEMMA GiveClock ==
  ASSUME TypeOK, NEW t \in Times, Give(t)
  PROVE  /\ now <= now' /\ t <= now'
         /\ regressed => regressed'
         /\ t < now => regressed'
<1>1. t \in Nat /\ now \in Nat
  BY HLSAssumption DEF TypeOK, Times
<1>2. now' = IF t > now THEN t ELSE now
  BY DEF Give
<1>3. now <= now' /\ t <= now'
  BY <1>1, <1>2
<1>4. (regressed => regressed') /\ (t < now => regressed')
  BY Zenon DEF Give
<1>. QED
  BY <1>3, <1>4

LEMMA NextPanic ==
  ASSUME TypeOK, PanicInv, [Next]_vars
  PROVE  PanicInv'
<1>0. now \in Nat /\ (current # <<>> => current[1].start \in Nat)
  <2>1. now \in Times /\ (current # <<>> => current[1] \in OpenSegment)
    BY OpenOne DEF TypeOK
  <2>. QED
    BY <2>1, HLSAssumption DEF Times, OpenSegment
<1> USE DEF PanicInv, PanicOnlyOnRegress
<1>1. ASSUME NEW t \in Times, StartSegment(t)
      PROVE  PanicInv'
  <2>1. current'[1].start = t /\ pc' = "idle"
    BY <1>1 DEF StartSegment
  <2>2. t <= now'
    BY <1>1, GiveClock DEF StartSegment
  <2>. QED
    BY <2>1, <2>2
<1>2. ASSUME NEW t \in Times, CheckPanics(t) \/ FinishPanics(t)
      PROVE  PanicInv'
  <2>1. Give(t) /\ current # <<>> /\ t < current[1].start
    BY <1>2 DEF CheckPanics, FinishPanics, SubtractionPanics
  <2>2. t \in Nat
    BY HLSAssumption DEF Times
  <2>3. t < now
    BY <1>0, <2>1, <2>2
  <2>4. regressed' /\ now <= now'
    BY <2>1, <2>3, GiveClock
  <2>5. now' \in Nat
    BY <2>1, GiveType, HLSAssumption DEF Times
  <2>6. current' # <<>> => current'[1].start <= now'
    BY <1>0, <1>2, <2>4, <2>5 DEF CheckPanics, FinishPanics
  <2>. QED
    BY <2>4, <2>6
<1>3. ASSUME NEW t \in Times, StartFails(t) \/ FinishTakes(t)
      PROVE  PanicInv'
  <2>1. Give(t) /\ pc' # "panicked" /\ (current' = current \/ current' = <<>>)
    BY <1>3 DEF StartFails, FinishTakes
  <2>2. now <= now' /\ now' \in Nat
    BY <2>1, GiveClock, GiveType, HLSAssumption DEF Times
  <2>. QED
    BY <1>0, <2>1, <2>2
<1>4. CASE UNCHANGED <<current, now, regressed>> /\ (pc' = pc \/ pc' = "idle")
  BY <1>4
<1>5. CASE current' = <<>> /\ pc' = "idle"
  BY <1>5
<1>6. \/ \E t \in Times : \/ StartSegment(t) \/ CheckPanics(t) \/ FinishPanics(t)
                          \/ StartFails(t) \/ FinishTakes(t)
      \/ UNCHANGED <<current, now, regressed>> /\ (pc' = pc \/ pc' = "idle")
      \/ current' = <<>> /\ pc' = "idle"
  BY DEF Next, RemoveOld, RemoveFails, FinishDone, WritePlaylist, ForeignDeletion, Restart, vars
<1>. QED
  BY <1>1, <1>2, <1>3, <1>4, <1>5, <1>6

\* The subtractions of finish_segment and should_start_new_segment panic only
\* when a caller gave a time stamp smaller than an earlier one.
THEOREM PanicsComeFromRegress == Spec => []PanicOnlyOnRegress
<1>1. Init => PanicInv
  BY DEF Init, PanicInv, PanicOnlyOnRegress
<1>2. TypeOK /\ PanicInv /\ [Next]_vars => PanicInv'
  BY NextPanic
<1>3. PanicInv => PanicOnlyOnRegress
  BY DEF PanicInv
<1>. QED
  BY <1>1, <1>2, <1>3, HLSTypeCorrect, PTL DEF Spec

------------------------------------------------------------------------------
\* What is known of a segment of the playlist last written.
LEMMA PublishedSegment ==
  ASSUME TypeOK
  PROVE  /\ published.life \in Nat /\ restarts \in Nat
         /\ \A i \in DOMAIN published.segments :
              /\ published.segments[i].file \in Nat
              /\ published.segments[i].sequence_number \in Nat
<1>1. published.segments \in Seq(Segment) /\ published.life \in Nat /\ restarts \in Nat
  BY HLSAssumption DEF TypeOK
<1>2. \A i \in DOMAIN published.segments : published.segments[i] \in Segment
  BY <1>1
<1>. QED
  BY <1>1, <1>2 DEF Segment

LEMMA NextPublished ==
  ASSUME HLSInv, PublishedInv, [Next]_vars
  PROVE  PublishedInv'
<1>0. TypeOK /\ media_sequence \in Nat /\ sequence_number \in Nat
  BY DEF HLSInv, TypeOK
<1> USE DEF PublishedInv
<1>1. CASE Restart
  <2>1. published' = published /\ restarts' = restarts + 1
    BY <1>1 DEF Restart
  <2>2. published'.life < restarts'
    BY <1>0, <2>1, PublishedSegment
  <2>. QED
    BY <1>0, <2>1, <2>2, PublishedSegment DEF PublishedLostToWindow
<1>2. CASE WritePlaylist
  <2>1. /\ pc = "idle" /\ UNCHANGED <<sequence_number, restarts, faults, files, media_sequence>>
        /\ published'.segments = segments /\ published'.life = restarts
    BY <1>2 DEF WritePlaylist, playlist
  <2>2. published'.life <= restarts'
    BY <1>0, <2>1, PublishedSegment
  <2>3. ASSUME Clean', NEW i \in DOMAIN segments
        PROVE  /\ Intact(segments[i])
               /\ segments[i].file = segments[i].sequence_number
               /\ segments[i].sequence_number < sequence_number
    <3>1. Clean
      BY <2>1, <2>3 DEF Clean
    <3>2. Intact(segments[i]) /\ segments[i].file = segments[i].sequence_number
      BY <3>1, <2>3 DEF HLSInv, ListedFilesIntact, PositionIsNumber
    <3>3. segments[i].sequence_number = media_sequence + i - 1
      BY <3>1, <2>3 DEF HLSInv, PositionIsNumber
    <3>4. media_sequence + Len(segments) = sequence_number
      BY <1>0, <2>1, <3>1 DEF HLSInv, SequenceAccounting, OpenIsNext
    <3>5. i \in 1 .. Len(segments) /\ Len(segments) \in Nat
      BY <1>0, <2>3, ListedSegment
    <3>. QED
      BY <1>0, <3>2, <3>3, <3>4, <3>5
  <2>4. ASSUME Clean', NEW i \in DOMAIN segments
        PROVE  Intact(segments[i])'
    BY <2>1, <2>3, <2>4, <1>2 DEF Intact, WritePlaylist, playlist
  <2>5. ASSUME Clean', NEW i \in DOMAIN published'.segments
        PROVE  Intact(published.segments[i])'
    BY <2>1, <2>3, <2>5 DEF Intact
  <2>. QED
    BY <2>1, <2>2, <2>3, <2>5 DEF PublishedLostToWindow
<1>3. ASSUME UNCHANGED <<published, restarts>>, Clean' => Clean,
             Clean' => UNCHANGED <<files, sequence_number, media_sequence>>
      PROVE  PublishedInv'
  BY <1>3 DEF PublishedLostToWindow, Intact
<1>4. CASE FinishDone
  <2>1. UNCHANGED <<published, restarts, files, faults, media_sequence>> /\ sequence_number' = sequence_number + 1
    BY <1>4 DEF FinishDone, NextNumber, bookkeeping, playlist
  <2>2. \A k \in Nat : k < sequence_number => k < sequence_number + 1
    BY <1>0
  <2>3. Clean' <=> Clean
    BY <2>1 DEF Clean
  <2>. QED
    BY <1>0, <2>1, <2>2, <2>3, PublishedSegment DEF PublishedLostToWindow, Intact
<1>5. CASE RemoveOld
  <2>1. /\ UNCHANGED <<published, restarts, sequence_number, faults>>
        /\ files' = Deleted(Head(segments).file) /\ media_sequence' = media_sequence + 1
    BY <1>5 DEF RemoveOld, bookkeeping, Slide
  <2>2. Clean' <=> Clean
    BY <2>1 DEF Clean
  <2>3. 1 \in DOMAIN segments /\ Head(segments) = segments[1]
    BY <1>0, <1>5, OverfullNonempty, Shifted DEF RemoveOld
  <2>4. Clean => Head(segments).file = media_sequence
    BY <1>0, <2>3 DEF HLSInv, PositionIsNumber
  <2>5. \A k \in Nat : k < media_sequence => k < media_sequence + 1
    BY <1>0
  <2>6. ASSUME Clean, published.life = restarts, NEW i \in DOMAIN published.segments
        PROVE  \/ /\ published.segments[i].file \in DOMAIN files'
                  /\ files'[published.segments[i].file] = published.segments[i].rec
               \/ published.segments[i].sequence_number < media_sequence + 1
    <3>1. CASE published.segments[i].file = media_sequence
      BY <1>0, <2>6, <3>1
    <3>2. CASE published.segments[i].file # media_sequence /\ Intact(published.segments[i])
      BY <1>0, <2>1, <2>4, <2>6, <3>2, DeletedFile DEF Intact
    <3>3. CASE published.segments[i].sequence_number < media_sequence
      BY <1>0, <2>5, <2>6, <3>3, PublishedSegment
    <3>. QED
      BY <2>6, <3>1, <3>2, <3>3 DEF PublishedLostToWindow
  <2>. QED
    BY <2>1, <2>2, <2>6 DEF PublishedLostToWindow, Intact
<1>6. ASSUME NEW t \in Times, StartSegment(t)
      PROVE  PublishedInv'
  <2>1. /\ UNCHANGED <<published, restarts, sequence_number, faults, media_sequence>>
        /\ files' = Created(FileName)
    BY <1>6 DEF StartSegment, playlist
  <2>2. Clean' <=> Clean
    BY <2>1 DEF Clean
  <2>3. /\ DOMAIN files' = DOMAIN files \cup {sequence_number}
        /\ \A m \in DOMAIN files \ {sequence_number} : files'[m] = files[m]
    BY <1>0, <1>6, <2>1, CreatedFile DEF StartSegment
  <2>4. ASSUME Clean, published.life = restarts, NEW i \in DOMAIN published.segments,
               Intact(published.segments[i])
        PROVE  /\ published.segments[i].file \in DOMAIN files'
               /\ files'[published.segments[i].file] = published.segments[i].rec
    <3>1. published.segments[i].file # sequence_number
      BY <1>0, <2>4, PublishedSegment
    <3>. QED
      BY <2>3, <2>4, <3>1 DEF Intact
  <2>. QED
    BY <2>1, <2>2, <2>4 DEF PublishedLostToWindow, Intact
<1>7. ASSUME Next, Clean'
      PROVE  Clean /\ ~RemoveFails /\ (\A t \in Times : ~StartFails(t))
               /\ (\A n \in DOMAIN files : ~ForeignDeletion(n))
  BY <1>7, CleanBefore
<1>8. ASSUME NEW t \in Times, CheckPanics(t) \/ FinishPanics(t) \/ FinishTakes(t)
      PROVE  PublishedInv'
  <2>1. UNCHANGED <<published, restarts, files, sequence_number, media_sequence, faults>>
    BY <1>8 DEF CheckPanics, FinishPanics, FinishTakes, playlist, bookkeeping
  <2>. QED
    BY <1>3, <2>1 DEF Clean
<1>9. ASSUME RemoveFails \/ (\E t \in Times : StartFails(t)) \/ (\E n \in DOMAIN files : ForeignDeletion(n))
      PROVE  PublishedInv'
  <2>1. Next
    BY <1>9 DEF Next
  <2>2. ~Clean'
    BY <1>7, <1>9, <2>1
  <2>3. UNCHANGED <<published, restarts>>
    BY <1>9 DEF RemoveFails, StartFails, ForeignDeletion, bookkeeping
  <2>. QED
    BY <1>3, <2>2, <2>3
<1>10. CASE UNCHANGED vars
  <2>1. UNCHANGED <<published, restarts, files, sequence_number, media_sequence, faults>>
    BY <1>10 DEF vars, playlist, bookkeeping
  <2>. QED
    BY <1>3, <2>1 DEF Clean
<1>. QED
  BY <1>1, <1>2, <1>4, <1>5, <1>6, <1>8, <1>9, <1>10 DEF Next

\* Without faults, a segment that the playlist last written offers has its
\* file, with the recording finished under it, until it has left the window.
THEOREM PublishedKept == Spec => []PublishedLostToWindow
<1>1. Init => PublishedInv
  BY DEF Init, PublishedInv, PublishedLostToWindow
<1>2. HLSInv /\ PublishedInv /\ [Next]_vars => PublishedInv'
  BY NextPublished
<1>3. PublishedInv => PublishedLostToWindow
  BY DEF PublishedInv
<1>. QED
  BY <1>1, <1>2, <1>3, HLSInvariant, PTL DEF Spec

==============================================================================
