----------------------------- MODULE HLSSegmenter -----------------------------
(***************************************************************************)
(* HLSSegmenter of format/ts/hls.rs: it numbers segments, creates their    *)
(* files, keeps a sliding window of them in the playlist and deletes those *)
(* that leave it.  Every await of finish_segment is a step, because the    *)
(* call can fail there, its future can be dropped there, and other         *)
(* programs can touch the directory meanwhile.  A file name is its number  *)
(* (prefix_<number>.ts); the contents of a file is the recording written   *)
(* to it.                                                                  *)
(***************************************************************************)
EXTENDS Integers, Sequences, Functions

CONSTANTS
  MaxSegments,     \* max_segments: length of the window
  MaxTime,         \* bound of the model: greatest timestamp
  MaxRecordings,   \* bound of the model: files created
  MaxFaults,       \* bound of the model: failed calls and foreign deletions
  MaxRestarts      \* bound of the model: segmenters made over one directory

ASSUME HLSAssumption ==
  /\ MaxSegments \in Nat
  /\ MaxTime \in Nat /\ MaxRecordings \in Nat
  /\ MaxFaults \in Nat /\ MaxRestarts \in Nat

VARIABLES
  current,          \* current_segment: <<>> or one open segment
  segments,         \* playlist.segments
  media_sequence,   \* playlist.media_sequence
  sequence_number,  \* number of the next segment to finish
  pc,               \* "idle", "removing" inside finish_segment, or "panicked"
  files,            \* the directory: numbers of existing files to recordings
  published,        \* the playlist as last written, and by which segmenter
  recorded,         \* recordings begun so far
  unfinished,       \* finish_segment calls of this segmenter that failed
  faults,           \* failed calls and foreign deletions so far
  restarts,         \* segmenters made before this one
  now,              \* greatest timestamp given so far
  regressed         \* a timestamp smaller than an earlier one was given

vars == <<current, segments, media_sequence, sequence_number, pc, files,
          published, recorded, unfinished, faults, restarts, now, regressed>>

playlist == <<segments, media_sequence>>
bookkeeping == <<published, recorded, restarts>>

Times == 0 .. MaxTime
Recordings == 1 .. MaxRecordings
OpenSegment == [file : Nat, start : Times, rec : Recordings]
Segment == [file : Nat, sequence_number : Nat, rec : Recordings]

TypeOK ==
  /\ current \in Seq(OpenSegment) /\ Len(current) <= 1
  /\ segments \in Seq(Segment)
  /\ media_sequence \in Nat /\ sequence_number \in Nat
  /\ pc \in {"idle", "removing", "panicked"}
  /\ DOMAIN files \subseteq Nat
  /\ files \in [DOMAIN files -> Recordings]
  /\ published \in [media_sequence : Nat, segments : Seq(Segment), life : 0 .. MaxRestarts]
  /\ recorded \in 0 .. MaxRecordings /\ unfinished \in Nat
  /\ faults \in 0 .. MaxFaults /\ restarts \in 0 .. MaxRestarts
  /\ now \in Times /\ regressed \in BOOLEAN

------------------------------------------------------------------------------
(* Helpers; a mutated form precedes the operator it alters. *)

Give(t) ==
  /\ now' = IF t > now THEN t ELSE now
  /\ regressed' = (regressed \/ t < now)

Created(n) == [m \in DOMAIN files \cup {n} |-> IF m = n THEN recorded + 1 ELSE files[m]]
Deleted(n) == Restrict(files, DOMAIN files \ {n})

\* The window is allowed to hold one segment more.
OverfullLate == Len(segments) > MaxSegments + 1

Overfull == Len(segments) > MaxSegments

\* The file is named after the number before.
NameBehind == sequence_number - 1

FileName == sequence_number

\* The time is compared the wrong way round.
PanicsReversed(t) == t > current[1].start

\* Subtracting a later Duration from an earlier one panics.
SubtractionPanics(t) == t < current[1].start

\* A missing file is taken for a deleted one.
RemovableAlways == TRUE

Removable == Head(segments).file \in DOMAIN files

------------------------------------------------------------------------------
Init ==
  /\ current = <<>> /\ segments = <<>>
  /\ media_sequence = 0 /\ sequence_number = 0
  /\ pc = "idle"
  /\ files = [n \in {} |-> 0]
  /\ published = [media_sequence |-> 0, segments |-> <<>>, life |-> 0]
  /\ recorded = 0 /\ unfinished = 0 /\ faults = 0 /\ restarts = 0
  /\ now = 0 /\ regressed = FALSE

\* start_segment creates (or truncates) the file of the next number; an open
\* segment is replaced without being listed.
StartSegment(t) ==
  /\ pc = "idle" /\ recorded < MaxRecordings
  /\ files' = Created(FileName)
  /\ recorded' = recorded + 1
  /\ current' = <<[file |-> FileName, start |-> t, rec |-> recorded + 1]>>
  /\ Give(t)
  /\ UNCHANGED <<playlist, sequence_number, pc, published, unfinished, faults, restarts>>

\* The creation fails, or the call is dropped after the file was truncated.
StartFails(t) ==
  /\ pc = "idle" /\ recorded < MaxRecordings /\ faults < MaxFaults
  /\ \/ UNCHANGED <<files, recorded>>
     \/ files' = Created(FileName) /\ recorded' = recorded + 1
  /\ faults' = faults + 1
  /\ Give(t)
  /\ UNCHANGED <<current, playlist, sequence_number, pc, published, unfinished, restarts>>

\* should_start_new_segment panics on a time before the segment's start;
\* otherwise it changes nothing, and the caller here may begin a segment at
\* any time whatever it answers.
CheckPanics(t) ==
  /\ pc = "idle" /\ current # <<>> /\ SubtractionPanics(t)
  /\ pc' = "panicked"
  /\ Give(t)
  /\ UNCHANGED <<current, playlist, sequence_number, files, bookkeeping, unfinished, faults>>

\* finish_segment computes the duration after it has taken the segment.
FinishPanics(t) ==
  /\ pc = "idle" /\ current # <<>> /\ SubtractionPanics(t)
  /\ current' = <<>>
  /\ pc' = "panicked"
  /\ Give(t)
  /\ UNCHANGED <<playlist, sequence_number, files, bookkeeping, unfinished, faults>>

\* finish_segment up to its first await: the segment is listed.
FinishTakes(t) ==
  /\ pc = "idle" /\ current # <<>> /\ ~SubtractionPanics(t)
  /\ current' = <<>>
  /\ segments' = Append(segments, [file |-> current[1].file,
                                   sequence_number |-> sequence_number,
                                   rec |-> current[1].rec])
  /\ pc' = "removing"
  /\ Give(t)
  /\ UNCHANGED <<media_sequence, sequence_number, files, bookkeeping, unfinished, faults>>

\* The first number is moved although nothing left the list.
SlideNumberOnly == media_sequence' = media_sequence + 1 /\ UNCHANGED segments

\* The list is cut but the number of its first segment is not moved.
SlideListOnly == segments' = Tail(segments) /\ UNCHANGED media_sequence

Slide == segments' = Tail(segments) /\ media_sequence' = media_sequence + 1

\* The oldest segment's file is deleted, then the segment is unlisted.
RemoveOld ==
  /\ pc = "removing" /\ Overfull
  /\ Removable
  /\ files' = Deleted(Head(segments).file)
  /\ Slide
  /\ UNCHANGED <<current, sequence_number, pc, bookkeeping, unfinished, faults, now, regressed>>

\* The deletion fails, always so when the file is missing, or the call is
\* dropped while the deletion runs on: the call ends with the segment listed
\* and its number not used up.
RemoveFails ==
  /\ pc = "removing" /\ Overfull
  /\ \/ ~Removable /\ UNCHANGED <<files, faults>>
     \/ /\ faults < MaxFaults
        /\ files' \in {files, Deleted(Head(segments).file)}
        /\ faults' = faults + 1
  /\ pc' = "idle"
  /\ unfinished' = unfinished + 1
  /\ UNCHANGED <<current, playlist, sequence_number, bookkeeping, now, regressed>>

\* The next number is not used up.
NumberKept == sequence_number

NextNumber == sequence_number + 1

FinishDone ==
  /\ pc = "removing" /\ ~Overfull
  /\ sequence_number' = NextNumber
  /\ pc' = "idle"
  /\ UNCHANGED <<current, playlist, files, bookkeeping, unfinished, faults, now, regressed>>

WritePlaylist ==
  /\ pc = "idle"
  /\ published' = [media_sequence |-> media_sequence, segments |-> segments, life |-> restarts]
  /\ UNCHANGED <<current, playlist, sequence_number, pc, files, recorded,
                 unfinished, faults, restarts, now, regressed>>

\* Another program, or an operator, deletes a file of the directory.
ForeignDeletion(n) ==
  /\ faults < MaxFaults
  /\ files' = Deleted(n)
  /\ faults' = faults + 1
  /\ UNCHANGED <<current, playlist, sequence_number, pc, bookkeeping, unfinished, now, regressed>>

\* The program (re)starts, or its reconnect code makes a new segmenter over
\* the same directory: numbers begin at 0 again, the files stay.
Restart ==
  /\ restarts < MaxRestarts
  /\ restarts' = restarts + 1
  /\ current' = <<>> /\ segments' = <<>>
  /\ media_sequence' = 0 /\ sequence_number' = 0
  /\ pc' = "idle" /\ unfinished' = 0
  /\ now' = 0 /\ regressed' = FALSE
  /\ UNCHANGED <<files, published, recorded, faults>>

Next ==
  \/ \E t \in Times : StartSegment(t) \/ StartFails(t)
  \/ \E t \in Times : CheckPanics(t) \/ FinishPanics(t) \/ FinishTakes(t)
  \/ RemoveOld
  \/ RemoveFails
  \/ FinishDone
  \/ WritePlaylist
  \/ \E n \in DOMAIN files : ForeignDeletion(n)
  \/ Restart

Spec == Init /\ [][Next]_vars

------------------------------------------------------------------------------
(* Properties. *)

\* The numbers of the playlist add up after any history of failed, dropped and
\* panicked calls: what left the window and what is in it are the segments
\* numbered so far, plus one for each finish_segment that failed after it had
\* listed its segment, plus the one being finished.
SequenceAccounting ==
  media_sequence + Len(segments) =
    sequence_number + unfinished + (IF pc = "removing" THEN 1 ELSE 0)

\* Between calls the list exceeds the window by failed calls only.
WindowBounded ==
  pc = "idle" => Len(segments) <= MaxSegments + unfinished

\* No call failed and nothing outside touched the directory.
Clean == faults = 0

Intact(seg) == seg.file \in DOMAIN files /\ files[seg.file] = seg.rec

\* Without faults every listed segment's file exists and holds the recording
\* that was finished under it, even when segments are restarted, the window
\* is empty, or a new segmenter writes over the files of an older one.
ListedFilesIntact ==
  Clean => \A i \in DOMAIN segments : Intact(segments[i])

\* Without faults the number a client derives from a segment's position in the
\* playlist is the number it was given and the number in its file name.
PositionIsNumber ==
  Clean => \A i \in DOMAIN segments :
             /\ segments[i].sequence_number = media_sequence + i - 1
             /\ segments[i].file = segments[i].sequence_number

\* The open segment's file carries the next number, and none is open while
\* finish_segment runs; without faults no number was lost and the open file
\* holds the open segment's recording.  With the properties above this is
\* inductive.
OpenIsNext ==
  /\ pc = "removing" => current = <<>>
  /\ current # <<>> => current[1].file = sequence_number
  /\ Clean => unfinished = 0 /\ (current # <<>> => Intact(current[1]))

HLSInv == TypeOK /\ SequenceAccounting /\ OpenIsNext /\ PositionIsNumber /\ ListedFilesIntact

\* Without faults a segment that the last written playlist offers can only be
\* gone because it has left the window since: its number is below the first.
PublishedLostToWindow ==
  Clean /\ published.life = restarts =>
    \A i \in DOMAIN published.segments :
      \/ Intact(published.segments[i])
      \/ published.segments[i].sequence_number < media_sequence

\* finish_segment and should_start_new_segment panic only when the caller's
\* timestamps go back.
PanicOnlyOnRegress == pc = "panicked" => regressed

\* The oldest segment's file is gone, the next segment will not recreate it,
\* and the window is full, so finish_segment must delete it.
StuckPrune ==
  /\ segments # <<>>
  /\ Head(segments).file \notin DOMAIN files
  /\ Head(segments).file # sequence_number
  /\ IF pc = "removing" THEN Overfull ELSE Len(segments) >= MaxSegments

\* From then on no segment is ever numbered or leaves the window: each
\* finish_segment fails and lengthens the list.
StuckPruneIsPermanent ==
  [][StuckPrune /\ restarts' = restarts
       => StuckPrune' /\ UNCHANGED <<sequence_number, media_sequence>>]_vars

\* The comment on media_sequence: it is the number of the first segment.
MediaSequenceIsFirst ==
  pc = "idle" /\ segments # <<>> => media_sequence = Head(segments).sequence_number
==============================================================================
