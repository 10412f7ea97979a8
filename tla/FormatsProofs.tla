---------------------------- MODULE FormatsProofs ----------------------------
(***************************************************************************)
(* What holds of the formats side by side: of ADTS files, by an invariant  *)
(* of the file and of the demuxer's place in it, and of datagrams, for any *)
(* number of contributing sources and of report blocks, any sizes and any  *)
(* padding bytes; then of every behaviour of Formats.                      *)
(***************************************************************************)
EXTENDS Formats, CodecProofs, TSTablesProofs, Remainders, SequenceTheorems

------------------------------------------------------------------------------
(* ADTS files. *)

Cell == [head : Nat, at : Nat, length : Nat]

CellOf(h, i, l) == [head |-> h, at |-> i, length |-> l]

\* The cells fr of frame j as the demuxer should give them: a packet of the muxer
\* with its header, the raw bytes of another's frame.
FrameIs(who, j, fr) ==
  IF who = "foreign" THEN \A i \in 1 .. Len(fr) : fr[i] = CellOf(0, i, 2 * j - 1)
  ELSE /\ Len(fr) > ADTSHeader
       /\ \A i \in 1 .. ADTSHeader : fr[i] = CellOf(2 * j, i, Len(fr) % LengthMod)
       /\ \A i \in 1 .. Len(fr) - ADTSHeader : fr[ADTSHeader + i] = CellOf(0, i, 2 * j)

\* Frame j with a header before it, from a to b in the file f.
LiesAt(f, j, a, b, fr) ==
  /\ Len(fr) > 0 /\ b = a + ADTSHeader + Len(fr)
  /\ \A i \in 1 .. ADTSHeader :
       f[a + i] = CellOf(2 * j - 1, i, (ADTSHeader + Len(fr)) % LengthMod)
  /\ \A i \in 1 .. Len(fr) : f[a + ADTSHeader + i] = fr[i]

\* Another's file has a header only where a frame begins.
HeadsBegin(f, n, e) ==
  \A q \in 1 .. Len(f) :
    f[q].head > 0 /\ f[q].at = 1 => \E j \in 1 .. n : q = e[j - 1] + 1

\* Frame j of fs ends at e[j].
Layout(who, f, fs, e) ==
  /\ e \in [0 .. Len(fs) -> Nat] /\ e[0] = 0 /\ e[Len(fs)] = Len(f)
  /\ \A j \in 1 .. Len(fs) : LiesAt(f, j, e[j - 1], e[j], fs[j])
  /\ \A j \in 1 .. Len(fs) : FrameIs(who, j, fs[j])
  /\ \A j, k \in 0 .. Len(fs) : j < k => e[j] < e[k]
  /\ who = "foreign" => HeadsBegin(f, Len(fs), e)

RawOf(fr) == IF fr[1].head = 0 THEN fr ELSE SubSeq(fr, ADTSHeader + 1, Len(fr))

IsFrame(who, p, fs, x, j) ==
  x = fs[j] \/ (j = 1 /\ p /\ who = "muxer" /\ x = RawOf(fs[1]))

\* What has been given lies before the place pl, and in order.
GivenBefore(who, p, fs, g, pl, e) ==
  /\ \A i \in 1 .. Len(g) : \E j \in 1 .. Len(fs) : IsFrame(who, p, fs, g[i], j) /\ e[j] <= pl
  /\ \A i, k \in 1 .. Len(g), a, b \in 1 .. Len(fs) :
       i < k /\ IsFrame(who, p, fs, g[i], a) /\ IsFrame(who, p, fs, g[k], b) => a < b

\* All that lies before the place has been given, unless streams() has read into
\* another's file; in one of the muxer it reads the header before the first packet.
GivenAll(who, p, fs, g, pl, e) ==
  who # "foreign" \/ ~p =>
    /\ Len(g) <= Len(fs)
    /\ pl = e[Len(g)] \/ (g = <<>> /\ p /\ fs # <<>> /\ pl = ADTSHeader)

ParsedFrom ==
  /\ config.known => \E j \in 1 .. Len(frames) : config.frame = RawOf(frames[j])
  /\ rate # 12 => pts = Len(given)
  /\ given = <<>> => config = NoConfig

FilesT == file \in Seq(Cell) /\ frames \in Seq(Seq(Cell))

ReaderT ==
  /\ given \in Seq(Seq(Cell)) /\ place \in Nat /\ place <= Len(file) /\ probed \in BOOLEAN
  /\ rate \in Rates /\ writer \in {"open", "muxer", "foreign", "short_packet"}
  /\ writer = "open" => frames = <<>>
  /\ ~Reading => place = 0 /\ ~probed /\ given = <<>>

Fit(fs) == \A j \in 1 .. Len(fs) : Len(fs[j]) + ADTSHeader < LengthMod

ADTSInv ==
  /\ FilesT
  /\ Fit(frames) =>
       /\ ReaderT /\ ParsedFrom
       /\ \E e : /\ Layout(writer, file, frames, e)
                 /\ GivenBefore(writer, probed, frames, given, place, e)
                 /\ GivenAll(writer, probed, frames, given, place, e)

------------------------------------------------------------------------------
\* The cells of a header, of raw bytes, and of a packet of both.
LEMMA HeaderIs ==
  ASSUME NEW h \in Nat, NEW l \in Nat
  PROVE  /\ HeaderCells(h, l) \in Seq(Cell) /\ Len(HeaderCells(h, l)) = ADTSHeader
         /\ \A i \in 1 .. ADTSHeader : HeaderCells(h, l)[i] = CellOf(h, i, l % LengthMod)
<1>1. ADTSHeader \in Nat /\ l % LengthMod \in Nat
  BY ADTSAssumption
<1>2. \A i \in 1 .. ADTSHeader : CellOf(h, i, l % LengthMod) \in Cell
  BY <1>1 DEF Cell, CellOf
<1>. QED
  BY <1>1, <1>2 DEF HeaderCells, CellOf

LEMMA RawIs ==
  ASSUME NEW h \in Nat, NEW n \in Nat
  PROVE  /\ RawCells(h, n) \in Seq(Cell) /\ Len(RawCells(h, n)) = n
         /\ \A i \in 1 .. n : RawCells(h, n)[i] = CellOf(0, i, h)
<1>1. \A i \in 1 .. n : CellOf(0, i, h) \in Cell
  BY DEF Cell, CellOf
<1>. QED
  BY <1>1 DEF RawCells, CellOf

\* A sequence behind another.
LEMMA Continued ==
  ASSUME NEW S, NEW s \in Seq(S), NEW t \in Seq(S)
  PROVE  /\ s \o t \in Seq(S) /\ Len(s \o t) = Len(s) + Len(t)
         /\ \A i \in 1 .. Len(s) : (s \o t)[i] = s[i]
         /\ \A i \in 1 .. Len(t) : (s \o t)[Len(s) + i] = t[i]
<1>1. Len(s) \in Nat /\ Len(t) \in Nat
  BY LenProperties
<1>. QED
  BY <1>1, ConcatProperties

LEMMA PacketIs ==
  ASSUME NEW h \in Nat, NEW n \in Nat
  PROVE  /\ Packet(h, n) \in Seq(Cell) /\ Len(Packet(h, n)) = ADTSHeader + n
         /\ \A i \in 1 .. ADTSHeader :
              Packet(h, n)[i] = CellOf(h, i, (ADTSHeader + n) % LengthMod)
         /\ \A i \in 1 .. n : Packet(h, n)[ADTSHeader + i] = CellOf(0, i, h)
<1>1. ADTSHeader + n \in Nat
  BY ADTSAssumption
<1>2. PICK s \in Seq(Cell) : /\ s = HeaderCells(h, ADTSHeader + n) /\ Len(s) = ADTSHeader
                             /\ \A i \in 1 .. ADTSHeader : s[i] = CellOf(h, i, (ADTSHeader + n) % LengthMod)
  BY <1>1, HeaderIs
<1>3. PICK t \in Seq(Cell) : /\ t = RawCells(h, n) /\ Len(t) = n
                             /\ \A i \in 1 .. n : t[i] = CellOf(0, i, h)
  BY RawIs
<1>4. Packet(h, n) = s \o t
  BY <1>2, <1>3 DEF Packet
<1>5. /\ s \o t \in Seq(Cell) /\ Len(s \o t) = Len(s) + Len(t)
      /\ \A i \in 1 .. Len(s) : (s \o t)[i] = s[i]
      /\ \A i \in 1 .. Len(t) : (s \o t)[Len(s) + i] = t[i]
  BY Continued
<1>. QED
  BY <1>2, <1>3, <1>4, <1>5

\* A piece of a sequence that has the elements of another is that other.
LEMMA PieceIs ==
  ASSUME NEW S, NEW s \in Seq(S), NEW t \in Seq(S), NEW a \in Nat, a + Len(t) <= Len(s),
         \A i \in 1 .. Len(t) : s[a + i] = t[i]
  PROVE  SubSeq(s, a + 1, a + Len(t)) = t
<1>1. PICK n \in Nat : n = Len(t)
  BY LenProperties
<1>2. PICK m \in Nat : m = Len(s) /\ \A i \in 1 .. m : s[i] \in S
  BY LenProperties, ElementOfSeq
<1>3. \A i \in a + 1 .. a + n : s[i] \in S
  BY <1>1, <1>2
<1>4. a + 1 \in Int /\ a + n \in Int
  OBVIOUS
<1>5. PICK u : u = SubSeq(s, a + 1, a + n)
  OBVIOUS
<1>6. /\ u \in Seq(S) /\ Len(u) = (IF a + 1 <= a + n THEN (a + n) - (a + 1) + 1 ELSE 0)
      /\ \A i \in 1 .. (a + n) - (a + 1) + 1 : u[i] = s[(a + 1) + i - 1]
  BY <1>3, <1>4, <1>5, SubSeqProperties
<1>7. Len(u) = n
  BY <1>6
<1>8. \A i \in 1 .. n : u[i] = t[i]
  BY <1>1, <1>6
<1>. QED
  BY <1>1, <1>5, <1>6, <1>7, <1>8, SeqEqual

\* A frame more.
LEMMA LayoutGrows ==
  ASSUME NEW f \in Seq(Cell), NEW fs \in Seq(Seq(Cell)), NEW e, NEW was, NEW who,
         Layout(was, f, fs, e), was = who \/ fs = <<>>,
         NEW w \in Seq(Cell), NEW fr \in Seq(Cell), NEW n, n = Len(fs) + 1,
         LiesAt(w, n, 0, Len(w), fr), FrameIs(who, n, fr),
         who = "foreign" => \A q \in 1 .. Len(w) : w[q].head > 0 /\ w[q].at = 1 => q = 1
  PROVE  \E e2 : Layout(who, f \o w, Append(fs, fr), e2)
<1>1. PICK N \in Nat, L \in Nat, K \in Nat : N = Len(fs) /\ L = Len(f) /\ K = Len(w)
  BY LenProperties
<1>2. PICK H \in Nat \ {0} : H = ADTSHeader
  BY ADTSAssumption
<1>3. PICK f2 \in Seq(Cell) : /\ f2 = f \o w /\ Len(f2) = L + K
                              /\ \A i \in 1 .. L : f2[i] = f[i]
                              /\ \A i \in 1 .. K : f2[L + i] = w[i]
  <2>1. /\ f \o w \in Seq(Cell) /\ Len(f \o w) = Len(f) + Len(w)
        /\ \A i \in 1 .. Len(f) : (f \o w)[i] = f[i]
        /\ \A i \in 1 .. Len(w) : (f \o w)[Len(f) + i] = w[i]
    BY Continued
  <2>. QED
    BY <1>1, <2>1
<1>4. PICK fs2 \in Seq(Seq(Cell)) : /\ fs2 = Append(fs, fr) /\ Len(fs2) = N + 1
                                    /\ \A j \in 1 .. N : fs2[j] = fs[j]
                                    /\ fs2[N + 1] = fr
  <2>1. /\ Append(fs, fr) \in Seq(Seq(Cell)) /\ Len(Append(fs, fr)) = Len(fs) + 1
        /\ \A j \in 1 .. Len(fs) : Append(fs, fr)[j] = fs[j]
        /\ Append(fs, fr)[Len(fs) + 1] = fr
    BY AppendProperties
  <2>. QED
    BY <1>1, <2>1
<1>5. PICK e2 : /\ e2 = [j \in 0 .. N + 1 |-> IF j = N + 1 THEN L + K ELSE e[j]]
                /\ e2 \in [0 .. N + 1 -> Nat]
                /\ e2[N + 1] = L + K /\ \A j \in 0 .. N : e2[j] = e[j]
  <2>1. \A j \in 0 .. N : e[j] \in Nat
    BY <1>1 DEF Layout
  <2>2. PICK e2 : e2 = [j \in 0 .. N + 1 |-> IF j = N + 1 THEN L + K ELSE e[j]]
    OBVIOUS
  <2>3. ASSUME NEW j \in 0 .. N + 1
        PROVE  (IF j = N + 1 THEN L + K ELSE e[j]) \in Nat
    <3>1. CASE j = N + 1
      BY <3>1
    <3>2. CASE j # N + 1
      <4>1. j \in 0 .. N
        BY <3>2
      <4>. QED
        BY <2>1, <3>2, <4>1
    <3>. QED
      BY <3>1, <3>2
  <2>4. e2 \in [0 .. N + 1 -> Nat]
    BY <2>2, <2>3
  <2>5. N + 1 \in 0 .. N + 1 /\ \A j \in 0 .. N : j \in 0 .. N + 1 /\ j # N + 1
    OBVIOUS
  <2>6. e2[N + 1] = L + K /\ \A j \in 0 .. N : e2[j] = e[j]
    BY <2>2, <2>5
  <2>. QED
    BY <2>2, <2>4, <2>6
<1>6. PICK M \in Nat \ {0} : M = Len(fr) /\ K = H + M
  <2>1. Len(fr) \in Nat
    BY LenProperties
  <2>. QED
    BY <1>1, <1>2, <2>1 DEF LiesAt
<1>7. /\ e[0] = 0 /\ e[N] = L /\ \A j \in 0 .. N : e[j] \in Nat
      /\ \A j, k \in 0 .. N : j < k => e[j] < e[k]
  BY <1>1 DEF Layout
<1>8. \A j \in 0 .. N : e[j] <= L
  <2> SUFFICES ASSUME NEW j \in 0 .. N PROVE e[j] <= L
    OBVIOUS
  <2>1. CASE j = N
    BY <1>7, <2>1
  <2>2. CASE j # N
    <3>1. j < N /\ N \in 0 .. N
      BY <2>2
    <3>2. e[j] < e[N] /\ e[j] \in Nat
      BY <1>7, <3>1
    <3>. QED
      BY <1>7, <3>2
  <2>. QED
    BY <2>1, <2>2
<1>9. \A j, k \in 0 .. N + 1 : j < k => e2[j] < e2[k]
  <2> SUFFICES ASSUME NEW j \in 0 .. N + 1, NEW k \in 0 .. N + 1, j < k
               PROVE  e2[j] < e2[k]
    OBVIOUS
  <2>1. j \in 0 .. N
    OBVIOUS
  <2>2. e2[j] = e[j] /\ e[j] \in Nat /\ e[j] <= L
    BY <1>5, <1>7, <1>8, <2>1
  <2>3. CASE k = N + 1
    BY <1>5, <1>6, <2>2, <2>3, SMTT(30)
  <2>4. CASE k # N + 1
    <3>1. k \in 0 .. N
      BY <2>4
    <3>. QED
      BY <1>5, <1>7, <2>1, <2>2, <3>1
  <2>. QED
    BY <2>3, <2>4
<1>10. ASSUME NEW j \in 1 .. N + 1 PROVE LiesAt(f2, j, e2[j - 1], e2[j], fs2[j])
  <2>1. CASE j = N + 1
    <3>1. e2[j - 1] = L /\ e2[j] = L + K /\ fs2[j] = fr
      BY <1>4, <1>5, <1>7, <2>1, SMTT(30)
    <3>2. \A i \in 1 .. H : f2[L + i] = CellOf(2 * j - 1, i, (ADTSHeader + Len(fr)) % LengthMod)
      <4>1. \A i \in 1 .. H : w[0 + i] = CellOf(2 * n - 1, i, (ADTSHeader + Len(fr)) % LengthMod)
        BY <1>2 DEF LiesAt
      <4>2. n = j
        BY <1>1, <2>1
      <4>3. \A i \in 1 .. H : 0 + i = i /\ i \in 1 .. K
        BY <1>6
      <4>. QED
        BY <1>3, <4>1, <4>2, <4>3
    <3>3. \A i \in 1 .. M : f2[L + H + i] = fr[i]
      <4>1. \A i \in 1 .. M : w[0 + H + i] = fr[i]
        BY <1>2, <1>6 DEF LiesAt
      <4> SUFFICES ASSUME NEW i \in 1 .. M PROVE f2[L + H + i] = fr[i]
        OBVIOUS
      <4>2. PICK h \in 1 .. K : h = H + i /\ 0 + H + i = h /\ L + H + i = L + h
        <5>1. H + i \in 1 .. K
          BY <1>6
        <5>. QED
          BY <5>1
      <4>. QED
        BY <1>3, <4>1, <4>2
    <3>4. L + K = L + H + M /\ M > 0
      BY <1>1, <1>2, <1>6
    <3>. QED
      BY <1>2, <1>6, <3>1, <3>2, <3>3, <3>4 DEF LiesAt
  <2>2. CASE j # N + 1
    <3>1. j \in 1 .. N /\ j - 1 \in 0 .. N /\ j \in 0 .. N
      <4>1. N \in Nat /\ j \in 1 .. N + 1
        BY <1>1
      <4>2. j \in 1 .. N
        BY <2>2, <4>1
      <4>. QED
        BY <4>1, <4>2
    <3>2. e2[j - 1] = e[j - 1] /\ e2[j] = e[j] /\ fs2[j] = fs[j]
      BY <1>4, <1>5, <3>1
    <3>3. LiesAt(f, j, e[j - 1], e[j], fs[j])
      BY <1>1, <3>1 DEF Layout
    <3>4. PICK a \in Nat, b \in Nat, m \in Nat : a = e[j - 1] /\ b = e[j] /\ m = Len(fs[j]) /\ b <= L
      <4>1. fs[j] \in Seq(Cell)
        BY <1>1, <3>1, ElementOfSeq
      <4>. QED
        BY <1>7, <1>8, <3>1, <4>1, LenProperties
    <3>5. b = a + H + m
      BY <1>2, <3>3, <3>4 DEF LiesAt
    <3>9. a \in Nat /\ H \in Nat /\ m \in Nat /\ L \in Nat /\ a + H + m <= L
      BY <1>1, <1>2, <3>4, <3>5
    <3>6. \A i \in 1 .. H : f2[a + i] = f[a + i]
      <4>1. \A i \in 1 .. H : a + i \in 1 .. L
        BY <3>9, SMTT(30)
      <4>. QED
        BY <1>3, <4>1
    <3>7. \A i \in 1 .. m : f2[a + H + i] = f[a + H + i]
      <4> SUFFICES ASSUME NEW i \in 1 .. m PROVE f2[a + H + i] = f[a + H + i]
        OBVIOUS
      <4>1. a + H + i \in 1 .. L
        BY <3>9
      <4>. QED
        BY <1>3, <4>1
    <3>8. /\ m > 0 /\ b = a + H + m
          /\ \A i \in 1 .. H : f2[a + i] = CellOf(2 * j - 1, i, (ADTSHeader + m) % LengthMod)
          /\ \A i \in 1 .. m : f2[a + H + i] = fs[j][i]
      <4>1. m > 0 /\ b = a + H + m
        BY <1>2, <3>3, <3>4 DEF LiesAt
      <4>2. \A i \in 1 .. H : f2[a + i] = CellOf(2 * j - 1, i, (ADTSHeader + m) % LengthMod)
        BY <1>2, <3>3, <3>4, <3>6 DEF LiesAt
      <4>3. \A i \in 1 .. m : f2[a + H + i] = fs[j][i]
        BY <1>2, <3>3, <3>4, <3>7 DEF LiesAt
      <4>. QED
        BY <4>1, <4>2, <4>3
    <3>. QED
      BY <1>2, <3>2, <3>4, <3>8 DEF LiesAt
  <2>. QED
    BY <2>1, <2>2
<1>11. ASSUME NEW j \in 1 .. N + 1 PROVE FrameIs(who, j, fs2[j])
  <2>1. CASE j = N + 1
    BY <1>1, <1>4, <2>1
  <2>2. CASE j # N + 1
    <3>1. j \in 1 .. N /\ fs # <<>>
      <4>1. j \in 1 .. N
        BY <2>2
      <4>. QED
        BY <1>1, <4>1
    <3>2. FrameIs(who, j, fs[j])
      BY <1>1, <3>1 DEF Layout
    <3>. QED
      BY <1>4, <3>1, <3>2
  <2>. QED
    BY <2>1, <2>2
<1>12. ASSUME who = "foreign" PROVE HeadsBegin(f2, N + 1, e2)
  <2> SUFFICES ASSUME NEW q \in 1 .. L + K, f2[q].head > 0, f2[q].at = 1
               PROVE  \E j \in 1 .. N + 1 : q = e2[j - 1] + 1
    BY <1>3 DEF HeadsBegin
  <2>1. CASE q <= L
    <3>1. q \in 1 .. L /\ f2[q] = f[q] /\ fs # <<>>
      <4>1. q \in 1 .. L
        BY <2>1
      <4>2. fs # <<>>
        <5>1. N # 0
          BY <1>7, <4>1
        <5>. QED
          BY <1>1, <5>1
      <4>. QED
        BY <1>3, <4>1, <4>2
    <3>2. HeadsBegin(f, N, e)
      BY <1>1, <1>12, <3>1 DEF Layout
    <3>3. PICK j \in 1 .. N : q = e[j - 1] + 1
      BY <1>1, <3>1, <3>2 DEF HeadsBegin
    <3>4. j - 1 \in 0 .. N /\ j \in 1 .. N + 1
      OBVIOUS
    <3>. QED
      BY <1>5, <3>3, <3>4
  <2>2. CASE q > L
    <3>1. PICK i \in 1 .. K : q = L + i
      <4>1. q - L \in 1 .. K /\ q = L + (q - L)
        BY <2>2, SMTT(30)
      <4>. QED
        BY <4>1
    <3>2. i = 1
      BY <1>1, <1>3, <1>12, <3>1
    <3>3. q = e2[(N + 1) - 1] + 1
      <4>1. (N + 1) - 1 = N /\ N \in 0 .. N
        OBVIOUS
      <4>. QED
        BY <1>5, <1>7, <3>1, <3>2, <4>1
    <3>4. N + 1 \in 1 .. N + 1
      OBVIOUS
    <3>. QED
      BY <3>3, <3>4
  <2>. QED
    BY <2>1, <2>2
<1>13. Layout(who, f2, fs2, e2)
  <2>1. e2[0] = 0 /\ Len(fs2) = N + 1 /\ e2[N + 1] = Len(f2)
    BY <1>3, <1>4, <1>5, <1>7
  <2>. QED
    BY <1>5, <1>9, <1>10, <1>11, <1>12, <2>1 DEF Layout
<1>. QED
  BY <1>3, <1>4, <1>13

\* The first cell of a frame tells which it is, and so does that of its raw bytes.
BeginsAs(who, j, fr) ==
  /\ fr \in Seq(Cell) /\ Len(fr) \in Nat \ {0}
  /\ who = "foreign" => fr[1] = CellOf(0, 1, 2 * j - 1) /\ RawOf(fr) = fr
  /\ who # "foreign" =>
       /\ Len(fr) > ADTSHeader
       /\ fr[1] = CellOf(2 * j, 1, Len(fr) % LengthMod)
       /\ RawOf(fr) = SubSeq(fr, ADTSHeader + 1, Len(fr))
       /\ RawOf(fr) \in Seq(Cell) /\ Len(RawOf(fr)) = Len(fr) - ADTSHeader
       /\ RawOf(fr)[1] = CellOf(0, 1, 2 * j)

LEMMA FirstCell ==
  ASSUME NEW who, NEW f, NEW fs \in Seq(Seq(Cell)), NEW e, Layout(who, f, fs, e),
         NEW j \in 1 .. Len(fs)
  PROVE  BeginsAs(who, j, fs[j])
<1>1. PICK H \in Nat \ {0} : H = ADTSHeader
  BY ADTSAssumption
<1>2. PICK fr \in Seq(Cell) : fr = fs[j]
  BY ElementOfSeq
<1>3. PICK M \in Nat \ {0} : M = Len(fr)
  <2>1. LiesAt(f, j, e[j - 1], e[j], fs[j])
    BY DEF Layout
  <2>2. Len(fr) > 0 /\ Len(fr) \in Nat
    BY <1>2, <2>1, LenProperties DEF LiesAt
  <2>. QED
    BY <2>2
<1>4. FrameIs(who, j, fr)
  BY <1>2 DEF Layout
<1>5. j \in Nat /\ j >= 1
  <2>1. Len(fs) \in Nat
    BY LenProperties
  <2>. QED
    BY <2>1
<1>6. ASSUME who = "foreign" PROVE fr[1] = CellOf(0, 1, 2 * j - 1) /\ RawOf(fr) = fr
  <2>1. 1 \in 1 .. M
    BY <1>3
  <2>2. fr[1] = CellOf(0, 1, 2 * j - 1)
    BY <1>3, <1>4, <1>6, <2>1 DEF FrameIs
  <2>. QED
    BY <2>2 DEF RawOf, CellOf
<1>7. ASSUME who # "foreign"
      PROVE  /\ M > H /\ fr[1] = CellOf(2 * j, 1, M % LengthMod)
             /\ RawOf(fr) = SubSeq(fr, H + 1, M)
             /\ RawOf(fr) \in Seq(Cell) /\ Len(RawOf(fr)) = M - H
             /\ RawOf(fr)[1] = CellOf(0, 1, 2 * j)
  <2>1. M > H /\ 1 \in 1 .. H /\ 1 \in 1 .. M - H
    <3>1. M > H
      BY <1>1, <1>3, <1>4, <1>7 DEF FrameIs
    <3>. QED
      BY <1>1, <1>3, <3>1
  <2>2. fr[1] = CellOf(2 * j, 1, M % LengthMod) /\ fr[H + 1] = CellOf(0, 1, 2 * j)
    BY <1>1, <1>3, <1>4, <1>7, <2>1 DEF FrameIs
  <2>3. fr[1].head # 0
    BY <1>5, <2>2 DEF CellOf
  <2>4. RawOf(fr) = SubSeq(fr, H + 1, M)
    BY <1>1, <1>3, <2>3 DEF RawOf
  <2>5. \A i \in H + 1 .. M : fr[i] \in Cell
    <3>1. \A i \in 1 .. M : fr[i] \in Cell
      BY <1>3, ElementOfSeq
    <3>2. \A i \in H + 1 .. M : i \in 1 .. M
      BY <1>1, <1>3
    <3>. QED
      BY <3>1, <3>2
  <2>6. PICK u : u = SubSeq(fr, H + 1, M)
    OBVIOUS
  <2>7. H + 1 \in Int /\ M \in Int
    BY <1>1, <1>3
  <2>8. /\ u \in Seq(Cell) /\ Len(u) = (IF H + 1 <= M THEN M - (H + 1) + 1 ELSE 0)
        /\ \A i \in 1 .. M - (H + 1) + 1 : u[i] = fr[(H + 1) + i - 1]
    BY <2>5, <2>6, <2>7, SubSeqProperties
  <2>9. Len(u) = M - H /\ u[1] = fr[H + 1]
    <3>1. H + 1 <= M /\ 1 \in 1 .. M - (H + 1) + 1 /\ (H + 1) + 1 - 1 = H + 1
          /\ M - (H + 1) + 1 = M - H
      BY <1>1, <1>3, <2>1
    <3>. QED
      BY <2>8, <3>1
  <2>. QED
    BY <2>1, <2>2, <2>4, <2>6, <2>8, <2>9
<1>. QED
  BY <1>1, <1>2, <1>3, <1>6, <1>7 DEF BeginsAs

LEMMA FramesDiffer ==
  ASSUME NEW who, NEW p, NEW f, NEW fs \in Seq(Seq(Cell)), NEW e, Layout(who, f, fs, e),
         NEW x, NEW a \in 1 .. Len(fs), NEW b \in 1 .. Len(fs),
         IsFrame(who, p, fs, x, a), IsFrame(who, p, fs, x, b)
  PROVE  a = b
<1>1. a \in Nat /\ b \in Nat /\ a >= 1 /\ b >= 1
  <2>1. Len(fs) \in Nat
    BY LenProperties
  <2>. QED
    BY <2>1
<1>4. \A j \in 1 .. Len(fs) : BeginsAs(who, j, fs[j])
  BY FirstCell, Zenon
<1>2. ASSUME fs[a] = fs[b] PROVE a = b
  <2>1. CASE who = "foreign"
    <3>1. CellOf(0, 1, 2 * a - 1) = CellOf(0, 1, 2 * b - 1)
      BY <1>2, <2>1, <1>4 DEF BeginsAs
    <3>2. 2 * a - 1 = 2 * b - 1
      BY <3>1 DEF CellOf
    <3>. QED
      BY <1>1, <3>2
  <2>2. CASE who # "foreign"
    <3>1. CellOf(2 * a, 1, Len(fs[a]) % LengthMod) = CellOf(2 * b, 1, Len(fs[b]) % LengthMod)
      BY <1>2, <2>2, <1>4 DEF BeginsAs
    <3>2. 2 * a = 2 * b
      BY <3>1 DEF CellOf
    <3>. QED
      BY <1>1, <3>2
  <2>. QED
    BY <2>1, <2>2
<1>3. ASSUME who = "muxer", NEW c \in 1 .. Len(fs), 1 \in 1 .. Len(fs), fs[c] = RawOf(fs[1])
      PROVE  FALSE
  <2>1. CellOf(2 * c, 1, Len(fs[c]) % LengthMod) = CellOf(0, 1, 2 * 1)
    <3>1. who # "foreign" /\ BeginsAs(who, c, fs[c]) /\ BeginsAs(who, 1, fs[1])
      BY <1>3, <1>4
    <3>2. fs[c][1] = CellOf(2 * c, 1, Len(fs[c]) % LengthMod)
      BY ONLY <3>1, Zenon DEF BeginsAs
    <3>3. RawOf(fs[1])[1] = CellOf(0, 1, 2 * 1)
      BY ONLY <3>1, Zenon DEF BeginsAs
    <3>. QED
      BY ONLY <1>3, <3>2, <3>3, Zenon
  <2>2. 2 * c = 0
    BY <2>1 DEF CellOf
  <2>3. Len(fs) \in Nat
    BY LenProperties
  <2>. QED
    BY <2>2, <2>3
<1>. QED
  BY <1>2, <1>3 DEF IsFrame

\* A length that fits its field stays.
LEMMA InField ==
  ASSUME NEW x \in Nat, x < LengthMod
  PROVE  x % LengthMod = x
<1>1. PICK m \in Nat \ {0} : m = LengthMod
  BY ADTSAssumption
<1>. QED
  BY <1>1

------------------------------------------------------------------------------
\* A header at the place pl, and the frame behind it up to b.
HasHeader(f, pl) == pl + ADTSHeader <= Len(f) /\ f[pl + 1].head > 0 /\ f[pl + 1].at = 1

Takes(f, pl, x, b) ==
  /\ HasHeader(f, pl) /\ f[pl + 1].length >= ADTSHeader
  /\ b = pl + f[pl + 1].length /\ b <= Len(f)
  /\ x = SubSeq(f, pl + ADTSHeader + 1, b)

LEMMA HeaderAt ==
  ASSUME NEW f \in Seq(Cell), NEW pl \in Nat, pl < Len(f)
  PROVE  /\ parse_adts_header(Slice(f, pl + 1, ADTSHeader)).ok <=> HasHeader(f, pl)
         /\ parse_adts_header(Slice(f, pl + 1, ADTSHeader)).length = f[pl + 1].length
         /\ f[pl + 1].length \in Nat
<1>1. PICK H \in Nat \ {0}, L \in Nat : H = ADTSHeader /\ L = Len(f) /\ pl < L
  BY ADTSAssumption, LenProperties
<1>2. PICK n \in Nat : n = (IF pl + H <= L THEN pl + H ELSE L) /\ pl + 1 <= n /\ n <= L
  BY <1>1
<1>3. PICK u : u = Slice(f, pl + 1, H)
  OBVIOUS
<1>4. u = SubSeq(f, pl + 1, n)
  <2>1. pl + 1 + H - 1 = pl + H
    BY <1>1
  <2>. QED
    BY <1>1, <1>2, <1>3, <2>1 DEF Slice
<1>5. \A i \in pl + 1 .. n : f[i] \in Cell
  <2>1. \A i \in 1 .. L : f[i] \in Cell
    BY <1>1, ElementOfSeq
  <2>. QED
    BY <1>1, <1>2, <2>1
<1>6. pl + 1 \in Int /\ n \in Int
  BY <1>2
<1>7. /\ u \in Seq(Cell) /\ Len(u) = (IF pl + 1 <= n THEN n - (pl + 1) + 1 ELSE 0)
      /\ \A i \in 1 .. n - (pl + 1) + 1 : u[i] = f[(pl + 1) + i - 1]
  BY <1>4, <1>5, <1>6, SubSeqProperties
<1>8. Len(u) = n - pl /\ u[1] = f[pl + 1]
  <2>1. pl + 1 <= n /\ 1 \in 1 .. n - (pl + 1) + 1 /\ (pl + 1) + 1 - 1 = pl + 1
        /\ n - (pl + 1) + 1 = n - pl
    BY <1>2
  <2>. QED
    BY <1>7, <2>1
<1>9. u # <<>>
  <2>1. Len(u) # 0
    BY <1>2, <1>8
  <2>. QED
    BY <2>1
<1>10. Len(u) = H <=> pl + H <= L
  BY <1>1, <1>2, <1>8
<1>11. f[pl + 1].length \in Nat
  <2>1. pl + 1 \in pl + 1 .. n
    BY <1>2
  <2>. QED
    BY <1>5, <2>1 DEF Cell
<1>12. PICK ok, l : /\ ok \in BOOLEAN /\ ok = (Len(u) = H /\ u[1].head > 0 /\ u[1].at = 1)
                    /\ l = u[1].length
  OBVIOUS
<1>13. parse_adts_header(u) = [ok |-> ok, length |-> l]
  BY <1>1, <1>9, <1>12 DEF parse_adts_header
<1>14. parse_adts_header(u).ok = ok /\ parse_adts_header(u).length = l
  BY <1>13
<1>. QED
  BY <1>1, <1>3, <1>8, <1>10, <1>11, <1>12, <1>14 DEF HasHeader

\* Frame j is taken where it begins.
LEMMA FrameTaken ==
  ASSUME NEW who, NEW f \in Seq(Cell), NEW fs \in Seq(Seq(Cell)), NEW e, Layout(who, f, fs, e),
         Fit(fs), NEW j \in 1 .. Len(fs)
  PROVE  Takes(f, e[j - 1], fs[j], e[j])
<1>1. PICK H \in Nat \ {0}, L \in Nat, N \in Nat :
        H = ADTSHeader /\ L = Len(f) /\ N = Len(fs) /\ j \in 1 .. N
  BY ADTSAssumption, LenProperties
<1>2. PICK fr \in Seq(Cell), M \in Nat : fr = fs[j] /\ M = Len(fr)
  BY ElementOfSeq, LenProperties
<1>3. PICK a \in Nat, b \in Nat : a = e[j - 1] /\ b = e[j]
  <2>1. j - 1 \in 0 .. N /\ j \in 0 .. N
    BY <1>1
  <2>. QED
    BY <1>1, <2>1 DEF Layout
<1>4. b <= L
  <2>1. CASE j = N
    BY <1>1, <1>3, <2>1 DEF Layout
  <2>2. CASE j # N
    <3>1. j \in 0 .. N /\ N \in 0 .. N /\ j < N
      BY <1>1, <2>2
    <3>2. e[j] < e[N] /\ e[N] = L
      BY <1>1, <3>1 DEF Layout
    <3>. QED
      BY <1>1, <1>3, <3>2
  <2>. QED
    BY <2>1, <2>2
<1>5. /\ M > 0 /\ b = a + H + M
      /\ \A i \in 1 .. H : f[a + i] = CellOf(2 * j - 1, i, (H + M) % LengthMod)
      /\ \A i \in 1 .. M : f[a + H + i] = fr[i]
  BY <1>1, <1>2, <1>3 DEF Layout, LiesAt
<1>6. (H + M) % LengthMod = H + M
  <2>1. H + M \in Nat /\ H + M < LengthMod
    BY <1>1, <1>2 DEF Fit
  <2>. QED
    BY <2>1, InField
<1>7. f[a + 1].head > 0 /\ f[a + 1].at = 1 /\ f[a + 1].length = H + M
  <2>1. 1 \in 1 .. H /\ 2 * j - 1 > 0
    BY <1>1
  <2>. QED
    <3>1. f[a + 1] = CellOf(2 * j - 1, 1, H + M)
      BY <1>5, <1>6, <2>1
    <3>. QED
      BY <2>1, <3>1 DEF CellOf
<1>8. SubSeq(f, a + H + 1, b) = fr
  <2>1. PICK c \in Nat : c = a + H
    BY <1>1
  <2>2. c + M <= L /\ b = c + M /\ \A i \in 1 .. M : f[c + i] = fr[i]
    BY <1>1, <1>4, <1>5, <2>1
  <2>3. SubSeq(f, c + 1, c + Len(fr)) = fr
    BY <1>1, <1>2, <2>2, PieceIs
  <2>. QED
    BY <1>2, <2>1, <2>2, <2>3
<1>9. a + H <= L /\ H + M >= H /\ b = a + (H + M)
  BY <1>1, <1>4, <1>5
<1>. QED
  BY <1>1, <1>2, <1>3, <1>4, <1>7, <1>8, <1>9 DEF Takes, HasHeader

\* Behind the first header of the muxer its packet's own is taken for it.
LEMMA FirstTaken ==
  ASSUME NEW who, NEW f \in Seq(Cell), NEW fs \in Seq(Seq(Cell)), NEW e, Layout(who, f, fs, e),
         Fit(fs), who # "foreign", fs # <<>>
  PROVE  Takes(f, ADTSHeader, RawOf(fs[1]), e[1])
<1>1. 1 \in 1 .. Len(fs) /\ 1 - 1 = 0
  BY LenProperties, EmptySeq
<1>2. PICK H \in Nat \ {0}, L \in Nat : H = ADTSHeader /\ L = Len(f)
  BY ADTSAssumption, LenProperties
<1>3. PICK fr \in Seq(Cell), M \in Nat : fr = fs[1] /\ M = Len(fr)
  BY <1>1, ElementOfSeq, LenProperties
<1>4. BeginsAs(who, 1, fs[1])
  BY <1>1, FirstCell, Zenon
<1>5. /\ M > H /\ fr[1] = CellOf(2, 1, M % LengthMod)
      /\ RawOf(fr) = SubSeq(fr, H + 1, M) /\ RawOf(fr) \in Seq(Cell) /\ Len(RawOf(fr)) = M - H
  BY <1>2, <1>3, <1>4 DEF BeginsAs
<1>6. Takes(f, e[1 - 1], fs[1], e[1])
  BY <1>1, FrameTaken, Zenon
<1>7. LiesAt(f, 1, e[1 - 1], e[1], fs[1])
  BY <1>1 DEF Layout
<1>8. e[0] = 0 /\ e[1] <= L
  BY <1>1, <1>2, <1>6 DEF Layout, Takes
<1>9. e[1] = H + M /\ \A i \in 1 .. M : f[H + i] = fr[i]
  <2>1. e[1] = 0 + H + M /\ \A i \in 1 .. M : f[0 + H + i] = fr[i]
    BY <1>1, <1>2, <1>3, <1>7, <1>8 DEF LiesAt
  <2>2. \A i \in 1 .. M : 0 + H + i = H + i
    BY <1>2
  <2>. QED
    BY <1>2, <1>3, <2>1, <2>2
<1>10. M % LengthMod = M
  <2>1. M < LengthMod
    <3>1. M + H < LengthMod
      BY <1>1, <1>2, <1>3 DEF Fit
    <3>. QED
      BY <1>2, <1>3, <3>1, ADTSAssumption
  <2>. QED
    BY <1>3, <2>1, InField
<1>11. f[H + 1].head > 0 /\ f[H + 1].at = 1 /\ f[H + 1].length = M
  <2>1. 1 \in 1 .. M
    BY <1>2, <1>3, <1>5
  <2>. QED
    <3>1. f[H + 1] = CellOf(2, 1, M)
      BY <1>5, <1>9, <1>10, <2>1
    <3>. QED
      BY <3>1 DEF CellOf
<1>12. SubSeq(f, H + H + 1, H + M) = RawOf(fr)
  <2>1. PICK r \in Seq(Cell), k \in Nat : r = RawOf(fr) /\ k = Len(r) /\ k = M - H
    BY <1>5, LenProperties
  <2>2. \A i \in 1 .. k : f[(H + H) + i] = r[i]
    <3>1. H + 1 \in Int /\ M \in Int /\ \A i \in H + 1 .. M : fr[i] \in Cell
      <4>1. \A i \in 1 .. M : fr[i] \in Cell
        BY <1>3, ElementOfSeq
      <4>. QED
        BY <1>2, <1>3, <4>1
    <3>2. \A i \in 1 .. M - (H + 1) + 1 : SubSeq(fr, H + 1, M)[i] = fr[(H + 1) + i - 1]
      BY <3>1, SubSeqProperties
    <3> SUFFICES ASSUME NEW i \in 1 .. k PROVE f[(H + H) + i] = r[i]
      OBVIOUS
    <3>3. PICK q \in 1 .. M : q = H + i /\ (H + 1) + i - 1 = q /\ (H + H) + i = H + q
      BY <1>2, <1>3, <2>1
    <3>4. i \in 1 .. M - (H + 1) + 1
      BY <1>2, <1>3, <2>1
    <3>. QED
      BY <1>5, <1>9, <2>1, <3>2, <3>3, <3>4
  <2>3. PICK c \in Nat : c = H + H
    BY <1>2
  <2>4. c + k <= L /\ c + k = H + M
    <3>1. H + M <= L
      BY <1>8, <1>9
    <3>2. H \in Nat /\ M \in Nat /\ k = M - H /\ c = H + H
      BY <1>2, <1>3, <2>1, <2>3
    <3>. QED
      BY <3>1, <3>2
  <2>5. SubSeq(f, c + 1, c + Len(r)) = r
    BY <1>2, <2>1, <2>2, <2>3, <2>4, PieceIs
  <2>. QED
    BY <2>1, <2>3, <2>4, <2>5
<1>13. H + H <= L /\ M >= H /\ H + M <= L
  BY <1>2, <1>3, <1>5, <1>8, <1>9
<1>. QED
  BY <1>2, <1>3, <1>9, <1>11, <1>12, <1>13 DEF Takes, HasHeader

------------------------------------------------------------------------------
\* A read gives the frame that is taken at the place, or goes on without one.
LEMMA ReadIs ==
  ASSUME FilesT, ReaderT, ReadPacket
  PROVE  \/ \E x \in Seq(Cell), b \in Nat :
              /\ Takes(file, place, x, b)
              /\ place' = b /\ given' = Append(given, x) /\ pts' = pts + Duration(rate)
         \/ /\ \A x, b : ~Takes(file, place, x, b)
            /\ place' \in Nat /\ place <= place' /\ place' <= Len(file)
            /\ given' = given /\ pts' = pts
<1>1. PICK f \in Seq(Cell), pl \in Nat, H \in Nat \ {0}, L \in Nat :
        /\ f = file /\ pl = place /\ H = ADTSHeader /\ L = Len(f) /\ pl < L
  <2>1. file \in Seq(Cell) /\ place \in Nat /\ ADTSHeader \in Nat \ {0}
    BY ADTSAssumption DEF FilesT, ReaderT
  <2>2. Len(file) \in Nat
    BY <2>1, LenProperties
  <2>3. Len(file) - place > 0
    BY DEF ReadPacket, Left
  <2>4. place < Len(file)
    BY <2>1, <2>2, <2>3
  <2>. QED
    BY <2>1, <2>2, <2>4
<1>2. PICK h : h = parse_adts_header(Slice(f, pl + 1, H))
  OBVIOUS
<1>3. (h.ok <=> HasHeader(f, pl)) /\ h.length = f[pl + 1].length /\ f[pl + 1].length \in Nat
  BY <1>1, <1>2, HeaderAt
<1>4. PICK l \in Nat : l = h.length /\ l = f[pl + 1].length
  BY <1>3
<1>5. PICK takes : takes <=> h.ok /\ l - H >= 0 /\ pl + H + (l - H) <= L
  OBVIOUS
<1>6. /\ takes => /\ given' = Append(given, SubSeq(f, pl + H + 1, pl + H + (l - H)))
                  /\ pts' = pts + Duration(rate) /\ place' = pl + H + (l - H)
      /\ ~takes => /\ place' = IF h.ok /\ l - H >= 0 THEN L ELSE AfterHeader
                   /\ given' = given /\ pts' = pts
  BY <1>1, <1>2, <1>4, <1>5 DEF ReadPacket
<1>7. pl + H + (l - H) = pl + l /\ (l - H >= 0 <=> l >= H)
  BY <1>1
<1>8. ASSUME takes
      PROVE  \E x \in Seq(Cell), b \in Nat :
               /\ Takes(f, pl, x, b)
               /\ place' = b /\ given' = Append(given, x) /\ pts' = pts + Duration(rate)
  <2>1. PICK b \in Nat : b = pl + l
    OBVIOUS
  <2>2. PICK x : x = SubSeq(f, pl + H + 1, b)
    OBVIOUS
  <2>3. HasHeader(f, pl) /\ l >= H /\ b <= L
    BY <1>3, <1>5, <1>7, <1>8, <2>1
  <2>4. x \in Seq(Cell)
    <3>1. \A i \in 1 .. L : f[i] \in Cell
      BY <1>1, ElementOfSeq
    <3>2. \A i \in pl + H + 1 .. b : f[i] \in Cell
      BY <1>1, <2>1, <2>3, <3>1
    <3>3. pl + H + 1 \in Int /\ b \in Int
      BY <1>1
    <3>. QED
      BY <2>2, <3>2, <3>3, SubSeqProperties
  <2>5. Takes(f, pl, x, b)
    BY <1>1, <1>4, <2>1, <2>2, <2>3 DEF Takes
  <2>6. place' = b /\ given' = Append(given, x) /\ pts' = pts + Duration(rate)
    BY <1>6, <1>7, <1>8, <2>1, <2>2
  <2>. QED
    BY <2>4, <2>5, <2>6
<1>9. ASSUME ~takes
      PROVE  /\ \A x, b : ~Takes(f, pl, x, b)
             /\ place' \in Nat /\ pl <= place' /\ place' <= L
             /\ given' = given /\ pts' = pts
  <2>1. \A x, b : ~Takes(f, pl, x, b)
    BY <1>1, <1>3, <1>4, <1>5, <1>7, <1>9 DEF Takes
  <2>2. AfterHeader = IF L - pl < H THEN L ELSE pl + H
    BY <1>1 DEF AfterHeader, Left
  <2>3. AfterHeader \in Nat /\ pl <= AfterHeader /\ AfterHeader <= L
    BY <1>1, <2>2
  <2>. QED
    BY <1>1, <1>6, <1>9, <2>1, <2>3
<1>. QED
  BY <1>1, <1>8, <1>9

\* Nothing else is taken.
LEMMA TakenOnce ==
  ASSUME NEW f, NEW pl, NEW x, NEW b, NEW x2, NEW b2, Takes(f, pl, x, b), Takes(f, pl, x2, b2)
  PROVE  x = x2 /\ b = b2
  BY DEF Takes

\* What is taken where the reader is, is a frame that lies behind all given.
LEMMA NextTaken ==
  ASSUME NEW who, NEW p, NEW f \in Seq(Cell), NEW fs \in Seq(Seq(Cell)), NEW e,
         Layout(who, f, fs, e), Fit(fs), who = "muxer" \/ who = "foreign",
         NEW g \in Seq(Seq(Cell)), NEW pl \in Nat, pl <= Len(f),
         GivenAll(who, p, fs, g, pl, e), NEW x, NEW b, Takes(f, pl, x, b)
  PROVE  \E j \in 1 .. Len(fs) :
           /\ IsFrame(who, p, fs, x, j) /\ b = e[j] /\ pl <= b
           /\ pl = e[j - 1] \/ g = <<>>
           /\ who # "foreign" \/ ~p => j = Len(g) + 1
<1>1. PICK H \in Nat \ {0}, L \in Nat, N \in Nat, G \in Nat :
        H = ADTSHeader /\ L = Len(f) /\ N = Len(fs) /\ G = Len(g)
  BY ADTSAssumption, LenProperties
<1>2. pl < L /\ f[pl + 1].head > 0 /\ f[pl + 1].at = 1
  BY <1>1 DEF Takes, HasHeader
<1>3. /\ e[0] = 0 /\ e[N] = L /\ \A j \in 0 .. N : e[j] \in Nat
      /\ \A j, k \in 0 .. N : j < k => e[j] < e[k]
  BY <1>1 DEF Layout
<1>4. \A j \in 1 .. N : Takes(f, e[j - 1], fs[j], e[j])
  BY <1>1, FrameTaken, Zenon
<1>5. ASSUME NEW j \in 1 .. N, pl = e[j - 1]
      PROVE  IsFrame(who, p, fs, x, j) /\ b = e[j] /\ pl <= b
  <2>1. x = fs[j] /\ b = e[j]
    BY <1>4, <1>5, TakenOnce
  <2>2. j - 1 \in 0 .. N /\ j \in 0 .. N /\ j - 1 < j
    BY <1>1
  <2>3. e[j - 1] < e[j] /\ e[j] \in Nat
    BY <1>3, <2>2
  <2>. QED
    BY <1>5, <2>1, <2>3 DEF IsFrame
<1>6. CASE who # "foreign" \/ ~p
  <2>1. G <= N /\ (pl = e[G] \/ (g = <<>> /\ p /\ fs # <<>> /\ pl = H))
    BY <1>1, <1>6 DEF GivenAll
  <2>2. CASE pl = e[G]
    <3>1. G # N
      BY <1>1, <1>2, <1>3, <2>2
    <3>2. PICK j \in 1 .. N : j = G + 1 /\ j - 1 = G
      <4>1. G + 1 \in 1 .. N /\ (G + 1) - 1 = G
        BY <1>1, <2>1, <3>1
      <4>. QED
        BY <4>1
    <3>. QED
      BY <1>1, <1>5, <2>2, <3>2
  <2>3. CASE g = <<>> /\ p /\ fs # <<>> /\ pl = H
    <3>1. who # "foreign" /\ who = "muxer"
      BY <1>6, <2>3
    <3>2. Takes(f, ADTSHeader, RawOf(fs[1]), e[1])
      BY <2>3, <3>1, FirstTaken, Zenon
    <3>3. x = RawOf(fs[1]) /\ b = e[1]
      BY <1>1, <2>3, <3>2, TakenOnce
    <3>4. 1 \in 1 .. N /\ G = 0
      BY <1>1, <2>3, EmptySeq
    <3>5. pl <= b
      <4>1. f[pl + 1].length \in Nat /\ b = pl + f[pl + 1].length
        <5>1. b = pl + f[pl + 1].length
          BY DEF Takes
        <5>2. pl + 1 \in 1 .. L
          BY <1>1, <1>2
        <5>3. f[pl + 1] \in Cell
          BY <1>1, <5>2, ElementOfSeq
        <5>. QED
          BY <5>1, <5>3 DEF Cell
      <4>. QED
        BY <4>1
    <3>. QED
      BY <1>1, <2>3, <3>1, <3>3, <3>4, <3>5 DEF IsFrame
  <2>. QED
    BY <2>1, <2>2, <2>3
<1>7. CASE who = "foreign" /\ p
  <2>1. HeadsBegin(f, N, e)
    BY <1>1, <1>7 DEF Layout
  <2>2. pl + 1 \in 1 .. L
    BY <1>1, <1>2
  <2>3. PICK j \in 1 .. N : pl + 1 = e[j - 1] + 1
    BY <1>1, <1>2, <2>1, <2>2 DEF HeadsBegin
  <2>4. pl = e[j - 1]
    <3>1. j - 1 \in 0 .. N
      BY <1>1
    <3>2. e[j - 1] \in Nat
      BY <1>3, <3>1
    <3>. QED
      BY <2>3, <3>2
  <2>. QED
    BY <1>1, <1>5, <1>7, <2>4
<1>. QED
  BY <1>6, <1>7

\* It goes behind them.
LEMMA GivenGrows ==
  ASSUME NEW who, NEW p, NEW f \in Seq(Cell), NEW fs \in Seq(Seq(Cell)), NEW e,
         Layout(who, f, fs, e),
         NEW g \in Seq(Seq(Cell)), NEW pl \in Nat, GivenBefore(who, p, fs, g, pl, e),
         NEW x \in Seq(Cell), NEW b, NEW j \in 1 .. Len(fs), IsFrame(who, p, fs, x, j), b = e[j], pl <= b,
         pl = e[j - 1] \/ g = <<>>
  PROVE  GivenBefore(who, p, fs, Append(g, x), b, e)
<1>1. PICK N \in Nat, G \in Nat : N = Len(fs) /\ G = Len(g) /\ j \in 1 .. N
  BY LenProperties
<1>2. PICK g2 : /\ g2 = Append(g, x) /\ Len(g2) = G + 1
                /\ \A i \in 1 .. G : g2[i] = g[i]
                /\ g2[G + 1] = x
  <2>1. /\ Len(Append(g, x)) = Len(g) + 1
        /\ \A i \in 1 .. Len(g) : Append(g, x)[i] = g[i]
        /\ Append(g, x)[Len(g) + 1] = x
    BY AppendProperties
  <2>. QED
    BY <1>1, <2>1
<1>3. /\ \A k \in 0 .. N : e[k] \in Nat
      /\ \A i, k \in 0 .. N : i < k => e[i] < e[k]
  BY <1>1 DEF Layout
<1>4. \A y, a, c : a \in 1 .. N /\ c \in 1 .. N /\ IsFrame(who, p, fs, y, a) /\ IsFrame(who, p, fs, y, c)
                     => a = c
  BY <1>1, FramesDiffer, Zenon
<1>5. \A i \in 1 .. G : \E a \in 1 .. N : IsFrame(who, p, fs, g[i], a) /\ e[a] <= pl
  BY <1>1 DEF GivenBefore
<1>6. b \in Nat
  <2>1. j \in 0 .. N
    BY <1>1
  <2>. QED
    BY <1>3, <2>1
<1>7. ASSUME NEW i \in 1 .. G + 1
      PROVE  \E a \in 1 .. N : IsFrame(who, p, fs, g2[i], a) /\ e[a] <= b
  <2>1. CASE i = G + 1
    <3>1. g2[i] = x /\ j \in 1 .. N /\ e[j] <= b
      BY <1>1, <1>2, <1>6, <2>1
    <3>. QED
      BY <3>1
  <2>2. CASE i # G + 1
    <3>1. i \in 1 .. G
      BY <1>1, <2>2
    <3>2. PICK a \in 1 .. N : IsFrame(who, p, fs, g[i], a) /\ e[a] <= pl
      BY <1>5, <3>1
    <3>3. e[a] \in Nat
      <4>1. a \in 0 .. N
        BY <1>1
      <4>. QED
        BY <1>3, <4>1
    <3>. QED
      <4>1. PICK y \in Nat : y = e[a]
        BY <3>3
      <4>2. y <= b
        BY <1>6, <3>2, <4>1, SMTT(30)
      <4>. QED
        BY <1>2, <3>1, <3>2, <4>1, <4>2
  <2>. QED
    BY <2>1, <2>2
<1>8. ASSUME NEW i \in 1 .. G + 1, NEW k \in 1 .. G + 1, NEW a \in 1 .. N, NEW c \in 1 .. N,
             i < k, IsFrame(who, p, fs, g2[i], a), IsFrame(who, p, fs, g2[k], c)
      PROVE  a < c
  <2>1. i \in 1 .. G /\ g2[i] = g[i]
    <3>1. i \in 1 .. G
      BY <1>1, <1>8
    <3>. QED
      BY <1>2, <3>1
  <2>2. CASE k # G + 1
    <3>1. k \in 1 .. G /\ g2[k] = g[k]
      <4>1. k \in 1 .. G
        BY <1>1, <2>2, SMTT(30)
      <4>. QED
        BY <1>2, <4>1
    <3>. QED
      BY <1>1, <1>8, <2>1, <3>1 DEF GivenBefore
  <2>3. CASE k = G + 1
    <3>1. c = j
      BY <1>1, <1>2, <1>4, <1>8, <2>3
    <3>2. PICK a2 \in 1 .. N : IsFrame(who, p, fs, g[i], a2) /\ e[a2] <= pl
      BY <1>5, <2>1
    <3>3. a = a2
      BY <1>4, <1>8, <2>1, <3>2
    <3>4. pl = e[j - 1]
      <4>1. g # <<>>
        BY <1>1, <2>1, EmptySeq
      <4>. QED
        BY <4>1
    <3>5. ~(j - 1 < a)
      <4>1. j - 1 \in 0 .. N /\ a \in 0 .. N
        BY <1>1
      <4>2. j - 1 < a => e[j - 1] < e[a]
        BY <1>3, <4>1
      <4>3. e[j - 1] \in Nat /\ e[a] \in Nat
        BY <1>3, <4>1
      <4>. QED
        BY <3>2, <3>3, <3>4, <4>2, <4>3
    <3>. QED
      BY <1>1, <3>1, <3>5
  <2>. QED
    BY <2>2, <2>3
<1>. QED
  BY <1>1, <1>2, <1>7, <1>8 DEF GivenBefore

------------------------------------------------------------------------------
(* The steps. *)

\* Where the next frame is put nothing has been given.
LEMMA NothingGiven ==
  ASSUME ADTSInv, Fit(frames), place = 0, ~probed
  PROVE  given = <<>> /\ config = NoConfig
<1>1. PICK e : Layout(writer, file, frames, e) /\ GivenAll(writer, probed, frames, given, place, e)
  BY DEF ADTSInv
<1>2. PICK G \in Nat, N \in Nat : G = Len(given) /\ N = Len(frames)
  BY LenProperties DEF ADTSInv, ReaderT, FilesT
<1>3. G <= N /\ place = e[G]
  BY <1>1, <1>2 DEF GivenAll
<1>4. G = 0
  <2>1. e[0] = 0 /\ (0 < G => e[0] < e[G])
    <3>1. 0 \in 0 .. N /\ G \in 0 .. N
      BY <1>2, <1>3
    <3>. QED
      BY <1>1, <1>2, <3>1 DEF Layout
  <2>. QED
    BY <1>2, <1>3, <2>1
<1>5. given = <<>>
  BY <1>2, <1>4, EmptySeq DEF ADTSInv, ReaderT
<1>. QED
  BY <1>5 DEF ADTSInv, ParsedFrom

LEMMA FrameWritten ==
  ASSUME ADTSInv, NEW who, who = "muxer" \/ who = "foreign", MayWrite(who),
         NEW w \in Seq(Cell), NEW fr \in Seq(Cell), NEW n, n = Len(frames) + 1,
         LiesAt(w, n, 0, Len(w), fr), FrameIs(who, n, fr),
         who = "foreign" => \A q \in 1 .. Len(w) : w[q].head > 0 /\ w[q].at = 1 => q = 1,
         file' = file \o w, frames' = Append(frames, fr), writer' = who,
         UNCHANGED <<rate, place, probed, given, pts, config>>
  PROVE  ADTSInv'
<1>1. file \in Seq(Cell) /\ frames \in Seq(Seq(Cell))
  BY DEF ADTSInv, FilesT
<1>2. file' \in Seq(Cell) /\ frames' \in Seq(Seq(Cell)) /\ Len(file') \in Nat
  BY <1>1, ConcatProperties, AppendProperties, LenProperties
<1>3. ASSUME Fit(frames') PROVE Fit(frames)
  <2>1. /\ Len(frames') = Len(frames) + 1 /\ Len(frames) \in Nat
        /\ \A j \in 1 .. Len(frames) : frames'[j] = frames[j]
    BY <1>1, AppendProperties, LenProperties
  <2>2. \A j \in 1 .. Len(frames) : j \in 1 .. Len(frames) + 1
    BY <2>1
  <2>. QED
    BY <1>3, <2>1, <2>2 DEF Fit
<1> SUFFICES ASSUME Fit(frames'), Fit(frames)
             PROVE  ADTSInv'
  BY <1>2, <1>3 DEF ADTSInv, FilesT
<1>4. place = 0 /\ ~probed /\ (writer = "open" \/ writer = who)
  BY DEF MayWrite
<1>5. given = <<>> /\ config = NoConfig
  BY <1>4, NothingGiven
<1>6. ReaderT /\ ParsedFrom
  BY DEF ADTSInv
<1>7. PICK e : Layout(writer, file, frames, e)
  BY DEF ADTSInv
<1>8. \E e2 : Layout(who, file \o w, Append(frames, fr), e2)
  <2>1. writer = who \/ frames = <<>>
    BY <1>4, <1>6 DEF ReaderT
  <2>. QED
    BY <1>1, <1>7, <2>1, LayoutGrows, Zenon
<1>9. PICK e2 : Layout(writer', file', frames', e2)
  BY <1>8
<1>10. GivenBefore(writer', probed', frames', given', place', e2)
  <2>1. given' = <<>> /\ Len(<<>>) = 0
    BY <1>5
  <2>. QED
    BY <2>1 DEF GivenBefore
<1>11. GivenAll(writer', probed', frames', given', place', e2)
  <2>1. given' = <<>> /\ Len(<<>>) = 0 /\ place' = 0 /\ e2[0] = 0 /\ Len(frames') \in Nat
    BY <1>2, <1>4, <1>5, <1>9, LenProperties DEF Layout
  <2>. QED
    BY <2>1 DEF GivenAll
<1>12. ReaderT'
  BY <1>2, <1>4, <1>5, <1>6 DEF ReaderT, Reading
<1>13. ParsedFrom'
  <2>1. config' = NoConfig /\ given' = given /\ pts' = pts /\ rate' = rate /\ ~NoConfig.known
    BY <1>5 DEF NoConfig
  <2>. QED
    BY <1>5, <1>6, <2>1 DEF ParsedFrom
<1>. QED
  BY <1>2, <1>9, <1>10, <1>11, <1>12, <1>13 DEF ADTSInv, FilesT

LEMMA MuxerWrites ==
  ASSUME ADTSInv, NEW n \in RawSizes, WriteADTSPacket(n)
  PROVE  ADTSInv'
<1>1. PICK N \in Nat, k \in Nat, H \in Nat \ {0} :
        N = Len(frames) /\ k = n /\ k > 0 /\ H = ADTSHeader
  <2>1. frames \in Seq(Seq(Cell)) /\ n \in Nat /\ n > 0 /\ ADTSHeader \in Nat \ {0}
    BY ADTSAssumption DEF ADTSInv, FilesT
  <2>. QED
    BY <2>1, LenProperties
<1>2. PICK j \in Nat, h \in Nat, h2 \in Nat :
        j = N + 1 /\ h = 2 * N + 1 /\ h2 = h + 1 /\ h = 2 * j - 1 /\ h2 = 2 * j
  BY <1>1
<1>3. PICK fr \in Seq(Cell) : /\ fr = Packet(h2, k) /\ Len(fr) = H + k
                              /\ \A i \in 1 .. H : fr[i] = CellOf(h2, i, (H + k) % LengthMod)
                              /\ \A i \in 1 .. k : fr[H + i] = CellOf(0, i, h2)
  <2>1. /\ Packet(h2, k) \in Seq(Cell) /\ Len(Packet(h2, k)) = ADTSHeader + k
        /\ \A i \in 1 .. ADTSHeader :
             Packet(h2, k)[i] = CellOf(h2, i, (ADTSHeader + k) % LengthMod)
        /\ \A i \in 1 .. k : Packet(h2, k)[ADTSHeader + i] = CellOf(0, i, h2)
    BY PacketIs
  <2>. QED
    BY <1>1, <2>1
<1>4. PICK M \in Nat : M = H + k
  BY <1>1
<1>5. PICK hd \in Seq(Cell) : /\ hd = HeaderCells(h, M + H) /\ Len(hd) = H
                              /\ \A i \in 1 .. H : hd[i] = CellOf(h, i, (M + H) % LengthMod)
  <2>1. M + H \in Nat
    BY <1>1, <1>4
  <2>. QED
    BY <1>1, <2>1, HeaderIs
<1>6. PICK w \in Seq(Cell) : /\ w = hd \o fr /\ Len(w) = H + M
                             /\ \A i \in 1 .. H : w[i] = hd[i]
                             /\ \A i \in 1 .. M : w[H + i] = fr[i]
  <2>1. /\ hd \o fr \in Seq(Cell) /\ Len(hd \o fr) = Len(hd) + Len(fr)
        /\ \A i \in 1 .. Len(hd) : (hd \o fr)[i] = hd[i]
        /\ \A i \in 1 .. Len(fr) : (hd \o fr)[Len(hd) + i] = fr[i]
    BY Continued
  <2>2. Len(hd) = H /\ Len(fr) = M
    BY <1>3, <1>4, <1>5
  <2>3. PICK w \in Seq(Cell) : w = hd \o fr
    BY <2>1
  <2>. QED
    BY <2>1, <2>2, <2>3
<1>7. LiesAt(w, j, 0, Len(w), fr)
  <2>1. Len(w) = 0 + H + M /\ M > 0 /\ M + H = H + M
    BY <1>1, <1>4, <1>6
  <2>2. \A i \in 1 .. H : w[0 + i] = CellOf(2 * j - 1, i, (H + M) % LengthMod)
    <3>1. \A i \in 1 .. H : 0 + i = i
      OBVIOUS
    <3>. QED
      BY <1>2, <1>5, <1>6, <2>1, <3>1
  <2>3. \A i \in 1 .. M : w[0 + H + i] = fr[i]
    <3>1. 0 + H = H
      BY <1>1
    <3>. QED
      BY <1>6, <3>1
  <2>. QED
    BY <1>1, <1>3, <1>4, <2>1, <2>2, <2>3 DEF LiesAt
<1>8. FrameIs("muxer", j, fr)
  <2>1. M > H /\ M - H = k
    BY <1>1, <1>4
  <2>. QED
    BY <1>1, <1>2, <1>3, <1>4, <2>1 DEF FrameIs
<1>9. /\ file' = file \o w /\ frames' = Append(frames, fr) /\ writer' = "muxer" /\ MayWrite("muxer")
      /\ UNCHANGED <<rate, place, probed, given, pts, config>>
  <2>1. 2 * Len(frames) + 1 = h /\ h + 1 = h2 /\ Len(fr) + ADTSHeader = M + H
    BY <1>1, <1>2, <1>3, <1>4
  <2>2. file' = file \o HeaderCells(h, M + H) \o fr
    BY <1>1, <1>3, <2>1 DEF WriteADTSPacket
  <2>3. (file \o hd) \o fr = file \o (hd \o fr)
    BY ConcatAssociative DEF ADTSInv, FilesT
  <2>. QED
    BY <1>1, <1>3, <1>5, <1>6, <2>1, <2>2, <2>3 DEF WriteADTSPacket
<1>. QED
  BY <1>1, <1>2, <1>7, <1>8, <1>9, FrameWritten

LEMMA OthersWrite ==
  ASSUME ADTSInv, NEW n \in RawSizes, ForeignFrame(n)
  PROVE  ADTSInv'
<1>1. PICK N \in Nat, k \in Nat, H \in Nat \ {0} :
        N = Len(frames) /\ k = n /\ k > 0 /\ H = ADTSHeader
  <2>1. frames \in Seq(Seq(Cell)) /\ n \in Nat /\ n > 0 /\ ADTSHeader \in Nat \ {0}
    BY ADTSAssumption DEF ADTSInv, FilesT
  <2>. QED
    BY <2>1, LenProperties
<1>2. PICK j \in Nat, h \in Nat : j = N + 1 /\ h = 2 * N + 1 /\ h = 2 * j - 1
  BY <1>1
<1>3. PICK fr \in Seq(Cell) : /\ fr = RawCells(h, k) /\ Len(fr) = k
                              /\ \A i \in 1 .. k : fr[i] = CellOf(0, i, h)
  BY RawIs
<1>4. PICK w \in Seq(Cell) : /\ w = Packet(h, k) /\ Len(w) = H + k
                             /\ \A i \in 1 .. H : w[i] = CellOf(h, i, (H + k) % LengthMod)
                             /\ \A i \in 1 .. k : w[H + i] = CellOf(0, i, h)
  <2>1. /\ Packet(h, k) \in Seq(Cell) /\ Len(Packet(h, k)) = ADTSHeader + k
        /\ \A i \in 1 .. ADTSHeader :
             Packet(h, k)[i] = CellOf(h, i, (ADTSHeader + k) % LengthMod)
        /\ \A i \in 1 .. k : Packet(h, k)[ADTSHeader + i] = CellOf(0, i, h)
    BY PacketIs
  <2>. QED
    BY <1>1, <2>1
<1>5. LiesAt(w, j, 0, Len(w), fr)
  <2>1. Len(w) = 0 + H + k
    BY <1>1, <1>4
  <2>2. \A i \in 1 .. H : w[0 + i] = CellOf(2 * j - 1, i, (H + k) % LengthMod)
    <3>1. \A i \in 1 .. H : 0 + i = i
      OBVIOUS
    <3>. QED
      BY <1>2, <1>4, <3>1
  <2>3. \A i \in 1 .. k : w[0 + H + i] = fr[i]
    <3>1. 0 + H = H
      BY <1>1
    <3>. QED
      BY <1>3, <1>4, <3>1
  <2>. QED
    BY <1>1, <1>3, <2>1, <2>2, <2>3 DEF LiesAt
<1>6. FrameIs("foreign", j, fr)
  BY <1>2, <1>3 DEF FrameIs
<1>7. ASSUME NEW q \in 1 .. Len(w), w[q].head > 0, w[q].at = 1 PROVE q = 1
  <2>1. CASE q <= H
    <3>1. q \in 1 .. H
      BY <1>1, <1>4, <2>1
    <3>2. w[q] = CellOf(h, q, (H + k) % LengthMod)
      BY <1>4, <3>1
    <3>. QED
      BY <1>7, <3>2 DEF CellOf
  <2>2. CASE q > H
    <3>1. PICK i \in 1 .. k : q = H + i
      <4>1. q - H \in 1 .. k /\ q = H + (q - H)
        BY <1>1, <1>4, <2>2
      <4>. QED
        BY <4>1
    <3>2. w[q] = CellOf(0, i, h)
      BY <1>4, <3>1
    <3>. QED
      BY <1>7, <3>2 DEF CellOf
  <2>. QED
    BY <1>1, <1>4, <2>1, <2>2
<1>8. /\ file' = file \o w /\ frames' = Append(frames, fr) /\ writer' = "foreign" /\ MayWrite("foreign")
      /\ UNCHANGED <<rate, place, probed, given, pts, config>>
  BY <1>1, <1>2, <1>3, <1>4 DEF ForeignFrame
<1>. QED
  BY <1>1, <1>2, <1>5, <1>6, <1>7, <1>8, FrameWritten

LEMMA RawRefused ==
  ASSUME ADTSInv, NEW n \in RawSizes, WriteRawPacket(n)
  PROVE  ADTSInv'
<1>1. /\ UNCHANGED <<file, frames, rate, place, probed, given, pts, config>>
      /\ place = 0 /\ ~probed /\ (writer = "open" \/ writer = "muxer")
      /\ (writer' = "short_packet" \/ writer' = "muxer")
  BY DEF WriteRawPacket, MayWrite
<1>2. file \in Seq(Cell) /\ frames \in Seq(Seq(Cell))
  BY DEF ADTSInv, FilesT
<1> SUFFICES ASSUME Fit(frames)
             PROVE  ADTSInv'
  BY <1>1, <1>2 DEF ADTSInv, FilesT
<1>3. given = <<>> /\ config = NoConfig
  BY <1>1, NothingGiven
<1>4. ReaderT /\ ParsedFrom
  BY DEF ADTSInv
<1>5. PICK e : Layout(writer, file, frames, e) /\ GivenAll(writer, probed, frames, given, place, e)
  BY DEF ADTSInv
<1>6. Layout(writer', file, frames, e)
  BY <1>1, <1>5 DEF Layout, FrameIs
<1>7. GivenBefore(writer', probed, frames, <<>>, place, e)
  <2>1. Len(<<>>) = 0
    OBVIOUS
  <2>. QED
    BY <2>1 DEF GivenBefore
<1>8. GivenAll(writer', probed, frames, given, place, e)
  BY <1>1, <1>5 DEF GivenAll
<1>9. ReaderT'
  BY <1>1, <1>3, <1>4 DEF ReaderT, Reading
<1>10. ParsedFrom'
  BY <1>1, <1>4 DEF ParsedFrom
<1>. QED
  BY <1>1, <1>2, <1>3, <1>6, <1>7, <1>8, <1>9, <1>10 DEF ADTSInv, FilesT

LEMMA StreamsReads ==
  ASSUME ADTSInv, Streams
  PROVE  ADTSInv'
<1>1. /\ UNCHANGED <<file, frames, writer, rate, given, pts, config>>
      /\ place = 0 /\ ~probed /\ Reading /\ probed' = TRUE /\ place' = AfterHeader
  BY DEF Streams
<1>2. file \in Seq(Cell) /\ frames \in Seq(Seq(Cell))
  BY DEF ADTSInv, FilesT
<1> SUFFICES ASSUME Fit(frames)
             PROVE  ADTSInv'
  BY <1>1, <1>2 DEF ADTSInv, FilesT
<1>3. given = <<>> /\ config = NoConfig
  BY <1>1, NothingGiven
<1>4. ReaderT /\ ParsedFrom
  BY DEF ADTSInv
<1>5. PICK e : Layout(writer, file, frames, e)
  BY DEF ADTSInv
<1>6. PICK H \in Nat \ {0}, L \in Nat : H = ADTSHeader /\ L = Len(file)
  BY <1>2, ADTSAssumption, LenProperties
<1>7. place' = (IF L < H THEN L ELSE H)
  <2>1. L - 0 = L /\ 0 + H = H
    BY <1>6
  <2>. QED
    BY <1>1, <1>6, <2>1 DEF AfterHeader, Left
<1>8. /\ frames # <<>> => ~(L < H)
      /\ frames = <<>> => L = 0
  <2>1. CASE frames = <<>>
    BY <1>5, <1>6, <2>1 DEF Layout
  <2>2. CASE frames # <<>>
    <3>1. 1 \in 1 .. Len(frames) /\ 1 - 1 = 0
      BY <1>2, <2>2, LenProperties, EmptySeq
    <3>2. Takes(file, e[1 - 1], frames[1], e[1])
      BY <1>2, <1>5, <3>1, FrameTaken, Zenon
    <3>3. e[0] = 0
      BY <1>5 DEF Layout
    <3>4. 0 + ADTSHeader <= Len(file)
      BY <3>1, <3>2, <3>3 DEF Takes, HasHeader
    <3>. QED
      BY <1>6, <2>2, <3>4
  <2>. QED
    BY <2>1, <2>2
<1>9. GivenBefore(writer, TRUE, frames, <<>>, place', e)
  <2>1. Len(<<>>) = 0
    OBVIOUS
  <2>. QED
    BY <2>1 DEF GivenBefore
<1>10. GivenAll(writer, TRUE, frames, <<>>, place', e)
  <2>1. Len(<<>>) = 0 /\ e[0] = 0 /\ Len(frames) \in Nat
    BY <1>2, <1>5, LenProperties DEF Layout
  <2>2. CASE frames = <<>>
    BY <1>6, <1>7, <1>8, <2>1, <2>2 DEF GivenAll
  <2>3. CASE frames # <<>>
    BY <1>6, <1>7, <1>8, <2>1, <2>3 DEF GivenAll
  <2>. QED
    BY <2>2, <2>3
<1>11. ReaderT'
  <2>1. place' \in Nat /\ place' <= Len(file)
    BY <1>6, <1>7
  <2>. QED
    BY <1>1, <1>4, <2>1 DEF ReaderT, Reading
<1>12. ParsedFrom'
  BY <1>1, <1>4 DEF ParsedFrom
<1>. QED
  BY <1>1, <1>2, <1>3, <1>5, <1>9, <1>10, <1>11, <1>12 DEF ADTSInv, FilesT

LEMMA PacketRead ==
  ASSUME ADTSInv, ReadPacket
  PROVE  ADTSInv'
<1>1. UNCHANGED <<file, frames, writer, rate, probed, config>> /\ Reading
  BY DEF ReadPacket
<1>2. file \in Seq(Cell) /\ frames \in Seq(Seq(Cell)) /\ FilesT
  BY DEF ADTSInv, FilesT
<1> SUFFICES ASSUME Fit(frames)
             PROVE  ADTSInv'
  BY <1>1, <1>2 DEF ADTSInv, FilesT
<1>3. ReaderT /\ ParsedFrom
  BY DEF ADTSInv
<1>4. PICK e : /\ Layout(writer, file, frames, e)
               /\ GivenBefore(writer, probed, frames, given, place, e)
               /\ GivenAll(writer, probed, frames, given, place, e)
  BY DEF ADTSInv
<1>5. /\ given \in Seq(Seq(Cell)) /\ place \in Nat /\ place <= Len(file) /\ Len(file) \in Nat
      /\ writer = "muxer" \/ writer = "foreign"
  BY <1>1, <1>2, <1>3, LenProperties DEF ReaderT, Reading
<1>6. CASE \E x \in Seq(Cell), b \in Nat :
             /\ Takes(file, place, x, b)
             /\ place' = b /\ given' = Append(given, x) /\ pts' = pts + Duration(rate)
  <2>1. PICK x \in Seq(Cell), b \in Nat :
          /\ Takes(file, place, x, b)
          /\ place' = b /\ given' = Append(given, x) /\ pts' = pts + Duration(rate)
    BY <1>6
  <2>2. PICK j \in 1 .. Len(frames) :
          /\ IsFrame(writer, probed, frames, x, j) /\ b = e[j] /\ place <= b
          /\ place = e[j - 1] \/ given = <<>>
          /\ writer # "foreign" \/ ~probed => j = Len(given) + 1
    BY <1>2, <1>4, <1>5, <2>1, NextTaken, Zenon
  <2>3. GivenBefore(writer, probed, frames, Append(given, x), b, e)
    BY <1>2, <1>4, <1>5, <2>2, GivenGrows, Zenon
  <2>4. Append(given, x) \in Seq(Seq(Cell)) /\ Len(Append(given, x)) = Len(given) + 1
        /\ Append(given, x) # <<>> /\ Len(given) \in Nat
    <3>1. /\ Append(given, x) \in Seq(Seq(Cell)) /\ Append(given, x) # <<>>
          /\ Len(Append(given, x)) = Len(given) + 1
      BY <1>5, AppendProperties
    <3>2. Len(given) \in Nat
      BY <1>5, LenProperties
    <3>. QED
      BY <3>1, <3>2
  <2>5. GivenAll(writer, probed, frames, Append(given, x), b, e)
    <3>1. ASSUME writer # "foreign" \/ ~probed
          PROVE  Len(given) + 1 <= Len(frames) /\ b = e[Len(given) + 1]
      <4>1. j = Len(given) + 1 /\ Len(frames) \in Nat
        BY <1>2, <2>2, <3>1, LenProperties
      <4>. QED
        BY <2>2, <4>1
    <3>. QED
      BY <2>4, <3>1 DEF GivenAll
  <2>6. ReaderT'
    <3>1. place' \in Nat /\ place' <= Len(file)
      BY <2>1 DEF Takes
    <3>. QED
      BY <1>1, <1>3, <2>1, <2>4, <3>1 DEF ReaderT, Reading
  <2>7. ParsedFrom'
    <3>1. rate # 12 => pts' = Len(given')
      <4> SUFFICES ASSUME rate # 12 PROVE pts' = Len(given')
        OBVIOUS
      <4>1. rate = 4
        BY <1>3 DEF ReaderT, Rates
      <4>2. Duration(rate) = 1
        BY <4>1 DEF Duration, TrueDuration
      <4>3. pts = Len(given)
        BY <1>3, <4>1 DEF ParsedFrom
      <4>. QED
        BY <2>1, <2>4, <4>2, <4>3
    <3>. QED
      BY <1>1, <1>3, <2>1, <2>4, <3>1 DEF ParsedFrom
  <2>. QED
    BY <1>1, <1>2, <1>4, <2>1, <2>3, <2>5, <2>6, <2>7 DEF ADTSInv, FilesT
<1>7. CASE /\ \A x, b : ~Takes(file, place, x, b)
           /\ place' \in Nat /\ place <= place' /\ place' <= Len(file)
           /\ given' = given /\ pts' = pts
  <2>1. GivenBefore(writer, probed, frames, given, place', e)
    <3>1. ASSUME NEW i \in 1 .. Len(given)
          PROVE  \E j \in 1 .. Len(frames) : IsFrame(writer, probed, frames, given[i], j) /\ e[j] <= place'
      <4>1. PICK j \in 1 .. Len(frames) : IsFrame(writer, probed, frames, given[i], j) /\ e[j] <= place
        BY <1>4 DEF GivenBefore
      <4>2. PICK y \in Nat : y = e[j]
        <5>1. Len(frames) \in Nat
          BY <1>2, LenProperties
        <5>2. j \in 0 .. Len(frames)
          BY <5>1
        <5>. QED
          BY <1>4, <5>2 DEF Layout
      <4>3. y <= place'
        BY <1>5, <1>7, <4>1, <4>2
      <4>. QED
        BY <4>1, <4>2, <4>3
    <3>. QED
      BY <1>4, <3>1 DEF GivenBefore
  <2>2. GivenAll(writer, probed, frames, given, place', e)
    <3> SUFFICES ASSUME writer # "foreign" \/ ~probed PROVE FALSE
      BY DEF GivenAll
    <3>1. PICK N \in Nat, G \in Nat : N = Len(frames) /\ G = Len(given)
      BY <1>2, <1>5, LenProperties
    <3>2. G <= N /\ (place = e[G] \/ (given = <<>> /\ probed /\ frames # <<>> /\ place = ADTSHeader))
      BY <1>4, <3>1 DEF GivenAll
    <3>3. place < Len(file)
      <4>1. Len(file) - place > 0
        BY DEF ReadPacket, Left
      <4>. QED
        BY <1>5, <4>1
    <3>4. CASE place = e[G]
      <4>1. G # N
        <5>1. e[N] = Len(file)
          BY <1>4, <3>1 DEF Layout
        <5>. QED
          BY <1>5, <3>3, <3>4, <5>1
      <4>2. G + 1 \in 1 .. N /\ (G + 1) - 1 = G
        BY <3>1, <3>2, <4>1
      <4>3. PICK j \in 1 .. Len(frames) : j - 1 = G
        BY <3>1, <4>2
      <4>4. Takes(file, e[j - 1], frames[j], e[j])
        BY <1>2, <1>4, <4>3, FrameTaken, Zenon
      <4>. QED
        BY <1>7, <3>4, <4>3, <4>4
    <3>5. CASE given = <<>> /\ probed /\ frames # <<>> /\ place = ADTSHeader
      <4>1. writer # "foreign"
        BY <3>5
      <4>2. Takes(file, ADTSHeader, RawOf(frames[1]), e[1])
        BY <1>2, <1>4, <3>5, <4>1, FirstTaken, Zenon
      <4>. QED
        BY <1>7, <3>5, <4>2
    <3>. QED
      BY <3>2, <3>4, <3>5
  <2>3. ReaderT'
    BY <1>1, <1>3, <1>7 DEF ReaderT, Reading
  <2>4. ParsedFrom'
    BY <1>1, <1>3, <1>7 DEF ParsedFrom
  <2>. QED
    BY <1>1, <1>2, <1>4, <1>7, <2>1, <2>2, <2>3, <2>4 DEF ADTSInv, FilesT
<1>. QED
  BY <1>2, <1>3, <1>6, <1>7, ReadIs

LEMMA FrameParsed ==
  ASSUME ADTSInv, ParseFrame
  PROVE  ADTSInv'
<1>1. /\ UNCHANGED <<file, frames, rate, place, probed, given, pts>>
      /\ Reading /\ given # <<>>
  BY DEF ParseFrame
<1>2. file \in Seq(Cell) /\ frames \in Seq(Seq(Cell)) /\ FilesT
  BY DEF ADTSInv, FilesT
<1> SUFFICES ASSUME Fit(frames)
             PROVE  ADTSInv'
  BY <1>1, <1>2 DEF ADTSInv, FilesT
<1>3. ReaderT /\ ParsedFrom
  BY DEF ADTSInv
<1>4. PICK e : /\ Layout(writer, file, frames, e)
               /\ GivenBefore(writer, probed, frames, given, place, e)
               /\ GivenAll(writer, probed, frames, given, place, e)
  BY DEF ADTSInv
<1>5. PICK H \in Nat \ {0} : H = ADTSHeader
  BY ADTSAssumption
<1>6. PICK G \in Nat \ {0} : G = Len(given)
  BY <1>1, <1>3, EmptySeq DEF ReaderT
<1>7. PICK data \in Seq(Cell) : data = given[G]
  <2>1. G \in 1 .. Len(given)
    BY <1>6
  <2>. QED
    BY <1>3, <2>1, ElementOfSeq DEF ReaderT
<1>8. PICK j \in 1 .. Len(frames) : IsFrame(writer, probed, frames, data, j)
  <2>1. G \in 1 .. Len(given)
    BY <1>6
  <2>. QED
    BY <1>4, <1>7, <2>1 DEF GivenBefore
<1>9. BeginsAs(writer, j, frames[j]) /\ (1 \in 1 .. Len(frames) => BeginsAs(writer, 1, frames[1]))
  BY <1>2, <1>4, FirstCell, Zenon
<1>10. PICK M \in Nat : M = Len(data)
  BY LenProperties
<1>11. j \in Nat /\ j >= 1 /\ 1 \in 1 .. Len(frames)
  <2>1. Len(frames) \in Nat
    BY <1>2, LenProperties
  <2>. QED
    BY <2>1
<1>12. \/ /\ M > 0 /\ data[1].head = 0 /\ data = RawOf(frames[j])
       \/ /\ M > H /\ data[1] = CellOf(2 * j, 1, M) /\ RawOf(frames[j]) = SubSeq(data, H + 1, M)
  <2>1. CASE data = frames[j] /\ writer = "foreign"
    <3>1. data[1] = CellOf(0, 1, 2 * j - 1) /\ RawOf(frames[j]) = frames[j] /\ M \in Nat \ {0}
      BY <1>9, <1>10, <2>1 DEF BeginsAs
    <3>2. data[1].head = 0
      BY <3>1 DEF CellOf
    <3>. QED
      BY <2>1, <3>1, <3>2
  <2>2. CASE data = frames[j] /\ writer # "foreign"
    <3>1. /\ M > H /\ data[1] = CellOf(2 * j, 1, M % LengthMod)
          /\ RawOf(frames[j]) = SubSeq(data, H + 1, M)
      BY <1>5, <1>9, <1>10, <2>2 DEF BeginsAs
    <3>2. M % LengthMod = M
      <4>1. M < LengthMod
        <5>1. M + H < LengthMod
          BY <1>5, <1>10, <2>2 DEF Fit
        <5>. QED
          BY <1>5, <1>10, <5>1, ADTSAssumption
      <4>. QED
        BY <1>10, <4>1, InField
    <3>. QED
      BY <3>1, <3>2
  <2>3. CASE j = 1 /\ writer = "muxer" /\ data = RawOf(frames[1])
    <3>1. /\ data[1] = CellOf(0, 1, 2 * 1) /\ M = Len(frames[1]) - H /\ Len(frames[1]) \in Nat
          /\ Len(frames[1]) > H
      BY <1>5, <1>9, <1>10, <2>3 DEF BeginsAs
    <3>2. data[1].head = 0
      BY <3>1 DEF CellOf
    <3>3. M > 0
      <4>1. PICK m \in Nat : m = Len(frames[1])
        BY <3>1
      <4>. QED
        BY <1>5, <3>1, <4>1
    <3>. QED
      BY <2>3, <3>2, <3>3
  <2>. QED
    BY <1>8, <2>1, <2>2, <2>3 DEF IsFrame
<1>13. PICK h : h = parse_adts_header(Slice(data, 1, H))
  OBVIOUS
<1>14. (h.ok <=> HasHeader(data, 0)) /\ h.length = data[1].length /\ data[1].length \in Nat
  <2>1. 0 < Len(data) /\ 0 + 1 = 1
    BY <1>5, <1>10, <1>12
  <2>2. /\ parse_adts_header(Slice(data, 0 + 1, ADTSHeader)).ok <=> HasHeader(data, 0)
        /\ parse_adts_header(Slice(data, 0 + 1, ADTSHeader)).length = data[0 + 1].length
        /\ data[0 + 1].length \in Nat
    BY <2>1, HeaderAt
  <2>. QED
    BY <1>5, <1>13, <2>1, <2>2
<1>15. writer' = writer /\ (config' = config \/ config'.frame = RawOf(frames[j]))
  <2>1. CASE M > 0 /\ data[1].head = 0 /\ data = RawOf(frames[j])
    <3>1. ~h.ok
      <4>1. 0 + 1 = 1
        OBVIOUS
      <4>. QED
        BY <1>14, <2>1, <4>1 DEF HasHeader
    <3>2. /\ config' = IF config.known THEN [config EXCEPT !.frame = data] ELSE config
          /\ UNCHANGED writer
      BY <1>5, <1>6, <1>7, <1>13, <3>1 DEF ParseFrame
    <3>. QED
      BY <2>1, <3>2
  <2>2. CASE M > H /\ data[1] = CellOf(2 * j, 1, M) /\ RawOf(frames[j]) = SubSeq(data, H + 1, M)
    <3>1. data[1].head > 0 /\ data[1].at = 1 /\ data[1].length = M
      BY <1>11, <2>2 DEF CellOf
    <3>2. h.ok /\ h.length = M
      <4>1. 0 + 1 = 1 /\ 0 + H <= M
        BY <1>5, <1>10, <2>2
      <4>. QED
        BY <1>5, <1>10, <1>14, <3>1, <4>1 DEF HasHeader
    <3>3. PICK n : n = (IF h.length <= Len(data) THEN h.length ELSE Len(data)) /\ n = M /\ ~(n < H)
      BY <1>5, <1>10, <2>2, <3>2
    <3>4. /\ config' = [known |-> TRUE, frame |-> SubSeq(data, H + 1, n)]
          /\ UNCHANGED writer
      BY <1>5, <1>6, <1>7, <1>13, <3>2, <3>3 DEF ParseFrame
    <3>. QED
      BY <2>2, <3>3, <3>4
  <2>. QED
    BY <1>12, <2>1, <2>2
<1>16. ParsedFrom'
  BY <1>1, <1>3, <1>15 DEF ParsedFrom
<1>17. ReaderT'
  BY <1>1, <1>3, <1>15 DEF ReaderT, Reading
<1>. QED
  BY <1>1, <1>2, <1>4, <1>15, <1>16, <1>17 DEF ADTSInv, FilesT

------------------------------------------------------------------------------
LEMMA ADTSInvInit == ADTSInit => ADTSInv
<1> SUFFICES ASSUME ADTSInit PROVE ADTSInv
  OBVIOUS
<1>1. /\ file = <<>> /\ frames = <<>> /\ writer = "open" /\ rate \in Rates
      /\ place = 0 /\ probed = FALSE /\ given = <<>> /\ pts = 0 /\ config = NoConfig
  BY DEF ADTSInit
<1>2. /\ <<>> \in Seq(Cell) /\ <<>> \in Seq(Seq(Cell)) /\ Len(<<>>) = 0
  BY EmptySeq
<1>3. PICK e : e = [j \in 0 .. 0 |-> 0]
  OBVIOUS
<1>4. e \in [0 .. 0 -> Nat] /\ e[0] = 0
  BY <1>3
<1>5. Layout("open", <<>>, <<>>, e)
  BY <1>2, <1>4 DEF Layout
<1>6. GivenBefore("open", FALSE, <<>>, <<>>, 0, e) /\ GivenAll("open", FALSE, <<>>, <<>>, 0, e)
  BY <1>2, <1>4 DEF GivenBefore, GivenAll
<1>7. ReaderT
  <2>1. given \in Seq(Seq(Cell)) /\ Len(file) = 0 /\ 0 \in Nat /\ 0 <= 0
    BY <1>1, <1>2
  <2>2. place \in Nat /\ place <= Len(file) /\ probed \in BOOLEAN
    BY <1>1, <2>1
  <2>3. writer \in {"open", "muxer", "foreign", "short_packet"}
    BY <1>1
  <2>. QED
    BY <1>1, <2>1, <2>2, <2>3, Zenon DEF ReaderT, Reading
<1>8. ParsedFrom
  BY <1>1, <1>2 DEF ParsedFrom, NoConfig
<1>. QED
  BY <1>1, <1>2, <1>5, <1>6, <1>7, <1>8 DEF ADTSInv, FilesT

LEMMA ADTSInvStep == ADTSInv /\ [ADTSNext]_adtsvars => ADTSInv'
<1> SUFFICES ASSUME ADTSInv, [ADTSNext]_adtsvars PROVE ADTSInv'
  OBVIOUS
<1>1. CASE UNCHANGED adtsvars
  BY <1>1 DEF adtsvars, ADTSInv, FilesT, ReaderT, Reading, ParsedFrom
<1>2. CASE ADTSNext
  BY <1>2, MuxerWrites, RawRefused, OthersWrite, StreamsReads, PacketRead, FrameParsed DEF ADTSNext
<1>. QED
  BY <1>1, <1>2

LEMMA FramesAreInOrder == ADTSInv => FramesInOrder
<1> SUFFICES ASSUME ADTSInv, ~Overlong PROVE FramesInOrder
  BY DEF FramesInOrder
<1>1. file \in Seq(Cell) /\ frames \in Seq(Seq(Cell))
  BY DEF ADTSInv, FilesT
<1>2. PICK N \in Nat : N = Len(frames) /\ DOMAIN frames = 1 .. N
  BY <1>1, LenProperties
<1>3. Fit(frames)
  <2> SUFFICES ASSUME NEW j \in 1 .. N PROVE Len(frames[j]) + ADTSHeader < LengthMod
    BY <1>2 DEF Fit
  <2>1. ~(Len(frames[j]) + ADTSHeader >= LengthMod)
    BY <1>2 DEF Overlong
  <2>2. Len(frames[j]) \in Nat
    BY <1>1, <1>2, ElementOfSeq, LenProperties
  <2>. QED
    BY <2>1, <2>2, ADTSAssumption
<1>4. ReaderT /\ ParsedFrom
  BY <1>3 DEF ADTSInv
<1>5. PICK e : /\ Layout(writer, file, frames, e)
               /\ GivenBefore(writer, probed, frames, given, place, e)
               /\ GivenAll(writer, probed, frames, given, place, e)
  BY <1>3 DEF ADTSInv
<1>6. PICK G \in Nat : G = Len(given) /\ DOMAIN given = 1 .. G
  BY <1>4, LenProperties DEF ReaderT
<1>7. \A j \in 1 .. N : Raw(j) = RawOf(frames[j])
  BY DEF Raw, RawOf
<1>8. \A x : \A j \in 1 .. N : Is(x, j) <=> IsFrame(writer, probed, frames, x, j)
  <2> SUFFICES ASSUME NEW x, NEW j \in 1 .. N
               PROVE  Is(x, j) <=> IsFrame(writer, probed, frames, x, j)
    OBVIOUS
  <2>1. j = 1 => Raw(1) = RawOf(frames[1])
    BY <1>7
  <2>. QED
    BY <2>1 DEF Is, IsFrame
<1>9. \A i \in 1 .. G : \E j \in 1 .. N : Is(given[i], j)
  BY <1>2, <1>5, <1>6, <1>8 DEF GivenBefore
<1>10. ASSUME NEW i \in 1 .. G, NEW k \in 1 .. G, i < k
       PROVE  FrameOf(given[i]) < FrameOf(given[k])
  <2>1. /\ FrameOf(given[i]) \in 1 .. N /\ Is(given[i], FrameOf(given[i]))
        /\ FrameOf(given[k]) \in 1 .. N /\ Is(given[k], FrameOf(given[k]))
    BY <1>2, <1>9 DEF FrameOf
  <2>. QED
    BY <1>2, <1>5, <1>6, <1>8, <1>10, <2>1 DEF GivenBefore
<1>11. ASSUME writer = "muxer" \/ ~probed, Left = 0 PROVE G = N
  <2>1. PICK L \in Nat, pl \in Nat : L = Len(file) /\ pl = place
    BY <1>1, <1>4, LenProperties DEF ReaderT
  <2>2. L = pl
    BY <1>11, <2>1 DEF Left
  <2>3. G <= N /\ (place = e[G] \/ (given = <<>> /\ probed /\ frames # <<>> /\ place = ADTSHeader))
    <3>1. writer # "foreign" \/ ~probed
      BY <1>11
    <3>. QED
      BY <1>2, <1>5, <1>6, <3>1 DEF GivenAll
  <2>4. CASE place = e[G]
    <3> SUFFICES ASSUME G # N PROVE FALSE
      OBVIOUS
    <3>1. G \in 0 .. N /\ N \in 0 .. N /\ G < N
      BY <2>3
    <3>2. e[G] < e[N] /\ e[N] = L /\ e[G] \in Nat
      BY <1>2, <1>5, <2>1, <3>1 DEF Layout
    <3>. QED
      BY <2>1, <2>2, <2>4, <3>2
  <2>5. CASE given = <<>> /\ probed /\ frames # <<>> /\ place = ADTSHeader
    <3>1. writer # "foreign"
      BY <1>11, <2>5
    <3>2. Takes(file, ADTSHeader, RawOf(frames[1]), e[1])
      BY <1>1, <1>3, <1>5, <2>5, <3>1, FirstTaken, Zenon
    <3>3. place + ADTSHeader <= Len(file)
      BY <2>5, <3>2 DEF Takes, HasHeader
    <3>. QED
      BY <2>1, <2>2, <3>3, ADTSAssumption
  <2>. QED
    BY <2>3, <2>4, <2>5
<1>12. rate # 12 => pts = Len(given) * TrueDuration(rate)
  BY <1>4, <1>6 DEF ParsedFrom, TrueDuration
<1>13. config.known => \E j \in 1 .. N : config.frame = Raw(j)
  BY <1>2, <1>4, <1>7 DEF ParsedFrom
<1>14. writer # "bad_length"
  BY <1>4 DEF ReaderT
<1>. QED
  BY <1>2, <1>6, <1>9, <1>10, <1>11, <1>12, <1>13, <1>14 DEF FramesInOrder

------------------------------------------------------------------------------
(* Datagrams. *)

\* The bounds of the model.
LEMMA Bounds ==
  /\ \A x \in Pads : x \in Nat
  /\ \A x \in Tails : x \in Nat
  /\ \A x \in 0 .. MaxCSRC : x \in Nat
  /\ \A x \in 0 .. MaxReports : x \in Nat
  /\ \A x \in 0 .. 7 + 6 * MaxReports : x \in Nat
<1>1. (\A x \in Pads : x \in Nat) /\ (\A x \in Tails : x \in Nat)
  BY Zenon, DatagramAssumption
<1>2. MaxCSRC \in Nat /\ MaxReports \in Nat
  BY DatagramAssumption
<1>. QED
  BY <1>1, <1>2

------------------------------------------------------------------------------
(* RTP. *)

\* An RTP datagram as the network leaves it.
RTPArrived ==
  {a \in [kind : {"rtp"}, version : {1, 2}, padding : BOOLEAN, extension : BOOLEAN,
          csrc_count : 0 .. MaxCSRC, ext_length : 0 .. 1, payload : Tails,
          pad : Pads, size : Nat, last : Nat] :
     /\ a.padding <=> a.pad > 0
     /\ a.size = RTPWhole(a) => a.last = a.pad}

LEMMA ArrivedRTP ==
  ASSUME NEW d \in RTPSent, NEW n \in 0 .. Whole(d), NEW last \in LastBytes(d, n)
  PROVE  Arrived(d, n, last) \in RTPArrived
<1> DEFINE a == Arrived(d, n, last)
<1>0. d.pad \in Pads /\ last \in Pads
  BY DEF LastBytes, RTPSent
<1>1. d.pad \in Nat /\ last \in Nat /\ n \in Nat
  BY <1>0, Bounds
<1>2. /\ a \in [kind : {"rtp"}, version : {1, 2}, padding : BOOLEAN, extension : BOOLEAN,
                csrc_count : 0 .. MaxCSRC, ext_length : 0 .. 1, payload : Tails,
                pad : Pads, size : Nat, last : Nat]
      /\ a.padding = d.padding /\ a.extension = d.extension /\ a.csrc_count = d.csrc_count
      /\ a.ext_length = d.ext_length /\ a.payload = d.payload /\ a.pad = d.pad
      /\ a.size = n /\ a.last = last
  BY <1>1 DEF Arrived, RTPSent
<1>3. RTPWhole(a) = RTPWhole(d)
  BY <1>2 DEF RTPWhole, ExtensionBytes
<1>4. d.kind = "rtp" /\ (d.padding <=> d.pad > 0)
  BY DEF RTPSent
<1>5. n = RTPWhole(d) => last = d.pad
  BY <1>4 DEF LastBytes, Whole
<1>. QED
  BY <1>2, <1>3, <1>4, <1>5 DEF RTPArrived

\* Bytes of an RTP datagram's parts.
LEMMA RTPSizes ==
  ASSUME NEW a \in RTPArrived
  PROVE  /\ a.size \in Nat /\ a.last \in Nat /\ a.pad \in Nat /\ a.payload \in Nat
         /\ a.csrc_count \in Nat
         /\ AfterCSRC(a) \in Nat /\ AfterCSRC(a) = 12 + 4 * a.csrc_count
         /\ AfterExtension(a) \in Nat /\ AfterCSRC(a) <= AfterExtension(a)
         /\ RTPWhole(a) = AfterExtension(a) + a.payload + a.pad
<1>0. /\ a.size \in Nat /\ a.last \in Nat /\ a.pad \in Pads /\ a.payload \in Tails
      /\ a.csrc_count \in 0 .. MaxCSRC /\ a.ext_length \in 0 .. 1
  BY DEF RTPArrived
<1>1. /\ a.size \in Nat /\ a.last \in Nat /\ a.pad \in Nat /\ a.payload \in Nat
      /\ a.csrc_count \in Nat /\ a.ext_length \in Nat
  BY <1>0, Bounds
<1>2. ExtensionBytes(a) \in Nat
  BY <1>1 DEF ExtensionBytes, Word
<1>. QED
  BY <1>1, <1>2 DEF AfterCSRC, AfterExtension, RTPWhole, RTPHeader, Word

\* The fields that parse_rtp gives follow each other within the datagram.
LEMMA RTPTaken ==
  ASSUME NEW a \in RTPArrived, NEW p, p = parse_rtp(a), p.outcome = "ok"
  PROVE  RTPTiles(a, p)
<1>1. /\ AfterExtension(a) <= a.size
      /\ a.padding => PaddingFits(a)
      /\ p.csrc = [i \in 1 .. a.csrc_count |-> RTPHeader + Word * (i - 1)]
      /\ p.extension_data = IF a.extension THEN <<AfterCSRC(a) + Word, AfterExtension(a)>>
                                 ELSE Nothing
      /\ p.payload = <<AfterExtension(a), a.size - (IF a.padding THEN a.last ELSE 0)>>
  BY RTPSizes DEF parse_rtp, Invalid
<1>2. /\ p.payload[1] = AfterExtension(a)
      /\ p.payload[2] = a.size - (IF a.padding THEN a.last ELSE 0)
  BY <1>1
<1>3. ASSUME NEW i \in DOMAIN p.csrc
      PROVE  p.csrc[i] + Word <= AfterExtension(a)
  <2>1. i \in 1 .. a.csrc_count /\ p.csrc[i] = 12 + 4 * (i - 1)
    BY <1>1, <1>3 DEF RTPHeader, Word
  <2>. QED
    BY <2>1, RTPSizes DEF Word
<1>4. p.extension_data = Nothing \/ p.extension_data[2] = AfterExtension(a)
  BY <1>1
<1>5. p.payload[1] <= p.payload[2] /\ p.payload[2] <= a.size
  BY <1>1, <1>2, RTPSizes DEF PaddingFits
<1>. QED
  BY <1>2, <1>3, <1>4, <1>5 DEF RTPTiles

\* One that arrives whole is taken, with its payload.
LEMMA RTPWholeTaken ==
  ASSUME NEW a \in RTPArrived, a.version = 2, a.size = RTPWhole(a)
  PROVE  /\ parse_rtp(a).outcome = "ok"
         /\ parse_rtp(a).payload[2] - parse_rtp(a).payload[1] = a.payload
<1>1. a.size = AfterExtension(a) + a.payload + a.pad /\ AfterExtension(a) >= RTPHeader
  BY RTPSizes DEF RTPHeader
<1>2. a.last = a.pad /\ (a.padding <=> a.pad > 0) /\ a.padding \in BOOLEAN
  BY DEF RTPArrived
<1>3. a.size >= RTPHeader /\ AfterExtension(a) <= a.size
  BY <1>1, RTPSizes DEF RTPHeader
<1>4. a.padding => PaddingFits(a)
  BY <1>1, <1>2, RTPSizes DEF PaddingFits
<1>5. ~(a.size < RTPHeader) /\ ~(AfterExtension(a) > a.size)
  BY <1>3, RTPSizes DEF RTPHeader
<1>6. /\ parse_rtp(a).outcome = "ok"
      /\ parse_rtp(a).payload = <<AfterExtension(a), a.size - (IF a.padding THEN a.last ELSE 0)>>
  BY <1>4, <1>5 DEF parse_rtp
<1>7. IF a.padding THEN a.last = a.pad ELSE a.pad = 0
  BY <1>2, RTPSizes
<1>. QED
  BY <1>1, <1>6, <1>7, RTPSizes

LEMMA RTPNoPanic ==
  ASSUME NEW a
  PROVE  parse_rtp(a).outcome # "panic"
  BY DEF parse_rtp, Invalid

------------------------------------------------------------------------------
(* RTCP. *)

\* An RTCP packet as the network leaves it.
RTCPArrived ==
  {a \in [kind : {"rtcp"}, version : {1, 2}, packet_type : {200, 201, 202}, padding : BOOLEAN,
          count : 0 .. MaxReports, length : 0 .. 7 + 6 * MaxReports, tail : Tails,
          pad : Pads, size : Nat, last : Nat] :
     a.size = RTCPPacketSize(a) + a.tail => a.last = a.pad}

LEMMA ArrivedRTCP ==
  ASSUME NEW d \in RTCPFields, NEW n \in 0 .. Whole(d), NEW last \in LastBytes(d, n)
  PROVE  /\ Arrived(d, n, last) \in RTCPArrived
         /\ Arrived(d, n, last).size <= Whole(Arrived(d, n, last))
<1> DEFINE a == Arrived(d, n, last)
<1>0. d.pad \in Pads /\ last \in Pads
  BY DEF LastBytes, RTCPFields
<1>1. d.pad \in Nat /\ last \in Nat /\ n \in Nat
  BY <1>0, Bounds
<1>2. /\ a \in [kind : {"rtcp"}, version : {1, 2}, packet_type : {200, 201, 202},
                padding : BOOLEAN, count : 0 .. MaxReports, length : 0 .. 7 + 6 * MaxReports,
                tail : Tails, pad : Pads, size : Nat, last : Nat]
      /\ a.kind = d.kind /\ a.length = d.length /\ a.tail = d.tail /\ a.pad = d.pad
      /\ a.size = n /\ a.last = last
  <2>1. PICK b : b = [d EXCEPT !.size = n]
    OBVIOUS
  <2>2. /\ b \in [kind : {"rtcp"}, version : {1, 2}, packet_type : {200, 201, 202},
                  padding : BOOLEAN, count : 0 .. MaxReports, length : 0 .. 7 + 6 * MaxReports,
                  tail : Tails, pad : Pads, size : Nat, last : {0}]
        /\ b.kind = d.kind /\ b.length = d.length /\ b.tail = d.tail /\ b.pad = d.pad
        /\ b.size = n
    BY <1>1, <2>1 DEF RTCPFields
  <2>3. a = [b EXCEPT !.last = last]
    BY <2>1, Zenon DEF Arrived
  <2>4. a \in [kind : {"rtcp"}, version : {1, 2}, packet_type : {200, 201, 202},
               padding : BOOLEAN, count : 0 .. MaxReports, length : 0 .. 7 + 6 * MaxReports,
               tail : Tails, pad : Pads, size : Nat, last : Nat]
    BY <1>1, <2>2, <2>3
  <2>5. /\ a.kind = d.kind /\ a.length = d.length /\ a.tail = d.tail /\ a.pad = d.pad
        /\ a.size = n /\ a.last = last
    <3>. HIDE DEF a
    <3>. QED
      BY <2>2, <2>3
  <2>. QED
    BY <2>4, <2>5
<1>3. d.kind # "rtp" /\ Whole(d) = RTCPPacketSize(d) + d.tail
  BY DEF RTCPFields, Whole
<1>4. Whole(a) = RTCPPacketSize(a) + a.tail /\ Whole(a) = Whole(d)
  BY <1>2, <1>3 DEF Whole, RTCPPacketSize
<1>5. n = RTCPPacketSize(a) + a.tail => last = d.pad
  BY <1>4 DEF LastBytes
<1>6. a \in RTCPArrived
  BY <1>2, <1>5 DEF RTCPArrived
<1>7. a.size <= Whole(a)
  BY <1>2, <1>4
<1>. QED
  BY <1>6, <1>7

\* Bytes of an RTCP packet's parts.
LEMMA RTCPSizes ==
  ASSUME NEW a \in RTCPArrived
  PROVE  /\ a.size \in Nat /\ a.last \in Nat /\ a.pad \in Nat /\ a.tail \in Nat
         /\ a.count \in Nat /\ a.length \in Nat /\ a.padding \in BOOLEAN
         /\ a.packet_type \in {200, 201, 202}
         /\ RTCPPacketSize(a) \in Nat /\ RTCPPacketSize(a) >= 4
         /\ FixedSize(a) = IF a.packet_type = 200 THEN 28 ELSE 8
         /\ RTCPEnd(a) = a.size - (IF a.padding THEN a.last ELSE 0)
<1>0. /\ a.size \in Nat /\ a.last \in Nat /\ a.pad \in Pads /\ a.tail \in Tails
      /\ a.count \in 0 .. MaxReports /\ a.length \in 0 .. 7 + 6 * MaxReports
      /\ a.padding \in BOOLEAN /\ a.packet_type \in {200, 201, 202}
  BY DEF RTCPArrived
<1>1. /\ a.pad \in Nat /\ a.tail \in Nat /\ a.count \in Nat /\ a.length \in Nat
  BY <1>0, Bounds
<1>. QED
  BY <1>0, <1>1 DEF RTCPPacketSize, FixedSize, RTCPEnd, Word, SenderInfo

\* The fixed part is the first read, the report blocks follow it.
LEMMA ReadsOf ==
  ASSUME NEW a \in RTCPArrived
  PROVE  /\ DOMAIN Reads(a) = 1 .. a.count + 1
         /\ Reads(a)[1] = [at |-> 4, checked |-> IF a.packet_type = 200 THEN 20 ELSE 4,
                           taken |-> FixedSize(a) - 4]
         /\ \A i \in 2 .. a.count + 1 :
              Reads(a)[i] = [at |-> FixedSize(a) + 24 * (i - 2), checked |-> 24, taken |-> 24]
<1> DEFINE fixed == [at |-> Word, checked |-> IF a.packet_type = 200 THEN 20 ELSE 4,
                     taken |-> FixedSize(a) - Word]
           blocks == [i \in 1 .. a.count |-> [at |-> ReportAt(a, i), checked |-> ReportSize,
                                              taken |-> ReportSize]]
           All == {fixed} \cup {blocks[i] : i \in 1 .. a.count}
<1>1. a.count \in Nat /\ FixedSize(a) \in Nat
  BY RTCPSizes
<1>2. blocks \in [1 .. a.count -> All] /\ fixed \in All
  OBVIOUS
<1>3. blocks \in Seq(All) /\ Len(blocks) = a.count
  <2> HIDE DEF blocks, All
  <2>. QED
    BY <1>1, <1>2
<1>4. <<fixed>> \in Seq(All) /\ Len(<<fixed>>) = 1 /\ <<fixed>>[1] = fixed
  <2> HIDE DEF fixed, All
  <2>. QED
    BY <1>2
<1>5. /\ <<fixed>> \o blocks \in Seq(All)
      /\ Len(<<fixed>> \o blocks) = 1 + a.count
      /\ \A i \in 1 .. 1 + a.count :
           (<<fixed>> \o blocks)[i] = IF i <= 1 THEN <<fixed>>[i] ELSE blocks[i - 1]
  <2> HIDE DEF fixed, blocks, All
  <2>. QED
    BY <1>1, <1>3, <1>4, ConcatProperties
<1>6. Reads(a) = <<fixed>> \o blocks
  BY DEF Reads
<1>7. DOMAIN Reads(a) = 1 .. a.count + 1 /\ Reads(a)[1] = fixed
  <2> HIDE DEF fixed, blocks, All
  <2>. QED
    BY <1>1, <1>4, <1>5, <1>6
<1>8. ASSUME NEW i \in 2 .. a.count + 1
      PROVE  Reads(a)[i] = [at |-> FixedSize(a) + 24 * (i - 2), checked |-> 24, taken |-> 24]
  <2>1. Reads(a)[i] = blocks[i - 1] /\ i - 1 \in 1 .. a.count
    <3> HIDE DEF fixed, blocks, All
    <3>. QED
      BY <1>1, <1>5, <1>6
  <2>2. blocks[i - 1] = [at |-> ReportAt(a, i - 1), checked |-> ReportSize, taken |-> ReportSize]
    BY <2>1
  <2>3. (i - 1) - 1 = i - 2
    BY <1>1
  <2>. QED
    BY <2>1, <2>2, <2>3 DEF ReportAt, ReportSize
<1>. QED
  BY <1>7, <1>8 DEF Word

LEMMA ReadFields ==
  ASSUME NEW a \in RTCPArrived, NEW i \in DOMAIN Reads(a)
  PROVE  /\ i \in 1 .. a.count + 1
         /\ i = 1 => /\ Reads(a)[i].at = 4
                     /\ Reads(a)[i].checked = IF a.packet_type = 200 THEN 20 ELSE 4
                     /\ Reads(a)[i].taken = FixedSize(a) - 4
         /\ i # 1 => /\ Reads(a)[i].at = FixedSize(a) + 24 * (i - 2)
                     /\ Reads(a)[i].checked = 24 /\ Reads(a)[i].taken = 24
<1>1. DOMAIN Reads(a) = 1 .. a.count + 1
  BY ReadsOf
<1>2. i \in 1 .. a.count + 1
  BY <1>1
<1>3. i # 1 => i \in 2 .. a.count + 1
  BY <1>2, RTCPSizes
<1>4. Reads(a)[1] = [at |-> 4, checked |-> IF a.packet_type = 200 THEN 20 ELSE 4,
                     taken |-> FixedSize(a) - 4]
  BY ReadsOf
<1>5. i # 1 => Reads(a)[i] = [at |-> FixedSize(a) + 24 * (i - 2), checked |-> 24, taken |-> 24]
  BY <1>3, ReadsOf
<1>. QED
  BY <1>2, <1>4, <1>5

\* A read that finds the bytes it checks for, and reads no more, is done.
LEMMA ReadDone ==
  ASSUME NEW a \in RTCPArrived, NEW overflow_checks, NEW r,
         r.at \in Nat, r.checked \in Nat, r.taken \in Nat, r.checked > 0,
         ReadOutcome(a, overflow_checks, r) = "ok"
  PROVE  /\ r.at + r.taken <= a.size
         /\ RTCPEnd(a) >= r.at => RTCPEnd(a) >= r.at + r.checked
<1>1. a.size \in Nat /\ RTCPEnd(a) \in Int
  BY RTCPSizes
<1>2. ~(r.at + r.taken > a.size)
  BY DEF ReadOutcome
<1>3. RTCPEnd(a) \notin r.at .. r.at + r.checked - 1
  BY DEF ReadOutcome
<1>. QED
  BY <1>1, <1>2, <1>3

\* A packet of a sender that follows the format ends behind every report.
LEMMA ConformingTaken ==
  ASSUME NEW a \in RTCPArrived, NEW overflow_checks, Conforms(a), a.packet_type # 202,
         RTCPPacketSize(a) <= a.size, a.size <= Whole(a)
  PROVE  parse_rtcp(a, overflow_checks) = Report(a)
<1> DEFINE behind == FixedSize(a) + 24 * a.count
<1>0. behind \in Nat /\ behind >= FixedSize(a) /\ FixedSize(a) \in {8, 28} /\ a.count \in Nat
  BY RTCPSizes
<1>1. behind + a.pad = RTCPPacketSize(a) /\ (a.padding <=> a.pad > 0)
  BY DEF Conforms, ReportSize
<1>2. a.padding => a.size = RTCPPacketSize(a) /\ a.last = a.pad
  <2>1. a.padding => a.tail = 0
    BY DEF Conforms
  <2>2. Whole(a) = RTCPPacketSize(a) + a.tail
    BY DEF Whole, RTCPArrived
  <2>3. a.padding => a.size = RTCPPacketSize(a) + a.tail /\ a.size = RTCPPacketSize(a)
    BY <2>1, <2>2, RTCPSizes
  <2>. QED
    BY <2>3 DEF RTCPArrived
<1>3. RTCPEnd(a) >= behind /\ a.size >= behind
  <2> HIDE DEF behind
  <2>. QED
    BY <1>0, <1>1, <1>2, RTCPSizes
<1>4. ASSUME NEW i \in DOMAIN Reads(a)
      PROVE  ReadOutcome(a, overflow_checks, Reads(a)[i]) = "ok"
  <2>1. i \in 1 .. a.count + 1
    BY <1>4, ReadFields
  <2>4. RTCPEnd(a) \in Int /\ a.size \in Nat
    BY RTCPSizes
  <2>2. /\ Reads(a)[i].at + Reads(a)[i].checked <= behind
        /\ Reads(a)[i].at + Reads(a)[i].taken <= behind
        /\ Reads(a)[i].at \in Nat /\ Reads(a)[i].checked \in Nat /\ Reads(a)[i].taken \in Nat
    <3>1. CASE i = 1
      <4>1. /\ Reads(a)[i].at = 4
            /\ Reads(a)[i].checked = IF a.packet_type = 200 THEN 20 ELSE 4
            /\ Reads(a)[i].taken = FixedSize(a) - 4
        BY <1>4, <3>1, ReadFields
      <4>2. FixedSize(a) = IF a.packet_type = 200 THEN 28 ELSE 8
        BY RTCPSizes
      <4>. QED
        BY <1>0, <4>1, <4>2
    <3>2. CASE i # 1
      <4>1. /\ Reads(a)[i].at = FixedSize(a) + 24 * (i - 2)
            /\ Reads(a)[i].checked = 24 /\ Reads(a)[i].taken = 24
        BY <1>4, <3>2, ReadFields
      <4>2. i - 2 \in Nat /\ i - 2 <= a.count - 1 /\ FixedSize(a) \in Nat
        BY <1>0, <2>1, <3>2
      <4>. QED
        BY <1>0, <4>1, <4>2
    <3>. QED
      BY <3>1, <3>2
  <2>3. /\ ~(RTCPEnd(a) < Reads(a)[i].at)
        /\ RTCPEnd(a) \notin Reads(a)[i].at .. Reads(a)[i].at + Reads(a)[i].checked - 1
        /\ ~(Reads(a)[i].at + Reads(a)[i].taken > a.size)
    <3> HIDE DEF behind
    <3>. QED
      BY <1>0, <1>3, <2>4, <2>2
  <2>. QED
    BY <2>3 DEF ReadOutcome
<1>5. ~(a.size < Word) /\ a.version = 2 /\ ~(a.size < RTCPPacketSize(a)) /\ ~(RTCPEnd(a) < 0)
  <2> HIDE DEF behind
  <2>. QED
    BY <1>0, <1>3, RTCPSizes DEF Word, Conforms
<1>6. a.packet_type \in {200, 201}
  BY RTCPSizes
<1>. QED
  BY <1>4, <1>5, <1>6 DEF parse_rtcp

\* What is known of a packet that is parsed as far as its reads.
LEMMA ParsedReads ==
  ASSUME NEW a \in RTCPArrived, NEW overflow_checks,
         parse_rtcp(a, overflow_checks).outcome \in {"ok", "panic"}
  PROVE  /\ RTCPPacketSize(a) <= a.size
         /\ \/ parse_rtcp(a, overflow_checks) = Report(a)
            \/ /\ parse_rtcp(a, overflow_checks).outcome = "panic"
               /\ \/ RTCPEnd(a) < 0
                  \/ \E i \in DOMAIN Reads(a) :
                       /\ ReadOutcome(a, overflow_checks, Reads(a)[i]) = "panic"
                       /\ \A k \in DOMAIN Reads(a) :
                            k < i => ReadOutcome(a, overflow_checks, Reads(a)[k]) = "ok"
<1> DEFINE Outcome(i) == ReadOutcome(a, overflow_checks, Reads(a)[i])
           failing == {i \in DOMAIN Reads(a) : Outcome(i) # "ok"}
           least == CHOOSE i \in failing : \A k \in failing : i <= k
<1>1. ~(a.size < Word \/ a.version # 2 \/ a.size < RTCPPacketSize(a))
  BY DEF parse_rtcp, Invalid
<1>2. RTCPPacketSize(a) <= a.size
  BY <1>1, RTCPSizes
<1>3. CASE RTCPEnd(a) < 0 /\ overflow_checks
  BY <1>1, <1>2, <1>3 DEF parse_rtcp
<1>4. CASE ~(RTCPEnd(a) < 0 /\ overflow_checks) /\ failing = {}
  BY <1>1, <1>2, <1>4 DEF parse_rtcp, Unsupported
<1>5. CASE ~(RTCPEnd(a) < 0 /\ overflow_checks) /\ failing # {}
  <2>0. \A k \in DOMAIN Reads(a) : k \in Nat
    BY ReadFields
  <2>1. failing \subseteq Nat
    BY <2>0
  <2>2. least \in failing /\ \A k \in failing : least <= k
    <3> HIDE DEF failing
    <3>1. \E i \in failing : \A k \in failing : i <= k
      BY <1>5, <2>1, Least
    <3>. QED
      BY <3>1
  <2>3. parse_rtcp(a, overflow_checks) = [outcome |-> Outcome(least)]
    BY <1>1, <1>5 DEF parse_rtcp, Unsupported
  <2>4. Outcome(least) = "panic" /\ parse_rtcp(a, overflow_checks).outcome = "panic"
    BY <2>2, <2>3
  <2>5. \A k \in DOMAIN Reads(a) : k < least => Outcome(k) = "ok"
    <3>2. least \in Nat
      BY <2>1, <2>2
    <3>3. \A k \in DOMAIN Reads(a) : k < least => k \notin failing
      <4> HIDE DEF least, failing
      <4>. QED
        BY <2>0, <2>2, <3>2
    <3>. QED
      BY <3>3
  <2>. QED
    BY <1>2, <2>2, <2>4, <2>5
<1>. QED
  BY <1>3, <1>4, <1>5

\* The reports of a packet that was taken are its blocks, read field by field.
LEMMA RTCPTaken ==
  ASSUME NEW a \in RTCPArrived, NEW overflow_checks, NEW p,
         p = parse_rtcp(a, overflow_checks), p.outcome = "ok"
  PROVE  ReportsTile(a, p) /\ RTCPPacketSize(a) <= a.size
<1>1. RTCPPacketSize(a) <= a.size /\ p = Report(a)
  BY ParsedReads
<1>2. p.reports = [i \in 1 .. a.count |-> parse_reception_report(ReportAt(a, i))]
  BY <1>1 DEF Report
<1>3. ASSUME NEW i \in DOMAIN p.reports
      PROVE  /\ p.reports[i].ssrc[1] = ReportAt(a, i)
             /\ p.reports[i].delay_last_sr[2] = ReportAt(a, i) + ReportSize
  <2>1. i \in 1 .. a.count /\ p.reports[i] = parse_reception_report(ReportAt(a, i))
    BY <1>2, <1>3
  <2>2. ReportAt(a, i) \in Int
    BY <2>1, RTCPSizes DEF ReportAt, ReportSize
  <2>3. /\ p.reports[i].ssrc = <<ReportAt(a, i) + 0, ReportAt(a, i) + 0 + 4>>
        /\ p.reports[i].delay_last_sr = <<ReportAt(a, i) + 20, ReportAt(a, i) + 20 + 4>>
    BY <2>1 DEF parse_reception_report, BytesAt
  <2>4. /\ p.reports[i].ssrc[1] = ReportAt(a, i) + 0
        /\ p.reports[i].delay_last_sr[2] = ReportAt(a, i) + 20 + 4
    BY <2>3
  <2>. QED
    BY <2>2, <2>4 DEF ReportSize
<1>. QED
  BY <1>1, <1>3 DEF ReportsTile

\* A panic needs padding that reaches into the reports, or a type 200 without
\* its fixed part.
LEMMA RTCPPanic ==
  ASSUME NEW a \in RTCPArrived, NEW overflow_checks,
         parse_rtcp(a, overflow_checks).outcome = "panic"
  PROVE  \/ a.padding /\ RTCPEnd(a) < FixedSize(a) + ReportSize * a.count
         \/ a.packet_type = 200 /\ a.size < FixedSize(a)
<1>0. /\ a.size \in Nat /\ a.last \in Nat /\ a.count \in Nat /\ a.padding \in BOOLEAN
      /\ FixedSize(a) = IF a.packet_type = 200 THEN 28 ELSE 8
      /\ RTCPEnd(a) = a.size - (IF a.padding THEN a.last ELSE 0)
      /\ RTCPPacketSize(a) >= 4 /\ RTCPPacketSize(a) \in Nat
  BY RTCPSizes
<1>1. RTCPPacketSize(a) <= a.size
  BY ParsedReads
<1>2. a.size >= 4
  BY <1>0, <1>1
<1>3. CASE RTCPEnd(a) < 0
  BY <1>0, <1>3 DEF ReportSize
<1>4. ASSUME NEW i \in DOMAIN Reads(a),
             ReadOutcome(a, overflow_checks, Reads(a)[i]) = "panic",
             \A k \in DOMAIN Reads(a) :
               k < i => ReadOutcome(a, overflow_checks, Reads(a)[k]) = "ok",
             ~(a.padding /\ RTCPEnd(a) < FixedSize(a) + ReportSize * a.count)
      PROVE  a.packet_type = 200 /\ a.size < FixedSize(a)
  <2> DEFINE r == Reads(a)[i]
  <2>1. i \in 1 .. a.count + 1
    BY <1>4, ReadFields
  <2>2. \/ RTCPEnd(a) < r.at
        \/ /\ r.at + r.taken > a.size
           /\ RTCPEnd(a) \notin r.at .. r.at + r.checked - 1
    BY <1>4 DEF ReadOutcome
  <2>3. CASE i = 1
    <3>1. /\ r.at = 4 /\ r.taken = FixedSize(a) - 4
          /\ r.checked = IF a.packet_type = 200 THEN 20 ELSE 4
      BY <1>4, <2>3, ReadFields
    <3> HIDE DEF r
    <3>2. CASE a.padding
      <4>1. RTCPEnd(a) >= FixedSize(a) /\ a.size >= RTCPEnd(a)
        BY <1>0, <1>4, <3>2 DEF ReportSize
      <4>. QED
        BY <1>0, <2>2, <3>1, <4>1
    <3>3. CASE ~a.padding
      BY <1>0, <1>2, <2>2, <3>1, <3>3
    <3>. QED
      BY <1>0, <3>2, <3>3
  <2>4. CASE i # 1
    <3>1. /\ r.at = FixedSize(a) + 24 * (i - 2) /\ r.checked = 24 /\ r.taken = 24
      BY <1>4, <2>4, ReadFields
    <3>2. r.at + 24 <= FixedSize(a) + 24 * a.count /\ r.at \in Nat
      BY <1>0, <2>1, <2>4, <3>1
    <3>3. CASE a.padding
      <4>1. RTCPEnd(a) >= FixedSize(a) + 24 * a.count /\ a.size >= RTCPEnd(a)
        BY <1>0, <1>4, <3>3 DEF ReportSize
      <4> HIDE DEF r
      <4>. QED
        BY <1>0, <2>2, <3>1, <3>2, <4>1
    <3>4. CASE ~a.padding
      <4>1. i - 1 \in DOMAIN Reads(a) /\ i - 1 < i
        <5>1. DOMAIN Reads(a) = 1 .. a.count + 1
          BY ReadsOf
        <5>2. i - 1 \in 1 .. a.count + 1 /\ i - 1 < i
          BY <1>0, <2>1, <2>4
        <5>. QED
          BY <5>1, <5>2
      <4>2. ReadOutcome(a, overflow_checks, Reads(a)[i - 1]) = "ok"
        BY <1>4, <4>1
      <4>3. Reads(a)[i - 1].at + Reads(a)[i - 1].taken = r.at
        <5>1. CASE i = 2
          <6>1. Reads(a)[1].at = 4 /\ Reads(a)[1].taken = FixedSize(a) - 4
            BY <4>1, <5>1, ReadFields
          <6>. QED
            BY <1>0, <3>1, <5>1, <6>1
        <5>2. CASE i # 2
          <6>1. i - 1 # 1
            BY <2>1, <5>2, <1>0
          <6>2. /\ Reads(a)[i - 1].at = FixedSize(a) + 24 * ((i - 1) - 2)
                /\ Reads(a)[i - 1].taken = 24
            BY <4>1, <6>1, ReadFields
          <6>. QED
            BY <1>0, <2>1, <3>1, <6>2
        <5>. QED
          BY <5>1, <5>2
      <4>4. ~(Reads(a)[i - 1].at + Reads(a)[i - 1].taken > a.size)
        BY <4>2 DEF ReadOutcome
      <4>5. r.at <= a.size
        BY <1>0, <3>2, <4>3, <4>4
      <4> HIDE DEF r
      <4>. QED
        BY <1>0, <2>2, <3>1, <3>2, <3>4, <4>5
    <3>. QED
      BY <1>0, <3>3, <3>4
  <2>. QED
    BY <2>3, <2>4
<1>5. CASE \E i \in DOMAIN Reads(a) :
             /\ ReadOutcome(a, overflow_checks, Reads(a)[i]) = "panic"
             /\ \A k \in DOMAIN Reads(a) :
                  k < i => ReadOutcome(a, overflow_checks, Reads(a)[k]) = "ok"
  BY <1>4, <1>5
<1>6. parse_rtcp(a, overflow_checks) # Report(a)
  BY DEF Report
<1>. QED
  BY <1>3, <1>5, <1>6, ParsedReads

------------------------------------------------------------------------------
LEMMA ReceiveRTPExact == ReceiveRTP => DatagramsExact'
<1> SUFFICES ASSUME NEW a \in RTPArrived, datagram' = a, parsed' = parse_rtp(a)
             PROVE  DatagramsExact'
  BY ArrivedRTP DEF ReceiveRTP
<1>1. a.kind = "rtp" /\ Whole(a) = RTPWhole(a)
  BY DEF RTPArrived, Whole
<1>2. WasTaken(parsed') => RTPTiles(datagram', parsed')
  BY RTPTaken DEF WasTaken
<1>. QED
  BY <1>1, <1>2, RTPWholeTaken, RTPNoPanic DEF DatagramsExact, WasTaken

LEMMA ReceiveRTCPExact == ReceiveRTCP => DatagramsExact'
<1> SUFFICES ASSUME NEW a \in RTCPArrived, a.size <= Whole(a), NEW overflow_checks,
                    datagram' = a, parsed' = parse_rtcp(a, overflow_checks)
             PROVE  DatagramsExact'
  <2> SUFFICES ASSUME NEW d \in RTCPFields, NEW overflow_checks \in BOOLEAN,
                      NEW n \in 0 .. Whole(d), NEW last \in LastBytes(d, n),
                      datagram' = Arrived(d, n, last),
                      parsed' = parse_rtcp(Arrived(d, n, last), overflow_checks)
               PROVE  DatagramsExact'
    BY DEF ReceiveRTCP
  <2>1. Arrived(d, n, last) \in RTCPArrived /\ Arrived(d, n, last).size <= Whole(Arrived(d, n, last))
    BY ArrivedRTCP
  <2>. QED
    BY <2>1
<1>1. a.kind = "rtcp"
  BY DEF RTCPArrived
<1>2. WasTaken(parsed') => ReportsTile(datagram', parsed') /\ RTCPPacketSize(a) <= a.size
  BY RTCPTaken DEF WasTaken
<1>3. Conforms(a) /\ a.packet_type # 202 /\ RTCPPacketSize(a) <= a.size
        => WasTaken(parsed') /\ Len(parsed'.reports) = a.count
  <2> SUFFICES ASSUME Conforms(a), a.packet_type # 202, RTCPPacketSize(a) <= a.size
               PROVE  WasTaken(parsed') /\ Len(parsed'.reports) = a.count
    OBVIOUS
  <2>1. parsed' = Report(a)
    BY ConformingTaken
  <2>2. parsed'.reports = [i \in 1 .. a.count |-> parse_reception_report(ReportAt(a, i))]
    BY <2>1 DEF Report
  <2>3. a.count \in Nat
    BY RTCPSizes
  <2>4. Len([i \in 1 .. a.count |-> parse_reception_report(ReportAt(a, i))]) = a.count
    BY <2>3
  <2>5. parsed'.outcome = "ok"
    BY <2>1 DEF Report
  <2>6. Len(parsed'.reports) = a.count
    BY <2>2, <2>4
  <2>. QED
    BY <2>5, <2>6 DEF WasTaken
<1>4. parsed'.outcome = "panic" =>
        \/ a.padding /\ RTCPEnd(a) < FixedSize(a) + ReportSize * a.count
        \/ a.packet_type = 200 /\ a.size < FixedSize(a)
  BY RTCPPanic
<1>. QED
  BY <1>1, <1>2, <1>3, <1>4 DEF DatagramsExact

------------------------------------------------------------------------------
(* Texts: what is last of its name. *)

LEMMA Greatest ==
  ASSUME NEW n \in Nat, NEW P, P \subseteq 1 .. n, P # {}
  PROVE  \E i \in P : \A k \in P : k <= i
<1>. DEFINE S == {n - i : i \in P}
<1>1. S \subseteq Nat /\ S # {}
  <2>1. ASSUME NEW i \in P PROVE n - i \in Nat
    <3>1. i \in 1 .. n
      OBVIOUS
    <3>. QED
      BY <3>1
  <2>. QED
    BY <2>1
<1>2. PICK a \in S : \A b \in S : a <= b
  <2>. HIDE DEF S
  <2>. QED
    BY <1>1, Least
<1>3. PICK i \in P : a = n - i
  BY <1>2
<1>4. ASSUME NEW k \in P PROVE k <= i
  <2>1. n - k \in S /\ i \in 1 .. n /\ k \in 1 .. n
    OBVIOUS
  <2>2. n - i <= n - k
    BY <1>2, <1>3, <2>1
  <2>. QED
    BY <2>1, <2>2
<1>. QED
  BY <1>4

LEMMA LastIs ==
  ASSUME NEW n \in Nat, NEW P, P \subseteq 1 .. n, P # {}, NEW s
  PROVE  \E i \in P : LastOf(s, P) = s[i] /\ \A k \in P : k <= i
BY Greatest DEF LastOf

LEMMA RangeJoined ==
  ASSUME NEW T, NEW h \in Seq(T), NEW p \in Seq(T)
  PROVE  (h \o p) \in Seq(T) /\ ToSet(h \o p) = ToSet(h) \cup ToSet(p)
<1>. DEFINE w == h \o p
<1>1. /\ w \in Seq(T) /\ Len(w) = Len(h) + Len(p)
      /\ \A i \in 1 .. Len(h) : w[i] = h[i]
      /\ \A i \in 1 .. Len(p) : w[Len(h) + i] = p[i]
  BY Joined
<1>2. PICK a \in Nat, b \in Nat : a = Len(h) /\ b = Len(p) /\ Len(w) = a + b
  BY <1>1
<1>3. ASSUME NEW x \in ToSet(w) PROVE x \in ToSet(h) \cup ToSet(p)
  <2>1. PICK i \in 1 .. a + b : x = w[i]
    BY <1>1, <1>2 DEF ToSet
  <2>2. CASE i <= a
    BY <1>1, <1>2, <2>1, <2>2 DEF ToSet
  <2>3. CASE ~(i <= a)
    <3>1. PICK j \in 1 .. b : i = a + j
      <4>1. i - a \in 1 .. b /\ i = a + (i - a)
        BY <2>3
      <4>. QED
        BY <4>1
    <3>. QED
      BY <1>1, <1>2, <2>1, <3>1 DEF ToSet
  <2>. QED
    BY <2>2, <2>3
<1>4. ASSUME NEW x \in ToSet(h) PROVE x \in ToSet(w)
  <2>1. PICK i \in 1 .. a : x = h[i]
    BY <1>2 DEF ToSet
  <2>2. i \in 1 .. Len(w) /\ w[i] = x
    BY <1>1, <1>2, <2>1
  <2>3. DOMAIN w = 1 .. Len(w)
    BY <1>1
  <2>. QED
    BY <2>2, <2>3, Zenon DEF ToSet
<1>5. ASSUME NEW x \in ToSet(p) PROVE x \in ToSet(w)
  <2>1. PICK i \in 1 .. b : x = p[i]
    BY <1>2 DEF ToSet
  <2>2. a + i \in 1 .. Len(w) /\ w[a + i] = x
    BY <1>1, <1>2, <2>1
  <2>. QED
    BY <1>1, <2>2 DEF ToSet
<1>. QED
  BY <1>1, <1>3, <1>4, <1>5

LEMMA RangeOne ==
  ASSUME NEW T, NEW x \in T
  PROVE  <<x>> \in Seq(T) /\ ToSet(<<x>>) = {x}
BY DEF ToSet

LEMMA RangeNone ==
  ASSUME NEW T
  PROVE  <<>> \in Seq(T) /\ ToSet(<<>>) = {}
BY DEF ToSet

LEMMA PairJoined ==
  ASSUME NEW x, NEW y
  PROVE  <<x>> \o <<y>> = <<x, y>>
<1>1. PICK T : x \in T /\ y \in T
  <2>1. x \in {x, y} /\ y \in {x, y}
    OBVIOUS
  <2>. QED
    BY <2>1
<1>2. PICK a \in Seq(T) : a = <<x>>
  BY <1>1, RangeOne
<1>3. PICK b \in Seq(T) : b = <<y>>
  BY <1>1, RangeOne
<1>4. PICK w : w = a \o b
  OBVIOUS
<1>5. w \in Seq(T) /\ Len(w) = 2 /\ w[1] = x /\ w[2] = y
  <2>1. Len(a) = 1 /\ a[1] = x /\ Len(b) = 1 /\ b[1] = y
    BY <1>2, <1>3
  <2>. QED
    BY <1>4, <2>1, ConcatProperties
<1>6. w = <<x, y>>
  BY <1>5
<1>. QED
  BY <1>2, <1>3, <1>4, <1>6

------------------------------------------------------------------------------
(* The Transport header. *)

PortsGiven == {<<Absent, Absent>>, <<<<"p">>, <<"q">>>>, <<Absent, <<"q">>>>}

ExtraParts == {Part("append", Absent), Part("ttl", <<"v">>)}

Info(cast, client, server, ssrc, mode, extra) ==
  [cast_type |-> cast, client_port |-> client, server_port |-> server,
   ssrc |-> ssrc, mode |-> mode, extra_params |-> extra]

LEMMA SentIs ==
  ASSUME NEW e \in SentParts
  PROVE  /\ e.key = "ssrc" => e.value = <<"s">> \/ e.value = <<"x">>
         /\ e.key = "mode" => e.value = <<"play">>
         /\ e.key \notin KnownKeys \cup {"unicast", "multicast"} => e \in ExtraParts
<1>1. CASE e \in {Part("unicast", Absent), Part("multicast", Absent), Part("append", Absent), Part("ttl", <<"v">>),
                  Part("mode", <<"play">>), Part("ssrc", <<"s">>), Part("ssrc", <<"x">>), Part("client_port", <<"p">>)}
  BY <1>1 DEF Part, KnownKeys, ExtraParts
<1>2. ASSUME NEW key \in {"client_port", "server_port"}, NEW pair \in PortPairs, e = Part(key, pair)
      PROVE  e.key = key
  BY <1>2 DEF Part
<1>. QED
  BY <1>1, <1>2 DEF SentParts, KnownKeys

LEMMA PortsAre ==
  ASSUME NEW n \in Nat, NEW parts, DOMAIN parts = 1 .. n, NEW key
  PROVE  Ports(parts, key) \in PortsGiven
<1>1. CASE Pairs(parts, key) = {}
  BY <1>1 DEF Ports, PortsGiven
<1>2. CASE Pairs(parts, key) # {}
  <2>1. PICK i \in Pairs(parts, key) : LastOf(parts, Pairs(parts, key)) = parts[i]
    <3>1. Pairs(parts, key) \subseteq 1 .. n
      BY DEF Pairs
    <3>. QED
      BY <1>2, <3>1, LastIs
  <2>2. PICK pair : pair = parts[i].value /\ pair \in PortPairs
    BY DEF Pairs
  <2>3. Ports(parts, key) = <<Number(pair[1]), Number(pair[2])>>
    BY <1>2, <2>1, <2>2 DEF Ports
  <2>4. pair[2] = "q" /\ (pair[1] = "p" \/ pair[1] = "x")
    BY <2>2 DEF PortPairs
  <2>5. Number(pair[2]) = <<"q">> /\ (Number(pair[1]) = <<"p">> \/ Number(pair[1]) = Absent)
    BY <2>4 DEF Number
  <2>. QED
    BY <2>3, <2>5 DEF PortsGiven
<1>. QED
  BY <1>1, <1>2

\* What a parsed header holds, and the header of a request.
IsInfo(info) ==
  \E cast \in {"unicast", "multicast"}, client \in PortsGiven, server \in PortsGiven,
     ssrc \in {Absent, <<"s">>}, mode \in {Absent, <<"play">>}, extra \in SUBSET ExtraParts :
       info = Info(cast, client, server, ssrc, mode, extra)

LEMMA InfoRead ==
  ASSUME NEW n \in Nat, NEW parts \in [1 .. n -> SentParts]
  PROVE  IsInfo(parse_transport(parts))
<1>. DEFINE info == parse_transport(parts)
            ssrcs == {i \in DOMAIN parts : parts[i].key = "ssrc" /\ parts[i].value # <<"x">>}
            modes == {i \in DOMAIN parts : parts[i].key = "mode"}
            extras == {i \in DOMAIN parts : parts[i].key \notin KnownKeys \cup {"unicast", "multicast"}}
<1>1. DOMAIN parts = 1 .. n /\ \A i \in 1 .. n : parts[i] \in SentParts
  OBVIOUS
<1>2. PICK cast \in {"unicast", "multicast"} :
        cast = IF Flag(parts) = {} THEN "unicast" ELSE LastOf(parts, Flag(parts)).key
  <2>1. CASE Flag(parts) = {}
    BY <2>1
  <2>2. CASE Flag(parts) # {}
    <3>1. Flag(parts) \subseteq 1 .. n
      BY <1>1 DEF Flag
    <3>2. PICK i \in Flag(parts) : LastOf(parts, Flag(parts)) = parts[i]
      BY <2>2, <3>1, LastIs
    <3>. QED
      BY <2>2, <3>2 DEF Flag
  <2>. QED
    BY <2>1, <2>2
<1>3. PICK client \in PortsGiven, server \in PortsGiven :
        client = Ports(parts, "client_port") /\ server = Ports(parts, "server_port")
  BY <1>1, PortsAre
<1>4. PICK ssrc \in {Absent, <<"s">>} : ssrc = ValueOf(parts, ssrcs, Absent)
  <2>1. CASE ssrcs = {}
    BY <2>1 DEF ValueOf
  <2>2. CASE ssrcs # {}
    <3>1. ssrcs \subseteq 1 .. n
      BY <1>1
    <3>2. PICK i \in ssrcs : LastOf(parts, ssrcs) = parts[i]
      <4>. HIDE DEF ssrcs
      <4>. QED
        BY <2>2, <3>1, LastIs
    <3>3. parts[i].value = <<"s">>
      BY <1>1, SentIs
    <3>. QED
      BY <2>2, <3>2, <3>3 DEF ValueOf
  <2>. QED
    BY <2>1, <2>2
<1>5. PICK mode \in {Absent, <<"play">>} : mode = ValueOf(parts, modes, Absent)
  <2>1. CASE modes = {}
    BY <2>1 DEF ValueOf
  <2>2. CASE modes # {}
    <3>1. modes \subseteq 1 .. n
      BY <1>1
    <3>2. PICK i \in modes : LastOf(parts, modes) = parts[i]
      <4>. HIDE DEF modes
      <4>. QED
        BY <2>2, <3>1, LastIs
    <3>3. parts[i].value = <<"play">>
      BY <1>1, SentIs
    <3>. QED
      BY <2>2, <3>2, <3>3 DEF ValueOf
  <2>. QED
    BY <2>1, <2>2
<1>6. PICK extra : extra = {LastOf(parts, {k \in extras : parts[k].key = parts[i].key}) : i \in extras}
  OBVIOUS
<1>7. extra \in SUBSET ExtraParts
  <2>1. ASSUME NEW i \in extras
        PROVE  LastOf(parts, {k \in extras : parts[k].key = parts[i].key}) \in ExtraParts
    <3>1. PICK P : P = {k \in extras : parts[k].key = parts[i].key}
      OBVIOUS
    <3>2. P \subseteq 1 .. n /\ P # {} /\ P \subseteq extras
      BY <1>1, <3>1
    <3>3. PICK j \in P : LastOf(parts, P) = parts[j]
      BY <3>2, LastIs
    <3>4. j \in 1 .. n /\ parts[j].key \notin KnownKeys \cup {"unicast", "multicast"}
      BY <1>1, <3>2
    <3>5. parts[j] \in ExtraParts
      BY <1>1, <3>4, SentIs
    <3>. QED
      BY <3>1, <3>3, <3>5
  <2>. QED
    BY <1>6, <2>1
<1>8. info = Info(cast, client, server, ssrc, mode, extra)
  BY <1>2, <1>3, <1>4, <1>5, <1>6, Zenon DEF parse_transport, Info
<1>. QED
  BY <1>7, <1>8 DEF IsInfo

\* The parts that a header is written with.
PortParts(key, ports) == IF Absent \in {ports[1], ports[2]} THEN {} ELSE {Part(key, ports[1] \o ports[2])}

OptionalParts(key, value) == IF value = Absent THEN {} ELSE {Part(key, value)}

PartsOf(info) ==
  {Part(info.cast_type, Absent)} \cup PortParts("client_port", info.client_port)
  \cup PortParts("server_port", info.server_port) \cup OptionalParts("ssrc", info.ssrc)
  \cup OptionalParts("mode", info.mode) \cup info.extra_params

LEMMA WrittenParts ==
  ASSUME NEW info, NEW order \in Seq(info.extra_params), ToSet(order) = info.extra_params,
         NEW w, w = transport_to_string(info, order)
  PROVE  w \in Seq(PartsOf(info)) /\ ToSet(w) = PartsOf(info)
<1>1. PICK T : T = PartsOf(info)
  OBVIOUS
<1>2. PICK a, c, s, r, m : /\ a = <<Part(info.cast_type, Absent)>>
        /\ c = PortPart("client_port", info.client_port) /\ s = PortPart("server_port", info.server_port)
        /\ r = Optional("ssrc", info.ssrc) /\ m = Optional("mode", info.mode)
  OBVIOUS
<1>3. a \in Seq(T) /\ ToSet(a) = {Part(info.cast_type, Absent)}
  <2>1. Part(info.cast_type, Absent) \in T
    BY <1>1 DEF PartsOf
  <2>. QED
    BY <1>2, <2>1, RangeOne
<1>4. ASSUME NEW key, NEW ports, PortParts(key, ports) \subseteq T
      PROVE  PortPart(key, ports) \in Seq(T) /\ ToSet(PortPart(key, ports)) = PortParts(key, ports)
  <2>1. PICK x : x = Part(key, ports[1] \o ports[2])
    OBVIOUS
  <2>2. CASE Absent \in {ports[1], ports[2]}
    <3>1. PortPart(key, ports) = <<>> /\ PortParts(key, ports) = {}
      BY <2>2, Zenon DEF PortPart, PortParts
    <3>. QED
      BY <3>1, RangeNone
  <2>3. CASE Absent \notin {ports[1], ports[2]}
    <3>1. PortPart(key, ports) = <<x>> /\ PortParts(key, ports) = {x}
      BY <2>1, <2>3, Zenon DEF PortPart, PortParts
    <3>. QED
      BY <1>4, <3>1, RangeOne
  <2>. QED
    BY <2>2, <2>3
<1>5. ASSUME NEW key, NEW value, OptionalParts(key, value) \subseteq T
      PROVE  Optional(key, value) \in Seq(T) /\ ToSet(Optional(key, value)) = OptionalParts(key, value)
  <2>1. PICK x : x = Part(key, value)
    OBVIOUS
  <2>2. CASE value = Absent
    <3>1. Optional(key, value) = <<>> /\ OptionalParts(key, value) = {}
      BY <2>2, Zenon DEF Optional, OptionalParts
    <3>. QED
      BY <3>1, RangeNone
  <2>3. CASE value # Absent
    <3>1. Optional(key, value) = <<x>> /\ OptionalParts(key, value) = {x}
      BY <2>1, <2>3, Zenon DEF Optional, OptionalParts
    <3>. QED
      BY <1>5, <3>1, RangeOne
  <2>. QED
    BY <2>2, <2>3
<1>6. /\ PortParts("client_port", info.client_port) \subseteq T
      /\ PortParts("server_port", info.server_port) \subseteq T
      /\ OptionalParts("ssrc", info.ssrc) \subseteq T /\ OptionalParts("mode", info.mode) \subseteq T
      /\ info.extra_params \subseteq T
  BY <1>1 DEF PartsOf
<1>7. /\ c \in Seq(T) /\ ToSet(c) = PortParts("client_port", info.client_port)
      /\ s \in Seq(T) /\ ToSet(s) = PortParts("server_port", info.server_port)
      /\ r \in Seq(T) /\ ToSet(r) = OptionalParts("ssrc", info.ssrc)
      /\ m \in Seq(T) /\ ToSet(m) = OptionalParts("mode", info.mode)
  BY <1>2, <1>4, <1>5, <1>6
<1>8. order \in Seq(T)
  BY <1>6
<1>9. PICK w1, w2, w3, w4 : w1 = a \o c /\ w2 = w1 \o s /\ w3 = w2 \o r /\ w4 = w3 \o m
  OBVIOUS
<1>10. w1 \in Seq(T) /\ ToSet(w1) = ToSet(a) \cup ToSet(c)
  <2>1. a \in Seq(T)
    BY <1>3
  <2>2. c \in Seq(T)
    BY <1>7
  <2>3. w1 = a \o c
    BY <1>9
  <2>. QED
    BY <2>1, <2>2, <2>3, RangeJoined
<1>11. w2 \in Seq(T) /\ ToSet(w2) = ToSet(w1) \cup ToSet(s)
  <2>1. w1 \in Seq(T)
    BY <1>10
  <2>2. s \in Seq(T)
    BY <1>7
  <2>3. w2 = w1 \o s
    BY <1>9
  <2>. QED
    BY <2>1, <2>2, <2>3, RangeJoined
<1>12. w3 \in Seq(T) /\ ToSet(w3) = ToSet(w2) \cup ToSet(r)
  <2>1. w2 \in Seq(T)
    BY <1>11
  <2>2. r \in Seq(T)
    BY <1>7
  <2>3. w3 = w2 \o r
    BY <1>9
  <2>. QED
    BY <2>1, <2>2, <2>3, RangeJoined
<1>13. w4 \in Seq(T) /\ ToSet(w4) = ToSet(w3) \cup ToSet(m)
  <2>1. w3 \in Seq(T)
    BY <1>12
  <2>2. m \in Seq(T)
    BY <1>7
  <2>3. w4 = w3 \o m
    BY <1>9
  <2>. QED
    BY <2>1, <2>2, <2>3, RangeJoined
<1>14. w = w4 \o order
  BY <1>2, <1>9, Zenon DEF transport_to_string
<1>15. w \in Seq(T) /\ ToSet(w) = ToSet(w4) \cup ToSet(order)
  <2>1. w4 \in Seq(T)
    BY <1>13
  <2>. QED
    BY <1>8, <1>14, <2>1, RangeJoined
<1>. QED
  BY <1>1, <1>3, <1>7, <1>10, <1>11, <1>12, <1>13, <1>15 DEF PartsOf

\* Two ports or none.
WholePorts(ports) == IF OnePort(ports) THEN <<Absent, Absent>> ELSE ports

\* The parts of that name.
Named(w, key) == {x \in ToSet(w) : x.key = key}

LEMMA PortsBack ==
  ASSUME NEW n \in Nat, NEW w, DOMAIN w = 1 .. n, NEW key, NEW ports \in PortsGiven,
         Named(w, key) = PortParts(key, ports)
  PROVE  Ports(w, key) = WholePorts(ports)
<1>1. CASE ports = <<<<"p">>, <<"q">>>>
  <2>1. PICK pair : pair = <<"p", "q">>
    OBVIOUS
  <2>2. ports[1] = <<"p">> /\ ports[2] = <<"q">> /\ ports[1] \o ports[2] = pair /\ ~OnePort(ports)
    <3>1. ports[1] = <<"p">> /\ ports[2] = <<"q">>
      BY <1>1
    <3>2. <<"p">> # Absent /\ <<"q">> # Absent
      BY DEF Absent
    <3>3. <<"p">> \o <<"q">> = <<"p", "q">>
      BY PairJoined
    <3>. QED
      BY <2>1, <3>1, <3>2, <3>3 DEF OnePort
  <2>3. Named(w, key) = {Part(key, pair)} /\ pair \in PortPairs
    BY <2>1, <2>2 DEF PortParts, PortPairs, OnePort
  <2>4. Pairs(w, key) \subseteq 1 .. n /\ \A i \in Pairs(w, key) : w[i] = Part(key, pair)
    BY <2>3 DEF Pairs, Named, ToSet
  <2>5. Pairs(w, key) # {}
    <3>1. PICK i \in 1 .. n : w[i] = Part(key, pair)
      BY <2>3 DEF Named, ToSet
    <3>2. w[i].key = key /\ w[i].value = pair
      BY <3>1 DEF Part
    <3>. QED
      BY <2>3, <3>2 DEF Pairs
  <2>6. LastOf(w, Pairs(w, key)) = Part(key, pair)
    BY <2>4, <2>5, LastIs
  <2>7. Ports(w, key) = <<Number("p"), Number("q")>>
    <3>1. Part(key, pair).value = pair /\ pair[1] = "p" /\ pair[2] = "q"
      BY <2>1 DEF Part
    <3>. QED
      BY <2>5, <2>6, <3>1 DEF Ports
  <2>. QED
    BY <1>1, <2>2, <2>7 DEF Number, WholePorts
<1>2. CASE ports # <<<<"p">>, <<"q">>>>
  <2>1. ports[1] = Absent
    BY <1>2 DEF PortsGiven
  <2>2. OnePort(ports) /\ PortParts(key, ports) = {}
    BY <2>1 DEF OnePort, PortParts
  <2>3. Pairs(w, key) = {}
    BY <2>2 DEF Pairs, Named, ToSet
  <2>. QED
    BY <2>2, <2>3 DEF Ports, WholePorts
<1>. QED
  BY <1>1, <1>2

\* The places of a name, or of those of its values that can be read.
PlacesOf(P, w, key, value) ==
  \/ P = {i \in DOMAIN w : w[i].key = key}
  \/ value # <<"x">> /\ P = {i \in DOMAIN w : w[i].key = key /\ w[i].value # <<"x">>}

LEMMA ValueBack ==
  ASSUME NEW n \in Nat, NEW w, DOMAIN w = 1 .. n, NEW key, NEW value,
         Named(w, key) = OptionalParts(key, value), NEW P, PlacesOf(P, w, key, value)
  PROVE  ValueOf(w, P, Absent) = value
<1>0. P \subseteq 1 .. n /\ \A i \in P : w[i].key = key
  BY DEF PlacesOf
<1>1. CASE value = Absent
  <2>1. P = {}
    BY <1>0, <1>1 DEF Named, ToSet, OptionalParts
  <2>. QED
    BY <1>1, <2>1 DEF ValueOf
<1>2. CASE value # Absent
  <2>1. Named(w, key) = {Part(key, value)}
    BY <1>2 DEF OptionalParts
  <2>2. \A i \in P : w[i] = Part(key, value)
    BY <1>0, <2>1 DEF Named, ToSet
  <2>3. PICK i \in 1 .. n : w[i] = Part(key, value)
    BY <2>1 DEF Named, ToSet
  <2>4. i \in P
    BY <2>3 DEF Part, PlacesOf
  <2>5. LastOf(w, P) = Part(key, value)
    BY <1>0, <2>2, <2>4, LastIs
  <2>. QED
    BY <2>4, <2>5 DEF ValueOf, Part
<1>. QED
  BY <1>1, <1>2

LEMMA ExtrasBack ==
  ASSUME NEW n \in Nat, NEW w, DOMAIN w = 1 .. n, NEW extra \in SUBSET ExtraParts,
         NEW P \in SUBSET (1 .. n), {w[i] : i \in P} = extra
  PROVE  \A i \in P : LastOf(w, {k \in P : w[k].key = w[i].key}) = w[i]
<1>1. ASSUME NEW x \in ExtraParts, NEW y \in ExtraParts, x.key = y.key PROVE x = y
  BY <1>1 DEF ExtraParts, Part
<1>2. ASSUME NEW i \in P PROVE LastOf(w, {k \in P : w[k].key = w[i].key}) = w[i]
  <2>1. PICK Q : Q = {k \in P : w[k].key = w[i].key}
    OBVIOUS
  <2>2. Q \subseteq 1 .. n /\ i \in Q
    BY <2>1
  <2>3. PICK k \in Q : LastOf(w, Q) = w[k]
    BY <2>2, LastIs
  <2>4. w[k].key = w[i].key /\ w[k] \in ExtraParts /\ w[i] \in ExtraParts
    BY <2>1, <2>3
  <2>. QED
    BY <1>1, <2>1, <2>3, <2>4
<1>. QED
  BY <1>2

LEMMA TransportBack ==
  ASSUME NEW info, IsInfo(info), NEW order \in Seq(info.extra_params), ToSet(order) = info.extra_params
  PROVE  parse_transport(transport_to_string(info, order))
           = [info EXCEPT !.client_port = WholePorts(@), !.server_port = WholePorts(@)]
<1>1. PICK cast \in {"unicast", "multicast"}, client \in PortsGiven, server \in PortsGiven,
           ssrc \in {Absent, <<"s">>}, mode \in {Absent, <<"play">>}, extra \in SUBSET ExtraParts :
             info = Info(cast, client, server, ssrc, mode, extra)
  BY DEF IsInfo
<1>2. /\ info.cast_type = cast /\ info.client_port = client /\ info.server_port = server
      /\ info.ssrc = ssrc /\ info.mode = mode /\ info.extra_params = extra
  BY <1>1 DEF Info
<1>3. PICK w : w = transport_to_string(info, order)
  OBVIOUS
<1>4. w \in Seq(PartsOf(info)) /\ ToSet(w) = PartsOf(info)
  BY <1>3, WrittenParts
<1>5. PICK n \in Nat : DOMAIN w = 1 .. n
  BY <1>4
<1>6. ToSet(w) = {Part(cast, Absent)} \cup PortParts("client_port", client) \cup PortParts("server_port", server)
                 \cup OptionalParts("ssrc", ssrc) \cup OptionalParts("mode", mode) \cup extra
  BY <1>2, <1>4 DEF PartsOf
<1>7. /\ Part(cast, Absent).key = cast
      /\ \A key, ports : \A x \in PortParts(key, ports) : x.key = key
      /\ \A key, value : \A x \in OptionalParts(key, value) : x.key = key
      /\ \A x \in extra : x.key = "append" \/ x.key = "ttl"
  <2>1. Part(cast, Absent).key = cast
    BY DEF Part
  <2>2. ASSUME NEW key, NEW ports, NEW x \in PortParts(key, ports) PROVE x.key = key
    <3>1. x = Part(key, ports[1] \o ports[2])
      BY DEF PortParts
    <3>. QED
      BY <3>1 DEF Part
  <2>3. \A key, value : \A x \in OptionalParts(key, value) : x.key = key
    BY DEF OptionalParts, Part
  <2>4. \A x \in extra : x.key = "append" \/ x.key = "ttl"
    BY DEF ExtraParts, Part
  <2>. QED
    BY <2>1, <2>2, <2>3, <2>4
<1>8. /\ Named(w, "client_port") = PortParts("client_port", client)
      /\ Named(w, "server_port") = PortParts("server_port", server)
  BY <1>6, <1>7 DEF Named
<1>9. Named(w, "ssrc") = OptionalParts("ssrc", ssrc) /\ Named(w, "mode") = OptionalParts("mode", mode)
  BY <1>6, <1>7 DEF Named
<1>10. Ports(w, "client_port") = WholePorts(client) /\ Ports(w, "server_port") = WholePorts(server)
  BY <1>5, <1>8, PortsBack
<1>11. ValueOf(w, {i \in DOMAIN w : w[i].key = "ssrc" /\ w[i].value # <<"x">>}, Absent) = ssrc
  <2>1. ssrc # <<"x">>
    <3>1. <<>> # <<"x">> /\ <<"s">> # <<"x">>
      OBVIOUS
    <3>. QED
      BY <3>1 DEF Absent
  <2>2. PlacesOf({i \in DOMAIN w : w[i].key = "ssrc" /\ w[i].value # <<"x">>}, w, "ssrc", ssrc)
    BY <2>1 DEF PlacesOf
  <2>. QED
    BY <1>5, <1>9, <2>2, ValueBack
<1>12. ValueOf(w, {i \in DOMAIN w : w[i].key = "mode"}, Absent) = mode
  <2>1. PlacesOf({i \in DOMAIN w : w[i].key = "mode"}, w, "mode", mode)
    BY DEF PlacesOf
  <2>. QED
    BY <1>5, <1>9, <2>1, ValueBack
<1>13. (IF Flag(w) = {} THEN "unicast" ELSE LastOf(w, Flag(w)).key) = cast
  <2>1. \A i \in Flag(w) : w[i].key = cast
    BY <1>6, <1>7 DEF Flag, ToSet
  <2>2. Flag(w) # {}
    BY <1>6, <1>7 DEF Flag, ToSet
  <2>3. Flag(w) \subseteq 1 .. n
    BY <1>5 DEF Flag
  <2>4. PICK i \in Flag(w) : LastOf(w, Flag(w)) = w[i]
    BY <2>2, <2>3, LastIs
  <2>. QED
    BY <2>1, <2>2, <2>4
<1>14. PICK P : P = {i \in DOMAIN w : w[i].key \notin KnownKeys \cup {"unicast", "multicast"}}
  OBVIOUS
<1>15. {w[i] : i \in P} = extra
  BY <1>6, <1>7, <1>14 DEF ToSet, KnownKeys
<1>16. {LastOf(w, {k \in P : w[k].key = w[i].key}) : i \in P} = extra
  <2>1. \A i \in P : LastOf(w, {k \in P : w[k].key = w[i].key}) = w[i]
    <3>1. P \in SUBSET (1 .. n)
      BY <1>5, <1>14
    <3>. QED
      BY <1>5, <1>15, <3>1, ExtrasBack
  <2>2. {LastOf(w, {k \in P : w[k].key = w[i].key}) : i \in P} = {w[i] : i \in P}
    BY <2>1, Zenon
  <2>. QED
    BY <1>15, <2>2
<1>17. parse_transport(w) = Info(cast, WholePorts(client), WholePorts(server), ssrc, mode, extra)
  BY <1>10, <1>11, <1>12, <1>13, <1>14, <1>16, Zenon DEF parse_transport, Info
<1>. QED
  <2>1. [info EXCEPT !.client_port = WholePorts(@), !.server_port = WholePorts(@)]
          = Info(cast, WholePorts(client), WholePorts(server), ssrc, mode, extra)
    <3>1. [info EXCEPT !.client_port = WholePorts(@), !.server_port = WholePorts(@)]
            = [info EXCEPT !.client_port = WholePorts(client), !.server_port = WholePorts(server)]
      BY <1>2
    <3>2. PICK a, b : a = WholePorts(client) /\ b = WholePorts(server)
      OBVIOUS
    <3>3. [info EXCEPT !.client_port = a, !.server_port = b] = Info(cast, a, b, ssrc, mode, extra)
      <4>1. [info EXCEPT !.client_port = a, !.server_port = b]
              = [[info EXCEPT !.client_port = a] EXCEPT !.server_port = b]
        BY Zenon
      <4>2. [info EXCEPT !.client_port = a] = Info(cast, a, server, ssrc, mode, extra)
        BY <1>1 DEF Info
      <4>3. [Info(cast, a, server, ssrc, mode, extra) EXCEPT !.server_port = b]
              = Info(cast, a, b, ssrc, mode, extra)
        BY DEF Info
      <4>. QED
        BY <4>1, <4>2, <4>3
    <3>. QED
      BY <3>1, <3>2, <3>3
  <2>. QED
    BY <1>3, <1>17, <2>1

LEMMA TransportsReadBack ==
  ASSUME ReadTransport \/ RequestTransport
  PROVE  TransportReadBack' /\ source'.kind = "transport"
<1>1. ASSUME NEW info, IsInfo(info), NEW order \in Seq(info.extra_params), ToSet(order) = info.extra_params,
             NEW parts, source' = [kind |-> "transport", parts |-> parts, info |-> info],
             result' = parse_transport(transport_to_string(info, order))
      PROVE  TransportReadBack' /\ source'.kind = "transport"
  <2>1. result' = [info EXCEPT !.client_port = WholePorts(@), !.server_port = WholePorts(@)]
    BY <1>1, TransportBack
  <2>2. source'.kind = "transport" /\ source'.info = info
    BY <1>1
  <2>. QED
    BY <2>1, <2>2 DEF TransportReadBack, WholePorts
<1>2. CASE ReadTransport
  <2>0. PICK n \in 0 .. MaxParts : \E parts \in [1 .. n -> SentParts] :
          LET info == parse_transport(parts)
          IN  \E order \in Orders(info.extra_params) :
                /\ source' = [kind |-> "transport", parts |-> parts, info |-> info]
                /\ result' = parse_transport(transport_to_string(info, order))
    BY <1>2 DEF ReadTransport
  <2>1. PICK parts \in [1 .. n -> SentParts] :
          LET info == parse_transport(parts)
          IN  \E order \in Orders(info.extra_params) :
                /\ source' = [kind |-> "transport", parts |-> parts, info |-> info]
                /\ result' = parse_transport(transport_to_string(info, order))
    BY <2>0
  <2>2. PICK info : info = parse_transport(parts)
    OBVIOUS
  <2>3. PICK order \in Orders(info.extra_params) :
          /\ source' = [kind |-> "transport", parts |-> parts, info |-> info]
          /\ result' = parse_transport(transport_to_string(info, order))
    BY <2>1, <2>2
  <2>4. n \in Nat
    BY TextAssumption
  <2>5. IsInfo(info)
    BY <2>2, <2>4, InfoRead
  <2>6. order \in Seq(info.extra_params) /\ ToSet(order) = info.extra_params
    <3>1. PICK S : S = info.extra_params
      OBVIOUS
    <3>2. order \in UNION {[1 .. k -> S] : k \in 0 .. 2} /\ ToSet(order) = S
      BY <3>1 DEF Orders
    <3>3. PICK k \in 0 .. 2 : order \in [1 .. k -> S]
      BY <3>2
    <3>4. order \in Seq(S)
      BY <3>3
    <3>. QED
      BY <3>1, <3>2, <3>4
  <2>. QED
    BY <1>1, <2>3, <2>5, <2>6
<1>3. CASE RequestTransport
  <2>1. PICK info : info = new_rtp_avp(<<<<"p">>, <<"q">>>>)
    OBVIOUS
  <2>2. IsInfo(info) /\ info.extra_params = {}
    <3>1. info = Info("unicast", <<<<"p">>, <<"q">>>>, <<Absent, Absent>>, Absent, Absent, {})
      BY <2>1, Zenon DEF new_rtp_avp, Info
    <3>2. <<<<"p">>, <<"q">>>> \in PortsGiven /\ <<Absent, Absent>> \in PortsGiven
      BY DEF PortsGiven
    <3>. QED
      BY <3>1, <3>2 DEF IsInfo, Info
  <2>3. PICK order : order = <<>> /\ order \in Seq(info.extra_params) /\ ToSet(order) = info.extra_params
    BY <2>2, RangeNone
  <2>4. /\ source' = [kind |-> "transport", parts |-> <<>>, info |-> info]
        /\ result' = parse_transport(transport_to_string(info, order))
    BY <1>3, <2>1, <2>3 DEF RequestTransport
  <2>. QED
    BY <1>1, <2>2, <2>3, <2>4
<1>. QED
  BY <1>2, <1>3

------------------------------------------------------------------------------
(* The session description. *)

\* The media that can be parsed.
Media(lines, i) == i \in MediaLines(lines) /\ parse_sdp_media(lines[i])

WithMedia(lines, found, i) == IF Media(lines, i) THEN Append(found, i) ELSE found

\* f is what the loop has found after each line.
Finding(f, lines, n) ==
  f \in [0 .. n -> Seq(Nat)] /\ f[0] = <<>> /\ \A i \in 1 .. n : f[i] = WithMedia(lines, f[i - 1], i)

LEMMA FindingIs ==
  ASSUME NEW n \in Nat, NEW lines \in [1 .. n -> DescriptionLines]
  PROVE  \E f : Finding(f, lines, n) /\ MediaFound(lines) = f[n]
<1>. DEFINE F(h) == [i \in 0 .. Len(lines) |->
                       IF i = 0 THEN <<>>
                       ELSE IF i \in MediaLines(lines) /\ parse_sdp_media(lines[i]) THEN Append(h[i - 1], i)
                       ELSE h[i - 1]]
<1>1. Len(lines) = n
  OBVIOUS
<1>2. PICK step : step = [i \in 1 .. n |-> [x \in Seq(Nat) |-> WithMedia(lines, x, i)]]
  OBVIOUS
<1>3. ASSUME NEW i \in 1 .. n, NEW x \in Seq(Nat)
      PROVE  WithMedia(lines, x, i) \in Seq(Nat) /\ step[i][x] = WithMedia(lines, x, i)
  <2>1. Append(x, i) \in Seq(Nat)
    OBVIOUS
  <2>. QED
    BY <1>2, <2>1 DEF WithMedia
<1>4. step \in [1 .. n -> [Seq(Nat) -> Seq(Nat)]]
  BY <1>2, <1>3
<1>5. PICK base \in Seq(Nat) : base = <<>>
  <2>1. <<>> \in Seq(Nat)
    OBVIOUS
  <2>. QED
    BY <2>1
<1>6. PICK g \in [0 .. n -> Seq(Nat)] : g[0] = base /\ \A i \in 1 .. n : g[i] = step[i][g[i - 1]]
  <2>1. PICK g : Recurs(g, n, Seq(Nat), base, step)
    BY <1>4, Recursion
  <2>. QED
    BY <2>1 DEF Recurs
<1>7. \A i \in 1 .. n : g[i] = WithMedia(lines, g[i - 1], i)
  <2>1. ASSUME NEW i \in 1 .. n PROVE g[i - 1] \in Seq(Nat)
    <3>1. i - 1 \in 0 .. n
      OBVIOUS
    <3>. QED
      BY <3>1
  <2>. QED
    BY <1>3, <1>6, <2>1
<1>8. g = F(g)
  <2>1. \A i \in 0 .. n : g[i] = IF i = 0 THEN <<>>
                       ELSE IF i \in MediaLines(lines) /\ parse_sdp_media(lines[i]) THEN Append(g[i - 1], i)
                       ELSE g[i - 1]
    <3>1. g[0] = <<>>
      BY <1>5, <1>6
    <3>2. ASSUME NEW i \in 0 .. n, i # 0
          PROVE  g[i] = IF i \in MediaLines(lines) /\ parse_sdp_media(lines[i]) THEN Append(g[i - 1], i) ELSE g[i - 1]
      <4>1. i \in 1 .. n
        BY <3>2
      <4>. QED
        BY <1>7, <4>1 DEF WithMedia, Media
    <3>. QED
      BY <3>1, <3>2
  <2>2. g = [i \in 0 .. n |-> g[i]]
    OBVIOUS
  <2>. QED
    BY <1>1, <2>1, <2>2
<1>9. PICK f : f = CHOOSE h : h = F(h)
  OBVIOUS
<1>10. f = F(f)
  BY <1>8, <1>9
<1>11. MediaFound(lines) = f[n]
  BY <1>1, <1>9 DEF MediaFound
<1>12. f[0] = <<>> /\ \A i \in 1 .. n : f[i] = WithMedia(lines, f[i - 1], i)
  <2>1. \A i \in 0 .. n : f[i] = IF i = 0 THEN <<>>
                       ELSE IF i \in MediaLines(lines) /\ parse_sdp_media(lines[i]) THEN Append(f[i - 1], i)
                       ELSE f[i - 1]
    BY <1>1, <1>10, Zenon
  <2>2. 0 \in 0 .. n /\ \A i \in 1 .. n : i \in 0 .. n /\ i # 0
    OBVIOUS
  <2>. QED
    BY <2>1, <2>2 DEF WithMedia, Media
<1>13. \A i \in 0 .. n : f[i] = g[i]
  <2>. SUFFICES ASSUME NEW l \in 0 .. n, f[l] # g[l] PROVE FALSE
    OBVIOUS
  <2>. DEFINE S == {i \in Nat : i <= n /\ f[i] # g[i]}
  <2>1. S \subseteq Nat /\ l \in S
    OBVIOUS
  <2>2. PICK i \in S : \A k \in S : i <= k
    <3>. HIDE DEF S
    <3>. QED
      BY <2>1, Least
  <2>3. i # 0
    BY <1>5, <1>6, <1>12, <2>2
  <2>4. i \in 1 .. n /\ i - 1 \in Nat /\ i - 1 <= n /\ ~(i <= i - 1)
    BY <2>2, <2>3
  <2>5. f[i - 1] = g[i - 1]
    BY <2>2, <2>4
  <2>. QED
    BY <1>7, <1>12, <2>2, <2>4, <2>5
<1>14. Finding(g, lines, n) /\ MediaFound(lines) = g[n]
  <2>1. MediaFound(lines) = g[n]
    BY <1>11, <1>13
  <2>. QED
    BY <1>5, <1>6, <1>7, <2>1 DEF Finding
<1>. QED
  BY <1>14

\* The media found are in order, and all there are up to a line.
AllFound(p, lines, m) ==
  /\ ToSet(p) = {i \in 1 .. m : Media(lines, i)}
  /\ \A i \in 2 .. Len(p) : p[i - 1] < p[i]

LEMMA FoundAll ==
  ASSUME NEW n \in Nat, NEW lines \in [1 .. n -> DescriptionLines], NEW p, p = MediaFound(lines)
  PROVE  p \in Seq(Nat) /\ AllFound(p, lines, n)
<1>1. PICK f : Finding(f, lines, n) /\ p = f[n]
  BY FindingIs
<1>2. /\ f \in [0 .. n -> Seq(Nat)] /\ f[0] = <<>>
      /\ \A i \in 1 .. n : f[i] = WithMedia(lines, f[i - 1], i)
  BY <1>1 DEF Finding
<1>. DEFINE Good(m) == AllFound(f[m], lines, m)
<1>3. Good(0)
  <2>1. Len(<<>>) = 0 /\ ToSet(<<>>) = {}
    BY DEF ToSet
  <2>. QED
    BY <1>2, <2>1 DEF AllFound
<1>4. ASSUME NEW m \in 1 .. n, Good(m - 1) PROVE Good(m)
  <2>1. PICK g \in Seq(Nat) : g = f[m - 1] /\ AllFound(g, lines, m - 1)
    <3>1. m - 1 \in 0 .. n
      OBVIOUS
    <3>. QED
      BY <1>2, <1>4, <3>1
  <2>2. f[m] = WithMedia(lines, g, m)
    BY <1>2, <2>1
  <2>3. CASE ~Media(lines, m)
    <3>1. f[m] = g
      BY <2>2, <2>3 DEF WithMedia
    <3>2. {i \in 1 .. m : Media(lines, i)} = {i \in 1 .. m - 1 : Media(lines, i)}
      <4>1. \A i \in 1 .. m : i = m \/ i \in 1 .. m - 1
        OBVIOUS
      <4>2. \A i \in 1 .. m - 1 : i \in 1 .. m
        OBVIOUS
      <4>. QED
        BY <2>3, <4>1, <4>2
    <3>. QED
      BY <2>1, <3>1, <3>2 DEF AllFound
  <2>4. CASE Media(lines, m)
    <3>1. PICK l \in Nat : l = Len(g)
      OBVIOUS
    <3>2. PICK h \in Seq(Nat) : h = f[m] /\ Len(h) = l + 1 /\ h[l + 1] = m /\ \A i \in 1 .. l : h[i] = g[i]
      <4>1. f[m] = Append(g, m)
        BY <2>2, <2>4 DEF WithMedia
      <4>2. PICK h \in Seq(Nat) : h = Append(g, m)
        <5>1. m \in Nat
          OBVIOUS
        <5>. QED
          BY <5>1, AppendProperties
      <4>3. Len(h) = l + 1 /\ h[l + 1] = m /\ \A i \in 1 .. l : h[i] = g[i]
        BY <3>1, <4>2
      <4>. QED
        BY <4>1, <4>2, <4>3
    <3>3. ToSet(h) = ToSet(g) \cup {m}
      <4>1. ToSet(h) = {h[i] : i \in 1 .. l + 1} /\ ToSet(g) = {g[i] : i \in 1 .. l}
        <5>1. DOMAIN h = 1 .. l + 1 /\ DOMAIN g = 1 .. l
          BY <3>1, <3>2
        <5>. QED
          BY <5>1, Zenon DEF ToSet
      <4>2. \A i \in 1 .. l + 1 : i = l + 1 \/ i \in 1 .. l
        OBVIOUS
      <4>3. l + 1 \in 1 .. l + 1 /\ \A i \in 1 .. l : i \in 1 .. l + 1
        OBVIOUS
      <4>. QED
        <5>1. ASSUME NEW x \in ToSet(h) PROVE x \in ToSet(g) \cup {m}
          <6>1. PICK i \in 1 .. l + 1 : x = h[i]
            BY <4>1
          <6>. QED
            BY <3>2, <4>1, <4>2, <6>1
        <5>2. ASSUME NEW x \in ToSet(g) PROVE x \in ToSet(h)
          <6>1. PICK i \in 1 .. l : x = g[i]
            BY <4>1
          <6>. QED
            BY <3>2, <4>1, <4>3, <6>1
        <5>3. m \in ToSet(h)
          BY <3>2, <4>1, <4>3
        <5>. QED
          BY <5>1, <5>2, <5>3
    <3>4. {i \in 1 .. m : Media(lines, i)} = {i \in 1 .. m - 1 : Media(lines, i)} \cup {m}
      <4>1. m \in 1 .. m /\ \A i \in 1 .. m : i = m \/ i \in 1 .. m - 1
        OBVIOUS
      <4>2. \A i \in 1 .. m - 1 : i \in 1 .. m
        OBVIOUS
      <4>. QED
        BY <2>4, <4>1, <4>2
    <3>5. ASSUME NEW i \in 2 .. l + 1 PROVE h[i - 1] < h[i]
      <4>1. CASE i = l + 1
        <5>1. i - 1 \in 1 .. l /\ i - 1 = l
          BY <4>1
        <5>2. g[l] \in ToSet(g)
          BY <3>1, <5>1 DEF ToSet
        <5>3. g[l] \in 1 .. m - 1
          BY <2>1, <5>2 DEF AllFound
        <5>4. h[i - 1] = g[l] /\ h[i] = m
          BY <3>2, <4>1, <5>1
        <5>. QED
          BY <5>3, <5>4
      <4>2. CASE i # l + 1
        <5>1. i \in 2 .. l /\ i \in 1 .. l /\ i - 1 \in 1 .. l
          BY <4>2
        <5>. QED
          BY <2>1, <3>1, <3>2, <5>1 DEF AllFound
      <4>. QED
        BY <4>1, <4>2
    <3>. QED
      BY <2>1, <3>2, <3>3, <3>4, <3>5 DEF AllFound
  <2>. QED
    BY <2>3, <2>4
<1>5. Good(n)
  <2>. SUFFICES ASSUME ~Good(n) PROVE FALSE
    OBVIOUS
  <2>. DEFINE S == {m \in Nat : m <= n /\ ~Good(m)}
  <2>1. S \subseteq Nat /\ S # {}
    <3>1. n \in Nat /\ n <= n
      OBVIOUS
    <3>. HIDE DEF Good
    <3>. QED
      BY <3>1
  <2>2. PICK m \in S : \A k \in S : m <= k
    <3>. HIDE DEF S
    <3>. QED
      BY <2>1, Least
  <2>. HIDE DEF Good
  <2>3. m \in 1 .. n /\ ~Good(m)
    BY <1>3, <2>2
  <2>4. m - 1 \in Nat /\ m - 1 <= n /\ ~(m <= m - 1)
    BY <2>3
  <2>5. Good(m - 1)
    BY <2>2, <2>4
  <2>. QED
    BY <1>4, <2>3, <2>5
<1>. QED
  BY <1>1, <1>2, <1>5

LEMMA SectionIs ==
  ASSUME NEW n \in Nat, NEW lines \in [1 .. n -> DescriptionLines], NEW i \in 1 .. n
  PROVE  /\ \A m : Media(lines, m) =>
              (SectionOf(lines, i) = m <=> i > m /\ \A k \in MediaLines(lines) : ~(m < k /\ k < i))
         /\ Readable(lines) => (SectionOf(lines, i) = 0 <=> \A k \in MediaLines(lines) : ~(k < i))
<1>1. PICK above : above = {k \in MediaLines(lines) : k < i}
  OBVIOUS
<1>2. MediaLines(lines) \subseteq 1 .. n
  BY DEF MediaLines
<1>3. above \subseteq 1 .. n
  BY <1>1, <1>2
<1>4. CASE above = {}
  <2>1. SectionOf(lines, i) = 0
    BY <1>1, <1>4, Zenon DEF SectionOf
  <2>2. \A k \in MediaLines(lines) : ~(k < i)
    BY <1>1, <1>4
  <2>3. \A m : Media(lines, m) => m \in MediaLines(lines) /\ m # 0
    BY <1>2 DEF Media
  <2>4. \A m \in MediaLines(lines) : ~(i > m)
    BY <1>2, <2>2
  <2>. QED
    BY <2>1, <2>2, <2>3, <2>4
<1>5. CASE above # {}
  <2>1. PICK M : M = CHOOSE k \in above : \A j \in above : j <= k
    OBVIOUS
  <2>2. M \in above /\ \A j \in above : j <= M
    <3>1. \E k \in above : \A j \in above : j <= k
      BY <1>3, <1>5, Greatest
    <3>. QED
      BY <2>1, <3>1
  <2>3. SectionOf(lines, i) = IF parse_sdp_media(lines[M]) THEN M ELSE 0
    <3>1. SectionOf(lines, i) = IF above = {} THEN 0 ELSE IF parse_sdp_media(lines[M]) THEN M ELSE 0
      <4>. DEFINE S == {k \in MediaLines(lines) : k < i}
      <4>1. SectionOf(lines, i) = IF S = {} THEN 0
                                  ELSE IF parse_sdp_media(lines[CHOOSE k \in S : \A j \in S : j <= k])
                                       THEN CHOOSE k \in S : \A j \in S : j <= k
                                       ELSE 0
        BY Zenon DEF SectionOf
      <4>2. S = above
        BY <1>1
      <4>. HIDE DEF S
      <4>. QED
        BY <2>1, <4>1, <4>2
    <3>. QED
      BY <1>5, <3>1
  <2>4. M \in MediaLines(lines) /\ M < i /\ M \in 1 .. n
    BY <1>1, <1>3, <2>2
  <2>5. ASSUME NEW m, Media(lines, m)
        PROVE  SectionOf(lines, i) = m <=> i > m /\ \A k \in MediaLines(lines) : ~(m < k /\ k < i)
    <3>1. m \in MediaLines(lines) /\ m \in 1 .. n /\ parse_sdp_media(lines[m])
      BY <1>2, <2>5 DEF Media
    <3>2. ASSUME SectionOf(lines, i) = m PROVE i > m /\ \A k \in MediaLines(lines) : ~(m < k /\ k < i)
      <4>1. m = M
        BY <2>3, <3>1, <3>2
      <4>2. ASSUME NEW k \in MediaLines(lines), m < k, k < i PROVE FALSE
        <5>1. k \in above /\ k \in 1 .. n
          BY <1>1, <1>2, <4>2
        <5>2. k <= M
          BY <2>2, <5>1
        <5>. QED
          BY <2>4, <4>1, <4>2, <5>1, <5>2
      <4>. QED
        BY <2>4, <4>1, <4>2
    <3>3. ASSUME i > m, \A k \in MediaLines(lines) : ~(m < k /\ k < i) PROVE SectionOf(lines, i) = m
      <4>1. m \in above
        BY <1>1, <3>1, <3>3
      <4>2. m <= M /\ ~(m < M)
        BY <2>2, <2>4, <3>3, <4>1
      <4>3. m = M
        BY <2>4, <3>1, <4>2
      <4>. QED
        BY <2>3, <3>1, <4>3
    <3>. QED
      BY <3>2, <3>3
  <2>6. ASSUME Readable(lines)
        PROVE  SectionOf(lines, i) = 0 <=> \A k \in MediaLines(lines) : ~(k < i)
    <3>1. parse_sdp_media(lines[M])
      BY <2>4, <2>6 DEF Readable
    <3>. QED
      BY <2>3, <2>4, <3>1
  <2>. QED
    BY <2>5, <2>6
<1>. QED
  BY <1>4, <1>5

\* The control of a section of its own lines.
OwnControl(lines, m) ==
  ValueOf(lines, {i \in DOMAIN lines :
            lines[i].kind = "control" /\ i > m /\ \A k \in MediaLines(lines) : ~(m < k /\ k < i)}, NoValue)

LEMMA ControlsAre ==
  ASSUME NEW n \in Nat, NEW lines \in [1 .. n -> DescriptionLines]
  PROVE  /\ \A m : Media(lines, m) => Attribute(lines, m, "control") = OwnControl(lines, m)
         /\ Readable(lines) => BaseControl(lines) = MeantBase(lines)
<1>1. DOMAIN lines = 1 .. n
  OBVIOUS
<1>2. ASSUME NEW m, Media(lines, m) PROVE Attribute(lines, m, "control") = OwnControl(lines, m)
  <2>1. {i \in DOMAIN lines : lines[i].kind = "control" /\ SectionOf(lines, i) = m}
          = {i \in DOMAIN lines :
               lines[i].kind = "control" /\ i > m /\ \A k \in MediaLines(lines) : ~(m < k /\ k < i)}
    BY <1>1, <1>2, SectionIs
  <2>. QED
    BY <2>1, Zenon DEF Attribute, OwnControl
<1>3. ASSUME Readable(lines) PROVE BaseControl(lines) = MeantBase(lines)
  <2>1. ASSUME NEW i \in 1 .. n, lines[i].kind = "control"
        PROVE  SectionOf(lines, i) = 0 <=> \A k \in MediaLines(lines) : i < k
    <3>1. \A k \in MediaLines(lines) : k \in 1 .. n /\ k # i
      BY <2>1 DEF MediaLines
    <3>2. \A k \in MediaLines(lines) : i < k <=> ~(k < i)
      BY <3>1
    <3>. QED
      BY <1>3, <3>2, SectionIs
  <2>2. {i \in DOMAIN lines : lines[i].kind = "control" /\ SectionOf(lines, i) = 0}
          = {i \in DOMAIN lines : lines[i].kind = "control" /\ \A k \in MediaLines(lines) : i < k}
    BY <1>1, <2>1
  <2>. QED
    BY <2>2, Zenon DEF Attribute, BaseControl, MeantBase
<1>. QED
  BY <1>2, <1>3

LEMMA UrlIs ==
  ASSUME NEW base, NEW control, NEW url, url = setup_url(full_control(base, control))
  PROVE  /\ url = <<>> <=> control = NoValue
         /\ control = "url" => url = <<"url">>
<1>1. PICK full : full = full_control(base, control)
  OBVIOUS
<1>2. \A x, y : <<x>> # <<>> /\ <<x, y>> # <<>> /\ <<x>>[1] = x /\ <<x, y>>[1] = x
  OBVIOUS
<1>3. CASE control = NoValue
  <2>1. full = <<>>
    BY <1>1, <1>3, Zenon DEF full_control, NoValue
  <2>. QED
    BY <1>1, <1>3, <2>1 DEF setup_url, NoValue
<1>4. CASE control = "url"
  <2>1. full = <<"url">>
    BY <1>1, <1>4, Zenon DEF full_control, NoValue
  <2>2. url = <<"url">>
    BY <1>1, <1>2, <2>1 DEF setup_url
  <2>. QED
    BY <1>2, <1>4, <2>2 DEF NoValue
<1>5. CASE control # NoValue /\ control # "url"
  <2>1. PICK x : full = <<base, x>>
    <3>1. CASE control = "/track"
      BY <1>1, <3>1, Zenon DEF full_control, NoValue
    <3>2. CASE control # "/track"
      BY <1>1, <1>5, <3>2, Zenon DEF full_control
    <3>. QED
      BY <3>1, <3>2
  <2>2. full # <<>>
    BY <1>2, <2>1
  <2>3. (<<"request">> \o full) # <<>>
    <3>1. PICK T : base \in T /\ x \in T /\ "request" \in T
      <4>1. base \in {base, x, "request"} /\ x \in {base, x, "request"} /\ "request" \in {base, x, "request"}
        OBVIOUS
      <4>. QED
        BY <4>1
    <3>2. PICK a \in Seq(T) : a = <<"request">>
      BY <3>1, RangeOne
    <3>3. PICK b \in Seq(T) : b = full
      <4>1. <<base, x>> \in Seq(T)
        BY <3>1
      <4>. QED
        BY <2>1, <4>1
    <3>4. Len(a) = 1 /\ Len(b) \in Nat /\ Len(a \o b) = Len(a) + Len(b) /\ (a \o b) \in Seq(T)
      BY <3>2, <3>3, ConcatProperties
    <3>5. Len(a \o b) # 0
      BY <3>4
    <3>. QED
      BY <3>2, <3>3, <3>4, <3>5, EmptySeq
  <2>4. url = full \/ url = <<"request">> \o full
    BY <1>1, <2>2 DEF setup_url
  <2>. QED
    BY <1>5, <2>2, <2>3, <2>4
<1>. QED
  BY <1>3, <1>4, <1>5

\* What DescriptionReadBack says of a description s and of what was read of it.
DescriptionRead(s, r) ==
  s.kind = "description" =>
    /\ {r[i].line : i \in DOMAIN r} = {i \in MediaLines(s.lines) : s.lines[i].value = "video"}
    /\ \A i \in DOMAIN r :
         /\ i > 1 => r[i - 1].line < r[i].line
         /\ r[i].url = <<>> <=> OwnControl(s.lines, r[i].line) = NoValue
         /\ Readable(s.lines) =>
              r[i].url = setup_url(full_control(MeantBase(s.lines), OwnControl(s.lines, r[i].line)))
         /\ OwnControl(s.lines, r[i].line) = "url" => r[i].url = <<"url">>

LEMMA DescriptionsReadBack ==
  ASSUME ReadDescription
  PROVE  DescriptionReadBack' /\ source'.kind = "description"
<1>0. PICK n \in 0 .. MaxLines : \E lines \in [1 .. n -> DescriptionLines] :
        source' = [kind |-> "description", lines |-> lines] /\ result' = describe(lines)
  BY DEF ReadDescription
<1>1. PICK lines \in [1 .. n -> DescriptionLines] :
        source' = [kind |-> "description", lines |-> lines] /\ result' = describe(lines)
  BY <1>0
<1>2. n \in Nat
  BY TextAssumption
<1>3. PICK p \in Seq(Nat) : p = MediaFound(lines) /\ AllFound(p, lines, n)
  BY <1>2, FoundAll
<1>4. PICK l \in Nat : l = Len(p) /\ DOMAIN p = 1 .. l
  OBVIOUS
<1>5. PICK r : /\ r = result' /\ DOMAIN r = 1 .. l
               /\ \A i \in 1 .. l : /\ r[i].line = p[i]
                                    /\ r[i].url = setup_url(full_control(BaseControl(lines), Attribute(lines, p[i], "control")))
  <2>1. result' = [i \in 1 .. l |->
                    [line |-> p[i], codec |-> Attribute(lines, p[i], "rtpmap"),
                     url |-> setup_url(full_control(BaseControl(lines), Attribute(lines, p[i], "control")))]]
    BY <1>1, <1>3, <1>4, Zenon DEF describe
  <2>. QED
    BY <2>1
<1>6. \A i \in 1 .. l : Media(lines, p[i])
  BY <1>3, <1>4 DEF AllFound, ToSet
<1>7. {r[i].line : i \in DOMAIN r} = {i \in MediaLines(lines) : lines[i].value = "video"}
  <2>1. {r[i].line : i \in DOMAIN r} = {p[i] : i \in 1 .. l}
    BY <1>5
  <2>2. {p[i] : i \in 1 .. l} = {i \in 1 .. n : Media(lines, i)}
    BY <1>3, <1>4 DEF AllFound, ToSet
  <2>3. ASSUME NEW i \in 1 .. n, lines[i].kind = "m" PROVE lines[i].value = "video" <=> lines[i].value # "bad"
    <3>1. lines[i] \in DescriptionLines
      OBVIOUS
    <3>. QED
      <4>1. CASE lines[i] \in {Control(id) : id \in {"*", "track", "/track", "url"}}
        BY <2>3, <4>1 DEF Control
      <4>2. CASE lines[i] \in {[kind |-> "m", value |-> "video"], [kind |-> "m", value |-> "bad"],
                               [kind |-> "rtpmap", value |-> "codec"], [kind |-> "other", value |-> ""]}
        <5>1. CASE lines[i] = [kind |-> "m", value |-> "video"]
          BY <5>1
        <5>2. CASE lines[i] = [kind |-> "m", value |-> "bad"]
          BY <5>2
        <5>3. CASE lines[i] = [kind |-> "rtpmap", value |-> "codec"]
          BY <2>3, <5>3
        <5>4. CASE lines[i] = [kind |-> "other", value |-> ""]
          <6>1. PICK none : none = ""
            OBVIOUS
          <6>2. lines[i] = [kind |-> "other", value |-> none]
            BY <5>4, <6>1, Zenon
          <6>3. lines[i].kind = "other"
            BY <6>2
          <6>. QED
            BY <2>3, <6>3
        <5>. QED
          BY <4>2, <5>1, <5>2, <5>3, <5>4
      <4>. QED
        BY <3>1, <4>1, <4>2 DEF DescriptionLines
  <2>4. \A i : Media(lines, i) <=> i \in MediaLines(lines) /\ lines[i].value = "video"
    BY <2>3 DEF Media, MediaLines, parse_sdp_media
  <2>5. MediaLines(lines) \subseteq 1 .. n
    BY DEF MediaLines
  <2>. QED
    BY <2>1, <2>2, <2>4, <2>5
<1>8. ASSUME NEW i \in DOMAIN r
      PROVE  /\ i > 1 => r[i - 1].line < r[i].line
             /\ r[i].url = <<>> <=> OwnControl(lines, r[i].line) = NoValue
             /\ Readable(lines) =>
                  r[i].url = setup_url(full_control(MeantBase(lines), OwnControl(lines, r[i].line)))
             /\ OwnControl(lines, r[i].line) = "url" => r[i].url = <<"url">>
  <2>1. i \in 1 .. l /\ r[i].line = p[i] /\ Media(lines, p[i])
    BY <1>5, <1>6
  <2>2. r[i].url = setup_url(full_control(BaseControl(lines), OwnControl(lines, p[i])))
    <3>1. Attribute(lines, p[i], "control") = OwnControl(lines, p[i])
      BY <1>2, <2>1, ControlsAre
    <3>. QED
      BY <1>5, <2>1, <3>1
  <2>3. ASSUME i > 1 PROVE r[i - 1].line < r[i].line
    <3>1. i \in 2 .. l /\ i - 1 \in 1 .. l
      BY <2>1, <2>3
    <3>2. p[i - 1] < p[i]
      BY <1>3, <1>4, <3>1 DEF AllFound
    <3>. QED
      BY <1>5, <2>1, <3>1, <3>2
  <2>4. Readable(lines) => BaseControl(lines) = MeantBase(lines)
    BY <1>2, ControlsAre
  <2>. QED
    BY <2>1, <2>2, <2>3, <2>4, UrlIs
<1>9. source'.kind = "description" /\ source'.lines = lines
  BY <1>1
<1>. QED
  <2>1. DescriptionReadBack' <=> DescriptionRead(source', result')
    BY Zenon DEF DescriptionReadBack, DescriptionRead, OwnControl
  <2>. QED
    BY <1>5, <1>7, <1>8, <1>9, <2>1 DEF DescriptionRead

------------------------------------------------------------------------------
(* Playlists. *)

\* The elements of x and y in turn.
Interleaved(d, x, y, n, T) ==
  /\ d \in Seq(T) /\ Len(d) = 2 * n
  /\ \A i \in 1 .. n : d[2 * i - 1] = x[i] /\ d[2 * i] = y[i]

LEMMA PairsFlat ==
  ASSUME NEW T, NEW n \in Nat, NEW x \in [1 .. n -> T], NEW y \in [1 .. n -> T]
  PROVE  Interleaved(FlattenSeq([i \in 1 .. n |-> <<x[i], y[i]>>]), x, y, n, T)
<1>. DEFINE d == FlattenSeq([i \in 1 .. n |-> <<x[i], y[i]>>])
<1>1. PICK seqs : seqs = [i \in 1 .. n |-> <<x[i], y[i]>>]
  OBVIOUS
<1>2. \A i \in 1 .. n : /\ seqs[i] \in Seq(T) /\ Len(seqs[i]) = 2
                        /\ seqs[i][1] = x[i] /\ seqs[i][2] = y[i]
  BY <1>1
<1>3. seqs \in [1 .. n -> Seq(T)] /\ d = FlattenSeq(seqs)
  BY <1>1, <1>2
<1>4. ASSUME n = 0
      PROVE  /\ d \in Seq(T) /\ Len(d) = 2 * n
             /\ \A i \in 1 .. n : d[2 * i - 1] = x[i] /\ d[2 * i] = y[i]
  <2>1. Len(seqs) = 0 /\ seqs = <<>>
    BY <1>1, <1>4
  <2>2. d = <<>>
    BY <1>3, <2>1 DEF FlattenSeq
  <2>. QED
    <3>1. <<>> \in Seq(T) /\ Len(<<>>) = 0
      OBVIOUS
    <3>. QED
      <4>1. 2 * n = 0 /\ 1 .. n = {}
        BY <1>4
      <4>2. d \in Seq(T) /\ Len(d) = 0
        BY <2>2, <3>1
      <4>. QED
        BY <4>1, <4>2
<1>5. ASSUME n # 0
      PROVE  /\ d \in Seq(T) /\ Len(d) = 2 * n
             /\ \A i \in 1 .. n : d[2 * i - 1] = x[i] /\ d[2 * i] = y[i]
  <2>1. PICK e : d \in Seq(T) /\ Tiles(d, seqs, n, e)
    BY <1>3, <1>5, Flattened
  <2>2. /\ e \in [0 .. n -> Nat] /\ e[0] = 0 /\ e[n] = Len(d)
        /\ \A k \in 1 .. n : e[k] = e[k - 1] + 2
        /\ \A k \in 1 .. n : \A j \in 1 .. 2 : d[e[k - 1] + j] = seqs[k][j]
    <3>1. \A k \in 1 .. n : e[k] = e[k - 1] + Len(seqs[k])
      BY <2>1 DEF Tiles
    <3>2. \A k \in 1 .. n : \A j \in 1 .. Len(seqs[k]) : d[e[k - 1] + j] = seqs[k][j]
      BY <2>1 DEF Tiles
    <3>3. e \in [0 .. n -> Nat] /\ e[0] = 0 /\ e[n] = Len(d)
      BY <2>1 DEF Tiles
    <3>. QED
      BY <1>2, <3>1, <3>2, <3>3
  <2>3. \A k \in 0 .. n : e[k] = 2 * k
    <3>. SUFFICES ASSUME NEW l \in 0 .. n, e[l] # 2 * l PROVE FALSE
      OBVIOUS
    <3>. DEFINE S == {k \in Nat : k <= n /\ e[k] # 2 * k}
    <3>1. S \subseteq Nat /\ l \in S
      OBVIOUS
    <3>2. PICK k \in S : \A j \in S : k <= j
      <4>. HIDE DEF S
      <4>. QED
        BY <3>1, Least
    <3>3. k \in Nat /\ k <= n /\ e[k] # 2 * k /\ k # 0
      BY <2>2, <3>2
    <3>4. k \in 1 .. n /\ k - 1 \in Nat /\ k - 1 <= n /\ ~(k <= k - 1) /\ k - 1 \in 0 .. n
      BY <3>3
    <3>5. e[k - 1] = 2 * (k - 1)
      BY <3>2, <3>4
    <3>6. e[k] = e[k - 1] + 2
      BY <2>2, <3>4
    <3>. QED
      BY <3>3, <3>5, <3>6
  <2>4. ASSUME NEW i \in 1 .. n PROVE d[2 * i - 1] = x[i] /\ d[2 * i] = y[i]
    <3>1. PICK k \in 0 .. n : k = i - 1
      OBVIOUS
    <3>2. e[k] = 2 * k
      BY <2>3
    <3>3. d[2 * k + 1] = seqs[i][1] /\ d[2 * k + 2] = seqs[i][2]
      <4>1. 1 \in 1 .. 2 /\ 2 \in 1 .. 2
        OBVIOUS
      <4>2. d[e[i - 1] + 1] = seqs[i][1] /\ d[e[i - 1] + 2] = seqs[i][2]
        BY <2>2, <4>1
      <4>. QED
        BY <3>1, <3>2, <4>2
    <3>4. 2 * k + 1 = 2 * i - 1 /\ 2 * k + 2 = 2 * i
      BY <3>1
    <3>. QED
      BY <1>2, <3>3, <3>4
  <2>5. n \in 0 .. n
    OBVIOUS
  <2>. QED
    BY <2>1, <2>2, <2>3, <2>4, <2>5
<1>6. Interleaved(d, x, y, n, T)
  BY <1>4, <1>5 DEF Interleaved
<1>. QED
  BY <1>6

\* A playlist of n segments behind h lines, with the target duration t.
Listing(w, h, n, segments, t) ==
  /\ Len(w) >= h + 2 * n
  /\ \A i \in 1 .. h : w[i].tag \notin {"EXTINF", "URI"}
  /\ \A i \in 1 .. n : /\ w[h + (2 * i - 1)] = Line("EXTINF", Rounded(segments[i]))
                       /\ w[h + 2 * i] = Line("URI", i)
  /\ \A i \in h + 2 * n + 1 .. Len(w) : /\ w[i].tag \notin {"EXTINF", "TARGETDURATION"}
                                        /\ w[i].tag = "URI" => i > h + 2 * n + 1
  /\ \E i \in 1 .. h : w[i].tag = "TARGETDURATION"
  /\ \A i \in 1 .. h : w[i].tag = "TARGETDURATION" => w[i].value = t

\* Lines that may follow a playlist.
Trailing(r) ==
  /\ \A i \in 1 .. Len(r) : r[i].tag \notin {"EXTINF", "TARGETDURATION"}
  /\ Len(r) > 0 => r[1].tag # "URI"

LEMMA TailKept ==
  ASSUME NEW T, NEW w \in Seq(T), NEW r \in Seq(T), NEW h \in Nat, NEW n \in Nat, NEW segments, NEW t,
         Listing(w, h, n, segments, t), Trailing(r)
  PROVE  Listing(w \o r, h, n, segments, t)
<1>1. PICK v : v = w \o r
  OBVIOUS
<1>2. PICK a \in Nat, b \in Nat, q \in Nat : a = Len(w) /\ b = Len(r) /\ q = h + 2 * n /\ a >= q
  BY DEF Listing
<1>3. /\ Len(v) = a + b /\ \A i \in 1 .. a : v[i] = w[i]
      /\ \A i \in 1 .. b : v[a + i] = r[i]
  <2>1. w \in Seq(T) /\ r \in Seq(T)
    OBVIOUS
  <2>. QED
    BY <1>1, <1>2, <2>1, ConcatProperties
<1>4. \A i \in 1 .. h : v[i] = w[i]
  BY <1>2, <1>3
<1>5. ASSUME NEW i \in 1 .. n
      PROVE  v[h + (2 * i - 1)] = w[h + (2 * i - 1)] /\ v[h + 2 * i] = w[h + 2 * i]
  <2>1. h + (2 * i - 1) \in 1 .. a /\ h + 2 * i \in 1 .. a
    BY <1>2
  <2>. QED
    BY <1>3, <2>1
<1>6. ASSUME NEW i \in q + 1 .. a + b
      PROVE  v[i].tag \notin {"EXTINF", "TARGETDURATION"} /\ (v[i].tag = "URI" => i > q + 1)
  <2>1. CASE i <= a
    <3>1. i \in q + 1 .. a /\ v[i] = w[i]
      BY <1>2, <1>3, <2>1
    <3>. QED
      BY <1>2, <3>1 DEF Listing
  <2>2. CASE ~(i <= a)
    <3>1. PICK j \in 1 .. b : i = a + j
      <4>1. i - a \in 1 .. b /\ i = a + (i - a)
        BY <1>2, <2>2
      <4>. QED
        BY <4>1
    <3>2. v[i] = r[j]
      BY <1>3, <3>1
    <3>3. r[j].tag \notin {"EXTINF", "TARGETDURATION"} /\ r[1].tag # "URI"
      BY <1>2 DEF Trailing
    <3>4. j # 1 => i > q + 1
      BY <1>2, <3>1
    <3>. QED
      BY <3>2, <3>3, <3>4
  <2>. QED
    BY <2>1, <2>2
<1>7. Len(v) >= q
  BY <1>2, <1>3
<1>8. \A i \in h + 2 * n + 1 .. Len(v) : /\ v[i].tag \notin {"EXTINF", "TARGETDURATION"}
                                         /\ v[i].tag = "URI" => i > h + 2 * n + 1
  BY <1>2, <1>3, <1>6
<1>9. Listing(v, h, n, segments, t)
  BY <1>2, <1>4, <1>5, <1>7, <1>8 DEF Listing
<1>. QED
  BY <1>1, <1>9

\* The longest of the segments exists.
LEMMA LongestIs ==
  ASSUME NEW n \in Nat \ {0}, NEW s \in [1 .. n -> Nat]
  PROVE  \E i \in 1 .. n : \A k \in 1 .. n : s[k] <= s[i]
<1>. DEFINE Good(m) == \E i \in 1 .. m : \A k \in 1 .. m : s[k] <= s[i]
<1>1. Good(1)
  OBVIOUS
<1>2. ASSUME NEW m \in 1 .. n, m + 1 <= n, Good(m) PROVE Good(m + 1)
  <2>1. PICK i \in 1 .. m : \A k \in 1 .. m : s[k] <= s[i]
    BY <1>2
  <2>2. /\ i \in 1 .. m + 1 /\ m + 1 \in 1 .. m + 1 /\ s[i] \in Nat /\ s[m + 1] \in Nat
        /\ \A k \in 1 .. m + 1 : (k = m + 1 \/ k \in 1 .. m) /\ s[k] \in Nat
    BY <1>2
  <2>3. CASE s[m + 1] <= s[i]
    <3>1. \A k \in 1 .. m + 1 : s[k] <= s[i]
      BY <2>1, <2>2, <2>3
    <3>. QED
      BY <2>2, <3>1
  <2>4. CASE ~(s[m + 1] <= s[i])
    <3>1. ASSUME NEW k \in 1 .. m + 1 PROVE s[k] <= s[m + 1]
      <4>1. CASE k = m + 1
        BY <2>2, <4>1
      <4>2. CASE k \in 1 .. m
        BY <2>1, <2>2, <2>4, <4>2
      <4>. QED
        BY <2>2, <4>1, <4>2
    <3>. QED
      BY <2>2, <3>1
  <2>. QED
    BY <2>3, <2>4
<1>3. Good(n)
  <2>. SUFFICES ASSUME ~Good(n) PROVE FALSE
    OBVIOUS
  <2>. DEFINE S == {m \in Nat : 1 <= m /\ m <= n /\ ~Good(m)}
  <2>1. S \subseteq Nat /\ S # {}
    <3>1. n \in Nat /\ 1 <= n /\ n <= n
      OBVIOUS
    <3>. HIDE DEF Good
    <3>. QED
      BY <3>1
  <2>2. PICK m \in S : \A k \in S : m <= k
    <3>. HIDE DEF S
    <3>. QED
      BY <2>1, Least
  <2>. HIDE DEF Good
  <2>3. m \in 1 .. n /\ ~Good(m) /\ m # 1
    BY <1>1, <2>2
  <2>4. m - 1 \in 1 .. n /\ ~(m <= m - 1) /\ m - 1 + 1 = m /\ m - 1 + 1 <= n
    BY <2>3
  <2>5. Good(m - 1)
    BY <2>2, <2>4
  <2>. QED
    BY <1>2, <2>3, <2>4, <2>5
<1>. QED
  BY <1>3

\* A duration rounded to milliseconds is within the seconds that hold a longer one.
LEMMA RoundedWithin ==
  ASSUME NEW d \in Nat, NEW longest \in Nat, d <= longest
  PROVE  /\ Ceiling(longest) \in Nat /\ Rounded(d) \in Nat
         /\ Rounded(d) * MilliUnits <= Ceiling(longest) * SecondUnits
<1>1. PICK M \in Nat \ {0}, S \in Nat \ {0} : M = MilliUnits /\ S = SecondUnits /\ S % M = 0
  BY TextAssumption
<1>2. PICK q \in Nat : S = M * q
  <2>1. S \div M \in Nat /\ S = M * (S \div M) + (S % M)
    BY DivNat
  <2>2. PICK q \in Nat, y \in Nat : q = S \div M /\ y = M * q /\ S = y + (S % M)
    BY <2>1
  <2>3. S = y
    BY <1>1, <2>2
  <2>. QED
    BY <2>2, <2>3
<1>3. PICK c \in Nat : c = Ceiling(longest) /\ longest <= S * c
  <2>1. PICK x \in Nat : x = longest + S - 1
    OBVIOUS
  <2>2. PICK k \in Nat, r \in 0 .. S - 1 : k = x \div S /\ x = S * k + r
    <3>1. x \div S \in Nat /\ x % S \in 0 .. S - 1 /\ x = S * (x \div S) + (x % S)
      BY DivNat
    <3>. QED
      BY <3>1
  <2>3. PICK y \in Nat : y = S * k
    OBVIOUS
  <2>4. longest <= y
    BY <2>1, <2>2, <2>3
  <2>5. Ceiling(longest) = k
    BY <1>1, <2>1, <2>2 DEF Ceiling
  <2>. QED
    BY <2>3, <2>4, <2>5
<1>4. PICK x \in Nat : x = q * c /\ S * c = M * x
  BY <1>2
<1>5. PICK half \in Nat : half = M \div 2 /\ half < M
  <2>1. PICK half \in Nat, r \in 0 .. 1 : half = M \div 2 /\ M = 2 * half + r
    <3>1. M \div 2 \in Nat /\ M % 2 \in 0 .. 1 /\ M = 2 * (M \div 2) + (M % 2)
      BY DivNat
    <3>. QED
      BY <3>1
  <2>2. half < M
    <3>1. M = 2 * half + r
      BY <2>1
    <3>. QED
      BY ONLY <3>1, half \in Nat, r \in 0 .. 1, M \in Nat \ {0}
  <2>3. half = M \div 2
    BY <2>1
  <2>. QED
    BY <2>2, <2>3, Zenon
<1>6. PICK r \in Nat, rest \in 0 .. M - 1 : r = Rounded(d) /\ d + half = M * r + rest
  <2>1. PICK z \in Nat : z = d + half
    OBVIOUS
  <2>2. z \div M \in Nat /\ z % M \in 0 .. M - 1 /\ z = M * (z \div M) + (z % M)
    BY DivNat
  <2>3. Rounded(d) = z \div M
    BY <1>1, <1>5, <2>1 DEF Rounded
  <2>. QED
    BY <2>1, <2>2, <2>3
<1>7. r <= x
  <2>. SUFFICES ASSUME x + 1 <= r PROVE FALSE
    OBVIOUS
  <2>1. PICK u \in Nat : r = x + 1 + u
    <3>1. r - (x + 1) \in Nat /\ r = x + 1 + (r - (x + 1))
      OBVIOUS
    <3>. QED
      BY <3>1
  <2>2. PICK a \in Nat, b \in Nat : a = M * x /\ b = M * u
    OBVIOUS
  <2>3. M * r = a + M + b
    BY <2>1, <2>2
  <2>4. d <= a
    BY <1>3, <1>4, <2>2
  <2>. QED
    BY <1>5, <1>6, <2>2, <2>3, <2>4
<1>8. M * r <= M * x
  <2>1. PICK u \in Nat : x = r + u
    <3>1. x - r \in Nat /\ x = r + (x - r)
      BY <1>7
    <3>. QED
      BY <3>1
  <2>2. PICK a \in Nat, b \in Nat : a = M * r /\ b = M * u
    OBVIOUS
  <2>3. M * x = a + b
    BY <2>1, <2>2
  <2>. QED
    BY <2>2, <2>3
<1>9. r * M = M * r /\ c * S = S * c
  OBVIOUS
<1>. QED
  BY <1>1, <1>3, <1>4, <1>6, <1>8, <1>9

LEMMA ListingRead ==
  ASSUME NEW w, NEW h \in Nat, NEW n \in Nat, NEW segments \in [1 .. n -> Nat], NEW t \in Nat,
         Len(w) \in Nat, DOMAIN w = 1 .. Len(w), Listing(w, h, n, segments, t),
         \A i \in 1 .. n : Rounded(segments[i]) * MilliUnits <= t * SecondUnits
  PROVE  /\ {w[i].value : i \in ReadSegments(w)} = 1 .. n
         /\ \A i, k \in ReadSegments(w) : i < k => w[i].value < w[k].value
         /\ ValuesOf(w, "TARGETDURATION") = {t}
         /\ \A d \in ValuesOf(w, "EXTINF") : d * MilliUnits <= t * SecondUnits
<1>1. PICK a \in Nat, q \in Nat : a = Len(w) /\ q = h + 2 * n /\ q <= a /\ DOMAIN w = 1 .. a
  <2>1. PICK a \in Nat : a = Len(w)
    OBVIOUS
  <2>2. PICK q \in Nat : q = h + 2 * n
    OBVIOUS
  <2>3. q <= a
    BY <2>1, <2>2 DEF Listing
  <2>4. DOMAIN w = 1 .. a
    BY <2>1
  <2>. QED
    BY <2>1, <2>2, <2>3, <2>4, Zenon
<1>2. ASSUME NEW i \in 1 .. n
      PROVE  /\ w[h + (2 * i - 1)].tag = "EXTINF" /\ w[h + (2 * i - 1)].value = Rounded(segments[i])
             /\ w[h + 2 * i].tag = "URI" /\ w[h + 2 * i].value = i
  <2>1. w[h + (2 * i - 1)] = Line("EXTINF", Rounded(segments[i])) /\ w[h + 2 * i] = Line("URI", i)
    BY DEF Listing
  <2>2. \A tag, value : Line(tag, value).tag = tag /\ Line(tag, value).value = value
    BY DEF Line
  <2>. QED
    BY <2>1, <2>2
<1>3. ASSUME NEW i \in 1 .. a
      PROVE  \/ i \in 1 .. h
             \/ \E k \in 1 .. n : i = h + (2 * k - 1)
             \/ \E k \in 1 .. n : i = h + 2 * k
             \/ i \in q + 1 .. a
  <2>1. CASE i \in h + 1 .. q
    <3>1. PICK j \in 1 .. 2 * n : i = h + j
      <4>1. i - h \in 1 .. 2 * n /\ i = h + (i - h)
        BY <1>1, <2>1
      <4>. QED
        BY <4>1
    <3>2. PICK k \in Nat, r \in 0 .. 1 : j = 2 * k + r
      <4>1. j \div 2 \in Nat /\ j % 2 \in 0 .. 1 /\ j = 2 * (j \div 2) + (j % 2)
        OBVIOUS
      <4>. QED
        BY <4>1
    <3>3. CASE r = 0
      <4>1. j = 2 * k
        BY <3>2, <3>3
      <4>2. k \in 1 .. n /\ i = h + 2 * k
        BY <3>1, <4>1
      <4>. QED
        BY <4>2
    <3>4. CASE r = 1
      <4>1. j = 2 * k + 1
        BY <3>2, <3>4
      <4>2. k + 1 \in 1 .. n /\ i = h + (2 * (k + 1) - 1)
        BY <3>1, <4>1
      <4>. QED
        BY <4>2
    <3>. QED
      BY <3>2, <3>3, <3>4
  <2>2. CASE i \notin h + 1 .. q
    BY <1>1, <2>2
  <2>. QED
    BY <2>1, <2>2
<1>4. \A i \in 1 .. h : w[i].tag \notin {"EXTINF", "URI"}
  BY DEF Listing
<1>5. \A i \in q + 1 .. a : /\ w[i].tag \notin {"EXTINF", "TARGETDURATION"}
                            /\ w[i].tag = "URI" => i > q + 1
  BY <1>1 DEF Listing
<1>6. ASSUME NEW i \in ReadSegments(w) PROVE \E k \in 1 .. n : i = h + 2 * k
  <2>1. i \in 1 .. a /\ w[i].tag = "URI" /\ i > 1 /\ w[i - 1].tag = "EXTINF"
    BY <1>1 DEF ReadSegments
  <2>2. i \notin 1 .. h
    BY <1>4, <2>1
  <2>3. ~\E k \in 1 .. n : i = h + (2 * k - 1)
    BY <1>2, <2>1
  <2>4. i \notin q + 1 .. a
    <3>. SUFFICES ASSUME i \in q + 1 .. a PROVE FALSE
      OBVIOUS
    <3>1. i - 1 \in q + 1 .. a
      BY <1>5, <2>1
    <3>. QED
      BY <1>5, <2>1, <3>1
  <2>. QED
    BY <1>3, <2>1, <2>2, <2>3, <2>4
<1>7. ASSUME NEW k \in 1 .. n PROVE h + 2 * k \in ReadSegments(w)
  <2>1. h + 2 * k \in 1 .. a /\ h + 2 * k > 1 /\ h + 2 * k - 1 = h + (2 * k - 1)
    BY <1>1
  <2>2. w[h + 2 * k].tag = "URI" /\ w[h + 2 * k - 1].tag = "EXTINF"
    BY <1>2, <2>1
  <2>. QED
    BY <1>1, <2>1, <2>2 DEF ReadSegments
<1>8. {w[i].value : i \in ReadSegments(w)} = 1 .. n
  <2>1. ASSUME NEW i \in ReadSegments(w) PROVE w[i].value \in 1 .. n
    <3>1. PICK k \in 1 .. n : i = h + 2 * k
      BY <1>6
    <3>2. w[i].value = k
      BY <1>2, <3>1
    <3>. QED
      BY <3>2
  <2>2. ASSUME NEW k \in 1 .. n PROVE \E i \in ReadSegments(w) : w[i].value = k
    BY <1>2, <1>7
  <2>. QED
    BY <2>1, <2>2
<1>9. ASSUME NEW i \in ReadSegments(w), NEW k \in ReadSegments(w), i < k PROVE w[i].value < w[k].value
  <2>1. PICK b \in 1 .. n, c \in 1 .. n : i = h + 2 * b /\ k = h + 2 * c
    BY <1>6
  <2>2. w[i].value = b /\ w[k].value = c
    BY <1>2, <2>1
  <2>3. b < c
    BY <1>9, <2>1
  <2>. QED
    BY <2>2, <2>3
<1>10. ValuesOf(w, "TARGETDURATION") = {t}
  <2>1. PICK i \in 1 .. h : w[i].tag = "TARGETDURATION" /\ w[i].value = t
    BY DEF Listing
  <2>2. i \in 1 .. a
    BY <1>1
  <2>3. t \in ValuesOf(w, "TARGETDURATION")
    BY <1>1, <2>1, <2>2 DEF ValuesOf
  <2>4. ASSUME NEW x \in ValuesOf(w, "TARGETDURATION") PROVE x = t
    <3>1. PICK k \in 1 .. a : w[k].tag = "TARGETDURATION" /\ x = w[k].value
      BY <1>1 DEF ValuesOf
    <3>2. k \in 1 .. h
      BY <1>2, <1>3, <1>5, <3>1
    <3>. QED
      BY <3>1, <3>2 DEF Listing
  <2>. QED
    BY <2>3, <2>4
<1>11. ASSUME NEW d \in ValuesOf(w, "EXTINF") PROVE d * MilliUnits <= t * SecondUnits
  <2>1. PICK i \in 1 .. a : w[i].tag = "EXTINF" /\ d = w[i].value
    BY <1>1 DEF ValuesOf
  <2>2. PICK k \in 1 .. n : i = h + (2 * k - 1)
    BY <1>2, <1>3, <1>4, <1>5, <2>1
  <2>3. d = Rounded(segments[k])
    BY <1>2, <2>1, <2>2
  <2>. QED
    BY <2>3
<1>. QED
  BY <1>8, <1>9, <1>10, <1>11

\* What the lines of the playlists say.
Tags == {"EXTM3U", "STREAM-INF", "TARGETDURATION", "MEDIA-SEQUENCE", "EXTINF", "URI", "ENDLIST"}

PlaylistLines == {Line(tag, value) : tag \in Tags, value \in Nat \cup Variants}

LEMMA LineFields ==
  ASSUME NEW tag, NEW value
  PROVE  Line(tag, value).tag = tag /\ Line(tag, value).value = value
BY DEF Line

LEMMA LineWritten ==
  ASSUME NEW tag \in Tags, NEW value, value \in Nat \/ value \in Variants
  PROVE  /\ Line(tag, value) \in PlaylistLines /\ <<Line(tag, value)>> \in Seq(PlaylistLines)
         /\ Len(<<Line(tag, value)>>) = 1 /\ <<Line(tag, value)>>[1] = Line(tag, value)
<1>1. PICK x : x = Line(tag, value)
  OBVIOUS
<1>2. x \in PlaylistLines
  BY <1>1 DEF PlaylistLines
<1>3. <<x>> \in Seq(PlaylistLines) /\ Len(<<x>>) = 1 /\ <<x>>[1] = x
  BY <1>2, RangeOne
<1>. QED
  BY <1>1, <1>2, <1>3

\* w is a playlist of the segments, with a target duration that covers them.
PlaylistWritten(w, n, segments) ==
  /\ w \in Seq(PlaylistLines)
  /\ \E h \in Nat, t \in Nat :
       /\ Listing(w, h, n, segments, t)
       /\ \A i \in 1 .. n : Rounded(segments[i]) * MilliUnits <= t * SecondUnits

LEMMA PlaylistListed ==
  ASSUME NEW n \in Nat, NEW segments \in [1 .. n -> Nat], NEW target \in Nat,
         NEW variant, variant = NoValue \/ variant \in Variants, NEW endlist \in BOOLEAN
  PROVE  PlaylistWritten(playlist_write_to([target_duration |-> target, media_sequence |-> 0, segments |-> segments,
                                    is_endlist |-> endlist, variant |-> variant]), n, segments)
<1>0. PICK playlist, w :
        /\ playlist = [target_duration |-> target, media_sequence |-> 0, segments |-> segments,
                       is_endlist |-> endlist, variant |-> variant]
        /\ w = playlist_write_to(playlist)
  OBVIOUS
<1>1. PICK longest \in Nat : longest = Longest(playlist) /\ \A i \in 1 .. n : segments[i] <= longest
  <2>1. CASE n = 0
    <3>1. segments = <<>> /\ playlist.segments = segments /\ playlist.target_duration = target /\ 1 .. n = {}
      BY <1>0, <2>1
    <3>. QED
      BY <3>1 DEF Longest
  <2>2. CASE n # 0
    <3>1. PICK i \in 1 .. n : \A k \in 1 .. n : segments[k] <= segments[i]
      BY <2>2, LongestIs
    <3>2. segments # <<>> /\ playlist.segments = segments
      BY <1>0, <2>2
    <3>3. ToSet(segments) = {segments[k] : k \in 1 .. n}
      BY DEF ToSet
    <3>4. segments[i] \in ToSet(segments) /\ \A e \in ToSet(segments) : e <= segments[i]
      BY <3>1, <3>3
    <3>5. PICK d : d = CHOOSE x \in ToSet(segments) : \A e \in ToSet(segments) : e <= x
      OBVIOUS
    <3>6. d \in ToSet(segments) /\ \A e \in ToSet(segments) : e <= d
      BY <3>4, <3>5
    <3>7. Longest(playlist) = d
      BY <3>2, <3>5, Zenon DEF Longest
    <3>. QED
      BY <3>3, <3>6, <3>7
  <2>. QED
    BY <2>1, <2>2
<1>2. PICK t \in Nat : t = Ceiling(longest)
  BY RoundedWithin
<1>3. ASSUME NEW i \in 1 .. n
      PROVE  Rounded(segments[i]) \in Nat /\ Rounded(segments[i]) * MilliUnits <= t * SecondUnits
  BY <1>1, <1>2, RoundedWithin
<1>4. PICK a, b, c, d, e :
        /\ a = <<Line("EXTM3U", 0)>> /\ b = StreamInf(variant)
        /\ c = <<Line("TARGETDURATION", t), Line("MEDIA-SEQUENCE", 0)>>
        /\ d = FlattenSeq([i \in 1 .. n |-> <<Line("EXTINF", Rounded(segments[i])), Line("URI", i)>>])
        /\ e = IF endlist THEN <<Line("ENDLIST", 0)>> ELSE <<>>
  OBVIOUS
<1>5. PICK w1, w2, w3 : w1 = a \o b /\ w2 = w1 \o c /\ w3 = w2 \o d
  OBVIOUS
<1>6. w = w3 \o e
  <2>1. /\ playlist.segments = segments /\ playlist.variant = variant /\ playlist.media_sequence = 0
        /\ playlist.is_endlist = endlist /\ DOMAIN segments = 1 .. n
    BY <1>0
  <2>2. [i \in DOMAIN playlist.segments |-> SegmentLines(playlist, i)]
          = [i \in 1 .. n |-> <<Line("EXTINF", Rounded(segments[i])), Line("URI", i)>>]
    BY <2>1, Zenon DEF SegmentLines
  <2>. QED
    BY <1>0, <1>1, <1>2, <1>4, <1>5, <2>1, <2>2, Zenon DEF playlist_write_to
<1>7. a \in Seq(PlaylistLines) /\ Len(a) = 1 /\ a[1].tag = "EXTM3U"
  BY <1>4, LineWritten, LineFields DEF Tags
<1>8. b \in Seq(PlaylistLines) /\ \A i \in 1 .. Len(b) : b[i].tag = "STREAM-INF"
  <2>1. CASE variant = NoValue
    <3>1. b = <<>>
      BY <1>4, <2>1 DEF StreamInf
    <3>. QED
      BY <3>1, RangeNone
  <2>2. CASE variant # NoValue
    <3>1. b = <<Line("STREAM-INF", variant)>> /\ variant \in Variants
      BY <1>4, <2>2 DEF StreamInf
    <3>2. b \in Seq(PlaylistLines) /\ Len(b) = 1 /\ b[1] = Line("STREAM-INF", variant)
      BY <3>1, LineWritten DEF Tags
    <3>. QED
      BY <3>2, LineFields
  <2>. QED
    BY <2>1, <2>2
<1>9. /\ c \in Seq(PlaylistLines) /\ Len(c) = 2 /\ c[1].tag = "TARGETDURATION" /\ c[1].value = t
      /\ c[2].tag = "MEDIA-SEQUENCE"
  <2>1. PICK x \in PlaylistLines, y \in PlaylistLines : x = Line("TARGETDURATION", t) /\ y = Line("MEDIA-SEQUENCE", 0)
    BY LineWritten DEF Tags
  <2>2. c = <<x, y>>
    BY <1>4, <2>1
  <2>3. c \in Seq(PlaylistLines) /\ Len(c) = 2 /\ c[1] = x /\ c[2] = y
    BY <2>2
  <2>. QED
    BY <2>1, <2>3, LineFields
<1>10. /\ d \in Seq(PlaylistLines) /\ Len(d) = 2 * n
       /\ \A i \in 1 .. n : d[2 * i - 1] = Line("EXTINF", Rounded(segments[i])) /\ d[2 * i] = Line("URI", i)
  <2>1. PICK x, y : /\ x = [i \in 1 .. n |-> Line("EXTINF", Rounded(segments[i]))]
                    /\ y = [i \in 1 .. n |-> Line("URI", i)]
    OBVIOUS
  <2>2. ASSUME NEW i \in 1 .. n
        PROVE  /\ x[i] = Line("EXTINF", Rounded(segments[i])) /\ y[i] = Line("URI", i)
               /\ x[i] \in PlaylistLines /\ y[i] \in PlaylistLines
    <3>1. i \in Nat
      OBVIOUS
    <3>. QED
      BY <1>3, <2>1, <3>1, LineWritten DEF Tags
  <2>3. x \in [1 .. n -> PlaylistLines] /\ y \in [1 .. n -> PlaylistLines]
    BY <2>1, <2>2
  <2>4. [i \in 1 .. n |-> <<Line("EXTINF", Rounded(segments[i])), Line("URI", i)>>]
          = [i \in 1 .. n |-> <<x[i], y[i]>>]
    BY <2>2
  <2>5. d = FlattenSeq([i \in 1 .. n |-> <<x[i], y[i]>>])
    BY <1>4, <2>4
  <2>6. Interleaved(FlattenSeq([i \in 1 .. n |-> <<x[i], y[i]>>]), x, y, n, PlaylistLines)
    BY <2>3, PairsFlat
  <2>7. Interleaved(d, x, y, n, PlaylistLines)
    BY <2>5, <2>6
  <2>. QED
    BY <2>2, <2>7 DEF Interleaved
<1>11. e \in Seq(PlaylistLines) /\ Trailing(e)
  <2>1. CASE endlist
    <3>1. e = <<Line("ENDLIST", 0)>>
      BY <1>4, <2>1
    <3>2. e \in Seq(PlaylistLines) /\ Len(e) = 1 /\ e[1] = Line("ENDLIST", 0)
      BY <3>1, LineWritten DEF Tags
    <3>. QED
      BY <3>2, LineFields DEF Trailing
  <2>2. CASE ~endlist
    <3>1. e = <<>>
      BY <1>4, <2>2
    <3>. QED
      BY <3>1, RangeNone DEF Trailing
  <2>. QED
    BY <2>1, <2>2
<1>12. /\ w1 \in Seq(PlaylistLines) /\ Len(w1) = 1 + Len(b) /\ w1[1] = a[1]
       /\ \A i \in 1 .. Len(b) : w1[1 + i] = b[i]
  <2>1. Joint(w1, a, b, PlaylistLines)
    BY <1>5, <1>7, <1>8, JointIs
  <2>. QED
    BY <1>7, <2>1 DEF Joint
<1>13. PICK g \in Nat : g = Len(w1) /\ \A i \in 1 .. g : w1[i].tag = "EXTM3U" \/ w1[i].tag = "STREAM-INF"
  <2>1. ASSUME NEW i \in 1 .. Len(w1), i # 1 PROVE w1[i].tag = "STREAM-INF"
    <3>1. PICK k \in 1 .. Len(b) : i = 1 + k
      <4>1. i - 1 \in 1 .. Len(b) /\ i = 1 + (i - 1)
        BY <1>8, <1>12, <2>1
      <4>. QED
        BY <4>1
    <3>. QED
      BY <1>8, <1>12, <3>1
  <2>. QED
    BY <1>7, <1>12, <2>1
<1>14. PICK h \in Nat : /\ h = g + 2 /\ w2 \in Seq(PlaylistLines) /\ Len(w2) = h
                        /\ \A i \in 1 .. g : w2[i] = w1[i]
                        /\ w2[g + 1] = c[1] /\ w2[g + 2] = c[2]
  <2>1. /\ w2 \in Seq(PlaylistLines) /\ Len(w2) = g + 2 /\ \A i \in 1 .. g : w2[i] = w1[i]
        /\ \A i \in 1 .. 2 : w2[g + i] = c[i]
    <3>1. Joint(w2, w1, c, PlaylistLines)
      BY <1>5, <1>9, <1>12, JointIs
    <3>2. Len(w1) = g /\ Len(c) = 2
      BY <1>9, <1>13
    <3>. QED
      BY <3>1, <3>2 DEF Joint
  <2>2. 1 \in 1 .. 2 /\ 2 \in 1 .. 2 /\ g + 2 \in Nat
    OBVIOUS
  <2>. QED
    BY <2>1, <2>2
<1>15. /\ w3 \in Seq(PlaylistLines) /\ Len(w3) = h + 2 * n
       /\ \A i \in 1 .. h : w3[i] = w2[i]
       /\ \A i \in 1 .. 2 * n : w3[h + i] = d[i]
  <2>1. Joint(w3, w2, d, PlaylistLines)
    BY <1>5, <1>10, <1>14, JointIs
  <2>2. Len(w2) = h /\ Len(d) = 2 * n
    BY <1>10, <1>14
  <2>. QED
    BY <2>1, <2>2 DEF Joint
<1>16. \A i \in 1 .. h : i \in 1 .. g \/ i = g + 1 \/ i = g + 2
  BY <1>14
<1>17. \A i \in 1 .. h : w3[i].tag \notin {"EXTINF", "URI"} /\ (w3[i].tag = "TARGETDURATION" => w3[i].value = t)
  <2>1. ASSUME NEW i \in 1 .. g PROVE w3[i].tag = "EXTM3U" \/ w3[i].tag = "STREAM-INF"
    <3>1. i \in 1 .. h /\ w3[i] = w1[i]
      BY <1>14, <1>15
    <3>. QED
      BY <1>13, <3>1
  <2>2. /\ w3[g + 1].tag = "TARGETDURATION" /\ w3[g + 1].value = t
        /\ w3[g + 2].tag = "MEDIA-SEQUENCE"
    <3>1. g + 1 \in 1 .. h /\ g + 2 \in 1 .. h
      BY <1>14
    <3>. QED
      BY <1>9, <1>14, <1>15, <3>1
  <2>. QED
    BY <1>16, <2>1, <2>2
<1>18. \E i \in 1 .. h : w3[i].tag = "TARGETDURATION"
  <2>1. g + 1 \in 1 .. h
    BY <1>14
  <2>. QED
    BY <1>9, <1>14, <1>15, <2>1
<1>19. ASSUME NEW i \in 1 .. n
       PROVE  w3[h + (2 * i - 1)] = Line("EXTINF", Rounded(segments[i])) /\ w3[h + 2 * i] = Line("URI", i)
  <2>1. 2 * i - 1 \in 1 .. 2 * n /\ 2 * i \in 1 .. 2 * n
    OBVIOUS
  <2>. QED
    BY <1>10, <1>15, <2>1
<1>20. h + 2 * n + 1 .. Len(w3) = {}
  BY <1>15
<1>21. Listing(w3, h, n, segments, t)
  BY <1>15, <1>17, <1>18, <1>19, <1>20 DEF Listing
<1>22. Listing(w, h, n, segments, t) /\ w \in Seq(PlaylistLines)
  <2>1. Listing(w3 \o e, h, n, segments, t)
    BY <1>11, <1>15, <1>21, TailKept
  <2>2. Joint(w3 \o e, w3, e, PlaylistLines)
    BY <1>11, <1>15, JointIs
  <2>. QED
    BY <1>6, <2>1, <2>2 DEF Joint
<1>23. PlaylistWritten(w, n, segments)
  BY <1>3, <1>22 DEF PlaylistWritten
<1>. QED
  BY <1>0, <1>23

LEMMA TailWritten ==
  ASSUME NEW n \in Nat, NEW segments, NEW w, NEW r \in Seq(PlaylistLines),
         PlaylistWritten(w, n, segments), Trailing(r)
  PROVE  PlaylistWritten(w \o r, n, segments)
<1>1. w \in Seq(PlaylistLines)
  BY DEF PlaylistWritten
<1>2. PICK h \in Nat, t \in Nat :
        /\ Listing(w, h, n, segments, t)
        /\ \A i \in 1 .. n : Rounded(segments[i]) * MilliUnits <= t * SecondUnits
  BY DEF PlaylistWritten
<1>3. Listing(w \o r, h, n, segments, t)
  BY <1>1, <1>2, TailKept
<1>4. Joint(w \o r, w, r, PlaylistLines)
  BY <1>1, JointIs
<1>5. w \o r \in Seq(PlaylistLines)
  BY <1>4 DEF Joint
<1>. QED
  BY <1>2, <1>3, <1>5 DEF PlaylistWritten

\* What PlaylistReadBack says of the segments.
SegmentsRead(w, n) ==
  /\ {w[i].value : i \in ReadSegments(w)} = 1 .. n
  /\ \A i, k \in ReadSegments(w) : i < k => w[i].value < w[k].value
  /\ \E target \in ValuesOf(w, "TARGETDURATION") :
       /\ ValuesOf(w, "TARGETDURATION") = {target}
       /\ \A d \in ValuesOf(w, "EXTINF") : d * MilliUnits <= target * SecondUnits

LEMMA WrittenRead ==
  ASSUME NEW n \in Nat, NEW segments \in [1 .. n -> Nat], NEW w, PlaylistWritten(w, n, segments)
  PROVE  SegmentsRead(w, n)
<1>1. w \in Seq(PlaylistLines)
  BY DEF PlaylistWritten
<1>2. PICK h \in Nat, t \in Nat :
        /\ Listing(w, h, n, segments, t)
        /\ \A i \in 1 .. n : Rounded(segments[i]) * MilliUnits <= t * SecondUnits
  BY DEF PlaylistWritten
<1>3. Len(w) \in Nat /\ DOMAIN w = 1 .. Len(w)
  BY <1>1
<1>4. /\ {w[i].value : i \in ReadSegments(w)} = 1 .. n
      /\ \A i, k \in ReadSegments(w) : i < k => w[i].value < w[k].value
      /\ ValuesOf(w, "TARGETDURATION") = {t}
      /\ \A d \in ValuesOf(w, "EXTINF") : d * MilliUnits <= t * SecondUnits
  BY <1>2, <1>3, ListingRead
<1>. QED
  BY <1>4 DEF SegmentsRead

\* A master playlist may follow another, and lists its variants.
Master(m, v, variants) ==
  /\ m \in Seq(PlaylistLines) /\ Trailing(m)
  /\ \A k \in 1 .. v : \E i \in 1 .. Len(m) : Lists(m, i, variants[k])

LEMMA MasterListed ==
  ASSUME NEW v \in Nat, NEW variants \in [1 .. v -> Variants]
  PROVE  Master(master_write_to(variants), v, variants)
<1>1. PICK a, d, m : /\ a = <<Line("EXTM3U", 0)>>
                     /\ d = FlattenSeq([i \in 1 .. v |-> <<Line("STREAM-INF", variants[i]), Line("URI", variants[i])>>])
                     /\ m = a \o d
  OBVIOUS
<1>2. master_write_to(variants) = m
  BY <1>1, DOMAIN variants = 1 .. v, Zenon DEF master_write_to
<1>3. a \in Seq(PlaylistLines) /\ Len(a) = 1 /\ a[1].tag = "EXTM3U"
  BY <1>1, LineWritten, LineFields DEF Tags
<1>4. PICK x, y : /\ x = [i \in 1 .. v |-> Line("STREAM-INF", variants[i])]
                  /\ y = [i \in 1 .. v |-> Line("URI", variants[i])]
  OBVIOUS
<1>5. ASSUME NEW i \in 1 .. v
      PROVE  /\ x[i] = Line("STREAM-INF", variants[i]) /\ y[i] = Line("URI", variants[i])
             /\ x[i] \in PlaylistLines /\ y[i] \in PlaylistLines
  <2>1. variants[i] \in Variants
    OBVIOUS
  <2>. QED
    BY <1>4, <2>1, LineWritten DEF Tags
<1>6. x \in [1 .. v -> PlaylistLines] /\ y \in [1 .. v -> PlaylistLines]
  BY <1>4, <1>5
<1>7. [i \in 1 .. v |-> <<Line("STREAM-INF", variants[i]), Line("URI", variants[i])>>]
        = [i \in 1 .. v |-> <<x[i], y[i]>>]
  BY <1>5
<1>8. Interleaved(d, x, y, v, PlaylistLines)
  <2>1. Interleaved(FlattenSeq([i \in 1 .. v |-> <<x[i], y[i]>>]), x, y, v, PlaylistLines)
    BY <1>6, PairsFlat
  <2>. QED
    BY <1>1, <1>7, <2>1
<1>9. d \in Seq(PlaylistLines) /\ Len(d) = 2 * v
  BY <1>8 DEF Interleaved
<1>10. ASSUME NEW k \in 1 .. v
       PROVE  /\ d[2 * k - 1].tag = "STREAM-INF" /\ d[2 * k - 1].value = variants[k]
              /\ d[2 * k].tag = "URI" /\ d[2 * k].value = variants[k]
  <2>1. d[2 * k - 1] = x[k] /\ d[2 * k] = y[k]
    BY <1>8 DEF Interleaved
  <2>. QED
    BY <1>5, <2>1, LineFields
<1>11. Joint(m, a, d, PlaylistLines)
  BY <1>1, <1>3, <1>9, JointIs
<1>12. /\ m \in Seq(PlaylistLines) /\ Len(m) = 1 + 2 * v /\ m[1] = a[1]
       /\ \A i \in 1 .. 2 * v : m[1 + i] = d[i]
  BY <1>3, <1>9, <1>11 DEF Joint
<1>13. ASSUME NEW k \in 1 .. v
       PROVE  m[2 * k] = d[2 * k - 1] /\ m[2 * k + 1] = d[2 * k]
  <2>1. /\ 2 * k - 1 \in 1 .. 2 * v /\ 2 * k \in 1 .. 2 * v
        /\ 1 + (2 * k - 1) = 2 * k /\ 1 + 2 * k = 2 * k + 1
    OBVIOUS
  <2>2. m[1 + (2 * k - 1)] = d[2 * k - 1] /\ m[1 + 2 * k] = d[2 * k]
    BY <1>12, <2>1
  <2>. QED
    BY <2>1, <2>2
<1>14. ASSUME NEW k \in 1 .. v
       PROVE  2 * k \in 1 .. Len(m) /\ Lists(m, 2 * k, variants[k])
  <2>1. 2 * k \in 1 .. Len(m) /\ 2 * k < Len(m)
    BY <1>12
  <2>. QED
    BY <1>10, <1>13, <2>1 DEF Lists
<1>15. ASSUME NEW i \in 1 .. Len(m)
       PROVE  m[i].tag \notin {"EXTINF", "TARGETDURATION"}
  <2>1. CASE i = 1
    BY <1>3, <1>12, <2>1
  <2>2. CASE i # 1
    <3>1. PICK k \in 1 .. v : i = 2 * k \/ i = 2 * k + 1
      <4>1. PICK k \in Nat, r \in 0 .. 1 : i = 2 * k + r
        <5>1. i \div 2 \in Nat /\ i % 2 \in 0 .. 1 /\ i = 2 * (i \div 2) + (i % 2)
          OBVIOUS
        <5>. QED
          BY <5>1
      <4>2. k \in 1 .. v /\ (i = 2 * k \/ i = 2 * k + 1)
        BY <1>12, <2>2, <4>1
      <4>. QED
        BY <4>2
    <3>. QED
      BY <1>10, <1>13, <3>1
  <2>. QED
    BY <2>1, <2>2
<1>16. Trailing(m)
  BY <1>3, <1>12, <1>15 DEF Trailing
<1>17. Master(m, v, variants)
  BY <1>12, <1>14, <1>16 DEF Master
<1>. QED
  BY <1>2, <1>17

LEMMA PlaylistsReadBack ==
  ASSUME WritePlaylists
  PROVE  PlaylistReadBack' /\ source'.kind = "playlist"
<1>1. PICK n \in 0 .. MaxSegmentsListed, v \in 0 .. 2, endlist \in BOOLEAN, trailer \in BOOLEAN :
        \E segments \in [1 .. n -> Durations], variants \in [1 .. v -> Variants], target \in Durations :
          LET playlist == PlaylistOf(variants, segments, target, endlist /\ ~trailer)
          IN  /\ source' = [kind |-> "playlist", playlist |-> playlist, variants |-> variants,
                              trailer |-> trailer]
              /\ result' = IF trailer
                           THEN playlist_write_to(playlist) \o master_write_to(variants)
                           ELSE playlist_write_to(playlist)
  BY Zenon DEF WritePlaylists
<1>2. PICK segments \in [1 .. n -> Durations], variants \in [1 .. v -> Variants], target \in Durations :
        LET playlist == PlaylistOf(variants, segments, target, endlist /\ ~trailer)
        IN  /\ source' = [kind |-> "playlist", playlist |-> playlist, variants |-> variants,
                            trailer |-> trailer]
            /\ result' = IF trailer
                         THEN playlist_write_to(playlist) \o master_write_to(variants)
                         ELSE playlist_write_to(playlist)
  BY <1>1, Zenon
<1>3. PICK playlist, w, m : /\ playlist = PlaylistOf(variants, segments, target, endlist /\ ~trailer)
                            /\ w = playlist_write_to(playlist) /\ m = master_write_to(variants)
  OBVIOUS
<1>4. /\ source' = [kind |-> "playlist", playlist |-> playlist, variants |-> variants, trailer |-> trailer]
      /\ result' = IF trailer THEN w \o m ELSE w
  BY <1>2, <1>3, Zenon
<1>5. n \in Nat /\ v \in Nat /\ segments \in [1 .. n -> Nat] /\ target \in Nat
  <2>1. MaxSegmentsListed \in Nat /\ Durations \subseteq Nat
    BY TextAssumption
  <2>2. n \in Nat /\ v \in Nat /\ target \in Nat
    BY <2>1
  <2>3. segments \in [1 .. n -> Nat]
    BY <2>1
  <2>. QED
    BY <2>2, <2>3
<1>6. PlaylistWritten(w, n, segments) /\ playlist.segments = segments
  <2>1. PICK variant : variant = IF variants = <<>> THEN NoValue ELSE variants[Len(variants)]
    OBVIOUS
  <2>2. variant = NoValue \/ variant \in Variants
    <3>1. CASE variants = <<>>
      BY <2>1, <3>1
    <3>2. CASE variants # <<>>
      <4>1. variants \in Seq(Variants)
        BY <1>5
      <4>. QED
        BY <2>1, <3>2, <4>1
    <3>. QED
      BY <3>1, <3>2
  <2>3. PICK last \in BOOLEAN : last = (endlist /\ ~trailer)
    OBVIOUS
  <2>4. playlist = [target_duration |-> target, media_sequence |-> 0, segments |-> segments,
                    is_endlist |-> last, variant |-> variant]
    BY <1>3, <2>1, <2>3, Zenon DEF PlaylistOf
  <2>5. PlaylistWritten(playlist_write_to([target_duration |-> target, media_sequence |-> 0, segments |-> segments,
                                   is_endlist |-> last, variant |-> variant]), n, segments)
    BY <1>5, <2>2, PlaylistListed
  <2>. QED
    BY <1>3, <2>4, <2>5
<1>7. Master(m, v, variants)
  BY <1>3, <1>5, MasterListed
<1>8. PlaylistWritten(w \o m, n, segments)
  BY <1>5, <1>6, <1>7, TailWritten DEF Master
<1>9. SegmentsRead(result', n)
  <2>1. PlaylistWritten(result', n, segments)
    BY <1>4, <1>6, <1>8
  <2>. QED
    BY <1>5, <2>1, WrittenRead
<1>10. ASSUME trailer, NEW k \in 1 .. v
       PROVE  \E i \in DOMAIN result' : Lists(result', i, variants[k])
  <2>1. PICK i \in 1 .. Len(m) : Lists(m, i, variants[k])
    BY <1>7 DEF Master
  <2>2. w \in Seq(PlaylistLines) /\ m \in Seq(PlaylistLines)
    BY <1>6, <1>7 DEF PlaylistWritten, Master
  <2>3. Joint(result', w, m, PlaylistLines)
    BY <1>4, <1>10, <2>2, JointIs
  <2>4. PICK a \in Nat, b \in Nat : a = Len(w) /\ b = Len(m)
    BY <2>2
  <2>5. /\ result' \in Seq(PlaylistLines) /\ Len(result') = a + b
        /\ \A j \in 1 .. b : result'[a + j] = m[j]
    BY <2>3, <2>4 DEF Joint
  <2>6. /\ i \in 1 .. b /\ i + 1 \in 1 .. b /\ a + i < a + b /\ (a + i) + 1 = a + (i + 1)
        /\ a + i \in 1 .. a + b
    BY <2>1, <2>4 DEF Lists
  <2>7. result'[a + i] = m[i] /\ result'[(a + i) + 1] = m[i + 1]
    <3>1. result'[a + (i + 1)] = m[i + 1] /\ result'[a + i] = m[i]
      BY <2>5, <2>6
    <3>. QED
      BY <2>6, <3>1
  <2>8. Lists(result', a + i, variants[k])
    BY <2>1, <2>5, <2>6, <2>7 DEF Lists
  <2>9. DOMAIN result' = 1 .. a + b
    BY <2>5
  <2>. QED
    BY <2>6, <2>8, <2>9
<1>11. /\ source'.kind = "playlist" /\ source'.variants = variants /\ source'.trailer = trailer
       /\ source'.playlist = playlist
       /\ DOMAIN source'.playlist.segments = 1 .. n /\ DOMAIN source'.variants = 1 .. v
  <2>1. /\ source'.kind = "playlist" /\ source'.variants = variants /\ source'.trailer = trailer
        /\ source'.playlist = playlist
    BY <1>4
  <2>. QED
    BY <1>6, <2>1
<1>12. PlaylistReadBack'
  <2>1. PlaylistReadBack' <=>
          (source'.kind = "playlist" =>
             /\ {result'[i].value : i \in ReadSegments(result')} = DOMAIN source'.playlist.segments
             /\ \A i, k \in ReadSegments(result') : i < k => result'[i].value < result'[k].value
             /\ \E target_ \in ValuesOf(result', "TARGETDURATION") :
                  /\ ValuesOf(result', "TARGETDURATION") = {target_}
                  /\ \A d \in ValuesOf(result', "EXTINF") : d * MilliUnits <= target_ * SecondUnits
             /\ source'.trailer =>
                  \A k \in DOMAIN source'.variants :
                    \E i \in DOMAIN result' : Lists(result', i, source'.variants[k]))
    BY Zenon DEF PlaylistReadBack
  <2>2. source'.trailer =>
          \A k \in DOMAIN source'.variants :
            \E i \in DOMAIN result' : Lists(result', i, source'.variants[k])
    BY <1>10, <1>11
  <2>. QED
    BY <1>9, <1>11, <2>1, <2>2 DEF SegmentsRead
<1>. QED
  BY <1>11, <1>12

LEMMA TextInitially ==
  ASSUME TextInit PROVE TextReadBack
BY DEF TextInit, TextReadBack, TransportReadBack, DescriptionReadBack, PlaylistReadBack

LEMMA TextNextReadBack ==
  ASSUME TextNext PROVE TextReadBack'
<1>1. CASE ReadTransport \/ RequestTransport
  <2>1. TransportReadBack' /\ source'.kind = "transport"
    BY <1>1, TransportsReadBack
  <2>. QED
    BY <2>1 DEF TextReadBack, DescriptionReadBack, PlaylistReadBack
<1>2. CASE ReadDescription
  <2>1. DescriptionReadBack' /\ source'.kind = "description"
    BY <1>2, DescriptionsReadBack
  <2>. QED
    BY <2>1 DEF TextReadBack, TransportReadBack, PlaylistReadBack
<1>3. CASE WritePlaylists
  <2>1. PlaylistReadBack' /\ source'.kind = "playlist"
    BY <1>3, PlaylistsReadBack
  <2>. QED
    BY <2>1 DEF TextReadBack, TransportReadBack, DescriptionReadBack
<1>. QED
  BY <1>1, <1>2, <1>3 DEF TextNext

------------------------------------------------------------------------------
\* The other formats leave an ADTS file alone.
LEMMA FormatsADTS == Next => [ADTSNext]_adtsvars
BY DEF Next, adtsvars

LEMMA FormatsBits == Next => [BitsNext]_bitvars
BY DEF Next, bitvars

\* Every read of BitReader that succeeds took the code of the value it returned,
\* within a u32, and every one that fails did so because none was there; and the
\* reader stays in its slice whatever is read after a failure.
THEOREM ReadsAlwaysExact == Spec => []ReadsExact
<1>1. Init => BitsInv
  BY BitsInvInit DEF Init
<1>2. BitsInv /\ [Next]_formatvars => BitsInv'
  <2>1. UNCHANGED formatvars => [BitsNext]_bitvars
    BY DEF formatvars, bitvars
  <2>. QED
    BY <2>1, FormatsBits, BitsInvStep
<1>3. BitsInv => ReadsExact
  BY DEF BitsInv
<1>. QED
  BY <1>1, <1>2, <1>3, PTL DEF Spec

LEMMA FormatsH264 == Next => H264Next \/ UNCHANGED h264vars
BY DEF Next, h264vars

\* Whatever packets it is sent, H264Decoder holds the last parameter sets before
\* the first slice or unknown unit of each, with at most one byte too many, and
\* it passes a packet on exactly when a slice comes first.
THEOREM DecoderAlwaysHolds == Spec => []DecoderHoldsSent
<1>1. Init => H264Inv
  BY H264Begins DEF Init
<1>2. H264Inv /\ [Next]_formatvars => H264Inv'
  <2>1. H264Inv /\ H264Next => H264Inv'
    BY H264Steps
  <2>2. H264Inv /\ UNCHANGED h264vars => H264Inv'
    BY DEF h264vars, H264Inv
  <2>3. [Next]_formatvars => H264Next \/ UNCHANGED h264vars
    BY FormatsH264 DEF formatvars, h264vars
  <2>. QED
    BY <2>1, <2>2, <2>3
<1>3. H264Inv => DecoderHoldsSent
  BY H264Holds
<1>. QED
  BY <1>1, <1>2, <1>3, PTL DEF Spec

\* Every packet that AACDemuxer gives is one that was written, whole, in order
\* and once, whatever the sizes of its frames.
THEOREM FramesAlwaysInOrder == Spec => []FramesInOrder
<1>1. Init => ADTSInv
  BY ADTSInvInit DEF Init
<1>2. ADTSInv /\ [Next]_formatvars => ADTSInv'
  <2>1. UNCHANGED formatvars => [ADTSNext]_adtsvars
    BY DEF formatvars, adtsvars
  <2>. QED
    BY <2>1, FormatsADTS, ADTSInvStep
<1>3. ADTSInv => FramesInOrder
  BY FramesAreInOrder
<1>. QED
  BY <1>1, <1>2, <1>3, PTL DEF Spec

\* What RTPPacket::parse and RTCPPacket::parse take of a datagram lies within
\* it and is all that a conforming sender put there; nothing else panics than
\* padding that reaches into the reports and a type 200 without its fixed part.
THEOREM DatagramsAlwaysExact == Spec => []DatagramsExact
<1>1. Init => DatagramsExact
  BY DEF Init, DatagramsInit, DatagramsExact
<1>2. DatagramsExact /\ [Next]_formatvars => DatagramsExact'
  <2>1. DatagramsNext => DatagramsExact'
    BY ReceiveRTPExact, ReceiveRTCPExact DEF DatagramsNext
  <2>2. DatagramsExact /\ UNCHANGED datavars => DatagramsExact'
    BY DEF datavars, DatagramsExact
  <2>3. [Next]_formatvars => [DatagramsNext]_datavars
    BY DEF Next, formatvars, datavars
  <2>. QED
    BY <2>1, <2>2, <2>3
<1>. QED
  BY <1>1, <1>2, PTL DEF Spec

\* What TSMuxer or a sender that follows the format writes into a transport
\* stream is read back: adaptation fields, stamps and clocks to within a tick,
\* and the tables, for every size of packets and every table, until bytes that
\* are no table are parsed as one.  That takes a dropped read or a TS packet
\* that has not its size; without either no PMT that fits is missed.
THEOREM StreamAlwaysReadBack == Spec => []StreamReadBack
<1>. DEFINE Inv == FieldsReadBack /\ StampsReadBack /\ TablesInv
<1>1. Init => Inv
  <2>. SUFFICES ASSUME Init PROVE Inv
    OBVIOUS
  <2>1. MuxInit /\ FieldsInit /\ TablesInit
    BY DEF Init
  <2>2. FieldsReadBack /\ StampsReadBack
    BY <2>1 DEF FieldsInit, FieldsReadBack, StampsReadBack
  <2>. QED
    BY <2>1, <2>2, TablesInvInit
<1>2. Inv /\ [Next]_formatvars => Inv'
  <2>. SUFFICES ASSUME Inv, [Next]_formatvars PROVE Inv'
    OBVIOUS
  <2>1. /\ FieldsNext \/ UNCHANGED fieldvars
        /\ TablesNext \/ UNCHANGED <<registered, tablevars>>
    <3>1. FieldsNext => UNCHANGED registered
      BY DEF FieldsNext, muxvars
    <3>. QED
      BY <3>1 DEF Next, formatvars, muxvars
  <2>2. FieldsReadBack' /\ StampsReadBack'
    <3>1. CASE FieldsNext
      BY <3>1, FieldsStep
    <3>2. CASE UNCHANGED fieldvars
      BY <3>2 DEF fieldvars, FieldsReadBack, StampsReadBack, Behind
    <3>. QED
      BY <2>1, <3>1, <3>2
  <2>3. TablesInv'
    <3>1. CASE TablesNext
      BY <3>1, TablesInvStep
    <3>2. CASE UNCHANGED <<registered, tablevars>>
      BY <3>2 DEF tablevars, TablesInv
    <3>. QED
      BY <2>1, <3>1, <3>2
  <2>. QED
    BY <2>2, <2>3
<1>3. Inv => StreamReadBack
  BY TablesAreReadBack DEF StreamReadBack
<1>. QED
  BY <1>1, <1>2, <1>3, PTL DEF Spec

LEMMA FormatsText == Next => TextNext \/ UNCHANGED textvars
BY DEF Next

\* A Transport header parsed, formatted and parsed again is the same but for a
\* lone port; every media of a description is found once and set up where the
\* controls mean; and the segments and variants of the playlists that are
\* written are those that a client reads, none longer than announced: for
\* headers, descriptions and playlists of any length and any durations.
THEOREM TextAlwaysReadBack == Spec => []TextReadBack
<1>1. Init => TextReadBack
  BY TextInitially DEF Init
<1>2. TextReadBack /\ [Next]_formatvars => TextReadBack'
  <2>1. TextNext => TextReadBack'
    BY TextNextReadBack
  <2>2. TextReadBack /\ UNCHANGED textvars => TextReadBack'
    <3>. SUFFICES ASSUME TextReadBack, UNCHANGED textvars PROVE TextReadBack'
      OBVIOUS
    <3>1. source' = source /\ result' = result
      BY DEF textvars
    <3>2. TransportReadBack' <=> TransportReadBack
      BY <3>1 DEF TransportReadBack
    <3>3. DescriptionReadBack' <=> DescriptionReadBack
      <4>1. DescriptionReadBack <=> DescriptionRead(source, result)
        BY Zenon DEF DescriptionReadBack, DescriptionRead, OwnControl
      <4>2. DescriptionReadBack' <=> DescriptionRead(source', result')
        BY Zenon DEF DescriptionReadBack, DescriptionRead, OwnControl
      <4>. QED
        BY <3>1, <4>1, <4>2
    <3>4. PlaylistReadBack' <=> PlaylistReadBack
      BY <3>1, Zenon DEF PlaylistReadBack
    <3>. QED
      BY <3>2, <3>3, <3>4 DEF TextReadBack
  <2>3. [Next]_formatvars => TextNext \/ UNCHANGED textvars
    BY FormatsText DEF formatvars
  <2>. QED
    BY <2>1, <2>2, <2>3
<1>. QED
  BY <1>1, <1>2, PTL DEF Spec

LEMMA FormatsH265 == Next => H265Next \/ UNCHANGED h265vars
BY DEF Next

\* What H265Parser stores is the parameter set an encoder wrote: every field that
\* it reads has the value written, and a unit that was cut short of a field
\* stores nothing.  Of an SPS with sub-layers this holds of the fields before
\* them.  For cuts of any length, words of any size that holds an exponent, and
\* any number of sub-layers that an encoder may announce.
THEOREM ParameterSetsAlwaysWhole == Spec => []ParameterSetsWhole
<1>1. Init => H265Inv
  BY H265Begins DEF Init
<1>2. H265Inv /\ [Next]_formatvars => H265Inv'
  <2>1. [Next]_formatvars => [H265Next]_h265vars
    BY FormatsH265 DEF formatvars
  <2>. QED
    BY <2>1, H265Steps
<1>3. H265Inv => ParameterSetsWhole
  BY DEF H265Inv
<1>. QED
  BY <1>1, <1>2, <1>3, PTL DEF Spec
==============================================================================
