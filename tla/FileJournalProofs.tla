------------------------- MODULE FileJournalProofs -------------------------
(***************************************************************************)
(* FileJournal: what an append that read the file acknowledged stays, the  *)
(* lock is never left behind by an orderly owner, and but for power losses *)
(* and misled answers it implements the store the engine relies on, for    *)
(* any processes, records, frame size and bounds.                          *)
(***************************************************************************)
EXTENDS FileJournalInvariant, FiniteSetTheorems, SequenceTheorems, WellFoundedInduction, TLAPS

-----------------------------------------------------------------------------
(* Maxima.                                                                 *)

(* A nonempty set of naturals up to a bound has a greatest member: of the  *)
(* sets of members above a member, all finite, one is smallest.            *)
LEMMA HasMaximum ==
  ASSUME NEW b \in Nat, NEW S \in SUBSET (0 .. b), S # {}
  PROVE  Max(S) \in S /\ \A y \in S : Max(S) >= y
<1> DEFINE above(x) == {y \in S : y > x}
           T == {above(x) : x \in S}
           R == StrictSubsetOrdering(0 .. b)
           F == FiniteSubsetsOf(0 .. b)
<1>1. IsFiniteSet(0 .. b)
  BY FS_Interval
<1>2. T \subseteq F
  <2>1. ASSUME NEW x \in S PROVE above(x) \in F
    <3>1. above(x) \subseteq 0 .. b
      OBVIOUS
    <3>2. IsFiniteSet(above(x))
      BY <1>1, <3>1, FS_Subset
    <3> QED BY <3>1, <3>2 DEF FiniteSubsetsOf
  <2> QED BY <2>1
<1>3. T # {}
  OBVIOUS
<1>4. IsWellFoundedOn(R, F)
  BY FS_StrictSubsetOrderingWellFounded
<1>5. \E t \in T : \A u \in T : ~ (<<u, t>> \in R)
  <2>1. ASSUME NEW W, NEW G, NEW O, IsWellFoundedOn(O, G), W \subseteq G, W # {}
        PROVE  \E t \in W : \A u \in W : ~ (<<u, t>> \in O)
    BY <2>1, WFMin, Zenon
  <2> HIDE DEF T, R, F
  <2> QED BY <1>2, <1>3, <1>4, <2>1, Zenon
<1>9. PICK t \in T : \A u \in T : ~ (<<u, t>> \in R)
  BY <1>5
<1>6. PICK x \in S : t = above(x)
  OBVIOUS
<1>7. ASSUME NEW y \in S, y > x PROVE FALSE
  <2>1. above(y) \in T
    OBVIOUS
  <2>a. \A z \in S : z \in Nat
    OBVIOUS
  <2>b. \A z \in S : z > y => z > x
    BY <1>7, <2>a
  <2>c. ~ y > y
    BY <2>a
  <2>2. above(y) \subseteq above(x) /\ y \in above(x) /\ y \notin above(y)
    BY <1>7, <2>b, <2>c, Zenon
  <2>3. above(x) \subseteq 0 .. b
    OBVIOUS
  <2> HIDE DEF above, T
  <2>4. above(x) \in SUBSET (0 .. b) /\ above(y) \in SUBSET (0 .. b) /\ above(y) # above(x)
    BY <2>2, <2>3
  <2>5. <<above(y), above(x)>> \in R
    BY <2>2, <2>4 DEF StrictSubsetOrdering
  <2> QED BY <1>9, <1>6, <2>1, <2>5
<1>8. \A y \in S : x >= y
  <2>a. \A z \in S : z \in Nat
    OBVIOUS
  <2> QED BY <1>7, <2>a
<1> QED BY <1>8 DEF Max

-----------------------------------------------------------------------------
(* Offsets.  The i-th frame is the FrameParts parts after Off(i - 1).      *)

Off(i) == i * FrameParts

(* A later frame begins where the earlier one has ended.                   *)
LEMMA OffLater ==
  ASSUME NEW i \in Nat, NEW j \in Nat, i < j
  PROVE  Off(i) + FrameParts <= Off(j)
<1>1. PICK d \in Nat : j = i + 1 + d
  <2>1. j - (i + 1) \in Nat /\ j = i + 1 + (j - (i + 1))
    OBVIOUS
  <2> QED BY <2>1
<1>2. j * FrameParts = i * FrameParts + FrameParts + d * FrameParts
  BY <1>1, FrameAssumption
<1>3. d * FrameParts >= 0 /\ i * FrameParts \in Nat /\ j * FrameParts \in Nat
  BY <1>1, FrameAssumption
<1> QED BY <1>2, <1>3, FrameAssumption DEF Off

(* Offsets are naturals, from 0 on and FrameParts apart.                   *)
LEMMA OffStep ==
  /\ Off(0) = 0
  /\ \A i \in Nat : Off(i) \in Nat /\ Off(i + 1) = Off(i) + FrameParts
  BY FrameAssumption DEF Off

(* Offsets do not decrease.                                                *)
LEMMA OffMono ==
  ASSUME NEW i \in Nat, NEW j \in Nat, i <= j
  PROVE  Off(i) <= Off(j)
<1>1. CASE i < j
  BY <1>1, OffLater, OffStep, FrameAssumption
<1>2. CASE i = j
  BY <1>2, OffStep
<1> QED BY <1>1, <1>2

(* Division by FrameParts counts the frames that fit.                      *)
LEMMA OffDiv ==
  ASSUME NEW l \in Nat
  PROVE  /\ l \div FrameParts \in Nat
         /\ \A n \in Nat : n <= l \div FrameParts <=> Off(n) <= l
<1>1. /\ l \div FrameParts \in Nat
      /\ Off(l \div FrameParts) <= l
      /\ l < Off(l \div FrameParts) + FrameParts
  BY FrameAssumption DEF Off
<1>2. ASSUME NEW n \in Nat, n <= l \div FrameParts PROVE Off(n) <= l
  BY <1>1, <1>2, OffMono, OffStep
<1>3. ASSUME NEW n \in Nat, ~ n <= l \div FrameParts PROVE ~ Off(n) <= l
  <2>1. l \div FrameParts < n
    BY <1>1, <1>3
  <2>2. Off(l \div FrameParts) + FrameParts <= Off(n)
    BY <1>1, <2>1, OffLater
  <2>3. Off(l \div FrameParts) \in Nat /\ Off(n) \in Nat
    BY <1>1, OffStep
  <2> HIDE DEF Off
  <2> QED BY <1>1, <2>2, <2>3, FrameAssumption
<1> QED BY <1>1, <1>2, <1>3

(* The frames of a file of l parts lie within it.                          *)
LEMMA OffWithin ==
  ASSUME NEW n \in Nat, NEW l \in Nat, Off(n) <= l, NEW i \in 1 .. n
  PROVE  /\ i \in Nat \ {0} /\ i - 1 \in Nat /\ (i - 1) + 1 = i
         /\ Off(i - 1) \in Nat /\ Off(i) \in Nat
         /\ Off(i) = Off(i - 1) + FrameParts
         /\ Off(i) <= Off(n) /\ Off(i) <= l
<1>1. i \in Nat \ {0} /\ i - 1 \in Nat /\ (i - 1) + 1 = i /\ i <= n
  OBVIOUS
<1>2. Off(n) \in Nat /\ Off(i - 1) \in Nat /\ Off(i) \in Nat /\ Off(i) = Off(i - 1) + FrameParts
  BY <1>1, OffStep
<1>3. Off(i) <= Off(n)
  BY <1>1, OffMono
<1> QED BY <1>1, <1>2, <1>3

-----------------------------------------------------------------------------
(* Frames.                                                                 *)

\* The i-th frame of f is whole and the record's.
HasFrame(f, i, record) ==
  \A k \in 1 .. FrameParts : f[Off(i - 1) + k] = [record |-> record, part |-> k]

(* A slice of a sequence, by position.                                     *)
LEMMA Slice ==
  ASSUME NEW S, NEW f \in Seq(S), NEW lo \in Nat, NEW n \in Nat, lo + n <= Len(f)
  PROVE  SubSeq(f, lo + 1, lo + n) = [k \in 1 .. n |-> f[lo + k]]
  OBVIOUS

(* What the parser cuts out as the i-th frame.                             *)
LEMMA FrameAtIs ==
  ASSUME NEW f \in Seq(Parts), NEW i \in Nat \ {0}, Off(i) <= Len(f)
  PROVE  FrameAt(f, i) = [k \in 1 .. FrameParts |-> f[Off(i - 1) + k]]
<1>1. i - 1 \in Nat /\ (i - 1) + 1 = i
  OBVIOUS
<1>2. Off(i - 1) \in Nat /\ Off(i) \in Nat /\ Off(i) = Off(i - 1) + FrameParts
  BY <1>1, OffStep
<1>3. FrameAt(f, i) = SubSeq(f, Off(i - 1) + 1, Off(i))
  BY DEF FrameAt, Off
<1> HIDE DEF Off
<1>4. SubSeq(f, Off(i - 1) + 1, Off(i)) = [k \in 1 .. FrameParts |-> f[Off(i - 1) + k]]
  BY <1>2, Slice, FrameAssumption
<1> QED BY <1>3, <1>4

(* A frame is whole when each of its parts is where it belongs.            *)
LEMMA WholeFrame ==
  ASSUME NEW f \in Seq(Parts), NEW i \in Nat \ {0}, Off(i) <= Len(f)
  PROVE  /\ IsFrame(FrameAt(f, i)) <=> \E r \in Records : HasFrame(f, i, r)
         /\ \A r \in Records : HasFrame(f, i, r) => FrameAt(f, i)[1].record = r
         /\ IsFrame(FrameAt(f, i)) =>
              FrameAt(f, i)[1].record \in Records /\ HasFrame(f, i, FrameAt(f, i)[1].record)
<1> DEFINE a == FrameAt(f, i)
<1>1. a = [k \in 1 .. FrameParts |-> f[Off(i - 1) + k]]
  BY FrameAtIs
<1>2. 1 \in 1 .. FrameParts
  BY FrameAssumption
<1> HIDE DEF a
<1>3. a # <<>>
  BY <1>1, <1>2
<1>4. ASSUME NEW r \in Records PROVE HasFrame(f, i, r) <=> a = Frame(r)
  BY <1>1 DEF HasFrame, Frame
<1>5. \A r \in Records : Frame(r)[1].record = r
  BY <1>2 DEF Frame
<1>6. IsFrame(a) <=> a[1].record \in Records /\ a = Frame(a[1].record)
  BY <1>3 DEF IsFrame
<1>7. IsFrame(a) <=> \E r \in Records : HasFrame(f, i, r)
  BY <1>4, <1>5, <1>6
<1>8. \A r \in Records : HasFrame(f, i, r) => a[1].record = r
  BY <1>4, <1>5
<1>9. IsFrame(a) => a[1].record \in Records /\ HasFrame(f, i, a[1].record)
  BY <1>4, <1>6
<1> QED BY <1>7, <1>8, <1>9 DEF a

(* GoodFrames is the longest run of whole frames from the start.           *)
LEMMA GoodFramesIs ==
  ASSUME NEW f \in Seq(Parts)
  PROVE  /\ GoodFrames(f) \in Nat
         /\ Off(GoodFrames(f)) <= Len(f)
         /\ \A i \in 1 .. GoodFrames(f) : IsFrame(FrameAt(f, i))
         /\ \A n \in Nat : Off(n) <= Len(f) /\ (\A i \in 1 .. n : IsFrame(FrameAt(f, i)))
              => n <= GoodFrames(f)
<1> DEFINE b == Len(f) \div FrameParts
           S == {n \in 0 .. b : \A i \in 1 .. n : IsFrame(FrameAt(f, i))}
<1>1. Len(f) \in Nat
  OBVIOUS
<1>2. b \in Nat /\ \A n \in Nat : n <= b <=> Off(n) <= Len(f)
  BY <1>1, OffDiv
<1>3. 0 \in S
  BY <1>2
<1>4. S \in SUBSET (0 .. b)
  OBVIOUS
<1>5. GoodFrames(f) = Max(S)
  BY DEF GoodFrames
<1>6. Max(S) \in S /\ \A y \in S : Max(S) >= y
  <2> HIDE DEF S, b
  <2> QED BY <1>2, <1>3, <1>4, HasMaximum
<1>7. \A n : n \in S <=> n \in Nat /\ n <= b /\ \A i \in 1 .. n : IsFrame(FrameAt(f, i))
  BY <1>2
<1> HIDE DEF S, b
<1> QED BY <1>2, <1>5, <1>6, <1>7

(* The records parsed are those of the whole frames, in their order.       *)
LEMMA ParsedIs ==
  ASSUME NEW f \in Seq(Parts)
  PROVE  /\ Parsed(f) \in Seq(Records)
         /\ Len(Parsed(f)) = GoodFrames(f)
         /\ \A i \in 1 .. GoodFrames(f) : HasFrame(f, i, Parsed(f)[i])
<1>1. GoodFrames(f) \in Nat /\ Off(GoodFrames(f)) <= Len(f)
  BY GoodFramesIs
<1>2. ASSUME NEW i \in 1 .. GoodFrames(f)
      PROVE  /\ Parsed(f)[i] = FrameAt(f, i)[1].record
             /\ FrameAt(f, i)[1].record \in Records
             /\ HasFrame(f, i, FrameAt(f, i)[1].record)
  <2>1. i \in Nat \ {0} /\ Off(i) <= Len(f)
    BY <1>1, OffWithin, LenProperties
  <2>2. IsFrame(FrameAt(f, i))
    BY GoodFramesIs
  <2>3. Parsed(f)[i] = FrameAt(f, i)[1].record
    BY DEF Parsed
  <2> QED BY <2>1, <2>2, <2>3, WholeFrame
<1>3. Parsed(f) = [i \in 1 .. GoodFrames(f) |-> FrameAt(f, i)[1].record]
  BY DEF Parsed
<1>4. Parsed(f) \in [1 .. GoodFrames(f) -> Records]
  BY <1>2, <1>3
<1>5. Parsed(f) \in Seq(Records) /\ Len(Parsed(f)) = GoodFrames(f)
  BY <1>1, <1>4
<1> QED BY <1>2, <1>5

(* A file that holds the frames of r and has no room for one more, or a    *)
(* next one that is not whole, parses as r.                                *)
LEMMA ParsedDetermined ==
  ASSUME NEW f \in Seq(Parts), NEW r \in Seq(Records),
         Off(Len(r)) <= Len(f),
         \A i \in 1 .. Len(r) : HasFrame(f, i, r[i]),
         \/ Len(f) < Off(Len(r)) + FrameParts
         \/ ~ \E x \in Records : HasFrame(f, Len(r) + 1, x)
  PROVE  Parsed(f) = r /\ GoodFrames(f) = Len(r)
<1>1. GoodFrames(f) \in Nat /\ Off(GoodFrames(f)) <= Len(f) /\ Len(r) \in Nat
  BY GoodFramesIs, LenProperties
<1>2. \A i \in 1 .. Len(r) : r[i] \in Records
  OBVIOUS
<1>3. ASSUME NEW i \in 1 .. Len(r)
      PROVE  IsFrame(FrameAt(f, i)) /\ FrameAt(f, i)[1].record = r[i]
  <2>1. i \in Nat \ {0} /\ Off(i) <= Len(f)
    BY <1>1, OffWithin, LenProperties
  <2> QED BY <1>2, <2>1, WholeFrame
<1>4. Len(r) <= GoodFrames(f)
  BY <1>1, <1>3, GoodFramesIs
<1>5. ASSUME Len(r) < GoodFrames(f) PROVE FALSE
  <2>1. Len(r) + 1 \in 1 .. GoodFrames(f) /\ Len(f) \in Nat
    BY <1>1, <1>5, LenProperties
  <2>2. Len(r) + 1 \in Nat \ {0} /\ Off(Len(r) + 1) <= Len(f)
    BY <1>1, <2>1, OffWithin
  <2>5. Off(Len(r)) \in Nat /\ Off(Len(r) + 1) = Off(Len(r)) + FrameParts
    BY <1>1, OffStep
  <2>3. IsFrame(FrameAt(f, Len(r) + 1))
    BY <2>1, GoodFramesIs
  <2>4. \E x \in Records : HasFrame(f, Len(r) + 1, x)
    BY <2>2, <2>3, WholeFrame
  <2> QED BY <2>1, <2>2, <2>4, <2>5, FrameAssumption
<1>6. GoodFrames(f) = Len(r)
  BY <1>1, <1>4, <1>5
<1>7. Parsed(f) = [i \in 1 .. Len(r) |-> r[i]]
  BY <1>3, <1>6 DEF Parsed
<1> QED BY <1>6, <1>7

(* Two files that agree on the first m frames, whole in one of them, parse *)
(* alike up to there.                                                      *)
LEMMA ParsedAlike ==
  ASSUME NEW f \in Seq(Parts), NEW g \in Seq(Parts), NEW m \in Nat,
         m <= GoodFrames(f), Off(m) <= Len(g),
         \A i \in 1 .. Off(m) : g[i] = f[i]
  PROVE  /\ m <= GoodFrames(g)
         /\ \A i \in 1 .. m : HasFrame(g, i, Parsed(f)[i]) /\ Parsed(g)[i] = Parsed(f)[i]
<1>1. GoodFrames(f) \in Nat /\ GoodFrames(g) \in Nat
  BY GoodFramesIs
<1>2. ASSUME NEW i \in 1 .. m
      PROVE  /\ Parsed(f)[i] \in Records
             /\ HasFrame(g, i, Parsed(f)[i])
             /\ IsFrame(FrameAt(g, i))
             /\ FrameAt(g, i)[1].record = Parsed(f)[i]
  <2>6. Len(g) \in Nat
    BY LenProperties
  <2>1. i \in 1 .. GoodFrames(f) /\ Off(m) \in Nat
    BY <1>1, OffStep
  <2>2. /\ i \in Nat \ {0} /\ Off(i - 1) \in Nat /\ Off(i) = Off(i - 1) + FrameParts
        /\ Off(i) <= Off(m) /\ Off(i) <= Len(g) /\ Off(i) \in Nat
    BY <2>1, <2>6, OffWithin
  <2>3. \A k \in 1 .. FrameParts : g[Off(i - 1) + k] = f[Off(i - 1) + k]
    <3>1. \A k \in 1 .. FrameParts : Off(i - 1) + k \in 1 .. Off(m)
      BY <2>1, <2>2, FrameAssumption
    <3> QED BY <3>1
  <2>4. HasFrame(f, i, Parsed(f)[i]) /\ Parsed(f)[i] \in Records
    BY <1>1, <2>1, ParsedIs
  <2>5. HasFrame(g, i, Parsed(f)[i])
    BY <2>3, <2>4 DEF HasFrame
  <2> QED BY <2>2, <2>4, <2>5, WholeFrame
<1>3. m <= GoodFrames(g)
  BY <1>2, GoodFramesIs
<1>4. \A i \in 1 .. m : Parsed(g)[i] = FrameAt(g, i)[1].record
  BY <1>1, <1>3 DEF Parsed
<1> QED BY <1>2, <1>3, <1>4

(* An empty file has no frames.                                            *)
LEMMA EmptyParses == Parsed(<<>>) = <<>> /\ GoodFrames(<<>>) = 0
<1>1. PICK f \in Seq(Parts) : f = <<>>
  <2>1. <<>> \in Seq(Parts)
    OBVIOUS
  <2> QED BY <2>1
<1>2. PICK r \in Seq(Records) : r = <<>>
  <2>1. <<>> \in Seq(Records)
    OBVIOUS
  <2> QED BY <2>1
<1>3. Len(f) = 0 /\ Len(r) = 0
  BY <1>1, <1>2
<1>4. Off(Len(r)) <= Len(f) /\ Len(f) < Off(Len(r)) + FrameParts
  BY <1>3, OffStep, FrameAssumption
<1>5. \A i \in 1 .. Len(r) : HasFrame(f, i, r[i])
  BY <1>3
<1>6. Parsed(f) = r /\ GoodFrames(f) = Len(r)
  BY <1>4, <1>5, ParsedDetermined
<1> QED BY <1>1, <1>2, <1>3, <1>6

-----------------------------------------------------------------------------
(* What the writes and the truncation do to the file.                      *)

(* A truncation after the whole frames takes back none of them.            *)
LEMMA TruncationKeeps ==
  ASSUME NEW f \in Seq(Parts)
  PROVE  LET g == SubSeq(f, 1, Off(GoodFrames(f)))
         IN /\ g \in Seq(Parts)
            /\ Len(g) = Off(GoodFrames(f))
            /\ \A i \in 1 .. Len(g) : g[i] = f[i]
            /\ Parsed(g) = Parsed(f) /\ GoodFrames(g) = GoodFrames(f)
<1> DEFINE n == GoodFrames(f)
           g == SubSeq(f, 1, Off(n))
<1>1. n \in Nat /\ Off(n) \in Nat /\ Off(n) <= Len(f) /\ Len(f) \in Nat
  BY GoodFramesIs, OffStep, LenProperties
<1>2. g = [k \in 1 .. Off(n) |-> f[k]]
  <2> HIDE DEF n
  <2>1. SubSeq(f, 0 + 1, 0 + Off(n)) = [k \in 1 .. Off(n) |-> f[0 + k]]
    BY <1>1, Slice
  <2> QED BY <1>1, <2>1
<1> HIDE DEF n, g
<1>3. \A k \in 1 .. Off(n) : f[k] \in Parts
  BY <1>1, ElementOfSeq
<1>4. g \in Seq(Parts) /\ Len(g) = Off(n) /\ \A i \in 1 .. Len(g) : g[i] = f[i]
  BY <1>1, <1>2, <1>3
<1>5. n <= GoodFrames(g) /\ \A i \in 1 .. n : HasFrame(g, i, Parsed(f)[i])
  BY <1>1, <1>4, ParsedAlike DEF n
<1>6. Parsed(f) \in Seq(Records) /\ Len(Parsed(f)) = n
  BY ParsedIs DEF n
<1>7. Parsed(g) = Parsed(f) /\ GoodFrames(g) = n
  BY <1>1, <1>4, <1>5, <1>6, ParsedDetermined, FrameAssumption
<1> QED BY <1>4, <1>7 DEF g, n

(* A part written after the whole frames, but for the last of a frame,     *)
(* leaves what is parsed as it is.                                         *)
LEMMA PartWritten ==
  ASSUME NEW f \in Seq(Parts), NEW x \in Parts, NEW part \in Nat,
         Len(f) = Off(GoodFrames(f)) + part, part + 1 < FrameParts
  PROVE  Parsed(Append(f, x)) = Parsed(f) /\ GoodFrames(Append(f, x)) = GoodFrames(f)
<1> DEFINE n == GoodFrames(f)
           g == Append(f, x)
<1>1. n \in Nat /\ Off(n) \in Nat /\ Len(f) \in Nat
  BY GoodFramesIs, OffStep, LenProperties
<1>2. g \in Seq(Parts) /\ Len(g) = Len(f) + 1 /\ \A i \in 1 .. Len(f) : g[i] = f[i]
  BY AppendProperties
<1> HIDE DEF n, g
<1>3. Off(n) <= Len(f) /\ Off(n) <= Len(g) /\ Len(g) < Off(n) + FrameParts
  BY <1>1, <1>2, FrameAssumption DEF n
<1>4. \A i \in 1 .. Off(n) : g[i] = f[i]
  BY <1>1, <1>2, <1>3
<1>5. n <= GoodFrames(g) /\ \A i \in 1 .. n : HasFrame(g, i, Parsed(f)[i])
  BY <1>1, <1>2, <1>3, <1>4, ParsedAlike DEF n
<1>6. Parsed(f) \in Seq(Records) /\ Len(Parsed(f)) = n
  BY ParsedIs DEF n
<1>7. Parsed(g) = Parsed(f) /\ GoodFrames(g) = n
  BY <1>2, <1>3, <1>5, <1>6, ParsedDetermined
<1> QED BY <1>7 DEF g, n

(* The last part of a frame adds its record, and nothing before it counts. *)
LEMMA FrameWritten ==
  ASSUME NEW f \in Seq(Parts), NEW r \in Records, NEW part \in Nat,
         Len(f) = Off(GoodFrames(f)) + part, part + 1 = FrameParts,
         \A k \in 1 .. part : f[Off(GoodFrames(f)) + k] = [record |-> r, part |-> k]
  PROVE  LET g == Append(f, [record |-> r, part |-> FrameParts])
         IN /\ Parsed(g) = Append(Parsed(f), r)
            /\ GoodFrames(g) = GoodFrames(f) + 1
            /\ Len(g) = Off(GoodFrames(f) + 1)
<1> DEFINE n == GoodFrames(f)
           x == [record |-> r, part |-> FrameParts]
           g == Append(f, x)
           s == Append(Parsed(f), r)
<1>0. x \in Parts
  BY FrameAssumption DEF Parts
<1>1. n \in Nat /\ Off(n) \in Nat /\ Len(f) \in Nat /\ Off(n + 1) = Off(n) + FrameParts
  BY GoodFramesIs, OffStep, LenProperties
<1> HIDE DEF x
<1>2. /\ g \in Seq(Parts) /\ Len(g) = Len(f) + 1
      /\ \A i \in 1 .. Len(f) : g[i] = f[i]
      /\ g[Len(f) + 1] = x
  BY <1>0, AppendProperties
<1>3. Parsed(f) \in Seq(Records) /\ Len(Parsed(f)) = n
  BY ParsedIs
<1>4. /\ s \in Seq(Records) /\ Len(s) = n + 1 /\ s[n + 1] = r
      /\ \A i \in 1 .. n : s[i] = Parsed(f)[i]
  BY <1>3, AppendProperties
<1> HIDE DEF g, s
<1>5. Len(f) = Off(n) + part /\ \A k \in 1 .. part : f[Off(n) + k] = [record |-> r, part |-> k]
  OBVIOUS
<1>6. n <= GoodFrames(f)
  BY <1>1
<1> HIDE DEF n
<1>7. Off(n) <= Len(f) /\ Off(n) <= Len(g) /\ Len(g) = Off(n + 1)
  BY <1>1, <1>2, <1>5
<1>8. \A i \in 1 .. Off(n) : g[i] = f[i]
  BY <1>1, <1>2, <1>7
<1>9. \A i \in 1 .. n : HasFrame(g, i, Parsed(f)[i])
  BY <1>1, <1>2, <1>6, <1>7, <1>8, ParsedAlike
<1>10. HasFrame(g, n + 1, r)
  <2>1. ASSUME NEW k \in 1 .. FrameParts
        PROVE  g[Off(n) + k] = [record |-> r, part |-> k]
    <3>1. CASE k <= part
      <4>1. k \in 1 .. part /\ Off(n) + k \in 1 .. Len(f)
        BY <1>1, <1>5, <3>1
      <4> QED BY <1>2, <1>5, <4>1
    <3>2. CASE k = FrameParts
      <4>1. Off(n) + k = Len(f) + 1
        BY <1>1, <1>5, <3>2
      <4> QED BY <1>2, <3>2, <4>1 DEF x
    <3> QED BY <3>1, <3>2, FrameAssumption
  <2>2. (n + 1) - 1 = n
    BY <1>1
  <2> QED BY <2>1, <2>2 DEF HasFrame
<1>11. \A i \in 1 .. Len(s) : HasFrame(g, i, s[i])
  <2>1. \A i \in 1 .. n + 1 : i \in 1 .. n \/ i = n + 1
    BY <1>1
  <2> QED BY <1>4, <1>9, <1>10, <2>1
<1>12. Len(g) < Off(n + 1) + FrameParts /\ Off(n + 1) <= Len(g)
  BY <1>1, <1>7, FrameAssumption
<1>13. Parsed(g) = s /\ GoodFrames(g) = n + 1
  BY <1>2, <1>4, <1>11, <1>12, ParsedDetermined
<1> QED BY <1>7, <1>13 DEF g, s, n, x

(* A part written anywhere adds an event when it ends a frame that ends    *)
(* the file; otherwise nothing is added, and the file does not end with a  *)
(* whole frame that is parsed.                                             *)
LEMMA PartAnywhere ==
  ASSUME NEW f \in Seq(Parts), NEW r \in Records, NEW part \in 1 .. FrameParts
  PROVE  LET g == Append(f, [record |-> r, part |-> part])
         IN \/ /\ Parsed(g) = Parsed(f) /\ Len(g) # Off(GoodFrames(g))
            \/ /\ part = FrameParts
               /\ Parsed(g) = Append(Parsed(f), r) /\ Len(g) = Off(GoodFrames(g))
<1> DEFINE n == GoodFrames(f)
           x == [record |-> r, part |-> part]
           g == Append(f, x)
           rest == /\ part = FrameParts /\ Len(f) = Off(n) + (FrameParts - 1)
                   /\ \A k \in 1 .. FrameParts - 1 : f[Off(n) + k] = [record |-> r, part |-> k]
<1>1. n \in Nat /\ Off(n) \in Nat /\ Len(f) \in Nat /\ Off(n) <= Len(f)
  BY GoodFramesIs, OffStep, LenProperties
<1>2. x \in Parts /\ x.record = r /\ x.part = part
  BY DEF Parts
<1>3. CASE rest
  <2>1. FrameParts - 1 \in Nat /\ (FrameParts - 1) + 1 = FrameParts
    BY FrameAssumption
  <2>2. /\ Parsed(g) = Append(Parsed(f), r)
        /\ GoodFrames(g) = n + 1 /\ Len(g) = Off(n + 1)
    BY <1>3, <2>1, FrameWritten
  <2> QED BY <1>3, <2>2
<1>4. CASE ~ rest
  <2> HIDE DEF x
  <2>1. g \in Seq(Parts) /\ Len(g) = Len(f) + 1 /\ (\A i \in 1 .. Len(f) : g[i] = f[i])
        /\ g[Len(f) + 1] = x
    BY <1>2, AppendProperties
  <2> HIDE DEF g
  <2>2. Off(n) <= Len(g) /\ \A i \in 1 .. Off(n) : g[i] = f[i]
    BY <1>1, <2>1
  <2>3. \A i \in 1 .. n : HasFrame(g, i, Parsed(f)[i])
    <3>1. n <= n
      BY <1>1
    <3> QED BY <1>1, <2>1, <2>2, <3>1, ParsedAlike
  <2>4. Parsed(f) \in Seq(Records) /\ Len(Parsed(f)) = n
    BY ParsedIs
  <2>5. \/ Len(g) < Off(n) + FrameParts
        \/ ~ \E y \in Records : HasFrame(g, n + 1, y)
    <3> SUFFICES ASSUME Off(n) + FrameParts <= Len(g), NEW y \in Records, HasFrame(g, n + 1, y)
                 PROVE  FALSE
      BY <1>1, <2>1, FrameAssumption
    <3>1. \A k \in 1 .. FrameParts : g[Off(n) + k] = [record |-> y, part |-> k]
      <4>1. (n + 1) - 1 = n
        BY <1>1
      <4> QED BY <4>1 DEF HasFrame
    <3> HIDE DEF n
    <3>2. CASE Off(n) + FrameParts <= Len(f)
      <4>1. \A k \in 1 .. FrameParts : f[Off(n) + k] = [record |-> y, part |-> k]
        <5>1. \A k \in 1 .. FrameParts : Off(n) + k \in 1 .. Len(f)
          BY <1>1, <3>2, FrameAssumption
        <5> QED BY <2>1, <3>1, <5>1
      <4>2. HasFrame(f, n + 1, y)
        <5>1. (n + 1) - 1 = n
          BY <1>1
        <5> QED BY <4>1, <5>1 DEF HasFrame
      <4>3. n + 1 \in Nat \ {0} /\ Off(n + 1) = Off(n) + FrameParts /\ Off(n + 1) <= Len(f)
        BY <1>1, <3>2, OffStep
      <4>4. IsFrame(FrameAt(f, n + 1))
        BY <4>2, <4>3, WholeFrame
      <4>5. \A i \in 1 .. n + 1 : i \in 1 .. n \/ i = n + 1
        BY <1>1
      <4>6. \A i \in 1 .. n + 1 : IsFrame(FrameAt(f, i))
        BY <4>4, <4>5, GoodFramesIs DEF n
      <4>7. n + 1 <= GoodFrames(f)
        BY <4>3, <4>6, GoodFramesIs
      <4> QED BY <1>1, <4>7 DEF n
    <3>3. CASE ~ Off(n) + FrameParts <= Len(f)
      <4>1. Len(f) = Off(n) + (FrameParts - 1)
        BY <1>1, <2>1, <3>3, FrameAssumption
      <4>2. Len(f) + 1 = Off(n) + FrameParts /\ FrameParts \in 1 .. FrameParts
        BY <1>1, <4>1, FrameAssumption
      <4>3. x = [record |-> y, part |-> FrameParts]
        BY <2>1, <3>1, <4>2
      <4>4. part = FrameParts /\ y = r
        BY <1>2, <4>3
      <4>5. \A k \in 1 .. FrameParts - 1 : f[Off(n) + k] = [record |-> r, part |-> k]
        <5>1. \A k \in 1 .. FrameParts - 1 : k \in 1 .. FrameParts /\ Off(n) + k \in 1 .. Len(f)
          BY <1>1, <4>1, FrameAssumption
        <5> QED BY <2>1, <3>1, <4>4, <5>1
      <4> QED BY <1>4, <4>1, <4>4, <4>5
    <3> QED BY <3>2, <3>3
  <2>6. Parsed(g) = Parsed(f) /\ GoodFrames(g) = n
    BY <2>1, <2>2, <2>3, <2>4, <2>5, ParsedDetermined
  <2>7. Len(g) # Off(n)
    BY <1>1, <2>1
  <2>8. Parsed(g) = Parsed(f) /\ Len(g) # Off(GoodFrames(g))
    BY <2>6, <2>7
  <2> QED BY <2>8 DEF g, x
<1> QED BY <1>3, <1>4

(* Synced frames stay so in any two images that have their parts.          *)
LEMMA SyncedKept ==
  ASSUME NEW m \in Nat, SyncedTo(m),
         file \in Seq(Parts), file' \in Seq(Parts), disk' \in Seq(Parts),
         Off(m) <= Len(file'), Off(m) <= Len(disk'),
         \A i \in 1 .. Off(m) : file'[i] = file[i] /\ disk'[i] = file[i]
  PROVE  SyncedTo(m)' /\ \A i \in 1 .. m : Parsed(file)'[i] = Parsed(file)[i]
<1>1. m <= GoodFrames(file)
  BY DEF SyncedTo
<1>2. m <= GoodFrames(file') /\ \A i \in 1 .. m : Parsed(file')[i] = Parsed(file)[i]
  BY <1>1, ParsedAlike
<1>3. m * FrameParts <= Len(disk') /\ \A i \in 1 .. m * FrameParts : disk'[i] = file'[i]
  BY DEF Off
<1> QED BY <1>2, <1>3 DEF SyncedTo

(* A power loss keeps the longest part of the file that the disk agrees    *)
(* with.                                                                   *)
LEMMA KeptIs ==
  ASSUME file \in Seq(Parts), disk \in Seq(Parts)
  PROVE  /\ Kept \in Nat /\ Kept <= Len(disk) /\ Kept <= Len(file)
         /\ \A i \in 1 .. Kept : disk[i] = file[i]
         /\ \A n \in Nat : n <= Len(disk) /\ n <= Len(file) /\ (\A i \in 1 .. n : disk[i] = file[i])
              => n <= Kept
<1> DEFINE b == Len(disk)
           S == {n \in 0 .. b : n <= Len(file) /\ \A i \in 1 .. n : disk[i] = file[i]}
<1>1. b \in Nat /\ Len(file) \in Nat
  BY LenProperties
<1>2. 0 \in S
  BY <1>1
<1>3. S \in SUBSET (0 .. b)
  OBVIOUS
<1>4. Kept = Max(S)
  BY DEF Kept
<1>5. \A n : n \in S <=> n \in Nat /\ n <= b /\ n <= Len(file) /\ \A i \in 1 .. n : disk[i] = file[i]
  BY <1>1
<1> HIDE DEF S, b
<1>6. Max(S) \in S /\ \A y \in S : Max(S) >= y
  BY <1>1, <1>2, <1>3, HasMaximum
<1>7. \A n \in S : n \in Nat
  BY <1>5
<1> QED BY <1>4, <1>5, <1>6, <1>7 DEF b

(* The longer of two lengths.                                              *)
LEMMA LongerIs ==
  ASSUME NEW x \in Nat, NEW y \in Nat
  PROVE  Max({x, y}) \in {x, y} /\ Max({x, y}) >= x /\ Max({x, y}) >= y
<1>1. {x, y} \in SUBSET (0 .. (x + y)) /\ {x, y} # {} /\ x + y \in Nat
  OBVIOUS
<1> QED BY <1>1, HasMaximum

-----------------------------------------------------------------------------
(* One process's move.                                                     *)

CallRecords ==
  [pc : {"Out", "Held", "Read", "Truncate", "SyncTruncation", "Write", "SyncAppend"},
   kind : Calls, record : Records \cup {Nobody}, seen : Seq(Records),
   part : 0 .. FrameParts, blind : BOOLEAN]

Confirmations == [record : Records, position : 0 .. MaxFrames - 1]

(* A process outside its lease, or in it and not in a call.                *)
LEMMA NoCallTyped ==
  NoCall \in CallRecords /\ [NoCall EXCEPT !.pc = "Held"] \in CallRecords
<1>1. <<>> \in Seq(Records) /\ 0 \in 0 .. FrameParts /\ "load" \in Calls
  BY FrameAssumption DEF Calls
<1>2. NoCall \in CallRecords
  BY <1>1 DEF NoCall, CallRecords
<1>3. ASSUME NEW c \in CallRecords PROVE [c EXCEPT !.pc = "Held"] \in CallRecords
  BY DEF CallRecords
<1> HIDE DEF NoCall
<1> QED BY <1>2, <1>3

(* Only one process's call moves.                                          *)
LEMMA OneMoves ==
  ASSUME TypeOK, NEW p \in Processes, NEW c \in CallRecords, call' = [call EXCEPT ![p] = c]
  PROVE  /\ call' \in [Processes -> CallRecords]
         /\ call'[p] = c
         /\ \A q \in Processes : q # p => call'[q] = call[q]
<1>1. call \in [Processes -> CallRecords]
  BY DEF TypeOK, CallRecords
<1> QED BY <1>1

(* A fault makes room, and nothing takes it back.                          *)
LEMMA CapacityGrows ==
  ASSUME faults \in 0 .. MaxFaults, faults' \in 0 .. MaxFaults, faults' >= faults
  PROVE  Capacity \in Nat /\ Capacity' \in Nat /\ Capacity <= Capacity'
<1>3. faults \in Nat /\ faults' \in Nat /\ MaxFrames \in Nat
  BY BoundsAssumption
<1>1. /\ MaxFrames + faults \in Nat /\ MaxFrames + faults' \in Nat
      /\ MaxFrames + faults <= MaxFrames + faults'
  <2>1. ASSUME NEW m \in Nat, NEW i \in Nat, NEW j \in Nat, i <= j
        PROVE  m + i \in Nat /\ m + j \in Nat /\ m + i <= m + j
    BY <2>1
  <2>2. faults <= faults'
    BY <1>3
  <2> QED BY <1>3, <2>1, <2>2
<1>2. Capacity = Off(MaxFrames + faults) /\ Capacity' = Off(MaxFrames + faults')
  BY DEF Capacity, Off
<1> QED BY <1>1, <1>2, OffMono, OffStep

(* The room there is.                                                      *)
LEMMA CapacityIs ==
  ASSUME faults \in 0 .. MaxFaults
  PROVE  Capacity \in Nat /\ Off(MaxFrames) <= Capacity /\ Off(MaxFrames) \in Nat
<1>1. faults \in Nat /\ MaxFrames \in Nat
  BY BoundsAssumption
<1>2. MaxFrames + faults \in Nat /\ MaxFrames <= MaxFrames + faults
  BY <1>1
<1>3. Capacity = Off(MaxFrames + faults)
  BY DEF Capacity, Off
<1> QED BY <1>1, <1>2, <1>3, OffMono, OffStep

(* What is known of a call survives whatever leaves it and the file alone. *)
LEMMA StillFits ==
  ASSUME StoreInv, NEW q \in Processes, call'[q] = call[q], file' = file,
         faults' \in 0 .. MaxFaults, faults' >= faults
  PROVE  CallFits(q)'
<1>1. CallFits(q) /\ TypeOK
  BY DEF StoreInv
<1>2. Parsed(file') = Parsed(file) /\ GoodFrames(file') = GoodFrames(file)
  OBVIOUS
<1>3. call[q].blind => WritesBlind(q)'
  <2>1. Capacity \in Nat /\ Capacity' \in Nat /\ Capacity <= Capacity'
    BY <1>1, CapacityGrows DEF TypeOK
  <2>2. call[q].part \in Nat /\ Len(file) \in Nat
    BY <1>1, LenProperties, FrameAssumption DEF TypeOK
  <2>3. call[q].blind => WritesBlind(q)
    BY <1>1 DEF CallFits
  <2>4. Len(file) + (FrameParts - call[q].part) <= Capacity
          => Len(file) + (FrameParts - call[q].part) <= Capacity'
    BY <2>1, <2>2, FrameAssumption
  <2> QED BY <2>3, <2>4 DEF WritesBlind
<1> QED BY <1>1, <1>2, <1>3 DEF CallFits, Appending

(* The other processes' calls still fit the file: it is as it was, or it   *)
(* was changed by the one in its lease, and they are outside.              *)
LEMMA OthersFit ==
  ASSUME StoreInv, NEW p \in Processes, NEW q \in Processes, q # p,
         call'[q] = call[q], file' = file \/ call[p].pc # "Out",
         faults' \in 0 .. MaxFaults, faults' >= faults
  PROVE  CallFits(q)'
<1>1. CASE file' = file
  BY <1>1, StillFits
<1>2. CASE call[p].pc # "Out"
  <2>1. call[q].pc = "Out"
    BY <1>2 DEF StoreInv, LeaseHoldsLock
  <2>2. ~ call[q].blind
    BY <2>1 DEF StoreInv, CallFits, WritesBlind
  <2> QED BY <2>1, <2>2 DEF CallFits, InTail
<1> QED BY <1>1, <1>2

(* Only an append that is writing can be blind.                            *)
LEMMA OutsideSees ==
  ASSUME StoreInv, NEW p \in Processes, call[p].pc \notin {"Write", "SyncAppend"}
  PROVE  ~ call[p].blind
  BY DEF StoreInv, CallFits, WritesBlind

(* A call that is over, or has not begun, relies on nothing.               *)
LEMMA NoCallFits ==
  ASSUME NEW p \in Processes, call'[p].pc \in {"Out", "Held"}, ~ call'[p].blind
  PROVE  CallFits(p)'
  BY DEF CallFits, InTail

(* Steps that leave the images and the confirmations alone.                *)
LEMMA StorageKept ==
  ASSUME StoreInv, file' = file, disk' = disk, acked' = acked, blindly' = blindly
  PROVE  Len(disk)' <= Capacity /\ ConfirmedSynced'
<1>1. Parsed(file') = Parsed(file) /\ GoodFrames(file') = GoodFrames(file)
  OBVIOUS
<1> QED BY <1>1 DEF StoreInv, ConfirmedSynced, SyncedTo

(* Steps inside the lease that leave the lock alone.                       *)
LEMMA LockUntouched ==
  ASSUME StoreInv, NEW p \in Processes, call[p].pc # "Out", call'[p].pc # "Out",
         \A q \in Processes : q # p => call'[q] = call[q],
         lock' = lock, inherited' = inherited, orphaned' = orphaned,
         faults' \in Nat, faults' >= faults
  PROVE  LeaseHoldsLock' /\ CopiesLock'
<1>1. lock = p
  BY DEF StoreInv, LeaseHoldsLock
<1>2. ~ orphaned
  BY <1>1 DEF StoreInv, CopiesLock
<1>3. lock # Nobody
  BY <1>1, NobodyAssumption
<1> QED BY <1>1, <1>2, <1>3 DEF StoreInv, LeaseHoldsLock, CopiesLock

(* Closing the lock's descriptor frees the lock, or orphans its last copy. *)
LEMMA LockClosed ==
  ASSUME StoreInv, NEW p \in Processes, call[p].pc # "Out", call'[p].pc = "Out",
         \A q \in Processes : q # p => call'[q] = call[q],
         Closed(p), Fault
  PROVE  /\ LeaseHoldsLock' /\ CopiesLock'
         /\ lock' \in Processes \cup {Nobody} /\ inherited' \in BOOLEAN /\ orphaned' \in BOOLEAN
         /\ faults' \in 0 .. MaxFaults
<1>1. lock = p /\ p # Nobody
  BY NobodyAssumption DEF StoreInv, LeaseHoldsLock
<1>2. ~ orphaned
  BY <1>1 DEF StoreInv, CopiesLock
<1>3. \A q \in Processes : call'[q].pc = "Out"
  BY <1>1 DEF StoreInv, LeaseHoldsLock
<1>4. faults \in 0 .. MaxFaults /\ inherited \in BOOLEAN /\ orphaned \in BOOLEAN
  BY DEF StoreInv, TypeOK
<1>5. faults' > 0 /\ faults' \in 0 .. MaxFaults
  BY <1>4, BoundsAssumption DEF Fault
<1>6. CASE inherited
  <2>1. lock' = p /\ inherited' /\ orphaned'
    BY <1>1, <1>6 DEF Closed
  <2> QED BY <1>1, <1>3, <1>5, <2>1 DEF LeaseHoldsLock, CopiesLock
<1>7. CASE ~ inherited
  <2>1. lock' = Nobody /\ ~ inherited' /\ ~ orphaned'
    BY <1>1, <1>2, <1>7 DEF Closed
  <2>2. inherited' \in BOOLEAN /\ orphaned' \in BOOLEAN
    BY <1>2, <1>4, <1>7 DEF Closed
  <2> QED BY <1>3, <1>5, <2>1, <2>2 DEF LeaseHoldsLock, CopiesLock
<1> QED BY <1>6, <1>7

(* A confirmed append keeps its place when the frames synced are kept.     *)
LEMMA ConfirmedKept ==
  ASSUME StoreInv, file' \in Seq(Parts), disk' \in Seq(Parts),
         \A m \in Nat : SyncedTo(m) =>
           /\ Off(m) <= Len(file') /\ Off(m) <= Len(disk')
           /\ \A i \in 1 .. Off(m) : file'[i] = file[i] /\ disk'[i] = file[i],
         NEW i \in DOMAIN acked \ blindly, NEW m, m = acked[i].position + 1
  PROVE  /\ m \in Nat \ {0}
         /\ SyncedTo(m)'
         /\ Parsed(file')[m] = acked[i].record
<1>1. acked \in Seq(Confirmations) /\ file \in Seq(Parts)
  BY DEF StoreInv, TypeOK, Confirmations
<1>2. acked[i] \in Confirmations
  BY <1>1, LenProperties, ElementOfSeq
<1>3. m \in Nat \ {0}
  BY <1>2, BoundsAssumption DEF Confirmations
<1>4. SyncedTo(m) /\ Parsed(file)[m] = acked[i].record
  BY DEF StoreInv, ConfirmedSynced
<1>5. SyncedTo(m)' /\ \A k \in 1 .. m : Parsed(file)'[k] = Parsed(file)[k]
  BY <1>1, <1>3, <1>4, SyncedKept
<1> QED BY <1>3, <1>4, <1>5

(* The same for all of them, when there is no new one.                     *)
LEMMA AllConfirmedKept ==
  ASSUME StoreInv, file' \in Seq(Parts), disk' \in Seq(Parts),
         acked' = acked, blindly' = blindly,
         \A m \in Nat : SyncedTo(m) =>
           /\ Off(m) <= Len(file') /\ Off(m) <= Len(disk')
           /\ \A i \in 1 .. Off(m) : file'[i] = file[i] /\ disk'[i] = file[i]
  PROVE  ConfirmedSynced'
<1>1. ASSUME NEW i \in DOMAIN acked \ blindly
      PROVE  LET m == acked[i].position + 1
             IN /\ m <= GoodFrames(file')
                /\ m * FrameParts <= Len(disk')
                /\ \A k \in 1 .. m * FrameParts : disk'[k] = file'[k]
                /\ Parsed(file')[m] = acked[i].record
  <2>1. PICK m : m = acked[i].position + 1
    OBVIOUS
  <2>2. SyncedTo(m)' /\ Parsed(file')[m] = acked[i].record
    BY <2>1, ConfirmedKept
  <2> QED BY <2>1, <2>2 DEF SyncedTo
<1> QED BY <1>1 DEF ConfirmedSynced, SyncedTo

(* What remains to show of a step inside the lease.                        *)
LEMMA InsideStep ==
  ASSUME StoreInv, NEW p \in Processes, call[p].pc # "Out",
         NEW c \in CallRecords, c.pc # "Out", call' = [call EXCEPT ![p] = c],
         UNCHANGED <<locking, outages>>, faults' \in 0 .. MaxFaults, faults' >= faults,
         file' \in Seq(Parts), disk' \in Seq(Parts),
         Len(file') <= Capacity, Len(disk') <= Capacity,
         acked' \in Seq(Confirmations), blindly' \subseteq DOMAIN acked',
         loaded' \in Seq(Records),
         ConfirmedSynced', CallFits(p)'
  PROVE  StoreInv'
<1>1. TypeOK
  BY DEF StoreInv
<1>2. /\ call' \in [Processes -> CallRecords] /\ call'[p] = c
      /\ \A q \in Processes : q # p => call'[q] = call[q]
  BY <1>1, OneMoves
<1>3. lock' = lock /\ inherited' = inherited /\ orphaned' = orphaned
  BY DEF locking
<1>7. Len(file') <= Capacity' /\ Len(disk') <= Capacity'
  <2>1. Capacity \in Nat /\ Capacity' \in Nat /\ Capacity <= Capacity'
    BY <1>1, CapacityGrows DEF TypeOK
  <2>2. Len(file') \in Nat /\ Len(disk') \in Nat
    BY LenProperties
  <2> QED BY <2>1, <2>2
<1>4. TypeOK'
  BY <1>1, <1>2, <1>3, <1>7 DEF TypeOK, CallRecords, Capacity, Confirmations
<1>5. LeaseHoldsLock' /\ CopiesLock'
  BY <1>2, <1>3, LockUntouched
<1>6. ASSUME NEW q \in Processes PROVE CallFits(q)'
  BY <1>2, OthersFit
<1> QED BY <1>4, <1>5, <1>6, <1>7, Zenon DEF StoreInv

(* Of a step that moves the lease and neither image.                       *)
LEMMA LeaseStep ==
  ASSUME StoreInv, UNCHANGED <<storage, answers, outages>>,
         faults' \in 0 .. MaxFaults, faults' >= faults,
         call' \in [Processes -> CallRecords],
         lock' \in Processes \cup {Nobody}, inherited' \in BOOLEAN, orphaned' \in BOOLEAN,
         LeaseHoldsLock', CopiesLock',
         \A p \in Processes :
           \/ call'[p] = call[p]
           \/ call'[p].pc \in {"Out", "Held"} /\ ~ call'[p].blind
  PROVE  StoreInv'
<1>1. /\ file' = file /\ disk' = disk /\ outages' = outages
      /\ acked' = acked /\ blindly' = blindly /\ loaded' = loaded
  BY DEF storage, answers
<1>2. Len(disk)' <= Capacity /\ ConfirmedSynced'
  BY <1>1, StorageKept
<1>3. Len(file') <= Capacity' /\ Len(disk') <= Capacity'
  <2>1. Capacity \in Nat /\ Capacity' \in Nat /\ Capacity <= Capacity'
    BY CapacityGrows DEF StoreInv, TypeOK
  <2>2. Len(file) <= Capacity /\ Len(file) \in Nat /\ Len(disk) \in Nat
    BY LenProperties DEF StoreInv, TypeOK, Capacity
  <2> QED BY <1>1, <1>2, <2>1, <2>2
<1>4. TypeOK'
  BY <1>1, <1>3 DEF StoreInv, TypeOK, CallRecords, Capacity
<1>5. ASSUME NEW p \in Processes PROVE CallFits(p)'
  BY <1>1, NoCallFits, StillFits
<1> QED BY <1>2, <1>3, <1>4, <1>5, Zenon DEF StoreInv

-----------------------------------------------------------------------------
(* The lease's operations.                                                 *)

(* Acquire keeps the invariant.                                            *)
LEMMA AcquireKeeps ==
  ASSUME StoreInv, NEW p \in Processes, Acquire(p)
  PROVE  StoreInv'
<1> DEFINE c == [call[p] EXCEPT !.pc = "Held"]
<1>1. /\ call \in [Processes -> CallRecords] /\ faults \in 0 .. MaxFaults /\ TypeOK
  BY DEF StoreInv, TypeOK, CallRecords
<1>8. ~ call[p].blind /\ faults >= faults
  BY <1>1, OutsideSees DEF Acquire
<1>2. c \in CallRecords /\ c.pc = "Held" /\ ~ c.blind /\ call' = [call EXCEPT ![p] = c]
  BY <1>1, <1>8 DEF CallRecords, Acquire, Goto
<1> HIDE DEF c
<1>3. /\ call' \in [Processes -> CallRecords] /\ call'[p] = c
      /\ \A q \in Processes : q # p => call'[q] = call[q]
  BY <1>1, <1>2, OneMoves
<1>4. lock' = p /\ ~ inherited' /\ inherited' \in BOOLEAN /\ ~ orphaned' /\ orphaned' \in BOOLEAN
  BY DEF Acquire
<1>5. lock = Nobody /\ UNCHANGED <<storage, answers, faults, outages>>
  BY DEF Acquire
<1>6. \A q \in Processes : call[q].pc = "Out"
  BY <1>5, NobodyAssumption DEF StoreInv, LeaseHoldsLock
<1>7. LeaseHoldsLock' /\ CopiesLock'
  BY <1>2, <1>3, <1>4, <1>6 DEF LeaseHoldsLock, CopiesLock
<1> QED BY <1>1, <1>2, <1>3, <1>4, <1>5, <1>7, <1>8, LeaseStep

(* Drop keeps the invariant.                                               *)
LEMMA DropKeeps ==
  ASSUME StoreInv, NEW p \in Processes, Drop(p)
  PROVE  StoreInv'
<1> DEFINE c == [call[p] EXCEPT !.pc = "Out"]
<1>1. /\ call \in [Processes -> CallRecords] /\ faults \in 0 .. MaxFaults /\ TypeOK
      /\ orphaned \in BOOLEAN
  BY DEF StoreInv, TypeOK, CallRecords
<1>8. ~ call[p].blind /\ faults >= faults
  BY <1>1, OutsideSees DEF Drop
<1>2. c \in CallRecords /\ c.pc = "Out" /\ ~ c.blind /\ call' = [call EXCEPT ![p] = c]
  BY <1>1, <1>8 DEF CallRecords, Drop, Goto
<1> HIDE DEF c
<1>3. /\ call' \in [Processes -> CallRecords] /\ call'[p] = c
      /\ \A q \in Processes : q # p => call'[q] = call[q]
  BY <1>1, <1>2, OneMoves
<1>4. /\ call[p].pc = "Held" /\ lock' = Nobody /\ ~ inherited' /\ inherited' \in BOOLEAN
      /\ orphaned' = orphaned /\ UNCHANGED <<storage, answers, faults, outages>>
  BY DEF Drop
<1>5. lock = p
  BY <1>4 DEF StoreInv, LeaseHoldsLock
<1>6. ~ orphaned /\ \A q \in Processes : q # p => call[q].pc = "Out"
  BY <1>4, <1>5 DEF StoreInv, LeaseHoldsLock, CopiesLock
<1>7. LeaseHoldsLock' /\ CopiesLock'
  BY <1>2, <1>3, <1>4, <1>6 DEF LeaseHoldsLock, CopiesLock
<1> QED BY <1>1, <1>2, <1>3, <1>4, <1>7, <1>8, LeaseStep

(* Fork and Exec keep the invariant.                                       *)
LEMMA CopyKeeps ==
  ASSUME StoreInv, Exec \/ \E p \in Processes : Fork(p)
  PROVE  StoreInv'
<1>1. /\ call \in [Processes -> CallRecords] /\ faults \in 0 .. MaxFaults /\ faults >= faults
      /\ inherited \in BOOLEAN /\ orphaned \in BOOLEAN /\ lock \in Processes \cup {Nobody}
  BY DEF StoreInv, TypeOK, CallRecords
<1>2. call' = call /\ UNCHANGED <<storage, answers, faults, outages>>
  BY DEF Exec, Fork
<1>3. /\ lock' \in Processes \cup {Nobody} /\ inherited' \in BOOLEAN /\ orphaned' \in BOOLEAN
  BY <1>1 DEF Exec, Fork
<1>4. LeaseHoldsLock' /\ CopiesLock'
  <2>1. LeaseHoldsLock /\ CopiesLock
    BY DEF StoreInv
  <2>2. CASE Exec
    <3>1. CASE orphaned
      <4>1. call[lock].pc = "Out" /\ lock' = Nobody /\ ~ inherited' /\ ~ orphaned'
        BY <2>1, <2>2, <3>1 DEF CopiesLock, Exec
      <4>2. \A q \in Processes : call[q].pc = "Out"
        BY <2>1, <4>1 DEF LeaseHoldsLock
      <4> QED BY <1>2, <4>1, <4>2 DEF LeaseHoldsLock, CopiesLock
    <3>2. CASE ~ orphaned
      <4>1. lock' = lock /\ ~ inherited' /\ ~ orphaned'
        BY <2>2, <3>2 DEF Exec
      <4> QED BY <1>2, <2>1, <3>2, <4>1 DEF LeaseHoldsLock, CopiesLock
    <3> QED BY <3>1, <3>2
  <2>3. ASSUME NEW p \in Processes, Fork(p) PROVE LeaseHoldsLock' /\ CopiesLock'
    <3>1. lock' = lock /\ lock = p /\ orphaned' = orphaned /\ inherited' /\ lock # Nobody
      BY <2>3, NobodyAssumption DEF Fork
    <3> QED BY <1>2, <2>1, <3>1 DEF LeaseHoldsLock, CopiesLock
  <2> QED BY <2>2, <2>3
<1> QED BY <1>1, <1>2, <1>3, <1>4, LeaseStep

(* A kill and a failed unlock keep the invariant.                          *)
LEMMA LossKeeps ==
  ASSUME StoreInv, NEW p \in Processes, FailUnlock(p) \/ Kill(p)
  PROVE  StoreInv'
<1>1. call \in [Processes -> CallRecords] /\ TypeOK
  BY DEF StoreInv, TypeOK, CallRecords
<1>2. PICK c \in CallRecords : c.pc = "Out" /\ ~ c.blind /\ call' = [call EXCEPT ![p] = c]
  <2>1. CASE FailUnlock(p)
    <3> DEFINE c == [call[p] EXCEPT !.pc = "Out"]
    <3>2. ~ call[p].blind
      BY <2>1, OutsideSees DEF FailUnlock
    <3>1. c \in CallRecords /\ c.pc = "Out" /\ ~ c.blind /\ call' = [call EXCEPT ![p] = c]
      BY <1>1, <2>1, <3>2 DEF CallRecords, FailUnlock, Goto
    <3> HIDE DEF c
    <3> QED BY <3>1
  <2>2. CASE Kill(p)
    <3>1. NoCall \in CallRecords /\ NoCall.pc = "Out" /\ ~ NoCall.blind
      BY NoCallTyped DEF NoCall
    <3>2. call' = [call EXCEPT ![p] = NoCall]
      BY <2>2 DEF Kill
    <3> HIDE DEF NoCall
    <3> QED BY <3>1, <3>2
  <2> QED BY <2>1, <2>2
<1>3. /\ call' \in [Processes -> CallRecords] /\ call'[p] = c
      /\ \A q \in Processes : q # p => call'[q] = call[q]
  BY <1>1, <1>2, OneMoves
<1>4. call[p].pc # "Out" /\ Closed(p) /\ Fault /\ UNCHANGED <<storage, answers, outages>>
  BY DEF FailUnlock, Kill
<1>5. /\ LeaseHoldsLock' /\ CopiesLock'
      /\ lock' \in Processes \cup {Nobody} /\ inherited' \in BOOLEAN /\ orphaned' \in BOOLEAN
      /\ faults' \in 0 .. MaxFaults
  BY <1>2, <1>3, <1>4, LockClosed
<1>6. faults' >= faults
  BY <1>1, <1>4 DEF Fault, TypeOK
<1> QED BY <1>2, <1>3, <1>4, <1>5, <1>6, LeaseStep

-----------------------------------------------------------------------------
(* A call, one system call at a time.                                      *)

(* What every step of a call starts from.                                  *)
LEMMA InCall ==
  ASSUME StoreInv, NEW p \in Processes, call[p].pc # "Out"
  PROVE  /\ TypeOK /\ CallFits(p) /\ lock = p
         /\ call[p] \in CallRecords
         /\ call[p].part \in Nat /\ call[p].seen \in Seq(Records)
         /\ file \in Seq(Parts) /\ disk \in Seq(Parts)
         /\ Len(file) \in Nat /\ Len(file) <= Capacity /\ Len(disk) <= Capacity
         /\ GoodFrames(file) \in Nat /\ Parsed(file) \in Seq(Records)
         /\ Len(Parsed(file)) = GoodFrames(file)
         /\ acked \in Seq(Confirmations) /\ loaded \in Seq(Records)
         /\ blindly \subseteq DOMAIN acked
         /\ faults \in 0 .. MaxFaults /\ faults >= faults
<1>1. TypeOK /\ CallFits(p) /\ lock = p /\ Len(disk) <= Capacity
  BY DEF StoreInv, LeaseHoldsLock
<1>2. /\ file \in Seq(Parts) /\ disk \in Seq(Parts) /\ loaded \in Seq(Records)
      /\ faults \in 0 .. MaxFaults /\ faults >= faults /\ Len(file) <= Capacity
  BY <1>1 DEF TypeOK, Capacity
<1>3. acked \in Seq(Confirmations) /\ blindly \subseteq DOMAIN acked
  BY <1>1 DEF TypeOK, Confirmations
<1>4. call[p] \in CallRecords
  BY <1>1 DEF TypeOK, CallRecords
<1>5. call[p].part \in Nat /\ call[p].seen \in Seq(Records)
  BY <1>4, FrameAssumption DEF CallRecords
<1> QED BY <1>1, <1>2, <1>3, <1>4, <1>5, LenProperties, GoodFramesIs, ParsedIs

(* A step inside the lease that leaves both images alone.                  *)
LEMMA QuietStep ==
  ASSUME StoreInv, NEW p \in Processes, call[p].pc # "Out",
         NEW c \in CallRecords, c.pc # "Out", call' = [call EXCEPT ![p] = c],
         UNCHANGED <<storage, locking, acked, blindly, outages>>,
         faults' \in 0 .. MaxFaults, faults' >= faults, loaded' \in Seq(Records),
         CallFits(p)'
  PROVE  StoreInv'
<1>1. file' = file /\ disk' = disk /\ acked' = acked /\ blindly' = blindly
  BY DEF storage
<1>2. Len(disk)' <= Capacity /\ ConfirmedSynced'
  BY <1>1, StorageKept
<1> QED BY <1>1, <1>2, InCall, InsideStep

(* A call begins, with room for its event if it is an append.              *)
LEMMA CallKeeps ==
  ASSUME StoreInv, NEW p \in Processes, NEW kind \in Calls, NEW record \in Records \cup {Nobody},
         kind = "append" => record \in Records, Call(p, kind, record)
  PROVE  StoreInv'
<1> DEFINE c == [NoCall EXCEPT !.pc = "Read", !.kind = kind, !.record = record]
<1>1. <<>> \in Seq(Records) /\ 0 \in 0 .. FrameParts
  BY FrameAssumption
<1>2. c \in CallRecords
  BY <1>1 DEF CallRecords, NoCall
<1>3. /\ call[p].pc = "Held" /\ call' = [call EXCEPT ![p] = c]
      /\ UNCHANGED <<storage, locking, answers, faults, outages>>
      /\ kind = "append" => GoodFrames(file) < MaxFrames
  BY DEF Call
<1>4. file' = file /\ GoodFrames(file') = GoodFrames(file)
  BY <1>3 DEF storage
<1>5. c.pc = "Read" /\ c.part = 0 /\ c.kind = kind /\ c.record = record /\ ~ c.blind
  BY DEF NoCall
<1> HIDE DEF c
<1>6. call'[p] = c
  BY <1>2, <1>3, OneMoves DEF StoreInv
<1>7. CallFits(p)'
  BY <1>3, <1>4, <1>5, <1>6 DEF CallFits, Appending, InTail
<1>8. /\ acked' = acked /\ blindly' = blindly /\ loaded' = loaded
      /\ faults' = faults /\ outages' = outages
  BY <1>3 DEF answers
<1> QED BY <1>2, <1>3, <1>5, <1>7, <1>8, InCall, QuietStep

(* The end of the reading: an append goes on to write after the last whole *)
(* frame, a load returns what it read.                                     *)
LEMMA HealedFits ==
  ASSUME StoreInv, NEW p \in Processes, call[p].pc \in InTail,
         Healed(p, Parsed(file), FALSE), Len(file) = Off(GoodFrames(file)), file' = file
  PROVE  /\ \E c \in CallRecords : c.pc # "Out" /\ call' = [call EXCEPT ![p] = c]
         /\ CallFits(p)' /\ loaded' \in Seq(Records)
<1>1. call[p].pc # "Out"
  BY DEF InTail
<1>2. /\ call[p] \in CallRecords /\ CallFits(p) /\ loaded \in Seq(Records) /\ TypeOK
      /\ Parsed(file) \in Seq(Records) /\ Len(Parsed(file)) = GoodFrames(file)
      /\ GoodFrames(file) \in Nat
  BY <1>1, InCall
<1>3. Parsed(file') = Parsed(file) /\ GoodFrames(file') = GoodFrames(file)
  OBVIOUS
<1>4. CASE call[p].kind = "append"
  <2> DEFINE c == [call[p] EXCEPT !.pc = "Write", !.seen = Parsed(file), !.blind = FALSE]
  <2>1. /\ c \in CallRecords /\ c.pc = "Write" /\ c.seen = Parsed(file) /\ ~ c.blind
        /\ c.kind = call[p].kind /\ c.record = call[p].record /\ c.part = call[p].part
    BY <1>2 DEF CallRecords
  <2>2. call' = [call EXCEPT ![p] = c] /\ loaded' = loaded
    BY <1>4 DEF Healed
  <2> HIDE DEF c
  <2>3. call'[p] = c
    BY <1>2, <2>1, <2>2, OneMoves
  <2>4. call[p].part = 0 /\ Appending(p)
    BY <1>2, <1>4 DEF CallFits
  <2>5. c.part < FrameParts /\ Len(file) = Len(c.seen) * FrameParts + c.part
    BY <1>2, <2>1, <2>4, FrameAssumption DEF Off
  <2>6. \A k \in 1 .. c.part : FALSE
    BY <2>1, <2>4
  <2>7. CallFits(p)'
    BY <1>3, <1>4, <2>1, <2>3, <2>4, <2>5, <2>6 DEF CallFits, Appending, InTail
  <2> QED BY <1>2, <2>1, <2>2, <2>7
<1>5. CASE call[p].kind # "append"
  <2> DEFINE c == [NoCall EXCEPT !.pc = "Held"]
  <2>1. call' = [call EXCEPT ![p] = c] /\ loaded' = Parsed(file)
    BY <1>5 DEF Healed, Return
  <2>2. c \in CallRecords /\ c.pc = "Held" /\ ~ c.blind
    BY NoCallTyped DEF NoCall
  <2> HIDE DEF c
  <2>3. call'[p] = c
    BY <1>2, <2>1, <2>2, OneMoves
  <2>4. CallFits(p)'
    BY <2>2, <2>3, NoCallFits
  <2> QED BY <1>2, <2>1, <2>2, <2>4
<1> QED BY <1>4, <1>5

(* Read keeps the invariant.                                               *)
LEMMA ReadKeeps ==
  ASSUME StoreInv, NEW p \in Processes, Read(p)
  PROVE  StoreInv'
<1>1. call[p].pc = "Read" /\ UNCHANGED <<storage, locking, acked, blindly, faults, outages>>
  BY DEF Read
<1>2. file' = file /\ call[p].pc \in InTail
  BY <1>1 DEF storage, InTail
<1>3. /\ call[p] \in CallRecords /\ CallFits(p) /\ loaded \in Seq(Records) /\ TypeOK
      /\ Parsed(file) \in Seq(Records) /\ faults \in 0 .. MaxFaults /\ faults >= faults
  BY <1>1, InCall
<1>4. CASE GoodFrames(file) * FrameParts = Len(file)
  <2>1. Healed(p, Parsed(file), FALSE) /\ Len(file) = Off(GoodFrames(file))
    BY <1>4 DEF Read, Off
  <2>2. PICK c \in CallRecords : c.pc # "Out" /\ call' = [call EXCEPT ![p] = c]
    BY <1>2, <2>1, HealedFits
  <2>3. CallFits(p)' /\ loaded' \in Seq(Records)
    BY <1>2, <2>1, HealedFits
  <2> QED BY <1>1, <1>3, <2>2, <2>3, QuietStep
<1>5. CASE GoodFrames(file) * FrameParts # Len(file)
  <2> DEFINE c == [call[p] EXCEPT !.pc = "Truncate", !.seen = Parsed(file)]
  <2>6. ~ call[p].blind
    BY <1>1, OutsideSees
  <2>1. /\ c \in CallRecords /\ c.pc = "Truncate" /\ c.seen = Parsed(file) /\ ~ c.blind
        /\ c.kind = call[p].kind /\ c.record = call[p].record /\ c.part = call[p].part
    BY <1>3, <2>6 DEF CallRecords
  <2>2. call' = [call EXCEPT ![p] = c] /\ loaded' = loaded
    BY <1>5 DEF Read
  <2> HIDE DEF c
  <2>3. call'[p] = c
    BY <1>3, <2>1, <2>2, OneMoves
  <2>4. Parsed(file') = Parsed(file) /\ GoodFrames(file') = GoodFrames(file)
    BY <1>2
  <2>5. CallFits(p)'
    BY <1>1, <1>3, <2>1, <2>3, <2>4 DEF CallFits, Appending, InTail
  <2> QED BY <1>1, <1>3, <2>1, <2>2, <2>5, QuietStep
<1> QED BY <1>4, <1>5

(* A file taken for absent keeps the invariant: if it is, this was the     *)
(* truth; if not, the append is blind, and the fault it met is its room.   *)
LEMMA ReadAbsentKeeps ==
  ASSUME StoreInv, NEW p \in Processes, ReadAbsent(p)
  PROVE  StoreInv'
<1>1. /\ call[p].pc = "Read" /\ UNCHANGED <<storage, locking, acked, blindly, outages>>
      /\ Fault /\ Healed(p, <<>>, file # <<>>)
  BY DEF ReadAbsent
<1>2. file' = file /\ call[p].pc \in InTail
  BY <1>1 DEF storage, InTail
<1>3. /\ call[p] \in CallRecords /\ CallFits(p) /\ loaded \in Seq(Records) /\ TypeOK
      /\ file \in Seq(Parts) /\ Len(file) \in Nat /\ Len(file) <= Capacity
      /\ GoodFrames(file) \in Nat /\ faults \in 0 .. MaxFaults
  BY <1>1, InCall
<1>4. faults' = faults + 1 /\ faults' \in 0 .. MaxFaults /\ faults' >= faults
  BY <1>1, <1>3, BoundsAssumption DEF Fault
<1>5. <<>> \in Seq(Records)
  OBVIOUS
<1>6. PICK c \in CallRecords :
        /\ c.pc # "Out" /\ call' = [call EXCEPT ![p] = c] /\ loaded' \in Seq(Records)
        /\ \/ c.pc = "Held" /\ ~ c.blind
           \/ /\ call[p].kind = "append" /\ c.pc = "Write" /\ c.kind = "append"
              /\ c.record = call[p].record /\ c.part = call[p].part /\ c.seen = <<>>
              /\ c.blind = (file # <<>>)
  <2>1. CASE call[p].kind = "append"
    <3> DEFINE b == (file # <<>>)
    <3>1. b \in BOOLEAN
      OBVIOUS
    <3> HIDE DEF b
    <3> DEFINE c == [call[p] EXCEPT !.pc = "Write", !.seen = <<>>, !.blind = b]
    <3>2. /\ c \in CallRecords /\ c.pc = "Write" /\ c.kind = call[p].kind /\ c.seen = <<>>
          /\ c.record = call[p].record /\ c.part = call[p].part /\ c.blind = b
      BY <1>3, <1>5, <3>1 DEF CallRecords
    <3>3. call' = [call EXCEPT ![p] = c] /\ loaded' = loaded
      BY <1>1, <2>1 DEF Healed, b
    <3> HIDE DEF c
    <3>4. c.blind = (file # <<>>)
      BY <3>2 DEF b
    <3> QED BY <1>3, <2>1, <3>2, <3>3, <3>4
  <2>2. CASE call[p].kind # "append"
    <3> DEFINE c == [NoCall EXCEPT !.pc = "Held"]
    <3>1. call' = [call EXCEPT ![p] = c] /\ loaded' = <<>>
      BY <1>1, <2>2 DEF Healed, Return
    <3>2. c \in CallRecords /\ c.pc = "Held" /\ ~ c.blind
      BY NoCallTyped DEF NoCall
    <3> HIDE DEF c
    <3> QED BY <1>5, <3>1, <3>2
  <2> QED BY <2>1, <2>2
<1>7. call'[p] = c
  BY <1>3, <1>6, OneMoves
<1>8. CallFits(p)'
  <2>1. CASE c.pc = "Held" /\ ~ c.blind
    BY <1>7, <2>1, NoCallFits
  <2>2. CASE /\ call[p].kind = "append" /\ c.pc = "Write" /\ c.kind = "append"
             /\ c.record = call[p].record /\ c.part = call[p].part /\ c.seen = <<>>
             /\ c.blind = (file # <<>>)
    <3>1. c.part = 0 /\ Appending(p)
      BY <1>2, <1>3, <2>2 DEF CallFits
    <3>2. c.part < FrameParts /\ c.record \in Records /\ MaxFrames > 0
      BY <1>3, <2>2, <3>1, FrameAssumption, BoundsAssumption DEF Appending
    <3>3. CASE file = <<>>
      <4>1. Parsed(file') = <<>> /\ GoodFrames(file') = 0 /\ Len(file') = 0
        BY <1>2, <3>3, EmptyParses
      <4>2. Len(c.seen) * FrameParts + c.part = 0
        BY <2>2, <3>1, FrameAssumption
      <4>3. \A k \in 1 .. c.part : FALSE
        BY <3>1
      <4>4. ~ c.blind
        BY <2>2, <3>3
      <4> QED BY <1>7, <2>2, <3>2, <4>1, <4>2, <4>3, <4>4 DEF CallFits, Appending, InTail
    <3>4. CASE file # <<>>
      <4>1. Capacity' = Capacity + FrameParts /\ Capacity \in Nat
        <5>1. MaxFrames \in Nat /\ faults \in Nat /\ FrameParts \in Nat
          BY <1>3, BoundsAssumption, FrameAssumption
        <5>2. MaxFrames + faults \in Nat /\ MaxFrames + faults' = (MaxFrames + faults) + 1
          BY <1>4, <5>1
        <5>3. Capacity' = Off((MaxFrames + faults) + 1) /\ Capacity = Off(MaxFrames + faults)
          BY <5>2 DEF Capacity, Off
        <5> QED BY <5>2, <5>3, OffStep
      <4>2. Len(file') + (FrameParts - c.part) <= Capacity'
        BY <1>2, <1>3, <3>1, <4>1, FrameAssumption
      <4> QED BY <1>7, <2>2, <3>2, <3>4, <4>2 DEF CallFits, WritesBlind, InTail
    <3> QED BY <3>3, <3>4
  <2> QED BY <1>6, <2>1, <2>2
<1> QED BY <1>1, <1>4, <1>6, <1>8, QuietStep

(* Truncate keeps the invariant: what is synced lies in the frames kept.   *)
LEMMA TruncateKeeps ==
  ASSUME StoreInv, NEW p \in Processes, Truncate(p)
  PROVE  StoreInv'
<1>1. /\ call[p].pc = "Truncate" /\ UNCHANGED <<disk, locking, answers, faults, outages>>
      /\ file' = SubSeq(file, 1, Len(call[p].seen) * FrameParts)
  BY DEF Truncate
<1>2. /\ TypeOK /\ CallFits(p) /\ call[p] \in CallRecords
      /\ file \in Seq(Parts) /\ disk \in Seq(Parts)
      /\ Len(file) \in Nat /\ Len(file) <= Capacity /\ Len(disk) <= Capacity
      /\ GoodFrames(file) \in Nat /\ Len(Parsed(file)) = GoodFrames(file)
      /\ acked \in Seq(Confirmations) /\ loaded \in Seq(Records)
      /\ blindly \subseteq DOMAIN acked /\ faults \in 0 .. MaxFaults /\ faults >= faults
  BY <1>1, InCall
<1>3. /\ call[p].seen = Parsed(file) /\ call[p].part = 0
      /\ call[p].kind = "append" => Appending(p)
  BY <1>1, <1>2 DEF CallFits, InTail
<1> DEFINE n == GoodFrames(file)
<1>4. file' = SubSeq(file, 1, Off(n))
  BY <1>1, <1>2, <1>3 DEF Off
<1>5. /\ file' \in Seq(Parts) /\ Len(file') = Off(n)
      /\ \A i \in 1 .. Len(file') : file'[i] = file[i]
      /\ Parsed(file') = Parsed(file) /\ GoodFrames(file') = n
  BY <1>2, <1>4, TruncationKeeps
<1>6. Off(n) <= Len(file) /\ Off(n) \in Nat
  BY <1>2, GoodFramesIs, OffStep
<1>7. Len(file') <= Capacity
  <2>1. Capacity \in Nat
    BY <1>2, CapacityIs
  <2> QED BY <1>2, <1>5, <1>6, <2>1
<1> DEFINE c == [call[p] EXCEPT !.pc = "SyncTruncation"]
<1>14. ~ call[p].blind
  BY <1>1, OutsideSees
<1>8. /\ c \in CallRecords /\ c.pc = "SyncTruncation" /\ c.seen = call[p].seen /\ ~ c.blind
      /\ c.kind = call[p].kind /\ c.record = call[p].record /\ c.part = call[p].part
      /\ call' = [call EXCEPT ![p] = c]
  BY <1>2, <1>14 DEF CallRecords, Truncate, Goto
<1> HIDE DEF c
<1>9. call'[p] = c
  BY <1>2, <1>8, OneMoves
<1>10. CallFits(p)'
  BY <1>2, <1>3, <1>5, <1>8, <1>9 DEF CallFits, Appending, InTail, Off
<1>11. ASSUME NEW m \in Nat, SyncedTo(m)
       PROVE  /\ Off(m) <= Len(file') /\ Off(m) <= Len(disk)
              /\ \A i \in 1 .. Off(m) : file'[i] = file[i] /\ disk[i] = file[i]
  <2>1. /\ m <= n /\ Off(m) <= Len(disk)
        /\ \A i \in 1 .. Off(m) : disk[i] = file[i]
    BY <1>11 DEF SyncedTo, Off
  <2>2. Off(m) <= Off(n) /\ Off(m) \in Nat
    BY <1>2, <2>1, OffMono, OffStep
  <2>3. \A i \in 1 .. Off(m) : i \in 1 .. Off(n)
    BY <1>6, <2>2
  <2> QED BY <1>5, <2>1, <2>2, <2>3
<1>12. /\ disk' = disk /\ acked' = acked /\ blindly' = blindly /\ loaded' = loaded
       /\ faults' = faults /\ outages' = outages
  BY <1>1 DEF answers
<1>13. ConfirmedSynced'
  BY <1>2, <1>5, <1>11, <1>12, AllConfirmedKept
<1> QED BY <1>1, <1>2, <1>5, <1>7, <1>8, <1>10, <1>12, <1>13, InsideStep

(* Syncing the file makes what is confirmed durable still.                 *)
LEMMA SyncKeepsConfirmed ==
  ASSUME StoreInv, NEW p \in Processes, call[p].pc # "Out", file' = file, disk' = file,
         NEW m \in Nat, SyncedTo(m)
  PROVE  /\ Off(m) <= Len(file') /\ Off(m) <= Len(disk')
         /\ \A i \in 1 .. Off(m) : file'[i] = file[i] /\ disk'[i] = file[i]
<1>1. m <= GoodFrames(file)
  BY DEF SyncedTo
<1>2. GoodFrames(file) \in Nat /\ Off(GoodFrames(file)) <= Len(file) /\ Len(file) \in Nat
  BY InCall, GoodFramesIs
<1>3. Off(m) <= Off(GoodFrames(file)) /\ Off(m) \in Nat /\ Off(GoodFrames(file)) \in Nat
  BY <1>1, <1>2, OffMono, OffStep
<1> QED BY <1>2, <1>3

(* SyncTruncation keeps the invariant.                                     *)
LEMMA SyncTruncationKeeps ==
  ASSUME StoreInv, NEW p \in Processes, SyncTruncation(p)
  PROVE  StoreInv'
<1>1. /\ call[p].pc = "SyncTruncation" /\ call[p].pc \in InTail
      /\ UNCHANGED <<file, locking, acked, blindly, faults, outages>>
      /\ disk' = file /\ Healed(p, call[p].seen, FALSE)
  BY DEF SyncTruncation, InTail
<1>2. /\ CallFits(p) /\ call[p] \in CallRecords
      /\ file \in Seq(Parts) /\ Len(file) <= Capacity
      /\ Len(Parsed(file)) = GoodFrames(file)
      /\ acked \in Seq(Confirmations) /\ blindly \subseteq DOMAIN acked
      /\ faults \in 0 .. MaxFaults /\ faults >= faults
  BY <1>1, InCall
<1>3. call[p].seen = Parsed(file) /\ Len(file) = Off(GoodFrames(file))
  BY <1>1, <1>2 DEF CallFits, Off
<1>4. Healed(p, Parsed(file), FALSE)
  BY <1>1, <1>3
<1>5. PICK c \in CallRecords : c.pc # "Out" /\ call' = [call EXCEPT ![p] = c]
  BY <1>1, <1>3, <1>4, HealedFits
<1>6. CallFits(p)' /\ loaded' \in Seq(Records)
  BY <1>1, <1>3, <1>4, HealedFits
<1>7. ConfirmedSynced'
  BY <1>1, <1>2, SyncKeepsConfirmed, AllConfirmedKept
<1> QED BY <1>1, <1>2, <1>5, <1>6, <1>7, InsideStep

(* A part appended takes nothing from the frames that are synced.          *)
LEMMA AppendKeepsConfirmed ==
  ASSUME StoreInv, NEW p \in Processes, call[p].pc # "Out", NEW x \in Parts,
         file' = Append(file, x), disk' = disk, acked' = acked, blindly' = blindly
  PROVE  file' \in Seq(Parts) /\ ConfirmedSynced'
<1>1. file \in Seq(Parts) /\ disk \in Seq(Parts) /\ GoodFrames(file) \in Nat
  BY InCall
<1>2. file' \in Seq(Parts) /\ Len(file') = Len(file) + 1 /\ \A i \in 1 .. Len(file) : file'[i] = file[i]
  BY <1>1, AppendProperties
<1>3. ASSUME NEW m \in Nat, SyncedTo(m)
      PROVE  /\ Off(m) <= Len(file') /\ Off(m) <= Len(disk')
             /\ \A i \in 1 .. Off(m) : file'[i] = file[i] /\ disk'[i] = file[i]
  <2>1. m <= GoodFrames(file) /\ Off(m) <= Len(disk) /\ \A i \in 1 .. Off(m) : disk[i] = file[i]
    BY <1>3 DEF SyncedTo, Off
  <2>2. Off(m) <= Off(GoodFrames(file)) /\ Off(m) \in Nat /\ Off(GoodFrames(file)) \in Nat
    BY <1>1, <2>1, OffMono, OffStep
  <2>3. Off(GoodFrames(file)) <= Len(file) /\ Len(file) \in Nat
    BY <1>1, GoodFramesIs, LenProperties
  <2>4. Off(m) <= Len(file') /\ \A i \in 1 .. Off(m) : i \in 1 .. Len(file)
    BY <1>2, <2>2, <2>3
  <2> QED BY <1>2, <2>1, <2>4
<1> QED BY <1>1, <1>2, <1>3, AllConfirmedKept

(* Write keeps the invariant: the frame grows by its next part, or, where  *)
(* nothing is known of the file, within the room there is.                 *)
LEMMA WriteKeeps ==
  ASSUME StoreInv, NEW p \in Processes, Write(p)
  PROVE  StoreInv'
<1> DEFINE r == call[p].record
           n == GoodFrames(file)
           k0 == call[p].part
           x == [record |-> r, part |-> k0 + 1]
           c == [call[p] EXCEPT !.part = @ + 1,
                                !.pc = IF k0 + 1 = FrameParts THEN "SyncAppend" ELSE @]
<1>1. /\ call[p].pc = "Write" /\ UNCHANGED <<disk, locking, answers, faults, outages>>
      /\ file' = Append(file, Frame(r)[k0 + 1]) /\ call' = [call EXCEPT ![p] = c]
  BY DEF Write
<1>2. /\ TypeOK /\ CallFits(p) /\ call[p] \in CallRecords /\ k0 \in Nat
      /\ file \in Seq(Parts) /\ disk \in Seq(Parts)
      /\ Len(file) \in Nat /\ Len(disk) <= Capacity
      /\ n \in Nat /\ Parsed(file) \in Seq(Records) /\ Len(Parsed(file)) = n
      /\ acked \in Seq(Confirmations) /\ loaded \in Seq(Records)
      /\ blindly \subseteq DOMAIN acked /\ faults \in 0 .. MaxFaults /\ faults >= faults
  BY <1>1, InCall
<1>3. call[p].kind = "append" /\ r \in Records /\ k0 < FrameParts
  BY <1>1, <1>2 DEF CallFits, Appending, WritesBlind
<1>4. k0 + 1 \in 1 .. FrameParts
  BY <1>2, <1>3, FrameAssumption
<1>5. file' = Append(file, x) /\ x \in Parts
  BY <1>1, <1>3, <1>4 DEF Frame, Parts
<1>6. /\ c \in CallRecords /\ c.seen = call[p].seen /\ c.kind = call[p].kind /\ c.record = r
      /\ c.part = k0 + 1 /\ c.blind = call[p].blind
      /\ c.pc = IF k0 + 1 = FrameParts THEN "SyncAppend" ELSE "Write"
  <2>2. k0 + 1 \in 0 .. FrameParts
    BY <1>4
  <2> DEFINE v == IF k0 + 1 = FrameParts THEN "SyncAppend" ELSE "Write"
  <2>3. v \in {"SyncAppend", "Write"} /\ c = [call[p] EXCEPT !.part = k0 + 1, !.pc = v]
    BY <1>1
  <2> DEFINE d == call[p]
             k == k0 + 1
  <2>4. d \in CallRecords /\ k \in 0 .. FrameParts
    BY <1>2, <2>2
  <2>5. c = [d EXCEPT !.part = k, !.pc = v]
    BY <2>3
  <2> HIDE DEF v, c, d, k
  <2>6. /\ c \in CallRecords /\ c.seen = d.seen /\ c.kind = d.kind
        /\ c.record = d.record /\ c.part = k /\ c.blind = d.blind /\ c.pc = v
    BY <2>3, <2>4, <2>5 DEF CallRecords
  <2> QED BY <2>6 DEF v, d, k
<1> HIDE DEF c
<1>7. call'[p] = c
  BY <1>1, <1>2, <1>6, OneMoves
<1>8. /\ disk' = disk /\ acked' = acked /\ blindly' = blindly /\ loaded' = loaded
      /\ faults' = faults /\ outages' = outages
  BY <1>1 DEF answers
<1>9. file' \in Seq(Parts) /\ ConfirmedSynced'
  BY <1>1, <1>5, <1>8, AppendKeepsConfirmed
<1> HIDE DEF x
<1>14. ASSUME ~ call[p].blind PROVE Len(file') <= Capacity /\ CallFits(p)'
  <2>3. /\ n < MaxFrames /\ call[p].seen = Parsed(file)
        /\ Len(file) = Off(n) + k0
        /\ \A k \in 1 .. k0 : file[Off(n) + k] = [record |-> r, part |-> k]
    BY <1>1, <1>2, <1>14 DEF CallFits, Appending, Off
  <2>4. /\ call'[p].kind = "append" /\ call'[p].record = r /\ call'[p].part = k0 + 1
        /\ call'[p].seen = Parsed(file) /\ ~ call'[p].blind
    BY <1>3, <1>6, <1>7, <1>14, <2>3
  <2>5. k0 \in Nat /\ n \in Nat /\ Off(n) \in Nat /\ Len(file) = Off(n) + k0 /\ Len(file) \in Nat
    BY <1>2, <2>3, OffStep
  <2>6. \A k \in 1 .. k0 : file[Off(n) + k] = [record |-> r, part |-> k]
    BY <2>3
  <2>7. r \in Records /\ n < MaxFrames
    BY <1>3, <2>3
  <2>8. Len(Parsed(file)) = n /\ Parsed(file) \in Seq(Records) /\ file \in Seq(Parts)
    BY <1>2
  <2>9. call'[p].pc = IF k0 + 1 = FrameParts THEN "SyncAppend" ELSE "Write"
    BY <1>6, <1>7
  <2>10. /\ Len(file') = Off(n) + (k0 + 1)
         /\ \A i \in 1 .. Len(file) : file'[i] = file[i]
         /\ file'[Off(n) + (k0 + 1)] = x
    <3>1. /\ Len(file') = Len(file) + 1
          /\ \A i \in 1 .. Len(file) : file'[i] = file[i]
          /\ file'[Len(file) + 1] = x
      BY <1>5, <2>8, AppendProperties
    <3>2. Len(file) + 1 = Off(n) + (k0 + 1)
      BY <2>5
    <3> QED BY <3>1, <3>2
  <2>11. Len(file') <= Capacity
    <3>1. Off(n) \in Nat /\ Off(n) + FrameParts <= Off(MaxFrames) /\ Off(MaxFrames) \in Nat
      BY <1>2, <1>3, <2>3, OffLater, OffStep, BoundsAssumption
    <3>3. Len(file') = Off(n) + (k0 + 1) /\ k0 + 1 <= FrameParts /\ k0 \in Nat
      BY <1>4, <2>5, <2>10
    <3> HIDE DEF n, k0
    <3>2. Len(file') <= Off(MaxFrames)
      BY <3>1, <3>3, FrameAssumption
    <3>4. Off(MaxFrames) <= Capacity /\ Capacity \in Nat
      BY <1>2, CapacityIs
    <3>5. Len(file') \in Nat
      BY <1>9
    <3> QED BY <3>1, <3>2, <3>4, <3>5
  <2>12. CallFits(p)'
    <3>1. CASE k0 + 1 = FrameParts
      <4>1. x = [record |-> r, part |-> FrameParts]
        BY <3>1 DEF x
      <4>2. /\ Parsed(file') = Append(Parsed(file), r)
            /\ Len(file') = Off(n + 1)
        BY <1>5, <2>5, <2>6, <2>7, <2>8, <3>1, <4>1, FrameWritten
      <4>3. call'[p].pc = "SyncAppend"
        BY <2>9, <3>1
      <4> QED BY <2>4, <2>7, <2>8, <4>2, <4>3 DEF CallFits, InTail, Off
    <3>2. CASE k0 + 1 # FrameParts
      <4>1. k0 + 1 < FrameParts
        BY <1>4, <2>5, <3>2, FrameAssumption
      <4>2. Parsed(file') = Parsed(file) /\ GoodFrames(file') = n
        BY <1>5, <2>5, <2>8, <4>1, PartWritten
      <4>3. \A k \in 1 .. k0 + 1 : file'[Off(n) + k] = [record |-> r, part |-> k]
        <5>2. ASSUME NEW k \in 1 .. k0 PROVE file'[Off(n) + k] = [record |-> r, part |-> k]
          <6>1. Off(n) + k \in 1 .. Len(file)
            BY <2>5
          <6> QED BY <2>6, <2>10, <6>1
        <5>3. file'[Off(n) + (k0 + 1)] = [record |-> r, part |-> k0 + 1]
          BY <2>10 DEF x
        <5>4. \A k \in 1 .. k0 + 1 : k \in 1 .. k0 \/ k = k0 + 1
          BY <2>5
        <5> QED BY <5>2, <5>3, <5>4
      <4>4. call'[p].pc = "Write"
        BY <2>9, <3>2
      <4>5. Len(file') = Len(Parsed(file)) * FrameParts + (k0 + 1)
        BY <2>8, <2>10 DEF Off
      <4>6. \A k \in 1 .. k0 + 1 :
              file'[Len(Parsed(file)) * FrameParts + k] = [record |-> r, part |-> k]
        BY <2>8, <4>3 DEF Off
      <4> QED BY <2>4, <2>7, <4>1, <4>2, <4>4, <4>5, <4>6 DEF CallFits, Appending, InTail
    <3> QED BY <3>1, <3>2
  <2> QED BY <2>11, <2>12
<1>15. ASSUME call[p].blind PROVE Len(file') <= Capacity /\ CallFits(p)'
  <2>1. /\ WritesBlind(p) /\ call[p].seen = <<>> /\ MaxFrames > 0
        /\ Len(file) + (FrameParts - k0) <= Capacity
    BY <1>2, <1>15 DEF CallFits, WritesBlind
  <2>2. Len(file') = Len(file) + 1
    BY <1>2, <1>5, AppendProperties
  <2>3. Capacity' = Capacity /\ Capacity \in Nat
    BY <1>2, <1>8, CapacityIs DEF Capacity
  <2>4. Len(file') + (FrameParts - (k0 + 1)) <= Capacity /\ Len(file') <= Capacity
    <3>1. ASSUME NEW l \in Nat, NEW k \in Nat, NEW m \in Nat, NEW size \in Nat,
                 k < size, l + (size - k) <= m
          PROVE  (l + 1) + (size - (k + 1)) <= m /\ l + 1 <= m
      BY <3>1
    <3>2. FrameParts \in Nat /\ Len(file) \in Nat
      BY <1>2, FrameAssumption
    <3> QED BY <1>2, <1>3, <2>1, <2>2, <2>3, <3>1, <3>2
  <2>5. c.pc = "Write" => c.part < FrameParts
    BY <1>2, <1>4, <1>6, FrameAssumption
  <2>6. c.pc \in {"Write", "SyncAppend"}
    BY <1>6
  <2>7. WritesBlind(p)'
    BY <1>3, <1>6, <1>7, <2>1, <2>3, <2>4, <2>5, <2>6 DEF WritesBlind
  <2> QED BY <1>6, <1>7, <1>15, <2>4, <2>6, <2>7 DEF CallFits, InTail
<1>13. c.pc # "Out"
  BY <1>6
<1>16. Len(file') <= Capacity /\ CallFits(p)'
  BY <1>14, <1>15
<1> QED BY <1>1, <1>2, <1>6, <1>8, <1>9, <1>13, <1>16, InsideStep

(* SyncAppend keeps the invariant: what it confirms is in the last frame,  *)
(* which is durable now.                                                   *)
LEMMA SyncAppendKeeps ==
  ASSUME StoreInv, NEW p \in Processes, SyncAppend(p)
  PROVE  StoreInv'
<1> DEFINE c == [NoCall EXCEPT !.pc = "Held"]
           a == [record |-> call[p].record, position |-> Len(call[p].seen)]
<1>1. /\ call[p].pc = "SyncAppend" /\ UNCHANGED <<file, locking, loaded, faults, outages>>
      /\ disk' = file /\ acked' = Append(acked, a) /\ call' = [call EXCEPT ![p] = c]
      /\ blindly' = IF call[p].blind THEN blindly \cup {Len(acked) + 1} ELSE blindly
  BY DEF SyncAppend, Acknowledge, Return
<1>2. /\ TypeOK /\ CallFits(p) /\ call[p].seen \in Seq(Records)
      /\ file \in Seq(Parts) /\ Len(file) \in Nat /\ Len(file) <= Capacity
      /\ Parsed(file) \in Seq(Records) /\ Len(Parsed(file)) = GoodFrames(file)
      /\ acked \in Seq(Confirmations) /\ loaded \in Seq(Records)
      /\ blindly \subseteq DOMAIN acked /\ faults \in 0 .. MaxFaults /\ faults >= faults
  BY <1>1, InCall
<1>3. call[p].record \in Records /\ Len(call[p].seen) < MaxFrames
  <2>1. CASE ~ call[p].blind
    BY <1>1, <1>2, <2>1 DEF CallFits
  <2>2. CASE call[p].blind
    BY <1>2, <2>2 DEF CallFits, WritesBlind
  <2> QED BY <2>1, <2>2
<1>4. Len(call[p].seen) \in Nat
  BY <1>2, LenProperties
<1>5. a \in Confirmations
  BY <1>3, <1>4, BoundsAssumption DEF Confirmations
<1>6. c \in CallRecords /\ c.pc = "Held" /\ ~ c.blind
  BY NoCallTyped DEF NoCall
<1> HIDE DEF c
<1>7. call'[p] = c
  BY <1>1, <1>2, <1>6, OneMoves
<1>8. CallFits(p)'
  BY <1>6, <1>7, NoCallFits
<1>9. ASSUME ~ call[p].blind
      PROVE  /\ GoodFrames(file) = Len(call[p].seen) + 1
             /\ Parsed(file)[Len(call[p].seen) + 1] = call[p].record
             /\ (Len(call[p].seen) + 1) * FrameParts <= Len(file)
  <2>1. /\ Parsed(file) = Append(call[p].seen, call[p].record)
        /\ Len(file) = (Len(call[p].seen) + 1) * FrameParts
    BY <1>1, <1>2, <1>9 DEF CallFits
  <2>2. Len(file) <= Len(file)
    BY <1>2
  <2> QED BY <1>2, <1>3, <1>4, <2>1, <2>2, AppendProperties
<1>10. a.position = Len(call[p].seen) /\ a.record = call[p].record
  OBVIOUS
<1> HIDE DEF a
<1>11. /\ acked' \in Seq(Confirmations) /\ Len(acked') = Len(acked) + 1 /\ Len(acked) \in Nat
       /\ \A i \in 1 .. Len(acked) : acked'[i] = acked[i]
       /\ acked'[Len(acked) + 1] = a
  BY <1>1, <1>2, <1>5, AppendProperties, LenProperties
<1>16. /\ blindly \subseteq blindly' /\ blindly' \subseteq 1 .. Len(acked) + 1
       /\ call[p].blind => Len(acked) + 1 \in blindly'
  <2>1. DOMAIN acked = 1 .. Len(acked)
    BY <1>2, LenProperties
  <2> QED BY <1>1, <1>2, <1>11, <2>1
<1>12. ASSUME NEW i \in (1 .. Len(acked) + 1) \ blindly'
       PROVE  LET m == acked'[i].position + 1
              IN /\ m <= GoodFrames(file)
                 /\ m * FrameParts <= Len(file)
                 /\ Parsed(file)[m] = acked'[i].record
  <2>1. CASE i \in 1 .. Len(acked)
    <3>1. i \in DOMAIN acked \ blindly
      BY <1>2, <1>12, <1>16, <2>1, LenProperties
    <3>2. PICK m : m = acked[i].position + 1
      OBVIOUS
    <3>3. SyncedTo(m) /\ Parsed(file)[m] = acked[i].record
      BY <3>1, <3>2 DEF StoreInv, ConfirmedSynced
    <3>4. m \in Nat
      <4>1. acked[i] \in Confirmations
        BY <1>2, <2>1, ElementOfSeq
      <4> QED BY <3>2, <4>1, BoundsAssumption DEF Confirmations
    <3>5. Off(m) <= Len(file)
      BY <1>1, <3>3, <3>4, SyncKeepsConfirmed
    <3>6. m <= GoodFrames(file)
      BY <3>3 DEF SyncedTo
    <3> QED BY <1>11, <2>1, <3>2, <3>3, <3>5, <3>6 DEF Off
  <2>2. CASE i = Len(acked) + 1
    <3>1. acked'[i].position = Len(call[p].seen) /\ acked'[i].record = call[p].record
      BY <1>10, <1>11, <2>2
    <3>2. ~ call[p].blind
      BY <1>12, <1>16, <2>2
    <3>3. GoodFrames(file) <= GoodFrames(file)
      BY <1>2
    <3> QED BY <1>9, <3>1, <3>2, <3>3
  <2> QED BY <1>11, <2>1, <2>2
<1>13. ConfirmedSynced'
  <2>1. DOMAIN acked' = 1 .. Len(acked) + 1
    BY <1>11, LenProperties
  <2>2. file' = file /\ disk' = file /\ Parsed(file') = Parsed(file)
        /\ GoodFrames(file') = GoodFrames(file)
    BY <1>1
  <2>3. \A i \in DOMAIN acked' \ blindly' : i \in (1 .. Len(acked) + 1) \ blindly'
    BY <2>1
  <2> QED BY <1>12, <2>2, <2>3 DEF ConfirmedSynced, SyncedTo
<1>14. c.pc # "Out" /\ call[p].pc # "Out"
  BY <1>1, <1>6
<1>15. /\ file' \in Seq(Parts) /\ disk' \in Seq(Parts) /\ Len(file') <= Capacity
       /\ Len(disk') <= Capacity /\ loaded' \in Seq(Records)
       /\ faults' \in 0 .. MaxFaults /\ faults' >= faults
  BY <1>1, <1>2
<1>17. blindly' \subseteq DOMAIN acked'
  BY <1>11, <1>16, LenProperties
<1> QED BY <1>1, <1>6, <1>8, <1>11, <1>13, <1>14, <1>15, <1>17, InsideStep

(* A failing system call keeps the invariant.                              *)
LEMMA FailKeeps ==
  ASSUME StoreInv, NEW p \in Processes, Fail(p)
  PROVE  StoreInv'
<1> DEFINE c == [NoCall EXCEPT !.pc = "Held"]
<1>1. /\ call[p].pc # "Out" /\ UNCHANGED <<storage, locking, answers, outages>>
      /\ Fault /\ call' = [call EXCEPT ![p] = c]
  BY DEF Fail, Return
<1>2. faults \in 0 .. MaxFaults /\ loaded \in Seq(Records) /\ TypeOK
  BY <1>1, InCall
<1>3. faults' \in 0 .. MaxFaults /\ faults' >= faults
  BY <1>1, <1>2, BoundsAssumption DEF Fault
<1>4. c \in CallRecords /\ c.pc = "Held" /\ ~ c.blind
  BY NoCallTyped DEF NoCall
<1> HIDE DEF c
<1>5. call'[p] = c
  BY <1>1, <1>2, <1>4, OneMoves
<1>6. CallFits(p)'
  BY <1>4, <1>5, NoCallFits
<1>7. acked' = acked /\ blindly' = blindly /\ loaded' = loaded /\ outages' = outages
  BY <1>1 DEF answers
<1> QED BY <1>1, <1>2, <1>3, <1>4, <1>6, <1>7, QuietStep

(* A power loss keeps the invariant: what is confirmed lies in the part    *)
(* that file and disk agree on.                                            *)
LEMMA PowerLossKeeps ==
  ASSUME StoreInv, PowerLoss
  PROVE  StoreInv'
<1>1. /\ TypeOK /\ file \in Seq(Parts) /\ disk \in Seq(Parts)
      /\ Len(file) <= Capacity /\ Len(disk) <= Capacity
      /\ Len(file) \in Nat /\ Len(disk) \in Nat /\ outages \in 0 .. MaxOutages
      /\ faults \in 0 .. MaxFaults /\ blindly \subseteq DOMAIN acked
  BY LenProperties DEF StoreInv, TypeOK, Capacity
<1>2. /\ Kept \in Nat /\ Kept <= Len(disk) /\ Kept <= Len(file)
      /\ \A i \in 1 .. Kept : disk[i] = file[i]
      /\ \A n \in Nat : n <= Len(disk) /\ n <= Len(file) /\ (\A i \in 1 .. n : disk[i] = file[i])
           => n <= Kept
  BY <1>1, KeptIs
<1> DEFINE longer == Max({Len(disk), Len(file)})
<1>3. longer \in {Len(disk), Len(file)}
  BY <1>1, LongerIs
<1> HIDE DEF longer
<1>4. PICK n \in Kept .. longer : \E from \in [Kept + 1 .. n -> {"new", "old", "neither"}] :
        file' = [i \in 1 .. n |->
                   IF i <= Kept THEN file[i]
                   ELSE IF from[i] = "new" /\ i <= Len(file) THEN file[i]
                   ELSE IF from[i] = "old" /\ i <= Len(disk) THEN disk[i]
                   ELSE Garbage]
  BY DEF PowerLoss, longer
<1>5. n \in Nat /\ Kept <= n /\ n <= Capacity
  <2>1. longer \in Nat /\ longer <= Capacity
    BY <1>1, <1>3
  <2>2. Capacity \in Nat
    BY <1>1, CapacityIs
  <2> QED BY <1>2, <1>4, <2>1, <2>2
<1>6. \A i \in 1 .. n : (i <= Len(file) => file[i] \in Parts) /\ (i <= Len(disk) => disk[i] \in Parts)
  BY <1>1, <1>5, ElementOfSeq
<1>7. Garbage \in Parts
  BY DEF Parts
<1>8. /\ file' \in [1 .. n -> Parts]
      /\ \A i \in 1 .. Kept : file'[i] = file[i]
  BY <1>1, <1>2, <1>4, <1>5, <1>6, <1>7
<1>9. file' \in Seq(Parts) /\ Len(file') = n
  BY <1>5, <1>8
<1>10. /\ disk' = file' /\ call' = [p \in Processes |-> NoCall]
       /\ lock' = Nobody /\ inherited' = FALSE /\ orphaned' = FALSE
       /\ acked' = acked /\ blindly' = blindly /\ loaded' = loaded /\ faults' = faults /\ outages' = outages + 1
       /\ outages < MaxOutages
  BY DEF PowerLoss, answers
<1>11. NoCall.pc = "Out" /\ ~ NoCall.blind /\ NoCall \in CallRecords
  BY NoCallTyped DEF NoCall
<1>12. outages' \in 0 .. MaxOutages
  BY <1>1, <1>10, BoundsAssumption
<1> HIDE DEF NoCall
<1>13. call' \in [Processes -> CallRecords] /\ \A p \in Processes : call'[p].pc = "Out" /\ ~ call'[p].blind
  BY <1>10, <1>11
<1>14. TypeOK'
  BY <1>1, <1>5, <1>9, <1>10, <1>12, <1>13 DEF TypeOK, CallRecords, Capacity
<1>15. LeaseHoldsLock' /\ CopiesLock'
  BY <1>10, <1>13 DEF LeaseHoldsLock, CopiesLock
<1>16. \A p \in Processes : CallFits(p)'
  BY <1>13, NoCallFits
<1>17. ASSUME NEW m \in Nat, SyncedTo(m)
       PROVE  /\ Off(m) <= Len(file') /\ Off(m) <= Len(disk')
              /\ \A i \in 1 .. Off(m) : file'[i] = file[i] /\ disk'[i] = file[i]
  <2>1. /\ m <= GoodFrames(file) /\ Off(m) <= Len(disk)
        /\ \A i \in 1 .. Off(m) : disk[i] = file[i]
    BY <1>17 DEF SyncedTo, Off
  <2>2. GoodFrames(file) \in Nat /\ Off(GoodFrames(file)) <= Len(file)
    BY <1>1, GoodFramesIs
  <2>3. Off(m) \in Nat /\ Off(m) <= Off(GoodFrames(file)) /\ Off(GoodFrames(file)) \in Nat
    BY <2>1, <2>2, OffMono, OffStep
  <2>4. Off(m) <= Len(file)
    BY <1>1, <2>2, <2>3
  <2>5. Off(m) <= Kept
    BY <1>2, <2>1, <2>3, <2>4
  <2>6. Off(m) <= n /\ \A i \in 1 .. Off(m) : i \in 1 .. Kept
    BY <1>2, <1>5, <2>3, <2>5
  <2> QED BY <1>8, <1>9, <1>10, <2>6
<1>18. ConfirmedSynced'
  BY <1>9, <1>10, <1>17, AllConfirmedKept
<1>19. Capacity' = Capacity
  BY <1>10 DEF Capacity
<1>20. Len(disk') <= Capacity'
  BY <1>5, <1>9, <1>10, <1>19
<1> QED BY <1>14, <1>15, <1>16, <1>18, <1>20 DEF StoreInv

-----------------------------------------------------------------------------
(* The invariant.                                                          *)

(* The invariant holds before the first call.                              *)
LEMMA InitInv == Init => StoreInv
<1> SUFFICES ASSUME Init PROVE StoreInv
  OBVIOUS
<1>1. /\ file = <<>> /\ disk = <<>> /\ lock = Nobody /\ inherited = FALSE /\ orphaned = FALSE
      /\ call = [p \in Processes |-> NoCall] /\ acked = <<>> /\ blindly = {}
      /\ loaded = <<>> /\ faults = 0 /\ outages = 0
  BY DEF Init
<1>2. NoCall \in CallRecords /\ NoCall.pc = "Out" /\ ~ NoCall.blind
  BY NoCallTyped DEF NoCall
<1> HIDE DEF NoCall
<1>3. call \in [Processes -> CallRecords] /\ \A p \in Processes : call[p].pc = "Out" /\ ~ call[p].blind
  BY <1>1, <1>2
<1>4. Len(file) <= Capacity /\ Len(disk) <= Capacity
  <2>1. Capacity \in Nat
    <3>1. faults \in 0 .. MaxFaults
      BY <1>1, BoundsAssumption
    <3> QED BY <3>1, CapacityIs
  <2> QED BY <1>1, <2>1
<1>5. TypeOK
  <2>1. ASSUME NEW S PROVE <<>> \in Seq(S)
    OBVIOUS
  <2>2. /\ file \in Seq(Parts) /\ disk \in Seq(Parts)
        /\ acked \in Seq([record : Records, position : 0 .. MaxFrames - 1])
        /\ loaded \in Seq(Records)
    BY <1>1, <2>1, Zenon
  <2>3. faults \in 0 .. MaxFaults /\ outages \in 0 .. MaxOutages
    BY <1>1, BoundsAssumption
  <2> QED BY <1>1, <1>3, <1>4, <2>2, <2>3 DEF TypeOK, CallRecords, Capacity
<1>6. LeaseHoldsLock /\ CopiesLock
  BY <1>1, <1>3 DEF LeaseHoldsLock, CopiesLock
<1>7. ConfirmedSynced
  <2>1. DOMAIN acked = {}
    BY <1>1
  <2> QED BY <2>1 DEF ConfirmedSynced
<1>8. \A p \in Processes : CallFits(p)
  BY <1>3 DEF CallFits, InTail
<1> QED BY <1>4, <1>5, <1>6, <1>7, <1>8 DEF StoreInv

(* Doing nothing keeps the invariant.                                      *)
LEMMA StutterKeeps ==
  ASSUME StoreInv, UNCHANGED vars
  PROVE  StoreInv'
<1>1. /\ UNCHANGED <<storage, answers, outages>> /\ call' = call /\ faults' = faults
      /\ lock' = lock /\ inherited' = inherited /\ orphaned' = orphaned
  BY DEF vars, locking
<1>2. /\ call \in [Processes -> CallRecords] /\ faults \in 0 .. MaxFaults
      /\ inherited \in BOOLEAN /\ orphaned \in BOOLEAN /\ lock \in Processes \cup {Nobody}
  BY DEF StoreInv, TypeOK, CallRecords
<1>3. LeaseHoldsLock' /\ CopiesLock'
  BY <1>1 DEF StoreInv, LeaseHoldsLock, CopiesLock
<1>4. faults' \in 0 .. MaxFaults /\ faults' >= faults
  BY <1>1, <1>2
<1> QED BY <1>1, <1>2, <1>3, <1>4, LeaseStep

(* Every step keeps the invariant.                                         *)
LEMMA StepInv ==
  ASSUME StoreInv, [Next]_vars
  PROVE  StoreInv'
<1>1. ASSUME NEW p \in Processes, Lease(p) PROVE StoreInv'
  BY <1>1, AcquireKeeps, DropKeeps, CopyKeeps DEF Lease
<1>2. ASSUME NEW p \in Processes, Operate(p) PROVE StoreInv'
  <2>1. ASSUME NEW record \in Records, Call(p, "append", record) PROVE StoreInv'
    BY <2>1, CallKeeps DEF Calls
  <2>2. CASE Call(p, "load", Nobody)
    BY <2>2, CallKeeps DEF Calls
  <2> QED BY <1>2, <2>1, <2>2, ReadKeeps, TruncateKeeps, SyncTruncationKeeps, WriteKeeps,
             SyncAppendKeeps DEF Operate
<1>3. ASSUME NEW p \in Processes, Faulty(p) PROVE StoreInv'
  BY <1>3, ReadAbsentKeeps, FailKeeps, LossKeeps DEF Faulty
<1>4. CASE Exec
  BY <1>4, CopyKeeps
<1>5. CASE PowerLoss
  BY <1>5, PowerLossKeeps
<1>6. CASE UNCHANGED vars
  BY <1>6, StutterKeeps
<1> QED BY <1>1, <1>2, <1>3, <1>4, <1>5, <1>6 DEF Next

(* What file.rs's calls rely on, from each system call to the next, holds  *)
(* of every file, whatever else the processes do.                          *)
THEOREM StoreInvariance == Spec => []StoreInv
<1>1. Init => StoreInv
  BY InitInv
<1>2. StoreInv /\ [Next]_vars => StoreInv'
  BY StepInv
<1> QED BY <1>1, <1>2, PTL DEF Spec

(* Types: among others, the file never outgrows the frames it has room for *)
(* and one for each fault, and every confirmed position is one of the      *)
(* former.                                                                 *)
THEOREM TypeCorrect == Spec => []TypeOK
<1>1. StoreInv => TypeOK
  BY DEF StoreInv
<1> QED BY <1>1, StoreInvariance, PTL

(* The Ok of an append that read the file is a promise: the event is at    *)
(* the position it returned in every later reading of the file, whatever   *)
(* torn frames, healings, failed calls, kills, other owners and power      *)
(* losses come between, and whatever appends that took the file for absent *)
(* and so read nothing (read_and_heal) write before it or after it.        *)
THEOREM AcknowledgedIsKept == Spec => []AcknowledgedStay
<1>1. StoreInv => AcknowledgedStay
  BY DEF StoreInv, ConfirmedSynced, SyncedTo, AcknowledgedStay, InPlace
<1> QED BY <1>1, StoreInvariance, PTL

(* FileLease::drop never leaves the execution locked: a lock nobody        *)
(* answers for is a child's copy, left by a kill or a failed unlock.       *)
THEOREM NoLockStrays == Spec => []NoStrayLock
<1>1. StoreInv => NoStrayLock
  BY DEF StoreInv, CopiesLock, NoStrayLock
<1> QED BY <1>1, StoreInvariance, PTL

-----------------------------------------------------------------------------
(* The refinement.  Taking and leaving the lease, and beginning, finishing *)
(* and losing a call are steps of the abstract store; so is the write that *)
(* ends the file with one more whole frame, which adds the event.          *)
(* Reading, healing and the other writes leave the events parsed, the      *)
(* owner and its call alone.                                               *)

(* The store starts empty, free and idle.                                  *)
LEMMA InitRefines == Init => Store!Init
  BY EmptyParses DEF Init, Store!Init, Store!Idle, Request

(* The lease's operations, kills and failed unlocks.                       *)
LEMMA LeaseRefines ==
  ASSUME StoreInv,
         \/ \E p \in Processes : Acquire(p) \/ Drop(p) \/ Fork(p) \/ FailUnlock(p) \/ Kill(p)
         \/ Exec
  PROVE  [Store!Next]_Store!vars
<1>1. UNCHANGED <<storage, answers>>
  BY DEF Acquire, Drop, Fork, FailUnlock, Kill, Exec
<1>2. Parsed(file)' = Parsed(file) /\ acked' = acked /\ loaded' = loaded
  BY <1>1 DEF storage, answers
<1>3. TypeOK /\ LeaseHoldsLock /\ CopiesLock /\ call \in [Processes -> CallRecords]
  BY DEF StoreInv, TypeOK, CallRecords
<1>4. ASSUME NEW p \in Processes, Acquire(p) PROVE Store!Take(p)
  <2>1. lock = Nobody /\ lock' = p /\ call' = [call EXCEPT ![p].pc = "Held"]
    BY <1>4 DEF Acquire, Goto
  <2>2. Request = Store!Idle
    BY <2>1 DEF Request, Store!Idle
  <2>3. call'[p].pc = "Held"
    BY <1>3, <2>1 DEF CallRecords
  <2>4. Request' = Store!Idle
    BY <2>1, <2>3 DEF Request, Store!Idle
  <2> QED BY <1>2, <2>1, <2>2, <2>4 DEF Store!Take
<1>5. ASSUME NEW p \in Processes, Drop(p) PROVE Store!Leave
  <2>1. lock' = Nobody /\ call[p].pc = "Held"
    BY <1>5 DEF Drop
  <2>2. lock # Nobody
    BY <1>3, <2>1, NobodyAssumption DEF LeaseHoldsLock
  <2>3. Request' = Store!Idle
    BY <2>1 DEF Request, Store!Idle
  <2> QED BY <1>2, <2>1, <2>2, <2>3 DEF Store!Leave
<1>6. ASSUME NEW p \in Processes, Fork(p) PROVE UNCHANGED Store!vars
  <2>1. lock' = lock /\ call' = call /\ file' = file
    BY <1>6 DEF Fork, storage
  <2>2. Request' = Request
    BY <2>1 DEF Request
  <2> QED BY <1>2, <2>1, <2>2 DEF Store!vars
<1>7. ASSUME NEW p \in Processes, FailUnlock(p) \/ Kill(p) PROVE Store!Leave
  <2>1. /\ call[p].pc # "Out" /\ lock' \in {lock, Nobody}
        /\ call' = [call EXCEPT ![p].pc = "Out"] \/ call' = [call EXCEPT ![p] = NoCall]
    BY <1>7 DEF FailUnlock, Kill, Closed, Goto
  <2>2. lock = p /\ lock # Nobody
    BY <1>3, <2>1, NobodyAssumption DEF LeaseHoldsLock
  <2>3. call'[p].pc = "Out"
    BY <1>3, <2>1 DEF CallRecords, NoCall
  <2>4. Request' = Store!Idle
    BY <2>1, <2>2, <2>3 DEF Request, Store!Idle
  <2> QED BY <1>2, <2>1, <2>2, <2>4 DEF Store!Leave
<1>8. CASE Exec
  <2>1. call' = call /\ lock' = (IF orphaned THEN Nobody ELSE lock) /\ file' = file
    BY <1>8 DEF Exec, storage
  <2>2. CASE orphaned
    <3>1. lock # Nobody /\ lock' = Nobody
      BY <1>3, <2>1, <2>2 DEF CopiesLock
    <3>2. Request' = Store!Idle
      BY <3>1 DEF Request, Store!Idle
    <3>3. Store!Leave
      BY <1>2, <3>1, <3>2 DEF Store!Leave
    <3> QED BY <3>3 DEF Store!Next
  <2>3. CASE ~ orphaned
    <3>1. Request' = Request
      BY <2>1, <2>3 DEF Request
    <3>2. UNCHANGED Store!vars
      BY <1>2, <2>1, <2>3, <3>1 DEF Store!vars
    <3> QED BY <3>2
  <2> QED BY <2>2, <2>3
<1> QED BY <1>4, <1>5, <1>6, <1>7, <1>8 DEF Store!Next

(* What the store sees of a call under way, before and after a step of it. *)
LEMMA RequestInCall ==
  ASSUME StoreInv, NEW p \in Processes, call[p].pc # "Out",
         NEW c \in CallRecords, call' = [call EXCEPT ![p] = c], UNCHANGED locking
  PROVE  /\ lock = p /\ lock' = p /\ p # Nobody
         /\ call'[p] = c
         /\ call[p].pc = "Held" => Request = Store!Idle
         /\ c.pc \in {"Out", "Held"} => Request' = Store!Idle
         /\ call[p].pc # "Held" /\ call[p].kind = "load" => Request = Store!Load
         /\ c.pc \notin {"Out", "Held"} /\ c.kind = "load" => Request' = Store!Load
         /\ call[p].pc \in InTail \cup {"Write"} /\ call[p].kind = "append" =>
              Request = Store!Adding(call[p].record)
         /\ c.pc \in InTail \cup {"Write"} /\ c.kind = "append" =>
              Request' = Store!Adding(c.record)
         /\ call[p].pc = "SyncAppend" /\ call[p].kind = "append" =>
              Request = IF GoodFrames(file) * FrameParts = Len(file)
                          THEN Store!Added(call[p].record) ELSE Store!Adding(call[p].record)
         /\ c.pc = "SyncAppend" /\ c.kind = "append" =>
              Request' = IF GoodFrames(file') * FrameParts = Len(file')
                           THEN Store!Added(c.record) ELSE Store!Adding(c.record)
<1>1. lock = p /\ p # Nobody /\ TypeOK
  BY NobodyAssumption DEF StoreInv, LeaseHoldsLock
<1>2. lock' = p
  BY <1>1 DEF locking
<1>3. call'[p] = c
  BY <1>1, OneMoves
<1> QED BY <1>1, <1>2, <1>3
        DEF Request, InTail, Store!Idle, Store!Load, Store!Adding, Store!Added

(* The end of the reading answers a load, if it read the file or there is  *)
(* nothing to read, and is nothing to an append.                           *)
LEMMA HealedRefines ==
  ASSUME StoreInv, NEW p \in Processes, call[p].pc \in InTail,
         NEW seen \in Seq(Records), NEW blind \in BOOLEAN, Healed(p, seen, blind),
         call[p].kind = "load" => seen = Parsed(file),
         file' = file, acked' = acked, UNCHANGED locking
  PROVE  [Store!Next]_Store!vars
<1>1. /\ call[p].pc # "Out" /\ call[p].pc # "Held" /\ Parsed(file)' = Parsed(file)
  BY DEF InTail
<1>2. call[p] \in CallRecords
  BY <1>1, InCall
<1>3. CASE call[p].kind = "append"
  <2> DEFINE c == [call[p] EXCEPT !.pc = "Write", !.seen = seen, !.blind = blind]
  <2>1. /\ c \in CallRecords /\ c.pc = "Write"
        /\ c.kind = call[p].kind /\ c.record = call[p].record
    BY <1>2 DEF CallRecords
  <2>2. call' = [call EXCEPT ![p] = c] /\ loaded' = loaded
    BY <1>3 DEF Healed
  <2> HIDE DEF c
  <2>3. lock = p /\ lock' = p /\ Request = Store!Adding(call[p].record)
    BY <1>1, <1>3, <2>1, <2>2, RequestInCall
  <2>4. Request' = Store!Adding(c.record)
    BY <1>1, <1>3, <2>1, <2>2, RequestInCall
  <2>5. UNCHANGED Store!vars
    BY <1>1, <2>1, <2>2, <2>3, <2>4 DEF Store!vars
  <2> QED BY <2>5
<1>4. CASE call[p].kind # "append"
  <2> DEFINE c == [NoCall EXCEPT !.pc = "Held"]
  <2>1. call' = [call EXCEPT ![p] = c] /\ loaded' = seen
    BY <1>4 DEF Healed, Return
  <2>2. c \in CallRecords /\ c.pc = "Held"
    BY NoCallTyped DEF NoCall
  <2> HIDE DEF c
  <2>3. call[p].kind = "load"
    BY <1>2, <1>4 DEF CallRecords, Calls
  <2>4. lock = p /\ lock' = p /\ Request = Store!Load /\ Request' = Store!Idle
    BY <1>1, <2>1, <2>2, <2>3, RequestInCall
  <2>5. Store!Answer
    BY <1>1, <2>1, <2>3, <2>4 DEF Store!Answer, Store!Load
  <2> QED BY <2>5 DEF Store!Next
<1> QED BY <1>3, <1>4

(* A call's beginning, reading, healing and failing.                       *)
LEMMA ReadingRefines ==
  ASSUME StoreInv, NEW p \in Processes,
         \/ \E record \in Records : Call(p, "append", record)
         \/ Call(p, "load", Nobody)
         \/ Read(p) \/ Truncate(p) \/ SyncTruncation(p) \/ Fail(p)
  PROVE  [Store!Next]_Store!vars
<1>1. ASSUME NEW kind \in Calls, NEW record \in Records \cup {Nobody},
             kind = "append" => record \in Records, Call(p, kind, record)
      PROVE  Store!Ask
  <2> DEFINE c == [NoCall EXCEPT !.pc = "Read", !.kind = kind, !.record = record]
  <2>1. NoCall \in CallRecords
    BY NoCallTyped
  <2>2. c \in CallRecords /\ c.pc = "Read" /\ c.kind = kind /\ c.record = record
    <3> HIDE DEF NoCall
    <3> QED BY <2>1 DEF CallRecords
  <2>3. /\ call[p].pc = "Held" /\ call' = [call EXCEPT ![p] = c]
        /\ UNCHANGED <<storage, locking, answers>>
    BY <1>1 DEF Call
  <2> HIDE DEF c
  <2>4. lock = p /\ lock' = p /\ p # Nobody /\ Request = Store!Idle
    BY <2>2, <2>3, RequestInCall
  <2>5. Request' \in {Store!Load} \cup {Store!Adding(r) : r \in Records}
    <3>1. CASE kind = "load"
      BY <2>2, <2>3, <3>1, RequestInCall
    <3>2. CASE kind = "append"
      <4>1. Request' = Store!Adding(record)
        BY <2>2, <2>3, <3>2, RequestInCall DEF InTail
      <4> QED BY <1>1, <3>2, <4>1
    <3> QED BY <3>1, <3>2 DEF Calls
  <2>6. Parsed(file)' = Parsed(file) /\ acked' = acked /\ loaded' = loaded
    BY <2>3 DEF storage, answers
  <2> QED BY <2>4, <2>5, <2>6 DEF Store!Ask
<1>2. ASSUME Read(p) PROVE [Store!Next]_Store!vars
  <2>1. /\ call[p].pc = "Read" /\ call[p].pc \in InTail
        /\ UNCHANGED <<storage, locking, acked>>
    BY <1>2 DEF Read, InTail
  <2>2. file' = file /\ Parsed(file)' = Parsed(file) /\ acked' = acked
    BY <2>1 DEF storage
  <2>3. CASE GoodFrames(file) * FrameParts = Len(file)
    <3>1. Parsed(file) \in Seq(Records) /\ Healed(p, Parsed(file), FALSE)
      BY <1>2, <2>1, <2>3, InCall DEF Read
    <3> QED BY <2>1, <2>2, <3>1, HealedRefines
  <2>4. CASE GoodFrames(file) * FrameParts # Len(file)
    <3> DEFINE c == [call[p] EXCEPT !.pc = "Truncate", !.seen = Parsed(file)]
    <3>1. call[p] \in CallRecords /\ Parsed(file) \in Seq(Records)
      BY <2>1, InCall
    <3>2. /\ c \in CallRecords /\ c.pc = "Truncate"
          /\ c.kind = call[p].kind /\ c.record = call[p].record
      BY <3>1 DEF CallRecords
    <3>3. call' = [call EXCEPT ![p] = c] /\ loaded' = loaded
      BY <1>2, <2>4 DEF Read
    <3> HIDE DEF c
    <3>4. lock = p /\ lock' = p
      BY <2>1, <3>2, <3>3, RequestInCall
    <3>5. Request' = Request
      <4>1. CASE c.kind = "load"
        BY <2>1, <3>2, <3>3, <4>1, RequestInCall
      <4>2. CASE c.kind = "append"
        <5>1. call[p].pc \in InTail \cup {"Write"} /\ c.pc \in InTail \cup {"Write"}
          BY <2>1, <3>2 DEF InTail
        <5>2. call[p].pc # "Out" /\ UNCHANGED locking
          BY <2>1
        <5>3. Request = Store!Adding(call[p].record)
          BY <3>2, <3>3, <4>2, <5>1, <5>2, RequestInCall
        <5>4. Request' = Store!Adding(c.record)
          BY <3>2, <3>3, <4>2, <5>1, <5>2, RequestInCall
        <5> QED BY <3>2, <5>3, <5>4
      <4> QED BY <3>2, <4>1, <4>2 DEF CallRecords, Calls
    <3>6. UNCHANGED Store!vars
      BY <2>2, <3>3, <3>4, <3>5 DEF Store!vars
    <3> QED BY <3>6
  <2> QED BY <2>3, <2>4
<1>3. ASSUME Truncate(p) PROVE UNCHANGED Store!vars
  <2> DEFINE c == [call[p] EXCEPT !.pc = "SyncTruncation"]
  <2>1. /\ call[p].pc = "Truncate" /\ UNCHANGED <<locking, answers>>
        /\ file' = SubSeq(file, 1, Len(call[p].seen) * FrameParts)
        /\ call' = [call EXCEPT ![p] = c]
    BY <1>3 DEF Truncate, Goto
  <2>2. /\ call[p] \in CallRecords /\ CallFits(p) /\ file \in Seq(Parts)
        /\ Len(Parsed(file)) = GoodFrames(file)
    BY <2>1, InCall
  <2>3. call[p].seen = Parsed(file)
    BY <2>1, <2>2 DEF CallFits
  <2>4. Parsed(file)' = Parsed(file)
    <3>1. file' = SubSeq(file, 1, Off(GoodFrames(file)))
      BY <2>1, <2>2, <2>3 DEF Off
    <3> QED BY <2>2, <3>1, TruncationKeeps
  <2>5. /\ c \in CallRecords /\ c.pc = "SyncTruncation"
        /\ c.kind = call[p].kind /\ c.record = call[p].record
    BY <2>2 DEF CallRecords
  <2> HIDE DEF c
  <2>6. lock = p /\ lock' = p
    BY <2>1, <2>5, RequestInCall
  <2>7. Request' = Request
    <3>1. CASE c.kind = "load"
      BY <2>1, <2>5, <3>1, RequestInCall
    <3>2. CASE c.kind = "append"
      <4>1. call[p].pc \in InTail \cup {"Write"} /\ c.pc \in InTail \cup {"Write"}
        BY <2>1, <2>5 DEF InTail
      <4>2. call[p].pc # "Out" /\ UNCHANGED locking
        BY <2>1
      <4>3. Request = Store!Adding(call[p].record)
        BY <2>1, <2>5, <3>2, <4>1, <4>2, RequestInCall
      <4>4. Request' = Store!Adding(c.record)
        BY <2>1, <2>5, <3>2, <4>1, <4>2, RequestInCall
      <4> QED BY <2>5, <4>3, <4>4
    <3> QED BY <2>5, <3>1, <3>2 DEF CallRecords, Calls
  <2> QED BY <2>1, <2>4, <2>6, <2>7 DEF Store!vars, answers
<1>4. ASSUME SyncTruncation(p) PROVE [Store!Next]_Store!vars
  <2>1. /\ call[p].pc = "SyncTruncation" /\ call[p].pc \in InTail
        /\ UNCHANGED <<file, locking, acked>> /\ Healed(p, call[p].seen, FALSE)
    BY <1>4 DEF SyncTruncation, InTail
  <2>2. call[p].seen = Parsed(file) /\ Parsed(file) \in Seq(Records)
    BY <2>1, InCall DEF CallFits
  <2>3. Healed(p, Parsed(file), FALSE) /\ file' = file /\ acked' = acked
    BY <2>1, <2>2
  <2> QED BY <2>1, <2>2, <2>3, HealedRefines
<1>5. ASSUME Fail(p) PROVE Store!Leave
  <2> DEFINE c == [NoCall EXCEPT !.pc = "Held"]
  <2>1. /\ call[p].pc # "Out" /\ UNCHANGED <<storage, locking, answers>>
        /\ call' = [call EXCEPT ![p] = c]
    BY <1>5 DEF Fail, Return
  <2>2. c \in CallRecords /\ c.pc = "Held"
    BY NoCallTyped DEF NoCall
  <2> HIDE DEF c
  <2>3. lock = p /\ lock' = p /\ p # Nobody /\ Request' = Store!Idle
    BY <2>1, <2>2, RequestInCall
  <2>4. Parsed(file)' = Parsed(file) /\ acked' = acked /\ loaded' = loaded
    BY <2>1 DEF storage, answers
  <2> QED BY <2>3, <2>4 DEF Store!Leave
<1>6. ASSUME NEW record \in Records, Call(p, "append", record) PROVE Store!Ask
  BY <1>1, <1>6 DEF Calls
<1>7. ASSUME Call(p, "load", Nobody) PROVE Store!Ask
  BY <1>1, <1>7 DEF Calls
<1> QED BY <1>2, <1>3, <1>4, <1>5, <1>6, <1>7 DEF Store!Next

(* Taking the file for absent is nothing to an append, and to a load if    *)
(* there are no events.                                                    *)
LEMMA ReadAbsentRefines ==
  ASSUME StoreInv, NEW p \in Processes, ReadAbsent(p), ~ MisledAnswer
  PROVE  [Store!Next]_Store!vars
<1>1. /\ call[p].pc = "Read" /\ call[p].pc \in InTail
      /\ Healed(p, <<>>, file # <<>>) /\ UNCHANGED <<storage, locking, acked>>
  BY DEF ReadAbsent, InTail
<1>2. call[p].kind = "load" => <<>> = Parsed(file)
  BY DEF MisledAnswer
<1>3. file' = file /\ acked' = acked
  BY <1>1 DEF storage
<1>4. <<>> \in Seq(Records)
  OBVIOUS
<1> DEFINE blind == file # <<>>
<1>5. blind \in BOOLEAN /\ Healed(p, <<>>, blind)
  BY <1>1
<1> HIDE DEF blind
<1> QED BY <1>1, <1>2, <1>3, <1>4, <1>5, HealedRefines

(* The write that ends the file with a whole frame adds its event, the     *)
(* others nothing.                                                         *)
LEMMA WriteRefines ==
  ASSUME StoreInv, NEW p \in Processes, Write(p)
  PROVE  [Store!Next]_Store!vars
<1> DEFINE k0 == call[p].part
           r == call[p].record
           c == [call[p] EXCEPT !.part = @ + 1,
                                !.pc = IF k0 + 1 = FrameParts THEN "SyncAppend" ELSE @]
<1>1. /\ call[p].pc = "Write" /\ UNCHANGED <<locking, answers>>
      /\ file' = Append(file, Frame(r)[k0 + 1]) /\ call' = [call EXCEPT ![p] = c]
  BY DEF Write
<1>2. /\ TypeOK /\ CallFits(p) /\ call[p] \in CallRecords /\ k0 \in Nat
      /\ file \in Seq(Parts)
  BY <1>1, InCall
<1>3. call[p].kind = "append" /\ r \in Records /\ k0 < FrameParts
  BY <1>1, <1>2 DEF CallFits, Appending, WritesBlind
<1>4. k0 + 1 \in 1 .. FrameParts
  BY <1>2, <1>3, FrameAssumption
<1>5. file' = Append(file, [record |-> r, part |-> k0 + 1])
  BY <1>1, <1>4 DEF Frame
<1>6. Request = Store!Adding(r) /\ acked' = acked /\ loaded' = loaded /\ lock = p /\ lock' = p
  BY <1>1, <1>3, NobodyAssumption DEF StoreInv, LeaseHoldsLock, Request, locking, answers, Store!Adding
<1>7. /\ call'[p].kind = "append" /\ call'[p].record = r
      /\ call'[p].pc = IF k0 + 1 = FrameParts THEN "SyncAppend" ELSE "Write"
  BY <1>1, <1>2, <1>3 DEF TypeOK
<1> HIDE DEF c
<1> DEFINE whole == Len(file') = Off(GoodFrames(file'))
<1>8. \/ Parsed(file') = Parsed(file) /\ ~ whole
      \/ k0 + 1 = FrameParts /\ Parsed(file') = Append(Parsed(file), r) /\ whole
  BY <1>2, <1>3, <1>4, <1>5, PartAnywhere
<1>9. whole <=> GoodFrames(file') * FrameParts = Len(file')
  BY DEF Off
<1> HIDE DEF whole
<1>10. CASE k0 + 1 = FrameParts /\ Parsed(file') = Append(Parsed(file), r) /\ whole
  <2>1. Request' = Store!Added(r)
    BY <1>6, <1>7, <1>9, <1>10, NobodyAssumption DEF Request, Store!Added
  <2>2. Store!Add
    BY <1>6, <1>10, <2>1 DEF Store!Add, Store!Adding
  <2> QED BY <2>2 DEF Store!Next
<1>11. CASE Parsed(file') = Parsed(file) /\ ~ whole
  <2>1. Request' = Store!Adding(r)
    BY <1>6, <1>7, <1>9, <1>11, NobodyAssumption DEF Request, Store!Adding
  <2>2. UNCHANGED Store!vars
    BY <1>6, <1>11, <2>1 DEF Store!vars
  <2> QED BY <2>2
<1> QED BY <1>8, <1>10, <1>11

(* The answer of an append that read the file confirms its last event.     *)
LEMMA SyncAppendRefines ==
  ASSUME StoreInv, NEW p \in Processes, SyncAppend(p), ~ call[p].blind
  PROVE  Store!Confirm
<1> DEFINE c == [NoCall EXCEPT !.pc = "Held"]
<1>1. /\ call[p].pc = "SyncAppend" /\ UNCHANGED <<file, locking, loaded>>
      /\ acked' = Append(acked, [record |-> call[p].record, position |-> Len(call[p].seen)])
      /\ call' = [call EXCEPT ![p] = c]
  BY DEF SyncAppend, Acknowledge, Return
<1>2. c \in CallRecords /\ c.pc = "Held"
  BY NoCallTyped DEF NoCall
<1> HIDE DEF c
<1>3. CallFits(p) /\ call[p].seen \in Seq(Records)
  BY <1>1, InCall
<1>4. /\ call[p].kind = "append" /\ call[p].record \in Records
      /\ Parsed(file) = Append(call[p].seen, call[p].record)
      /\ Len(file) = (Len(call[p].seen) + 1) * FrameParts
      /\ GoodFrames(file) = Len(Parsed(file))
  BY <1>1, <1>3, InCall DEF CallFits
<1>5. Len(Parsed(file)) - 1 = Len(call[p].seen)
  BY <1>3, <1>4, AppendProperties, LenProperties
<1>8. GoodFrames(file) * FrameParts = Len(file)
  BY <1>3, <1>4, AppendProperties, LenProperties
<1>6. lock = p /\ lock' = p /\ Request = Store!Added(call[p].record) /\ Request' = Store!Idle
  BY <1>1, <1>2, <1>4, <1>8, RequestInCall
<1>7. Parsed(file)' = Parsed(file)
  BY <1>1
<1> QED BY <1>1, <1>5, <1>6, <1>7 DEF Store!Confirm, Store!Added

(* But for power losses and misled answers, every step is one of the       *)
(* store, or none.                                                         *)
LEMMA StepRefines ==
  ASSUME StoreInv, [Next]_vars, outages' = outages, ~ MisledAnswer
  PROVE  [Store!Next]_Store!vars
<1>1. ASSUME NEW p \in Processes, Lease(p) \/ FailUnlock(p) \/ Kill(p)
      PROVE  [Store!Next]_Store!vars
  BY <1>1, LeaseRefines DEF Lease
<1>2. CASE Exec
  BY <1>2, LeaseRefines
<1>3. ASSUME NEW p \in Processes, Operate(p) \/ Fail(p)
      PROVE  [Store!Next]_Store!vars
  <2>1. CASE SyncAppend(p)
    <3>1. ~ call[p].blind
      BY <2>1 DEF MisledAnswer
    <3> QED BY <2>1, <3>1, SyncAppendRefines DEF Store!Next
  <2> QED BY <1>3, <2>1, ReadingRefines, WriteRefines DEF Operate
<1>6. ASSUME NEW p \in Processes, ReadAbsent(p) PROVE [Store!Next]_Store!vars
  BY <1>6, ReadAbsentRefines
<1>4. ~ PowerLoss
  <2>1. outages \in Nat
    BY DEF StoreInv, TypeOK
  <2> QED BY <2>1 DEF PowerLoss
<1>5. CASE UNCHANGED vars
  <2>1. file' = file /\ lock' = lock /\ call' = call /\ acked' = acked /\ loaded' = loaded
    BY <1>5 DEF vars, storage, locking, answers
  <2>2. Request' = Request /\ Parsed(file)' = Parsed(file)
    BY <2>1 DEF Request
  <2> QED BY <2>1, <2>2 DEF Store!vars
<1> QED BY <1>1, <1>2, <1>3, <1>4, <1>5, <1>6 DEF Next, Faulty

(* The file, its lock and the calls upon them are the store the engine     *)
(* relies on, whatever fails and whoever is killed, but for power losses   *)
(* and for the answers of calls that took a file with contents for absent. *)
THEOREM Refinement == Spec => ImplementsStore
<1>1. Init => Store!Init
  BY InitRefines
<1>2. StoreInv /\ [Next]_vars =>
        [outages' = outages /\ ~ MisledAnswer => [Store!Next]_Store!vars]_vars
  BY StepRefines
<1> QED BY <1>1, <1>2, StoreInvariance, PTL DEF Spec, ImplementsStore
=============================================================================
