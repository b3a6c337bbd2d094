------------------------- MODULE SourceRangesProofs -------------------------
(***************************************************************************)
(* Lemmas about where upload ranges begin and end, and about the bytes     *)
(* they carry while the transcript grows.                                  *)
(***************************************************************************)
EXTENDS SourceRanges, SequenceTheorems, WellFoundedInduction, TLAPS

(* A nonempty set of naturals has a least element. *)
LEMMA LeastExists ==
  ASSUME NEW S \in SUBSET Nat, S # {}
  PROVE  /\ Least(S) \in S
         /\ \A m \in S : Least(S) <= m
<1>1. PICK x \in S : \A y \in S : ~ (<<y, x>> \in OpToRel(<, Nat))
  BY WFMin, NatLessThanWellFounded
<1>2. \A y \in S : x <= y
  <2>1. SUFFICES ASSUME NEW y \in S, ~ (x <= y) PROVE FALSE
    OBVIOUS
  <2>2. y < x /\ <<y, x>> \in Nat \X Nat
    BY <2>1
  <2>3. <<y, x>> \in OpToRel(<, Nat)
    BY <2>2 DEF OpToRel
  <2>4. QED
    BY <1>1, <2>3
<1>3. QED
  BY <1>2 DEF Least

(* A nonempty set of naturals with an upper bound has a greatest element. *)
LEMMA GreatestExists ==
  ASSUME NEW b \in Nat, NEW S \in SUBSET (0 .. b), S # {}
  PROVE  /\ Greatest(S) \in S
         /\ \A m \in S : m <= Greatest(S)
<1> DEFINE T == {b - m : m \in S}
<1>1. T \in SUBSET Nat /\ T # {}
  <2>1. \A m \in S : m \in Nat /\ b - m \in Nat
    OBVIOUS
  <2>2. QED
    BY <2>1
<1>2. PICK x \in T : \A y \in T : x <= y
  BY <1>1, LeastExists
<1>3. PICK g \in S : x = b - g
  BY <1>2
<1>4. \A m \in S : m <= g
  <2>1. SUFFICES ASSUME NEW m \in S PROVE m <= g
    OBVIOUS
  <2>2. b - g <= b - m
    BY <1>2, <1>3
  <2>3. QED
    BY <2>2
<1>5. QED
  BY <1>4 DEF Greatest

(* A record ends behind the offset and within the file, at a newline. *)
LEMMA RecordEndsBounds ==
  ASSUME NEW f \in Seq(Byte), NEW start \in Nat, NEW e \in RecordEnds(f, start)
  PROVE  e \in Nat /\ start < e /\ e <= Len(f) /\ f[e] = Newline
BY LenProperties DEF RecordEnds

(* If a record is complete there is a first one. *)
LEMMA FirstRecordEndExists ==
  ASSUME NEW f \in Seq(Byte), NEW start \in Nat, HasRange(f, start)
  PROVE  /\ FirstRecordEnd(f, start) \in RecordEnds(f, start)
         /\ \A e \in RecordEnds(f, start) : FirstRecordEnd(f, start) <= e
<1>1. RecordEnds(f, start) \in SUBSET Nat
  BY RecordEndsBounds
<1>2. QED
  BY <1>1, LeastExists DEF HasRange, FirstRecordEnd

(* Unless the first record is too long, the range is the longest one that may
   end where it does.                                                         *)
LEMMA NextEndIsRangeEnd ==
  ASSUME NEW f \in Seq(Byte), NEW start \in Nat, HasRange(f, start),
         ~FirstIsOversized(f, start)
  PROVE  /\ NextEnd(f, start) \in RangeEnds(f, start)
         /\ \A e \in RangeEnds(f, start) : e <= NextEnd(f, start)
<1> DEFINE first == FirstRecordEnd(f, start)
<1>1. /\ first \in RecordEnds(f, start)
      /\ \A e \in RecordEnds(f, start) : first <= e
  BY FirstRecordEndExists
<1>2. first \in Nat /\ start < first
  BY <1>1, RecordEndsBounds
<1>3. first - start <= MaxRecordBytes
  BY <1>2, LimitsArePositive DEF FirstIsOversized
<1>4. RecordFits(f, start, first)
  BY <1>2, <1>3 DEF RecordFits
<1>5. \A r \in RecordEnds(f, start) : r <= first => RecordFits(f, start, r)
  <2>1. SUFFICES ASSUME NEW r \in RecordEnds(f, start), r <= first
                 PROVE  RecordFits(f, start, r)
    OBVIOUS
  <2>2. r = first
    BY <1>1, <1>2, <2>1, RecordEndsBounds
  <2>3. QED
    BY <1>4, <2>2
<1>6. first \in RangeEnds(f, start)
  BY <1>1, <1>5 DEF RangeEnds
<1>7. RangeEnds(f, start) \in SUBSET (0 .. Len(f)) /\ Len(f) \in Nat
  BY RecordEndsBounds, LenProperties DEF RangeEnds
<1>8. /\ Greatest(RangeEnds(f, start)) \in RangeEnds(f, start)
      /\ \A e \in RangeEnds(f, start) : e <= Greatest(RangeEnds(f, start))
  BY <1>6, <1>7, GreatestExists
<1>9. QED
  BY <1>8 DEF NextEnd

(* The reader always makes progress: a range that exists ends at a record
   end, so it is not empty and does not reach beyond the file.             *)
LEMMA NextEndIsRecordEnd ==
  ASSUME NEW f \in Seq(Byte), NEW start \in Nat, HasRange(f, start)
  PROVE  NextEnd(f, start) \in RecordEnds(f, start)
<1>1. CASE FirstIsOversized(f, start)
  BY <1>1, FirstRecordEndExists DEF NextEnd
<1>2. CASE ~FirstIsOversized(f, start)
  BY <1>2, NextEndIsRangeEnd DEF RangeEnds
<1>3. QED
  BY <1>1, <1>2

(* What is cut out of a file has the length of the range. *)
LEMMA SliceProperties ==
  ASSUME NEW f \in Seq(Byte), NEW start \in Nat, NEW end \in Nat,
         start <= end, end <= Len(f)
  PROVE  /\ Slice(f, start, end) \in Seq(Byte)
         /\ Len(Slice(f, start, end)) = end - start
         /\ \A i \in 1 .. end - start : Slice(f, start, end)[i] = f[start + i]
<1>1. \A i \in (start + 1) .. end : f[i] \in Byte
  BY ElementOfSeq, LenProperties
<1>2. /\ SubSeq(f, start + 1, end) \in Seq(Byte)
      /\ Len(SubSeq(f, start + 1, end)) =
           IF start + 1 <= end THEN end - (start + 1) + 1 ELSE 0
      /\ \A i \in 1 .. end - (start + 1) + 1 :
           SubSeq(f, start + 1, end)[i] = f[(start + 1) + i - 1]
  BY <1>1, SubSeqProperties
<1>3. QED
  BY <1>2 DEF Slice
-----------------------------------------------------------------------------
(* Prefixes, slices and ranges of a file while it grows. *)

(* A file that begins with another one has its bytes, and is no shorter. *)
LEMMA BeginsProperties ==
  ASSUME NEW f \in Seq(Byte), NEW g \in Seq(Byte)
  PROVE  Begins(f, g) <=> /\ Len(f) <= Len(g)
                          /\ \A i \in 1 .. Len(f) : g[i] = f[i]
<1>1. Len(f) \in Nat /\ Len(g) \in Nat
  BY LenProperties
<1>2. CASE Len(f) <= Len(g)
  <2>1. \A i \in 1 .. Len(f) : g[i] \in Byte
    BY <1>1, <1>2, ElementOfSeq
  <2>2. /\ SubSeq(g, 1, Len(f)) \in Seq(Byte)
        /\ Len(SubSeq(g, 1, Len(f))) = Len(f)
        /\ \A i \in 1 .. Len(f) : SubSeq(g, 1, Len(f))[i] = g[i]
    <3>1. /\ SubSeq(g, 1, Len(f)) \in Seq(Byte)
          /\ Len(SubSeq(g, 1, Len(f))) = IF 1 <= Len(f) THEN Len(f) - 1 + 1 ELSE 0
          /\ \A i \in 1 .. Len(f) - 1 + 1 : SubSeq(g, 1, Len(f))[i] = g[1 + i - 1]
      BY <1>1, <2>1, SubSeqProperties
    <3>2. QED
      BY <1>1, <3>1
  <2>3. (\A i \in 1 .. Len(f) : g[i] = f[i]) => SubSeq(g, 1, Len(f)) = f
    BY <2>2, SeqEqual
  <2>4. QED
    BY <1>2, <2>2, <2>3 DEF Begins
<1>3. QED
  BY <1>2 DEF Begins

(* Appending to a file leaves its beginning as it was. *)
LEMMA AppendedBegins ==
  ASSUME NEW f \in Seq(Byte), NEW bytes \in Seq(Byte)
  PROVE  Begins(f, f \o bytes)
<1>1. /\ f \o bytes \in Seq(Byte)
      /\ Len(f \o bytes) = Len(f) + Len(bytes)
      /\ \A i \in 1 .. Len(f) + Len(bytes) :
           (f \o bytes)[i] = IF i <= Len(f) THEN f[i] ELSE bytes[i - Len(f)]
  BY ConcatProperties
<1>2. Len(f) \in Nat /\ Len(bytes) \in Nat
  BY LenProperties
<1>3. Len(f) <= Len(f \o bytes) /\ \A i \in 1 .. Len(f) : (f \o bytes)[i] = f[i]
  BY <1>1, <1>2
<1>4. QED
  BY <1>1, <1>3, BeginsProperties

(* Beginning is reflexive and transitive, and nothing begins everything. *)
LEMMA BeginsOrder ==
  ASSUME NEW f \in Seq(Byte), NEW g \in Seq(Byte), NEW h \in Seq(Byte)
  PROVE  /\ Begins(f, f)
         /\ Begins(<<>>, f)
         /\ Begins(f, g) /\ Begins(g, h) => Begins(f, h)
<1>1. Len(f) \in Nat /\ Len(g) \in Nat /\ Len(h) \in Nat
  BY LenProperties
<1>2. Begins(f, f)
  BY <1>1, BeginsProperties
<1>3. Begins(<<>>, f)
  <2>1. <<>> \in Seq(Byte) /\ Len(<<>>) = 0
    BY EmptySeq
  <2>2. SubSeq(f, 1, 0) = <<>>
    BY SubSeqEmpty
  <2>3. QED
    BY <1>1, <2>1, <2>2 DEF Begins
<1>4. ASSUME Begins(f, g), Begins(g, h) PROVE Begins(f, h)
  BY <1>1, <1>4, BeginsProperties
<1>5. QED
  BY <1>2, <1>3, <1>4

(* A slice within the old length is not affected by what is appended. *)
LEMMA SliceStable ==
  ASSUME NEW f \in Seq(Byte), NEW g \in Seq(Byte), Begins(f, g),
         NEW start \in Nat, NEW end \in Nat, start <= end, end <= Len(f)
  PROVE  Slice(g, start, end) = Slice(f, start, end)
<1>1. Len(f) \in Nat /\ Len(g) \in Nat /\ end <= Len(g)
  BY LenProperties, BeginsProperties
<1>2. /\ Slice(f, start, end) \in Seq(Byte) /\ Slice(g, start, end) \in Seq(Byte)
      /\ Len(Slice(f, start, end)) = end - start
      /\ Len(Slice(g, start, end)) = end - start
      /\ \A i \in 1 .. end - start : Slice(f, start, end)[i] = f[start + i]
      /\ \A i \in 1 .. end - start : Slice(g, start, end)[i] = g[start + i]
  BY <1>1, SliceProperties
<1>3. \A i \in 1 .. end - start : g[start + i] = f[start + i]
  BY <1>1, BeginsProperties
<1>4. QED
  BY <1>2, <1>3, SeqEqual

(* Two slices that meet are one slice. *)
LEMMA SlicesJoin ==
  ASSUME NEW f \in Seq(Byte), NEW a \in Nat, NEW b \in Nat, NEW c \in Nat,
         a <= b, b <= c, c <= Len(f)
  PROVE  Slice(f, a, b) \o Slice(f, b, c) = Slice(f, a, c)
<1>1. Len(f) \in Nat /\ b <= Len(f) /\ a <= c
  BY LenProperties
<1>2. /\ Slice(f, a, b) \in Seq(Byte) /\ Len(Slice(f, a, b)) = b - a
      /\ \A i \in 1 .. b - a : Slice(f, a, b)[i] = f[a + i]
  BY <1>1, SliceProperties
<1>3. /\ Slice(f, b, c) \in Seq(Byte) /\ Len(Slice(f, b, c)) = c - b
      /\ \A i \in 1 .. c - b : Slice(f, b, c)[i] = f[b + i]
  BY <1>1, SliceProperties
<1>4. /\ Slice(f, a, c) \in Seq(Byte) /\ Len(Slice(f, a, c)) = c - a
      /\ \A i \in 1 .. c - a : Slice(f, a, c)[i] = f[a + i]
  BY <1>1, SliceProperties
<1> DEFINE x == Slice(f, a, b)
           y == Slice(f, b, c)
           z == Slice(f, a, c)
<1> HIDE DEF x, y, z
<1>5. /\ x \o y \in Seq(Byte)
      /\ Len(x \o y) = Len(x) + Len(y)
      /\ \A i \in 1 .. Len(x) + Len(y) :
           (x \o y)[i] = IF i <= Len(x) THEN x[i] ELSE y[i - Len(x)]
  BY <1>2, <1>3, ConcatProperties DEF x, y
<1>6. Len(x) = b - a /\ Len(y) = c - b /\ Len(z) = c - a
  BY <1>2, <1>3, <1>4 DEF x, y, z
<1>7. Len(x \o y) = Len(z)
  BY <1>5, <1>6
<1>8. ASSUME NEW i \in 1 .. Len(z) PROVE (x \o y)[i] = z[i]
  <2>1. i \in 1 .. Len(x) + Len(y) /\ z[i] = f[a + i]
    BY <1>4, <1>6 DEF z
  <2>2. CASE i <= Len(x)
    <3>1. (x \o y)[i] = x[i] /\ i \in 1 .. b - a
      BY <1>5, <1>6, <2>1, <2>2
    <3>2. QED
      BY <1>2, <2>1, <3>1 DEF x
  <2>3. CASE ~(i <= Len(x))
    <3>1. (x \o y)[i] = y[i - Len(x)]
      BY <1>5, <2>1, <2>3
    <3>2. i - Len(x) \in 1 .. c - b /\ b + (i - Len(x)) = a + i
      BY <1>6, <2>1, <2>3
    <3>3. y[i - Len(x)] = f[a + i]
      BY <1>3, <3>2 DEF y
    <3>4. QED
      BY <2>1, <3>1, <3>3
  <2>4. QED
    BY <2>2, <2>3
<1>9. x \o y = z
  BY <1>4, <1>5, <1>7, <1>8, SeqEqual DEF z
<1>10. QED
  BY <1>9 DEF x, y, z

(* The beginning of a slice is the slice that ends earlier. *)
LEMMA SliceOfSlice ==
  ASSUME NEW f \in Seq(Byte), NEW a \in Nat, NEW b \in Nat, NEW c \in Nat,
         a <= b, b <= c, c <= Len(f)
  PROVE  SubSeq(Slice(f, a, c), 1, b - a) = Slice(f, a, b)
<1>1. Len(f) \in Nat /\ b <= Len(f) /\ a <= c
  BY LenProperties
<1>2. /\ Slice(f, a, b) \in Seq(Byte) /\ Len(Slice(f, a, b)) = b - a
      /\ \A i \in 1 .. b - a : Slice(f, a, b)[i] = f[a + i]
  BY <1>1, SliceProperties
<1>3. /\ Slice(f, a, c) \in Seq(Byte) /\ Len(Slice(f, a, c)) = c - a
      /\ \A i \in 1 .. c - a : Slice(f, a, c)[i] = f[a + i]
  BY <1>1, SliceProperties
<1> DEFINE x == Slice(f, a, b)
           z == Slice(f, a, c)
<1> HIDE DEF x, z
<1>4. Len(x) = b - a /\ Len(z) = c - a /\ Len(x) <= Len(z)
  BY <1>2, <1>3 DEF x, z
<1>5. \A i \in 1 .. Len(x) : z[i] = x[i]
  <2>1. SUFFICES ASSUME NEW i \in 1 .. Len(x) PROVE z[i] = x[i]
    OBVIOUS
  <2>2. i \in 1 .. b - a /\ i \in 1 .. c - a
    BY <1>4
  <2>3. QED
    BY <1>2, <1>3, <2>2 DEF x, z
<1>6. Begins(x, z)
  BY <1>2, <1>3, <1>4, <1>5, BeginsProperties DEF x, z
<1>7. SubSeq(z, 1, b - a) = x
  BY <1>4, <1>6 DEF Begins
<1>8. QED
  BY <1>7 DEF x, z

(* What begins a file is a slice of it. *)
LEMMA BeginsIsSlice ==
  ASSUME NEW f \in Seq(Byte), NEW s \in Seq(Byte), Begins(s, f)
  PROVE  s = Slice(f, 0, Len(s)) /\ Len(s) \in Nat /\ Len(s) <= Len(f)
BY LenProperties DEF Begins, Slice

(* The beginnings of a file begin each other, and the file. *)
LEMMA SlicesBegin ==
  ASSUME NEW f \in Seq(Byte), NEW a \in Nat, NEW b \in Nat, a <= b, b <= Len(f)
  PROVE  /\ Begins(Slice(f, 0, a), Slice(f, 0, b))
         /\ Begins(Slice(f, 0, a), f)
<1>1. Len(f) \in Nat /\ a <= Len(f)
  BY LenProperties
<1>2. Slice(f, 0, a) \in Seq(Byte) /\ Len(Slice(f, 0, a)) = a
  BY <1>1, SliceProperties
<1>3. Slice(f, 0, b) \in Seq(Byte) /\ Len(Slice(f, 0, b)) = b
  BY <1>1, SliceProperties
<1>4. SubSeq(Slice(f, 0, b), 1, a) = Slice(f, 0, a)
  <2>1. SubSeq(Slice(f, 0, b), 1, a - 0) = Slice(f, 0, a)
    BY <1>1, SliceOfSlice
  <2>2. QED
    BY <2>1
<1>5. SubSeq(f, 1, a) = Slice(f, 0, a)
  BY DEF Slice
<1>6. QED
  BY <1>1, <1>2, <1>3, <1>4, <1>5 DEF Begins

(* The record ends of the old file are those of the new one that lie within
   the old length.                                                          *)
LEMMA RecordEndsStable ==
  ASSUME NEW f \in Seq(Byte), NEW g \in Seq(Byte), Begins(f, g), NEW start \in Nat
  PROVE  RecordEnds(f, start) = {e \in RecordEnds(g, start) : e <= Len(f)}
<1>1. Len(f) \in Nat /\ Len(g) \in Nat /\ Len(f) <= Len(g)
  BY LenProperties, BeginsProperties
<1>2. \A i \in 1 .. Len(f) : g[i] = f[i]
  BY BeginsProperties
<1>3. QED
  BY <1>1, <1>2 DEF RecordEnds

(* The first complete record behind an offset stays the first one. *)
LEMMA FirstRecordEndStable ==
  ASSUME NEW f \in Seq(Byte), NEW g \in Seq(Byte), Begins(f, g), NEW start \in Nat,
         HasRange(f, start)
  PROVE  HasRange(g, start) /\ FirstRecordEnd(g, start) = FirstRecordEnd(f, start)
<1> DEFINE old == FirstRecordEnd(f, start)
           new == FirstRecordEnd(g, start)
<1>1. /\ old \in RecordEnds(f, start)
      /\ \A e \in RecordEnds(f, start) : old <= e
  BY FirstRecordEndExists
<1>2. HasRange(g, start)
  BY <1>1, RecordEndsStable DEF HasRange
<1>3. /\ new \in RecordEnds(g, start)
      /\ \A e \in RecordEnds(g, start) : new <= e
  BY <1>2, FirstRecordEndExists
<1> HIDE DEF old, new
<1>4. old \in RecordEnds(g, start)
  BY <1>1, RecordEndsStable
<1>5. /\ old \in Nat /\ new \in Nat /\ new <= old
      /\ old <= Len(f) /\ Len(f) \in Nat
  BY <1>1, <1>3, <1>4, RecordEndsBounds, LenProperties
<1>6. new <= Len(f)
  BY <1>5
<1>7. new \in RecordEnds(f, start)
  BY <1>3, <1>6, RecordEndsStable
<1>8. old <= new
  BY <1>1, <1>7
<1>9. QED
  BY <1>2, <1>5, <1>8 DEF old, new

(* A range is never cut where the file could still grow into it: from the
   same offset, a longer file yields the same range or a longer one.         *)
THEOREM NextEndGrows ==
  ASSUME NEW f \in Seq(Byte), NEW g \in Seq(Byte), Begins(f, g), NEW start \in Nat,
         HasRange(f, start)
  PROVE  NextEnd(f, start) <= NextEnd(g, start)
<1> DEFINE first == FirstRecordEnd(f, start)
<1>1. HasRange(g, start) /\ FirstRecordEnd(g, start) = first
  BY FirstRecordEndStable
<1>2. FirstIsOversized(g, start) <=> FirstIsOversized(f, start)
  BY <1>1 DEF FirstIsOversized
<1>3. NextEnd(f, start) \in RecordEnds(f, start)
  BY NextEndIsRecordEnd
<1>4. NextEnd(f, start) \in Nat
  BY <1>3, RecordEndsBounds
<1>5. CASE FirstIsOversized(f, start)
  BY <1>1, <1>2, <1>4, <1>5 DEF NextEnd
<1>6. CASE ~FirstIsOversized(f, start)
  <2>1. NextEnd(f, start) \in RangeEnds(f, start)
    BY <1>6, NextEndIsRangeEnd
  <2>2. RangeEnds(f, start) \subseteq RangeEnds(g, start)
    <3>1. SUFFICES ASSUME NEW e \in RangeEnds(f, start) PROVE e \in RangeEnds(g, start)
      OBVIOUS
    <3>2. e \in RecordEnds(f, start)
      BY <3>1 DEF RangeEnds
    <3>3. e \in RecordEnds(g, start) /\ e \in Nat /\ e <= Len(f) /\ Len(f) \in Nat
      BY <3>2, RecordEndsStable, RecordEndsBounds, LenProperties
    <3>4. ASSUME NEW r \in RecordEnds(g, start), r <= e PROVE RecordFits(g, start, r)
      <4>1. r \in Nat
        BY RecordEndsBounds
      <4>2. r <= Len(f)
        BY <3>3, <3>4, <4>1
      <4>3. r \in RecordEnds(f, start)
        BY <4>2, RecordEndsStable
      <4>4. RecordFits(f, start, r)
        BY <3>1, <3>4, <4>3 DEF RangeEnds
      <4>5. RecordEnds(f, start) \subseteq RecordEnds(g, start)
        BY RecordEndsStable
      <4>6. QED
        BY <4>4, <4>5 DEF RecordFits
    <3>5. e = FirstRecordEnd(g, start) \/ e - start <= ChunkTargetBytes
      BY <1>1, <3>1 DEF RangeEnds
    <3>6. QED
      BY <3>3, <3>4, <3>5 DEF RangeEnds
  <2>3. NextEnd(f, start) \in RangeEnds(g, start)
    BY <2>1, <2>2
  <2>4. \A e \in RangeEnds(g, start) : e <= NextEnd(g, start)
    BY <1>1, <1>2, <1>6, NextEndIsRangeEnd
  <2>5. QED
    BY <2>3, <2>4
<1>7. QED
  BY <1>5, <1>6

(* A record that is uploaded, or reported, as oversized is a range of its own. *)
LEMMA OversizedIsAlone ==
  ASSUME NEW f \in Seq(Byte), NEW start \in Nat, HasRange(f, start),
         "oversized" \in KindsOf(f, start)
  PROVE  NextEnd(f, start) = FirstRecordEnd(f, start)
<1> DEFINE first == FirstRecordEnd(f, start)
           end == NextEnd(f, start)
<1>1. /\ first \in RecordEnds(f, start)
      /\ \A e \in RecordEnds(f, start) : first <= e
  BY FirstRecordEndExists
<1>2. CASE FirstIsOversized(f, start)
  BY <1>2 DEF NextEnd
<1>3. CASE ~FirstIsOversized(f, start)
  <2>1. first - start > ChunkTargetBytes
    BY <1>3 DEF KindsOf
  <2>2. end \in RangeEnds(f, start)
    BY <1>3, NextEndIsRangeEnd
  <2>3. end \in RecordEnds(f, start) /\ (end = first \/ end - start <= ChunkTargetBytes)
    BY <2>2 DEF RangeEnds
  <2> HIDE DEF first, end
  <2>4. first \in Nat /\ end \in Nat /\ first <= end
    BY <1>1, <2>3, RecordEndsBounds
  <2>5. end = first
    BY <2>1, <2>3, <2>4, LimitsArePositive
  <2>6. QED
    BY <2>5 DEF first, end
<1>4. QED
  BY <1>2, <1>3
=============================================================================
