------------------------- MODULE SourceReaderProofs -------------------------
(***************************************************************************)
(* The reading loop on any file, from any offset, for any limits: its      *)
(* ranges are the ones SourceRanges states in closed form, they leave no   *)
(* complete record behind, and they only grow with the file.               *)
(*                                                                         *)
(* While it reads, what is buffered is itself a range that could be        *)
(* yielded, and only the line that follows can show that no longer range   *)
(* could (BufferIsRange).                                                  *)
(***************************************************************************)
EXTENDS SourceReader, SourceRangesProofs

(* What the loop yields. *)
Event == [start : Nat, end : Nat, kind : {"range", "oversized"}]

(* An event is what NextEnd says of the place where it begins. *)
IsNextEvent(e) ==
  /\ HasRange(content, e.start)
  /\ e.end = NextEnd(content, e.start)
  /\ (e.kind = "oversized") = FirstIsOversized(content, e.start)

(* What is buffered is a range that may end here. *)
BufferIsRange ==
  buffered > 0 =>
    /\ tell \in RangeEnds(content, bufferedStart)
    /\ ~FirstIsOversized(content, bufferedStart)

(* Events that follow on each other. *)
Tiles(es) ==
  \A i \in 1 .. Len(es) :
    /\ IsNextEvent(es[i])
    /\ i > 1 => es[i].start = es[i - 1].end

(* The last event, if there is one, ends at this offset. *)
EndsAt(es, end) == es # <<>> => es[Len(es)].end = end

(* The buffer continues the last event. *)
BufferContinues ==
  /\ tell = bufferedStart + buffered
  /\ EndsAt(events, bufferedStart)

(* The inductive invariant: what was yielded tiles the records read so far,
   and what is buffered continues it.                                        *)
IInv ==
  /\ content \in Seq(Byte)
  /\ tell \in Nat /\ tell <= Len(content)
  /\ bufferedStart \in Nat /\ bufferedStart <= Len(content)
  /\ buffered \in Nat /\ buffered <= Len(content)
  /\ events \in Seq(Event)
  /\ reading \in BOOLEAN
  /\ Tiles(events)
  /\ reading => BufferContinues /\ BufferIsRange
  /\ NothingLeftBehind
-----------------------------------------------------------------------------
(* A file is a sequence of bytes. *)
LEMMA ContentIsSequence ==
  ASSUME NEW c \in Contents
  PROVE  c \in Seq(Byte) /\ Len(c) \in Nat
BY DEF Contents

(* The first record behind an offset is the first behind any record end      *)
(* before it, when no record lies between.                                   *)
LEMMA NoRecordBetween ==
  ASSUME NEW f \in Seq(Byte), NEW start \in Nat, NEW mid \in Nat, start <= mid,
         NEW e \in RecordEnds(f, start), mid < e
  PROVE  e \in RecordEnds(f, mid) /\ HasRange(f, mid) /\ FirstRecordEnd(f, mid) <= e
<1>1. e \in RecordEnds(f, mid)
  BY LenProperties DEF RecordEnds
<1> QED
  BY <1>1, FirstRecordEndExists DEF HasRange

(* A range ends where the record behind it would not fit any more.           *)
LEMMA RangeIsFull ==
  ASSUME NEW f \in Seq(Byte), NEW start \in Nat, NEW end \in RangeEnds(f, start),
         ~FirstIsOversized(f, start),
         \/ ~HasRange(f, end)
         \/ FirstRecordEnd(f, end) - end > MaxRecordBytes
         \/ FirstRecordEnd(f, end) - start > ChunkTargetBytes
  PROVE  HasRange(f, start) /\ NextEnd(f, start) = end
<1>1. /\ end \in RecordEnds(f, start) /\ end \in Nat /\ start < end
      /\ HasRange(f, start)
  BY RecordEndsBounds DEF RangeEnds, HasRange
<1>2. /\ NextEnd(f, start) \in RangeEnds(f, start)
      /\ \A e \in RangeEnds(f, start) : e <= NextEnd(f, start)
  BY <1>1, NextEndIsRangeEnd
<1> DEFINE e == NextEnd(f, start)
           r == FirstRecordEnd(f, end)
<1> HIDE DEF e
<1>3. e \in RangeEnds(f, start) /\ end <= e /\ e \in RecordEnds(f, start) /\ e \in Nat
  <2>1. e \in RangeEnds(f, start) /\ end <= e
    BY <1>2 DEF e
  <2> QED
    BY <2>1, RecordEndsBounds DEF RangeEnds
<1>4. ASSUME end < e PROVE FALSE
  <2>1. e \in RecordEnds(f, end) /\ HasRange(f, end) /\ r <= e
    BY <1>1, <1>3, <1>4, NoRecordBetween
  <2>2. r \in RecordEnds(f, end) /\ r \in Nat /\ end < r
        /\ \A x \in RecordEnds(f, end) : r <= x
    BY <1>1, <2>1, FirstRecordEndExists, RecordEndsBounds
  <2> HIDE DEF r
  <2>3. r \in RecordEnds(f, start)
    <3>1. r \in (end + 1) .. Len(f) /\ f[r] = Newline /\ Len(f) \in Nat
      BY <2>2, LenProperties DEF RecordEnds
    <3> QED
      BY <3>1, <1>1 DEF RecordEnds
  <2>4. CASE r - end > MaxRecordBytes
    <3>1. RecordFits(f, start, r)
      BY <1>3, <2>1, <2>3 DEF RangeEnds
    <3>2. PICK b \in {start} \cup RecordEnds(f, start) : b < r /\ r - b <= MaxRecordBytes
      BY <3>1 DEF RecordFits
    <3>3. b \in Nat
      BY <3>2, RecordEndsBounds
    <3>4. b <= end
      <4>1. CASE b = start
        BY <1>1, <4>1
      <4>2. CASE b \in RecordEnds(f, start)
        <5>1. ASSUME end < b PROVE FALSE
          <6>1. b \in RecordEnds(f, end)
            BY <1>1, <3>3, <4>2, <5>1, NoRecordBetween
          <6> QED
            BY <2>2, <3>2, <3>3, <6>1
        <5> QED
          BY <1>1, <3>3, <5>1
      <4> QED
        BY <3>2, <4>1, <4>2
    <3> QED
      BY <1>1, <2>2, <2>4, <3>2, <3>3, <3>4, LimitsArePositive
  <2>5. CASE r - start > ChunkTargetBytes
    <3>1. FirstRecordEnd(f, start) <= end /\ FirstRecordEnd(f, start) \in Nat
      BY <1>1, FirstRecordEndExists, RecordEndsBounds
    <3>2. e # FirstRecordEnd(f, start)
      BY <1>1, <1>3, <1>4, <3>1
    <3>3. e - start <= ChunkTargetBytes
      BY <1>3, <3>2 DEF RangeEnds
    <3> QED
      BY <1>3, <2>1, <2>2, <2>5, <3>3, LimitsArePositive
  <2> QED
    BY <2>1, <2>4, <2>5 DEF r
<1>5. e = end
  BY <1>1, <1>3, <1>4
<1> QED
  BY <1>1, <1>5 DEF e

(* A range can be continued by the next record if that fits.                 *)
LEMMA RangeContinues ==
  ASSUME NEW f \in Seq(Byte), NEW start \in Nat, NEW end \in RangeEnds(f, start),
         HasRange(f, end), FirstRecordEnd(f, end) - end <= MaxRecordBytes,
         FirstRecordEnd(f, end) - start <= ChunkTargetBytes
  PROVE  FirstRecordEnd(f, end) \in RangeEnds(f, start)
<1> DEFINE r == FirstRecordEnd(f, end)
<1>1. end \in RecordEnds(f, start) /\ end \in Nat /\ start < end
  BY RecordEndsBounds DEF RangeEnds
<1>2. r \in RecordEnds(f, end) /\ r \in Nat /\ end < r
      /\ \A x \in RecordEnds(f, end) : r <= x
  BY <1>1, FirstRecordEndExists, RecordEndsBounds
<1> HIDE DEF r
<1>3. r \in RecordEnds(f, start)
  <2>1. r \in (end + 1) .. Len(f) /\ f[r] = Newline /\ Len(f) \in Nat
    BY <1>2, LenProperties DEF RecordEnds
  <2> QED
    BY <2>1, <1>1 DEF RecordEnds
<1>4. ASSUME NEW x \in RecordEnds(f, start), x <= r PROVE RecordFits(f, start, x)
  <2>1. x \in Nat
    BY RecordEndsBounds
  <2>2. CASE x <= end
    BY <2>2 DEF RangeEnds
  <2>3. CASE end < x
    <3>1. x \in RecordEnds(f, end)
      BY <1>1, <2>1, <2>3, NoRecordBetween
    <3>2. x = r
      BY <1>2, <1>4, <2>1, <3>1
    <3>3. end < r /\ r - end <= MaxRecordBytes
      BY <1>2 DEF r
    <3> QED
      BY <1>1, <3>2, <3>3 DEF RecordFits
  <2> QED
    BY <1>1, <2>1, <2>2, <2>3
<1>5. r - start <= ChunkTargetBytes
  BY DEF r
<1>6. r \in RangeEnds(f, start)
  BY <1>3, <1>4, <1>5 DEF RangeEnds
<1> QED
  BY <1>6 DEF r

(* A record within the limit is a range of its own. *)
LEMMA RangeOfOne ==
  ASSUME NEW f \in Seq(Byte), NEW start \in Nat, HasRange(f, start),
         FirstRecordEnd(f, start) - start <= MaxRecordBytes
  PROVE  FirstRecordEnd(f, start) \in RangeEnds(f, start) /\ ~FirstIsOversized(f, start)
<1> DEFINE r == FirstRecordEnd(f, start)
<1>1. r \in RecordEnds(f, start) /\ r \in Nat /\ start < r
      /\ \A x \in RecordEnds(f, start) : r <= x
  BY FirstRecordEndExists, RecordEndsBounds
<1>2. r - start <= MaxRecordBytes
  OBVIOUS
<1> HIDE DEF r
<1>3. ASSUME NEW x \in RecordEnds(f, start), x <= r PROVE RecordFits(f, start, x)
  <2>1. x \in Nat
    BY RecordEndsBounds
  <2>2. x = r
    BY <1>1, <1>3, <2>1
  <2> QED
    BY <1>1, <1>2, <2>2 DEF RecordFits
<1>4. r \in RangeEnds(f, start)
  BY <1>1, <1>3 DEF RangeEnds, r
<1>5. ~(r - start > MaxRecordBytes)
  BY <1>1, <1>2, LimitsArePositive
<1> QED
  BY <1>4, <1>5 DEF r, FirstIsOversized
-----------------------------------------------------------------------------
(* One more event where the last one ended. *)
LEMMA AppendTiles ==
  ASSUME NEW es \in Seq(Event), Tiles(es), NEW e \in Event, EndsAt(es, e.start), IsNextEvent(e)
  PROVE  /\ Append(es, e) \in Seq(Event) /\ Tiles(Append(es, e))
         /\ EndsAt(Append(es, e), e.end) /\ Append(es, e) # <<>>
<1> DEFINE new == Append(es, e)
           n == Len(es)
<1>1. /\ new \in Seq(Event) /\ Len(new) = n + 1 /\ n \in Nat
      /\ new[n + 1] = e /\ \A i \in 1 .. n : new[i] = es[i]
  BY AppendProperties, LenProperties
<1> HIDE DEF new
<1>2. EndsAt(new, e.end) /\ new # <<>>
  BY <1>1, EmptySeq DEF EndsAt
<1>3. n > 0 => es[n].end = e.start
  BY EmptySeq DEF EndsAt
<1>4. ASSUME NEW i \in 1 .. n + 1
      PROVE  IsNextEvent(new[i]) /\ (i > 1 => new[i].start = new[i - 1].end)
  <2>1. CASE i = n + 1
    <3>1. i > 1 => i - 1 = n /\ n \in 1 .. n
      BY <1>1, <2>1
    <3>2. new[i] = e
      BY <1>1, <2>1
    <3> QED
      BY <1>1, <1>3, <3>1, <3>2
  <2>2. CASE i \in 1 .. n
    <3>1. i > 1 => i - 1 \in 1 .. n
      BY <1>1, <2>2
    <3>2. new[i] = es[i] /\ (i > 1 => new[i - 1] = es[i - 1])
      BY <1>1, <2>2, <3>1
    <3>3. IsNextEvent(es[i]) /\ (i > 1 => es[i].start = es[i - 1].end)
      BY <2>2 DEF Tiles
    <3> QED
      BY <3>2, <3>3
  <2> QED
    BY <1>1, <2>1, <2>2
<1>5. Tiles(new)
  BY <1>1, <1>4 DEF Tiles
<1> QED
  BY <1>1, <1>2, <1>5 DEF new

(* The buffer is yielded when no longer range could be. *)
LEMMA FlushTiles ==
  ASSUME IInv, reading,
         \/ buffered = 0
         \/ ~HasRange(content, tell)
         \/ LineLength > MaxRecordBytes
         \/ buffered + LineLength > ChunkTargetBytes
  PROVE  Flushed \in Seq(Event) /\ Tiles(Flushed) /\ EndsAt(Flushed, tell)
<1>1. /\ content \in Seq(Byte) /\ tell \in Nat /\ bufferedStart \in Nat /\ buffered \in Nat
      /\ events \in Seq(Event) /\ Tiles(events)
      /\ tell = bufferedStart + buffered /\ EndsAt(events, bufferedStart)
      /\ BufferIsRange
  BY DEF IInv, BufferContinues
<1>2. CASE buffered = 0
  BY <1>1, <1>2 DEF Flushed
<1>3. CASE buffered > 0
  <2> DEFINE e == RangeEvent(bufferedStart, tell)
  <2>1. tell \in RangeEnds(content, bufferedStart) /\ ~FirstIsOversized(content, bufferedStart)
    BY <1>1, <1>3 DEF BufferIsRange
  <2>2. ASSUME HasRange(content, tell)
        PROVE  /\ FirstRecordEnd(content, tell) \in Nat
               /\ LineLength = FirstRecordEnd(content, tell) - tell
               /\ buffered + LineLength = FirstRecordEnd(content, tell) - bufferedStart
    <3>1. FirstRecordEnd(content, tell) \in Nat
      BY <1>1, <2>2, FirstRecordEndExists, RecordEndsBounds
    <3> QED
      BY <1>1, <3>1 DEF LineLength
  <2>3. \/ ~HasRange(content, tell)
        \/ FirstRecordEnd(content, tell) - tell > MaxRecordBytes
        \/ FirstRecordEnd(content, tell) - bufferedStart > ChunkTargetBytes
    BY <1>3, <2>2
  <2>4. HasRange(content, bufferedStart) /\ NextEnd(content, bufferedStart) = tell
    BY <1>1, <2>1, <2>3, RangeIsFull
  <2>5. e \in Event /\ e.start = bufferedStart /\ e.end = tell /\ e.kind = "range"
    BY <1>1 DEF Event, RangeEvent
  <2>6. IsNextEvent(e)
    <3> HIDE DEF e
    <3>1. HasRange(content, e.start) /\ e.end = NextEnd(content, e.start)
      BY <2>4, <2>5
    <3>2. e.kind # "oversized" /\ ~FirstIsOversized(content, e.start)
      BY <2>1, <2>5
    <3>3. (e.kind = "oversized") = FirstIsOversized(content, e.start)
      BY <3>2 DEF FirstIsOversized
    <3> QED
      BY <3>1, <3>3 DEF IsNextEvent
  <2>7. Flushed = Append(events, e)
    BY <1>1, <1>3 DEF Flushed
  <2> HIDE DEF e
  <2>8. EndsAt(events, e.start)
    BY <1>1, <2>5
  <2> QED
    BY <1>1, <2>5, <2>6, <2>7, <2>8, AppendTiles
<1> QED
  BY <1>1, <1>2, <1>3

(* The line behind tell, if there is a complete one. *)
LEMMA NextLine ==
  ASSUME IInv, HasRange(content, tell)
  PROVE  /\ tell + LineLength = FirstRecordEnd(content, tell)
         /\ LineLength \in Nat /\ LineLength > 0
         /\ tell + LineLength \in Nat /\ tell + LineLength <= Len(content)
<1>1. content \in Seq(Byte) /\ tell \in Nat
  BY DEF IInv
<1>2. /\ FirstRecordEnd(content, tell) \in Nat /\ tell < FirstRecordEnd(content, tell)
      /\ FirstRecordEnd(content, tell) <= Len(content)
  BY <1>1, FirstRecordEndExists, RecordEndsBounds
<1> QED
  BY <1>1, <1>2 DEF LineLength

(* A line over the limit ends the buffered range and is one of its own. *)
LEMMA ReadOversizedLineKeeps ==
  ASSUME IInv, ReadOversizedLine
  PROVE  IInv'
<1> DEFINE end == tell + LineLength
           e == OversizedEvent(tell, end)
<1>1. /\ content \in Seq(Byte) /\ tell \in Nat /\ Len(content) \in Nat /\ reading
      /\ HasRange(content, tell) /\ LineLength > MaxRecordBytes
  BY LenProperties DEF IInv, ReadOversizedLine
<1>2. /\ end = FirstRecordEnd(content, tell) /\ LineLength \in Nat
      /\ end \in Nat /\ end <= Len(content)
  BY <1>1, NextLine
<1>3. Flushed \in Seq(Event) /\ Tiles(Flushed) /\ EndsAt(Flushed, tell)
  BY <1>1, FlushTiles
<1>4. /\ events' = Append(Flushed, e) /\ tell' = end /\ bufferedStart' = end
      /\ buffered' = 0 /\ content' = content /\ reading' = reading
  BY DEF ReadOversizedLine
<1>5. FirstIsOversized(content, tell)
  BY <1>1 DEF LineLength, FirstIsOversized
<1> HIDE DEF end
<1>6. e \in Event /\ e.start = tell /\ e.end = end /\ e.kind = "oversized"
  BY <1>1, <1>2 DEF Event, OversizedEvent
<1>7. IsNextEvent(e)
  BY <1>1, <1>2, <1>5, <1>6 DEF IsNextEvent, NextEnd
<1> HIDE DEF e
<1>8. events' \in Seq(Event) /\ Tiles(events') /\ EndsAt(events', end)
  BY <1>3, <1>4, <1>6, <1>7, AppendTiles
<1>9. Tiles(events)'
  BY <1>4, <1>8 DEF Tiles, IsNextEvent
<1>10. BufferContinues' /\ BufferIsRange' /\ NothingLeftBehind'
  BY <1>1, <1>2, <1>4, <1>8 DEF BufferContinues, BufferIsRange, NothingLeftBehind, EndsAt
<1> QED
  BY <1>1, <1>2, <1>4, <1>8, <1>9, <1>10 DEF IInv

(* A line joins the buffered range, or begins the next one. *)
LEMMA ReadLineKeeps ==
  ASSUME IInv, ReadLine
  PROVE  IInv'
<1> DEFINE end == tell + LineLength
<1>1. /\ content \in Seq(Byte) /\ tell \in Nat /\ Len(content) \in Nat /\ reading
      /\ bufferedStart \in Nat /\ buffered \in Nat
      /\ events \in Seq(Event) /\ Tiles(events)
      /\ tell = bufferedStart + buffered /\ EndsAt(events, bufferedStart) /\ BufferIsRange
      /\ HasRange(content, tell) /\ LineLength <= MaxRecordBytes
      /\ tell <= Len(content)
  BY LenProperties DEF IInv, ReadLine, BufferContinues
<1>2. /\ end = FirstRecordEnd(content, tell) /\ LineLength \in Nat /\ LineLength > 0
      /\ end \in Nat /\ end <= Len(content)
  BY <1>1, NextLine
<1>3. tell' = end /\ content' = content /\ reading' = reading
  BY DEF ReadLine
<1>4. FirstRecordEnd(content, tell) - tell <= MaxRecordBytes
  BY <1>1 DEF LineLength
<1>5. end \in RangeEnds(content, tell) /\ ~FirstIsOversized(content, tell)
  BY <1>1, <1>2, <1>4, RangeOfOne
<1>6. NothingLeftBehind'
  BY <1>1, <1>3 DEF NothingLeftBehind
<1> HIDE DEF end
<1>7. CASE buffered > 0 /\ buffered + LineLength > ChunkTargetBytes
  <2>1. events' = Flushed /\ bufferedStart' = tell /\ buffered' = LineLength
    BY <1>7 DEF ReadLine
  <2>2. Flushed \in Seq(Event) /\ Tiles(Flushed) /\ EndsAt(Flushed, tell)
    BY <1>1, <1>7, FlushTiles
  <2>3. Tiles(events)'
    BY <1>3, <2>1, <2>2 DEF Tiles, IsNextEvent
  <2>4. BufferContinues'
    BY <1>3, <2>1, <2>2 DEF BufferContinues, EndsAt, end
  <2>5. BufferIsRange'
    BY <1>3, <1>5, <2>1 DEF BufferIsRange
  <2>6. buffered' \in Nat /\ buffered' <= Len(content)
    BY <1>1, <1>2, <2>1 DEF end
  <2> QED
    BY <1>1, <1>2, <1>3, <1>6, <2>1, <2>2, <2>3, <2>4, <2>5, <2>6 DEF IInv
<1>8. CASE ~(buffered > 0 /\ buffered + LineLength > ChunkTargetBytes)
  <2>1. events' = events /\ bufferedStart' = bufferedStart /\ buffered' = buffered + LineLength
    BY <1>8 DEF ReadLine
  <2>2. Tiles(events)'
    BY <1>1, <1>3, <2>1 DEF Tiles, IsNextEvent
  <2>3. BufferContinues'
    BY <1>1, <1>2, <1>3, <2>1 DEF BufferContinues, EndsAt, end
  <2>4. BufferIsRange'
    <3>1. CASE buffered = 0
      BY <1>1, <1>3, <1>5, <2>1, <3>1 DEF BufferIsRange
    <3>2. CASE buffered > 0
      <4>1. tell \in RangeEnds(content, bufferedStart) /\ ~FirstIsOversized(content, bufferedStart)
        BY <1>1, <3>2 DEF BufferIsRange
      <4>2. FirstRecordEnd(content, tell) - bufferedStart <= ChunkTargetBytes
        BY <1>1, <1>2, <1>8, <3>2, LimitsArePositive DEF end
      <4>3. end \in RangeEnds(content, bufferedStart)
        BY <1>1, <1>2, <1>4, <4>1, <4>2, RangeContinues
      <4> QED
        BY <1>3, <2>1, <4>1, <4>3 DEF BufferIsRange
    <3> QED
      BY <1>1, <3>1, <3>2
  <2>5. buffered' \in Nat /\ buffered' <= Len(content)
    BY <1>1, <1>2, <2>1 DEF end
  <2>6. bufferedStart <= Len(content)
    BY DEF IInv
  <2> QED
    BY <1>1, <1>2, <1>3, <1>6, <2>1, <2>2, <2>3, <2>4, <2>5, <2>6 DEF IInv
<1> QED
  BY <1>7, <1>8

(* The end of the file ends the buffered range. *)
LEMMA StopReadingKeeps ==
  ASSUME IInv, StopReading
  PROVE  IInv'
<1>1. /\ content \in Seq(Byte) /\ tell \in Nat /\ Len(content) \in Nat /\ reading
      /\ tell <= Len(content) /\ bufferedStart \in Nat /\ bufferedStart <= Len(content)
      /\ tell = bufferedStart + buffered /\ buffered \in Nat
      /\ ~HasRange(content, tell)
  BY LenProperties DEF IInv, StopReading, BufferContinues
<1>2. Flushed \in Seq(Event) /\ Tiles(Flushed) /\ EndsAt(Flushed, tell)
  BY <1>1, FlushTiles
<1>3. /\ events' = Flushed /\ buffered' = 0 /\ reading' = FALSE
      /\ content' = content /\ tell' = tell /\ bufferedStart' = bufferedStart
  BY DEF StopReading
<1>4. Tiles(events)'
  BY <1>2, <1>3 DEF Tiles, IsNextEvent
<1>5. NothingLeftBehind'
  <2>1. CASE Flushed = <<>>
    <3>1. buffered = 0
      <4>1. buffered # 0 => Flushed = Append(events, RangeEvent(bufferedStart, bufferedStart + buffered))
        BY DEF Flushed
      <4>2. RangeEvent(bufferedStart, bufferedStart + buffered) \in Event
        BY <1>1 DEF RangeEvent, Event
      <4>3. events \in Seq(Event)
        BY DEF IInv
      <4> QED
        BY <2>1, <4>1, <4>2, <4>3, AppendProperties, EmptySeq
    <3> QED
      BY <1>1, <1>3, <2>1, <3>1 DEF NothingLeftBehind
  <2>2. CASE Flushed # <<>>
    BY <1>1, <1>2, <1>3, <2>2 DEF NothingLeftBehind, EndsAt
  <2> QED
    BY <2>1, <2>2
<1>6. /\ content' \in Seq(Byte) /\ tell' \in Nat /\ tell' <= Len(content')
      /\ bufferedStart' \in Nat /\ bufferedStart' <= Len(content')
      /\ buffered' \in Nat /\ buffered' <= Len(content')
      /\ events' \in Seq(Event) /\ reading' = FALSE
  BY <1>1, <1>2, <1>3
<1> QED
  BY <1>4, <1>5, <1>6 DEF IInv
-----------------------------------------------------------------------------
(* Any record end is a place to begin from. *)
LEMMA InitIInv == Init => IInv
<1> SUFFICES ASSUME Init PROVE IInv
  OBVIOUS
<1>1. content \in Seq(Byte) /\ Len(content) \in Nat
  BY ContentIsSequence DEF Init
<1>2. tell \in Nat /\ tell <= Len(content)
  <2>1. CASE tell = 0
    BY <1>1, <2>1
  <2>2. CASE tell \in RecordEnds(content, 0)
    BY <1>1, <2>2, RecordEndsBounds
  <2> QED
    BY <2>1, <2>2 DEF Init
<1>3. /\ bufferedStart = tell /\ buffered = 0 /\ events = <<>> /\ reading = TRUE
  BY DEF Init
<1>4. events \in Seq(Event) /\ Len(events) = 0
  BY <1>3, EmptySeq
<1> QED
  BY <1>1, <1>2, <1>3, <1>4
  DEF IInv, Tiles, EndsAt, BufferContinues, BufferIsRange, NothingLeftBehind

(* No step of the loop breaks the invariant. *)
LEMMA NextKeepsIInv == IInv /\ [Next]_vars => IInv'
<1>1. ASSUME IInv, UNCHANGED vars PROVE IInv'
  BY <1>1 DEF IInv, vars, Tiles, IsNextEvent, EndsAt, BufferContinues, BufferIsRange,
     NothingLeftBehind
<1> QED
  BY <1>1, ReadOversizedLineKeeps, ReadLineKeeps, StopReadingKeeps DEF Next

(* The inductive invariant of the reading loop. *)
THEOREM ReaderInvariance == Spec => []IInv
<1> QED
  BY InitIInv, NextKeepsIInv, PTL DEF Spec

(* The ranges the loop yields are the ones the closed form states, one after *)
(* the other (_iter_source_events in traces.py).                             *)
THEOREM LoopYieldsTheRanges == Spec => []RangesTileTheRecords
<1>1. IInv => RangesTileTheRecords
  <2> SUFFICES ASSUME IInv PROVE RangesTileTheRecords
    OBVIOUS
  <2>1. DOMAIN events = 1 .. Len(events)
    BY LenProperties DEF IInv
  <2> QED
    BY <2>1 DEF IInv, Tiles, IsNextEvent, RangesTileTheRecords
<1> QED
  BY <1>1, ReaderInvariance, PTL

(* When the loop is through, no complete record is left behind. *)
THEOREM LoopReadsToTheEnd == Spec => []NothingLeftBehind
<1>1. IInv => NothingLeftBehind
  BY DEF IInv
<1> QED
  BY <1>1, ReaderInvariance, PTL

(* A file that was shorter when it was read has yielded no longer ranges. *)
THEOREM LoopRangesGrow == Spec => []RangesOnlyGrowWithTheFile
<1>1. IInv => RangesOnlyGrowWithTheFile
  <2> SUFFICES ASSUME IInv, NEW i \in DOMAIN events, NEW cut \in 0 .. Len(content),
                      cut > events[i].start,
                      HasRange(SubSeq(content, 1, cut), events[i].start)
               PROVE  NextEnd(SubSeq(content, 1, cut), events[i].start) <= events[i].end
    BY DEF RangesOnlyGrowWithTheFile
  <2> DEFINE start == events[i].start
  <2>1. /\ content \in Seq(Byte) /\ Len(content) \in Nat
        /\ start \in Nat /\ HasRange(content, start) /\ events[i].end = NextEnd(content, start)
    <3>1. i \in 1 .. Len(events) /\ events \in Seq(Event)
      BY LenProperties DEF IInv
    <3>2. events[i] \in Event
      BY <3>1, ElementOfSeq
    <3> QED
      BY <3>1, <3>2, LenProperties DEF IInv, Tiles, IsNextEvent, Event
  <2>2. 0 \in Nat /\ cut \in Nat /\ 0 <= cut /\ cut <= Len(content)
    BY <2>1
  <2>3. Slice(content, 0, cut) \in Seq(Byte) /\ Begins(Slice(content, 0, cut), content)
    <3>1. Slice(content, 0, cut) \in Seq(Byte)
      BY <2>1, <2>2, SliceProperties
    <3>2. Begins(Slice(content, 0, cut), content)
      BY <2>1, <2>2, SlicesBegin
    <3> QED
      BY <3>1, <3>2
  <2>4. Slice(content, 0, cut) = SubSeq(content, 1, cut)
    BY DEF Slice
  <2> HIDE DEF start
  <2>5. HasRange(Slice(content, 0, cut), start)
    BY <2>4 DEF start
  <2>6. NextEnd(Slice(content, 0, cut), start) <= NextEnd(content, start)
    BY <2>1, <2>3, <2>5, NextEndGrows
  <2> QED
    BY <2>1, <2>4, <2>6 DEF start
<1> QED
  BY <1>1, ReaderInvariance, PTL
=============================================================================
