---------------------------- MODULE SourceReader ----------------------------
(***************************************************************************)
(* The reading loop of _iter_source_events on one snapshot of a            *)
(* transcript, one line per step, and what the ranges it yields must be.   *)
(*                                                                         *)
(* The snapshot and the offset are chosen by Init: every content up to     *)
(* MaxFileBytes bytes, and every offset at which a record can end.         *)
(***************************************************************************)
EXTENDS SourceRanges

CONSTANT MaxFileBytes
ASSUME FileBound == MaxFileBytes \in Nat

VARIABLES
  content,        \* the bytes of the file
  tell,           \* handle.tell()
  bufferedStart,  \* buffered_start
  buffered,       \* Len(buffered_lines)
  events,         \* what was yielded, in order: [start, end, kind]
  reading         \* FALSE once the generator is exhausted

vars == <<content, tell, bufferedStart, buffered, events, reading>>

Contents == UNION {[1 .. n -> Byte] : n \in 0 .. MaxFileBytes}

Init ==
  /\ content \in Contents
  /\ tell \in {0} \cup RecordEnds(content, 0)
  /\ bufferedStart = tell
  /\ buffered = 0
  /\ events = <<>>
  /\ reading = TRUE

RangeEvent(start, end) == [start |-> start, end |-> end, kind |-> "range"]
OversizedEvent(start, end) == [start |-> start, end |-> end, kind |-> "oversized"]

(* "if buffered_lines: yield _range_event(...)" *)
Flushed ==
  IF buffered = 0 THEN events
  ELSE Append(events, RangeEvent(bufferedStart, bufferedStart + buffered))

LineLength == FirstRecordEnd(content, tell) - tell

(* A line longer than MAX_RECORD_BYTES is reported in a range of its own. *)
ReadOversizedLine ==
  /\ reading
  /\ HasRange(content, tell)
  /\ LineLength > MaxRecordBytes
  /\ events' = Append(Flushed, OversizedEvent(tell, tell + LineLength))
  /\ tell' = tell + LineLength
  /\ bufferedStart' = tell + LineLength
  /\ buffered' = 0
  /\ UNCHANGED <<content, reading>>

(* Mistake: the new buffer keeps the place of the old one. *)
ReadLineKeepingStart ==
  /\ reading
  /\ HasRange(content, tell)
  /\ LineLength <= MaxRecordBytes
  /\ IF buffered > 0 /\ buffered + LineLength > ChunkTargetBytes
     THEN events' = Flushed /\ buffered' = LineLength
     ELSE buffered' = buffered + LineLength /\ UNCHANGED events
  /\ tell' = tell + LineLength
  /\ UNCHANGED <<content, bufferedStart, reading>>

(* Mistake: >= where the target is tested. *)
ReadLineCutEarly ==
  /\ reading
  /\ HasRange(content, tell)
  /\ LineLength <= MaxRecordBytes
  /\ IF buffered > 0 /\ buffered + LineLength >= ChunkTargetBytes
     THEN /\ events' = Flushed
          /\ bufferedStart' = tell
          /\ buffered' = LineLength
     ELSE /\ buffered' = buffered + LineLength
          /\ UNCHANGED <<events, bufferedStart>>
  /\ tell' = tell + LineLength
  /\ UNCHANGED <<content, reading>>

(* Any other line joins the buffer, which is first yielded when the line
   would take it over CHUNK_TARGET_BYTES.                                   *)
ReadLine ==
  /\ reading
  /\ HasRange(content, tell)
  /\ LineLength <= MaxRecordBytes
  /\ IF buffered > 0 /\ buffered + LineLength > ChunkTargetBytes
     THEN /\ events' = Flushed
          /\ bufferedStart' = tell
          /\ buffered' = LineLength
     ELSE /\ buffered' = buffered + LineLength
          /\ UNCHANGED <<events, bufferedStart>>
  /\ tell' = tell + LineLength
  /\ UNCHANGED <<content, reading>>

(* Mistake: what is buffered at the end is dropped. *)
StopWithoutFlush ==
  /\ reading
  /\ ~HasRange(content, tell)
  /\ reading' = FALSE
  /\ UNCHANGED <<content, tell, bufferedStart, buffered, events>>

(* The end of the file, or a last line that is still being written. *)
StopReading ==
  /\ reading
  /\ ~HasRange(content, tell)
  /\ events' = Flushed
  /\ buffered' = 0
  /\ reading' = FALSE
  /\ UNCHANGED <<content, tell, bufferedStart>>

Next == ReadOversizedLine \/ ReadLine \/ StopReading
Spec == Init /\ [][Next]_vars

TypeOK ==
  /\ content \in Contents
  /\ tell \in 0 .. Len(content)
  /\ bufferedStart \in 0 .. Len(content)
  /\ buffered \in 0 .. Len(content)
  /\ \A i \in DOMAIN events :
       events[i] \in [start : 0 .. Len(content), end : 0 .. Len(content),
                      kind : {"range", "oversized"}]
  /\ reading \in BOOLEAN

(* The ranges tile the complete records: each one is what NextEnd says of the
   place where the one before it ended, so a later collect that starts from
   any acknowledged end cuts the rest of the file in the same way.  Only the
   bytes behind the last newline stay unread.                                *)
RangesTileTheRecords ==
  \A i \in DOMAIN events :
    /\ events[i].end = NextEnd(content, events[i].start)
    /\ i > 1 => events[i].start = events[i - 1].end
    /\ (events[i].kind = "oversized") = FirstIsOversized(content, events[i].start)

(* When the generator is exhausted, nothing behind the last range is a
   complete record: no record is lost between two ranges or at the end.      *)
NothingLeftBehind ==
  ~reading =>
    IF events = <<>> THEN ~HasRange(content, bufferedStart)
                     ELSE ~HasRange(content, events[Len(events)].end)

(* No range is cut where the file could still grow into it: for the same
   start, a longer file never yields a shorter range, and yields the same one
   as soon as the next record could be seen not to fit.  A retry of a request
   whose answer was lost therefore asks for the same bytes or for more.       *)
RangesOnlyGrowWithTheFile ==
  \A i \in DOMAIN events : \A cut \in 0 .. Len(content) :
    LET earlier == SubSeq(content, 1, cut) IN
    cut > events[i].start /\ HasRange(earlier, events[i].start) =>
      NextEnd(earlier, events[i].start) <= events[i].end
=============================================================================
