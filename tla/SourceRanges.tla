---------------------------- MODULE SourceRanges ----------------------------
(***************************************************************************)
(* How the collector cuts a native transcript into upload ranges           *)
(* (_iter_source_events in traces.py).                                     *)
(*                                                                         *)
(* A transcript is a sequence of bytes and a record is a run of bytes      *)
(* closed by Newline.  Digests are collision free, so the digest of a      *)
(* prefix is modelled by the prefix itself.  The code reads line by line;  *)
(* the ranges it yields are stated here in closed form, and the module     *)
(* SourceReader checks the closed form against the reading loop.           *)
(***************************************************************************)
EXTENDS Integers, Sequences

CONSTANTS
  Byte,               \* what a transcript is made of
  Newline,            \* the byte that closes a record
  MaxRecordBytes,     \* MAX_RECORD_BYTES: a longer record is only reported
  ChunkTargetBytes    \* CHUNK_TARGET_BYTES: where a range of records is cut

ASSUME NewlineIsAByte == Newline \in Byte
ASSUME LimitsArePositive ==
  /\ MaxRecordBytes \in Nat \ {0}
  /\ ChunkTargetBytes \in Nat \ {0}

Least(S) == CHOOSE n \in S : \A m \in S : n <= m
Greatest(S) == CHOOSE n \in S : \A m \in S : m <= n

(* s is a prefix of t. *)
Begins(s, t) == Len(s) <= Len(t) /\ SubSeq(t, 1, Len(s)) = s

(* Mistake: the newline of the last record is left out. *)
SliceWithoutNewline(f, start, end) == SubSeq(f, start + 1, end - 1)

(* The bytes of f at offsets from start up to, and without, end. *)
Slice(f, start, end) == SubSeq(f, start + 1, end)

(* The offsets behind start at which a complete record of f ends. *)
RecordEnds(f, start) == {i \in (start + 1) .. Len(f) : f[i] = Newline}

(* A record that ends at e, among those behind start, is within the limit. *)
RecordFits(f, start, e) ==
  \E b \in {start} \cup RecordEnds(f, start) : b < e /\ e - b <= MaxRecordBytes

FirstRecordEnd(f, start) == Least(RecordEnds(f, start))

(* The first record behind start is too long to be uploaded. *)
FirstIsOversized(f, start) == FirstRecordEnd(f, start) - start > MaxRecordBytes

(* Where a range that begins at start may end: every record in it is within
   the limit, and it is one record or no longer than the chunk target.       *)
RangeEnds(f, start) ==
  {e \in RecordEnds(f, start) :
     /\ \A r \in RecordEnds(f, start) : r <= e => RecordFits(f, start, r)
     /\ e = FirstRecordEnd(f, start) \/ e - start <= ChunkTargetBytes}

HasRange(f, start) == RecordEnds(f, start) # {}

(* The end of the first event the reader yields behind start. *)
NextEnd(f, start) ==
  IF FirstIsOversized(f, start) THEN FirstRecordEnd(f, start)
                                ELSE Greatest(RangeEnds(f, start))

(* "range" is jsonl_range.  "oversized" is oversized_record: too long as it
   stands (content_size), or a lone record above the chunk target whose wire
   form does not fit in a request (transport_size).                          *)
KindsOf(f, start) ==
  IF FirstIsOversized(f, start) THEN {"oversized"}
  ELSE IF FirstRecordEnd(f, start) - start > ChunkTargetBytes
       THEN {"range", "oversized"} ELSE {"range"}
=============================================================================
