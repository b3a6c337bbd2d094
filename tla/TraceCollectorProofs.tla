------------------------ MODULE TraceCollectorProofs ------------------------
(***************************************************************************)
(* Theorems about TraceCollector for any processes, sources, bytes, limits *)
(* and bounds: the ledger claims only committed bytes and the archive is   *)
(* of one generation, the archive of a transcript that only grew is the    *)
(* transcript, every conflict on one can be reconciled, and the collectors *)
(* implement TranscriptDelivery.                                           *)
(*                                                                         *)
(* None of this is inductive: what a run writes to the ledger comes from   *)
(* the ledger it loaded, the request it posted and the answer it got.      *)
(* IInv says of each of them that it is not ahead of the worker.           *)
(*                                                                         *)
(* DInv follows the requests from the reader to the worker, for sources    *)
(* that only grew: each was cut from the transcript at the ledger, two of  *)
(* the same start differ only by their end, and the later one is the       *)
(* longer (NextEndGrows).                                                  *)
(*                                                                         *)
(* GInv is about the bytes, whatever happened to the files: every request  *)
(* continues what the worker has, and was cut from one generation.         *)
(***************************************************************************)
EXTENDS TraceCollector, SourceRangesProofs

(* A request carries exactly the bytes of its range and all bytes before. *)
WellFormed(r) ==
  /\ r.start < r.end
  /\ Len(r.prefix) = r.start
  /\ Len(r.content) = r.end - r.start

(* Requests in flight and stray ones are. *)
RequestsWellFormed ==
  /\ \A p \in Process : request[p] # NoRequest => WellFormed(request[p])
  /\ \A r \in stray : WellFormed(r)

(* Between post and response a run has a request, and then an answer. *)
InFlight ==
  \A p \in Process :
    /\ step[p] \in {"posted", "answered"} => request[p] # NoRequest
    /\ step[p] = "answered" => answer[p] # NoAnswer

(* The ledger does not reach further than the worker does. *)
LedgerBehindWorker == \A s \in Source : Len(ledger[s]) <= watermark[s].end

(* What a run loaded of the ledger is behind the worker. *)
LoadedBehindWorker ==
  \A p \in Process, s \in Source : Len(loaded[p][s]) <= watermark[s].end

(* What an answer says was committed has been committed. *)
AnswersBehindWorker ==
  \A p \in Process :
    step[p] = "answered" =>
      /\ answer[p].status = "accepted" =>
           request[p].end <= watermark[request[p].src].end
      /\ answer[p].status = "conflict" =>
           answer[p].proof.end <= watermark[request[p].src].end

(* The inductive invariant of the ledger. *)
IInv ==
  /\ TypeOK
  /\ RequestsWellFormed
  /\ InFlight
  /\ LedgerBehindWorker
  /\ LoadedBehindWorker
  /\ AnswersBehindWorker
-----------------------------------------------------------------------------
(* Types of the operators.  The empty ledger is one. *)
LEMMA NothingRecordedType == NothingRecorded \in [Source -> Seq(Byte)]
BY EmptySeq DEF NothingRecorded

(* A posted request can be told from none. *)
LEMMA NoRequestIsNone == NoRequest \notin Request
<1>1. \A r \in Request : r.src \in Source
  BY DEF Request
<1>2. NoRequest.src = 0 /\ 0 \notin Source
  BY DEF NoRequest, Source
<1>3. QED
  BY <1>1, <1>2

(* A run only looks at sources. *)
LEMMA PathsAreSources ==
  ASSUME TypeOK, NEW p \in Process
  PROVE  Paths(p) \in SUBSET Source
BY TranscriptOfIsASource DEF TypeOK, Paths, OwnSources

(* Every request a run can post is one, and it is well formed. *)
LEMMA NextRequestsType ==
  ASSUME TypeOK, NEW p \in Process, SourcesWithEvents(p) # {},
         NEW r \in NextRequests(p)
  PROVE  r \in Request /\ WellFormed(r)
<1> DEFINE s == Least(SourcesWithEvents(p))
           f == file[s]
           start == StartOffset(loaded[p][s], f)
           end == NextEnd(f, start)
<1>1. s \in SourcesWithEvents(p)
  <2>1. SourcesWithEvents(p) \in SUBSET Nat
    BY PathsAreSources, SourceCountIsNat DEF SourcesWithEvents, Source
  <2>2. QED
    BY <2>1, LeastExists
<1>2. s \in Source /\ HasRange(f, start)
  BY <1>1, PathsAreSources DEF SourcesWithEvents, HasEvent
<1>3. f \in Seq(Byte) /\ loaded[p][s] \in Seq(Byte)
  BY <1>2 DEF TypeOK
<1>4. start \in Nat /\ start <= Len(f)
  BY <1>3, LenProperties DEF StartOffset, IsReset, Begins
<1>5. end \in Nat /\ start < end /\ end <= Len(f)
  BY <1>2, <1>3, <1>4, NextEndIsRecordEnd, RecordEndsBounds
<1>6. KindsOf(f, start) \in SUBSET Kind
  BY DEF KindsOf, Kind
<1>7. IsReset(loaded[p][s], f) \in BOOLEAN
  BY DEF IsReset
<1>8. r \in [src : {s}, start : {start}, end : {end}, kind : KindsOf(f, start),
                content : {Slice(f, start, end)}, prefix : {Slice(f, 0, start)},
                reset : {IsReset(loaded[p][s], f)}]
  BY DEF NextRequests
<1> HIDE DEF s, f, start, end
<1>9. /\ Slice(f, start, end) \in Seq(Byte)
      /\ Len(Slice(f, start, end)) = end - start
  BY <1>3, <1>4, <1>5, SliceProperties
<1>10. /\ Slice(f, 0, start) \in Seq(Byte)
       /\ Len(Slice(f, 0, start)) = start
  BY <1>3, <1>4, SliceProperties
<1>11. QED
  BY <1>2, <1>4, <1>5, <1>6, <1>7, <1>8, <1>9, <1>10 DEF Request, WellFormed

(* An answer that is a conflict carries the range the worker stands at. *)
LEMMA ConflictHasProof ==
  ASSUME TypeOK, NEW p \in Process, answer[p].status = "conflict"
  PROVE  answer[p].proof \in CommittedRange
<1>1. answer[p] \in Answer
  BY DEF TypeOK
<1>2. answer[p] # NoAnswer /\ answer[p] # Accepted
  BY DEF NoAnswer, Accepted
<1>3. QED
  BY <1>1, <1>2 DEF Answer

(* A run that ends leaves well-typed state behind. *)
LEMMA EndRunType ==
  ASSUME TypeOK, NEW p \in Process, EndRun(p)
  PROVE  /\ lock' \in Process \cup {NoProcess}
         /\ phase' \in [Process -> Phase]
         /\ step' \in [Process -> Step]
         /\ found' \in [Process -> SUBSET Source]
         /\ loaded' \in [Process -> [Source -> Seq(Byte)]]
         /\ request' \in [Process -> Request \cup {NoRequest}]
         /\ answer' \in [Process -> Answer]
BY NothingRecordedType
DEF TypeOK, EndRun, Goto, Release, Forget, Phase, Step, Answer

(* And so does a transaction that records a well-typed entry. *)
LEMMA EndTransactionType ==
  ASSUME TypeOK, NEW p \in Process, NEW entry \in Seq(Byte),
         NEW nextPhase \in Phase, request[p] \in Request,
         EndTransaction(p, entry, nextPhase)
  PROVE  TypeOK'
<1>1. request[p].src \in Source
  BY DEF Request
<1>2. ledger' \in [Source -> Seq(Byte)]
  BY <1>1 DEF TypeOK, EndTransaction
<1>3. /\ lock' \in Process \cup {NoProcess}
      /\ phase' \in [Process -> Phase]
      /\ step' \in [Process -> Step]
      /\ loaded' \in [Process -> [Source -> Seq(Byte)]]
      /\ request' \in [Process -> Request \cup {NoRequest}]
      /\ answer' \in [Process -> Answer]
  BY NothingRecordedType
  DEF TypeOK, EndTransaction, Goto, Release, Forget, Phase, Step, Answer
<1>4. QED
  BY <1>2, <1>3 DEF TypeOK, EndTransaction, worker, history

(* The two entries a run records: all of the request, or all of the prefix
   and the part of the request the worker proved.                           *)
LEMMA AcknowledgedEntry ==
  ASSUME NEW r \in Request, WellFormed(r)
  PROVE  /\ r.prefix \o r.content \in Seq(Byte)
         /\ Len(r.prefix \o r.content) = r.end
<1>1. /\ r.prefix \in Seq(Byte) /\ r.content \in Seq(Byte)
      /\ r.start \in Nat /\ r.end \in Nat
  BY DEF Request
<1>2. /\ r.prefix \o r.content \in Seq(Byte)
      /\ Len(r.prefix \o r.content) = Len(r.prefix) + Len(r.content)
  BY <1>1, ConcatProperties
<1>3. QED
  BY <1>1, <1>2 DEF WellFormed

(* The entry a reconciliation records ends where the worker stands. *)
LEMMA ReconciledEntry ==
  ASSUME NEW r \in Request, WellFormed(r), NEW end \in Nat,
         r.start < end, end < r.end
  PROVE  /\ r.prefix \o SubSeq(r.content, 1, end - r.start) \in Seq(Byte)
         /\ Len(r.prefix \o SubSeq(r.content, 1, end - r.start)) = end
<1>1. /\ r.prefix \in Seq(Byte) /\ r.content \in Seq(Byte)
      /\ r.start \in Nat /\ r.end \in Nat
  BY DEF Request
<1>2. \A i \in 1 .. end - r.start : r.content[i] \in Byte
  BY <1>1, ElementOfSeq, LenProperties DEF WellFormed
<1>3. /\ SubSeq(r.content, 1, end - r.start) \in Seq(Byte)
      /\ Len(SubSeq(r.content, 1, end - r.start)) = end - r.start
  BY <1>1, <1>2, SubSeqProperties
<1>4. QED
  BY <1>1, <1>3, ConcatProperties DEF WellFormed
-----------------------------------------------------------------------------
(* Type correctness.  Nothing is recorded, posted or committed at the start. *)
LEMMA InitIInv == Init => IInv
<1> SUFFICES ASSUME Init PROVE IInv
  OBVIOUS
<1>1. \A s \in Source : Len(ledger[s]) = 0 /\ watermark[s].end = 0
  BY EmptySeq DEF Init, NothingRecorded, NoRange
<1>2. \A p \in Process, s \in Source : Len(loaded[p][s]) = 0
  BY EmptySeq DEF Init, NothingRecorded
<1>3. TypeOK
  <2>1. NoRange \in CommittedRange
    BY EmptySeq DEF NoRange, CommittedRange
  <2>2. NoAnswer \in Answer
    BY DEF Answer
  <2>3. QED
    BY <2>1, <2>2, NothingRecordedType, EmptySeq DEF Init, TypeOK, Phase, Step
<1>4. RequestsWellFormed
  BY DEF Init, RequestsWellFormed
<1>5. InFlight /\ AnswersBehindWorker
  BY DEF Init, InFlight, AnswersBehindWorker
<1>6. QED
  BY <1>1, <1>2, <1>3, <1>4, <1>5
  DEF IInv, LedgerBehindWorker, LoadedBehindWorker

(* What the worker does with a request of the right type. *)
LEMMA CommitType ==
  ASSUME TypeOK, NEW r \in Request, Commit(r)
  PROVE  /\ watermark' \in [Source -> CommittedRange]
         /\ archive' \in [Source -> Seq(Byte)]
<1>1. /\ r.src \in Source /\ r.start \in Nat /\ r.end \in Nat
      /\ r.content \in Seq(Byte)
  BY DEF Request
<1>2. [start |-> r.start, end |-> r.end, content |-> r.content] \in CommittedRange
  BY <1>1 DEF CommittedRange
<1>3. archive[r.src] \o r.content \in Seq(Byte)
  BY <1>1, ConcatProperties DEF TypeOK
<1>4. QED
  BY <1>1, <1>2, <1>3 DEF TypeOK, Commit

(* No step of a run leaves the types. *)
LEMMA CollectType ==
  ASSUME IInv, NEW p \in Process, Collect(p)
  PROVE  TypeOK'
<1> USE DEF disk, run, worker, history
<1>1. TypeOK /\ InFlight /\ RequestsWellFormed
  BY DEF IInv
<1>2. CASE StartCollect(p)
  BY <1>1, <1>2 DEF TypeOK, StartCollect, Goto, Phase, Step
<1>3. CASE LockAndLoad(p)
  <2>1. ledger' \in [Source -> Seq(Byte)]
    BY <1>1, <1>3, NothingRecordedType DEF TypeOK, LockAndLoad
  <2>2. QED
    BY <1>1, <1>3, <2>1 DEF TypeOK, LockAndLoad, Step
<1>4. CASE PostBatch(p)
  <2>1. request' \in [Process -> Request \cup {NoRequest}]
    BY <1>1, <1>4, NextRequestsType DEF TypeOK, PostBatch
  <2>2. QED
    BY <1>1, <1>4, <2>1 DEF TypeOK, PostBatch, Step
<1>5. CASE NothingToUpload(p)
  <2>1. CASE phase[p] = "idle"
    BY <1>1, <1>5, <2>1, EndRunType DEF TypeOK, NothingToUpload
  <2>2. CASE phase[p] # "idle"
    <3>1. /\ Goto(p, IF phase[p] = "first" THEN "current" ELSE "scan", "ready")
          /\ Release(p)
          /\ loaded' = [loaded EXCEPT ![p] = NothingRecorded]
          /\ UNCHANGED <<found, request, answer>>
      BY <1>5, <2>2 DEF NothingToUpload
    <3>2. loaded' \in [Process -> [Source -> Seq(Byte)]]
      BY <1>1, <3>1, NothingRecordedType DEF TypeOK
    <3>3. /\ lock' \in Process \cup {NoProcess}
          /\ phase' \in [Process -> Phase]
          /\ step' \in [Process -> Step]
      BY <1>1, <3>1 DEF TypeOK, Goto, Release, Phase, Step
    <3>4. QED
      BY <1>1, <1>5, <3>1, <3>2, <3>3 DEF TypeOK, NothingToUpload
  <2>3. QED
    BY <2>1, <2>2
<1>6. CASE RecordAcknowledged(p)
  <2>1. request[p] \in Request /\ WellFormed(request[p])
    BY <1>1, <1>6 DEF TypeOK, InFlight, RequestsWellFormed, RecordAcknowledged
  <2>2. request[p].prefix \o request[p].content \in Seq(Byte)
    BY <2>1, AcknowledgedEntry
  <2>3. (IF phase[p] = "first" THEN "current" ELSE phase[p]) \in Phase
    BY <1>1 DEF TypeOK, Phase
  <2>4. QED
    BY <1>1, <1>6, <2>1, <2>2, <2>3, EndTransactionType DEF RecordAcknowledged
<1>7. CASE ReconcileWatermark(p)
  <2> DEFINE r == request[p]
             end == answer[p].proof.end
  <2>1. r \in Request /\ WellFormed(r)
    BY <1>1, <1>7 DEF TypeOK, InFlight, RequestsWellFormed, ReconcileWatermark
  <2>2. end \in Nat /\ r.start < end /\ end < r.end
    BY <1>1, <1>7, ConflictHasProof
    DEF ReconcileWatermark, Reconcilable, CommittedRange
  <2>3. r.prefix \o SubSeq(r.content, 1, end - r.start) \in Seq(Byte)
    BY <2>1, <2>2, ReconciledEntry
  <2>4. phase[p] \in Phase
    BY <1>1 DEF TypeOK
  <2>5. QED
    BY <1>1, <1>7, <2>1, <2>3, <2>4, EndTransactionType DEF ReconcileWatermark
<1>8. CASE ConflictEndsRun(p)
  BY <1>1, <1>8, EndRunType DEF TypeOK, ConflictEndsRun
<1>9. CASE ScanRoots(p)
  BY <1>1, <1>9 DEF TypeOK, ScanRoots, Goto, Phase, Step
<1>10. CASE NoCatchUp(p)
  BY <1>1, <1>10, EndRunType DEF TypeOK, NoCatchUp
<1>11. QED
  BY <1>2, <1>3, <1>4, <1>5, <1>6, <1>7, <1>8, <1>9, <1>10 DEF Collect

(* Nor does any other step. *)
LEMMA TypeStep == IInv /\ [Next]_vars => TypeOK'
<1> SUFFICES ASSUME IInv, [Next]_vars PROVE TypeOK'
  OBVIOUS
<1> USE DEF disk, run, worker, history
<1>1. TypeOK /\ InFlight
  BY DEF IInv
<1>2. ASSUME NEW p \in Process, Collect(p) PROVE TypeOK'
  BY <1>2, CollectType
<1>3. ASSUME NEW p \in Process, Fault(p) PROVE TypeOK'
  <2>1. CASE DeadlineExceeded(p)
    BY <1>1, <2>1, EndRunType DEF TypeOK, DeadlineExceeded, CountFault
  <2>2. CASE Abandon(p)
    <3>1. stray' \subseteq Request
      BY <1>1, <2>2 DEF TypeOK, InFlight, Abandon
    <3>2. QED
      BY <1>1, <2>2, <3>1, EndRunType DEF TypeOK, Abandon, CountFault
  <2>3. CASE WorkerRefuses(p)
    BY <1>1, <2>3, EndRunType DEF TypeOK, WorkerRefuses, CountFault
  <2>4. QED
    BY <1>3, <2>1, <2>2, <2>3 DEF Fault
<1>4. ASSUME NEW p \in Process, WorkerHandles(p) PROVE TypeOK'
  <2>1. request[p] \in Request
    BY <1>1, <1>4 DEF TypeOK, InFlight, WorkerHandles
  <2>2. watermark[request[p].src] \in CommittedRange
    BY <1>1, <2>1 DEF TypeOK, Request
  <2>3. /\ watermark' \in [Source -> CommittedRange]
        /\ archive' \in [Source -> Seq(Byte)]
    BY <1>1, <1>4, <2>1, CommitType DEF TypeOK, WorkerHandles
  <2>4. PICK a \in Answer : Respond(p, a)
    <3>1. Accepted \in Answer /\ Conflict(watermark[request[p].src]) \in Answer
      BY <2>2 DEF Answer, Conflict
    <3>2. QED
      BY <1>4, <3>1 DEF WorkerHandles
  <2>5. step' \in [Process -> Step] /\ answer' \in [Process -> Answer]
    BY <1>1, <2>4 DEF TypeOK, Respond, Step
  <2>6. mistaken' \subseteq Source
    BY <1>1, <1>4, <2>1 DEF TypeOK, WorkerHandles, Request
  <2>7. QED
    BY <1>1, <1>4, <2>3, <2>5, <2>6 DEF TypeOK, WorkerHandles
<1>5. ASSUME NEW r \in stray, WorkerHandlesStray(r) PROVE TypeOK'
  <2>1. r \in Request
    BY <1>1 DEF TypeOK
  <2>2. /\ watermark' \in [Source -> CommittedRange]
        /\ archive' \in [Source -> Seq(Byte)]
    BY <1>1, <1>5, <2>1, CommitType DEF TypeOK, WorkerHandlesStray
  <2>3. QED
    BY <1>1, <1>5, <2>2 DEF TypeOK, WorkerHandlesStray
<1>6. CASE Environment
  <2>1. ASSUME NEW s \in Source, HostAppends(s) PROVE TypeOK'
    <3>1. PICK bytes \in Written : file' = [file EXCEPT ![s] = @ \o bytes]
      BY <2>1 DEF HostAppends
    <3>2. file[s] \o bytes \in Seq(Byte)
      BY <1>1, WritesAreBytes, ConcatProperties DEF TypeOK
    <3>3. QED
      BY <1>1, <2>1, <3>1, <3>2 DEF TypeOK, HostAppends
  <2>2. ASSUME NEW s \in Source, FileReplaced(s) PROVE TypeOK'
    BY <1>1, <2>2, WritesAreBytes DEF TypeOK, FileReplaced, Happens
  <2>3. ASSUME NEW s \in Source, FileLost(s) PROVE TypeOK'
    BY <1>1, <2>3 DEF TypeOK, FileLost, Happens
  <2>4. CASE LedgerCorrupted
    BY <1>1, <2>4 DEF TypeOK, LedgerCorrupted, Happens
  <2>5. QED
    BY <1>6, <2>1, <2>2, <2>3, <2>4 DEF Environment
<1>7. CASE UNCHANGED vars
  BY <1>1, <1>7 DEF TypeOK, vars
<1>8. QED
  BY <1>2, <1>3, <1>4, <1>5, <1>6, <1>7 DEF Next
-----------------------------------------------------------------------------
(* How the parts of IInv other than the types are preserved. *)

(* No step takes the worker back: a range is committed only if it ends behind
   everything committed before.                                             *)
LEMMA WatermarkGrows ==
  ASSUME IInv, [Next]_vars
  PROVE  \A s \in Source : watermark[s].end <= watermark'[s].end
<1> SUFFICES ASSUME NEW s \in Source
             PROVE  watermark[s].end <= watermark'[s].end
  OBVIOUS
<1> USE DEF disk, run, worker, history
<1>1. TypeOK /\ watermark[s].end \in Nat
  BY DEF IInv, TypeOK, CommittedRange
<1>2. ASSUME NEW r \in Request, Commit(r), ~IsDuplicate(r)
      PROVE  watermark[s].end <= watermark'[s].end
  <2>1. r.end \in Nat
    BY DEF Request
  <2>2. CASE r.src = s
    BY <1>1, <1>2, <2>1, <2>2 DEF TypeOK, Commit, IsDuplicate
  <2>3. CASE r.src # s
    BY <1>1, <1>2, <2>3 DEF TypeOK, Commit
  <2>4. QED
    BY <2>2, <2>3
<1>3. CASE watermark' = watermark
  BY <1>1, <1>3
<1>4. ASSUME NEW p \in Process, WorkerHandles(p)
      PROVE  watermark[s].end <= watermark'[s].end
  <2>1. request[p] \in Request
    BY <1>1, <1>4 DEF IInv, TypeOK, InFlight, WorkerHandles
  <2>2. QED
    BY <1>2, <1>3, <1>4, <2>1 DEF WorkerHandles
<1>5. ASSUME NEW r \in stray, WorkerHandlesStray(r)
      PROVE  watermark[s].end <= watermark'[s].end
  BY <1>1, <1>2, <1>3, <1>5 DEF TypeOK, WorkerHandlesStray
<1>6. ASSUME NEW p \in Process, Collect(p) PROVE watermark' = watermark
  BY <1>6 DEF Collect, StartCollect, LockAndLoad, PostBatch, NothingToUpload,
              RecordAcknowledged, ReconcileWatermark, ConflictEndsRun, ScanRoots,
              NoCatchUp, EndTransaction
<1>7. ASSUME NEW p \in Process, Fault(p) PROVE watermark' = watermark
  BY <1>7 DEF Fault, DeadlineExceeded, Abandon, WorkerRefuses
<1>8. CASE Environment
  BY <1>3, <1>8 DEF Environment, HostAppends, FileReplaced, FileLost, LedgerCorrupted
<1>9. CASE UNCHANGED vars
  BY <1>3, <1>9 DEF vars
<1>10. QED
  BY <1>3, <1>4, <1>5, <1>6, <1>7, <1>8, <1>9 DEF Next

(* What a step other than p's own does to the run of p: nothing. *)
Untouched(p) ==
  /\ step'[p] = step[p]
  /\ request'[p] = request[p]
  /\ answer'[p] = answer[p]
  /\ loaded'[p] = loaded[p]

(* A run is over, or a transaction of it: nothing in flight, nothing loaded. *)
Cleared(p) ==
  /\ step'[p] = "ready"
  /\ request'[p] = NoRequest
  /\ answer'[p] = NoAnswer
  /\ loaded'[p] = NothingRecorded

(* Ending a run forgets what it loaded and posted, and touches no other run. *)
LEMMA EndRunClears ==
  ASSUME TypeOK, NEW p \in Process, EndRun(p)
  PROVE  Cleared(p) /\ \A q \in Process \ {p} : Untouched(q)
BY DEF TypeOK, EndRun, Goto, Forget, Cleared, Untouched

(* So does ending a transaction. *)
LEMMA EndTransactionClears ==
  ASSUME TypeOK, NEW p \in Process, NEW entry, NEW nextPhase,
         EndTransaction(p, entry, nextPhase)
  PROVE  Cleared(p) /\ \A q \in Process \ {p} : Untouched(q)
BY DEF TypeOK, EndTransaction, Goto, Forget, Cleared, Untouched

(* The steps of a run, by what they do to the run: it is cleared, or moves on
   with its request, or loads the ledger, or posts, or gets an answer.       *)
Idles(p) ==
  /\ step'[p] \in {"ready", "locked"}
  /\ request'[p] = request[p]
  /\ answer'[p] = answer[p]
  /\ loaded'[p] \in {loaded[p], NothingRecorded, ledger'}

Posts(p) ==
  /\ PostBatch(p)
  /\ step'[p] = "posted"
  /\ request'[p] \in Request /\ WellFormed(request'[p])
  /\ answer'[p] = answer[p]
  /\ loaded'[p] = loaded[p]

IsAnswered(p) ==
  /\ WorkerHandles(p)
  /\ step[p] = "posted" /\ step'[p] = "answered"
  /\ request'[p] = request[p]
  /\ \/ /\ answer'[p] = Accepted
        /\ request[p].end <= watermark'[request[p].src].end
     \/ /\ answer'[p] = Conflict(watermark'[request[p].src])
  /\ loaded'[p] = loaded[p]

RunStep(p) == Untouched(p) \/ Cleared(p) \/ Idles(p) \/ Posts(p) \/ IsAnswered(p)

(* Every step of a run is one of these for every process. *)
LEMMA CollectRunStep ==
  ASSUME IInv, NEW p \in Process, Collect(p)
  PROVE  RunStep(p) /\ \A q \in Process \ {p} : Untouched(q)
<1> USE DEF run
<1>1. TypeOK
  BY DEF IInv
<1>2. CASE StartCollect(p)
  BY <1>1, <1>2 DEF TypeOK, StartCollect, Goto, RunStep, Untouched, Idles
<1>3. CASE LockAndLoad(p)
  BY <1>1, <1>3 DEF TypeOK, LockAndLoad, RunStep, Untouched, Idles
<1>4. CASE PostBatch(p)
  BY <1>1, <1>4, NextRequestsType DEF TypeOK, PostBatch, RunStep, Untouched, Posts
<1>5. CASE NothingToUpload(p)
  <2>1. CASE phase[p] = "idle"
    BY <1>1, <1>5, <2>1, EndRunClears DEF NothingToUpload, RunStep
  <2>2. CASE phase[p] # "idle"
    BY <1>1, <1>5, <2>2 DEF TypeOK, NothingToUpload, Goto, RunStep, Untouched, Idles
  <2>3. QED
    BY <2>1, <2>2
<1>6. CASE RecordAcknowledged(p)
  BY <1>1, <1>6, EndTransactionClears DEF RecordAcknowledged, RunStep
<1>7. CASE ReconcileWatermark(p)
  BY <1>1, <1>7, EndTransactionClears DEF ReconcileWatermark, RunStep
<1>8. CASE ConflictEndsRun(p)
  BY <1>1, <1>8, EndRunClears DEF ConflictEndsRun, RunStep
<1>9. CASE ScanRoots(p)
  BY <1>1, <1>9 DEF TypeOK, ScanRoots, Goto, RunStep, Untouched, Idles
<1>10. CASE NoCatchUp(p)
  BY <1>1, <1>10, EndRunClears DEF NoCatchUp, RunStep
<1>11. QED
  BY <1>2, <1>3, <1>4, <1>5, <1>6, <1>7, <1>8, <1>9, <1>10 DEF Collect

(* And so is every step of the system. *)
LEMMA AllRunsStep ==
  ASSUME IInv, [Next]_vars
  PROVE  \A p \in Process : RunStep(p)
<1> USE DEF run
<1>1. TypeOK
  BY DEF IInv
<1>2. ASSUME NEW p \in Process, Collect(p) PROVE \A q \in Process : RunStep(q)
  BY <1>2, CollectRunStep DEF RunStep
<1>3. ASSUME NEW p \in Process, Fault(p) PROVE \A q \in Process : RunStep(q)
  <2>1. EndRun(p)
    BY <1>3 DEF Fault, DeadlineExceeded, Abandon, WorkerRefuses
  <2>2. QED
    BY <1>1, <2>1, EndRunClears DEF RunStep
<1>4. ASSUME NEW p \in Process, WorkerHandles(p) PROVE \A q \in Process : RunStep(q)
  <2> DEFINE r == request[p]
  <2>1. r \in Request /\ r.src \in Source
    BY <1>1, <1>4 DEF IInv, TypeOK, InFlight, Request, WorkerHandles
  <2>2. r.end \in Nat /\ watermark[r.src].end \in Nat
    BY <1>1, <2>1 DEF TypeOK, Request, CommittedRange
  <2>3. \/ Respond(p, Accepted) /\ r.end <= watermark'[r.src].end
        \/ Respond(p, Conflict(watermark'[r.src]))
    <3>1. CASE IsDuplicate(r)
      BY <1>4, <2>2, <3>1 DEF WorkerHandles, IsDuplicate
    <3>2. CASE ~IsDuplicate(r) /\ IsContiguous(r)
      <4>1. Commit(r) /\ Respond(p, Accepted)
        BY <1>4, <3>2 DEF WorkerHandles
      <4>2. watermark'[r.src].end = r.end
        BY <1>1, <2>1, <4>1 DEF TypeOK, Commit
      <4>3. QED
        BY <2>2, <4>1, <4>2
    <3>3. CASE ~IsDuplicate(r) /\ ~IsContiguous(r)
      BY <1>4, <3>3 DEF WorkerHandles
    <3>4. QED
      BY <3>1, <3>2, <3>3
  <2>4. /\ step[p] = "posted" /\ step'[p] = "answered"
        /\ UNCHANGED <<request, loaded>>
        /\ \A q \in Process \ {p} : Untouched(q)
    BY <1>1, <1>4, <2>3 DEF TypeOK, WorkerHandles, Respond, Untouched
  <2>5. IsAnswered(p)
    BY <1>1, <1>4, <2>3, <2>4 DEF TypeOK, Respond, IsAnswered
  <2>6. QED
    BY <2>4, <2>5 DEF RunStep
<1>5. ASSUME UNCHANGED run PROVE \A q \in Process : RunStep(q)
  BY <1>5 DEF RunStep, Untouched
<1>6. ASSUME NEW r \in stray, WorkerHandlesStray(r) PROVE UNCHANGED run
  BY <1>6 DEF WorkerHandlesStray
<1>7. CASE Environment
  BY <1>5, <1>7 DEF Environment, HostAppends, FileReplaced, FileLost, LedgerCorrupted
<1>8. CASE UNCHANGED vars
  BY <1>5, <1>8 DEF vars
<1>9. QED
  BY <1>2, <1>3, <1>4, <1>5, <1>6, <1>7, <1>8 DEF Next

(* Requests stay well formed, and no answer comes without a request. *)
LEMMA RequestsStep ==
  ASSUME IInv, [Next]_vars
  PROVE  RequestsWellFormed' /\ InFlight'
<1>1. /\ \A p \in Process : RunStep(p)
      /\ RequestsWellFormed /\ InFlight
  BY AllRunsStep DEF IInv
<1>2. InFlight'
  <2>1. Accepted # NoAnswer /\ \A range : Conflict(range) # NoAnswer
    BY DEF NoAnswer, Accepted, Conflict
  <2>2. \A p \in Process :
          /\ step'[p] \in {"posted", "answered"} => request'[p] # NoRequest
          /\ step'[p] = "answered" => answer'[p] # NoAnswer
    BY <1>1, <2>1, NoRequestIsNone
    DEF InFlight, RunStep, Untouched, Cleared, Idles, Posts, IsAnswered
  <2>3. QED
    BY <2>2 DEF InFlight
<1>3. \A p \in Process : request'[p] # NoRequest => WellFormed(request'[p])
  BY <1>1
  DEF RequestsWellFormed, RunStep, Untouched, Cleared, Idles, Posts, IsAnswered
<1>4. \A r \in stray' : WellFormed(r)
  <2> USE DEF worker
  <2>1. ASSUME stray' \subseteq stray PROVE <1>4
    BY <1>1, <2>1 DEF RequestsWellFormed
  <2>2. ASSUME NEW p \in Process, Collect(p) PROVE stray' = stray
    BY <2>2 DEF Collect, StartCollect, LockAndLoad, PostBatch, NothingToUpload,
                RecordAcknowledged, ReconcileWatermark, ConflictEndsRun, ScanRoots,
                NoCatchUp, EndTransaction
  <2>3. ASSUME NEW p \in Process, Fault(p) PROVE <1>4
    <3>1. \/ stray' = stray
          \/ step[p] = "posted" /\ stray' = stray \cup {request[p]}
      BY <2>3 DEF Fault, DeadlineExceeded, Abandon, WorkerRefuses
    <3>2. QED
      BY <1>1, <3>1 DEF RequestsWellFormed, InFlight
  <2>4. ASSUME NEW p \in Process, WorkerHandles(p) PROVE stray' = stray
    BY <2>4 DEF WorkerHandles
  <2>5. ASSUME NEW r \in stray, WorkerHandlesStray(r) PROVE stray' \subseteq stray
    BY <2>5 DEF WorkerHandlesStray
  <2>6. CASE Environment
    BY <2>1, <2>6 DEF Environment, HostAppends, FileReplaced, FileLost, LedgerCorrupted
  <2>7. CASE UNCHANGED vars
    BY <2>1, <2>7 DEF vars
  <2>8. QED
    BY <2>1, <2>2, <2>3, <2>4, <2>5, <2>6, <2>7 DEF Next
<1>5. QED
  BY <1>2, <1>3, <1>4 DEF RequestsWellFormed, WellFormed
-----------------------------------------------------------------------------
(* What a run writes to the ledger is behind the worker. *)
LEMMA LedgerStep ==
  ASSUME IInv, [Next]_vars
  PROVE  LedgerBehindWorker'
<1> USE DEF disk
<1>1. TypeOK /\ LedgerBehindWorker /\ LoadedBehindWorker
  BY DEF IInv
<1>2. \A s \in Source :
        /\ watermark[s].end \in Nat /\ watermark'[s].end \in Nat
        /\ watermark[s].end <= watermark'[s].end
  BY <1>1, TypeStep, WatermarkGrows DEF TypeOK, CommittedRange
<1>3. ASSUME UNCHANGED ledger PROVE LedgerBehindWorker'
  <2>1. SUFFICES ASSUME NEW s \in Source
                 PROVE  Len(ledger'[s]) <= watermark'[s].end
    BY DEF LedgerBehindWorker
  <2>2. Len(ledger[s]) \in Nat /\ Len(ledger[s]) <= watermark[s].end
    BY <1>1, LenProperties DEF TypeOK, LedgerBehindWorker
  <2>3. QED
    BY <1>2, <1>3, <2>2
<1>4. ASSUME NEW p \in Process, NEW entry \in Seq(Byte), NEW nextPhase,
             Len(entry) <= watermark[request[p].src].end,
             EndTransaction(p, entry, nextPhase)
      PROVE  LedgerBehindWorker'
  <2>1. /\ ledger' = [loaded[p] EXCEPT ![request[p].src] = entry]
        /\ UNCHANGED watermark
    BY <1>4 DEF EndTransaction, worker
  <2>2. SUFFICES ASSUME NEW s \in Source
                 PROVE  Len(ledger'[s]) <= watermark'[s].end
    BY DEF LedgerBehindWorker
  <2>3. ledger'[s] = IF s = request[p].src THEN entry ELSE loaded[p][s]
    BY <1>1, <2>1 DEF TypeOK
  <2>4. QED
    BY <1>1, <1>4, <2>1, <2>3 DEF LoadedBehindWorker
<1>5. ASSUME NEW p \in Process, LockAndLoad(p) PROVE LedgerBehindWorker'
  <2>1. ledger' = ledger \/ ledger' = NothingRecorded
    BY <1>5 DEF LockAndLoad
  <2>2. \A s \in Source : Len(NothingRecorded[s]) = 0
    BY EmptySeq DEF NothingRecorded
  <2>3. CASE ledger' = NothingRecorded
    BY <1>2, <2>2, <2>3 DEF LedgerBehindWorker
  <2>4. QED
    BY <1>3, <2>1, <2>3
<1>6. ASSUME NEW p \in Process, RecordAcknowledged(p) PROVE LedgerBehindWorker'
  <2> DEFINE r == request[p]
  <2>1. r \in Request /\ WellFormed(r)
    BY <1>6 DEF IInv, TypeOK, InFlight, RequestsWellFormed, RecordAcknowledged
  <2>2. r.end <= watermark[r.src].end
    BY <1>6 DEF IInv, AnswersBehindWorker, RecordAcknowledged
  <2>3. /\ r.prefix \o r.content \in Seq(Byte)
        /\ Len(r.prefix \o r.content) = r.end
    BY <2>1, AcknowledgedEntry
  <2>4. QED
    BY <1>4, <1>6, <2>2, <2>3 DEF RecordAcknowledged
<1>7. ASSUME NEW p \in Process, ReconcileWatermark(p) PROVE LedgerBehindWorker'
  <2> DEFINE r == request[p]
             end == answer[p].proof.end
  <2>1. r \in Request /\ WellFormed(r)
    BY <1>7 DEF IInv, TypeOK, InFlight, RequestsWellFormed, ReconcileWatermark
  <2>2. end \in Nat /\ r.start < end /\ end < r.end
    BY <1>1, <1>7, ConflictHasProof
    DEF ReconcileWatermark, Reconcilable, CommittedRange
  <2>3. end <= watermark[r.src].end
    BY <1>7 DEF IInv, AnswersBehindWorker, ReconcileWatermark
  <2>4. LET entry == r.prefix \o SubSeq(r.content, 1, end - r.start)
        IN  entry \in Seq(Byte) /\ Len(entry) = end
    BY <2>1, <2>2, ReconciledEntry
  <2>5. QED
    BY <1>4, <1>7, <2>3, <2>4 DEF ReconcileWatermark
<1>8. ASSUME NEW p \in Process, Collect(p) PROVE LedgerBehindWorker'
  BY <1>3, <1>5, <1>6, <1>7, <1>8
  DEF Collect, StartCollect, PostBatch, NothingToUpload, ConflictEndsRun, ScanRoots,
      NoCatchUp
<1>9. ASSUME NEW p \in Process, Fault(p) PROVE UNCHANGED ledger
  BY <1>9 DEF Fault, DeadlineExceeded, Abandon, WorkerRefuses
<1>10. ASSUME NEW p \in Process, WorkerHandles(p) PROVE UNCHANGED ledger
  BY <1>10 DEF WorkerHandles
<1>11. ASSUME NEW r \in stray, WorkerHandlesStray(r) PROVE UNCHANGED ledger
  BY <1>11 DEF WorkerHandlesStray
<1>12. CASE Environment
  BY <1>3, <1>12 DEF Environment, HostAppends, FileReplaced, FileLost, LedgerCorrupted
<1>13. CASE UNCHANGED vars
  BY <1>3, <1>13 DEF vars
<1>14. QED
  BY <1>3, <1>8, <1>9, <1>10, <1>11, <1>12, <1>13 DEF Next

(* What was loaded and what was answered stays behind the worker. *)
LEMMA BehindStep ==
  ASSUME IInv, [Next]_vars
  PROVE  LoadedBehindWorker' /\ AnswersBehindWorker'
<1>1. /\ \A p \in Process : RunStep(p)
      /\ LedgerBehindWorker'
      /\ LoadedBehindWorker /\ AnswersBehindWorker
  BY AllRunsStep, LedgerStep DEF IInv
<1>2. \A s \in Source :
        /\ watermark[s].end \in Nat /\ watermark'[s].end \in Nat
        /\ watermark[s].end <= watermark'[s].end
  BY TypeStep, WatermarkGrows DEF IInv, TypeOK, CommittedRange
<1>3. ASSUME NEW p \in Process, NEW s \in Source
      PROVE  Len(loaded'[p][s]) <= watermark'[s].end
  <2>1. loaded[p][s] \in Seq(Byte) /\ Len(NothingRecorded[s]) = 0
    BY EmptySeq DEF IInv, TypeOK, NothingRecorded
  <2>2. loaded'[p] \in {loaded[p], NothingRecorded, ledger'}
    BY <1>1 DEF RunStep, Untouched, Cleared, Idles, Posts, IsAnswered
  <2>3. QED
    BY <1>1, <1>2, <2>1, <2>2, LenProperties
    DEF LedgerBehindWorker, LoadedBehindWorker
<1>4. ASSUME NEW p \in Process, step'[p] = "answered"
      PROVE  /\ answer'[p].status = "accepted" =>
                  request'[p].end <= watermark'[request'[p].src].end
             /\ answer'[p].status = "conflict" =>
                  answer'[p].proof.end <= watermark'[request'[p].src].end
  <2>1. CASE Untouched(p)
    <3>1. step[p] = "answered" /\ request[p] \in Request /\ request[p].src \in Source
      BY <1>4, <2>1 DEF Untouched, IInv, TypeOK, InFlight, Request
    <3>2. request[p].end \in Nat
      BY <3>1 DEF Request
    <3>3. answer[p].status = "conflict" => answer[p].proof.end \in Nat
      BY ConflictHasProof DEF IInv, CommittedRange
    <3>4. QED
      BY <1>1, <1>2, <2>1, <3>1, <3>2, <3>3 DEF Untouched, AnswersBehindWorker
  <2>2. CASE IsAnswered(p)
    <3>1. request[p].src \in Source
      BY <2>2, NoRequestIsNone DEF IsAnswered, IInv, TypeOK, InFlight, Request
    <3>2. QED
      BY <1>2, <2>2, <3>1 DEF IsAnswered, Accepted, Conflict
  <2>3. QED
    BY <1>1, <1>4, <2>1, <2>2 DEF RunStep, Cleared, Idles, Posts
<1>5. QED
  BY <1>3, <1>4 DEF LoadedBehindWorker, AnswersBehindWorker
-----------------------------------------------------------------------------
(* Together: no step breaks IInv. *)
LEMMA InductiveStep == IInv /\ [Next]_vars => IInv'
BY TypeStep, RequestsStep, LedgerStep, BehindStep DEF IInv

(* The inductive invariant holds in every reachable state. *)
THEOREM Invariance == Spec => []IInv
<1>1. QED
  BY InitIInv, InductiveStep, PTL DEF Spec

(* Type correctness of the collectors, the worker and the files they share. *)
THEOREM TypeCorrect == Spec => []TypeOK
<1>1. IInv => TypeOK
  BY DEF IInv
<1>2. QED
  BY <1>1, Invariance, PTL
-----------------------------------------------------------------------------
(* A run inside a transaction, and one whose request is on the wire or was
   answered.                                                                *)
Requesting(p) == step[p] \in {"posted", "answered"}

(* Every request the worker may still handle or a run may still record. *)
Wire == {request[p] : p \in {q \in Process : Requesting(q)}} \cup stray

(* A request or a committed range is a range of f: it ends at a record, no
   later than the reader would end it now, and holds the bytes in between.  *)
IsRangeOf(x, f) ==
  /\ x.end \in RecordEnds(f, x.start)
  /\ x.end <= NextEnd(f, x.start)
  /\ x.content = Slice(f, x.start, x.end)

(* A request that was cut from f: a range of it, with all bytes before the range,
   and reported as oversized only if it is a single record. *)
CutFrom(r, f) ==
  /\ IsRangeOf(r, f)
  /\ r.prefix = Slice(f, 0, r.start)
  /\ r.kind = "oversized" => r.end = FirstRecordEnd(f, r.start)

(* Every request that can still reach the worker was cut from the transcript as it
   stands now, unless the transcript was replaced. *)
WireCut == \A r \in Wire : r.src \notin replaced => CutFrom(r, file[r.src])

(* No request begins beyond what the worker has: a gap is never offered. *)
WireBehindWorker == \A r \in Wire : r.start <= watermark[r.src].end

(* Nor beyond the ledger, so that only a request at the ledger can be committed. *)
WireBehindLedger ==
  \A r \in Wire : Undisturbed(r.src) => r.start <= Len(ledger[r.src])

(* The archive is the file up to the watermark. *)
WorkerCopies ==
  \A s \in Source \ replaced :
    /\ archive[s] = Slice(file[s], 0, watermark[s].end)
    /\ watermark[s].end > 0 => IsRangeOf(watermark[s], file[s])

(* The ledger and what runs loaded of it are prefixes of the transcript. *)
EntriesBegin ==
  \A s \in Source \ replaced :
    /\ Begins(ledger[s], file[s])
    /\ \A p \in Process : Begins(loaded[p][s], file[s])

(* Inside a transaction a run holds the lock, and the ledger is the one it
   loaded.                                                                  *)
HolderLoaded ==
  \A p \in Process : step[p] # "ready" => lock = p /\ loaded[p] = ledger

(* A request in flight continues the entry its run loaded; one for a transcript that
   was replaced starts over. *)
FromLoaded ==
  \A p \in Process :
    Requesting(p) =>
      LET r == request[p]  entry == loaded[p][r.src] IN
      /\ r.start > 0 => r.prefix = entry
      /\ r.src \notin replaced => r.start = Len(entry)

(* An unreadable ledger counts as lost. *)
CorruptIsLost == corrupt => ledgerLost

(* Whatever is left of an earlier transaction ends within the range the next
   one posts, since that one was cut later.                                 *)
PostedIsLongest ==
  \A p \in Process :
    Requesting(p) /\ Undisturbed(request[p].src) =>
      /\ watermark[request[p].src].end <= request[p].end
      /\ \A r \in stray :
           r.src = request[p].src /\ r.start = request[p].start
             => r.end <= request[p].end

(* The proof of a conflict is what the worker has now, and lies inside the range that
   was posted: the worker cannot have moved on while the run held the lock. *)
ConflictIsWatermark ==
  \A p \in Process :
    /\ step[p] = "answered" /\ answer[p].status = "conflict"
    /\ Undisturbed(request[p].src)
    => /\ answer[p].proof = watermark[request[p].src]
       /\ request[p].start < answer[p].proof.end
       /\ answer[p].proof.end < request[p].end

(* The delivery invariant. *)
DInv ==
  /\ WireCut
  /\ WireBehindWorker
  /\ WireBehindLedger
  /\ WorkerCopies
  /\ EntriesBegin
  /\ HolderLoaded
  /\ FromLoaded
  /\ CorruptIsLost
  /\ PostedIsLongest
  /\ ConflictIsWatermark
  /\ WorkerOneRangeAhead
-----------------------------------------------------------------------------
(* A range of a transcript is a range of what the transcript grows into. *)
LEMMA RangeStable ==
  ASSUME NEW f \in Seq(Byte), NEW g \in Seq(Byte), Begins(f, g), NEW x,
         x.start \in Nat, x.end \in Nat, IsRangeOf(x, f)
  PROVE  IsRangeOf(x, g)
<1> DEFINE start == x.start
           end == x.end
<1> HIDE DEF start, end
<1>1. /\ end \in RecordEnds(f, start)
      /\ end <= NextEnd(f, start)
      /\ x.content = Slice(f, start, end)
      /\ start \in Nat /\ end \in Nat
  BY DEF IsRangeOf, start, end
<1>2. start < end /\ end <= Len(f) /\ start <= end
  BY <1>1, RecordEndsBounds
<1>3. end \in RecordEnds(g, start)
  BY <1>1, RecordEndsStable
<1>4. HasRange(f, start) /\ HasRange(g, start)
  BY <1>1, <1>3 DEF HasRange
<1>5. NextEnd(f, start) <= NextEnd(g, start)
  BY <1>1, <1>4, NextEndGrows
<1>6. NextEnd(f, start) \in Nat /\ NextEnd(g, start) \in Nat
  BY <1>1, <1>4, NextEndIsRecordEnd, RecordEndsBounds
<1>7. Slice(g, start, end) = Slice(f, start, end)
  BY <1>1, <1>2, SliceStable
<1>8. end <= NextEnd(g, start)
  BY <1>1, <1>5, <1>6
<1>9. QED
  BY <1>1, <1>3, <1>7, <1>8 DEF IsRangeOf, start, end

(* So is a request. *)
LEMMA CutStable ==
  ASSUME NEW f \in Seq(Byte), NEW g \in Seq(Byte), Begins(f, g),
         NEW r \in Request, CutFrom(r, f)
  PROVE  CutFrom(r, g)
<1>1. r.start \in Nat /\ r.end \in Nat
  BY DEF Request
<1>2. IsRangeOf(r, g)
  BY <1>1, RangeStable DEF CutFrom
<1>3. /\ HasRange(f, r.start) /\ r.start <= Len(f)
  <2>1. r.end \in RecordEnds(f, r.start)
    BY DEF CutFrom, IsRangeOf
  <2>2. Len(f) \in Nat
    BY LenProperties
  <2>3. QED
    BY <1>1, <2>1, <2>2, RecordEndsBounds DEF HasRange
<1>4. Slice(g, 0, r.start) = Slice(f, 0, r.start)
  BY <1>1, <1>3, SliceStable
<1>5. FirstRecordEnd(g, r.start) = FirstRecordEnd(f, r.start)
  BY <1>1, <1>3, FirstRecordEndStable
<1>6. QED
  BY <1>2, <1>4, <1>5 DEF CutFrom

(* Requests on the wire are well formed. *)
LEMMA WireType ==
  ASSUME IInv, NEW r \in Wire
  PROVE  /\ r \in Request /\ WellFormed(r)
         /\ r.src \in Source /\ r.start \in Nat /\ r.end \in Nat
         /\ r.prefix \in Seq(Byte) /\ r.content \in Seq(Byte)
<1>1. r \in Request /\ WellFormed(r)
  BY DEF IInv, TypeOK, RequestsWellFormed, InFlight, Wire, Requesting
<1>2. QED
  BY <1>1 DEF Request

(* What a run has in flight is on the wire. *)
LEMMA RequestingWire ==
  ASSUME NEW p \in Process, Requesting(p)
  PROVE  request[p] \in Wire
BY DEF Wire

(* In the beginning nothing is on the wire and everything is empty. *)
LEMMA InitDInv == Init => DInv
<1> SUFFICES ASSUME Init PROVE DInv
  OBVIOUS
<1>1. Wire = {}
  BY DEF Init, Wire, Requesting
<1>2. <<>> \in Seq(Byte) /\ Begins(<<>>, <<>>)
  BY EmptySeq, BeginsOrder
<1>3. \A s \in Source :
        /\ file[s] = <<>> /\ archive[s] = <<>> /\ ledger[s] = <<>>
        /\ watermark[s].end = 0
        /\ Slice(file[s], 0, 0) = <<>>
        /\ Len(ledger[s]) = 0
  BY EmptySeq, SubSeqEmpty DEF Init, NothingRecorded, NoRange, Slice
<1>4. \A p \in Process : step[p] = "ready" /\ ~Requesting(p) /\
                         \A s \in Source : loaded[p][s] = <<>>
  BY DEF Init, NothingRecorded, Requesting
<1>5. WireCut /\ WireBehindWorker /\ WireBehindLedger
  BY <1>1 DEF WireCut, WireBehindWorker, WireBehindLedger
<1>6. WorkerCopies /\ EntriesBegin /\ WorkerOneRangeAhead
  BY <1>2, <1>3, <1>4 DEF WorkerCopies, EntriesBegin, WorkerOneRangeAhead
<1>7. HolderLoaded /\ FromLoaded /\ PostedIsLongest /\ ConflictIsWatermark
  BY <1>4 DEF HolderLoaded, FromLoaded, PostedIsLongest, ConflictIsWatermark
<1>8. CorruptIsLost
  BY DEF Init, CorruptIsLost
<1>9. QED
  BY <1>5, <1>6, <1>7, <1>8 DEF DInv
-----------------------------------------------------------------------------
(* A transcript that counts as undisturbed after a step has grown in it, if it changed. *)
LEMMA FilesGrow ==
  ASSUME IInv, [Next]_vars
  PROVE  \A s \in Source \ replaced' : s \notin replaced /\ Begins(file[s], file'[s])
<1> USE DEF disk, run, worker, history
<1>1. /\ file \in [Source -> Seq(Byte)]
      /\ \A s \in Source : Begins(file[s], file[s])
  BY BeginsOrder DEF IInv, TypeOK
<1>2. ASSUME UNCHANGED <<file, replaced>>
      PROVE  \A s \in Source \ replaced' : s \notin replaced /\ Begins(file[s], file'[s])
  BY <1>1, <1>2
<1>3. ASSUME NEW p \in Process, Collect(p) PROVE UNCHANGED <<file, replaced>>
  BY <1>3 DEF Collect, StartCollect, LockAndLoad, PostBatch, NothingToUpload,
              RecordAcknowledged, ReconcileWatermark, ConflictEndsRun, ScanRoots,
              NoCatchUp, EndTransaction
<1>4. ASSUME NEW p \in Process, Fault(p) PROVE UNCHANGED <<file, replaced>>
  BY <1>4 DEF Fault, DeadlineExceeded, Abandon, WorkerRefuses
<1>5. ASSUME NEW p \in Process, WorkerHandles(p) PROVE UNCHANGED <<file, replaced>>
  BY <1>5 DEF WorkerHandles
<1>6. ASSUME NEW r \in stray, WorkerHandlesStray(r) PROVE UNCHANGED <<file, replaced>>
  BY <1>6 DEF WorkerHandlesStray
<1>7. ASSUME NEW t \in Source, HostAppends(t)
      PROVE  \A s \in Source \ replaced' : s \notin replaced /\ Begins(file[s], file'[s])
  <2>1. PICK bytes \in Written : file' = [file EXCEPT ![t] = @ \o bytes]
    BY <1>7 DEF HostAppends
  <2>2. Begins(file[t], file[t] \o bytes)
    BY <1>1, WritesAreBytes, AppendedBegins
  <2>3. QED
    BY <1>1, <1>7, <2>1, <2>2 DEF HostAppends
<1>8. ASSUME NEW t \in Source, FileReplaced(t)
      PROVE  \A s \in Source \ replaced' : s \notin replaced /\ Begins(file[s], file'[s])
  BY <1>1, <1>8 DEF FileReplaced
<1>9. CASE Environment
  BY <1>2, <1>7, <1>8, <1>9 DEF Environment, FileLost, LedgerCorrupted
<1>10. CASE UNCHANGED vars
  BY <1>2, <1>10 DEF vars
<1>11. QED
  BY <1>2, <1>3, <1>4, <1>5, <1>6, <1>9, <1>10 DEF Next

(* The worker commits a request that is on the wire and contiguous, or
   nothing.                                                              *)
Commits(r) ==
  /\ ~IsDuplicate(r) /\ IsContiguous(r)
  /\ Commit(r)
  /\ UNCHANGED <<file, ledger, replaced, ledgerLost>>

(* The worker moves by a commit of something on the wire only. *)
LEMMA WorkerStep ==
  ASSUME IInv, [Next]_vars
  PROVE  UNCHANGED <<watermark, archive>> \/ \E r \in Wire : Commits(r)
<1> USE DEF disk, run, worker, history
<1>1. ASSUME NEW p \in Process, Collect(p) PROVE UNCHANGED <<watermark, archive>>
  BY <1>1 DEF Collect, StartCollect, LockAndLoad, PostBatch, NothingToUpload,
              RecordAcknowledged, ReconcileWatermark, ConflictEndsRun, ScanRoots,
              NoCatchUp, EndTransaction
<1>2. ASSUME NEW p \in Process, Fault(p) PROVE UNCHANGED <<watermark, archive>>
  BY <1>2 DEF Fault, DeadlineExceeded, Abandon, WorkerRefuses
<1>3. ASSUME NEW p \in Process, WorkerHandles(p)
      PROVE  UNCHANGED <<watermark, archive>> \/ \E r \in Wire : Commits(r)
  <2>1. request[p] \in Wire
    BY <1>3 DEF WorkerHandles, Requesting, Wire
  <2>2. UNCHANGED <<watermark, archive>> \/ Commits(request[p])
    BY <1>3 DEF WorkerHandles, Commits
  <2>3. QED
    BY <2>1, <2>2
<1>4. ASSUME NEW r \in stray, WorkerHandlesStray(r)
      PROVE  UNCHANGED <<watermark, archive>> \/ Commits(r)
  BY <1>4 DEF WorkerHandlesStray, Commits
<1>5. CASE Environment
  BY <1>5 DEF Environment, HostAppends, FileReplaced, FileLost, LedgerCorrupted
<1>6. CASE UNCHANGED vars
  BY <1>6 DEF vars
<1>7. QED
  BY <1>1, <1>2, <1>3, <1>4, <1>5, <1>6 DEF Next, Wire

(* Requests come onto the wire by PostBatch only. *)
LEMMA StrayStep ==
  ASSUME IInv, [Next]_vars
  PROVE  stray' \subseteq Wire
<1> USE DEF disk, run, worker, history
<1>1. ASSUME stray' \subseteq stray PROVE stray' \subseteq Wire
  BY <1>1 DEF Wire
<1>2. ASSUME NEW p \in Process, Collect(p) PROVE stray' = stray
  BY <1>2 DEF Collect, StartCollect, LockAndLoad, PostBatch, NothingToUpload,
              RecordAcknowledged, ReconcileWatermark, ConflictEndsRun, ScanRoots,
              NoCatchUp, EndTransaction
<1>3. ASSUME NEW p \in Process, Fault(p) PROVE stray' \subseteq Wire
  <2>1. \/ stray' = stray
        \/ step[p] = "posted" /\ stray' = stray \cup {request[p]}
    BY <1>3 DEF Fault, DeadlineExceeded, Abandon, WorkerRefuses
  <2>2. QED
    BY <2>1 DEF Wire, Requesting
<1>4. ASSUME NEW p \in Process, WorkerHandles(p) PROVE stray' = stray
  BY <1>4 DEF WorkerHandles
<1>5. ASSUME NEW r \in stray, WorkerHandlesStray(r) PROVE stray' \subseteq stray
  BY <1>5 DEF WorkerHandlesStray
<1>6. CASE Environment
  BY <1>1, <1>6 DEF Environment, HostAppends, FileReplaced, FileLost, LedgerCorrupted
<1>7. CASE UNCHANGED vars
  BY <1>1, <1>7 DEF vars
<1>8. QED
  BY <1>1, <1>2, <1>3, <1>4, <1>5, <1>6, <1>7 DEF Next

(* A run that has a request after a step had it before, or posts it. *)
LEMMA RequestingStep ==
  ASSUME IInv, [Next]_vars, NEW p \in Process, Requesting(p)'
  PROVE  \/ PostBatch(p) /\ step'[p] = "posted"
         \/ /\ Requesting(p)
            /\ request'[p] = request[p] /\ loaded'[p] = loaded[p]
            /\ Untouched(p) \/ IsAnswered(p)
<1>1. RunStep(p)
  BY AllRunsStep
<1>2. QED
  BY <1>1 DEF RunStep, Untouched, Cleared, Idles, Posts, IsAnswered, Requesting

(* What is on the wire was there before, or is posted. *)
LEMMA WireStep ==
  ASSUME IInv, [Next]_vars, NEW r \in Wire'
  PROVE  r \in Wire \/ \E p \in Process : PostBatch(p) /\ r = request'[p]
<1>1. CASE r \in stray'
  BY <1>1, StrayStep
<1>2. ASSUME NEW p \in Process, Requesting(p)', r = request'[p]
      PROVE  r \in Wire \/ PostBatch(p)
  BY <1>2, RequestingStep DEF Wire
<1>3. QED
  BY <1>1, <1>2 DEF Wire

(* The ledger moves when a run records a prefix of its request that the
   worker has, or when a corrupt one is replaced.                        *)
RecordsUpTo(p, end) ==
  LET r == request[p] IN
  /\ end \in Nat /\ r.start < end /\ end <= r.end
  /\ end <= watermark[r.src].end
  /\ \/ answer[p].status = "accepted" /\ end = r.end
     \/ /\ answer[p].status = "conflict" /\ end = answer[p].proof.end
        /\ answer[p].proof.start = r.start
        /\ SubSeq(r.content, 1, end - r.start) = answer[p].proof.content
  /\ ledger' = [loaded[p] EXCEPT ![r.src] = r.prefix \o SubSeq(r.content, 1, end - r.start)]

(* A run ends its transaction by recording. *)
Records(p) ==
  /\ step[p] = "answered" /\ step'[p] = "ready"
  /\ \E end \in Nat : RecordsUpTo(p, end)
  /\ \A q \in Process \ {p} : Untouched(q)
  /\ Release(p)
  /\ UNCHANGED <<file, watermark, archive, replaced, ledgerLost>>

(* An accepted request is recorded to its end. *)
LEMMA RecordAcknowledgedRecords ==
  ASSUME IInv, NEW p \in Process, RecordAcknowledged(p)
  PROVE  Records(p)
<1> DEFINE r == request[p]
<1>1. PICK nextPhase : EndTransaction(p, r.prefix \o r.content, nextPhase)
  BY DEF RecordAcknowledged
<1>2. step[p] = "answered" /\ answer[p].status = "accepted"
  BY DEF RecordAcknowledged
<1>3. r \in Wire
  BY <1>2 DEF Wire, Requesting
<1>4. /\ WellFormed(r) /\ r.src \in Source /\ r.start \in Nat /\ r.end \in Nat
      /\ r.content \in Seq(Byte)
  BY <1>3, WireType
<1>5. r.end <= watermark[r.src].end
  BY <1>2 DEF IInv, AnswersBehindWorker
<1>6. SubSeq(r.content, 1, r.end - r.start) = r.content
  BY <1>4, SubSeqFull DEF WellFormed
<1>7. RecordsUpTo(p, r.end)
  <2>1. r.start < r.end /\ r.end <= r.end
    BY <1>4 DEF WellFormed
  <2>2. ledger' = [loaded[p] EXCEPT ![r.src] = r.prefix \o SubSeq(r.content, 1, r.end - r.start)]
    BY <1>1, <1>6 DEF EndTransaction
  <2>3. QED
    BY <1>2, <1>4, <1>5, <2>1, <2>2 DEF RecordsUpTo
<1>8. step'[p] = "ready" /\ \A q \in Process \ {p} : Untouched(q)
  BY <1>1, EndTransactionClears DEF IInv, Cleared
<1>9. Release(p) /\ UNCHANGED <<file, watermark, archive, replaced, ledgerLost>>
  BY <1>1 DEF EndTransaction, worker, history
<1>10. QED
  BY <1>2, <1>4, <1>7, <1>8, <1>9 DEF Records

(* A conflict is recorded up to its proof. *)
LEMMA ReconcileWatermarkRecords ==
  ASSUME IInv, NEW p \in Process, ReconcileWatermark(p)
  PROVE  Records(p)
<1> DEFINE r == request[p]
           end == answer[p].proof.end
<1>1. EndTransaction(p, r.prefix \o SubSeq(r.content, 1, end - r.start), phase[p])
  BY DEF ReconcileWatermark
<1>2. step[p] = "answered" /\ answer[p].status = "conflict"
  BY DEF ReconcileWatermark
<1>3. r \in Wire
  BY <1>2 DEF Wire, Requesting
<1>4. r.src \in Source /\ r.start \in Nat /\ r.end \in Nat
  BY <1>3, WireType
<1>5. end <= watermark[r.src].end
  BY <1>2 DEF IInv, AnswersBehindWorker
<1>6. end \in Nat /\ r.start < end /\ end < r.end
  BY <1>2, ConflictHasProof
  DEF IInv, ReconcileWatermark, Reconcilable, CommittedRange
<1>7. /\ answer[p].proof.start = r.start
      /\ SubSeq(r.content, 1, end - r.start) = answer[p].proof.content
  BY DEF ReconcileWatermark, Reconcilable, ConflictIsAboutRequest
<1>8. RecordsUpTo(p, end)
  BY <1>1, <1>2, <1>4, <1>5, <1>6, <1>7 DEF RecordsUpTo, EndTransaction
<1>9. step'[p] = "ready" /\ \A q \in Process \ {p} : Untouched(q)
  BY <1>1, EndTransactionClears DEF IInv, Cleared
<1>10. Release(p) /\ UNCHANGED <<file, watermark, archive, replaced, ledgerLost>>
  BY <1>1 DEF EndTransaction, worker, history
<1>11. QED
  BY <1>2, <1>6, <1>8, <1>9, <1>10 DEF Records

(* The ledger stays, is quarantined, or is recorded by one run. *)
LEMMA LedgerMoves ==
  ASSUME IInv, [Next]_vars
  PROVE  \/ UNCHANGED ledger
         \/ corrupt /\ ledger' = NothingRecorded /\ UNCHANGED <<file, watermark, ledgerLost>>
         \/ \E p \in Process : Records(p)
<1> USE DEF disk, run, worker, history
<1>1. ASSUME NEW p \in Process, Collect(p)
      PROVE  \/ UNCHANGED ledger
             \/ corrupt /\ ledger' = NothingRecorded /\ UNCHANGED <<file, watermark, ledgerLost>>
             \/ Records(p)
  BY <1>1, RecordAcknowledgedRecords, ReconcileWatermarkRecords
  DEF Collect, StartCollect, LockAndLoad, PostBatch, NothingToUpload,
      ConflictEndsRun, ScanRoots, NoCatchUp
<1>2. ASSUME NEW p \in Process, Fault(p) PROVE UNCHANGED ledger
  BY <1>2 DEF Fault, DeadlineExceeded, Abandon, WorkerRefuses
<1>3. ASSUME NEW p \in Process, WorkerHandles(p) PROVE UNCHANGED ledger
  BY <1>3 DEF WorkerHandles
<1>4. ASSUME NEW r \in stray, WorkerHandlesStray(r) PROVE UNCHANGED ledger
  BY <1>4 DEF WorkerHandlesStray
<1>5. CASE Environment
  BY <1>5 DEF Environment, HostAppends, FileReplaced, FileLost, LedgerCorrupted
<1>6. CASE UNCHANGED vars
  BY <1>6 DEF vars
<1>7. QED
  BY <1>1, <1>2, <1>3, <1>4, <1>5, <1>6 DEF Next
-----------------------------------------------------------------------------
(* The lock: nobody but its holder is inside a transaction. *)
LEMMA HolderStep ==
  ASSUME IInv, HolderLoaded, [Next]_vars
  PROVE  HolderLoaded'
<1> USE DEF disk, run, worker, history
<1>1. TypeOK
  BY DEF IInv
<1>2. ASSUME NEW p \in Process, step'[p] = "ready", UNCHANGED ledger,
             \A q \in Process \ {p} : Untouched(q),
             lock' = lock \/ Release(p)
      PROVE  HolderLoaded'
  BY <1>2 DEF HolderLoaded, Untouched, Release
<1>3. ASSUME NEW p \in Process, Records(p) PROVE HolderLoaded'
  <2>1. \A q \in Process \ {p} : step[q] = "ready"
    BY <1>3 DEF HolderLoaded, Records
  <2>2. QED
    BY <1>3, <2>1 DEF Records, HolderLoaded, Untouched
<1>4. ASSUME NEW p \in Process, EndRun(p), UNCHANGED ledger PROVE HolderLoaded'
  <2>1. Cleared(p) /\ \A q \in Process \ {p} : Untouched(q)
    BY <1>1, <1>4, EndRunClears
  <2>2. QED
    BY <1>2, <1>4, <2>1 DEF EndRun, Cleared
<1>5. ASSUME NEW p \in Process, Collect(p) PROVE HolderLoaded'
  <2>1. CASE StartCollect(p)
    BY <1>1, <1>2, <2>1 DEF TypeOK, StartCollect, Goto, Untouched
  <2>2. CASE LockAndLoad(p)
    <3>1. \A q \in Process : step[q] = "ready"
      BY <2>2, NoProcessIsNone DEF LockAndLoad, HolderLoaded
    <3>2. lock' = p /\ loaded'[p] = ledger' /\ \A q \in Process \ {p} : step'[q] = "ready"
      BY <1>1, <2>2, <3>1 DEF TypeOK, LockAndLoad
    <3>3. QED
      BY <3>2 DEF HolderLoaded
  <2>3. CASE PostBatch(p)
    BY <1>1, <2>3 DEF TypeOK, PostBatch, HolderLoaded
  <2>4. CASE NothingToUpload(p)
    <3>1. CASE phase[p] = "idle"
      BY <1>4, <2>4, <3>1 DEF NothingToUpload
    <3>2. CASE phase[p] # "idle"
      BY <1>1, <1>2, <2>4, <3>2 DEF TypeOK, NothingToUpload, Goto, Untouched
    <3>3. QED
      BY <3>1, <3>2
  <2>5. CASE RecordAcknowledged(p)
    BY <1>3, <2>5, RecordAcknowledgedRecords
  <2>6. CASE ReconcileWatermark(p)
    BY <1>3, <2>6, ReconcileWatermarkRecords
  <2>7. CASE ConflictEndsRun(p)
    BY <1>4, <2>7 DEF ConflictEndsRun
  <2>8. CASE ScanRoots(p)
    BY <1>1, <1>2, <2>8 DEF TypeOK, ScanRoots, Goto, Untouched
  <2>9. CASE NoCatchUp(p)
    BY <1>4, <2>9 DEF NoCatchUp
  <2>10. QED
    BY <1>5, <2>1, <2>2, <2>3, <2>4, <2>5, <2>6, <2>7, <2>8, <2>9 DEF Collect
<1>6. ASSUME NEW p \in Process, Fault(p) PROVE HolderLoaded'
  BY <1>4, <1>6 DEF Fault, DeadlineExceeded, Abandon, WorkerRefuses
<1>7. ASSUME NEW p \in Process, WorkerHandles(p) PROVE HolderLoaded'
  <2>1. \A q \in Process : step'[q] # "ready" => step[q] # "ready"
    BY <1>1, <1>7 DEF TypeOK, WorkerHandles, Respond
  <2>2. UNCHANGED <<lock, loaded, ledger>>
    BY <1>7 DEF WorkerHandles
  <2>3. QED
    BY <2>1, <2>2 DEF HolderLoaded
<1>8. ASSUME UNCHANGED <<step, lock, loaded, ledger>> PROVE HolderLoaded'
  BY <1>8 DEF HolderLoaded
<1>9. ASSUME NEW r \in stray, WorkerHandlesStray(r) PROVE HolderLoaded'
  BY <1>8, <1>9 DEF WorkerHandlesStray
<1>10. CASE Environment
  BY <1>8, <1>10 DEF Environment, HostAppends, FileReplaced, FileLost, LedgerCorrupted
<1>11. CASE UNCHANGED vars
  BY <1>8, <1>11 DEF vars
<1>12. QED
  BY <1>5, <1>6, <1>7, <1>9, <1>10, <1>11 DEF Next

(* Two runs never have a request at the same time. *)
LEMMA OneRequester ==
  ASSUME HolderLoaded, NEW p \in Process, NEW q \in Process,
         Requesting(p), Requesting(q)
  PROVE  p = q
BY DEF HolderLoaded, Requesting

(* A corrupt ledger was lost, and what was lost stays lost. *)
LEMMA CorruptStep ==
  ASSUME CorruptIsLost, [Next]_vars
  PROVE  CorruptIsLost' /\ (ledgerLost => ledgerLost')
<1> USE DEF disk, run, worker, history
<1>1. ASSUME corrupt' => corrupt, UNCHANGED ledgerLost
      PROVE  CorruptIsLost' /\ (ledgerLost => ledgerLost')
  BY <1>1 DEF CorruptIsLost
<1>2. ASSUME NEW p \in Process, Collect(p) PROVE (corrupt' => corrupt) /\ UNCHANGED ledgerLost
  <2>1. UNCHANGED ledgerLost
    BY <1>2 DEF Collect, StartCollect, LockAndLoad, PostBatch, NothingToUpload,
                RecordAcknowledged, ReconcileWatermark, ConflictEndsRun, ScanRoots,
                NoCatchUp, EndTransaction
  <2>2. CASE LockAndLoad(p)
    BY <2>1, <2>2 DEF LockAndLoad
  <2>3. CASE ~LockAndLoad(p)
    <3>1. UNCHANGED corrupt
      BY <1>2, <2>3
      DEF Collect, StartCollect, PostBatch, NothingToUpload, RecordAcknowledged,
          ReconcileWatermark, ConflictEndsRun, ScanRoots, NoCatchUp, EndTransaction
    <3>2. QED
      BY <2>1, <3>1
  <2>4. QED
    BY <2>2, <2>3
<1>3. ASSUME NEW p \in Process, Fault(p) PROVE UNCHANGED <<corrupt, ledgerLost>>
  BY <1>3 DEF Fault, DeadlineExceeded, Abandon, WorkerRefuses
<1>4. ASSUME NEW p \in Process, WorkerHandles(p) PROVE UNCHANGED <<corrupt, ledgerLost>>
  BY <1>4 DEF WorkerHandles
<1>5. ASSUME NEW r \in stray, WorkerHandlesStray(r) PROVE UNCHANGED <<corrupt, ledgerLost>>
  BY <1>5 DEF WorkerHandlesStray
<1>6. CASE LedgerCorrupted
  BY <1>6 DEF LedgerCorrupted, CorruptIsLost
<1>7. CASE Environment
  BY <1>1, <1>6, <1>7 DEF Environment, HostAppends, FileReplaced, FileLost
<1>8. CASE UNCHANGED vars
  BY <1>1, <1>8 DEF vars
<1>9. QED
  BY <1>1, <1>2, <1>3, <1>4, <1>5, <1>7, <1>8 DEF Next
-----------------------------------------------------------------------------
(* What a run posts is cut from the file as it is, behind the ledger. *)
LEMMA NextRequestsCut ==
  ASSUME IInv, EntriesBegin, NEW p \in Process, SourcesWithEvents(p) # {},
         NEW r \in NextRequests(p)
  PROVE  /\ CutFrom(r, file[r.src])
         /\ r.end = NextEnd(file[r.src], r.start)
         /\ r.start <= Len(loaded[p][r.src])
         /\ r.start > 0 => r.prefix = loaded[p][r.src]
         /\ r.src \notin replaced => r.start = Len(loaded[p][r.src])
<1> DEFINE s == Least(SourcesWithEvents(p))
           f == file[s]
           entry == loaded[p][s]
           start == StartOffset(entry, f)
           end == NextEnd(f, start)
<1>1. s \in SourcesWithEvents(p)
  <2>1. SourcesWithEvents(p) \in SUBSET Nat
    BY PathsAreSources, SourceCountIsNat DEF IInv, SourcesWithEvents, Source
  <2>2. QED
    BY <2>1, LeastExists
<1>2. s \in Source /\ HasRange(f, start)
  BY <1>1, PathsAreSources DEF IInv, SourcesWithEvents, HasEvent
<1>3. f \in Seq(Byte) /\ entry \in Seq(Byte)
  BY <1>2 DEF IInv, TypeOK
<1>4. r \in [src : {s}, start : {start}, end : {end}, kind : KindsOf(f, start),
                content : {Slice(f, start, end)}, prefix : {Slice(f, 0, start)},
                reset : {IsReset(entry, f)}]
  BY DEF NextRequests
<1>5. s \notin replaced => Begins(entry, f)
  BY <1>2 DEF EntriesBegin
<1> HIDE DEF s, f, entry, start, end
<1>6. /\ r.src = s /\ r.start = start /\ r.end = end /\ r.kind \in KindsOf(f, start)
      /\ r.content = Slice(f, start, end) /\ r.prefix = Slice(f, 0, start)
  BY <1>4
<1>7. Len(entry) \in Nat
  BY <1>3, LenProperties
<1>8. /\ start \in Nat /\ start <= Len(entry)
      /\ start > 0 => Begins(entry, f) /\ start = Len(entry)
      /\ Begins(entry, f) => start = Len(entry)
  BY <1>7 DEF start, StartOffset, IsReset
<1>9. Begins(entry, f) => Slice(f, 0, Len(entry)) = entry
  BY <1>3, BeginsIsSlice
<1>10. end \in RecordEnds(f, start) /\ end \in Nat
  BY <1>2, <1>3, <1>8, NextEndIsRecordEnd, RecordEndsBounds DEF end, start
<1>11. r.kind = "oversized" => end = FirstRecordEnd(f, start)
  BY <1>2, <1>3, <1>6, <1>8, OversizedIsAlone DEF end, start
<1>12. CutFrom(r, f)
  BY <1>6, <1>10, <1>11 DEF CutFrom, IsRangeOf, end
<1>13. file[r.src] = f /\ loaded[p][r.src] = entry
  BY <1>6 DEF f, entry
<1>14. QED
  BY <1>5, <1>6, <1>8, <1>9, <1>12, <1>13 DEF end

(* A request that is posted was cut from the transcript as it is, to its next end. *)
LEMMA PostedRequest ==
  ASSUME IInv, EntriesBegin, NEW p \in Process, PostBatch(p)
  PROVE  /\ request'[p] \in Request /\ WellFormed(request'[p])
         /\ request'[p].src \in Source
         /\ request'[p].start \in Nat /\ request'[p].end \in Nat
         /\ CutFrom(request'[p], file[request'[p].src])
         /\ request'[p].end = NextEnd(file[request'[p].src], request'[p].start)
         /\ request'[p].start <= Len(loaded[p][request'[p].src])
         /\ request'[p].start > 0 => request'[p].prefix = loaded[p][request'[p].src]
         /\ request'[p].src \notin replaced =>
              request'[p].start = Len(loaded[p][request'[p].src])
         /\ UNCHANGED <<file, ledger, lock, loaded, watermark, archive, stray,
                        replaced, ledgerLost>>
<1>1. request'[p] \in NextRequests(p) /\ SourcesWithEvents(p) # {}
  BY DEF PostBatch, IInv, TypeOK
<1>2. request'[p] \in Request /\ WellFormed(request'[p])
  BY <1>1, NextRequestsType DEF IInv
<1>3. /\ request'[p].src \in Source
      /\ request'[p].start \in Nat /\ request'[p].end \in Nat
  BY <1>2 DEF Request
<1>4. UNCHANGED <<file, ledger, lock, loaded, watermark, archive, stray,
                  replaced, ledgerLost>>
  BY DEF PostBatch, disk, worker, history
<1>5. QED
  BY <1>1, <1>2, <1>3, <1>4, NextRequestsCut
-----------------------------------------------------------------------------
(* WireCut: old requests survive growth, new ones are cut from what there is. *)
LEMMA WireCutStep ==
  ASSUME IInv, IInv', DInv, [Next]_vars
  PROVE  WireCut'
<1>1. SUFFICES ASSUME NEW r \in Wire', r.src \notin replaced'
               PROVE  CutFrom(r, file'[r.src])
  BY DEF WireCut, CutFrom, IsRangeOf
<1>2. CASE r \in Wire
  <2>1. r \in Request /\ r.src \in Source
    BY <1>2, WireType
  <2>2. r.src \notin replaced /\ Begins(file[r.src], file'[r.src])
    BY <1>1, <2>1, FilesGrow
  <2>3. file[r.src] \in Seq(Byte) /\ file'[r.src] \in Seq(Byte)
    BY <2>1 DEF IInv, TypeOK
  <2>4. CutFrom(r, file[r.src])
    BY <1>2, <2>2 DEF DInv, WireCut
  <2>5. QED
    BY <2>1, <2>2, <2>3, <2>4, CutStable
<1>3. ASSUME NEW p \in Process, PostBatch(p), r = request'[p]
      PROVE  CutFrom(r, file'[r.src])
  <2>1. CutFrom(r, file[r.src]) /\ file' = file
    BY <1>3, PostedRequest DEF DInv
  <2>2. QED
    BY <2>1
<1>4. QED
  BY <1>1, <1>2, <1>3, WireStep

(* WireBehindWorker: a new request begins at the ledger, which is behind the worker. *)
LEMMA WireBehindWorkerStep ==
  ASSUME IInv, IInv', DInv, [Next]_vars
  PROVE  WireBehindWorker'
<1>1. SUFFICES ASSUME NEW r \in Wire'
               PROVE  r.start <= watermark'[r.src].end
  BY DEF WireBehindWorker
<1>2. \A s \in Source :
        /\ watermark[s].end \in Nat /\ watermark'[s].end \in Nat
        /\ watermark[s].end <= watermark'[s].end
  BY WatermarkGrows DEF IInv, TypeOK, CommittedRange
<1>3. CASE r \in Wire
  <2>1. r.start \in Nat /\ r.src \in Source
    BY <1>3, WireType
  <2>2. r.start <= watermark[r.src].end
    BY <1>3 DEF DInv, WireBehindWorker
  <2>3. QED
    BY <1>2, <2>1, <2>2
<1>4. ASSUME NEW p \in Process, PostBatch(p), r = request'[p]
      PROVE  r.start <= watermark'[r.src].end
  <2>1. /\ r.start \in Nat /\ r.src \in Source /\ watermark' = watermark
        /\ r.start <= Len(loaded[p][r.src])
    BY <1>4, PostedRequest DEF DInv
  <2>2. /\ Len(loaded[p][r.src]) \in Nat
        /\ Len(loaded[p][r.src]) <= watermark[r.src].end
    BY <2>1, LenProperties DEF IInv, TypeOK, LoadedBehindWorker
  <2>3. QED
    BY <1>2, <2>1, <2>2
<1>5. QED
  BY <1>3, <1>4, WireStep

(* A committed range continues the archive where it ends. *)
LEMMA CommitContinues ==
  ASSUME IInv, DInv, NEW r \in Wire, Commits(r)
  PROVE  /\ r.start = watermark[r.src].end
         /\ watermark' = [watermark EXCEPT ![r.src] =
                            [start |-> r.start, end |-> r.end, content |-> r.content]]
         /\ archive' = [archive EXCEPT ![r.src] = @ \o r.content]
<1>1. r.src \in Source /\ r.start \in Nat
  BY WireType
<1>2. watermark[r.src].end \in Nat
  BY <1>1 DEF IInv, TypeOK, CommittedRange
<1>3. r.start <= watermark[r.src].end
  BY DEF DInv, WireBehindWorker
<1>4. watermark[r.src].end = 0 \/ r.start = watermark[r.src].end
  BY DEF Commits, IsContiguous
<1>5. QED
  BY <1>1, <1>2, <1>3, <1>4 DEF Commits, Commit

(* The committed range, as the worker's new state. *)
LEMMA CommitExtends ==
  ASSUME IInv, DInv, NEW r \in Wire, Commits(r), r.src \notin replaced
  PROVE  /\ archive'[r.src] = Slice(file[r.src], 0, r.end)
         /\ watermark'[r.src] = [start |-> r.start, end |-> r.end, content |-> r.content]
         /\ IsRangeOf(watermark'[r.src], file[r.src])
         /\ r.start < r.end /\ r.end <= Len(file[r.src])
<1> DEFINE s == r.src
           f == file[s]
<1>1. /\ s \in Source /\ r.start \in Nat /\ r.end \in Nat
      /\ f \in Seq(Byte)
  BY WireType DEF IInv, TypeOK
<1>2. IsRangeOf(r, f) /\ archive[s] = Slice(f, 0, watermark[s].end)
  BY <1>1 DEF DInv, WireCut, CutFrom, WorkerCopies
<1>3. r.start < r.end /\ r.end <= Len(f)
  BY <1>1, <1>2, RecordEndsBounds DEF IsRangeOf
<1>4. /\ archive'[s] = archive[s] \o r.content
      /\ watermark'[s] = [start |-> r.start, end |-> r.end, content |-> r.content]
      /\ r.start = watermark[s].end
  <2>1. /\ r.start = watermark[r.src].end
        /\ watermark' = [watermark EXCEPT ![r.src] =
                            [start |-> r.start, end |-> r.end, content |-> r.content]]
        /\ archive' = [archive EXCEPT ![r.src] = @ \o r.content]
    BY CommitContinues
  <2>2. watermark \in [Source -> CommittedRange] /\ archive \in [Source -> Seq(Byte)]
    BY DEF IInv, TypeOK
  <2>3. QED
    BY <1>1, <2>1, <2>2
<1>5. archive'[s] = Slice(f, 0, r.start) \o Slice(f, r.start, r.end)
  BY <1>2, <1>4 DEF IsRangeOf
<1>6. Slice(f, 0, r.start) \o Slice(f, r.start, r.end) = Slice(f, 0, r.end)
  <2>1. 0 \in Nat /\ 0 <= r.start /\ r.start <= r.end
    BY <1>1, <1>3
  <2>2. QED
    BY <1>1, <1>3, <2>1, SlicesJoin
<1>7. IsRangeOf(watermark'[s], f)
  <2>1. /\ watermark'[s].start = r.start /\ watermark'[s].end = r.end
        /\ watermark'[s].content = r.content
    BY <1>4
  <2>2. QED
    BY <1>2, <2>1 DEF IsRangeOf
<1>8. QED
  BY <1>3, <1>4, <1>5, <1>6, <1>7

(* WorkerCopies: a commit is contiguous and carries the bytes of its range. *)
LEMMA WorkerCopiesStep ==
  ASSUME IInv, IInv', DInv, [Next]_vars
  PROVE  WorkerCopies'
<1>1. SUFFICES ASSUME NEW s \in Source \ replaced'
               PROVE  /\ archive'[s] = Slice(file'[s], 0, watermark'[s].end)
                      /\ watermark'[s].end > 0 => IsRangeOf(watermark'[s], file'[s])
  BY DEF WorkerCopies, IsRangeOf
<1>2. /\ s \notin replaced /\ Begins(file[s], file'[s])
      /\ file[s] \in Seq(Byte) /\ file'[s] \in Seq(Byte)
      /\ watermark[s].start \in Nat /\ watermark[s].end \in Nat
  BY <1>1, FilesGrow DEF IInv, TypeOK, CommittedRange
<1>3. /\ archive[s] = Slice(file[s], 0, watermark[s].end)
      /\ watermark[s].end > 0 => IsRangeOf(watermark[s], file[s])
  BY <1>2 DEF DInv, WorkerCopies
<1>4. CASE archive'[s] = archive[s] /\ watermark'[s] = watermark[s]
  <2>1. CASE watermark[s].end = 0
    BY <1>2, <1>3, <1>4, <2>1, SubSeqEmpty DEF Slice
  <2>2. CASE watermark[s].end > 0
    <3>1. IsRangeOf(watermark'[s], file'[s])
      BY <1>2, <1>3, <1>4, <2>2, RangeStable
    <3>2. watermark[s].end <= Len(file[s])
      <4>1. watermark[s].end \in RecordEnds(file[s], watermark[s].start)
        BY <1>3, <2>2 DEF IsRangeOf
      <4>2. QED
        BY <1>2, <4>1, RecordEndsBounds
    <3>3. Slice(file'[s], 0, watermark[s].end) = Slice(file[s], 0, watermark[s].end)
      <4>1. 0 \in Nat /\ 0 <= watermark[s].end
        BY <1>2
      <4>2. QED
        BY <1>2, <3>2, <4>1, SliceStable
    <3>4. QED
      BY <1>3, <1>4, <3>1, <3>3
  <2>3. QED
    BY <1>2, <2>1, <2>2
<1>5. ASSUME NEW r \in Wire, Commits(r), r.src = s
      PROVE  /\ archive'[s] = Slice(file'[s], 0, watermark'[s].end)
             /\ watermark'[s].end > 0 => IsRangeOf(watermark'[s], file'[s])
  <2>1. /\ archive'[s] = Slice(file[s], 0, r.end)
        /\ watermark'[s] = [start |-> r.start, end |-> r.end, content |-> r.content]
        /\ IsRangeOf(watermark'[s], file[s])
    BY <1>2, <1>5, CommitExtends
  <2>2. file' = file
    BY <1>5 DEF Commits
  <2>3. watermark'[s].end = r.end
    BY <2>1
  <2>4. QED
    BY <2>1, <2>2, <2>3
<1>6. ASSUME NEW r \in Wire, Commits(r), r.src # s
      PROVE  archive'[s] = archive[s] /\ watermark'[s] = watermark[s]
  <2>1. /\ watermark' = [watermark EXCEPT ![r.src] =
                            [start |-> r.start, end |-> r.end, content |-> r.content]]
        /\ archive' = [archive EXCEPT ![r.src] = @ \o r.content]
    BY <1>6, CommitContinues
  <2>2. watermark \in [Source -> CommittedRange] /\ archive \in [Source -> Seq(Byte)]
    BY DEF IInv, TypeOK
  <2>3. QED
    BY <1>1, <1>6, <2>1, <2>2
<1>7. CASE UNCHANGED <<watermark, archive>>
  BY <1>4, <1>7
<1>8. CASE \E r \in Wire : Commits(r)
  BY <1>4, <1>5, <1>6, <1>8
<1>9. QED
  BY <1>7, <1>8, WorkerStep
-----------------------------------------------------------------------------
(* What is recorded is the transcript up to the new end, and longer than before. *)
LEMMA RecordedEntry ==
  ASSUME IInv, DInv, NEW p \in Process, NEW end \in Nat,
         Requesting(p), RecordsUpTo(p, end), request[p].src \notin replaced
  PROVE  /\ request[p].src \in Source
         /\ ledger' = [ledger EXCEPT ![request[p].src] = Slice(file[request[p].src], 0, end)]
         /\ request[p].start = Len(ledger[request[p].src])
         /\ end <= Len(file[request[p].src])
         /\ Len(ledger[request[p].src]) < end
<1> DEFINE r == request[p]
           s == r.src
           f == file[s]
           start == r.start
<1>1. /\ r \in Wire
      /\ s \in Source /\ start \in Nat /\ r.end \in Nat
      /\ f \in Seq(Byte)
  BY RequestingWire, WireType DEF IInv, TypeOK
<1>2. CutFrom(r, f)
  BY <1>1 DEF DInv, WireCut
<1>3. loaded[p] = ledger
  BY DEF DInv, HolderLoaded, Requesting
<1>4. /\ start < end /\ end <= r.end
      /\ ledger' = [ledger EXCEPT ![s] = r.prefix \o SubSeq(r.content, 1, end - start)]
  BY <1>3 DEF RecordsUpTo
<1>5. start = Len(ledger[s])
  BY <1>3 DEF DInv, FromLoaded
<1>6. /\ r.end \in RecordEnds(f, start) /\ r.content = Slice(f, start, r.end)
      /\ r.prefix = Slice(f, 0, start)
  BY <1>2 DEF CutFrom, IsRangeOf
<1> HIDE DEF r, s, f, start
<1>7. r.end <= Len(f) /\ Len(f) \in Nat
  BY <1>1, <1>6, RecordEndsBounds, LenProperties
<1>8. end <= Len(f) /\ start <= end /\ 0 <= start /\ 0 \in Nat
  BY <1>1, <1>4, <1>7
<1>9. SubSeq(r.content, 1, end - start) = Slice(f, start, end)
  <2>1. SubSeq(Slice(f, start, r.end), 1, end - start) = Slice(f, start, end)
    BY <1>1, <1>4, <1>7, <1>8, SliceOfSlice
  <2>2. QED
    BY <1>6, <2>1
<1>10. Slice(f, 0, start) \o Slice(f, start, end) = Slice(f, 0, end)
  BY <1>1, <1>8, SlicesJoin
<1>11. ledger' = [ledger EXCEPT ![s] = Slice(f, 0, end)]
  BY <1>4, <1>6, <1>9, <1>10
<1>12. QED
  BY <1>1, <1>4, <1>5, <1>8, <1>11 DEF r, s, f, start

(* Forward only. *)
LEMMA LedgerForwardStep ==
  ASSUME IInv, DInv, [Next]_vars, NEW s \in Source,
         s \notin replaced', ~ledgerLost'
  PROVE  Undisturbed(s) /\ Begins(ledger[s], ledger'[s])
<1>1. s \notin replaced
  BY FilesGrow
<1>2. ~ledgerLost
  BY CorruptStep DEF DInv
<1>3. ~corrupt
  BY <1>2 DEF DInv, CorruptIsLost
<1>4. /\ ledger \in [Source -> Seq(Byte)]
      /\ ledger[s] \in Seq(Byte) /\ file[s] \in Seq(Byte)
      /\ Begins(ledger[s], file[s]) /\ Begins(ledger[s], ledger[s])
  BY <1>1, BeginsOrder DEF IInv, TypeOK, DInv, EntriesBegin
<1>5. ASSUME NEW p \in Process, Records(p) PROVE Begins(ledger[s], ledger'[s])
  <2>1. PICK end \in Nat : RecordsUpTo(p, end)
    BY <1>5 DEF Records
  <2>2. Requesting(p) /\ loaded[p] = ledger
    BY <1>5 DEF Records, Requesting, DInv, HolderLoaded
  <2>3. CASE request[p].src # s
    BY <1>4, <2>1, <2>2, <2>3 DEF RecordsUpTo
  <2>4. CASE request[p].src = s
    <3>1. /\ ledger'[s] = Slice(file[s], 0, end)
          /\ end <= Len(file[s]) /\ Len(ledger[s]) < end
      BY <1>1, <1>4, <2>1, <2>2, <2>4, RecordedEntry
    <3>2. ledger[s] = Slice(file[s], 0, Len(ledger[s])) /\ Len(ledger[s]) \in Nat
      BY <1>4, BeginsIsSlice
    <3>3. Len(ledger[s]) <= end
      BY <3>1, <3>2
    <3>4. Begins(Slice(file[s], 0, Len(ledger[s])), Slice(file[s], 0, end))
      BY <1>4, <3>1, <3>2, <3>3, SlicesBegin
    <3>5. QED
      BY <3>1, <3>2, <3>4
  <2>5. QED
    BY <2>3, <2>4
<1>6. Begins(ledger[s], ledger'[s])
  BY <1>3, <1>4, <1>5, LedgerMoves
<1>7. QED
  BY <1>1, <1>2, <1>6 DEF Undisturbed

(* EntriesBegin: prefixes survive growth, and what is recorded is one. *)
LEMMA EntriesBeginStep ==
  ASSUME IInv, IInv', DInv, [Next]_vars
  PROVE  EntriesBegin'
<1>1. SUFFICES ASSUME NEW s \in Source \ replaced'
               PROVE  /\ Begins(ledger'[s], file'[s])
                      /\ \A p \in Process : Begins(loaded'[p][s], file'[s])
  BY DEF EntriesBegin
<1>2. /\ s \in Source /\ s \notin replaced /\ Begins(file[s], file'[s])
      /\ file[s] \in Seq(Byte) /\ file'[s] \in Seq(Byte)
  BY <1>1, FilesGrow DEF IInv, TypeOK
<1>3. /\ ledger \in [Source -> Seq(Byte)]
      /\ ledger[s] \in Seq(Byte) /\ Begins(ledger[s], file[s])
  BY <1>2 DEF IInv, TypeOK, DInv, EntriesBegin
<1>4. ASSUME NEW p \in Process
      PROVE  loaded[p][s] \in Seq(Byte) /\ Begins(loaded[p][s], file[s])
  BY <1>2 DEF IInv, TypeOK, DInv, EntriesBegin
<1>5. ASSUME NEW entry \in Seq(Byte), Begins(entry, file[s])
      PROVE  Begins(entry, file'[s])
  BY <1>2, <1>5, BeginsOrder
<1>6. Begins(NothingRecorded[s], file'[s])
  BY <1>2, BeginsOrder DEF NothingRecorded
<1>7. ASSUME NEW p \in Process, Records(p) PROVE Begins(ledger'[s], file'[s])
  <2>1. PICK end \in Nat : RecordsUpTo(p, end)
    BY <1>7 DEF Records
  <2>2. Requesting(p) /\ loaded[p] = ledger
    BY <1>7 DEF Records, Requesting, DInv, HolderLoaded
  <2>3. CASE request[p].src # s
    <3>1. ledger'[s] = ledger[s]
      BY <1>3, <2>1, <2>2, <2>3 DEF RecordsUpTo
    <3>2. QED
      BY <1>3, <1>5, <3>1
  <2>4. CASE request[p].src = s
    <3>1. ledger'[s] = Slice(file[s], 0, end) /\ end <= Len(file[s])
      BY <1>2, <1>3, <2>1, <2>2, <2>4, RecordedEntry
    <3>2. end <= end
      OBVIOUS
    <3>3. Begins(Slice(file[s], 0, end), file[s])
      BY <1>2, <3>1, <3>2, SlicesBegin
    <3>4. file' = file
      BY <1>7 DEF Records
    <3>5. QED
      BY <3>1, <3>3, <3>4
  <2>5. QED
    BY <2>3, <2>4
<1>8. Begins(ledger'[s], file'[s])
  BY <1>3, <1>5, <1>6, <1>7, LedgerMoves
<1>9. ASSUME NEW p \in Process PROVE Begins(loaded'[p][s], file'[s])
  <2>1. loaded'[p] \in {loaded[p], NothingRecorded, ledger'}
    BY AllRunsStep DEF RunStep, Untouched, Cleared, Idles, Posts, IsAnswered
  <2>2. QED
    BY <1>4, <1>5, <1>6, <1>8, <2>1
<1>10. QED
  BY <1>8, <1>9

(* FromLoaded: a request continues what was loaded under the same lock. *)
LEMMA FromLoadedStep ==
  ASSUME IInv, DInv, [Next]_vars
  PROVE  FromLoaded'
<1>1. SUFFICES ASSUME NEW p \in Process, Requesting(p)'
               PROVE  LET r == request'[p]  entry == loaded'[p][r.src] IN
                      /\ r.start > 0 => r.prefix = entry
                      /\ r.src \notin replaced' => r.start = Len(entry)
  BY DEF FromLoaded
<1>2. CASE PostBatch(p)
  BY <1>2, PostedRequest DEF DInv
<1>3. CASE Requesting(p) /\ request'[p] = request[p] /\ loaded'[p] = loaded[p]
  <2>1. request[p].src \in Source
    BY <1>3, RequestingWire, WireType
  <2>2. request[p].src \notin replaced' => request[p].src \notin replaced
    BY <2>1, FilesGrow
  <2>3. QED
    BY <1>3, <2>2 DEF DInv, FromLoaded
<1>4. QED
  BY <1>1, <1>2, <1>3, RequestingStep

(* WireBehindLedger: the ledger never moves back. *)
LEMMA WireBehindLedgerStep ==
  ASSUME IInv, IInv', DInv, [Next]_vars
  PROVE  WireBehindLedger'
<1>1. SUFFICES ASSUME NEW r \in Wire', Undisturbed(r.src)'
               PROVE  r.start <= Len(ledger'[r.src])
  BY DEF WireBehindLedger, Undisturbed
<1>2. CASE r \in Wire
  <2>1. r.start \in Nat /\ r.src \in Source
    BY <1>2, WireType
  <2>2. Undisturbed(r.src) /\ Begins(ledger[r.src], ledger'[r.src])
    BY <1>1, <2>1, LedgerForwardStep DEF Undisturbed
  <2>3. r.start <= Len(ledger[r.src])
    BY <1>2, <2>2 DEF DInv, WireBehindLedger
  <2>4. /\ Len(ledger[r.src]) \in Nat /\ Len(ledger'[r.src]) \in Nat
        /\ Len(ledger[r.src]) <= Len(ledger'[r.src])
    BY <2>1, <2>2, LenProperties DEF IInv, TypeOK, Begins
  <2>5. QED
    BY <2>1, <2>3, <2>4
<1>3. ASSUME NEW p \in Process, PostBatch(p), r = request'[p]
      PROVE  r.start <= Len(ledger'[r.src])
  <2>1. r.start <= Len(loaded[p][r.src]) /\ ledger' = ledger
    BY <1>3, PostedRequest DEF DInv
  <2>2. loaded[p] = ledger
    BY <1>3 DEF PostBatch, DInv, HolderLoaded
  <2>3. QED
    BY <2>1, <2>2
<1>4. QED
  BY <1>2, <1>3, WireStep

(* While the ledger is behind the worker, nothing on the wire is contiguous. *)
LEMMA CommitsAtLedger ==
  ASSUME IInv, DInv, NEW r \in Wire, Commits(r), Undisturbed(r.src)
  PROVE  /\ r.start = Len(ledger[r.src])
         /\ watermark[r.src].end = Len(ledger[r.src])
<1>1. r.src \in Source /\ r.start \in Nat
  BY WireType
<1>2. /\ watermark[r.src].end \in Nat /\ Len(ledger[r.src]) \in Nat
      /\ Len(ledger[r.src]) <= watermark[r.src].end
  BY <1>1, LenProperties DEF IInv, TypeOK, CommittedRange, LedgerBehindWorker
<1>3. r.start = watermark[r.src].end
  BY CommitContinues
<1>4. r.start <= Len(ledger[r.src])
  BY DEF DInv, WireBehindLedger
<1>5. QED
  BY <1>1, <1>2, <1>3, <1>4

(* WorkerOneRangeAhead: a second range is posted only when the first is recorded. *)
LEMMA WorkerOneRangeAheadStep ==
  ASSUME IInv, IInv', DInv, [Next]_vars
  PROVE  WorkerOneRangeAhead'
<1>1. SUFFICES ASSUME NEW s \in Source, Undisturbed(s)',
                      watermark'[s].end > Len(ledger'[s])
               PROVE  watermark'[s].start = Len(ledger'[s])
  BY DEF WorkerOneRangeAhead, Undisturbed
<1>2. /\ Undisturbed(s) /\ s \notin replaced /\ ~ledgerLost /\ ~corrupt
      /\ watermark[s].end > Len(ledger[s]) => watermark[s].start = Len(ledger[s])
  BY <1>1, LedgerForwardStep DEF Undisturbed, DInv, CorruptIsLost, WorkerOneRangeAhead
<1>3. /\ ledger \in [Source -> Seq(Byte)] /\ watermark \in [Source -> CommittedRange]
      /\ file[s] \in Seq(Byte)
      /\ watermark[s].end \in Nat
  BY DEF IInv, TypeOK, CommittedRange
<1>4. ASSUME NEW r \in Wire, Commits(r)
      PROVE  watermark'[s].start = Len(ledger'[s])
  <2>1. /\ ledger' = ledger
        /\ watermark' = [watermark EXCEPT ![r.src] =
                           [start |-> r.start, end |-> r.end, content |-> r.content]]
    BY <1>4, CommitContinues DEF Commits
  <2>2. CASE r.src = s
    <3>1. r.start = Len(ledger[s])
      BY <1>2, <1>4, <2>2, CommitsAtLedger
    <3>2. watermark'[s] = [start |-> r.start, end |-> r.end, content |-> r.content]
      BY <1>3, <2>1, <2>2
    <3>3. QED
      BY <2>1, <3>1, <3>2
  <2>3. CASE r.src # s
    BY <1>1, <1>2, <1>3, <2>1, <2>3
  <2>4. QED
    BY <2>2, <2>3
<1>5. ASSUME NEW p \in Process, Records(p)
      PROVE  watermark'[s].start = Len(ledger'[s])
  <2>1. PICK end \in Nat : RecordsUpTo(p, end)
    BY <1>5 DEF Records
  <2>2. /\ Requesting(p) /\ loaded[p] = ledger /\ watermark' = watermark
        /\ step[p] = "answered"
    BY <1>5 DEF Records, Requesting, DInv, HolderLoaded
  <2>3. CASE request[p].src # s
    <3>1. ledger'[s] = ledger[s]
      BY <1>3, <2>1, <2>2, <2>3 DEF RecordsUpTo
    <3>2. QED
      BY <1>1, <1>2, <2>2, <3>1
  <2>4. CASE request[p].src = s
    <3>1. ledger'[s] = Slice(file[s], 0, end) /\ end <= Len(file[s])
      BY <1>2, <1>3, <2>1, <2>2, <2>4, RecordedEntry
    <3>2. Len(ledger'[s]) = end
      <4>1. 0 \in Nat /\ 0 <= end
        OBVIOUS
      <4>2. Len(Slice(file[s], 0, end)) = end - 0
        BY <1>3, <3>1, <4>1, SliceProperties
      <4>3. QED
        BY <3>1, <4>2
    <3>3. watermark[s].end = end
      <4>1. end <= watermark[s].end /\ watermark[s].end <= request[p].end
        BY <1>2, <2>1, <2>2, <2>4 DEF RecordsUpTo, DInv, PostedIsLongest
      <4>2. CASE answer[p].status = "accepted" /\ end = request[p].end
        BY <1>3, <4>1, <4>2
      <4>3. CASE answer[p].status = "conflict" /\ end = answer[p].proof.end
        BY <1>2, <2>2, <2>4, <4>3 DEF DInv, ConflictIsWatermark
      <4>4. QED
        BY <2>1, <4>2, <4>3 DEF RecordsUpTo
    <3>4. QED
      BY <1>1, <2>2, <3>2, <3>3
  <2>5. QED
    BY <2>3, <2>4
<1>6. CASE UNCHANGED <<watermark, ledger>>
  BY <1>1, <1>2, <1>6
<1>7. CASE \E r \in Wire : Commits(r)
  BY <1>4, <1>7
<1>8. CASE UNCHANGED watermark
  BY <1>2, <1>5, <1>6, <1>8, LedgerMoves
<1>9. QED
  BY <1>7, <1>8, WorkerStep

(* ConflictIsWatermark: an answer is given at the watermark; no other request of the
   same start reaches further, and none of a later start exists. *)
LEMMA ConflictIsWatermarkStep ==
  ASSUME IInv, IInv', DInv, [Next]_vars
  PROVE  ConflictIsWatermark'
<1>1. SUFFICES ASSUME NEW p \in Process,
                      step'[p] = "answered", answer'[p].status = "conflict",
                      request'[p].src \notin replaced', ~ledgerLost'
               PROVE  /\ answer'[p].proof = watermark'[request'[p].src]
                      /\ request'[p].start < answer'[p].proof.end
                      /\ answer'[p].proof.end < request'[p].end
  BY DEF ConflictIsWatermark, Undisturbed
<1> DEFINE r == request[p]
<1>2. /\ Requesting(p)
      /\ request'[p] = r /\ loaded'[p] = loaded[p]
      /\ Untouched(p) \/ IsAnswered(p)
  BY <1>1, RequestingStep DEF Requesting
<1>3. /\ r \in Wire /\ r.src \in Source
      /\ r.start \in Nat /\ r.end \in Nat
      /\ watermark[r.src].end \in Nat
  BY <1>2, RequestingWire, WireType DEF IInv, TypeOK, CommittedRange
<1>4. Undisturbed(r.src) /\ r.src \notin replaced
  BY <1>1, <1>2, <1>3, LedgerForwardStep DEF Undisturbed
<1>5. r.start = Len(ledger[r.src])
  BY <1>2, <1>4 DEF DInv, FromLoaded, HolderLoaded, Requesting
<1>6. CASE Untouched(p)
  <2>1. /\ answer[p].proof = watermark[r.src]
        /\ r.start < answer[p].proof.end
        /\ answer[p].proof.end < r.end
    BY <1>1, <1>4, <1>6 DEF Untouched, DInv, ConflictIsWatermark
  <2>2. ASSUME NEW x \in Wire, Commits(x) PROVE watermark'[r.src] = watermark[r.src]
    <3>1. watermark' = [watermark EXCEPT ![x.src] =
                          [start |-> x.start, end |-> x.end, content |-> x.content]]
      BY <2>2, CommitContinues
    <3>2. x.src # r.src
      <4>1. SUFFICES ASSUME x.src = r.src PROVE FALSE
        OBVIOUS
      <4>2. watermark[r.src].end = Len(ledger[r.src])
        BY <1>4, <2>2, <4>1, CommitsAtLedger
      <4>3. QED
        BY <1>3, <1>5, <2>1, <4>2
    <3>3. QED
      BY <1>3, <3>1, <3>2 DEF IInv, TypeOK
  <2>3. watermark'[r.src] = watermark[r.src]
    BY <2>2, WorkerStep
  <2>4. QED
    BY <1>2, <1>6, <2>1, <2>3 DEF Untouched
<1>7. CASE IsAnswered(p)
  <2>1. /\ WorkerHandles(p)
        /\ answer'[p] = Conflict(watermark'[r.src])
    BY <1>1, <1>7 DEF IsAnswered, Accepted
  <2>2. ~IsDuplicate(r) /\ ~IsContiguous(r) /\ watermark' = watermark
    <3>1. answer \in [Process -> Answer]
      BY DEF IInv, TypeOK
    <3>2. ~Respond(p, Accepted)
      BY <1>1, <3>1 DEF Respond, Accepted
    <3>3. QED
      BY <2>1, <3>2 DEF WorkerHandles
  <2>3. answer'[p].proof = watermark'[r.src]
    BY <2>1 DEF Conflict
  <2>4. r.start <= watermark[r.src].end
    BY <1>3 DEF DInv, WireBehindWorker
  <2>5. r.start < watermark[r.src].end /\ watermark[r.src].end < r.end
    BY <1>3, <2>2, <2>4 DEF IsDuplicate, IsContiguous
  <2>6. QED
    BY <1>2, <2>2, <2>3, <2>5
<1>8. QED
  BY <1>2, <1>6, <1>7

(* PostedIsLongest: a later cut of the same start is no shorter (NextEndGrows). *)
LEMMA PostedIsLongestStep ==
  ASSUME IInv, IInv', DInv, [Next]_vars
  PROVE  PostedIsLongest'
<1>1. SUFFICES ASSUME NEW p \in Process, Requesting(p)', request'[p].src \notin replaced', ~ledgerLost'
               PROVE  /\ watermark'[request'[p].src].end <= request'[p].end
                      /\ \A x \in stray' :
                           x.src = request'[p].src /\ x.start = request'[p].start
                             => x.end <= request'[p].end
  BY DEF PostedIsLongest, Undisturbed
<1>2. CASE PostBatch(p)
  <2> DEFINE r == request'[p]
             s == r.src
             f == file[s]
  <2>1. /\ WellFormed(r) /\ s \in Source /\ r.start \in Nat /\ r.end \in Nat
        /\ r.end = NextEnd(f, r.start)
        /\ s \notin replaced => r.start = Len(loaded[p][s])
        /\ CutFrom(r, f)
        /\ UNCHANGED <<file, ledger, watermark, stray, replaced, ledgerLost>>
    BY <1>2, PostedRequest DEF DInv
  <2>2. Undisturbed(s) /\ s \notin replaced
    BY <1>1, <2>1 DEF Undisturbed
  <2>3. loaded[p] = ledger
    BY <1>2 DEF PostBatch, DInv, HolderLoaded
  <2>4. r.start = Len(ledger[s]) /\ r.start < r.end
    BY <2>1, <2>2, <2>3 DEF WellFormed
  <2> HIDE DEF r, s, f
  <2>5. watermark[s].end \in Nat /\ watermark[s].start \in Nat
    BY <2>1 DEF IInv, TypeOK, CommittedRange
  <2>6. watermark[s].end <= r.end
    <3>1. CASE watermark[s].end > Len(ledger[s])
      <4>1. watermark[s].start = r.start
        BY <2>1, <2>2, <2>4, <3>1 DEF DInv, WorkerOneRangeAhead
      <4>2. watermark[s].end > 0
        BY <2>1, <2>4, <2>5, <3>1
      <4>3. IsRangeOf(watermark[s], f)
        BY <2>1, <2>2, <4>2 DEF DInv, WorkerCopies, f
      <4>4. watermark[s].end <= NextEnd(f, r.start)
        BY <4>1, <4>3 DEF IsRangeOf
      <4>5. QED
        BY <2>1, <4>4
    <3>2. CASE ~(watermark[s].end > Len(ledger[s]))
      BY <2>1, <2>4, <2>5, <3>2
    <3>3. QED
      BY <3>1, <3>2
  <2>7. ASSUME NEW x \in stray, x.src = s, x.start = r.start PROVE x.end <= r.end
    <3>1. x \in Wire
      BY DEF Wire
    <3>2. CutFrom(x, f)
      BY <2>2, <2>7, <3>1 DEF DInv, WireCut, f
    <3>3. x.end <= NextEnd(f, r.start)
      BY <2>7, <3>2 DEF CutFrom, IsRangeOf
    <3>4. QED
      BY <2>1, <3>3
  <2>8. QED
    BY <2>1, <2>6, <2>7 DEF r, s
<1>3. CASE Requesting(p) /\ request'[p] = request[p]
  <2> DEFINE r == request[p]
             s == r.src
  <2>1. /\ r \in Wire /\ s \in Source /\ r.start \in Nat /\ r.end \in Nat
        /\ watermark[s].end \in Nat
    BY <1>3, RequestingWire, WireType DEF IInv, TypeOK, CommittedRange
  <2>2. Undisturbed(s) /\ s \notin replaced
    BY <1>1, <1>3, <2>1, LedgerForwardStep DEF Undisturbed
  <2>3. r.start = Len(ledger[s])
    BY <1>3, <2>2 DEF DInv, FromLoaded, HolderLoaded, Requesting
  <2>4. watermark[s].end <= r.end
    BY <1>3, <2>2 DEF DInv, PostedIsLongest
  <2>5. ASSUME NEW x \in Wire, x.src = s, x.start = r.start PROVE x.end <= r.end
    <3>1. CASE x \in stray
      BY <1>3, <2>2, <2>5, <3>1 DEF DInv, PostedIsLongest
    <3>2. CASE x \notin stray
      <4>1. x = r
        BY <1>3, <3>2, OneRequester DEF Wire, DInv
      <4>2. QED
        BY <2>1, <4>1
    <3>3. QED
      BY <3>1, <3>2
  <2>6. \A x \in stray' : x.src = s /\ x.start = r.start => x.end <= r.end
    BY <2>5, StrayStep
  <2>7. ASSUME NEW x \in Wire, Commits(x) PROVE watermark'[s].end <= r.end
    <3>1. watermark' = [watermark EXCEPT ![x.src] =
                          [start |-> x.start, end |-> x.end, content |-> x.content]]
      BY <2>7, CommitContinues
    <3>2. watermark \in [Source -> CommittedRange]
      BY DEF IInv, TypeOK
    <3>3. CASE x.src # s
      BY <2>1, <2>4, <3>1, <3>2, <3>3
    <3>4. CASE x.src = s
      <4>1. x.start = r.start
        BY <2>2, <2>3, <2>7, <3>4, CommitsAtLedger
      <4>2. x.end <= r.end
        BY <2>5, <3>4, <4>1
      <4>3. watermark'[s].end = x.end
        BY <2>1, <3>1, <3>2, <3>4
      <4>4. QED
        BY <4>2, <4>3
    <3>5. QED
      BY <3>3, <3>4
  <2>8. watermark'[s].end <= r.end
    BY <2>4, <2>7, WorkerStep
  <2>9. QED
    BY <1>3, <2>6, <2>8
<1>4. QED
  BY <1>1, <1>2, <1>3, RequestingStep

(* Together: no step breaks the delivery invariant. *)
LEMMA DeliveryStep ==
  ASSUME IInv, IInv', DInv, [Next]_vars
  PROVE  DInv'
<1>1. HolderLoaded' /\ CorruptIsLost'
  BY HolderStep, CorruptStep DEF DInv
<1>2. WireCut' /\ WireBehindWorker' /\ WireBehindLedger'
  BY WireCutStep, WireBehindWorkerStep, WireBehindLedgerStep
<1>3. WorkerCopies' /\ EntriesBegin' /\ FromLoaded'
  BY WorkerCopiesStep, EntriesBeginStep, FromLoadedStep
<1>4. PostedIsLongest' /\ ConflictIsWatermark' /\ WorkerOneRangeAhead'
  BY PostedIsLongestStep, ConflictIsWatermarkStep, WorkerOneRangeAheadStep
<1>5. QED
  BY <1>1, <1>2, <1>3, <1>4 DEF DInv

(* Both invariants hold in every reachable state. *)
THEOREM DeliveryInvariance == Spec => [](IInv /\ DInv)
<1>1. Init => DInv
  BY InitDInv
<1>2. IInv /\ IInv' /\ DInv /\ [Next]_vars => DInv'
  BY DeliveryStep
<1>3. QED
  BY <1>1, <1>2, Invariance, PTL DEF Spec
-----------------------------------------------------------------------------
(* The archive as bytes, whatever was replaced, lost or refused.  The worker
   compares offsets only.  That a commit nevertheless continues the file it
   was cut from follows from what every request carries unseen: the bytes
   before its start, which are the beginning of the archive.                *)

(* The archive ends at the watermark. *)
ArchiveEndsAtWatermark == \A s \in Source : Len(archive[s]) = watermark[s].end

(* x is a range of the archive of s. *)
IsArchived(x, s) ==
  /\ x.start <= x.end /\ x.end <= Len(archive[s])
  /\ x.content = Slice(archive[s], x.start, x.end)

(* The last committed range is one. *)
WatermarkIsArchived == \A s \in Source : IsArchived(watermark[s], s)

(* What the ledger and the runs have of a source that was not mistaken. *)
EntriesAreCommitted ==
  \A s \in Source \ mistaken :
    /\ Begins(ledger[s], archive[s])
    /\ \A p \in Process : Begins(loaded[p][s], archive[s])

(* What lies before a request was committed. *)
WireFollowsArchive ==
  \A r \in Wire : r.src \notin mistaken => Begins(r.prefix, archive[r.src])

(* And so was what an answer says. *)
AnswersAreCommitted ==
  \A p \in Process :
    step[p] = "answered" /\ request[p].src \notin mistaken =>
      /\ answer[p].status = "accepted" =>
           Begins(Upto(request[p]), archive[request[p].src])
      /\ answer[p].status = "conflict" =>
           IsArchived(answer[p].proof, request[p].src)

(* A request was cut from one generation of its file. *)
WireOfOneGeneration ==
  \A r \in Wire :
    \E generation \in Generations(r.src) : Begins(Upto(r), generation)

OnlyReplacedMistaken == mistaken \subseteq replaced

(* The invariant of the bytes. *)
GInv ==
  /\ ArchiveEndsAtWatermark
  /\ WatermarkIsArchived
  /\ EntriesAreCommitted
  /\ WireFollowsArchive
  /\ AnswersAreCommitted
  /\ WireOfOneGeneration
  /\ ArchiveIsOneGeneration
  /\ OnlyReplacedMistaken

(* A sequence is all of itself. *)
LEMMA SliceFull ==
  ASSUME NEW f \in Seq(Byte)
  PROVE  Slice(f, 0, Len(f)) = f
<1>1. Begins(f, f)
  BY BeginsOrder
<1>2. QED
  BY <1>1, BeginsIsSlice

(* What is appended is the slice behind what was there. *)
LEMMA AppendedIsSlice ==
  ASSUME NEW f \in Seq(Byte), NEW x \in Seq(Byte)
  PROVE  /\ f \o x \in Seq(Byte) /\ Len(f \o x) = Len(f) + Len(x)
         /\ Slice(f \o x, Len(f), Len(f) + Len(x)) = x
<1> DEFINE g == f \o x
           y == Slice(g, Len(f), Len(f) + Len(x))
<1>1. /\ g \in Seq(Byte) /\ Len(g) = Len(f) + Len(x)
      /\ \A i \in 1 .. Len(f) + Len(x) :
           g[i] = IF i <= Len(f) THEN f[i] ELSE x[i - Len(f)]
  BY ConcatProperties
<1>2. Len(f) \in Nat /\ Len(x) \in Nat
  BY LenProperties
<1> HIDE DEF g
<1>3. /\ y \in Seq(Byte) /\ Len(y) = (Len(f) + Len(x)) - Len(f)
      /\ \A i \in 1 .. (Len(f) + Len(x)) - Len(f) : y[i] = g[Len(f) + i]
  <2>1. Len(f) + Len(x) \in Nat /\ Len(f) <= Len(f) + Len(x) /\ Len(f) + Len(x) <= Len(g)
    BY <1>1, <1>2
  <2>2. QED
    BY <1>1, <1>2, <2>1, SliceProperties
<1> HIDE DEF y
<1>4. Len(y) = Len(x) /\ \A i \in 1 .. Len(y) : y[i] = x[i]
  <2>1. Len(y) = Len(x)
    BY <1>2, <1>3
  <2>2. ASSUME NEW i \in 1 .. Len(y) PROVE y[i] = x[i]
    <3>1. /\ Len(f) + i \in 1 .. Len(f) + Len(x) /\ ~(Len(f) + i <= Len(f))
          /\ (Len(f) + i) - Len(f) = i /\ i \in 1 .. (Len(f) + Len(x)) - Len(f)
      BY <1>2, <2>1
    <3>2. g[Len(f) + i] = x[(Len(f) + i) - Len(f)]
      BY <1>1, <3>1
    <3>3. QED
      BY <1>3, <3>1, <3>2
  <2>3. QED
    BY <2>1, <2>2
<1>5. y = x
  BY <1>3, <1>4, SeqEqual
<1>6. QED
  BY <1>1, <1>5 DEF g, y

(* A beginning of a file that is as long as the file is the file. *)
LEMMA BeginsAll ==
  ASSUME NEW f \in Seq(Byte), NEW g \in Seq(Byte), Begins(f, g), Len(f) = Len(g)
  PROVE  f = g
<1>1. f = Slice(g, 0, Len(g))
  BY BeginsIsSlice
<1>2. QED
  BY <1>1, SliceFull

(* What a request was cut from one file begins that file. *)
LEMMA CutBegins ==
  ASSUME NEW r \in Request, NEW f \in Seq(Byte), CutFrom(r, f)
  PROVE  Upto(r) = Slice(f, 0, r.end) /\ r.end <= Len(f) /\ Begins(Upto(r), f)
<1>1. /\ r.start \in Nat /\ r.end \in Nat /\ r.start < r.end /\ r.end <= Len(f)
  BY RecordEndsBounds DEF Request, CutFrom, IsRangeOf
<1>2. Upto(r) = Slice(f, 0, r.start) \o Slice(f, r.start, r.end)
  BY DEF Upto, CutFrom, IsRangeOf
<1>3. 0 \in Nat /\ 0 <= r.start /\ r.start <= r.end /\ r.end <= r.end
  BY <1>1
<1>4. Upto(r) = Slice(f, 0, r.end)
  BY <1>1, <1>2, <1>3, SlicesJoin
<1>5. QED
  BY <1>1, <1>3, <1>4, SlicesBegin

(* Nothing is archived, claimed or on the wire at the start. *)
LEMMA InitGInv == Init => GInv
<1> SUFFICES ASSUME Init PROVE GInv
  OBVIOUS
<1>1. Wire = {}
  BY DEF Init, Wire, Requesting
<1>2. <<>> \in Seq(Byte) /\ Len(<<>>) = 0 /\ Begins(<<>>, <<>>)
  BY EmptySeq, BeginsOrder
<1>3. \A s \in Source :
        /\ file[s] = <<>> /\ archive[s] = <<>> /\ ledger[s] = <<>>
        /\ watermark[s] = NoRange
  BY DEF Init, NothingRecorded
<1>4. \A p \in Process : step[p] = "ready" /\ \A s \in Source : loaded[p][s] = <<>>
  BY DEF Init, NothingRecorded
<1>5. ArchiveEndsAtWatermark
  BY <1>2, <1>3 DEF ArchiveEndsAtWatermark, NoRange
<1>6. WatermarkIsArchived
  <2>1. Slice(<<>>, 0, 0) = <<>>
    BY <1>2, SliceFull
  <2>2. QED
    BY <1>2, <1>3, <2>1 DEF WatermarkIsArchived, IsArchived, NoRange
<1>7. EntriesAreCommitted /\ ArchiveIsOneGeneration
  BY <1>2, <1>3, <1>4 DEF EntriesAreCommitted, ArchiveIsOneGeneration, Generations
<1>8. WireFollowsArchive /\ WireOfOneGeneration
  BY <1>1 DEF WireFollowsArchive, WireOfOneGeneration
<1>9. AnswersAreCommitted /\ OnlyReplacedMistaken
  BY <1>4 DEF Init, AnswersAreCommitted, OnlyReplacedMistaken
<1>10. QED
  BY <1>5, <1>6, <1>7, <1>8, <1>9 DEF GInv

(* The archive only grows, and it does so by requests on the wire. *)
LEMMA ArchiveGrows ==
  ASSUME IInv, IInv', DInv, GInv, [Next]_vars, NEW s \in Source
  PROVE  /\ Begins(archive[s], archive'[s])
         /\ archive[s] \in Seq(Byte) /\ archive'[s] \in Seq(Byte)
<1>1. archive \in [Source -> Seq(Byte)] /\ archive[s] \in Seq(Byte) /\ archive'[s] \in Seq(Byte)
  BY DEF IInv, TypeOK
<1>2. ASSUME NEW r \in Wire, Commits(r) PROVE Begins(archive[s], archive'[s])
  <2>1. archive' = [archive EXCEPT ![r.src] = @ \o r.content]
    BY <1>2, CommitContinues
  <2>2. r.content \in Seq(Byte)
    BY WireType
  <2>3. Begins(archive[s], archive[s] \o r.content) /\ Begins(archive[s], archive[s])
    BY <1>1, <2>2, AppendedBegins, BeginsOrder
  <2>4. QED
    BY <1>1, <2>1, <2>3
<1>3. CASE UNCHANGED archive
  BY <1>1, <1>3, BeginsOrder
<1>4. QED
  BY <1>1, <1>2, <1>3, WorkerStep

(* A generation of a file grows or becomes an earlier one. *)
LEMMA GenerationsGrow ==
  ASSUME IInv, IInv', [Next]_vars, NEW s \in Source,
         NEW x \in Seq(Byte), NEW g \in Generations(s), Begins(x, g)
  PROVE  \E h \in Generations(s)' : Begins(x, h)
<1> USE DEF disk, run, worker, history
<1>1. /\ file \in [Source -> Seq(Byte)] /\ earlier \in [Source -> SUBSET Seq(Byte)]
      /\ g \in Seq(Byte) /\ file[s] \in Seq(Byte) /\ file'[s] \in Seq(Byte)
  BY DEF IInv, TypeOK, Generations
<1>2. ASSUME UNCHANGED <<file, earlier>> PROVE \E h \in Generations(s)' : Begins(x, h)
  BY <1>2 DEF Generations
<1>3. ASSUME NEW p \in Process, Collect(p) PROVE UNCHANGED <<file, earlier>>
  BY <1>3 DEF Collect, StartCollect, LockAndLoad, PostBatch, NothingToUpload,
              RecordAcknowledged, ReconcileWatermark, ConflictEndsRun, ScanRoots,
              NoCatchUp, EndTransaction
<1>4. ASSUME NEW p \in Process, Fault(p) PROVE UNCHANGED <<file, earlier>>
  BY <1>4 DEF Fault, DeadlineExceeded, Abandon, WorkerRefuses
<1>5. ASSUME NEW p \in Process, WorkerHandles(p) PROVE UNCHANGED <<file, earlier>>
  BY <1>5 DEF WorkerHandles
<1>6. ASSUME NEW r \in stray, WorkerHandlesStray(r) PROVE UNCHANGED <<file, earlier>>
  BY <1>6 DEF WorkerHandlesStray
<1>7. ASSUME NEW t \in Source, HostAppends(t)
      PROVE  \E h \in Generations(s)' : Begins(x, h)
  <2>1. PICK bytes \in Written : file' = [file EXCEPT ![t] = @ \o bytes]
    BY <1>7 DEF HostAppends
  <2>2. Begins(file[s], file'[s])
    BY <1>1, <2>1, WritesAreBytes, AppendedBegins, BeginsOrder
  <2>3. earlier' = earlier
    BY <1>7 DEF HostAppends
  <2>4. CASE g \in earlier[s]
    BY <2>3, <2>4 DEF Generations
  <2>5. CASE g = file[s]
    <3>1. Begins(x, file'[s])
      BY <1>1, <2>2, <2>5, BeginsOrder
    <3>2. QED
      BY <3>1 DEF Generations
  <2>6. QED
    BY <2>4, <2>5 DEF Generations
<1>8. ASSUME NEW t \in Source, FileReplaced(t)
      PROVE  \E h \in Generations(s)' : Begins(x, h)
  <2>1. earlier' = [earlier EXCEPT ![t] = @ \cup {file[t]}]
    BY <1>8 DEF FileReplaced
  <2>2. s # t => file'[s] = file[s]
    BY <1>1, <1>8 DEF FileReplaced
  <2>3. g \in earlier'[s] \cup {file'[s]}
    BY <1>1, <2>1, <2>2 DEF Generations
  <2>4. QED
    BY <2>3 DEF Generations
<1>9. CASE Environment
  BY <1>2, <1>7, <1>8, <1>9 DEF Environment, FileLost, LedgerCorrupted
<1>10. CASE UNCHANGED vars
  BY <1>2, <1>10 DEF vars
<1>11. QED
  BY <1>2, <1>3, <1>4, <1>5, <1>6, <1>9, <1>10 DEF Next

(* A source is mistaken, and replaced, once and for all; it becomes mistaken
   when a duplicate is accepted that the archive does not begin with.        *)
LEMMA MistakenMoves ==
  ASSUME IInv, [Next]_vars
  PROVE  /\ replaced \subseteq replaced'
         /\ \/ mistaken' = mistaken
            \/ \E p \in Process :
                 /\ WorkerHandles(p) /\ IsDuplicate(request[p])
                 /\ ~Begins(Upto(request[p]), archive[request[p].src])
                 /\ mistaken' = mistaken \cup {request[p].src}
<1> USE DEF disk, run, worker, history
<1>1. ASSUME NEW p \in Process, Collect(p) PROVE UNCHANGED <<replaced, mistaken>>
  BY <1>1 DEF Collect, StartCollect, LockAndLoad, PostBatch, NothingToUpload,
              RecordAcknowledged, ReconcileWatermark, ConflictEndsRun, ScanRoots,
              NoCatchUp, EndTransaction
<1>2. ASSUME NEW p \in Process, Fault(p) PROVE UNCHANGED <<replaced, mistaken>>
  BY <1>2 DEF Fault, DeadlineExceeded, Abandon, WorkerRefuses
<1>3. ASSUME NEW p \in Process, WorkerHandles(p)
      PROVE  /\ UNCHANGED replaced
             /\ \/ mistaken' = mistaken
                \/ /\ IsDuplicate(request[p])
                   /\ ~Begins(Upto(request[p]), archive[request[p].src])
                   /\ mistaken' = mistaken \cup {request[p].src}
  BY <1>3 DEF WorkerHandles
<1>4. ASSUME NEW r \in stray, WorkerHandlesStray(r) PROVE UNCHANGED <<replaced, mistaken>>
  BY <1>4 DEF WorkerHandlesStray
<1>5. CASE Environment
  BY <1>5 DEF Environment, HostAppends, FileReplaced, FileLost, LedgerCorrupted
<1>6. CASE UNCHANGED vars
  BY <1>6 DEF vars
<1>7. QED
  BY <1>1, <1>2, <1>3, <1>4, <1>5, <1>6 DEF Next

(* A commit of a source that was not mistaken leaves the worker with exactly
   what the request was cut from.                                            *)
LEMMA CommitIsUpto ==
  ASSUME IInv, IInv', DInv, GInv, NEW r \in Wire, Commits(r)
  PROVE  /\ r.src \in Source /\ r.start \in Nat /\ r.end \in Nat
         /\ r.start = Len(archive[r.src])
         /\ watermark'[r.src] = [start |-> r.start, end |-> r.end, content |-> r.content]
         /\ archive'[r.src] = archive[r.src] \o r.content
         /\ \A s \in Source \ {r.src} :
              archive'[s] = archive[s] /\ watermark'[s] = watermark[s]
         /\ r.src \notin mistaken => archive'[r.src] = Upto(r)
<1>1. /\ r.src \in Source /\ r.start \in Nat /\ r.end \in Nat
      /\ r.prefix \in Seq(Byte) /\ Len(r.prefix) = r.start
  BY WireType DEF WellFormed
<1>2. /\ r.start = watermark[r.src].end
      /\ watermark' = [watermark EXCEPT ![r.src] =
                         [start |-> r.start, end |-> r.end, content |-> r.content]]
      /\ archive' = [archive EXCEPT ![r.src] = @ \o r.content]
  BY CommitContinues
<1>3. watermark \in [Source -> CommittedRange] /\ archive \in [Source -> Seq(Byte)]
  BY DEF IInv, TypeOK
<1>4. /\ watermark'[r.src] = [start |-> r.start, end |-> r.end, content |-> r.content]
      /\ archive'[r.src] = archive[r.src] \o r.content
      /\ \A s \in Source \ {r.src} :
           archive'[s] = archive[s] /\ watermark'[s] = watermark[s]
  BY <1>1, <1>2, <1>3
<1>5. r.start = Len(archive[r.src])
  BY <1>1, <1>2 DEF GInv, ArchiveEndsAtWatermark
<1>6. ASSUME r.src \notin mistaken PROVE archive'[r.src] = Upto(r)
  <2>1. Begins(r.prefix, archive[r.src]) /\ archive[r.src] \in Seq(Byte)
    BY <1>1, <1>3, <1>6 DEF GInv, WireFollowsArchive
  <2>2. r.prefix = archive[r.src]
    BY <1>1, <1>5, <2>1, BeginsAll
  <2>3. QED
    BY <1>4, <2>2 DEF Upto
<1>7. QED
  BY <1>1, <1>4, <1>5, <1>6

(* The archive ends at the watermark, and holds its range. *)
LEMMA WatermarkStep ==
  ASSUME IInv, IInv', DInv, GInv, [Next]_vars
  PROVE  ArchiveEndsAtWatermark' /\ WatermarkIsArchived'
<1>1. SUFFICES ASSUME NEW s \in Source
               PROVE  /\ Len(archive'[s]) = watermark'[s].end
                      /\ watermark'[s].start <= watermark'[s].end
                      /\ watermark'[s].end <= Len(archive'[s])
                      /\ watermark'[s].content =
                           Slice(archive'[s], watermark'[s].start, watermark'[s].end)
  BY DEF ArchiveEndsAtWatermark, WatermarkIsArchived, IsArchived
<1>2. /\ Len(archive[s]) = watermark[s].end
      /\ watermark[s].start <= watermark[s].end /\ watermark[s].end <= Len(archive[s])
      /\ watermark[s].content = Slice(archive[s], watermark[s].start, watermark[s].end)
      /\ archive[s] \in Seq(Byte)
  BY DEF GInv, ArchiveEndsAtWatermark, WatermarkIsArchived, IsArchived, IInv, TypeOK
<1>3. ASSUME NEW r \in Wire, Commits(r), r.src = s
      PROVE  /\ Len(archive'[s]) = watermark'[s].end
             /\ watermark'[s].start <= watermark'[s].end
             /\ watermark'[s].end <= Len(archive'[s])
             /\ watermark'[s].content =
                  Slice(archive'[s], watermark'[s].start, watermark'[s].end)
  <2>1. /\ r.start \in Nat /\ r.end \in Nat /\ r.start < r.end
        /\ r.content \in Seq(Byte) /\ Len(r.content) = r.end - r.start
    BY WireType DEF WellFormed
  <2>2. /\ r.start = Len(archive[s])
        /\ watermark'[s] = [start |-> r.start, end |-> r.end, content |-> r.content]
        /\ archive'[s] = archive[s] \o r.content
    BY <1>3, CommitIsUpto
  <2>3. Len(archive[s]) + Len(r.content) = r.end
    BY <2>1, <2>2
  <2>4. Len(archive'[s]) = r.end /\ Slice(archive'[s], r.start, r.end) = r.content
    BY <1>2, <2>1, <2>2, <2>3, AppendedIsSlice
  <2>5. /\ watermark'[s].start = r.start /\ watermark'[s].end = r.end
        /\ watermark'[s].content = r.content
    BY <2>2
  <2>6. QED
    BY <2>1, <2>4, <2>5
<1>4. ASSUME NEW r \in Wire, Commits(r), r.src # s
      PROVE  archive'[s] = archive[s] /\ watermark'[s] = watermark[s]
  <2>1. s \in Source \ {r.src}
    BY <1>4
  <2>2. \A x \in Source \ {r.src} : archive'[x] = archive[x] /\ watermark'[x] = watermark[x]
    BY <1>4, CommitIsUpto
  <2>3. QED
    BY <2>1, <2>2
<1>5. CASE UNCHANGED <<watermark, archive>>
  BY <1>2, <1>5
<1>6. CASE \E r \in Wire : Commits(r)
  BY <1>2, <1>3, <1>4, <1>6
<1>7. QED
  BY <1>5, <1>6, WorkerStep

(* What is archived of a source stays where it is. *)
LEMMA ArchivedStays ==
  ASSUME IInv, IInv', DInv, GInv, [Next]_vars, NEW s \in Source,
         NEW x \in CommittedRange, IsArchived(x, s)
  PROVE  /\ x.start <= x.end /\ x.end <= Len(archive'[s])
         /\ x.content = Slice(archive'[s], x.start, x.end)
<1>1. /\ x.start \in Nat /\ x.end \in Nat /\ x.start <= x.end
      /\ x.end <= Len(archive[s])
      /\ x.content = Slice(archive[s], x.start, x.end)
  BY DEF CommittedRange, IsArchived
<1>2. /\ Begins(archive[s], archive'[s])
      /\ archive[s] \in Seq(Byte) /\ archive'[s] \in Seq(Byte)
  BY ArchiveGrows
<1>3. Slice(archive'[s], x.start, x.end) = Slice(archive[s], x.start, x.end)
  BY <1>1, <1>2, SliceStable
<1>4. Len(archive[s]) \in Nat /\ Len(archive'[s]) \in Nat /\ Len(archive[s]) <= Len(archive'[s])
  BY <1>2, LenProperties DEF Begins
<1>5. QED
  BY <1>1, <1>3, <1>4

(* Only a replaced transcript can be mistaken: all ranges of one that grew are
   ranges of what it is now, so the archive begins with a duplicate.         *)
LEMMA OnlyReplacedStep ==
  ASSUME IInv, IInv', DInv, GInv, [Next]_vars
  PROVE  OnlyReplacedMistaken' /\ mistaken \subseteq mistaken'
<1>1. /\ mistaken \subseteq replaced /\ replaced \subseteq replaced'
  BY MistakenMoves DEF GInv, OnlyReplacedMistaken
<1>2. ASSUME NEW p \in Process, WorkerHandles(p), IsDuplicate(request[p]),
             ~Begins(Upto(request[p]), archive[request[p].src])
      PROVE  request[p].src \in replaced
  <2> DEFINE r == request[p]
             f == file[r.src]
             copied == watermark[r.src].end
  <2>1. /\ r \in Wire /\ r \in Request /\ r.src \in Source
        /\ r.end \in Nat /\ copied \in Nat /\ f \in Seq(Byte)
    <3>1. r \in Wire
      BY <1>2 DEF WorkerHandles, Requesting, Wire
    <3>2. QED
      BY <3>1, WireType DEF IInv, TypeOK, CommittedRange
  <2>2. SUFFICES ASSUME r.src \notin replaced PROVE FALSE
    OBVIOUS
  <2>3. CutFrom(r, f) /\ archive[r.src] = Slice(f, 0, copied)
    BY <2>1, <2>2 DEF DInv, WireCut, WorkerCopies
  <2>4. r.end <= copied
    BY <1>2 DEF IsDuplicate
  <2>5. copied <= Len(f)
    <3>1. CASE copied = 0
      BY <2>1, <3>1, LenProperties
    <3>2. CASE copied > 0
      <4>1. IsRangeOf(watermark[r.src], f) /\ watermark[r.src].start \in Nat
        BY <2>1, <2>2, <3>2 DEF DInv, WorkerCopies, IInv, TypeOK, CommittedRange
      <4>2. copied \in RecordEnds(f, watermark[r.src].start)
        BY <4>1 DEF IsRangeOf
      <4>3. QED
        BY <2>1, <4>1, <4>2, RecordEndsBounds
    <3>3. QED
      BY <2>1, <3>1, <3>2
  <2>6. Upto(r) = Slice(f, 0, r.end)
    BY <2>1, <2>3, CutBegins
  <2>7. Begins(Slice(f, 0, r.end), Slice(f, 0, copied))
    BY <2>1, <2>4, <2>5, SlicesBegin
  <2>8. QED
    BY <1>2, <2>3, <2>6, <2>7
<1>3. QED
  BY <1>1, <1>2, MistakenMoves DEF OnlyReplacedMistaken

(* Requests keep the generation they were cut from; a new one is cut from the
   present one.                                                              *)
LEMMA WireOfOneGenerationStep ==
  ASSUME IInv, IInv', DInv, GInv, [Next]_vars
  PROVE  WireOfOneGeneration'
<1>1. SUFFICES ASSUME NEW r \in Wire'
               PROVE  \E h \in Generations(r.src)' : Begins(Upto(r), h)
  BY DEF WireOfOneGeneration, Upto
<1>2. CASE r \in Wire
  <2>1. PICK g \in Generations(r.src) : Begins(Upto(r), g)
    BY <1>2 DEF GInv, WireOfOneGeneration
  <2>2. r.src \in Source /\ Upto(r) \in Seq(Byte)
    BY <1>2, WireType, AcknowledgedEntry DEF Upto
  <2>3. QED
    BY <2>1, <2>2, GenerationsGrow
<1>3. ASSUME NEW p \in Process, PostBatch(p), r = request'[p]
      PROVE  \E h \in Generations(r.src)' : Begins(Upto(r), h)
  <2>1. /\ r \in Request /\ r.src \in Source /\ CutFrom(r, file[r.src])
        /\ file' = file
    BY <1>3, PostedRequest DEF DInv
  <2>2. Begins(Upto(r), file[r.src])
    BY <2>1, CutBegins DEF IInv, TypeOK
  <2>3. QED
    BY <2>1, <2>2 DEF Generations
<1>4. QED
  BY <1>2, <1>3, WireStep

(* What is committed comes from one generation, beginning to end. *)
LEMMA ArchiveIsOneGenerationStep ==
  ASSUME IInv, IInv', DInv, GInv, [Next]_vars
  PROVE  ArchiveIsOneGeneration'
<1>1. SUFFICES ASSUME NEW s \in Source, s \notin mistaken'
               PROVE  \E h \in Generations(s)' : Begins(archive'[s], h)
  BY DEF ArchiveIsOneGeneration
<1>2. s \notin mistaken
  BY <1>1, OnlyReplacedStep
<1>3. archive[s] \in Seq(Byte)
  BY DEF IInv, TypeOK
<1>4. CASE archive'[s] = archive[s]
  <2>1. PICK g \in Generations(s) : Begins(archive[s], g)
    BY <1>2 DEF GInv, ArchiveIsOneGeneration
  <2>2. QED
    BY <1>3, <1>4, <2>1, GenerationsGrow
<1>5. ASSUME NEW r \in Wire, Commits(r), r.src = s
      PROVE  \E h \in Generations(s)' : Begins(archive'[s], h)
  <2>1. archive'[s] = Upto(r) /\ Upto(r) \in Seq(Byte)
    BY <1>2, <1>5, CommitIsUpto, WireType, AcknowledgedEntry DEF Upto
  <2>2. PICK g \in Generations(s) : Begins(Upto(r), g)
    BY <1>5 DEF GInv, WireOfOneGeneration
  <2>3. QED
    BY <2>1, <2>2, GenerationsGrow
<1>6. ASSUME NEW r \in Wire, Commits(r), r.src # s
      PROVE  archive'[s] = archive[s]
  <2>1. s \in Source \ {r.src}
    BY <1>6
  <2>2. \A x \in Source \ {r.src} : archive'[x] = archive[x] /\ watermark'[x] = watermark[x]
    BY <1>6, CommitIsUpto
  <2>3. QED
    BY <2>1, <2>2
<1>7. CASE UNCHANGED archive
  BY <1>4, <1>7
<1>8. CASE \E r \in Wire : Commits(r)
  BY <1>4, <1>5, <1>6, <1>8
<1>9. QED
  BY <1>7, <1>8, WorkerStep

(* What the worker has stays before a request, and a new one follows what its
   run loaded of the ledger.                                                 *)
LEMMA WireFollowsArchiveStep ==
  ASSUME IInv, IInv', DInv, GInv, [Next]_vars
  PROVE  WireFollowsArchive'
<1>1. SUFFICES ASSUME NEW r \in Wire', r.src \notin mistaken'
               PROVE  Begins(r.prefix, archive'[r.src])
  BY DEF WireFollowsArchive
<1>2. r.src \notin mistaken
  BY <1>1, OnlyReplacedStep
<1>3. CASE r \in Wire
  <2>1. r.src \in Source /\ r.prefix \in Seq(Byte)
    BY <1>3, WireType
  <2>2. Begins(r.prefix, archive[r.src])
    BY <1>2, <1>3 DEF GInv, WireFollowsArchive
  <2>3. QED
    BY <2>1, <2>2, ArchiveGrows, BeginsOrder
<1>4. ASSUME NEW p \in Process, PostBatch(p), r = request'[p]
      PROVE  Begins(r.prefix, archive'[r.src])
  <2>1. /\ WellFormed(r) /\ r \in Request /\ r.src \in Source /\ r.start \in Nat
        /\ r.start > 0 => r.prefix = loaded[p][r.src]
        /\ archive' = archive
    BY <1>4, PostedRequest DEF DInv
  <2>2. archive[r.src] \in Seq(Byte) /\ r.prefix \in Seq(Byte)
    BY <2>1 DEF IInv, TypeOK, Request
  <2>3. CASE r.start > 0
    BY <1>2, <2>1, <2>3 DEF GInv, EntriesAreCommitted
  <2>4. CASE r.start = 0
    <3>1. r.prefix = <<>>
      BY <2>1, <2>2, <2>4, EmptySeq DEF WellFormed
    <3>2. QED
      BY <2>1, <2>2, <3>1, BeginsOrder
  <2>5. QED
    BY <2>1, <2>3, <2>4
<1>5. QED
  BY <1>3, <1>4, WireStep

(* What a run records was committed: all of an accepted request, or the part
   of it that the conflict's proof shows to be the end of the archive.       *)
LEMMA RecordedIsCommitted ==
  ASSUME IInv, GInv, NEW p \in Process, Records(p), request[p].src \notin mistaken
  PROVE  /\ request[p].src \in Source
         /\ ledger' = [loaded[p] EXCEPT ![request[p].src] = ledger'[request[p].src]]
         /\ Begins(ledger'[request[p].src], archive[request[p].src])
<1> DEFINE r == request[p]
           s == r.src
           a == archive[s]
<1>1. PICK end \in Nat : RecordsUpTo(p, end)
  BY DEF Records
<1>2. step[p] = "answered"
  BY DEF Records
<1>3. /\ r \in Wire /\ s \in Source /\ r.start \in Nat /\ r.end \in Nat
      /\ r.prefix \in Seq(Byte) /\ r.content \in Seq(Byte)
      /\ Len(r.prefix) = r.start /\ Len(r.content) = r.end - r.start
      /\ r.start < r.end /\ a \in Seq(Byte)
  <2>1. r \in Wire
    BY <1>2 DEF Wire, Requesting
  <2>2. QED
    BY <2>1, WireType DEF WellFormed, IInv, TypeOK
<1>4. /\ ledger' = [loaded[p] EXCEPT ![s] = r.prefix \o SubSeq(r.content, 1, end - r.start)]
      /\ loaded[p] \in [Source -> Seq(Byte)]
  BY <1>1 DEF RecordsUpTo, IInv, TypeOK
<1>5. ledger'[s] = r.prefix \o SubSeq(r.content, 1, end - r.start)
  BY <1>3, <1>4
<1>6. CASE answer[p].status = "accepted" /\ end = r.end
  <2>1. SubSeq(r.content, 1, end - r.start) = r.content
    BY <1>3, <1>6, SubSeqFull
  <2>2. Begins(Upto(r), a)
    BY <1>2, <1>6 DEF GInv, AnswersAreCommitted
  <2>3. QED
    BY <1>3, <1>4, <1>5, <2>1, <2>2 DEF Upto
<1>7. CASE answer[p].status = "conflict" /\ end = answer[p].proof.end
  <2> DEFINE proof == answer[p].proof
  <2>1. /\ proof.start = r.start
        /\ SubSeq(r.content, 1, end - r.start) = proof.content
    BY <1>1, <1>7 DEF RecordsUpTo
  <2>2. IsArchived(proof, s)
    BY <1>2, <1>7 DEF GInv, AnswersAreCommitted
  <2>3. r.start <= end /\ end <= Len(a) /\ proof.content = Slice(a, r.start, end)
    BY <1>7, <2>1, <2>2 DEF IsArchived
  <2>4. r.prefix = Slice(a, 0, r.start)
    <3>1. Begins(r.prefix, a)
      BY <1>3 DEF GInv, WireFollowsArchive
    <3>2. QED
      BY <1>3, <3>1, BeginsIsSlice
  <2> HIDE DEF proof, r, s, a
  <2>5. 0 \in Nat /\ 0 <= r.start /\ end <= end
    BY <1>3
  <2>6. Slice(a, 0, r.start) \o Slice(a, r.start, end) = Slice(a, 0, end)
    BY <1>3, <2>3, <2>5, SlicesJoin
  <2>7. Begins(Slice(a, 0, end), a)
    BY <1>3, <2>3, <2>5, SlicesBegin
  <2>8. ledger'[s] = Slice(a, 0, end)
    BY <1>5, <2>1, <2>3, <2>4, <2>6
  <2>9. QED
    BY <1>3, <1>4, <1>5, <2>7, <2>8 DEF r, s, a
<1>8. QED
  BY <1>1, <1>6, <1>7 DEF RecordsUpTo

(* The ledger, and what runs load of it, stay the beginning of the archive. *)
LEMMA EntriesAreCommittedStep ==
  ASSUME IInv, IInv', DInv, GInv, [Next]_vars
  PROVE  EntriesAreCommitted'
<1>1. SUFFICES ASSUME NEW s \in Source, s \notin mistaken'
               PROVE  /\ Begins(ledger'[s], archive'[s])
                      /\ \A p \in Process : Begins(loaded'[p][s], archive'[s])
  BY DEF EntriesAreCommitted
<1>2. s \notin mistaken
  BY <1>1, OnlyReplacedStep
<1>3. /\ Begins(archive[s], archive'[s])
      /\ archive[s] \in Seq(Byte) /\ archive'[s] \in Seq(Byte)
      /\ ledger[s] \in Seq(Byte) /\ ledger'[s] \in Seq(Byte)
      /\ \A p \in Process : loaded[p] \in [Source -> Seq(Byte)]
  BY ArchiveGrows DEF IInv, TypeOK
<1>4. ASSUME NEW x \in Seq(Byte), Begins(x, archive[s]) PROVE Begins(x, archive'[s])
  BY <1>3, <1>4, BeginsOrder
<1>5. /\ Begins(ledger[s], archive[s])
      /\ \A p \in Process : Begins(loaded[p][s], archive[s])
  BY <1>2 DEF GInv, EntriesAreCommitted
<1>6. Begins(NothingRecorded[s], archive'[s])
  BY <1>3, BeginsOrder DEF NothingRecorded
<1>7. ASSUME NEW p \in Process, Records(p) PROVE Begins(ledger'[s], archive'[s])
  <2>1. CASE request[p].src = s
    BY <1>2, <1>3, <1>4, <1>7, <2>1, RecordedIsCommitted
  <2>2. CASE request[p].src # s
    <3>1. ledger'[s] = loaded[p][s]
      BY <1>3, <1>7, <2>2 DEF Records, RecordsUpTo
    <3>2. QED
      BY <1>3, <1>4, <1>5, <3>1
  <2>3. QED
    BY <2>1, <2>2
<1>8. Begins(ledger'[s], archive'[s])
  BY <1>3, <1>4, <1>5, <1>6, <1>7, LedgerMoves
<1>9. ASSUME NEW p \in Process PROVE Begins(loaded'[p][s], archive'[s])
  <2>1. loaded'[p] \in {loaded[p], NothingRecorded, ledger'}
    BY AllRunsStep DEF RunStep, Untouched, Cleared, Idles, Posts, IsAnswered
  <2>2. loaded[p][s] \in Seq(Byte)
    BY <1>3
  <2>3. QED
    BY <1>4, <1>5, <1>6, <1>8, <2>1, <2>2
<1>10. QED
  BY <1>8, <1>9

(* An answer is true when it is given, and stays so. *)
LEMMA AnswersAreCommittedStep ==
  ASSUME IInv, IInv', DInv, GInv, [Next]_vars
  PROVE  AnswersAreCommitted'
<1>1. SUFFICES ASSUME NEW p \in Process, step'[p] = "answered",
                      request'[p].src \notin mistaken'
               PROVE  /\ answer'[p].status = "accepted" =>
                           Begins(Upto(request'[p]), archive'[request'[p].src])
                      /\ answer'[p].status = "conflict" =>
                           LET x == answer'[p].proof  a == archive'[request'[p].src] IN
                           /\ x.start <= x.end /\ x.end <= Len(a)
                           /\ x.content = Slice(a, x.start, x.end)
  BY DEF AnswersAreCommitted, IsArchived, Upto
<1> DEFINE r == request[p]
           s == r.src
<1>2. /\ Requesting(p) /\ request'[p] = r
      /\ Untouched(p) \/ IsAnswered(p)
  BY <1>1, RequestingStep DEF Requesting
<1>3. /\ r \in Wire /\ s \in Source /\ Upto(r) \in Seq(Byte)
      /\ watermark[s] \in CommittedRange
  BY <1>2, RequestingWire, WireType, AcknowledgedEntry DEF Upto, IInv, TypeOK
<1>4. s \notin mistaken
  BY <1>1, <1>2, OnlyReplacedStep
<1>5. ASSUME Begins(Upto(r), archive[s]) PROVE Begins(Upto(r), archive'[s])
  BY <1>3, <1>5, ArchiveGrows, BeginsOrder
<1>6. CASE Untouched(p)
  <2>1. step[p] = "answered" /\ answer'[p] = answer[p]
    BY <1>1, <1>6 DEF Untouched
  <2>2. CASE answer[p].status = "accepted"
    BY <1>2, <1>4, <1>5, <2>1, <2>2 DEF GInv, AnswersAreCommitted
  <2>3. CASE answer[p].status = "conflict"
    <3>1. IsArchived(answer[p].proof, s)
      BY <1>4, <2>1, <2>3 DEF GInv, AnswersAreCommitted
    <3>2. answer[p].proof \in CommittedRange
      BY <2>3, ConflictHasProof DEF IInv
    <3>3. QED
      BY <1>2, <1>3, <2>1, <2>3, <3>1, <3>2, ArchivedStays
  <2>4. QED
    BY <2>1, <2>2, <2>3
<1>7. CASE IsAnswered(p)
  <2>1. WorkerHandles(p) /\ answer \in [Process -> Answer]
    BY <1>7 DEF IsAnswered, IInv, TypeOK
  <2>2. CASE IsDuplicate(r) /\ Respond(p, Accepted)
             /\ mistaken' = IF Begins(Upto(r), archive[s]) THEN mistaken
                                                         ELSE mistaken \cup {s}
    <3>1. Begins(Upto(r), archive[s])
      BY <1>1, <1>2, <2>2
    <3>2. answer'[p] = Accepted
      BY <2>1, <2>2 DEF Respond
    <3>3. QED
      BY <1>2, <1>5, <3>1, <3>2 DEF Accepted
  <2>3. CASE ~IsDuplicate(r) /\ IsContiguous(r) /\ Commit(r) /\ Respond(p, Accepted)
    <3>1. answer'[p] = Accepted
      BY <2>1, <2>3 DEF Respond
    <3>2. Commits(r)
      BY <2>1, <2>3 DEF WorkerHandles, Commits, disk
    <3>3. archive'[s] = Upto(r)
      BY <1>3, <1>4, <3>2, CommitIsUpto
    <3>4. Begins(Upto(r), Upto(r))
      BY <1>3, BeginsOrder
    <3>5. QED
      BY <1>2, <3>1, <3>3, <3>4 DEF Accepted
  <2>4. CASE Respond(p, Conflict(watermark[s])) /\ UNCHANGED <<watermark, archive>>
    <3>1. answer'[p] = Conflict(watermark[s])
      BY <2>1, <2>4 DEF Respond
    <3>2. answer'[p].status = "conflict" /\ answer'[p].proof = watermark[s]
      BY <3>1 DEF Conflict
    <3>3. IsArchived(watermark[s], s)
      BY <1>3 DEF GInv, WatermarkIsArchived
    <3>4. QED
      BY <1>2, <2>4, <3>2, <3>3 DEF IsArchived
  <2>5. QED
    BY <2>1, <2>2, <2>3, <2>4 DEF WorkerHandles
<1>8. QED
  BY <1>2, <1>6, <1>7

(* Together: no step breaks the invariant of the bytes. *)
LEMMA BytesStep ==
  ASSUME IInv, IInv', DInv, GInv, [Next]_vars
  PROVE  GInv'
BY WatermarkStep, EntriesAreCommittedStep, WireFollowsArchiveStep,
   AnswersAreCommittedStep, WireOfOneGenerationStep, ArchiveIsOneGenerationStep,
   OnlyReplacedStep
DEF GInv

(* It holds in every reachable state. *)
THEOREM BytesInvariance == Spec => [](IInv /\ DInv /\ GInv)
<1>1. IInv /\ IInv' /\ DInv /\ GInv /\ [Next]_vars => GInv'
  BY BytesStep
<1>2. QED
  BY <1>1, InitGInv, DeliveryInvariance, PTL DEF Spec

(* With any number of collectors, sources, faults and mishaps the ledger claims
   only bytes the worker committed, except of a replaced transcript whose new
   bytes the worker took for a duplicate of the old ones.                      *)
THEOREM LedgerClaimsCommitted == Spec => []ClaimsAreCommitted
<1>1. GInv => ClaimsAreCommitted
  BY DEF GInv, OnlyReplacedMistaken, EntriesAreCommitted, ClaimsAreCommitted
<1>2. QED
  BY <1>1, BytesInvariance, PTL

(* And what the worker committed is the beginning of one generation of the file,
   with the same exception.                                                     *)
THEOREM GenerationsApart == Spec => []ArchiveIsOneGeneration
<1>1. GInv => ArchiveIsOneGeneration
  BY DEF GInv
<1>2. QED
  BY <1>1, BytesInvariance, PTL
-----------------------------------------------------------------------------
(* What the worker has of a transcript that only grew is a copy of its first
   records, and the ledger claims no other bytes.                            *)
LEMMA ArchiveCopies ==
  ASSUME IInv, DInv
  PROVE  ArchiveIsTranscript
<1>1. SUFFICES ASSUME NEW s \in Source \ replaced
               PROVE  /\ Begins(archive[s], file[s])
                      /\ archive[s] # <<>> => archive[s][Len(archive[s])] = Newline
                      /\ Len(archive[s]) = watermark[s].end
                      /\ Begins(ledger[s], archive[s])
  BY DEF ArchiveIsTranscript
<1> DEFINE f == file[s]
           end == watermark[s].end
           start == watermark[s].start
           entry == ledger[s]
<1>2. /\ f \in Seq(Byte) /\ end \in Nat /\ start \in Nat /\ entry \in Seq(Byte)
      /\ Len(entry) <= end
  BY DEF IInv, TypeOK, CommittedRange, LedgerBehindWorker
<1>3. /\ archive[s] = Slice(f, 0, end)
      /\ end > 0 => end \in RecordEnds(f, start)
      /\ Begins(entry, f)
  BY DEF DInv, WorkerCopies, EntriesBegin, IsRangeOf
<1> HIDE DEF f, end, start, entry
<1>4. Len(f) \in Nat /\ end <= Len(f) /\ (end > 0 => f[end] = Newline)
  <2>1. Len(f) \in Nat
    BY <1>2, LenProperties
  <2>2. CASE end = 0
    BY <2>1, <2>2
  <2>3. CASE end > 0
    BY <1>2, <1>3, <2>1, <2>3, RecordEndsBounds
  <2>4. QED
    BY <1>2, <2>2, <2>3
<1>5. 0 \in Nat /\ 0 <= end /\ end <= end
  BY <1>2
<1>6. /\ Len(Slice(f, 0, end)) = end - 0
      /\ \A i \in 1 .. end - 0 : Slice(f, 0, end)[i] = f[0 + i]
  BY <1>2, <1>4, <1>5, SliceProperties
<1>7. Len(Slice(f, 0, end)) = end
  BY <1>2, <1>6
<1>8. Begins(Slice(f, 0, end), f)
  BY <1>2, <1>4, <1>5, SlicesBegin
<1>9. Slice(f, 0, end) # <<>> => Slice(f, 0, end)[end] = Newline
  <2>1. CASE end = 0
    BY <2>1, SubSeqEmpty DEF Slice
  <2>2. CASE end > 0
    <3>1. end \in 1 .. end - 0 /\ 0 + end = end
      BY <1>2, <2>2
    <3>2. Slice(f, 0, end)[end] = f[end]
      BY <1>6, <3>1
    <3>3. QED
      BY <1>4, <2>2, <3>2
  <2>3. QED
    BY <1>2, <2>1, <2>2
<1>10. Begins(entry, Slice(f, 0, end))
  <2>1. entry = Slice(f, 0, Len(entry)) /\ Len(entry) \in Nat
    BY <1>2, <1>3, BeginsIsSlice
  <2>2. Begins(Slice(f, 0, Len(entry)), Slice(f, 0, end))
    BY <1>2, <1>4, <2>1, SlicesBegin
  <2>3. QED
    BY <2>1, <2>2
<1>11. QED
  BY <1>3, <1>7, <1>8, <1>9, <1>10 DEF f, end, entry

(* Every conflict an undisturbed transcript meets passes the checks of the code that
   reconciles it. *)
LEMMA ConflictsAreReconcilable ==
  ASSUME IInv, DInv
  PROVE  ConflictsReconcile
<1>1. SUFFICES ASSUME NEW p \in Process, step[p] = "answered",
                      answer[p].status = "conflict", Undisturbed(request[p].src)
               PROVE  Reconcilable(p, request[p], answer[p].proof)
  BY DEF ConflictsReconcile
<1> DEFINE r == request[p]
           s == r.src
           f == file[s]
           proof == answer[p].proof
           entry == loaded[p][s]
<1>2. /\ r \in Wire /\ r \in Request /\ WellFormed(r)
      /\ s \in Source /\ r.start \in Nat /\ r.end \in Nat
      /\ Requesting(p)
  BY <1>1, RequestingWire, WireType DEF Requesting
<1>3. s \notin replaced
  BY <1>1 DEF Undisturbed
<1>4. /\ proof = watermark[s] /\ r.start < proof.end /\ proof.end < r.end
  BY <1>1 DEF DInv, ConflictIsWatermark
<1>5. loaded[p] = ledger /\ r.start = Len(entry)
  BY <1>1, <1>2, <1>3 DEF DInv, HolderLoaded, FromLoaded
<1>6. /\ f \in Seq(Byte) /\ entry \in Seq(Byte) /\ Begins(entry, f)
      /\ proof.start \in Nat /\ proof.end \in Nat /\ r.kind \in Kind
  BY <1>2, <1>3, <1>4, <1>5
  DEF IInv, TypeOK, CommittedRange, DInv, EntriesBegin, Request
<1>7. CutFrom(r, f)
  BY <1>2, <1>3 DEF DInv, WireCut
<1>8. proof.start = r.start
  BY <1>1, <1>2, <1>4, <1>5, <1>6 DEF DInv, WorkerOneRangeAhead
<1>9. IsRangeOf(proof, f)
  BY <1>2, <1>3, <1>4, <1>6 DEF DInv, WorkerCopies
<1> HIDE DEF r, s, f, proof, entry
<1>10. /\ r.end \in RecordEnds(f, r.start) /\ proof.end \in RecordEnds(f, r.start)
       /\ r.content = Slice(f, r.start, r.end)
       /\ proof.content = Slice(f, r.start, proof.end)
       /\ r.prefix = Slice(f, 0, r.start)
  BY <1>7, <1>8, <1>9 DEF CutFrom, IsRangeOf
<1>11. r.prefix = entry
  BY <1>5, <1>6, <1>10, BeginsIsSlice
<1>12. r.kind = "range"
  <2>1. HasRange(f, r.start)
    BY <1>10 DEF HasRange
  <2>2. FirstRecordEnd(f, r.start) <= proof.end
    BY <1>2, <1>6, <1>10, <2>1, FirstRecordEndExists
  <2>3. r.end # FirstRecordEnd(f, r.start)
    BY <1>2, <1>4, <1>6, <2>2
  <2>4. r.kind # "oversized"
    BY <1>7, <2>3 DEF CutFrom
  <2>5. QED
    BY <1>6, <2>4 DEF Kind
<1>13. r.start <= proof.end /\ proof.end <= r.end /\ r.end <= Len(f) /\ f[proof.end] = Newline
  BY <1>2, <1>4, <1>6, <1>10, RecordEndsBounds
<1>14. SubSeq(r.content, 1, proof.end - r.start) = proof.content
  <2>1. SubSeq(Slice(f, r.start, r.end), 1, proof.end - r.start)
          = Slice(f, r.start, proof.end)
    BY <1>2, <1>6, <1>13, SliceOfSlice
  <2>2. QED
    BY <1>10, <2>1
<1>15. r.content[proof.end - proof.start] = Newline
  <2>1. r.start <= r.end /\ proof.end - r.start \in 1 .. r.end - r.start
    BY <1>2, <1>4, <1>6
  <2>2. \A i \in 1 .. r.end - r.start : Slice(f, r.start, r.end)[i] = f[r.start + i]
    BY <1>2, <1>6, <1>13, <2>1, SliceProperties
  <2>3. r.start + (proof.end - r.start) = proof.end
    BY <1>2, <1>6
  <2>4. QED
    BY <1>8, <1>10, <1>13, <2>1, <2>2, <2>3
<1>16. Reconcilable(p, r, proof)
  <2>1. loaded[p][r.src] = entry
    BY DEF entry, s
  <2>2. QED
    BY <1>4, <1>5, <1>8, <1>11, <1>12, <1>14, <1>15, <2>1
    DEF Reconcilable, ConflictIsAboutRequest
<1>17. QED
  BY <1>16 DEF r, proof

(* What the worker has of a transcript that only grew is a copy of its first records,
   whatever was posted twice, answered late, lost or refused. *)
THEOREM ArchiveFaithful == Spec => []ArchiveIsTranscript
<1>1. QED
  BY ArchiveCopies, DeliveryInvariance, PTL

(* Timeouts, late requests and competing collectors leave the worker at most one range
   ahead of the ledger. *)
THEOREM OneRangeAhead == Spec => []WorkerOneRangeAhead
<1>1. DInv => WorkerOneRangeAhead
  BY DEF DInv
<1>2. QED
  BY <1>1, DeliveryInvariance, PTL

(* A collector that meets a conflict can always reconcile its ledger with the worker:
   it never reports a conflict that will not go away. *)
THEOREM EveryConflictReconciles == Spec => []ConflictsReconcile
<1>1. QED
  BY ConflictsAreReconcilable, DeliveryInvariance, PTL

(* What the ledger acknowledges of an undisturbed transcript only grows. *)
THEOREM LedgerMovesForward == Spec => LedgerForwardOnly
<1>1. IInv /\ DInv /\ [Next]_vars
        => [\A s \in Source : Undisturbed(s)' => Begins(ledger[s], ledger'[s])]_vars
  BY LedgerForwardStep DEF Undisturbed
<1>2. QED
  BY <1>1, DeliveryInvariance, PTL DEF Spec, LedgerForwardOnly
-----------------------------------------------------------------------------
(* The collectors implement TranscriptDelivery as long as files only grow and
   the ledger is not lost.                                                   *)
OnlyGrown == replaced = {} /\ ~ledgerLost

(* What a host appends is a write of the abstract specification. *)
LEMMA AppendIsWrite ==
  ASSUME IInv, NEW s \in Source, HostAppends(s)
  PROVE  Delivery!Write(s) \/ UNCHANGED <<file, archive, ledger>>
<1>1. PICK bytes \in Written : file' = [file EXCEPT ![s] = @ \o bytes]
  BY DEF HostAppends
<1>2. /\ file \in [Source -> Seq(Byte)] /\ bytes \in Seq(Byte)
      /\ file[s] \in Seq(Byte)
  BY WritesAreBytes DEF IInv, TypeOK
<1>3. Begins(file[s], file'[s]) /\ file' = [file EXCEPT ![s] = file'[s]]
  BY <1>1, <1>2, AppendedBegins
<1>4. UNCHANGED <<archive, ledger>>
  BY DEF HostAppends, worker
<1>5. CASE file'[s] = file[s]
  BY <1>2, <1>3, <1>4, <1>5
<1>6. CASE file'[s] # file[s]
  BY <1>3, <1>4, <1>6 DEF Delivery!Write, Delivery!Extends, Delivery!Begins, Begins
<1>7. QED
  BY <1>5, <1>6

(* What the worker commits is a delivery of the next whole records. *)
LEMMA CommitIsDeliver ==
  ASSUME IInv, DInv, NEW r \in Wire, Commits(r), OnlyGrown
  PROVE  \E s \in Source : Delivery!Deliver(s)
<1> DEFINE s == r.src
           f == file[s]
<1>1. /\ s \in Source /\ r.start \in Nat /\ r.end \in Nat /\ f \in Seq(Byte)
      /\ s \notin replaced /\ Undisturbed(s)
  BY WireType DEF IInv, TypeOK, OnlyGrown, Undisturbed
<1>2. /\ archive'[s] = Slice(f, 0, r.end)
      /\ r.start < r.end /\ r.end <= Len(f)
  BY <1>1, CommitExtends
<1>3. r.end \in RecordEnds(f, r.start)
  BY <1>1 DEF DInv, WireCut, CutFrom, IsRangeOf
<1>4. archive' = [archive EXCEPT ![s] = archive'[s]]
  <2>1. archive \in [Source -> Seq(Byte)]
    BY DEF IInv, TypeOK
  <2>2. archive' = [archive EXCEPT ![s] = archive[s] \o r.content]
    BY CommitContinues
  <2>3. archive'[s] = archive[s] \o r.content
    BY <1>1, <2>1, <2>2
  <2>4. QED
    BY <2>2, <2>3
<1>5. archive[s] = Slice(f, 0, r.start)
  BY <1>1, CommitContinues DEF DInv, WorkerCopies
<1> HIDE DEF s, f
<1>6. /\ 0 \in Nat /\ 0 <= r.start /\ r.start <= Len(f) /\ 0 <= r.end
      /\ r.start <= r.end /\ Len(f) \in Nat
  BY <1>1, <1>2, LenProperties
<1>7. Len(archive[s]) = r.start /\ Len(archive'[s]) = r.end
  <2>1. Len(Slice(f, 0, r.start)) = r.start - 0 /\ Len(Slice(f, 0, r.end)) = r.end - 0
    BY <1>1, <1>2, <1>6, SliceProperties
  <2>2. QED
    BY <1>1, <1>2, <1>5, <2>1
<1>8. Begins(archive[s], archive'[s]) /\ archive[s] # archive'[s]
  <2>1. Begins(Slice(f, 0, r.start), Slice(f, 0, r.end))
    BY <1>1, <1>2, <1>6, SlicesBegin
  <2>2. Len(archive[s]) # Len(archive'[s])
    BY <1>1, <1>2, <1>7
  <2>3. QED
    BY <1>2, <1>5, <2>1, <2>2
<1>9. Delivery!Extends(archive[s], archive'[s])
  BY <1>8 DEF Delivery!Extends, Delivery!Begins, Begins
<1>10. r.end \in Delivery!RecordEnds(file[s], Len(archive[s]))
  BY <1>3, <1>7 DEF Delivery!RecordEnds, RecordEnds, f
<1>11. archive' = [archive EXCEPT ![s] = Delivery!Slice(file[s], 0, r.end)]
  BY <1>2, <1>4 DEF Delivery!Slice, Slice, f
<1>12. UNCHANGED <<file, ledger>>
  BY DEF Commits
<1>13. Delivery!Deliver(s)
  BY <1>9, <1>10, <1>11, <1>12 DEF Delivery!Deliver
<1>14. QED
  BY <1>1, <1>13

(* What a run records is an acknowledgement of delivered bytes. *)
LEMMA RecordIsAcknowledge ==
  ASSUME IInv, IInv', DInv, DInv', NEW p \in Process, Records(p), OnlyGrown
  PROVE  \E s \in Source : Delivery!Acknowledge(s)
<1>1. PICK end \in Nat : RecordsUpTo(p, end)
  BY DEF Records
<1> DEFINE s == request[p].src
           f == file[s]
           copied == watermark[s].end
<1>2. /\ s \in Source
      /\ ledger' = [ledger EXCEPT ![s] = Slice(f, 0, end)]
      /\ end <= Len(f) /\ Len(ledger[s]) < end /\ end <= copied
      /\ s \notin replaced
  BY <1>1, RecordedEntry DEF Records, Requesting, OnlyGrown, RecordsUpTo
<1>3. /\ f \in Seq(Byte) /\ copied \in Nat
      /\ ledger \in [Source -> Seq(Byte)] /\ ledger[s] \in Seq(Byte)
      /\ archive[s] = Slice(f, 0, copied)
      /\ copied > 0 => copied \in RecordEnds(f, watermark[s].start)
      /\ watermark[s].start \in Nat
      /\ Begins(ledger[s], f)
  BY <1>2 DEF IInv, TypeOK, CommittedRange, DInv, WorkerCopies, EntriesBegin, IsRangeOf
<1>4. UNCHANGED <<file, archive>>
  BY DEF Records
<1> HIDE DEF s, f, copied
<1>5. /\ Len(ledger[s]) \in Nat /\ Len(f) \in Nat /\ copied > 0
      /\ 0 \in Nat /\ 0 <= end /\ 0 <= copied
  BY <1>2, <1>3, LenProperties
<1>6. copied <= Len(f)
  BY <1>3, <1>5, RecordEndsBounds
<1>7. Len(archive[s]) = copied /\ Len(Slice(f, 0, end)) = end
  <2>1. Len(Slice(f, 0, copied)) = copied - 0 /\ Len(Slice(f, 0, end)) = end - 0
    BY <1>2, <1>3, <1>5, <1>6, SliceProperties
  <2>2. QED
    BY <1>3, <2>1
<1>8. SubSeq(archive[s], 1, end) = Slice(f, 0, end)
  <2>1. SubSeq(Slice(f, 0, copied), 1, end - 0) = Slice(f, 0, end)
    BY <1>2, <1>3, <1>5, <1>6, SliceOfSlice
  <2>2. QED
    BY <1>3, <2>1
<1>9. ledger'[s] = Slice(f, 0, end)
  BY <1>2, <1>3
<1>10. Begins(ledger[s], ledger'[s]) /\ ledger[s] # ledger'[s]
  <2>1. ledger[s] = Slice(f, 0, Len(ledger[s]))
    BY <1>3, BeginsIsSlice
  <2>2. Len(ledger[s]) <= end
    BY <1>2, <1>5
  <2>3. Begins(Slice(f, 0, Len(ledger[s])), Slice(f, 0, end))
    BY <1>2, <1>3, <1>5, <2>2, SlicesBegin
  <2>4. Len(ledger[s]) # Len(ledger'[s])
    BY <1>2, <1>5, <1>7, <1>9
  <2>5. QED
    BY <1>9, <2>1, <2>3, <2>4
<1>11. end \in (Len(ledger[s]) + 1) .. Len(archive[s])
  BY <1>2, <1>5, <1>7
<1>12. ledger' = [ledger EXCEPT ![s] = Delivery!Slice(archive[s], 0, end)]
  <2>1. Delivery!Slice(archive[s], 0, end) = Slice(f, 0, end)
    <3>1. 0 + 1 = 1
      OBVIOUS
    <3>2. Delivery!Slice(archive[s], 0, end) = SubSeq(archive[s], 1, end)
      BY <3>1 DEF Delivery!Slice
    <3>3. QED
      BY <1>8, <3>2
  <2>2. ledger' = [ledger EXCEPT ![s] = Slice(f, 0, end)]
    BY <1>2
  <2>3. QED
    BY <2>1, <2>2
<1>13. Delivery!Extends(ledger[s], ledger'[s])
  BY <1>10 DEF Delivery!Extends, Delivery!Begins, Begins
<1>14. Delivery!Acknowledge(s)
  BY <1>4, <1>11, <1>12, <1>13 DEF Delivery!Acknowledge
<1>15. QED
  BY <1>2, <1>14

(* The only steps that write a transcript: the hosts' own. *)
LEMMA FileMoves ==
  ASSUME [Next]_vars, OnlyGrown'
  PROVE  UNCHANGED file \/ \E s \in Source : HostAppends(s)
<1> USE DEF disk, run, worker, history
<1>1. ASSUME NEW p \in Process, Collect(p) PROVE UNCHANGED file
  BY <1>1 DEF Collect, StartCollect, LockAndLoad, PostBatch, NothingToUpload,
              RecordAcknowledged, ReconcileWatermark, ConflictEndsRun, ScanRoots,
              NoCatchUp, EndTransaction
<1>2. ASSUME NEW p \in Process, Fault(p) PROVE UNCHANGED file
  BY <1>2 DEF Fault, DeadlineExceeded, Abandon, WorkerRefuses
<1>3. ASSUME NEW p \in Process, WorkerHandles(p) PROVE UNCHANGED file
  BY <1>3 DEF WorkerHandles
<1>4. ASSUME NEW r \in stray, WorkerHandlesStray(r) PROVE UNCHANGED file
  BY <1>4 DEF WorkerHandlesStray
<1>5. ASSUME NEW s \in Source PROVE ~FileReplaced(s)
  BY DEF FileReplaced, OnlyGrown
<1>6. CASE Environment
  BY <1>5, <1>6 DEF Environment, FileLost, LedgerCorrupted
<1>7. CASE UNCHANGED vars
  BY <1>7 DEF vars
<1>8. QED
  BY <1>1, <1>2, <1>3, <1>4, <1>6, <1>7 DEF Next

(* Every step is a step of the abstract specification or leaves its state alone. *)
LEMMA StepIsDelivery ==
  ASSUME IInv, IInv', DInv, DInv', [Next]_vars, OnlyGrown, OnlyGrown'
  PROVE  [Delivery!Next]_(Delivery!vars)
<1> USE DEF disk, run, worker, history
<1>1. ~corrupt
  BY DEF DInv, CorruptIsLost, OnlyGrown
<1>2. ASSUME NEW s \in Source, HostAppends(s) PROVE [Delivery!Next]_(Delivery!vars)
  BY <1>2, AppendIsWrite DEF Delivery!Next, Delivery!vars
<1>3. ASSUME NEW r \in Wire, Commits(r) PROVE [Delivery!Next]_(Delivery!vars)
  BY <1>3, CommitIsDeliver DEF Delivery!Next
<1>4. ASSUME NEW p \in Process, Records(p) PROVE [Delivery!Next]_(Delivery!vars)
  BY <1>4, RecordIsAcknowledge DEF Delivery!Next
<1>5. CASE UNCHANGED <<file, archive, ledger>>
  BY <1>5 DEF Delivery!vars
<1>6. QED
  BY <1>1, <1>2, <1>3, <1>4, <1>5, FileMoves, WorkerStep, LedgerMoves

(* Initial states are initial states of the abstract specification. *)
LEMMA InitIsDelivery == Init => Delivery!Init
BY DEF Init, Delivery!Init, NothingRecorded

(* The collectors implement TranscriptDelivery while transcripts only grow and the
   ledger is not lost: the worker receives whole records, in order and once. *)
THEOREM DeliversInOrder == Spec /\ []OnlyGrown => IsDelivery
<1>1. IInv /\ DInv /\ IInv' /\ DInv' /\ [Next]_vars /\ OnlyGrown /\ OnlyGrown'
        => [Delivery!Next]_(Delivery!vars)
  BY StepIsDelivery
<1>2. QED
  BY <1>1, InitIsDelivery, DeliveryInvariance, PTL DEF Spec, IsDelivery, Delivery!Spec
=============================================================================
