--------------------------- MODULE TraceCollector ---------------------------
(***************************************************************************)
(* Native trace collection: collector processes on one machine upload the  *)
(* records of local transcripts to the worker and keep what it             *)
(* acknowledged in a shared ledger file (traces.py).                       *)
(*                                                                         *)
(* Each Process is the stream of hooks of one host session; a hook starts  *)
(* one collect run, which works on the session's own transcript first and  *)
(* on the transcripts found under the native roots afterwards.  One        *)
(* request is one ledger transaction: lock, load, select, post, record,    *)
(* unlock.                                                                 *)
(*                                                                         *)
(* The worker is the one of the repository's tests (_FakeWorkerHandler).   *)
(* Besides, it may refuse any request, and a request whose sender is gone  *)
(* may be handled at any later time or never.                              *)
(*                                                                         *)
(* Abstracted: a hook has at most one transcript (a subagent's hook may    *)
(* name its parent's, too); digests are the bytes they are taken of; an    *)
(* end offset is the length of the acknowledged prefix, so a ledger entry  *)
(* is that prefix and <<>> is no entry; a source is read in one step;      *)
(* batch metadata.                                                         *)
(***************************************************************************)
EXTENDS SourceRanges

CONSTANTS
  Process,        \* sessions whose hooks start collectors
  NoProcess,
  SourceCount,    \* sources are numbered in the order of their sorted paths
  TranscriptOf,   \* the hook's transcript of a process, 0 for none
  StartupHook,    \* the processes that collect with --include-active
  Written,        \* what a host may append to a transcript in one write
  Replacement,    \* what a transcript may be replaced by
  MaxFileBytes,   \* bound: the length of a transcript
  MaxFaults,      \* bound: deadlines, timeouts, crashes and refusals
  Mishap,         \* which can happen to files: "replaced", "lost", "corrupted"
  MaxMishaps      \* bound: how many of them happen

Source == 1 .. SourceCount

ASSUME SourceCountIsNat == SourceCount \in Nat
ASSUME NoProcessIsNone == NoProcess \notin Process
ASSUME TranscriptOfIsASource == TranscriptOf \in [Process -> {0} \cup Source]
ASSUME StartupHookIsOfProcesses == StartupHook \subseteq Process
ASSUME WritesAreBytes ==
  /\ Written \subseteq Seq(Byte)
  /\ Replacement \subseteq Seq(Byte)
ASSUME BoundsAreNat ==
  /\ MaxFileBytes \in Nat
  /\ MaxFaults \in Nat
  /\ MaxMishaps \in Nat

VARIABLES
  \* The disk of the machine.
  file,        \* the bytes of each transcript
  unreadable,  \* transcripts that vanished or lost read permission
  ledger,      \* per source, the acknowledged prefix the ledger file records
  corrupt,     \* the ledger file is not a valid ledger
  lock,        \* who holds the ledger's lock file
  catchUp,     \* FALSE: PROMPTLESS_HOST_RUNTIME_COLLECT_DEADLINE_SECONDS=0
  \* One collect run per process.
  phase,       \* "off", "first", "current", "scan", "idle"
  step,        \* within a phase: "ready", "locked", "posted", "answered"
  found,       \* the idle sources this run discovered
  loaded,      \* the SourceLedger read under the lock
  request,     \* the batch on the wire
  answer,      \* the worker's response to it
  \* The worker.
  watermark,   \* per source, the last range it committed
  archive,     \* per source, all the bytes it committed, in order
  stray,       \* requests still on the wire whose sender is gone
  \* History, for bounds and properties only.
  replaced,    \* transcripts whose earlier bytes changed at some time
  earlier,     \* per source, what was in the file when it was replaced
  mistaken,    \* sources of which bytes never committed were acknowledged
  ledgerLost,  \* the ledger file was corrupted at some time
  faults, mishaps

disk == <<file, unreadable, ledger, corrupt, catchUp>>
run == <<phase, step, found, loaded, request, answer>>
worker == <<watermark, archive, stray>>
history == <<replaced, earlier, mistaken, ledgerLost, faults, mishaps>>
vars == <<disk, lock, run, worker, history>>

Phase == {"off", "first", "current", "scan", "idle"}
Step == {"ready", "locked", "posted", "answered"}
Kind == {"range", "oversized"}

(* A batch holds one chunk (MAX_UPLOAD_CHUNKS_PER_BATCH).  prefix stands for
   source_prefix_sha256_at(start); reset says the path is in reset_sources.  *)
Request == [src : Source, start : Nat, end : Nat, kind : Kind,
            content : Seq(Byte), prefix : Seq(Byte), reset : BOOLEAN]
NoRequest == [src |-> 0]

(* The proof of a 409 is the worker's last committed range of the source. *)
CommittedRange == [start : Nat, end : Nat, content : Seq(Byte)]
NoRange == [start |-> 0, end |-> 0, content |-> <<>>]
NoAnswer == [status |-> "none"]
Accepted == [status |-> "accepted"]
(* Mistake: acknowledged_range is null, and the 409 is taken for a conflict. *)
ConflictWithoutProof(range) == [status |-> "conflict"]
Conflict(range) == [status |-> "conflict", proof |-> range]
Answer == {NoAnswer, Accepted} \cup [status : {"conflict"}, proof : CommittedRange]

NothingRecorded == [s \in Source |-> <<>>]

Init ==
  /\ file = [s \in Source |-> <<>>]
  /\ unreadable = {}
  /\ ledger = NothingRecorded
  /\ corrupt = FALSE
  /\ catchUp \in BOOLEAN
  /\ lock = NoProcess
  /\ phase = [p \in Process |-> "off"]
  /\ step = [p \in Process |-> "ready"]
  /\ found = [p \in Process |-> {}]
  /\ loaded = [p \in Process |-> NothingRecorded]
  /\ request = [p \in Process |-> NoRequest]
  /\ answer = [p \in Process |-> NoAnswer]
  /\ watermark = [s \in Source |-> NoRange]
  /\ archive = [s \in Source |-> <<>>]
  /\ stray = {}
  /\ replaced = {}
  /\ earlier = [s \in Source |-> {}]
  /\ mistaken = {}
  /\ ledgerLost = FALSE
  /\ faults = 0
  /\ mishaps = 0
-----------------------------------------------------------------------------
(* What a run of process p looks at in each phase. *)

OwnSources(p) == {TranscriptOf[p]} \ {0}
Paths(p) == IF phase[p] = "idle" THEN found[p] ELSE OwnSources(p)

(* Mistake: a file that is long enough is taken for the old one. *)
IsRewound(entry, content) == Len(content) < Len(entry)

(* Where reading a source starts: at the end of the acknowledged prefix, or
   at 0 when the file is now shorter (rewound) or no longer begins with that
   prefix (identity changed), which puts the path into reset_sources.        *)
IsReset(entry, content) == ~Begins(entry, content)
StartOffset(entry, content) == IF IsReset(entry, content) THEN 0 ELSE Len(entry)

(* A source that cannot be read yields nothing and does not stop the others. *)
HasEvent(p, s) ==
  /\ s \notin unreadable
  /\ HasRange(file[s], StartOffset(loaded[p][s], file[s]))

SourcesWithEvents(p) == {s \in Paths(p) : HasEvent(p, s)}

(* The first event of the first source that has one, in path order. *)
NextRequests(p) ==
  LET s == Least(SourcesWithEvents(p))
      start == StartOffset(loaded[p][s], file[s])
      end == NextEnd(file[s], start)
  IN [src : {s}, start : {start}, end : {end}, kind : KindsOf(file[s], start),
      content : {Slice(file[s], start, end)}, prefix : {Slice(file[s], 0, start)},
      reset : {IsReset(loaded[p][s], file[s])}]

(* The 409 says where its range starts; only the requested start will do. *)
ConflictIsAboutRequest(r, proof) == proof.start = r.start

(* Mistake: the record boundary is looked up at an offset of the file. *)
ReconcilableAtFileOffset(p, r, proof) ==
  LET entry == loaded[p][r.src] IN
  /\ ConflictIsAboutRequest(r, proof)
  /\ Len(entry) = r.start
  /\ r.start < proof.end /\ proof.end < r.end
  /\ r.prefix = entry
  /\ r.kind = "range"
  /\ SubSeq(r.content, 1, proof.end - proof.start) = proof.content
  /\ proof.end \in DOMAIN r.content /\ r.content[proof.end] = Newline

(* Reconciliation: the worker must stand strictly inside the requested range,
   have got there from the ledger's own offset, and hold the bytes that were
   just uploaded, up to the end of a record.                                 *)
Reconcilable(p, r, proof) ==
  LET entry == loaded[p][r.src] IN
  /\ ConflictIsAboutRequest(r, proof)
  /\ Len(entry) = r.start
  /\ r.start < proof.end /\ proof.end < r.end
  /\ r.prefix = entry
  /\ r.kind = "range"
  /\ SubSeq(r.content, 1, proof.end - proof.start) = proof.content
  /\ r.content[proof.end - proof.start] = Newline
-----------------------------------------------------------------------------
(* Steps of a collect run. *)

Goto(p, ph, st) ==
  /\ phase' = [phase EXCEPT ![p] = ph]
  /\ step' = [step EXCEPT ![p] = st]

Forget(p) ==
  /\ request' = [request EXCEPT ![p] = NoRequest]
  /\ answer' = [answer EXCEPT ![p] = NoAnswer]

(* The with-block of the lock ends, whichever way. *)
Release(p) == lock' = IF lock = p THEN NoProcess ELSE lock

(* The run ends, whatever it was doing. *)
EndRun(p) ==
  /\ Goto(p, "off", "ready")
  /\ Release(p)
  /\ Forget(p)
  /\ found' = [found EXCEPT ![p] = {}]
  /\ loaded' = [loaded EXCEPT ![p] = NothingRecorded]

(* Mistake: one deadline for all phases. *)
TimeLeftOfCatchUp(p) == catchUp

(* Catch-up work starts only with time left on its own deadline. *)
TimeLeft(p) == phase[p] = "first" \/ catchUp

(* A hook fires.  Without a transcript both loops over the current paths are
   empty.                                                                    *)
StartCollect(p) ==
  /\ phase[p] = "off"
  /\ Goto(p, IF OwnSources(p) = {} THEN "scan" ELSE "first", "ready")
  /\ UNCHANGED <<disk, lock, found, loaded, request, answer, worker, history>>

(* Mistake: the ledger is loaded whether or not the lock was acquired. *)
LoadWithoutLock(p) ==
  /\ phase[p] \in {"first", "current", "idle"} /\ step[p] = "ready"
  /\ TimeLeft(p)
  /\ Paths(p) # {}
  /\ lock' = p
  /\ step' = [step EXCEPT ![p] = "locked"]
  /\ ledger' = IF corrupt THEN NothingRecorded ELSE ledger
  /\ loaded' = [loaded EXCEPT ![p] = ledger']
  /\ corrupt' = FALSE
  /\ UNCHANGED <<file, unreadable, catchUp, phase, found, request, answer, worker, history>>

(* _source_ledger_lock and _load_source_ledger.  A ledger that does not parse
   is renamed away, and the run goes on with an empty one.                   *)
LockAndLoad(p) ==
  /\ phase[p] \in {"first", "current", "idle"} /\ step[p] = "ready"
  /\ TimeLeft(p)
  /\ Paths(p) # {}
  /\ lock = NoProcess
  /\ lock' = p
  /\ step' = [step EXCEPT ![p] = "locked"]
  /\ ledger' = IF corrupt THEN NothingRecorded ELSE ledger
  /\ loaded' = [loaded EXCEPT ![p] = ledger']
  /\ corrupt' = FALSE
  /\ UNCHANGED <<file, unreadable, catchUp, phase, found, request, answer, worker, history>>

PostBatch(p) ==
  /\ step[p] = "locked"
  /\ SourcesWithEvents(p) # {}
  /\ \E r \in NextRequests(p) : request' = [request EXCEPT ![p] = r]
  /\ step' = [step EXCEPT ![p] = "posted"]
  /\ UNCHANGED <<disk, lock, phase, found, loaded, answer, worker, history>>

(* No batch: the loop breaks and the phase is over.  Writing the ledger back,
   which happens when there is drift to report, changes none of its entries. *)
NothingToUpload(p) ==
  /\ step[p] = "locked"
  /\ SourcesWithEvents(p) = {}
  /\ IF phase[p] = "idle" THEN EndRun(p)
     ELSE /\ Goto(p, IF phase[p] = "first" THEN "current" ELSE "scan", "ready")
          /\ Release(p)
          /\ loaded' = [loaded EXCEPT ![p] = NothingRecorded]
          /\ UNCHANGED <<found, request, answer>>
  /\ UNCHANGED <<disk, worker, history>>

(* One transaction is over and its outcome is on disk; the next one reloads
   the ledger.  The file is replaced atomically, all entries at once.        *)
EndTransaction(p, entry, nextPhase) ==
  /\ ledger' = [loaded[p] EXCEPT ![request[p].src] = entry]
  /\ Goto(p, nextPhase, "ready")
  /\ Release(p)
  /\ Forget(p)
  /\ loaded' = [loaded EXCEPT ![p] = NothingRecorded]
  /\ UNCHANGED <<file, unreadable, corrupt, catchUp, found, worker, history>>

(* _advance_ledger_from_response: the recorded digest is that of the uploaded
   snapshot, not of the file as it is by now.  The first batch ends phase
   "first" (batch_limit=1).                                                  *)
RecordAcknowledged(p) ==
  /\ step[p] = "answered" /\ answer[p].status = "accepted"
  /\ EndTransaction(p, request[p].prefix \o request[p].content,
                    IF phase[p] = "first" THEN "current" ELSE phase[p])

(* Mistake: the whole rejected range counts as acknowledged. *)
ReconcileToRequestEnd(p) ==
  LET r == request[p]  proof == answer[p].proof IN
  /\ step[p] = "answered" /\ answer[p].status = "conflict"
  /\ Reconcilable(p, r, proof)
  /\ EndTransaction(p, r.prefix \o r.content, phase[p])

(* _reconcile_source_sequence_conflict succeeds.  The loop goes on without
   counting a batch.                                                         *)
ReconcileWatermark(p) ==
  LET r == request[p]  proof == answer[p].proof IN
  /\ step[p] = "answered" /\ answer[p].status = "conflict"
  /\ Reconcilable(p, r, proof)
  /\ EndTransaction(p, r.prefix \o SubSeq(r.content, 1, proof.end - r.start), phase[p])

(* Any other 409 is an error, and an error ends the run. *)
ConflictEndsRun(p) ==
  /\ step[p] = "answered" /\ answer[p].status = "conflict"
  /\ ~Reconcilable(p, request[p], answer[p].proof)
  /\ EndRun(p)
  /\ UNCHANGED <<disk, worker, history>>

(* _idle_root_scan_paths.  Without --include-active, files modified within
   the grace period are left out, which can be any of them.  Nothing found
   ends the run at the next loop.                                            *)
ScanRoots(p) ==
  /\ phase[p] = "scan"
  /\ TimeLeft(p)
  /\ \E others \in SUBSET (Source \ OwnSources(p)) :
       /\ p \in StartupHook => others = Source \ OwnSources(p)
       /\ found' = [found EXCEPT ![p] = others]
       /\ Goto(p, IF others = {} THEN "off" ELSE "idle", "ready")
  /\ UNCHANGED <<disk, lock, loaded, request, answer, worker, history>>

(* The catch-up deadline was over before it began. *)
NoCatchUp(p) ==
  /\ phase[p] \notin {"off", "first"}
  /\ ~catchUp
  /\ EndRun(p)
  /\ UNCHANGED <<disk, worker, history>>
-----------------------------------------------------------------------------
(* Faults of a run: every one of them ends it and frees the lock. *)

CountFault == faults < MaxFaults /\ faults' = faults + 1

(* CollectDeadlineExceeded: while polling for the lock, while building the
   batch, or while scanning (a truncated scan uploads no idle source).       *)
DeadlineExceeded(p) ==
  /\ phase[p] # "off" /\ step[p] \in {"ready", "locked"}
  /\ CountFault
  /\ EndRun(p)
  /\ UNCHANGED <<disk, worker, replaced, earlier, mistaken, ledgerLost, mishaps>>

(* The request times out, its response is lost, or the process dies.  What is
   on the wire stays there.                                                  *)
Abandon(p) ==
  /\ phase[p] # "off"
  /\ CountFault
  /\ stray' = IF step[p] = "posted" THEN stray \cup {request[p]} ELSE stray
  /\ EndRun(p)
  /\ UNCHANGED <<disk, watermark, archive, replaced, earlier, mistaken, ledgerLost, mishaps>>

(* A 5xx, a 401 or a malformed response: raised out of the run. *)
WorkerRefuses(p) ==
  /\ step[p] = "posted"
  /\ CountFault
  /\ EndRun(p)
  /\ UNCHANGED <<disk, worker, replaced, earlier, mistaken, ledgerLost, mishaps>>
-----------------------------------------------------------------------------
(* The worker, one transaction per request. *)

IsDuplicate(r) == r.end <= watermark[r.src].end
IsContiguous(r) == watermark[r.src].end = 0 \/ r.start = watermark[r.src].end

Commit(r) ==
  /\ watermark' = [watermark EXCEPT ![r.src] =
                     [start |-> r.start, end |-> r.end, content |-> r.content]]
  /\ archive' = [archive EXCEPT ![r.src] = @ \o r.content]

Respond(p, a) ==
  /\ answer' = [answer EXCEPT ![p] = a]
  /\ step' = [step EXCEPT ![p] = "answered"]

(* The bytes of the file that r was cut from, up to where r ends. *)
Upto(r) == r.prefix \o r.content

(* A duplicate is told by its offsets alone, whatever bytes it carries. *)
WorkerHandles(p) ==
  LET r == request[p] IN
  /\ step[p] = "posted"
  /\ \/ /\ IsDuplicate(r)
        /\ Respond(p, Accepted)
        /\ mistaken' = IF Begins(Upto(r), archive[r.src]) THEN mistaken
                                                         ELSE mistaken \cup {r.src}
        /\ UNCHANGED <<watermark, archive>>
     \/ /\ ~IsDuplicate(r) /\ IsContiguous(r)
        /\ Commit(r)
        /\ Respond(p, Accepted)
        /\ UNCHANGED mistaken
     \/ /\ ~IsDuplicate(r) /\ ~IsContiguous(r)
        /\ Respond(p, Conflict(watermark[r.src]))
        /\ UNCHANGED <<watermark, archive, mistaken>>
  /\ UNCHANGED <<disk, lock, phase, found, loaded, request, stray,
                 replaced, earlier, ledgerLost, faults, mishaps>>

(* A request whose sender is gone reaches the worker late. *)
WorkerHandlesStray(r) ==
  /\ stray' = stray \ {r}
  /\ IF ~IsDuplicate(r) /\ IsContiguous(r)
     THEN Commit(r)
     ELSE UNCHANGED <<watermark, archive>>
  /\ UNCHANGED <<disk, lock, run, history>>
-----------------------------------------------------------------------------
(* The hosts that write the transcripts, and what can happen to files. *)

HostAppends(s) ==
  /\ \E bytes \in Written :
       /\ Len(file[s]) + Len(bytes) <= MaxFileBytes
       /\ file' = [file EXCEPT ![s] = @ \o bytes]
  /\ UNCHANGED <<unreadable, ledger, corrupt, catchUp, lock, run, worker, history>>

Happens(mishap) ==
  /\ mishap \in Mishap
  /\ mishaps < MaxMishaps
  /\ mishaps' = mishaps + 1

(* Truncation, rotation or a rewrite at the same path. *)
FileReplaced(s) ==
  /\ Happens("replaced")
  /\ \E bytes \in Replacement :
       /\ ~Begins(file[s], bytes)
       /\ file' = [file EXCEPT ![s] = bytes]
  /\ replaced' = replaced \cup {s}
  /\ earlier' = [earlier EXCEPT ![s] = @ \cup {file[s]}]
  /\ UNCHANGED <<unreadable, ledger, corrupt, catchUp, lock, run, worker,
                 mistaken, ledgerLost, faults>>

FileLost(s) ==
  /\ Happens("lost")
  /\ unreadable' = unreadable \cup {s}
  /\ UNCHANGED <<file, ledger, corrupt, catchUp, lock, run, worker,
                 replaced, earlier, mistaken, ledgerLost, faults>>

(* Between two transactions; inside one, the ledger is replaced as a whole. *)
LedgerCorrupted ==
  /\ lock = NoProcess
  /\ Happens("corrupted")
  /\ corrupt' = TRUE
  /\ ledgerLost' = TRUE
  /\ UNCHANGED <<file, unreadable, ledger, catchUp, lock, run, worker,
                 replaced, earlier, mistaken, faults>>
-----------------------------------------------------------------------------
Collect(p) ==
  \/ StartCollect(p) \/ LockAndLoad(p) \/ PostBatch(p) \/ NothingToUpload(p)
  \/ RecordAcknowledged(p) \/ ReconcileWatermark(p) \/ ConflictEndsRun(p)
  \/ ScanRoots(p) \/ NoCatchUp(p)

Fault(p) == DeadlineExceeded(p) \/ Abandon(p) \/ WorkerRefuses(p)

Environment ==
  \/ \E s \in Source : HostAppends(s) \/ FileReplaced(s) \/ FileLost(s)
  \/ LedgerCorrupted

Next ==
  \/ \E p \in Process : Collect(p) \/ Fault(p) \/ WorkerHandles(p)
  \/ \E r \in stray : WorkerHandlesStray(r)
  \/ Environment

Spec == Init /\ [][Next]_vars

(* Hooks keep firing; a run is a running process and never stops by itself;
   the worker answers.  A run polls for the lock every 50 ms and lets go of
   it after each request, so a run that keeps polling finds it free.         *)
Fairness ==
  \A p \in Process : /\ WF_vars(Collect(p) \/ WorkerHandles(p))
                     /\ SF_vars(LockAndLoad(p))

FairSpec == Spec /\ Fairness
-----------------------------------------------------------------------------
TypeOK ==
  /\ file \in [Source -> Seq(Byte)]
  /\ unreadable \subseteq Source
  /\ ledger \in [Source -> Seq(Byte)]
  /\ corrupt \in BOOLEAN
  /\ catchUp \in BOOLEAN
  /\ lock \in Process \cup {NoProcess}
  /\ phase \in [Process -> Phase]
  /\ step \in [Process -> Step]
  /\ found \in [Process -> SUBSET Source]
  /\ loaded \in [Process -> [Source -> Seq(Byte)]]
  /\ request \in [Process -> Request \cup {NoRequest}]
  /\ answer \in [Process -> Answer]
  /\ watermark \in [Source -> CommittedRange]
  /\ archive \in [Source -> Seq(Byte)]
  /\ stray \subseteq Request
  /\ replaced \subseteq Source
  /\ earlier \in [Source -> SUBSET Seq(Byte)]
  /\ mistaken \subseteq Source
  /\ ledgerLost \in BOOLEAN
  /\ faults \in Nat
  /\ mishaps \in Nat

(* The transcript only ever grew and the ledger was never lost. *)
Undisturbed(s) == s \notin replaced /\ ~ledgerLost

(* What the ledger says was acknowledged was committed, byte for byte: no
   record is skipped, whatever happened to files, requests and runs.  There is
   one way out, and only a replaced transcript gets there: the new file ends
   at or below the worker's watermark, and the worker takes its range for a
   duplicate of the old file's.                                              *)
ClaimsAreCommitted ==
  /\ mistaken \subseteq replaced
  /\ \A s \in Source \ mistaken : Begins(ledger[s], archive[s])

(* Timeouts, late requests, two collectors and lost ledgers leave the worker
   with an exact copy of the beginning of a transcript that only grew:
   nothing missing, repeated or reordered, and no half-written record.       *)
ArchiveIsTranscript ==
  \A s \in Source \ replaced :
    /\ Begins(archive[s], file[s])
    /\ archive[s] # <<>> => archive[s][Len(archive[s])] = Newline
    /\ Len(archive[s]) = watermark[s].end
    /\ Begins(ledger[s], archive[s])

(* However many answers are lost, the worker is at most one committed range
   ahead of the ledger, and that range starts where the ledger ends.         *)
WorkerOneRangeAhead ==
  \A s \in Source :
    Undisturbed(s) /\ watermark[s].end > Len(ledger[s]) =>
      watermark[s].start = Len(ledger[s])

(* So a sequence conflict on an undisturbed source is always one the run can
   reconcile, never an error that would end every later run as well.         *)
ConflictsReconcile ==
  \A p \in Process :
    /\ step[p] = "answered"
    /\ answer[p].status = "conflict"
    /\ Undisturbed(request[p].src)
    => Reconcilable(p, request[p], answer[p].proof)

(* What has been in the file at one time, as a whole. *)
Generations(s) == earlier[s] \cup {file[s]}

(* Two generations of a file are never mixed: what the worker has of a source
   is the beginning of one file that was there, even if it was truncated,
   rotated or rewritten between, or during, two uploads.  The mistaken
   sources are the exception here, too: once a new file is acknowledged as a
   duplicate, its next range is committed behind the bytes of the old one.   *)
ArchiveIsOneGeneration ==
  \A s \in Source \ mistaken :
    \E generation \in Generations(s) : Begins(archive[s], generation)

(* The ledger is forward-only: no run, however stale, takes back what another
   run recorded for a source that only grew.                                 *)
LedgerForwardOnly ==
  [][\A s \in Source : Undisturbed(s)' => Begins(ledger[s], ledger'[s])]_vars

(* Every complete record of a source is committed and acknowledged. *)
Uploaded(s) ==
  /\ ~HasRange(file[s], Len(ledger[s]))
  /\ ledger[s] = archive[s]

(* Unless files are replaced or the ledger is lost, every readable transcript
   is uploaded to its last complete record, whatever was lost on the way, and
   an unreadable one does not hold up the others.  Without any time for
   catch-up this still holds of the hooks' own transcripts, whose first
   request has a deadline of its own.                                        *)
EverythingUploaded ==
  \A s \in Source :
    \/ <>(s \in unreadable \/ replaced # {} \/ ledgerLost)
    \/ ~catchUp /\ s \notin {TranscriptOf[p] : p \in Process}
    \/ <>[]Uploaded(s)

(* While transcripts only grow and the ledger is not lost, all of this is an
   in-order delivery of whole records.                                       *)
Delivery == INSTANCE TranscriptDelivery
  WITH transcript <- file, delivered <- archive, acknowledged <- ledger
IsDelivery == Delivery!Spec
=============================================================================
